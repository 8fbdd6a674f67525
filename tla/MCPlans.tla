------------------------------ MODULE MCPlans ------------------------------
(* Instances of Plans for TLC. *)
EXTENDS Plans

CONSTANTS p1, q1, q2, r1
=============================================================================
