------------------------------ MODULE MCUnits ------------------------------
(***************************************************************************)
(* Instances of Units for TLC.                                             *)
(***************************************************************************)
EXTENDS Units, TLC

CONSTANTS root, u1, u2, u3, u4, g1, a1, a2, b1

\* Two kinds of atom on the one dimension scopes speak of.
AtomKinds == a1 :> "in" @@ a2 :> "in" @@ b1 :> "tree"

\* The behaviours of Spec in which units are only made and renewed: a loop needs no more.
RenewalsOnly == Init /\ [][Submits \/ \E r \in Records : Due(r)]_vars

=============================================================================
