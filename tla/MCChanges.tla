----------------------------- MODULE MCChanges -----------------------------
(***************************************************************************)
(* Instances of Changes for TLC: one key for a widening, one for a          *)
(* tightening of the record it leaves.                                      *)
(***************************************************************************)
EXTENDS Changes, TLC

CONSTANTS w, t

Widening(ask) == [key |-> w, of |-> [ask |-> ask, on |-> None, at |-> 0]]
Tightening(ask, at) == [key |-> t, of |-> [ask |-> ask, on |-> <<w, 1>>, at |-> at]]

Few == {Widening("grant"), Widening("unit"), Tightening("narrow", 1), Tightening("revoke", 0), Tightening("cancel", 1)}
Ended == {Widening("later"), Tightening("revoke", 0), Tightening("cancel", 1)}

\* Once a recovery is over nothing reads the evidence, the backup or what was queued again but the properties: states that differ
\* only in what these do not tell apart are one.
View ==
  IF Recovered
  THEN <<[db EXCEPT !.history = {}, !.outbox = SelectSeq(@, LAMBDA e : e.phase = "cancelled")], issued, calls, before, took,
         {r \in Ids : ForReview(r)}, KnownByName>>
  ELSE vars
=============================================================================
