------------------------------ MODULE MCAdmins ------------------------------
(***************************************************************************)
(* Instances of Admins for TLC: small sets of model values, each           *)
(* configuration turning on one family of behaviours.                      *)
(***************************************************************************)
EXTENDS Admins, TLC

CONSTANTS p1, p2, p3, h1, h2, h3, h4

NoSeat == << >>
OneSeat == h1 :> p1
TwoSeats == h1 :> p1 @@ h2 :> p2
ThreeSeats == TwoSeats @@ h3 :> p3

\* The two admins seated by TwoSeats may trade places, each with its holding.
TradePlaces ==
  {f \in Permutations({p1, p2, h1, h2}) : {<<f[p1], f[h1]>>, <<f[p2], f[h2]>>} = {<<p1, h1>>, <<p2, h2>>}}

\* Without the owner's key no rule reads an ended record, but as the predecessor of another: states that differ only
\* in whose it was and how it ended are one state.
Ended(row) == IF row.state \in EndedStates THEN [Unwritten EXCEPT !.state = "ended/revoked"] ELSE row
View == << [h \in Holdings |-> Ended(holding[h])],
           account, seen, source, vouched, closures, disposition, deployment >>

\* Where no status ends an account a closure changes nothing but itself: states that differ only in the closures
\* still to come are one state.
NothingEnds == Statuses \cap {"disabled", "absent"} = {} /\ Newcomers = {}
BesideClosures == << IF NothingEnds THEN {} ELSE closures,
                     holding, account, seen, source, vouched, disposition, deployment, after, recent >>

=============================================================================
