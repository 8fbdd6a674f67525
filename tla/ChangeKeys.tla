----------------------------- MODULE ChangeKeys -----------------------------
(***************************************************************************)
(* What a change key promises its requester (security 08, the effect point's *)
(* key table as internal/effectpoint/change.go keeps it): asked any number   *)
(* of times, before or after crashes, it is answered once and for all, and   *)
(* the answer is "applied" exactly when the change took place.  A restore of *)
(* the database takes every key back to where the backup had it.             *)
(***************************************************************************)
CONSTANT Keys

Answers == {"none", "waiting", "applied", "rejected"}

VARIABLES
  now,   \* each key's answer, and whether its change took place
  kept   \* the same in the backup

KeyStates == [answer: Answers, done: BOOLEAN]

TypeOK == now \in [Keys -> KeyStates] /\ kept \in [Keys -> KeyStates]

Init ==
  /\ now = [k \in Keys |-> [answer |-> "none", done |-> FALSE]]
  /\ kept = now

\* an answer is settled once; the change takes place in the very step that settles it
Settles(from, to) ==
  \/ to = from
  \/ /\ from.answer \in {"none", "waiting"} /\ ~from.done
     /\ to.answer = "waiting" => from.answer = "none"
     /\ to.answer # "none"
     /\ to.done = (to.answer = "applied")

\* one transaction: a change, and what it ends or brings into effect
Change ==
  /\ now' \in [Keys -> KeyStates]
  /\ \A k \in Keys : Settles(now[k], now'[k])
  /\ UNCHANGED kept

Backup == kept' = now /\ UNCHANGED now

Restore == now' = kept /\ UNCHANGED kept

Next == Change \/ Backup \/ Restore

Spec == Init /\ [][Next]_<<now, kept>>

\* A key that says applied is one whose change took place.
AppliedIsDone == \A k \in Keys : now[k].done = (now[k].answer = "applied")
=============================================================================
