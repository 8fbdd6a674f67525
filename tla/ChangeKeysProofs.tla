--------------------------- MODULE ChangeKeysProofs ---------------------------
(***************************************************************************)
(* What the promise of ChangeKeys comes to, for any keys.                   *)
(***************************************************************************)
EXTENDS ChangeKeys, TLAPS

\* In the database as it is and in its backup.
Promised == TypeOK /\ \A k \in Keys : (now[k].done <=> now[k].answer = "applied") /\ (kept[k].done <=> kept[k].answer = "applied")

(* A key settled is again one that says applied exactly when it is done. *)
LEMMA SettledTruly ==
  ASSUME NEW from \in KeyStates, NEW to \in KeyStates, from.done <=> from.answer = "applied", Settles(from, to)
  PROVE  to.done <=> to.answer = "applied"
BY DEF Settles, KeyStates

(* Whatever is asked, kept or put back, a key answers applied exactly when its change took place: the answers a requester of the
   effect point gets (change.go, current) are never of a change that has not happened. *)
THEOREM AppliedTruly == Spec => []AppliedIsDone
<1>1. Init => Promised
  BY DEF Init, Promised, TypeOK, KeyStates, Answers
<1>2. Promised /\ [Next]_<<now, kept>> => Promised'
  <2> SUFFICES ASSUME Promised, [Next]_<<now, kept>> PROVE Promised'
    OBVIOUS
  <2>1. CASE Change
    <3>1. ASSUME NEW k \in Keys PROVE now'[k].done <=> now'[k].answer = "applied"
      BY <2>1, SettledTruly DEF Promised, TypeOK, Change
    <3> QED BY <2>1, <3>1 DEF Promised, TypeOK, Change
  <2>2. CASE Backup
    BY <2>2 DEF Promised, TypeOK, Backup
  <2>3. CASE Restore
    BY <2>3 DEF Promised, TypeOK, Restore
  <2>4. CASE UNCHANGED <<now, kept>>
    BY <2>4 DEF Promised, TypeOK
  <2> QED BY <2>1, <2>2, <2>3, <2>4 DEF Next
<1>3. Promised => AppliedIsDone
  BY DEF Promised, TypeOK, KeyStates, AppliedIsDone
<1> QED BY <1>1, <1>2, <1>3, PTL DEF Spec
=============================================================================
