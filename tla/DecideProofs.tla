---------------------------- MODULE DecideProofs ----------------------------
(* Lemmas about the decision table, for every record of facts. *)
EXTENDS Decide, TLAPS

(* The row that decides holds, and none before it does. *)
LEMMA RowIsFirst ==
  ASSUME NEW f
  PROVE  /\ Row(f) \in 1..31
         /\ RowConditions(f)[Row(f)]
         /\ \A k \in 1..31 : k < Row(f) => ~RowConditions(f)[k]
<1> DEFINE c == RowConditions(f)
<1>1. c[31]
  BY DEF RowConditions
<1> DEFINE G(n) == c[n] /\ \A k \in 1..31 : k < n => ~c[k]
<1>2. \E n \in 1..31 : G(n)
  <2> HIDE DEF c
  <2>1. SUFFICES ASSUME \A n \in 1..31 : ~G(n) PROVE FALSE
    OBVIOUS
  <2> QED BY <1>1, <2>1
<1>3. QED BY <1>2 DEF Row

(* Only three rows answer "applied": a recovery step, an eligible terminator's end, and the table's end. *)
LEMMA AppliedRows ==
  ASSUME NEW f, Outcome(f) = "applied"
  PROVE  Row(f) \in {5, 7, 31}
<1>1. Row(f) \in 1..31
  BY RowIsFirst
<1>2. QED BY <1>1 DEF Outcome, RowOutcome

(* A change applied by the table's end (no recovery, no termination by its own row) passed every row before it. *)
LEMMA AppliedPassed ==
  ASSUME NEW f, Outcome(f) = "applied", f.trigger # "recovery", f.kind # "terminate"
  PROVE  /\ Row(f) = 31
         /\ \A k \in 1..30 : ~RowConditions(f)[k]
<1>1. Row(f) \in {5, 7, 31}
  BY AppliedRows
<1>2. RowConditions(f)[Row(f)]
  BY RowIsFirst
<1>3. Row(f) # 5 /\ Row(f) # 7
  <2>1. ~RowConditions(f)[5] /\ ~RowConditions(f)[7]
    BY DEF RowConditions
  <2>2. QED BY <1>2, <2>1
<1>4. QED BY <1>1, <1>3, RowIsFirst

(* What an ordinary applied tightening has been held to: the last-admin rows 27 and 28. *)
LEMMA AppliedTightening ==
  ASSUME NEW f, Outcome(f) = "applied", f.trigger = "user", f.kind = "tighten",
         f.affectsAdmins = TRUE, f.disposition = FALSE
  PROVE  f.adminsAfter = "proven"
<1>1. \A k \in 1..30 : ~RowConditions(f)[k]
  BY AppliedPassed
<1>2. ~RowConditions(f)[28]
  BY <1>1
<1>3. QED BY <1>2 DEF RowConditions

(* An applied widening: its requester proven eligible, what it depends on unmoved, contained, within budget,
   confirmed by somebody who can be proven, and neither recovery nor a member switch in the way. *)
LEMMA AppliedWidening ==
  ASSUME NEW f, Outcome(f) = "applied", f.trigger \in {"user", "job"}, f.kind = "widen", f \in Facts
  PROVE  /\ f.eligible = "proven" /\ f.fromState /\ f.fromRevision
         /\ ~f.revisionsChanged /\ f.contained /\ ~f.overBudget
         /\ ~f.memberSwitch /\ ~(f.recoveryPending /\ f.managementWiden)
         /\ f.needsConfirmation => f.confirmation = "valid" /\ f.confirmersProvable
         /\ ~f.future
<1>1. \A k \in 1..30 : ~RowConditions(f)[k]
  BY AppliedPassed
<1>2. /\ ~RowConditions(f)[3] /\ ~RowConditions(f)[4] /\ ~RowConditions(f)[8] /\ ~RowConditions(f)[9]
      /\ ~RowConditions(f)[14] /\ ~RowConditions(f)[16] /\ ~RowConditions(f)[17]
  BY <1>1
<1>3. /\ ~RowConditions(f)[18] /\ ~RowConditions(f)[19] /\ ~RowConditions(f)[20]
      /\ ~RowConditions(f)[22] /\ ~RowConditions(f)[23] /\ ~RowConditions(f)[29]
  BY <1>1
<1>4. f.fromState /\ f.fromRevision /\ f.eligible = "proven"
  BY <1>2 DEF RowConditions, Facts, Proof
<1>5. ~f.memberSwitch /\ ~(f.recoveryPending /\ f.managementWiden) /\ ~f.revisionsChanged
  BY <1>2 DEF RowConditions, Facts, Waits
<1>6. f.contained /\ ~f.overBudget /\ ~f.future
  BY <1>3 DEF RowConditions, Facts
<1>7. f.needsConfirmation => f.confirmation = "valid" /\ f.confirmersProvable
  BY <1>3 DEF RowConditions, Facts, Confirmations
<1>8. QED BY <1>4, <1>5, <1>6, <1>7
=============================================================================
