------------------------------- MODULE Decide -------------------------------
(***************************************************************************)
(* The effect point's decision table (internal/core/decide.go): what one   *)
(* security change comes to, from the facts the effect point reads under   *)
(* the deployment's guard.  Rows are tried in order, the first that holds  *)
(* decides; a change no row holds back is applied.  The table is the       *)
(* member's only judge: every entry (a user's request, a saved record's    *)
(* job, a replay) builds its facts and asks it.                            *)
(***************************************************************************)
EXTENDS Naturals

\* The three values of what can be proved of an account or of a set of admins.
Proof == {"proven", "disproven", "unprovable"}

Kinds == {"widen", "tighten", "terminate", "restore_security_hold", "restore_uncomputable", "neutral"}

Triggers == {"user", "job", "recovery"}

\* What an attached confirmation is judged to be: none attached, or one of two.
Confirmations == {"none", "valid", "invalid"}

\* What the effect point knows of one change.
Facts ==
  [key: {"free", "same", "other"}, kind: Kinds, trigger: Triggers,
   fromState: BOOLEAN, fromRevision: BOOLEAN,
   recoveryCredential: BOOLEAN, recoveryStep: BOOLEAN, terminatorEligible: BOOLEAN, rejection: BOOLEAN,
   eligible: Proof, quarantined: BOOLEAN, lastApplied: BOOLEAN, beyondTight: BOOLEAN,
   affectsAdmins: BOOLEAN, confirmation: Confirmations, confirmersProvable: BOOLEAN,
   recoveryPending: BOOLEAN, managementWiden: BOOLEAN, memberSwitch: BOOLEAN,
   revisionsChanged: BOOLEAN, contained: BOOLEAN, overBudget: BOOLEAN,
   needsConfirmation: BOOLEAN, tightenNeedsConfirmation: BOOLEAN,
   restoredEmpty: BOOLEAN, disposition: BOOLEAN, adminsAfter: Proof,
   future: BOOLEAN, partlyOutside: BOOLEAN]

\* What factsOf starts from: nothing stands in the way, the requester not looked at yet.
FreshFacts ==
  [key |-> "free", kind |-> "widen", trigger |-> "user",
   fromState |-> TRUE, fromRevision |-> TRUE,
   recoveryCredential |-> FALSE, recoveryStep |-> FALSE, terminatorEligible |-> FALSE, rejection |-> FALSE,
   eligible |-> "unprovable", quarantined |-> FALSE, lastApplied |-> FALSE, beyondTight |-> FALSE,
   affectsAdmins |-> FALSE, confirmation |-> "none", confirmersProvable |-> TRUE,
   recoveryPending |-> FALSE, managementWiden |-> FALSE, memberSwitch |-> FALSE,
   revisionsChanged |-> FALSE, contained |-> TRUE, overBudget |-> FALSE,
   needsConfirmation |-> FALSE, tightenNeedsConfirmation |-> FALSE,
   restoredEmpty |-> FALSE, disposition |-> FALSE, adminsAfter |-> "proven",
   future |-> FALSE, partlyOutside |-> FALSE]

Tightens(f) == f.kind \in {"tighten", "terminate"}
Restores(f) == f.kind \in {"restore_security_hold", "restore_uncomputable"}
\* the widenings and restores that wait while management is being recovered or switched
Waits(f) == f.kind = "widen" \/ Restores(f)

\* The rows' conditions, in the order they are tried.
RowConditions(f) ==
  LET stale == ~f.fromState \/ ~f.fromRevision
      unproven == f.eligible # "proven"
      recovering == f.recoveryPending /\ f.managementWiden /\ Waits(f)
      confirmable == f.kind \in {"widen", "tighten", "restore_security_hold"}
      secondPerson == /\ f.kind \in {"tighten", "restore_security_hold"}
                      /\ f.tightenNeedsConfirmation \/ (unproven /\ f.beyondTight)
      protected == f.kind = "tighten" /\ f.affectsAdmins /\ ~f.disposition
  IN <<
    f.key = "same",                                                                     \* 1
    f.key = "other",                                                                    \* 2
    f.trigger = "job" /\ stale,                                                         \* 3
    f.trigger = "user" /\ stale,                                                        \* 4
    f.trigger = "recovery" /\ f.recoveryCredential /\ f.recoveryStep /\ confirmable,     \* 5
    f.trigger = "recovery",                                                             \* 6
    f.kind = "terminate" /\ f.trigger = "user" /\ f.terminatorEligible,                 \* 7
    f.eligible = "disproven" /\ f.kind # "restore_uncomputable",                        \* 8
    unproven /\ (f.kind \in {"widen", "restore_security_hold"} \/ (f.kind = "terminate" /\ f.rejection)), \* 9
    unproven /\ Tightens(f) /\ f.quarantined,                                           \* 10
    unproven /\ Tightens(f) /\ ~f.lastApplied,                                          \* 11
    unproven /\ Tightens(f) /\ f.affectsAdmins /\ f.confirmation = "none",              \* 12
    recovering /\ f.trigger = "user",                                                   \* 13
    recovering,                                                                         \* 14
    f.memberSwitch /\ Waits(f) /\ f.trigger = "user",                                   \* 15
    f.memberSwitch /\ Waits(f),                                                         \* 16
    f.revisionsChanged,                                                                 \* 17
    f.kind = "widen" /\ ~f.contained,                                                   \* 18
    f.kind = "widen" /\ f.overBudget,                                                   \* 19
    f.kind = "widen" /\ f.needsConfirmation /\ f.confirmation = "none",                 \* 20
    secondPerson /\ f.confirmation = "none",                                            \* 21
    confirmable /\ f.confirmation # "none" /\ ~f.confirmersProvable,                    \* 22
    f.kind = "widen" /\ f.confirmation = "invalid",                                     \* 23
    f.kind \in {"tighten", "restore_security_hold"} /\ f.confirmation = "invalid",               \* 24
    Restores(f) /\ f.restoredEmpty,                                                     \* 25
    Restores(f) /\ f.overBudget,                                                        \* 26
    protected /\ f.adminsAfter = "disproven",                                           \* 27
    protected /\ f.adminsAfter # "proven",                                              \* 28
    f.kind = "widen" /\ f.future,                                                       \* 29
    Restores(f) /\ f.partlyOutside,                                                     \* 30
    TRUE >>                                                                             \* applied

\* The first row that holds; 31 is the applied end of the code's row 30.
Row(f) ==
  LET holds == RowConditions(f)
  IN CHOOSE n \in 1..31 : holds[n] /\ \A k \in 1..31 : k < n => ~holds[k]

\* What each row answers.
RowOutcome ==
  << "returned", "rejected", "void", "rejected", "applied", "rejected", "applied", "rejected",
     "processing", "retryable", "retryable", "processing", "retryable", "processing",
     "retryable", "processing", "rejected", "rejected", "rejected",
     "awaiting_saved", "awaiting_unsaved", "processing", "awaiting_saved", "awaiting_unsaved",
     "kept_held", "kept_held", "rejected", "processing", "scheduled", "applied_review", "applied" >>

Outcome(f) == RowOutcome[Row(f)]

=============================================================================
