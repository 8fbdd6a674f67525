------------------------------- MODULE Admins -------------------------------
(***************************************************************************)
(* The deployment's authorization admins: their holdings (records of type   *)
(* management_holding with the system role authorization_admin, all in the  *)
(* root unit), the dispositions that hold them, the identity source's       *)
(* account statuses, and the deployment's admin state.  Each action is one  *)
(* transaction under the row lock on authz_state, so transactions           *)
(* interleave and their statements do not.  What they decide is Decide's    *)
(* table; where records may go is Lifecycle's.                              *)
(*                                                                          *)
(* A person's request that changes nothing (rejected without a record,      *)
(* retryable, processing) is no step.  Confirmations a tightening carries   *)
(* are judged again when it enters, from the facts of that moment, by a     *)
(* judgement at least as strict as the one that recorded them: they are a   *)
(* parameter of the request.  A saved holding's confirmations are kept.     *)
(***************************************************************************)
EXTENDS Decide, Lifecycle, FiniteSets

CONSTANTS
  Persons,       \* principals
  Owner,         \* the deployment owner, who holds offline keys and no record
  None,
  Holdings,      \* identities of holding records
  Dispositions,  \* identities of dispositions
  Requesters,    \* who submits changes
  Newcomers,     \* persons the identity source has not told of yet
  Statuses,      \* account statuses the source may tell
  SourceStates,  \* how fresh the source's facts may be
  Recoverable,   \* identities a recovery request may restore
  Timed,         \* holdings may carry valid_until
  Renewal,       \* a widening may name a predecessor
  Later,         \* a widening may carry effective_from
  OwnerKey,      \* AUTHZ_OWNER_KEY is configured
  Vouching,      \* confirmations of account status changes are recorded
  Seats,         \* the admin holdings in force at the start, and whose they are
  MaxRefs        \* bound: signals in one identity-side disposition

AllStatuses == {"active", "disabled", "frozen", "unproven", "absent"}

ASSUME Parameters ==
  /\ Owner \notin Persons /\ None \notin Persons /\ Owner # None
  /\ None \notin Holdings /\ None \notin Dispositions
  /\ Requesters \subseteq Persons /\ Newcomers \subseteq Persons /\ Recoverable \subseteq Persons
  /\ Statuses \subseteq AllStatuses \ {"absent"}
  /\ SourceStates \subseteq {"fresh", "aged", "stalled"} /\ "fresh" \in SourceStates
  /\ {Timed, Renewal, Later, OwnerKey, Vouching} \subseteq BOOLEAN
  /\ MaxRefs \in Nat \ {0}
  /\ DOMAIN Seats \subseteq Holdings /\ \A h \in DOMAIN Seats : Seats[h] \in Persons \ Newcomers
  /\ \A g, h \in DOMAIN Seats : Seats[g] = Seats[h] => g = h

VARIABLES
  holding,      \* the holding records, with their confirmations and work items
  account,      \* each person's status as last applied
  seen,         \* authz_account_seen and authz_account_signal: the last complete status
  source,       \* what the identity source's watermark proves
  vouched,      \* unused confirmations of the account active, at its current version
  closures,     \* account closures enqueued
  disposition,  \* authz_disposition
  deployment,   \* authz_state: admin state, where a recovery was entered from, whom it restores
  after,        \* the order of updated_at: <<x, y>> when y was written after x
  recent        \* those updated within the cooling-off

vars == <<holding, account, seen, source, vouched, closures, disposition, deployment, after, recent>>

-----------------------------------------------------------------------------
(* Rows *)

Confirmers == Persons \cup {Owner}
Somebody == Confirmers \cup {None}

HoldingRows ==
  [state: States, holder: Somebody, by: Somebody, pred: Holdings \cup {None}, disp: Dispositions \cup {None},
   backfill: BOOLEAN, until: {"open", "ahead", "past"}, expires: BOOLEAN, later: BOOLEAN,
   cooling: {"none", "on", "over"}, last: Somebody, confirmed: SUBSET Confirmers,
   jobs: SUBSET {"confirmed", "scheduled"}]

Unwritten ==
  [state |-> "none", holder |-> None, by |-> None, pred |-> None, disp |-> None,
   backfill |-> FALSE, until |-> "open", expires |-> FALSE, later |-> FALSE,
   cooling |-> "none", last |-> None, confirmed |-> {}, jobs |-> {}]

DispositionRows ==
  [state: {"none", "active", "released"}, origin: {"none", "admin", "identity_side", "admin_recovery"},
   subject: Somebody, disposer: Somebody, refs: 0..MaxRefs]

NoDisposition == [state |-> "none", origin |-> "none", subject |-> None, disposer |-> None, refs |-> 0]

AdminStates == {"operational", "recovery_pending", "admin_recovery"}

\* an identity being recovered is named exactly while a recovery is on
DeploymentRows ==
  {d \in [state: AdminStates, from: {"operational", "recovery_pending", None}, identity: Persons \cup {None}] :
     d.state = "admin_recovery" <=> d.identity # None}

\* A deployment not yet claimed (no seats), or one in operation.
Init ==
  /\ holding = [h \in Holdings |-> IF h \in DOMAIN Seats THEN [Unwritten EXCEPT !.state = "active", !.holder = Seats[h]]
                                   ELSE Unwritten]
  /\ account = [p \in Persons |-> IF p \in Newcomers THEN "absent" ELSE "active"]
  /\ seen = [p \in Persons |-> IF p \in Newcomers THEN "none" ELSE "active"]
  /\ source = "fresh"
  /\ vouched = [p \in Persons |-> {}]
  /\ closures = {}
  /\ disposition = [d \in Dispositions |-> NoDisposition]
  /\ deployment = [state |-> "operational", from |-> None, identity |-> None]
  /\ after = {}
  /\ recent = {}

\* Whose change last_change names, which the owner's key alone reads; Owner stands for every author but a person
\* (the owner's recovery, the member's own jobs and signals), all alike to the one rule that reads it.
Author(a) == IF OwnerKey THEN a ELSE None

\* Mutants of Moved: the jobs of the revision before still run; a record effective again counts as a fresh one; one
\* awaiting again has lost its effective time.
MovedWithJobs(row, to, by) == [row EXCEPT !.state = to]
MovedAfresh(row, to, by) ==
  IF to \in EndedStates THEN [Unwritten EXCEPT !.state = to, !.holder = row.holder]
  ELSE [row EXCEPT !.state = to, !.jobs = {}, !.confirmed = IF to \in Effective THEN {} ELSE @,
                   !.backfill = @ /\ to # "active"]
MovedUntimed(row, to, by) ==
  IF to \in EndedStates THEN [Unwritten EXCEPT !.state = to, !.holder = row.holder, !.last = Author(by)]
  ELSE [row EXCEPT !.state = to, !.jobs = {}, !.later = FALSE]

\* Transition: the state moves, the jobs of the revision before are void, last_change stays when no change is named.
\* Of an ended record no rule reads more than whose it was and whose change ended it; of an effective one nobody
\* reads who asked for it or who confirmed it.
Moved(row, to, by) ==
  LET last == IF by = None THEN row.last ELSE Author(by)
  IN CASE to \in EndedStates -> [Unwritten EXCEPT !.state = to, !.holder = row.holder, !.last = last]
       [] to \in Effective -> [row EXCEPT !.state = to, !.jobs = {}, !.last = last, !.by = None, !.confirmed = {},
                                          !.later = FALSE, !.cooling = "none"]
       [] OTHER -> [row EXCEPT !.state = to, !.jobs = {}, !.last = last]

\* updated_at of the records a transaction writes, which the owner's key alone reads.
Touch(H) ==
  LET others == {h \in Holdings \ H : holding[h].state # "none"}
  IN IF OwnerKey
     THEN /\ after' = {pair \in after : pair[1] \notin H /\ pair[2] \notin H} \cup (others \X H)
          /\ recent' = recent \cup H
     ELSE UNCHANGED <<after, recent>>

\* an identity no record, or no disposition, has yet
Free(h) == holding[h].state = "none"
FreeDisposition(d) == disposition[d].state = "none"

-----------------------------------------------------------------------------
(* What is read of the records and of the source *)

ActiveOf(hs, p) == {h \in Holdings : hs[h].state = "active" /\ hs[h].holder = p}
EffectiveOf(hs, p) == {h \in Holdings : hs[h].state \in Effective /\ hs[h].holder = p}
\* within their validity, as core.Active reads them
InForceOf(hs, p) == {h \in ActiveOf(hs, p) : hs[h].until # "past"}

IsAdmin(p) == \E h \in InForceOf(holding, p) : ~holding[h].backfill

\* The account as the source proves it now: provable only when fresh and complete.
AccountNow(acct, p) ==
  IF source # "fresh" \/ acct[p] = "unproven" THEN "unprovable"
  ELSE IF acct[p] = "active" THEN "proven" ELSE "disproven"

\* A mutant of HoldersBut: judged before the change, not after.
HoldersBefore(hs, E) == {hs[h].holder : h \in {x \in Holdings : hs[x].state = "active" /\ ~hs[x].backfill}}

\* Who still holds an active admin holding once those in E are ended; validity is not looked at.
HoldersBut(hs, E) == {hs[h].holder : h \in {x \in Holdings \ E : hs[x].state = "active" /\ ~hs[x].backfill}}

AdminsAfter(hs, acct, E) ==
  LET found == {AccountNow(acct, p) : p \in HoldersBut(hs, E) \cap Persons}
  IN IF "proven" \in found THEN "proven" ELSE IF "unprovable" \in found THEN "unprovable" ELSE "disproven"

Claimed(hs) == \E h \in Holdings : hs[h].state # "none"

\* Mutants of Judged: by the records alone; before the claim as well; recovered by a holding whatever its account.
JudgedByRecords(d, hs, acct) ==
  IF d.state = "operational" /\ Claimed(hs) /\ HoldersBut(hs, {}) = {} THEN [d EXCEPT !.state = "recovery_pending"] ELSE d
JudgedUnclaimed(d, hs, acct) ==
  IF d.state = "operational" /\ AdminsAfter(hs, acct, {}) = "disproven" THEN [d EXCEPT !.state = "recovery_pending"] ELSE d
JudgedByHolding(d, hs, acct) ==
  CASE d.state = "operational" /\ Claimed(hs) /\ AdminsAfter(hs, acct, {}) = "disproven" ->
         [d EXCEPT !.state = "recovery_pending"]
    [] d.state = "admin_recovery" /\ d.identity \in Persons /\ ActiveOf(hs, d.identity) # {} ->
         [state |-> "operational", from |-> None, identity |-> None]
    [] OTHER -> d

\* JudgeAdmins, with recoveredYet: the deployment's state d judged again on hs and acct.
Judged(d, hs, acct) ==
  CASE d.state = "operational" /\ Claimed(hs) /\ AdminsAfter(hs, acct, {}) = "disproven" ->
         [d EXCEPT !.state = "recovery_pending"]
    [] d.state = "admin_recovery" /\ d.identity \in Persons /\ ActiveOf(hs, d.identity) # {}
         /\ AccountNow(acct, d.identity) = "proven" ->
         [state |-> "operational", from |-> None, identity |-> None]
    [] OTHER -> d

ConfirmerEligible(p) == IF IsAdmin(p) THEN AccountNow(account, p) ELSE "disproven"

\* adminsBesides: for each holder the row that says what it is, an active one if there is any, else the last
\* updated of all the others (whatever became of them) but the superseded.
Counted(p) == {h \in Holdings : holding[h].holder = p /\ holding[h].state \notin {"none", "ended/superseded"}}
Telling(p) ==
  LET rows == IF ActiveOf(holding, p) # {} THEN ActiveOf(holding, p) ELSE Counted(p)
  IN CHOOSE h \in rows : \A x \in rows : <<h, x>> \notin after
AdminsBesides(excluded) == {p \in Persons \ excluded : Counted(p) # {}}
Stands(p) == holding[Telling(p)].state = "active" /\ ~holding[Telling(p)].backfill

MadeUnavailableBy(r, excluded) ==
  OwnerKey /\ \E p \in AdminsBesides(excluded) :
    /\ ~Stands(p) /\ Telling(p) \in recent
    /\ holding[Telling(p)].state # "active" /\ holding[Telling(p)].last = r

RecentlyUnavailable(excluded) ==
  OwnerKey /\ \E p \in AdminsBesides(excluded) :
    IF Stands(p) THEN AccountNow(account, p) # "proven" ELSE Telling(p) \in recent

OthersAvailable(r, object) ==
  \/ \E p \in Persons \ {r, object} :
       AccountNow(account, p) = "proven" /\ \E h \in ActiveOf(holding, p) : ~holding[h].backfill
  \/ MadeUnavailableBy(r, {r, object})

\* One confirmation by c judged for a change of r's about object: the owner's stands for a tightening, and for a
\* widening only when nobody else is available.
Judgement(c, r, object, widens) ==
  CASE c = Owner -> IF widens /\ OthersAvailable(r, object) THEN "disproven" ELSE "proven"
    [] c # Owner /\ c \in {r, object} -> "disproven"
    [] OTHER -> ConfirmerEligible(c)

\* The confirmation a request carries, as facts (none, or one).
Carrying(f, c, r, object, widens) ==
  IF c = None THEN f
  ELSE LET j == Judgement(c, r, object, widens)
       IN [f EXCEPT !.confirmation = IF j = "disproven" THEN "invalid" ELSE "valid",
                    !.confirmersProvable = (j # "unprovable")]

MayCarry == {None} \cup Persons \cup (IF OwnerKey THEN {Owner} ELSE {})

\* The requester's eligibility: its standing, its account now, and by the last applied facts when not provable.
Eligible(f, r, structural) ==
  LET now == IF structural THEN AccountNow(account, r) ELSE "disproven"
  IN IF now # "unprovable" THEN [f EXCEPT !.eligible = now]
     ELSE [f EXCEPT !.eligible = now, !.lastApplied = (account[r] = "active"),
                    !.quarantined = (source = "fresh"), !.beyondTight = (source = "stalled")]

\* A mutant of Entering: a recovery under way is no recovery pending.
EnteringPending == [FreshFacts EXCEPT !.recoveryPending = (deployment.state = "recovery_pending")]

Entering == [FreshFacts EXCEPT !.recoveryPending = (deployment.state # "operational")]

-----------------------------------------------------------------------------
(* The install claim, and a saved holding's way to effect *)

\* A new record, its expiry registered unless it ends at once.
NewRow(state, r, p, pred, timed, later) ==
  LET row == [Unwritten EXCEPT !.holder = p, !.by = r, !.pred = pred, !.last = Author(r), !.later = later,
                               !.until = IF timed THEN "ahead" ELSE "open", !.expires = timed]
  IN IF state = "awaiting_confirmation" THEN [row EXCEPT !.state = state] ELSE Moved(row, state, None)

\* ClaimHTTP: the first admin, once, before there is any holding.
Claim(p) ==
  /\ ~Claimed(holding)
  /\ \E h \in Holdings :
       /\ holding' = [holding EXCEPT ![h] = [NewRow("active", None, p, None, FALSE, FALSE) EXCEPT !.last = None]]
       /\ Touch({h})
  /\ UNCHANGED <<account, seen, source, vouched, closures, disposition, deployment>>

Renewable(pred) == pred # None => holding[pred].state \in {"active", "held/security_hold"}

\* submitted, for a management holding: a protected widening of the management structure.
Asked(r, later) ==
  Eligible([Entering EXCEPT !.managementWiden = TRUE, !.needsConfirmation = TRUE, !.future = later], r, IsAdmin(r))

\* r asks for an admin holding h of p, renewing pred if any.  It is never confirmed yet: it is saved, or a record of its
\* final rejection is written.  A predecessor not live is a stale start, rejected without a record.
Submit(r, p, h, pred, timed, later) ==
  /\ Claimed(holding) /\ Free(h) /\ Renewable(pred)
  /\ \/ /\ Outcome(Asked(r, later)) = "rejected"
        /\ holding' = [holding EXCEPT ![h] = NewRow("ended/rejected", r, p, pred, timed, later)]
     \/ /\ Outcome(Asked(r, later)) = "awaiting_saved"
        /\ holding' = [holding EXCEPT ![h] = NewRow("awaiting_confirmation", r, p, pred, timed, later)]
  /\ Touch({h})
  /\ UNCHANGED <<account, seen, source, vouched, closures, disposition, deployment>>

\* What a request may ask for, as the features turned on allow.
Predecessors == {None} \cup {h \in Holdings : Renewal}
Submits(r, p) ==
  \E h \in Holdings, pred \in Predecessors, timed, later \in BOOLEAN :
    (timed => Timed) /\ (later => Later) /\ Submit(r, p, h, pred, timed, later)

\* Confirm on a saved holding: recorded, and the job that brings it to the effect point registered.
Confirm(c, h) ==
  /\ holding[h].state = "awaiting_confirmation"
  /\ IF c = Owner THEN OwnerKey ELSE ConfirmerEligible(c) = "proven"
  /\ holding' = [holding EXCEPT ![h].confirmed = @ \cup {c}, ![h].jobs = @ \cup {"confirmed"}]
  /\ UNCHANGED <<account, seen, source, vouched, closures, disposition, deployment, after, recent>>

\* A confirmation's validity ends.
ConfirmationExpires(h, c) ==
  /\ holding[h].state \in Pending /\ c \in holding[h].confirmed
  /\ holding' = [holding EXCEPT ![h].confirmed = @ \ {c}]
  /\ UNCHANGED <<account, seen, source, vouched, closures, disposition, deployment, after, recent>>

\* A mutant of Judging: what was judged when it was recorded.
JudgedWhenRecorded(h, verdict) == IF verdict = "proven" THEN holding[h].confirmed ELSE {}

\* confirmationsOf on a saved holding: who of those recorded holds now, and who cannot be proven.
Judging(h, verdict) ==
  {c \in holding[h].confirmed : Judgement(c, holding[h].by, holding[h].holder, TRUE) = verdict}

\* A mutant of Future: the timed job is taken to come when its time has.
FutureUnlessTimed(h, cools) == cools \/ (holding[h].later /\ holding[h].state # "scheduled")

\* whether its time is still to come, a cooling-off beginning now included
Future(h, cools) == holding[h].later \/ cools

\* fired: what a saved holding's job finds.
Fired(h, cools) ==
  LET row == holding[h]
  IN Eligible([Entering EXCEPT
                 !.trigger = "job", !.managementWiden = TRUE, !.needsConfirmation = TRUE,
                 !.revisionsChanged = ~Renewable(row.pred), !.future = Future(h, cools),
                 !.confirmation = CASE row.confirmed = {} -> "none"
                                    [] row.confirmed # {} /\ Judging(h, "proven") \cup Judging(h, "unprovable") = {} -> "invalid"
                                    [] OTHER -> "valid",
                 !.confirmersProvable = (Judging(h, "unprovable") = {} \/ Judging(h, "proven") # {})],
              row.by, row.by \in Persons /\ IsAdmin(row.by))

\* A mutant of Cools: the owner alone among those recorded, not among those who stand.
CoolsAsRecorded(h, t) ==
  /\ t = "confirmed" /\ holding[h].cooling = "none" /\ holding[h].confirmed = {Owner}
  /\ RecentlyUnavailable({holding[h].by, holding[h].holder})

\* Confirmed by the owner alone while another admin became unavailable lately: it waits the cooling-off out, once.
Cools(h, t) ==
  /\ t = "confirmed" /\ holding[h].cooling = "none"
  /\ Judging(h, "proven") = {Owner}
  /\ RecentlyUnavailable({holding[h].by, holding[h].holder})

\* A saved holding takes effect: what it renews is superseded, unless a disposition holds it.
TakesEffect(hs, h) ==
  LET on == [hs EXCEPT ![h] = Moved(@, "active", Owner)]
      pred == hs[h].pred
  IN IF pred # None /\ hs[pred].state = "active"
     THEN [on EXCEPT ![pred] = Moved(@, "ended/superseded", Owner)]
     ELSE on

\* A confirmed holding waits for its time, its timed job registered.
Scheduled(row, cools) ==
  [Moved(row, "scheduled", Owner) EXCEPT !.later = TRUE, !.jobs = {"scheduled"},
                                         !.cooling = IF cools THEN "on" ELSE row.cooling]

\* Due: a saved holding's job, by its trigger.  Processing (a job before its time included) waits: no step.
Due(h, t) ==
  /\ t \in holding[h].jobs
  /\ LET cools == Cools(h, t)
         o == Outcome(Fired(h, cools))
     IN \/ /\ o = "applied"
           /\ holding' = TakesEffect(holding, h)
           /\ Touch({x \in {h, holding[h].pred} : x \in Holdings /\ holding'[x].state # holding[x].state})
        \/ /\ o = "scheduled" /\ t = "confirmed"
           /\ holding' = [holding EXCEPT ![h] = Scheduled(@, cools)]
           /\ Touch({h})
        \/ /\ o = "awaiting_saved"
           /\ holding' = [holding EXCEPT ![h] = Moved(@, "awaiting_confirmation", Owner)]
           /\ Touch({h})
        \/ /\ o = "rejected"
           /\ holding' = [holding EXCEPT ![h] = Moved(@, "ended/rejected", Owner)]
           /\ Touch({h})
  /\ UNCHANGED <<account, seen, source, vouched, closures, disposition, deployment>>

\* onTarget, a termination: withdrawn by who asked, cancelled by a manager or vetoed in a cooling-off, rejected by
\* someone who could confirm it.
Terminate(r, h, how) ==
  LET row == holding[h]
      veto == row.state = "scheduled" /\ row.cooling = "on" /\ r # row.by /\ ConfirmerEligible(r) = "proven"
      could == IF r \in {row.by, row.holder} THEN "disproven" ELSE ConfirmerEligible(r)
      structural == CASE how = "withdraw" -> r = row.by
                      [] how = "cancel" -> veto \/ IsAdmin(r)
                      [] how = "reject" -> could # "disproven"
      f == Eligible([Entering EXCEPT
                       !.kind = "terminate", !.rejection = (how = "reject"),
                       !.terminatorEligible = CASE how = "withdraw" -> r = row.by
                                                [] how = "cancel" -> veto
                                                [] how = "reject" -> could = "proven"],
                    r, structural)
      to == CASE how = "withdraw" -> "ended/withdrawn" [] how = "cancel" -> "ended/cancelled"
              [] how = "reject" -> "ended/rejected"
  IN /\ row.state \in (IF how = "reject" THEN {"awaiting_confirmation"} ELSE Pending)
     /\ Outcome(f) = "applied"
     /\ holding' = [holding EXCEPT ![h] = Moved(@, to, r)]
     /\ Touch({h})
     /\ UNCHANGED <<account, seen, source, vouched, closures, disposition, deployment>>

-----------------------------------------------------------------------------
(* Tightenings, dispositions and their releases *)

\* onTarget, a tightening: r revokes or gives up an effective or held holding (own: a relinquishment); one admin
\* must stay available without it.  Somebody else's needs a second person.
Tighten(r, h, own, c) ==
  LET row == holding[h]
      mine == r = row.holder
      structural == /\ mine \/ (~own /\ IsAdmin(r))
                    /\ ~(mine /\ row.state = "held/security_hold")
      to == IF own \/ (mine /\ ~IsAdmin(r)) THEN "ended/relinquished" ELSE "ended/revoked"
      f == Carrying(Eligible([Entering EXCEPT
                                !.kind = "tighten", !.affectsAdmins = TRUE, !.tightenNeedsConfirmation = ~mine,
                                !.adminsAfter = AdminsAfter(holding, account, {h})],
                             r, structural),
                    c, r, row.holder, FALSE)
  IN /\ row.state \in Effective /\ c \in MayCarry
     /\ Outcome(f) = "applied"
     /\ holding' = [holding EXCEPT ![h] = Moved(@, to, r)]
     /\ deployment' = Judged(deployment, holding', account)
     /\ Touch({h})
     /\ UNCHANGED <<account, seen, source, vouched, closures, disposition>>

\* The person's records a disposition holds, moved to it.
HeldBy(hs, H, d, by) ==
  [h \in Holdings |-> IF h \in H THEN [Moved(hs[h], "held/security_hold", by) EXCEPT !.disp = d] ELSE hs[h]]

Disposing(origin, p, r, refs) ==
  [state |-> "active", origin |-> origin, subject |-> p, disposer |-> r, refs |-> refs]

\* disposing, dispose: r holds everything p has in force.  Protected when p is an admin; never held back by the
\* last-admin rows.
Dispose(r, p, c) ==
  LET protected == ActiveOf(holding, p) # {}
      H == InForceOf(holding, p)
      eligible == Eligible([Entering EXCEPT !.kind = "tighten", !.disposition = TRUE], r, IsAdmin(r))
      f == IF protected
           THEN Carrying([eligible EXCEPT !.affectsAdmins = TRUE, !.tightenNeedsConfirmation = (p # r)], c, r, p, FALSE)
           ELSE eligible
  IN \E d \in Dispositions :
       /\ FreeDisposition(d) /\ Claimed(holding) /\ c \in (IF protected THEN MayCarry ELSE {None})
       /\ Outcome(f) = "applied"
       /\ holding' = HeldBy(holding, H, d, r)
       /\ disposition' = [disposition EXCEPT ![d] = Disposing("admin", p, r, 0)]
       /\ deployment' = IF protected THEN Judged(deployment, holding', account) ELSE deployment
       /\ Touch(H)
       /\ UNCHANGED <<account, seen, source, vouched, closures>>

\* A mutant of HeldUnder: those awaiting a reconfirmation are not looked at.
HeldAndCounting(hs, d) == {h \in Holdings : hs[h].state = "held/security_hold" /\ hs[h].disp = d /\ ~hs[h].backfill}

\* A mutant of Renewed: by a saved renewal already.
RenewalSaved(hs, h) == \E x \in Holdings : hs[x].state \notin EndedStates /\ hs[x].pred = h

HeldUnder(hs, d) == {h \in Holdings : hs[h].state = "held/security_hold" /\ hs[h].disp = d}
Renewed(hs, h) == \E x \in Holdings : hs[x].state = "active" /\ hs[x].pred = h

\* ReleaseDisposition goes through the records H one by one, in no order it names: those of H another of H renews are
\* found renewed (overtaken) if that one came back first.
Overtaken(hs, H) ==
  {first \in SUBSET H : \A h \in first : \E x \in H \ first : hs[x].pred = h /\ ~Renewed(hs, x)}

\* Each of H effective again, or ended superseded when renewed.
BroughtBack(hs, H, first, by) ==
  [h \in Holdings |->
     IF h \notin H THEN hs[h]
     ELSE [Moved(hs[h], IF Renewed(hs, h) \/ h \in first THEN "ended/superseded" ELSE "active", by) EXCEPT !.disp = None]]

\* Nothing is read of a released disposition.
Released(ds, D) == [d \in Dispositions |-> IF d \in D THEN [NoDisposition EXCEPT !.state = "released"] ELSE ds[d]]

\* releasing, release: r ends d.  An identity-side one names the signals it removes and stays while any is left.
Release(r, d, c, removed) ==
  LET row == disposition[d]
      H == HeldUnder(holding, d)
      protected == EffectiveOf(holding, row.subject) # {}
      eligible == Eligible([Entering EXCEPT !.kind = "restore_security_hold", !.managementWiden = (H # {})],
                           r, r # row.subject /\ IsAdmin(r))
      f == IF protected
           THEN Carrying([eligible EXCEPT !.affectsAdmins = TRUE, !.tightenNeedsConfirmation = TRUE], c, r, row.subject, TRUE)
           ELSE eligible
      stays == row.origin = "identity_side" /\ removed < row.refs
  IN /\ row.state = "active" /\ c \in (IF protected THEN MayCarry ELSE {None})
     /\ removed \in (IF row.origin = "identity_side" THEN 1..row.refs ELSE {0})
     /\ Outcome(f) = "applied"
     /\ IF stays
        THEN /\ disposition' = [disposition EXCEPT ![d].refs = @ - removed]
             /\ UNCHANGED <<holding, after, recent>>
        ELSE /\ disposition' = Released(disposition, {d})
             /\ \E first \in Overtaken(holding, H) : holding' = BroughtBack(holding, H, first, r)
             /\ Touch(H)
     /\ deployment' = IF protected THEN Judged(deployment, holding', account) ELSE deployment
     /\ UNCHANGED <<account, seen, source, vouched, closures>>

-----------------------------------------------------------------------------
(* The identity source *)

\* AccountChanged: an admin's account active again without a confirmation leaves its holdings awaiting one.
Backfilled(hs, p, s, vouchedFor) ==
  IF s = "active" /\ seen[p] \notin {"none", s}
  THEN [h \in Holdings |-> IF h \in EffectiveOf(hs, p) THEN [hs[h] EXCEPT !.backfill = ~vouchedFor] ELSE hs[h]]
  ELSE hs

\* IdentitySignal on a complete status s of p: a freeze first told makes a disposition d of everything p has in force,
\* a further one is merged into the active one (the same one told again is not), one whose disposition was released
\* makes none.
Merges(p) == {d \in Dispositions : disposition[d].state = "active" /\ disposition[d].origin = "identity_side"
                                   /\ disposition[d].subject = p}
Disposes(p, s) == s = "frozen" /\ seen[p] \notin {"none", "frozen"} /\ Merges(p) = {} /\ Claimed(holding)

\* The projection's Changed hook, in the transaction that applies p's status s: the confirmation it carries used, the
\* signal, the closure enqueued, the admins judged.
AccountFact(p, s, vouchedFor) ==
  /\ vouchedFor => s = "active" /\ vouched[p] # {}
  /\ account' = [account EXCEPT ![p] = s]
  /\ seen' = IF s = "unproven" THEN seen ELSE [seen EXCEPT ![p] = s]
  /\ LET hs == Backfilled(holding, p, s, vouchedFor)
     IN IF Disposes(p, s)
        THEN \E d \in Dispositions :
               /\ FreeDisposition(d)
               /\ disposition' = [disposition EXCEPT ![d] = Disposing("identity_side", p, None, 1)]
               /\ holding' = HeldBy(hs, InForceOf(hs, p), d, Owner)
               /\ Touch(InForceOf(hs, p))
        ELSE /\ holding' = hs
             /\ UNCHANGED <<after, recent>>
             /\ \/ /\ s # "frozen" \/ seen[p] \in {"none", "frozen"} \/ Merges(p) = {}
                   /\ UNCHANGED disposition
                \/ /\ s = "frozen" /\ seen[p] # "none"
                   /\ \E d \in Merges(p) :
                        /\ disposition[d].refs < MaxRefs
                        /\ disposition' = [disposition EXCEPT ![d].refs = @ + 1]
  /\ vouched' = [vouched EXCEPT ![p] = {}]
  /\ closures' = closures \cup {p}
  /\ deployment' = Judged(deployment, holding', account')
  /\ UNCHANGED source

\* A mutant of AccountEnded: a disabled account is still one.
AccountGone(p) == account[p] = "absent"

\* The account has ended as a source: a plain disable, or no account.
AccountEnded(p) == account[p] \in {"disabled", "absent"}

\* Closure of an account, once the source proves its status: an ended one's holdings end.  The
\* admins are judged after each one ended; from the second on the judgement finds the same.
AccountClosure(p) ==
  LET H == IF AccountEnded(p) THEN EffectiveOf(holding, p) ELSE {}
      once(d) == Judged(d, holding', account)
  IN /\ p \in closures /\ source = "fresh" /\ account[p] # "unproven"
     /\ closures' = closures \ {p}
     /\ holding' = [h \in Holdings |-> IF h \in H THEN Moved(holding[h], "ended/source_ended", None) ELSE holding[h]]
     /\ deployment' = CASE H = {} -> deployment
                        [] H # {} /\ Cardinality(H) = 1 -> once(deployment)
                        [] OTHER -> once(once(deployment))
     /\ Touch(H)
     /\ UNCHANGED <<account, seen, source, vouched, disposition>>

\* ConfirmAccount: c confirms that p's account be active, at its present version.
ConfirmAccount(c, p) ==
  /\ Vouching /\ c # p /\ account[p] \notin {"absent", "unproven"}
  /\ IF c = Owner THEN OwnerKey ELSE ConfirmerEligible(c) = "proven"
  /\ vouched' = [vouched EXCEPT ![p] = @ \cup {c}]
  /\ UNCHANGED <<holding, account, seen, source, closures, disposition, deployment, after, recent>>

AccountConfirmationExpires(c, p) ==
  /\ c \in vouched[p]
  /\ vouched' = [vouched EXCEPT ![p] = @ \ {c}]
  /\ UNCHANGED <<holding, account, seen, source, closures, disposition, deployment, after, recent>>

\* ReconfirmHTTP: an available admin r has p's holdings count again, with c's confirmation.  Only a refused
\* confirmation stops it; one whose confirmer cannot be proven now passes, as the code has it.
Reconfirm(r, p, c) ==
  /\ \E h \in EffectiveOf(holding, p) : holding[h].backfill
  /\ ConfirmerEligible(r) = "proven"
  /\ c \in vouched[p] /\ Judgement(c, r, p, TRUE) # "disproven"
  /\ vouched' = [vouched EXCEPT ![p] = @ \ {c}]
  /\ holding' = [h \in Holdings |-> IF h \in EffectiveOf(holding, p) THEN [holding[h] EXCEPT !.backfill = FALSE] ELSE holding[h]]
  /\ deployment' = Judged(deployment, holding', account)
  /\ UNCHANGED <<account, seen, source, closures, disposition, after, recent>>

-----------------------------------------------------------------------------
(* Administrator recovery, by the owner's recovery key *)

\* recoveryReplace: the holdings H held by the owner, each by a disposition of its own; what their holders confirmed is
\* void and what they asked for is cancelled.  A holding not yet effective cannot be held: the request fails.
RecoveryReplace(H) ==
  /\ H # {} /\ \A h \in H : holding[h].state \in Effective
  /\ \E ids \in [H -> {d \in Dispositions : FreeDisposition(d)}] :
       LET replaced == {holding[h].holder : h \in H}
           cancelled == {x \in Holdings : holding[x].state \in Pending /\ holding[x].by \in replaced}
           row(x) == CASE x \in H -> [Moved(holding[x], "held/security_hold", Owner) EXCEPT !.disp = ids[x]]
                       [] x \in cancelled -> Moved(holding[x], "ended/cancelled", Owner)
                       [] OTHER -> holding[x]
       IN /\ \A g, h \in H : ids[g] = ids[h] => g = h
          /\ holding' = [x \in Holdings |-> [row(x) EXCEPT !.confirmed = @ \ replaced]]
          /\ vouched' = [p \in Persons |-> vouched[p] \ replaced]
          /\ disposition' = [d \in Dispositions |->
               IF \E h \in H : ids[h] = d
               THEN Disposing("admin_recovery", holding[CHOOSE h \in H : ids[h] = d].holder, Owner, 0)
               ELSE disposition[d]]
          /\ deployment' = Judged(deployment, holding', account)
          /\ Touch(H \cup cancelled)
  /\ UNCHANGED <<account, seen, source, closures>>

\* What a restore of i releases: the identity side's dispositions of it, and those by an admin the owner replaced.
Releasable(i) ==
  LET replaced == {disposition[d].subject : d \in {x \in Dispositions : disposition[x].state = "active"
                                                                     /\ disposition[x].origin = "admin_recovery"}}
  IN {d \in Dispositions : /\ disposition[d].state = "active" /\ disposition[d].subject = i
                           /\ disposition[d].origin = "identity_side" \/ disposition[d].disposer \in replaced}

\* recoveryRestore: administrator recovery entered for i, its dispositions released, an admin holding made when it
\* has no active one; operational at once if i is available.
RecoveryRestore(i) ==
  LET D == Releasable(i)
      H == UNION {HeldUnder(holding, d) : d \in D}
      entered == [state |-> "admin_recovery", identity |-> i,
                  from |-> IF deployment.state = "admin_recovery" THEN deployment.from ELSE deployment.state]
  IN /\ Claimed(holding)
     /\ \E first \in Overtaken(holding, H) :
          LET back == BroughtBack(holding, H, first, Owner)
          IN IF ActiveOf(back, i) # {}
             THEN /\ holding' = back
                  /\ Touch(H)
             ELSE \E h \in Holdings :
                    /\ Free(h)
                    /\ holding' = [back EXCEPT ![h] = [NewRow("active", None, i, None, FALSE, FALSE) EXCEPT !.last = Author(Owner)]]
                    /\ Touch(H \cup {h})
     /\ disposition' = Released(disposition, D)
     /\ deployment' = Judged(entered, holding', account)
     /\ UNCHANGED <<account, seen, source, vouched, closures>>

\* A mutant of RecoveryAbort: the identity it was for stays named.
RecoveryAbortNaming ==
  /\ deployment.state = "admin_recovery"
  /\ deployment' = [deployment EXCEPT !.state = deployment.from, !.from = None]
  /\ UNCHANGED <<holding, account, seen, source, vouched, closures, disposition, after, recent>>

\* recoveryAbort: back to the state before the recovery.
RecoveryAbort ==
  /\ deployment.state = "admin_recovery"
  /\ deployment' = [state |-> IF deployment.from = None THEN "recovery_pending" ELSE deployment.from,
                    from |-> None, identity |-> None]
  /\ UNCHANGED <<holding, account, seen, source, vouched, closures, disposition, after, recent>>

-----------------------------------------------------------------------------
(* Time and the source's freshness *)

\* valid_until passes.
Lapse(h) ==
  /\ holding[h].state \notin EndedStates /\ holding[h].until = "ahead"
  /\ holding' = [holding EXCEPT ![h].until = "past"]
  /\ UNCHANGED <<account, seen, source, vouched, closures, disposition, deployment, after, recent>>

\* Expiry: the timed item due then ends the holding if it is effective; nobody is judged.
Expire(h) ==
  /\ holding[h].expires /\ holding[h].until = "past"
  /\ IF holding[h].state \in Effective
     THEN /\ holding' = [holding EXCEPT ![h] = Moved(@, "ended/expired", None)]
          /\ Touch({h})
     ELSE /\ holding' = [holding EXCEPT ![h].expires = FALSE]
          /\ UNCHANGED <<after, recent>>
  /\ UNCHANGED <<account, seen, source, vouched, closures, disposition, deployment>>

\* effective_at passes, and with it a cooling-off.
TimeComes(h) ==
  /\ holding[h].later
  /\ holding' = [holding EXCEPT ![h].later = FALSE, ![h].cooling = IF @ = "on" THEN "over" ELSE @]
  /\ UNCHANGED <<account, seen, source, vouched, closures, disposition, deployment, after, recent>>

\* The cooling-off since the records updated up to some h is over.
GrowOld ==
  /\ \E h \in recent : recent' = {x \in recent : <<h, x>> \in after}
  /\ UNCHANGED <<holding, account, seen, source, vouched, closures, disposition, deployment, after>>

SourceMoves(s) ==
  /\ source' = s
  /\ UNCHANGED <<holding, account, seen, vouched, closures, disposition, deployment, after, recent>>

-----------------------------------------------------------------------------

Next ==
  \/ \E p \in Persons : Claim(p) \/ AccountClosure(p)
  \/ \E r \in Requesters, p \in Persons : Submits(r, p)
  \/ \E c \in Confirmers, h \in Holdings : Confirm(c, h) \/ ConfirmationExpires(h, c)
  \/ \E h \in Holdings, t \in {"confirmed", "scheduled"} : Due(h, t)
  \/ \E r \in Requesters, h \in Holdings, how \in {"withdraw", "cancel", "reject"} : Terminate(r, h, how)
  \/ \E r \in Requesters, h \in Holdings, own \in BOOLEAN, c \in {None} \cup Confirmers : Tighten(r, h, own, c)
  \/ \E r \in Requesters, p \in Persons, c \in {None} \cup Confirmers : Dispose(r, p, c)
  \/ \E r \in Requesters, d \in Dispositions, c \in {None} \cup Confirmers, n \in 0..MaxRefs : Release(r, d, c, n)
  \/ \E p \in Persons, s \in Statuses, v \in BOOLEAN : AccountFact(p, s, v)
  \/ \E c \in Confirmers, p \in Persons : ConfirmAccount(c, p) \/ AccountConfirmationExpires(c, p)
  \/ \E r \in Requesters, p \in Persons, c \in Confirmers : Reconfirm(r, p, c)
  \/ Recoverable # {} /\ \E H \in SUBSET Holdings : RecoveryReplace(H)
  \/ \E i \in Recoverable : RecoveryRestore(i)
  \/ RecoveryAbort
  \/ \E h \in Holdings : Lapse(h) \/ Expire(h) \/ TimeComes(h)
  \/ GrowOld
  \/ \E s \in SourceStates : SourceMoves(s)

Spec == Init /\ [][Next]_vars

\* The work queue runs what can run: an account's closure that the source can decide is not put off for ever.
Fairness == \A p \in Persons : WF_vars(AccountClosure(p))

FairSpec == Spec /\ Fairness

-----------------------------------------------------------------------------
(* Properties *)

\* Every record and state of the deployment has the shape its table's constraints give it; an identity being recovered
\* is named exactly while a recovery is on.
TypeOK ==
  /\ holding \in [Holdings -> HoldingRows]
  /\ account \in [Persons -> AllStatuses] /\ seen \in [Persons -> AllStatuses \cup {"none"}]
  /\ source \in {"fresh", "aged", "stalled"}
  /\ vouched \in [Persons -> SUBSET Confirmers] /\ closures \subseteq Persons
  /\ disposition \in [Dispositions -> DispositionRows]
  /\ deployment \in DeploymentRows
  /\ after \subseteq Holdings \X Holdings /\ recent \subseteq Holdings

\* A deployment in operation is not without an admin: whatever takes the last one away (a disable, a freeze, a closure,
\* a disposition, a revocation) leaves it awaiting recovery in the same transaction (JudgeAdmins at each of them).
NoSilentLoss ==
  deployment.state = "operational" /\ Claimed(holding) => AdminsAfter(holding, account, {}) # "disproven"

\* Before the install claim there is no admin to lose: nothing the identity source tells makes a recovery of it.
UnclaimedIsOperational == ~Claimed(holding) => deployment.state = "operational"

\* The ways at which nobody judges: what the source can prove changes by itself, a renewal or an expiry ends a holding, the
\* claim is for an account that is none, an aborted recovery goes back, and the identity recovered holds what does not
\* count yet.
Unjudged ==
  \/ source' # source
  \/ \E h \in Holdings : holding[h].state = "active" /\ holding'[h].state \in {"ended/superseded", "ended/expired"}
  \/ ~Claimed(holding)
  \/ RecoveryAbort
  \/ \E i \in Persons : /\ deployment.identity = i \/ (i \in Recoverable /\ RecoveryRestore(i))
                       /\ ActiveOf(holding', i) # {} /\ HoldersBut(holding', {}) \cap {i} = {}

\* A deployment becomes one without an admin, and does not await recovery, by those ways alone: all others (account
\* facts, closures, dispositions and releases, revocations, reconfirmations, replacements) judge in their transaction.
LossesAreJudged == [][NoSilentLoss /\ ~NoSilentLoss' => Unjudged]_vars

\* A person's change never removes the last available admin: after a revocation or a relinquishment one is proven
\* available (rows 27 and 28), however the changes of several admins interleave.
LastAdminKept ==
  [][ (\E h \in Holdings : /\ holding[h].state \in Effective
                           /\ holding'[h].state \in {"ended/revoked", "ended/relinquished"})
      => AdminsAfter(holding', account', {}) = "proven" ]_vars

\* Nor does a renewal: the admin holding a saved one supersedes is not the last available admin's.
RenewalKeepsAnAdmin ==
  [][ (\E h \in Holdings : holding[h].state = "active" /\ holding'[h].state = "ended/superseded")
      /\ AdminsAfter(holding, account, {}) = "proven"
      => AdminsAfter(holding', account', {}) = "proven" ]_vars

\* While the deployment awaits or undergoes recovery nothing widens its management: no admin holding takes effect or
\* comes back (rows 13 and 14) but by the owner's recovery, whatever was saved, confirmed or scheduled before.
PendingFreezesManagement ==
  [][ deployment.state # "operational"
      /\ (\E h \in Holdings : holding[h].state # "active" /\ holding'[h].state = "active")
      => \E i \in Recoverable : RecoveryRestore(i) ]_vars

\* A held holding is held by an active disposition of its holder: no release, recovery or further disposition leaves
\* one held for ever.
HeldIsAccountedFor ==
  \A h \in Holdings : holding[h].state = "held/security_hold" =>
    /\ disposition[holding[h].disp].state = "active"
    /\ disposition[holding[h].disp].subject = holding[h].holder

\* Every step moves records as the table of states allows: no job, closure or request reaches Transition with a move it
\* refuses, least of all one that revives an ended record.
MovesAllowed ==
  [][ \A h \in Holdings : holding'[h].state # holding[h].state => Allowed(holding[h].state, holding'[h].state) ]_vars

\* A saved admin holding takes effect only for a requester still an available admin, with a confirmation of somebody
\* else who is one at that moment too (or of the owner), not merely when it was asked for and confirmed.
ConfirmedByAnother ==
  [][ \A h \in Holdings : holding[h].state \in Pending /\ holding'[h].state = "active" =>
        LET by == holding[h].by
        IN /\ ConfirmerEligible(by) = "proven"
           /\ \E c \in holding[h].confirmed \ {by, holding[h].holder} :
                c = Owner \/ ConfirmerEligible(c) = "proven" ]_vars

\* A renewal takes the place of what it renews: a holding ends superseded only when its renewal is in effect.
SupersededByRenewal ==
  [][ \A h \in Holdings : holding[h].state \notin EndedStates /\ holding'[h].state = "ended/superseded" =>
        \E x \in Holdings : holding'[x].state = "active" /\ holding'[x].pred = h ]_vars

\* An admin whose account came back unconfirmed counts again only with a confirmation of that account at its present
\* version, by somebody else: no release, recovery or later change clears the mark.
BackfillIsConfirmed ==
  [][ \A h \in Holdings : holding[h].backfill /\ ~holding'[h].backfill /\ holding'[h].state \in Effective =>
        \E c \in vouched[holding[h].holder] : c # holding[h].holder ]_vars

\* A reconfirmation that has an admin's holdings count again rests on a confirmer proven an admin then.
ReconfirmedByProven ==
  [][ \A r, p \in Persons, c \in Persons : Reconfirm(r, p, c) => ConfirmerEligible(c) = "proven" ]_vars

\* A holding saved for a later time does not take effect before it, confirmed or not, asked or not.
NotBeforeItsTime ==
  [][ \A h \in Holdings : holding[h].state \in Pending /\ holding[h].later => holding'[h].state # "active" ]_vars

\* A holding waiting a cooling-off out does not take effect before it is over, confirmed again or not.
CoolingHolds ==
  [][ \A h \in Holdings : holding[h].cooling = "on" => holding'[h].state # "active" ]_vars

\* Confirmed by nobody who stands but the owner, while another admin became unavailable lately, a holding does not take
\* effect at once.
OwnerAloneCools ==
  [][ \A h \in Holdings :
        /\ holding[h].state = "awaiting_confirmation" /\ Judging(h, "proven") = {Owner}
        /\ holding[h].cooling = "none"
        /\ RecentlyUnavailable({holding[h].by, holding[h].holder})
        => holding'[h].state # "active" ]_vars

\* The requester cannot clear the way for the owner's key: an admin whose holding it ended itself within the cooling-off
\* still counts as available, so the owner alone does not confirm what that requester asks for (CP108).
OwnerKeyNotCleared ==
  [][ \A h \in Holdings :
        /\ holding[h].state = "awaiting_confirmation" /\ holding'[h].state \in {"scheduled", "active"}
        /\ holding[h].confirmed = {Owner}
        => ~ \E x \in recent : /\ holding[x].state \in {"ended/revoked", "ended/relinquished"}
                               /\ holding[x].last = holding[h].by
                               /\ holding[x].holder \notin {holding[h].by, holding[h].holder}
                               /\ ActiveOf(holding, holding[x].holder) = {} ]_vars

\* A loss the member could not prove when its account fact was applied does not stay unnoticed once it can: the
\* closure the fact enqueued, still to come, looks again (CloseAccount).
LossIsNoticed ==
  (/\ deployment.state = "operational" /\ AdminsAfter(holding, account, {}) = "disproven"
   /\ \E p \in closures : account[p] = "disabled" /\ EffectiveOf(holding, p) # {})
    ~> (deployment.state # "operational" \/ AdminsAfter(holding, account, {}) # "disproven")

=============================================================================
