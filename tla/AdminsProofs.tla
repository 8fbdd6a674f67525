---------------------------- MODULE AdminsProofs ----------------------------
(***************************************************************************)
(* Theorems about the deployment's authorization admins, for any persons,  *)
(* records and dispositions and any of the features turned on.             *)
(***************************************************************************)
EXTENDS Admins, DecideProofs

(* The states of a record fall apart into the groups the rows are written by. *)
LEMMA EndedIsNotEffective ==
  /\ EndedStates \cap Effective = {}
  /\ Effective \cup EndedStates \cup Pending \subseteq States
  /\ "active" \in Effective /\ "held/security_hold" \in Effective
BY DEF EndedStates, Endings, PendingEndings, Effective, HeldStates, States

(* A row not yet inserted has a row's shape. *)
LEMMA UnwrittenType == Unwritten \in HoldingRows /\ Unwritten.state = "none"
<1>1. "none" \in States /\ None \in Somebody
  BY DEF States, Somebody
<1> QED BY <1>1 DEF Unwritten, HoldingRows

(* A record moved is a record in the state it was moved to, of the same holder. *)
LEMMA MovedType ==
  ASSUME NEW row \in HoldingRows, NEW to \in States, NEW by \in Somebody
  PROVE  /\ Moved(row, to, by) \in HoldingRows
         /\ Moved(row, to, by).state = to
         /\ Moved(row, to, by).holder = row.holder
<1> DEFINE last == IF by = None THEN row.last ELSE Author(by)
<1>1. last \in Somebody
  BY DEF HoldingRows, Author, Somebody
<1>a. row.holder \in Somebody /\ None \in Somebody
  BY DEF HoldingRows, Somebody
<1>2. CASE to \in EndedStates
  <2>1. Moved(row, to, by) = [Unwritten EXCEPT !.state = to, !.holder = row.holder, !.last = last]
    BY <1>2, EndedIsNotEffective DEF Moved
  <2> QED BY <1>1, <1>a, <2>1, UnwrittenType DEF HoldingRows
<1>3. CASE to \notin EndedStates /\ to \in Effective
  <2> DEFINE saved == [row EXCEPT !.state = to, !.jobs = {}, !.last = last]
  <2>1. Moved(row, to, by) = [saved EXCEPT !.by = None, !.confirmed = {}, !.later = FALSE, !.cooling = "none"]
    BY <1>3 DEF Moved
  <2>2. saved \in HoldingRows /\ saved.state = to /\ saved.holder = row.holder
    BY <1>1 DEF HoldingRows
  <2> HIDE DEF saved
  <2>3. [saved EXCEPT !.by = None, !.confirmed = {}, !.later = FALSE, !.cooling = "none"] \in HoldingRows
    BY <1>a, <2>2 DEF HoldingRows
  <2>4. /\ [saved EXCEPT !.by = None, !.confirmed = {}, !.later = FALSE, !.cooling = "none"].state = saved.state
        /\ [saved EXCEPT !.by = None, !.confirmed = {}, !.later = FALSE, !.cooling = "none"].holder = saved.holder
    BY <2>2 DEF HoldingRows
  <2> QED BY <2>1, <2>2, <2>3, <2>4
<1>4. CASE to \notin EndedStates /\ to \notin Effective
  <2>1. Moved(row, to, by) = [row EXCEPT !.state = to, !.jobs = {}, !.last = last]
    BY <1>4 DEF Moved
  <2> QED BY <1>1, <1>a, <2>1 DEF HoldingRows
<1> QED BY <1>2, <1>3, <1>4

(* A new record is a record in the state it is given. *)
LEMMA NewRowType ==
  ASSUME NEW state \in States, NEW r \in Somebody, NEW p \in Persons, NEW pred \in Holdings \cup {None},
         NEW timed \in BOOLEAN, NEW later \in BOOLEAN
  PROVE  /\ NewRow(state, r, p, pred, timed, later) \in HoldingRows
         /\ NewRow(state, r, p, pred, timed, later).state = state
<1> DEFINE row == [Unwritten EXCEPT !.holder = p, !.by = r, !.pred = pred, !.last = Author(r), !.later = later,
                                    !.until = IF timed THEN "ahead" ELSE "open", !.expires = timed]
<1>a. p \in Somebody /\ Author(r) \in Somebody
  BY DEF Somebody, Confirmers, Author
<1>1. row \in HoldingRows
  <2> DEFINE of == [Unwritten EXCEPT !.holder = p, !.by = r, !.pred = pred]
             until == IF timed THEN "ahead" ELSE "open"
             last == Author(r)
  <2>1. of \in HoldingRows
    BY <1>a, UnwrittenType DEF HoldingRows
  <2>2. row = [of EXCEPT !.last = last, !.later = later, !.until = until, !.expires = timed]
    BY UnwrittenType DEF HoldingRows
  <2>3. until \in {"open", "ahead", "past"}
    OBVIOUS
  <2> HIDE DEF of, until, last, row
  <2>4. last \in Somebody
    BY <1>a DEF last
  <2> QED BY <1>a, <2>1, <2>2, <2>3, <2>4 DEF HoldingRows
<1>b. [row EXCEPT !.state = state] \in HoldingRows /\ [row EXCEPT !.state = state].state = state
  <2> HIDE DEF row
  <2> QED BY <1>1 DEF HoldingRows
<1>2. Moved(row, state, None) \in HoldingRows /\ Moved(row, state, None).state = state
  BY <1>1, MovedType DEF Somebody
<1> QED BY <1>b, <1>2 DEF NewRow

(* The admins judged again leave a state of the deployment. *)
LEMMA JudgedType ==
  ASSUME NEW d \in DeploymentRows, NEW hs, NEW acct
  PROVE  Judged(d, hs, acct) \in DeploymentRows
BY DEF Judged, DeploymentRows, AdminStates

(* What is written to updated_at keeps the order of the rows a relation between them. *)
LEMMA TouchType ==
  ASSUME after \subseteq Holdings \X Holdings, recent \subseteq Holdings, NEW H \in SUBSET Holdings, Touch(H)
  PROVE  after' \subseteq Holdings \X Holdings /\ recent' \subseteq Holdings
BY DEF Touch

(* Writing one record, and moving a set of them to the same state. *)
LEMMA WriteType ==
  ASSUME holding \in [Holdings -> HoldingRows], NEW h \in Holdings, NEW row \in HoldingRows
  PROVE  [holding EXCEPT ![h] = row] \in [Holdings -> HoldingRows]
OBVIOUS

(* The rows a disposition holds keep their shape. *)
LEMMA HeldByType ==
  ASSUME NEW hs \in [Holdings -> HoldingRows], NEW H, NEW d \in Dispositions, NEW by \in Somebody
  PROVE  HeldBy(hs, H, d, by) \in [Holdings -> HoldingRows]
<1> SUFFICES ASSUME NEW h \in Holdings
             PROVE  [Moved(hs[h], "held/security_hold", by) EXCEPT !.disp = d] \in HoldingRows
  BY DEF HeldBy
<1>1. Moved(hs[h], "held/security_hold", by) \in HoldingRows
  BY MovedType, EndedIsNotEffective
<1> QED BY <1>1 DEF HoldingRows

(* So do those a release brings back or ends. *)
LEMMA BroughtBackType ==
  ASSUME NEW hs \in [Holdings -> HoldingRows], NEW H, NEW first, NEW by \in Somebody
  PROVE  BroughtBack(hs, H, first, by) \in [Holdings -> HoldingRows]
<1> SUFFICES ASSUME NEW h \in Holdings, NEW to \in {"ended/superseded", "active"}
             PROVE  [Moved(hs[h], to, by) EXCEPT !.disp = None] \in HoldingRows
  BY DEF BroughtBack
<1>1. to \in States
  BY EndedIsNotEffective DEF EndedStates, Endings
<1>2. Moved(hs[h], to, by) \in HoldingRows
  BY <1>1, MovedType
<1> QED BY <1>2 DEF HoldingRows

(* So do those marked when an account comes back. *)
LEMMA BackfilledType ==
  ASSUME NEW hs \in [Holdings -> HoldingRows], NEW p, NEW s, NEW v \in BOOLEAN
  PROVE  Backfilled(hs, p, s, v) \in [Holdings -> HoldingRows]
<1>1. ASSUME NEW h \in Holdings PROVE [hs[h] EXCEPT !.backfill = ~v] \in HoldingRows
  BY DEF HoldingRows
<1> QED BY <1>1 DEF Backfilled

(* The rows of the tables written by the identity source's facts, by dispositions and by a recovery keep their shape. *)
LEMMA DispositionType ==
  ASSUME NEW origin \in {"none", "admin", "identity_side", "admin_recovery"}, NEW p \in Somebody, NEW r \in Somebody,
         NEW refs \in 0..MaxRefs
  PROVE  Disposing(origin, p, r, refs) \in DispositionRows
BY DEF Disposing, DispositionRows

(* A disposition not yet made has a disposition's shape. *)
LEMMA NoDispositionType == NoDisposition \in DispositionRows
<1>1. None \in Somebody /\ 0 \in 0..MaxRefs
  BY Parameters DEF Somebody
<1> QED BY <1>1 DEF NoDisposition, DispositionRows

(* A disposition released keeps it. *)
LEMMA ReleasedType ==
  ASSUME disposition \in [Dispositions -> DispositionRows], NEW D
  PROVE  Released(disposition, D) \in [Dispositions -> DispositionRows]
<1>1. [NoDisposition EXCEPT !.state = "released"] \in DispositionRows
  BY NoDispositionType DEF DispositionRows
<1> QED BY <1>1 DEF Released

(* A deployment begins with rows of the right shape. *)
LEMMA InitType == Init => TypeOK
<1> SUFFICES ASSUME Init PROVE TypeOK
  OBVIOUS
<1>1. holding \in [Holdings -> HoldingRows]
  <2>1. ASSUME NEW h \in DOMAIN Seats
        PROVE  [Unwritten EXCEPT !.state = "active", !.holder = Seats[h]] \in HoldingRows
    <3>1. Seats[h] \in Somebody /\ "active" \in States
      BY Parameters, EndedIsNotEffective DEF Somebody, Confirmers
    <3> QED BY <3>1, UnwrittenType DEF HoldingRows
  <2> QED BY <2>1, UnwrittenType DEF Init
<1>2. disposition \in [Dispositions -> DispositionRows]
  BY NoDispositionType DEF Init
<1>3. deployment \in DeploymentRows
  BY DEF Init, DeploymentRows, AdminStates
<1> QED BY <1>1, <1>2, <1>3 DEF Init, TypeOK, AllStatuses

(* What a job that waits until a time writes. *)
LEMMA ScheduledType ==
  ASSUME NEW row \in HoldingRows, NEW cooling \in {"none", "on", "over"}
  PROVE  [row EXCEPT !.later = TRUE, !.jobs = {"scheduled"}, !.cooling = cooling] \in HoldingRows
<1> DEFINE timed == [row EXCEPT !.later = TRUE]
           queued == [timed EXCEPT !.jobs = {"scheduled"}]
<1>1. timed \in HoldingRows
  BY DEF HoldingRows
<1>2. queued \in HoldingRows
  <2> HIDE DEF timed
  <2> QED BY <1>1 DEF HoldingRows
<1>3. [queued EXCEPT !.cooling = cooling] \in HoldingRows
  <2> HIDE DEF queued
  <2> QED BY <1>2 DEF HoldingRows
<1> QED BY <1>3

(* A saved holding's job, when it changes something. *)
LEMMA DueType ==
  ASSUME TypeOK, NEW h \in Holdings, NEW t, Due(h, t)
  PROVE  TypeOK'
<1>1. holding[h] \in HoldingRows /\ Owner \in Somebody
  BY DEF TypeOK, Somebody, Confirmers
<1>2. holding' \in [Holdings -> HoldingRows]
  <2>1. ASSUME NEW to \in States PROVE [holding EXCEPT ![h] = Moved(@, to, Owner)] \in [Holdings -> HoldingRows]
    BY <1>1, MovedType, WriteType DEF TypeOK
  <2>2. TakesEffect(holding, h) \in [Holdings -> HoldingRows]
    <3>1. "active" \in States /\ "ended/superseded" \in States
      BY EndedIsNotEffective DEF EndedStates, Endings
    <3> DEFINE on == [holding EXCEPT ![h] = Moved(@, "active", Owner)]
    <3>2. on \in [Holdings -> HoldingRows]
      BY <2>1, <3>1
    <3>3. holding[h].pred \in Holdings \cup {None}
      BY <1>1 DEF HoldingRows
    <3>4. ASSUME holding[h].pred # None
          PROVE  [on EXCEPT ![holding[h].pred] = Moved(@, "ended/superseded", Owner)] \in [Holdings -> HoldingRows]
      <4> HIDE DEF on
      <4> QED BY <1>1, <3>1, <3>2, <3>3, <3>4, MovedType
    <3> QED BY <3>2, <3>4 DEF TakesEffect
  <2>5. ASSUME NEW cools PROVE Scheduled(holding[h], cools) \in HoldingRows
    <3>1. Moved(holding[h], "scheduled", Owner) \in HoldingRows
      BY <1>1, MovedType, EndedIsNotEffective DEF Pending
    <3> DEFINE cooling == IF cools THEN "on" ELSE holding[h].cooling
    <3>2. cooling \in {"none", "on", "over"}
      BY <1>1 DEF HoldingRows
    <3> DEFINE moved == Moved(holding[h], "scheduled", Owner)
    <3>3. Scheduled(holding[h], cools) = [moved EXCEPT !.later = TRUE, !.jobs = {"scheduled"}, !.cooling = cooling]
      BY DEF Scheduled
    <3> HIDE DEF cooling, moved
    <3>4. moved \in HoldingRows
      BY <3>1 DEF moved
    <3>5. [moved EXCEPT !.later = TRUE, !.jobs = {"scheduled"}, !.cooling = cooling] \in HoldingRows
      BY <3>2, <3>4, ScheduledType
    <3> QED BY <3>3, <3>5
  <2>6. "awaiting_confirmation" \in States /\ "ended/rejected" \in States
    BY EndedIsNotEffective DEF Pending, EndedStates, PendingEndings
  <2>7. \/ holding' = TakesEffect(holding, h)
        \/ \E cools : holding' = [holding EXCEPT ![h] = Scheduled(holding[h], cools)]
        \/ holding' = [holding EXCEPT ![h] = Moved(@, "awaiting_confirmation", Owner)]
        \/ holding' = [holding EXCEPT ![h] = Moved(@, "ended/rejected", Owner)]
    BY DEF Due
  <2> QED BY <2>1, <2>2, <2>5, <2>6, <2>7, WriteType DEF TypeOK
<1>3. after' \subseteq Holdings \X Holdings /\ recent' \subseteq Holdings
  <2>1. \E H \in SUBSET Holdings : Touch(H)
    BY DEF Due
  <2> QED BY <2>1, TouchType DEF TypeOK
<1> QED BY <1>2, <1>3 DEF TypeOK, Due

(* What the other actions write of the holdings. *)
LEMMA ClaimSubmitType ==
  ASSUME TypeOK, NEW p \in Persons, Claim(p) \/ \E r \in Requesters : Submits(r, p)
  PROVE  TypeOK'
<1> USE Parameters
<1>1. CASE Claim(p)
  <2>1. PICK h \in Holdings :
          /\ holding' = [holding EXCEPT ![h] = [NewRow("active", None, p, None, FALSE, FALSE) EXCEPT !.last = None]]
          /\ Touch({h})
    BY <1>1 DEF Claim
  <2>2. NewRow("active", None, p, None, FALSE, FALSE) \in HoldingRows /\ None \in Somebody
    BY NewRowType, EndedIsNotEffective DEF Somebody
  <2>3. [NewRow("active", None, p, None, FALSE, FALSE) EXCEPT !.last = None] \in HoldingRows
    BY <2>2 DEF HoldingRows
  <2>4. after' \subseteq Holdings \X Holdings /\ recent' \subseteq Holdings
    BY <2>1, TouchType DEF TypeOK
  <2> QED BY <1>1, <2>1, <2>3, <2>4, WriteType DEF TypeOK, Claim
<1>2. ASSUME NEW r \in Requesters, Submits(r, p) PROVE TypeOK'
  <2>1. PICK h \in Holdings, pred \in Predecessors, timed \in BOOLEAN, later \in BOOLEAN :
          (timed => Timed) /\ (later => Later) /\ Submit(r, p, h, pred, timed, later)
    BY <1>2, Zenon DEF Submits
  <2>b. PICK to \in {"ended/rejected", "awaiting_confirmation"} :
          holding' = [holding EXCEPT ![h] = NewRow(to, r, p, pred, timed, later)]
    BY <2>1 DEF Submit
  <2>c. Touch({h}) /\ pred \in Holdings \cup {None}
    BY <2>1 DEF Submit, Predecessors
  <2>2. r \in Somebody /\ to \in States
    BY EndedIsNotEffective DEF Somebody, Confirmers, EndedStates, PendingEndings, Pending
  <2>3. NewRow(to, r, p, pred, timed, later) \in HoldingRows
    BY <2>2, <2>c, NewRowType
  <2>4. after' \subseteq Holdings \X Holdings /\ recent' \subseteq Holdings
    BY <2>c, TouchType DEF TypeOK
  <2>5. UNCHANGED <<account, seen, source, vouched, closures, disposition, deployment>>
    BY <2>1 DEF Submit
  <2> QED BY <2>b, <2>3, <2>4, <2>5, WriteType DEF TypeOK
<1> QED BY <1>1, <1>2

(* A confirmation recorded or run out keeps them. *)
LEMMA ConfirmType ==
  ASSUME TypeOK, NEW c \in Confirmers, NEW h \in Holdings, Confirm(c, h) \/ ConfirmationExpires(h, c)
  PROVE  TypeOK'
<1>1. holding[h] \in HoldingRows
  BY DEF TypeOK
<1>2. holding' \in [Holdings -> HoldingRows]
  <2>1. CASE Confirm(c, h)
    <3> DEFINE row == [holding[h] EXCEPT !.confirmed = @ \cup {c}, !.jobs = @ \cup {"confirmed"}]
    <3>1. row \in HoldingRows
      BY <1>1 DEF HoldingRows
    <3>2. holding' = [holding EXCEPT ![h] = row]
      BY <2>1 DEF Confirm, TypeOK
    <3> QED BY <3>1, <3>2, WriteType DEF TypeOK
  <2>2. CASE ConfirmationExpires(h, c)
    <3> DEFINE row == [holding[h] EXCEPT !.confirmed = @ \ {c}]
    <3>1. row \in HoldingRows
      BY <1>1 DEF HoldingRows
    <3>2. holding' = [holding EXCEPT ![h] = row]
      BY <2>2 DEF ConfirmationExpires, TypeOK
    <3> QED BY <3>1, <3>2, WriteType DEF TypeOK
  <2> QED BY <2>1, <2>2
<1> QED BY <1>2 DEF TypeOK, Confirm, ConfirmationExpires

(* The states a termination and a tightening move to. *)
LEMMA TerminateType ==
  ASSUME TypeOK, NEW r \in Requesters, NEW h \in Holdings, NEW how \in {"withdraw", "cancel", "reject"},
         Terminate(r, h, how)
  PROVE  /\ TypeOK'
         /\ \E to \in PendingEndings : holding' = [holding EXCEPT ![h] = Moved(@, to, r)]
<1>1. PICK to \in PendingEndings : holding' = [holding EXCEPT ![h] = Moved(@, to, r)]
  BY DEF Terminate, PendingEndings
<1>2. Moved(holding[h], to, r) \in HoldingRows
  BY Parameters, MovedType, EndedIsNotEffective DEF TypeOK, EndedStates, Somebody, Confirmers
<1>3. after' \subseteq Holdings \X Holdings /\ recent' \subseteq Holdings
  BY TouchType DEF TypeOK, Terminate
<1>4. UNCHANGED <<account, seen, source, vouched, closures, disposition, deployment>>
  BY DEF Terminate
<1>5. TypeOK'
  BY <1>1, <1>2, <1>3, <1>4, WriteType DEF TypeOK
<1> QED BY <1>1, <1>5

(* A revocation or a relinquishment keeps them. *)
LEMMA TightenType ==
  ASSUME TypeOK, NEW r \in Requesters, NEW h \in Holdings, NEW own \in BOOLEAN, NEW c, Tighten(r, h, own, c)
  PROVE  TypeOK'
<1>1. PICK to \in Endings : holding' = [holding EXCEPT ![h] = Moved(@, to, r)]
  BY DEF Tighten, Endings
<1>2. Moved(holding[h], to, r) \in HoldingRows
  BY Parameters, MovedType, EndedIsNotEffective DEF TypeOK, EndedStates, Somebody, Confirmers
<1>3. after' \subseteq Holdings \X Holdings /\ recent' \subseteq Holdings
  BY TouchType DEF TypeOK, Tighten
<1>4. deployment' \in DeploymentRows
  BY JudgedType DEF TypeOK, Tighten
<1>5. UNCHANGED <<account, seen, source, vouched, closures, disposition>>
  BY DEF Tighten
<1> QED BY <1>1, <1>2, <1>3, <1>4, <1>5, WriteType DEF TypeOK

(* A disposition and its release keep them. *)
LEMMA DisposeReleaseType ==
  ASSUME TypeOK, NEW r \in Requesters, NEW c,
         \/ \E p \in Persons : Dispose(r, p, c)
         \/ \E d \in Dispositions, n \in 0..MaxRefs : Release(r, d, c, n)
  PROVE  TypeOK'
<1> USE Parameters
<1>r. r \in Somebody
  BY DEF Somebody, Confirmers
<1>1. ASSUME NEW p \in Persons, Dispose(r, p, c) PROVE TypeOK'
  <2>1. PICK d \in Dispositions :
          /\ holding' = HeldBy(holding, InForceOf(holding, p), d, r)
          /\ disposition' = [disposition EXCEPT ![d] = Disposing("admin", p, r, 0)]
    BY <1>1 DEF Dispose
  <2>2. holding' \in [Holdings -> HoldingRows]
    BY <1>r, <2>1, HeldByType DEF TypeOK
  <2>3. disposition' \in [Dispositions -> DispositionRows]
    <3>1. Disposing("admin", p, r, 0) \in DispositionRows
      BY <1>r, DispositionType DEF Somebody, Confirmers
    <3> QED BY <2>1, <3>1 DEF TypeOK
  <2>4. deployment' \in DeploymentRows
    <3>1. deployment' = Judged(deployment, holding', account) \/ deployment' = deployment
      BY <1>1 DEF Dispose
    <3> QED BY <3>1, JudgedType DEF TypeOK
  <2>5. after' \subseteq Holdings \X Holdings /\ recent' \subseteq Holdings
    <3>1. Touch(InForceOf(holding, p)) /\ InForceOf(holding, p) \in SUBSET Holdings
      BY <1>1 DEF Dispose, InForceOf, ActiveOf
    <3> QED BY <3>1, TouchType DEF TypeOK
  <2> QED BY <1>1, <2>2, <2>3, <2>4, <2>5 DEF TypeOK, Dispose
<1>2. ASSUME NEW d \in Dispositions, NEW n \in 0..MaxRefs, Release(r, d, c, n) PROVE TypeOK'
  <2>1. deployment' \in DeploymentRows /\ UNCHANGED <<account, seen, source, vouched, closures>>
    BY <1>2, JudgedType DEF TypeOK, Release
  <2>2. CASE /\ disposition' = [disposition EXCEPT ![d].refs = @ - n]
             /\ n < disposition[d].refs
             /\ UNCHANGED <<holding, after, recent>>
    <3> DEFINE row == [disposition[d] EXCEPT !.refs = @ - n]
    <3>1. row \in DispositionRows
      <4>1. disposition[d] \in DispositionRows /\ disposition[d].refs - n \in 0..MaxRefs
        BY <2>2 DEF TypeOK, DispositionRows
      <4> QED BY <4>1 DEF DispositionRows
    <3>2. disposition' = [disposition EXCEPT ![d] = row]
      BY <2>2 DEF TypeOK
    <3>3. disposition' \in [Dispositions -> DispositionRows]
      <4> HIDE DEF row
      <4> QED BY <3>1, <3>2 DEF TypeOK
    <3> QED BY <2>1, <2>2, <3>3 DEF TypeOK
  <2>3. CASE /\ disposition' = Released(disposition, {d})
             /\ \E first : holding' = BroughtBack(holding, HeldUnder(holding, d), first, r)
             /\ Touch(HeldUnder(holding, d))
    <3>1. holding' \in [Holdings -> HoldingRows] /\ disposition' \in [Dispositions -> DispositionRows]
      BY <1>r, <2>3, BroughtBackType, ReleasedType DEF TypeOK
    <3>2. after' \subseteq Holdings \X Holdings /\ recent' \subseteq Holdings
      <4>1. HeldUnder(holding, d) \in SUBSET Holdings
        BY DEF HeldUnder
      <4> QED BY <2>3, <4>1, TouchType DEF TypeOK
    <3> QED BY <2>1, <3>1, <3>2 DEF TypeOK
  <2> QED BY <1>2, <2>2, <2>3 DEF Release
<1> QED BY <1>1, <1>2

(* The Changed hook keeps them. *)
LEMMA AccountFactType ==
  ASSUME TypeOK, NEW p \in Persons, NEW s \in Statuses, NEW v \in BOOLEAN, AccountFact(p, s, v)
  PROVE  TypeOK'
<1> USE Parameters
<1> DEFINE hs == Backfilled(holding, p, s, v)
<1>1. hs \in [Holdings -> HoldingRows]
  BY BackfilledType DEF TypeOK
<1>2. s \in AllStatuses /\ Owner \in Somebody /\ None \in Somebody /\ p \in Somebody
  BY DEF Somebody, Confirmers
<1>3. /\ account' \in [Persons -> AllStatuses] /\ seen' \in [Persons -> AllStatuses \cup {"none"}]
      /\ vouched' \in [Persons -> SUBSET Confirmers] /\ closures' \subseteq Persons
      /\ source' = source
  BY <1>2 DEF TypeOK, AccountFact
<1>4. deployment' \in DeploymentRows
  BY JudgedType DEF TypeOK, AccountFact
<1>5. CASE Disposes(p, s)
  <2>1. PICK d \in Dispositions :
          /\ disposition' = [disposition EXCEPT ![d] = Disposing("identity_side", p, None, 1)]
          /\ holding' = HeldBy(hs, InForceOf(hs, p), d, Owner)
          /\ Touch(InForceOf(hs, p))
    BY <1>5 DEF AccountFact
  <2>2. holding' \in [Holdings -> HoldingRows]
    BY <1>1, <1>2, <2>1, HeldByType
  <2>3. Disposing("identity_side", p, None, 1) \in DispositionRows
    BY <1>2, DispositionType
  <2>4. InForceOf(hs, p) \in SUBSET Holdings
    BY DEF InForceOf, ActiveOf
  <2>5. after' \subseteq Holdings \X Holdings /\ recent' \subseteq Holdings
    BY <2>1, <2>4, TouchType DEF TypeOK
  <2> QED BY <1>3, <1>4, <2>1, <2>2, <2>3, <2>5 DEF TypeOK
<1>6. CASE ~Disposes(p, s)
  <2>1. holding' = hs /\ UNCHANGED <<after, recent>>
    BY <1>6 DEF AccountFact
  <2>2. disposition' \in [Dispositions -> DispositionRows]
    <3>1. CASE UNCHANGED disposition
      BY <3>1 DEF TypeOK
    <3>2. ASSUME NEW d \in Merges(p), disposition[d].refs < MaxRefs,
                 disposition' = [disposition EXCEPT ![d].refs = @ + 1]
          PROVE  disposition' \in [Dispositions -> DispositionRows]
      <4>1. d \in Dispositions /\ disposition[d] \in DispositionRows
        BY DEF Merges, TypeOK
      <4>2. disposition[d].refs + 1 \in 0..MaxRefs
        BY <3>2, <4>1 DEF DispositionRows
      <4>3. [disposition[d] EXCEPT !.refs = @ + 1] \in DispositionRows
        BY <4>1, <4>2 DEF DispositionRows
      <4> QED BY <3>2, <4>1, <4>3 DEF TypeOK
    <3> QED BY <1>6, <3>1, <3>2 DEF AccountFact
  <2> QED BY <1>1, <1>3, <1>4, <2>1, <2>2 DEF TypeOK
<1> QED BY <1>5, <1>6

(* An account's closure keeps them, and moves a holding nowhere but to its source's end. *)
LEMMA AccountClosureType ==
  ASSUME TypeOK, NEW p \in Persons, AccountClosure(p)
  PROVE  /\ TypeOK'
         /\ \A h \in Holdings : holding'[h] \in {holding[h], Moved(holding[h], "ended/source_ended", None)}
<1> DEFINE H == IF AccountEnded(p) THEN EffectiveOf(holding, p) ELSE {}
<1>1. holding' = [h \in Holdings |-> IF h \in H THEN Moved(holding[h], "ended/source_ended", None) ELSE holding[h]]
  BY DEF AccountClosure
<1>2. ASSUME NEW h \in Holdings PROVE Moved(holding[h], "ended/source_ended", None) \in HoldingRows
  BY MovedType, EndedIsNotEffective DEF TypeOK, EndedStates, Endings, Somebody
<1>3. deployment' \in DeploymentRows
  <2>1. \/ deployment' = deployment
        \/ deployment' = Judged(deployment, holding', account)
        \/ deployment' = Judged(Judged(deployment, holding', account), holding', account)
    BY DEF AccountClosure
  <2>2. Judged(deployment, holding', account) \in DeploymentRows
    BY JudgedType DEF TypeOK
  <2>3. Judged(Judged(deployment, holding', account), holding', account) \in DeploymentRows
    BY <2>2, JudgedType
  <2> QED BY <2>1, <2>2, <2>3 DEF TypeOK
<1>4. after' \subseteq Holdings \X Holdings /\ recent' \subseteq Holdings
  <2>1. Touch(H) /\ H \in SUBSET Holdings
    BY DEF AccountClosure, EffectiveOf
  <2> QED BY <2>1, TouchType DEF TypeOK
<1>5. UNCHANGED <<account, seen, source, vouched, disposition>> /\ closures' \subseteq Persons
  BY DEF AccountClosure, TypeOK
<1> QED BY <1>1, <1>2, <1>3, <1>4, <1>5 DEF TypeOK

(* So do an account's confirmations. *)
LEMMA ConfirmAccountType ==
  ASSUME TypeOK, NEW c \in Confirmers, NEW p \in Persons,
         ConfirmAccount(c, p) \/ AccountConfirmationExpires(c, p)
  PROVE  TypeOK'
BY DEF TypeOK, ConfirmAccount, AccountConfirmationExpires

(* A reconfirmation keeps them, and moves no holding. *)
LEMMA ReconfirmType ==
  ASSUME TypeOK, NEW r \in Requesters, NEW p \in Persons, NEW c \in Confirmers, Reconfirm(r, p, c)
  PROVE  /\ TypeOK'
         /\ \A h \in Holdings : holding'[h].state = holding[h].state
<1>1. ASSUME NEW h \in Holdings
      PROVE  [holding[h] EXCEPT !.backfill = FALSE] \in HoldingRows
             /\ [holding[h] EXCEPT !.backfill = FALSE].state = holding[h].state
  <2>1. holding[h] \in HoldingRows
    BY DEF TypeOK
  <2> QED BY <2>1 DEF HoldingRows
<1>2. deployment' \in DeploymentRows
  BY JudgedType DEF TypeOK, Reconfirm
<1>3. holding' \in [Holdings -> HoldingRows] /\ \A h \in Holdings : holding'[h].state = holding[h].state
  BY <1>1 DEF TypeOK, Reconfirm
<1>4. vouched' \in [Persons -> SUBSET Confirmers]
  BY DEF TypeOK, Reconfirm
<1> QED BY <1>2, <1>3, <1>4 DEF TypeOK, Reconfirm

(* So do time, the source's freshness and an aborted recovery. *)
LEMMA TimeType ==
  ASSUME TypeOK,
         \/ \E h \in Holdings : Lapse(h) \/ Expire(h) \/ TimeComes(h)
         \/ GrowOld
         \/ RecoveryAbort
         \/ \E s \in SourceStates : SourceMoves(s)
  PROVE  TypeOK'
<1>1. ASSUME NEW h \in Holdings, Lapse(h) \/ Expire(h) \/ TimeComes(h) PROVE TypeOK'
  <2>1. holding[h] \in HoldingRows
    BY DEF TypeOK
  <2>2. CASE Lapse(h)
    <3>1. [holding[h] EXCEPT !.until = "past"] \in HoldingRows
      BY <2>1 DEF HoldingRows
    <3> QED BY <2>2, <3>1 DEF TypeOK, Lapse
  <2>3. CASE TimeComes(h)
    <3> DEFINE cooling == IF holding[h].cooling = "on" THEN "over" ELSE holding[h].cooling
    <3>1. [holding[h] EXCEPT !.later = FALSE, !.cooling = cooling] \in HoldingRows
      <4>1. cooling \in {"none", "on", "over"}
        BY <2>1 DEF HoldingRows
      <4> HIDE DEF cooling
      <4> QED BY <2>1, <4>1 DEF HoldingRows
    <3>2. holding' = [holding EXCEPT ![h] = [holding[h] EXCEPT !.later = FALSE, !.cooling = cooling]]
      BY <2>3 DEF TypeOK, TimeComes
    <3> QED BY <2>3, <3>1, <3>2 DEF TypeOK, TimeComes
  <2>4. CASE Expire(h)
    <3>1. [holding[h] EXCEPT !.expires = FALSE] \in HoldingRows
      BY <2>1 DEF HoldingRows
    <3>2. Moved(holding[h], "ended/expired", None) \in HoldingRows
      BY <2>1, MovedType, EndedIsNotEffective DEF EndedStates, Endings, Somebody
    <3>3. holding' \in [Holdings -> HoldingRows]
      BY <2>4, <3>1, <3>2 DEF TypeOK, Expire
    <3>4. after' \subseteq Holdings \X Holdings /\ recent' \subseteq Holdings
      BY <2>4, TouchType DEF TypeOK, Expire
    <3> QED BY <2>4, <3>3, <3>4 DEF TypeOK, Expire
  <2> QED BY <1>1, <2>2, <2>3, <2>4
<1>2. CASE GrowOld
  BY <1>2 DEF TypeOK, GrowOld
<1>3. CASE RecoveryAbort
  <2>1. deployment' \in DeploymentRows
    BY <1>3 DEF TypeOK, RecoveryAbort, DeploymentRows, AdminStates
  <2> QED BY <1>3, <2>1 DEF TypeOK, RecoveryAbort
<1>4. ASSUME NEW s \in SourceStates, SourceMoves(s) PROVE TypeOK'
  BY <1>4, Parameters DEF TypeOK, SourceMoves
<1> QED BY <1>1, <1>2, <1>3, <1>4

(* The owner's two recovery steps. *)
LEMMA RecoveryReplaceType ==
  ASSUME TypeOK, NEW H \in SUBSET Holdings, RecoveryReplace(H)
  PROVE  TypeOK'
<1> DEFINE replaced == {holding[h].holder : h \in H}
           cancelled == {x \in Holdings : holding[x].state \in Pending /\ holding[x].by \in replaced}
<1>1. PICK ids \in [H -> {d \in Dispositions : FreeDisposition(d)}] :
        /\ holding' = [x \in Holdings |->
             [(CASE x \in H -> [Moved(holding[x], "held/security_hold", Owner) EXCEPT !.disp = ids[x]]
                 [] x \in cancelled -> Moved(holding[x], "ended/cancelled", Owner)
                 [] OTHER -> holding[x]) EXCEPT !.confirmed = @ \ replaced]]
        /\ vouched' = [p \in Persons |-> vouched[p] \ replaced]
        /\ disposition' = [d \in Dispositions |->
             IF \E h \in H : ids[h] = d
             THEN Disposing("admin_recovery", holding[CHOOSE h \in H : ids[h] = d].holder, Owner, 0)
             ELSE disposition[d]]
        /\ deployment' = Judged(deployment, holding', account)
        /\ Touch(H \cup cancelled)
  BY DEF RecoveryReplace
<1>o. Owner \in Somebody
  BY DEF Somebody, Confirmers
<1>2. ASSUME NEW x \in Holdings PROVE holding'[x] \in HoldingRows
  <2> DEFINE held == [Moved(holding[x], "held/security_hold", Owner) EXCEPT !.disp = ids[x]]
             ended == Moved(holding[x], "ended/cancelled", Owner)
             row == CASE x \in H -> held [] x \in cancelled -> ended [] OTHER -> holding[x]
  <2>1. holding[x] \in HoldingRows
    BY DEF TypeOK
  <2>2. ASSUME x \in H PROVE held \in HoldingRows
    <3>1. Moved(holding[x], "held/security_hold", Owner) \in HoldingRows
      BY <1>o, <2>1, MovedType, EndedIsNotEffective
    <3> QED BY <2>2, <3>1 DEF HoldingRows
  <2>3. ended \in HoldingRows
    BY <1>o, <2>1, MovedType, EndedIsNotEffective DEF EndedStates, PendingEndings
  <2>4. x \in H => x \notin cancelled
    <3>1. Effective \cap Pending = {}
      BY DEF Effective, HeldStates, Pending
    <3> QED BY <3>1 DEF RecoveryReplace
  <2> HIDE DEF held, ended, cancelled
  <2>5. row \in HoldingRows
    BY <2>1, <2>2, <2>3, <2>4
  <2>6. holding'[x] = [row EXCEPT !.confirmed = @ \ replaced]
    BY <1>1 DEF held, ended, cancelled
  <2> HIDE DEF row, replaced
  <2> QED BY <2>5, <2>6 DEF HoldingRows
<1>3. holding' \in [Holdings -> HoldingRows]
  <2> HIDE DEF cancelled
  <2>1. DOMAIN holding' = Holdings /\ holding' = [x \in Holdings |-> holding'[x]]
    BY <1>1
  <2> QED BY <1>2, <2>1
<1>4. disposition' \in [Dispositions -> DispositionRows]
  <2>1. ASSUME NEW h \in H PROVE Disposing("admin_recovery", holding[h].holder, Owner, 0) \in DispositionRows
    <3>1. holding[h] \in HoldingRows /\ 0 \in 0..MaxRefs
      BY Parameters DEF TypeOK
    <3>2. holding[h].holder \in Somebody
      BY <3>1 DEF HoldingRows
    <3> QED BY <1>o, <3>1, <3>2, DispositionType
  <2> QED BY <1>1, <2>1 DEF TypeOK
<1>5. after' \subseteq Holdings \X Holdings /\ recent' \subseteq Holdings
  <2>1. H \cup cancelled \in SUBSET Holdings
    OBVIOUS
  <2> HIDE DEF cancelled
  <2> QED BY <1>1, <2>1, TouchType DEF TypeOK
<1>6. deployment' \in DeploymentRows
  BY <1>1, JudgedType DEF TypeOK
<1>7. vouched' \in [Persons -> SUBSET Confirmers] /\ UNCHANGED <<account, seen, source, closures>>
  BY <1>1 DEF TypeOK, RecoveryReplace
<1> QED BY <1>3, <1>4, <1>5, <1>6, <1>7 DEF TypeOK

(* The owner's restore keeps them. *)
LEMMA RecoveryRestoreType ==
  ASSUME TypeOK, NEW i \in Recoverable, RecoveryRestore(i)
  PROVE  TypeOK'
<1> DEFINE D == Releasable(i)
           H == UNION {HeldUnder(holding, d) : d \in D}
           entered == [state |-> "admin_recovery", identity |-> i,
                       from |-> IF deployment.state = "admin_recovery" THEN deployment.from ELSE deployment.state]
           granted == [NewRow("active", None, i, None, FALSE, FALSE) EXCEPT !.last = Author(Owner)]
<1>1. PICK first : LET back == BroughtBack(holding, H, first, Owner) IN
        \/ holding' = back /\ Touch(H)
        \/ \E h \in Holdings : holding' = [back EXCEPT ![h] = granted] /\ Touch(H \cup {h})
  BY DEF RecoveryRestore
<1>2. /\ disposition' = Released(disposition, D) /\ deployment' = Judged(entered, holding', account)
      /\ UNCHANGED <<account, seen, source, vouched, closures>>
  BY DEF RecoveryRestore
<1>o. Owner \in Somebody /\ None \in Somebody /\ i \in Persons
  BY Parameters DEF Somebody, Confirmers
<1>3. BroughtBack(holding, H, first, Owner) \in [Holdings -> HoldingRows]
  BY <1>o, BroughtBackType DEF TypeOK
<1>4. granted \in HoldingRows
  <2>1. NewRow("active", None, i, None, FALSE, FALSE) \in HoldingRows
    BY <1>o, NewRowType, EndedIsNotEffective
  <2>2. Author(Owner) \in Somebody
    BY <1>o DEF Author
  <2> QED BY <2>1, <2>2 DEF HoldingRows
<1>5. H \in SUBSET Holdings
  BY DEF HeldUnder
<1>6. entered \in DeploymentRows
  BY <1>o, Parameters DEF TypeOK, DeploymentRows, AdminStates
<1> HIDE DEF H, D, granted, entered
<1>7. holding' \in [Holdings -> HoldingRows]
  BY <1>1, <1>3, <1>4
<1>8. after' \subseteq Holdings \X Holdings /\ recent' \subseteq Holdings
  <2>1. \E G \in SUBSET Holdings : Touch(G)
    BY <1>1, <1>5
  <2> QED BY <2>1, TouchType DEF TypeOK
<1>9. disposition' \in [Dispositions -> DispositionRows] /\ deployment' \in DeploymentRows
  BY <1>2, <1>6, ReleasedType, JudgedType DEF TypeOK
<1> QED BY <1>2, <1>7, <1>8, <1>9 DEF TypeOK

(* No step leaves the shapes the tables' constraints give. *)
LEMMA TypeStep == TypeOK /\ [Next]_vars => TypeOK'
<1> SUFFICES ASSUME TypeOK, [Next]_vars PROVE TypeOK'
  OBVIOUS
<1> USE Parameters
<1>1. ASSUME NEW p \in Persons, Claim(p) \/ AccountClosure(p) PROVE TypeOK'
  BY <1>1, ClaimSubmitType, AccountClosureType
<1>2. ASSUME NEW r \in Requesters, NEW p \in Persons, Submits(r, p) PROVE TypeOK'
  BY <1>2, ClaimSubmitType
<1>3. ASSUME NEW c \in Confirmers, NEW h \in Holdings, Confirm(c, h) \/ ConfirmationExpires(h, c) PROVE TypeOK'
  BY <1>3, ConfirmType
<1>4. ASSUME NEW h \in Holdings, NEW t, Due(h, t) PROVE TypeOK'
  BY <1>4, DueType
<1>5. ASSUME NEW r \in Requesters, NEW h \in Holdings, NEW how \in {"withdraw", "cancel", "reject"}, Terminate(r, h, how)
      PROVE  TypeOK'
  BY <1>5, TerminateType
<1>6. ASSUME NEW r \in Requesters, NEW h \in Holdings, NEW own \in BOOLEAN, NEW c, Tighten(r, h, own, c) PROVE TypeOK'
  BY <1>6, TightenType
<1>7. ASSUME NEW r \in Requesters, NEW c,
             \/ \E p \in Persons : Dispose(r, p, c)
             \/ \E d \in Dispositions, n \in 0..MaxRefs : Release(r, d, c, n)
      PROVE  TypeOK'
  BY <1>7, DisposeReleaseType
<1>8. ASSUME NEW p \in Persons, NEW s \in Statuses, NEW v \in BOOLEAN, AccountFact(p, s, v) PROVE TypeOK'
  BY <1>8, AccountFactType
<1>9. ASSUME NEW c \in Confirmers, NEW p \in Persons, ConfirmAccount(c, p) \/ AccountConfirmationExpires(c, p) PROVE TypeOK'
  BY <1>9, ConfirmAccountType
<1>10. ASSUME NEW r \in Requesters, NEW p \in Persons, NEW c \in Confirmers, Reconfirm(r, p, c) PROVE TypeOK'
  BY <1>10, ReconfirmType
<1>11. ASSUME NEW H \in SUBSET Holdings, RecoveryReplace(H) PROVE TypeOK'
  BY <1>11, RecoveryReplaceType
<1>12. ASSUME NEW i \in Recoverable, RecoveryRestore(i) PROVE TypeOK'
  BY <1>12, RecoveryRestoreType
<1>13. ASSUME \/ \E h \in Holdings : Lapse(h) \/ Expire(h) \/ TimeComes(h)
              \/ GrowOld
              \/ RecoveryAbort
              \/ \E s \in SourceStates : SourceMoves(s)
       PROVE  TypeOK'
  BY <1>13, TimeType
<1>14. CASE UNCHANGED vars
  BY <1>14 DEF TypeOK, vars
<1> QED BY <1>1, <1>2, <1>3, <1>4, <1>5, <1>6, <1>7, <1>8, <1>9, <1>10, <1>11, <1>12, <1>13, <1>14 DEF Next

(* Every record, disposition and state of the deployment keeps the shape its table's constraints give it, whatever     *)
(* the handlers, jobs and recovery steps do (internal/effectpoint, internal/adminrecovery).                            *)
THEOREM TypeCorrect == Spec => []TypeOK
<1>1. Init => TypeOK
  BY InitType
<1>2. TypeOK /\ [Next]_vars => TypeOK'
  BY TypeStep
<1> QED BY <1>1, <1>2, PTL DEF Spec

(* The row the claim and a recovery grant is a record in force. *)
LEMMA GrantedType ==
  ASSUME NEW p \in Persons
  PROVE  /\ NewRow("active", None, p, None, FALSE, FALSE) \in HoldingRows
         /\ NewRow("active", None, p, None, FALSE, FALSE).state = "active"
<1>1. None \in Somebody /\ "active" \in States
  BY EndedIsNotEffective DEF Somebody
<1> QED BY <1>1, NewRowType

(* So is the row a request writes, saved or rejected. *)
LEMMA AskedType ==
  ASSUME NEW to \in {"ended/rejected", "awaiting_confirmation"}, NEW r \in Requesters, NEW p \in Persons,
         NEW pred \in Holdings \cup {None}, NEW timed \in BOOLEAN, NEW later \in BOOLEAN
  PROVE  /\ NewRow(to, r, p, pred, timed, later) \in HoldingRows
         /\ NewRow(to, r, p, pred, timed, later).state = to
<1>1. r \in Somebody
  BY Parameters DEF Somebody, Confirmers
<1>2. to \in States
  BY EndedIsNotEffective DEF EndedStates, PendingEndings, Pending
<1> QED BY <1>1, <1>2, NewRowType

\* how a person's own change ends a holding
GivenUp == {"ended/revoked", "ended/relinquished"}

(* Nothing but a person's revocation or relinquishment ends a holding so. *)
LEMMA OnlyTighteningsEnd ==
  ASSUME TypeOK, Next, NEW h \in Holdings, holding'[h].state \in GivenUp, holding[h].state \notin GivenUp
  PROVE  \E r \in Requesters, g \in Holdings, own \in BOOLEAN, c \in {None} \cup Confirmers : Tighten(r, g, own, c)
<1> USE Parameters
<1>a. /\ holding[h] \in HoldingRows /\ Owner \in Somebody /\ None \in Somebody /\ Requesters \subseteq Somebody
      /\ {"active", "held/security_hold", "awaiting_confirmation", "scheduled"} \cap GivenUp = {}
      /\ {"ended/superseded", "ended/source_ended", "ended/expired", "ended/cancelled", "ended/rejected"} \cap GivenUp = {}
      /\ {"active", "held/security_hold", "awaiting_confirmation", "scheduled"} \subseteq States
      /\ {"ended/superseded", "ended/source_ended", "ended/expired", "ended/cancelled", "ended/rejected"} \subseteq States
      /\ PendingEndings \cap GivenUp = {} /\ PendingEndings \subseteq States
  BY DEF TypeOK, Somebody, Confirmers, GivenUp, States, Pending, Effective, HeldStates, EndedStates, Endings, PendingEndings
<1>m. ASSUME NEW to \in States, NEW by \in Somebody PROVE Moved(holding[h], to, by).state = to
  BY <1>a, MovedType
<1>1. ASSUME NEW p \in Persons, Claim(p) PROVE FALSE
  <2>1. PICK g \in Holdings :
          holding' = [holding EXCEPT ![g] = [NewRow("active", None, p, None, FALSE, FALSE) EXCEPT !.last = None]]
    BY <1>1 DEF Claim
  <2>2. NewRow("active", None, p, None, FALSE, FALSE) \in HoldingRows
        /\ NewRow("active", None, p, None, FALSE, FALSE).state = "active"
    BY GrantedType
  <2>3. [NewRow("active", None, p, None, FALSE, FALSE) EXCEPT !.last = None].state = "active"
    BY <2>2 DEF HoldingRows
  <2> QED BY <1>a, <2>1, <2>3 DEF TypeOK
<1>2. ASSUME NEW p \in Persons, AccountClosure(p) PROVE FALSE
  <2>1. holding'[h] \in {holding[h], Moved(holding[h], "ended/source_ended", None)}
    BY <1>2, AccountClosureType
  <2> QED BY <1>a, <1>m, <2>1
<1>3. ASSUME NEW r \in Requesters, NEW p \in Persons, Submits(r, p) PROVE FALSE
  <2>1. PICK g \in Holdings, pred \in Predecessors, timed \in BOOLEAN, later \in BOOLEAN :
          (timed => Timed) /\ (later => Later) /\ Submit(r, p, g, pred, timed, later)
    BY <1>3, Zenon DEF Submits
  <2>2. PICK to \in {"ended/rejected", "awaiting_confirmation"} :
          holding' = [holding EXCEPT ![g] = NewRow(to, r, p, pred, timed, later)]
    BY <2>1 DEF Submit
  <2>3. NewRow(to, r, p, pred, timed, later).state = to
    <3>1. pred \in Holdings \cup {None}
      BY DEF Predecessors
    <3> QED BY <3>1, AskedType, SMTT(60)
  <2> QED BY <1>a, <2>2, <2>3 DEF TypeOK
<1>4. ASSUME NEW c \in Confirmers, NEW g \in Holdings, Confirm(c, g) \/ ConfirmationExpires(g, c) PROVE FALSE
  <2>1. holding[g] \in HoldingRows
    BY DEF TypeOK
  <2>2. holding'[h].state = holding[h].state
    BY <1>4, <2>1 DEF TypeOK, Confirm, ConfirmationExpires, HoldingRows
  <2> QED BY <2>2
<1>5. ASSUME NEW g \in Holdings, NEW t, Due(g, t) PROVE FALSE
  <2>1. \/ holding' = TakesEffect(holding, g)
        \/ \E cools : holding' = [holding EXCEPT ![g] = Scheduled(holding[g], cools)]
        \/ holding' = [holding EXCEPT ![g] = Moved(@, "awaiting_confirmation", Owner)]
        \/ holding' = [holding EXCEPT ![g] = Moved(@, "ended/rejected", Owner)]
    BY <1>5 DEF Due
  <2>2. CASE holding' = TakesEffect(holding, g)
    <3> DEFINE on == [holding EXCEPT ![g] = Moved(@, "active", Owner)]
    <3>1. on[h].state \notin GivenUp /\ on[h] \in HoldingRows /\ DOMAIN on = Holdings
      <4>1. /\ Moved(holding[h], "active", Owner) \in HoldingRows /\ Moved(holding[h], "active", Owner).state = "active"
        <5>1. holding[h] \in HoldingRows /\ Owner \in Somebody /\ "active" \in States
          BY <1>a
        <5> QED BY <5>1, MovedType
      <4> QED BY <1>a, <4>1 DEF TypeOK
    <3>2. Moved(on[h], "ended/superseded", Owner).state = "ended/superseded"
      <4> HIDE DEF on
      <4> QED BY <1>a, <3>1, MovedType
    <3>3. holding' = on \/ holding' = [on EXCEPT ![holding[g].pred] = Moved(@, "ended/superseded", Owner)]
      BY <2>2 DEF TakesEffect
    <3> HIDE DEF on
    <3> QED BY <1>a, <3>1, <3>2, <3>3
  <2>3. ASSUME NEW cools, holding' = [holding EXCEPT ![g] = Scheduled(holding[g], cools)] PROVE FALSE
    <3>1. Moved(holding[g], "scheduled", Owner) \in HoldingRows /\ Moved(holding[g], "scheduled", Owner).state = "scheduled"
      BY <1>a, MovedType DEF TypeOK
    <3>2. Scheduled(holding[g], cools).state = "scheduled"
      BY <3>1 DEF Scheduled, HoldingRows
    <3> QED BY <1>a, <2>3, <3>2 DEF TypeOK
  <2>4. CASE holding' = [holding EXCEPT ![g] = Moved(@, "awaiting_confirmation", Owner)]
    BY <1>a, <1>m, <2>4 DEF TypeOK
  <2>5. CASE holding' = [holding EXCEPT ![g] = Moved(@, "ended/rejected", Owner)]
    BY <1>a, <1>m, <2>5 DEF TypeOK
  <2> QED BY <2>1, <2>2, <2>3, <2>4, <2>5
<1>6. ASSUME NEW r \in Requesters, NEW g \in Holdings, NEW how \in {"withdraw", "cancel", "reject"}, Terminate(r, g, how)
      PROVE  FALSE
  <2>1. PICK to \in PendingEndings : holding' = [holding EXCEPT ![g] = Moved(@, to, r)]
    BY <1>6, TerminateType
  <2> QED BY <1>a, <1>m, <2>1 DEF TypeOK
<1>7. ASSUME NEW hs \in [Holdings -> HoldingRows], NEW H, NEW d, NEW by \in Somebody, hs[h].state \notin GivenUp
      PROVE  HeldBy(hs, H, d, by)[h].state \notin GivenUp
  <2>1. Moved(hs[h], "held/security_hold", by) \in HoldingRows
        /\ Moved(hs[h], "held/security_hold", by).state = "held/security_hold"
    BY <1>a, <1>7, MovedType
  <2>2. [Moved(hs[h], "held/security_hold", by) EXCEPT !.disp = d].state = "held/security_hold"
    BY <2>1 DEF HoldingRows
  <2> QED BY <1>a, <1>7, <2>2 DEF HeldBy
<1>8. ASSUME NEW H, NEW first, NEW by \in Somebody
      PROVE  BroughtBack(holding, H, first, by)[h].state \notin GivenUp
  <2>1. ASSUME NEW to \in {"ended/superseded", "active"}
        PROVE  [Moved(holding[h], to, by) EXCEPT !.disp = None].state \notin GivenUp
    <3>1. to \in States /\ to \notin GivenUp
      BY <1>a
    <3>2. Moved(holding[h], to, by) \in HoldingRows /\ Moved(holding[h], to, by).state = to
      <4>1. holding[h] \in HoldingRows
        BY <1>a
      <4> QED BY <1>8, <3>1, <4>1, MovedType
    <3> QED BY <3>1, <3>2 DEF HoldingRows
  <2> QED BY <2>1 DEF BroughtBack
<1>9. ASSUME NEW r \in Requesters, NEW p \in Persons, NEW c, Dispose(r, p, c) PROVE FALSE
  <2>1. \E d \in Dispositions : holding' = HeldBy(holding, InForceOf(holding, p), d, r)
    BY <1>9 DEF Dispose
  <2> QED BY <1>7, <1>a, <2>1 DEF TypeOK
<1>10. ASSUME NEW r \in Requesters, NEW d \in Dispositions, NEW c, NEW n \in 0..MaxRefs, Release(r, d, c, n) PROVE FALSE
  <2>1. holding' = holding \/ \E first : holding' = BroughtBack(holding, HeldUnder(holding, d), first, r)
    BY <1>10 DEF Release
  <2> QED BY <1>8, <1>a, <2>1
<1>11. ASSUME NEW p \in Persons, NEW s \in Statuses, NEW v \in BOOLEAN, AccountFact(p, s, v) PROVE FALSE
  <2> DEFINE hs == Backfilled(holding, p, s, v)
  <2>1. hs \in [Holdings -> HoldingRows] /\ hs[h].state = holding[h].state
    <3>1. hs \in [Holdings -> HoldingRows]
      BY BackfilledType DEF TypeOK
    <3>2. [holding[h] EXCEPT !.backfill = ~v].state = holding[h].state
      BY <1>a DEF HoldingRows
    <3>3. hs[h] = holding[h] \/ hs[h] = [holding[h] EXCEPT !.backfill = ~v]
      BY DEF Backfilled
    <3> QED BY <3>1, <3>2, <3>3
  <2>2. holding' = hs \/ \E d \in Dispositions : holding' = HeldBy(hs, InForceOf(hs, p), d, Owner)
    BY <1>11 DEF AccountFact
  <2> HIDE DEF hs
  <2> QED BY <1>7, <1>a, <2>1, <2>2
<1>12. ASSUME NEW r \in Requesters, NEW p \in Persons, NEW c \in Confirmers, Reconfirm(r, p, c) PROVE FALSE
  BY <1>12, ReconfirmType
<1>13. ASSUME NEW H \in SUBSET Holdings, RecoveryReplace(H) PROVE FALSE
  <2>1. PICK row, W : holding'[h] = [row EXCEPT !.confirmed = @ \ W]
                      /\ \/ \E d : row = [Moved(holding[h], "held/security_hold", Owner) EXCEPT !.disp = d]
                         \/ row = Moved(holding[h], "ended/cancelled", Owner)
                         \/ row = holding[h]
    <3> DEFINE replaced == {holding[x].holder : x \in H}
               cancelled == {x \in Holdings : holding[x].state \in Pending /\ holding[x].by \in replaced}
               R(ids) == CASE h \in H -> [Moved(holding[h], "held/security_hold", Owner) EXCEPT !.disp = ids[h]]
                           [] h \in cancelled -> Moved(holding[h], "ended/cancelled", Owner)
                           [] OTHER -> holding[h]
    <3>1. PICK ids \in [H -> {d \in Dispositions : FreeDisposition(d)}] : holding' = [x \in Holdings |->
                [(CASE x \in H -> [Moved(holding[x], "held/security_hold", Owner) EXCEPT !.disp = ids[x]]
                    [] x \in cancelled -> Moved(holding[x], "ended/cancelled", Owner)
                    [] OTHER -> holding[x]) EXCEPT !.confirmed = @ \ replaced]]
      BY <1>13, Zenon DEF RecoveryReplace
    <3>4. holding'[h] = [R(ids) EXCEPT !.confirmed = @ \ replaced]
      BY <3>1
    <3>2. h \in H => h \notin cancelled
      <4>1. Effective \cap Pending = {}
        BY DEF Effective, HeldStates, Pending
      <4> QED BY <1>13, <4>1 DEF RecoveryReplace
    <3> HIDE DEF cancelled, replaced
    <3>3. \/ R(ids) = [Moved(holding[h], "held/security_hold", Owner) EXCEPT !.disp = ids[h]]
          \/ R(ids) = Moved(holding[h], "ended/cancelled", Owner)
          \/ R(ids) = holding[h]
      BY <3>2
    <3> HIDE DEF R
    <3> QED BY <3>3, <3>4
  <2>2. row.state \notin GivenUp
    <3>1. Moved(holding[h], "held/security_hold", Owner) \in HoldingRows
      BY <1>a, MovedType
    <3> QED BY <1>a, <1>m, <2>1, <3>1 DEF HoldingRows
  <2>3. DOMAIN row = DOMAIN holding[h] /\ "state" \in DOMAIN row
    <3>1. Moved(holding[h], "held/security_hold", Owner) \in HoldingRows /\ Moved(holding[h], "ended/cancelled", Owner) \in HoldingRows
      BY <1>a, MovedType
    <3> QED BY <1>a, <2>1, <3>1 DEF HoldingRows
  <2> QED BY <2>1, <2>2, <2>3
<1>14. ASSUME NEW i \in Recoverable, RecoveryRestore(i) PROVE FALSE
  <2> DEFINE granted == [NewRow("active", None, i, None, FALSE, FALSE) EXCEPT !.last = Author(Owner)]
  <2>1. PICK first, H : \/ holding' = BroughtBack(holding, H, first, Owner)
                        \/ \E g \in Holdings : holding' = [BroughtBack(holding, H, first, Owner) EXCEPT ![g] = granted]
    BY <1>14 DEF RecoveryRestore
  <2>2. granted.state = "active"
    <3>1. NewRow("active", None, i, None, FALSE, FALSE) \in HoldingRows
          /\ NewRow("active", None, i, None, FALSE, FALSE).state = "active"
      BY GrantedType
    <3> QED BY <3>1 DEF HoldingRows
  <2>3. BroughtBack(holding, H, first, Owner)[h].state \notin GivenUp /\ DOMAIN BroughtBack(holding, H, first, Owner) = Holdings
    BY <1>8, <1>a DEF BroughtBack
  <2> HIDE DEF granted
  <2> QED BY <1>a, <2>1, <2>2, <2>3
<1>15. ASSUME NEW g \in Holdings, Lapse(g) \/ Expire(g) \/ TimeComes(g) PROVE FALSE
  <2>1. holding[g] \in HoldingRows
    BY DEF TypeOK
  <2>2. CASE Expire(g)
    <3>1. Moved(holding[g], "ended/expired", None).state = "ended/expired"
      BY <1>a, <2>1, MovedType
    <3>2. [holding[g] EXCEPT !.expires = FALSE].state = holding[g].state
      BY <2>1 DEF HoldingRows
    <3>3. \/ holding' = [holding EXCEPT ![g] = Moved(holding[g], "ended/expired", None)]
          \/ holding' = [holding EXCEPT ![g] = [holding[g] EXCEPT !.expires = FALSE]]
      BY <2>2 DEF Expire, TypeOK
    <3> QED BY <1>a, <3>1, <3>2, <3>3 DEF TypeOK
  <2>3. CASE Lapse(g) \/ TimeComes(g)
    <3>1. holding'[h].state = holding[h].state
      BY <2>1, <2>3 DEF Lapse, TimeComes, TypeOK, HoldingRows
    <3> QED BY <3>1
  <2> QED BY <1>15, <2>2, <2>3
<1>16. ASSUME UNCHANGED holding PROVE FALSE
  BY <1>16
<1>17. \/ \E r \in Requesters, g \in Holdings, own \in BOOLEAN, c \in {None} \cup Confirmers : Tighten(r, g, own, c)
       \/ UNCHANGED holding
  BY <1>1, <1>2, <1>3, <1>4, <1>5, <1>6, <1>9, <1>10, <1>11, <1>12, <1>13, <1>14, <1>15
     DEF Next, ConfirmAccount, AccountConfirmationExpires, RecoveryAbort, GrowOld, SourceMoves
<1> QED BY <1>16, <1>17

(* Whom AdminsAfter counts once the ended one is left out are those it counts after it ended. *)
LEMMA HoldersAfterEnding ==
  ASSUME TypeOK, NEW h \in Holdings, NEW row, row.state # "active", holding' = [holding EXCEPT ![h] = row]
  PROVE  HoldersBut(holding', {}) = HoldersBut(holding, {h})
<1>1. \A x \in Holdings : holding'[x] = IF x = h THEN row ELSE holding[x]
  BY DEF TypeOK
<1>2. {x \in Holdings : holding'[x].state = "active" /\ ~holding'[x].backfill}
        = {x \in Holdings \ {h} : holding[x].state = "active" /\ ~holding[x].backfill}
  BY <1>1
<1> QED BY <1>1, <1>2 DEF HoldersBut

(* A person's change never removes the last available admin: after a revocation or a relinquishment one is proven     *)
(* available, for any persons, holdings and features (effectpoint's enact with core.Decide, rows 27 and 28).          *)
THEOREM LastAdminIsKept == Spec => LastAdminKept
<1> USE Parameters
<1>1. TypeOK /\ [Next]_vars =>
        [ (\E h \in Holdings : /\ holding[h].state \in Effective
                               /\ holding'[h].state \in {"ended/revoked", "ended/relinquished"})
          => AdminsAfter(holding', account', {}) = "proven" ]_vars
  <2> SUFFICES ASSUME TypeOK, Next,
                      NEW x \in Holdings, holding[x].state \in Effective, holding'[x].state \in GivenUp
               PROVE  AdminsAfter(holding', account', {}) = "proven"
    BY DEF GivenUp
  <2>1. holding[x].state \notin GivenUp
    BY DEF GivenUp, Effective, HeldStates
  <2>2. PICK r \in Requesters, h \in Holdings, own \in BOOLEAN, c \in {None} \cup Confirmers : Tighten(r, h, own, c)
    BY <2>1, OnlyTighteningsEnd
  <2>3. AdminsAfter(holding, account, {h}) = "proven"
    <3> DEFINE row == holding[h]
               mine == r = row.holder
               structural == /\ mine \/ (~own /\ IsAdmin(r))
                             /\ ~(mine /\ row.state = "held/security_hold")
               after0 == AdminsAfter(holding, account, {h})
               asked == [Entering EXCEPT !.kind = "tighten", !.affectsAdmins = TRUE, !.tightenNeedsConfirmation = ~mine,
                                         !.adminsAfter = after0]
               f == Carrying(Eligible(asked, r, structural), c, r, row.holder, FALSE)
    <3>1. Outcome(f) = "applied"
      BY <2>2 DEF Tighten
    <3>2. /\ asked.trigger = "user" /\ asked.kind = "tighten" /\ asked.affectsAdmins = TRUE /\ asked.disposition = FALSE
          /\ asked.adminsAfter = after0
      BY DEF Entering, FreshFacts
    <3> HIDE DEF asked, after0, structural
    <3>3. /\ f.trigger = "user" /\ f.kind = "tighten" /\ f.affectsAdmins = TRUE /\ f.disposition = FALSE
          /\ f.adminsAfter = after0
      BY <3>2 DEF Carrying, Eligible
    <3> HIDE DEF f
    <3>4. f.adminsAfter = "proven"
      BY <3>1, <3>3, AppliedTightening
    <3> QED BY <3>3, <3>4 DEF after0
  <2>4. HoldersBut(holding', {}) = HoldersBut(holding, {h})
    <3>1. PICK to \in Endings : holding' = [holding EXCEPT ![h] = Moved(@, to, r)]
      BY <2>2 DEF Tighten, Endings
    <3>2. Moved(holding[h], to, r).state = to
      BY MovedType, EndedIsNotEffective DEF TypeOK, EndedStates, Somebody, Confirmers
    <3>3. to # "active"
      BY EndedIsNotEffective DEF EndedStates
    <3>4. holding' = [holding EXCEPT ![h] = Moved(holding[h], to, r)]
      BY <3>1 DEF TypeOK
    <3> QED BY <3>2, <3>3, <3>4, HoldersAfterEnding
  <2>5. account' = account /\ source' = source
    BY <2>2 DEF Tighten
  <2>6. AdminsAfter(holding', account', {}) = AdminsAfter(holding, account, {h})
    BY <2>4, <2>5 DEF AdminsAfter
  <2> QED BY <2>3, <2>6
<1>2. Spec => []TypeOK
  BY TypeCorrect
<1> QED BY <1>1, <1>2, PTL DEF Spec, LastAdminKept

=============================================================================
