---------------------------- MODULE AdminsSafety ----------------------------
(***************************************************************************)
(* The safety of the authorization admins, for any persons, records and     *)
(* dispositions and any of the features turned on: one inductive invariant, *)
(* what one step may do to one record (Lawful), shown action by action, and *)
(* the properties of Admins that follow.                                    *)
(***************************************************************************)
EXTENDS AdminsProofs

\* What holds of every row besides its shape: an inserted record is somebody's, only what is in effect awaits a
\* reconfirmation, a job is of the state it was registered for, what cools off waits for its time, and a held one names
\* its disposition.
RowSound(row) ==
  /\ row.state = "none" => ~row.backfill
  /\ row.state # "none" => row.holder \in Persons
  /\ row.backfill => row.state \in Effective
  /\ "confirmed" \in row.jobs => row.state = "awaiting_confirmation"
  /\ "scheduled" \in row.jobs => row.state = "scheduled"
  /\ row.cooling = "on" => row.later /\ row.state \in Pending
  /\ row.state = "held/security_hold" => row.disp \in Dispositions

\* Nobody confirms the account of their own.
NobodyForThemselves == \A p \in Persons : p \notin vouched[p]

IInv ==
  /\ TypeOK
  /\ \A h \in Holdings : RowSound(holding[h])
  /\ HeldIsAccountedFor
  /\ NobodyForThemselves
  /\ UnclaimedIsOperational

-----------------------------------------------------------------------------
(* What one step may do to one record *)

\* How a record comes into effect: by the claim, by the owner's recovery, by a release while in operation, by its job.
Activated(h) ==
  \/ holding[h].state = "none" /\ \E p \in Persons : Claim(p)
  \/ holding[h].state \in {"none", "held/security_hold"} /\ \E i \in Recoverable : RecoveryRestore(i)
  \/ holding[h].state = "held/security_hold" /\ deployment.state = "operational"
  \/ \E t \in holding[h].jobs : Outcome(Fired(h, Cools(h, t))) = "applied"

\* A renewal of it is in effect after the step.
TakenOver(h) == \E x \in Holdings : holding'[x].state = "active" /\ holding'[x].pred = h

\* What has it count again: a confirmation of its holder's account, by somebody else.
Confirmed(h) == \E c \in vouched[holding[h].holder] : c # holding[h].holder

Lawful(h) ==
  /\ RowSound(holding'[h])
  /\ holding'[h].state = "held/security_hold" =>
       /\ disposition'[holding'[h].disp].state = "active"
       /\ disposition'[holding'[h].disp].subject = holding'[h].holder
  /\ holding'[h].state # holding[h].state => Allowed(holding[h].state, holding'[h].state)
  /\ holding[h].state # "active" /\ holding'[h].state = "active" => Activated(h)
  /\ holding[h].state \notin EndedStates /\ holding'[h].state = "ended/superseded" => TakenOver(h)
  /\ holding[h].backfill /\ ~holding'[h].backfill /\ holding'[h].state \in Effective => Confirmed(h)
  /\ holding[h].state # "ended/expired" /\ holding'[h].state = "ended/expired" => holding[h].until = "past"
  /\ holding'[h].pred \in {None, holding[h].pred} \/ Renewal
  /\ holding'[h].until = "open" \/ holding[h].until # "open" \/ Timed

\* What Transition makes of a row.
GoesTo(old, new, to) ==
  /\ new.state = to /\ new.holder = old.holder
  /\ new.jobs \subseteq {"scheduled"} /\ ("scheduled" \in new.jobs => to = "scheduled")
  /\ new.cooling = "on" => to \in Pending /\ new.later
  /\ new.backfill => old.backfill /\ to \notin EndedStates
  /\ to \in Effective => new.backfill = old.backfill
  /\ to \notin EndedStates => new.pred = old.pred
  /\ new.pred \in {None, old.pred} /\ new.until \in {"open", old.until}

\* Every active disposition stays one of the same subject.
DispositionsStand ==
  \A d \in Dispositions : disposition[d].state = "active" =>
    disposition'[d].state = "active" /\ disposition'[d].subject = disposition[d].subject

(* The groups of states, apart from each other. *)
LEMMA StateGroups ==
  /\ "none" \notin Effective /\ "none" \notin Pending /\ "none" \notin EndedStates
  /\ Effective \cap Pending = {} /\ Effective \cap EndedStates = {} /\ Pending \cap EndedStates = {}
  /\ "active" \in Effective /\ "held/security_hold" \in Effective
  /\ {"awaiting_confirmation", "scheduled"} \subseteq Pending
  /\ Endings \cup PendingEndings = EndedStates
  /\ {"ended/superseded", "ended/source_ended", "ended/expired", "ended/revoked", "ended/relinquished"} \subseteq Endings
  /\ PendingEndings = {"ended/rejected", "ended/withdrawn", "ended/cancelled"}
  /\ {"ended/superseded", "ended/expired"} \cap PendingEndings = {}
  /\ Effective \cup Pending \cup EndedStates \subseteq States
BY DEF Effective, HeldStates, Pending, EndedStates, Endings, PendingEndings, States

(* The table of moves, by those groups. *)
LEMMA MovesByGroup ==
  /\ \A from \in Pending, to \in PendingEndings \cup {"active"} : Allowed(from, to)
  /\ \A from \in Effective, to \in Endings \cup {"held/security_hold"} : from # to => Allowed(from, to)
  /\ \A to \in {"active", "awaiting_confirmation", "ended/rejected"} : Allowed("none", to)
  /\ Allowed("held/security_hold", "active") /\ Allowed("scheduled", "awaiting_confirmation")
  /\ Allowed("awaiting_confirmation", "scheduled") /\ Allowed("awaiting_confirmation", "awaiting_confirmation")
  /\ \A from \in States, to \in States : Allowed(from, to) => to # "none" /\ (to \in Pending => from \in Pending \cup {"none"})
<1> USE DEF Allowed, Moves, Pending, Effective, HeldStates, Endings, PendingEndings
<1>1. \A from \in Pending, to \in PendingEndings \cup {"active"} : Allowed(from, to)
  OBVIOUS
<1>2. \A from \in Effective, to \in Endings \cup {"held/security_hold"} : from # to => Allowed(from, to)
  OBVIOUS
<1>3. \A to \in {"active", "awaiting_confirmation", "ended/rejected"} : Allowed("none", to)
  OBVIOUS
<1>4. /\ Allowed("held/security_hold", "active") /\ Allowed("scheduled", "awaiting_confirmation")
      /\ Allowed("awaiting_confirmation", "scheduled")
  OBVIOUS
<1>5. \A from \in States, to \in States : Allowed(from, to) => to # "none" /\ (to \in Pending => from \in Pending \cup {"none"})
  BY DEF States, EndedStates
<1> QED BY <1>1, <1>2, <1>3, <1>4, <1>5

(* Transition as Moved writes it. *)
LEMMA MovedGoes ==
  ASSUME NEW row \in HoldingRows, RowSound(row), NEW to \in States \ {"none"}, NEW by \in Somebody
  PROVE  GoesTo(row, Moved(row, to, by), to)
<1> DEFINE last == IF by = None THEN row.last ELSE Author(by)
           new == Moved(row, to, by)
<1>1. CASE to \in EndedStates
  <2>1. new = [Unwritten EXCEPT !.state = to, !.holder = row.holder, !.last = last]
    BY <1>1, StateGroups DEF Moved
  <2>2. /\ new.state = to /\ new.holder = row.holder /\ new.jobs = {} /\ new.cooling = "none" /\ new.backfill = FALSE
        /\ new.pred = None /\ new.until = "open"
    BY <2>1, UnwrittenType DEF HoldingRows, Unwritten
  <2> QED BY <1>1, <2>2, StateGroups DEF GoesTo
<1>2. CASE to \in Effective
  <2> DEFINE saved == [row EXCEPT !.state = to, !.jobs = {}, !.last = last]
  <2>1. new = [saved EXCEPT !.by = None, !.confirmed = {}, !.later = FALSE, !.cooling = "none"]
    BY <1>2, StateGroups DEF Moved
  <2>2. /\ saved.state = to /\ saved.holder = row.holder /\ saved.jobs = {} /\ saved.backfill = row.backfill
        /\ saved.pred = row.pred /\ saved.until = row.until /\ DOMAIN saved = DOMAIN row
    BY DEF HoldingRows
  <2>3. "cooling" \in DOMAIN saved
    BY <2>2 DEF HoldingRows
  <2> HIDE DEF saved, new
  <2>4. /\ new.state = to /\ new.holder = row.holder /\ new.jobs = {} /\ new.cooling = "none"
        /\ new.backfill = row.backfill /\ new.pred = row.pred /\ new.until = row.until
    BY <2>1, <2>2, <2>3
  <2> QED BY <1>2, <2>4, StateGroups DEF GoesTo, new
<1>3. CASE to \notin EndedStates /\ to \notin Effective
  <2>1. new = [row EXCEPT !.state = to, !.jobs = {}, !.last = last]
    BY <1>3 DEF Moved
  <2>2. /\ new.state = to /\ new.holder = row.holder /\ new.jobs = {} /\ new.cooling = row.cooling
        /\ new.backfill = row.backfill /\ new.pred = row.pred /\ new.until = row.until /\ new.later = row.later
    BY <2>1 DEF HoldingRows
  <2>3. to \in Pending
    BY <1>3 DEF States
  <2> QED BY <1>3, <2>2, <2>3 DEF GoesTo, RowSound
<1> QED BY <1>1, <1>2, <1>3

(* A record the table lets go where it goes is lawful, given what its new state asks for; a confirmation may have had   *)
(* it count again before it goes.                                                                                       *)
LEMMA GoesOnLawful ==
  ASSUME IInv, NEW h \in Holdings, NEW old, NEW to \in States \ {"none"},
         RowSound(old), old.state = holding[h].state, old.holder = holding[h].holder, old.pred = holding[h].pred,
         old.until = holding[h].until, holding[h].backfill /\ ~old.backfill => Confirmed(h),
         GoesTo(old, holding'[h], to), holding[h].state # "none",
         holding[h].state = to \/ Allowed(holding[h].state, to),
         to = "held/security_hold" =>
           /\ holding'[h].disp \in Dispositions
           /\ disposition'[holding'[h].disp].state = "active"
           /\ disposition'[holding'[h].disp].subject = holding[h].holder,
         to = "active" => holding[h].state = "active" \/ Activated(h),
         to = "ended/superseded" => TakenOver(h), to = "ended/expired" => holding[h].until = "past"
  PROVE  Lawful(h)
<1>1. holding[h] \in HoldingRows
  BY DEF IInv, TypeOK
<1>2. holding[h].state \in States /\ holding'[h].state = to /\ holding'[h].holder = holding[h].holder
  BY <1>1 DEF HoldingRows, GoesTo
<1>3. RowSound(holding'[h])
  <2>1. old.backfill => holding[h].state \in Effective
    BY DEF RowSound
  <2>2. holding'[h].backfill => to \in Effective
    <3>1. to \in Pending => holding[h].state \in Pending
      BY <1>2, MovesByGroup
    <3> QED BY <2>1, <3>1, StateGroups DEF GoesTo, States
  <2>3. holding'[h].holder \in Persons
    BY <1>2 DEF RowSound
  <2> QED BY <1>2, <2>2, <2>3 DEF RowSound, GoesTo
<1>4. holding[h].backfill /\ ~holding'[h].backfill /\ holding'[h].state \in Effective => Confirmed(h)
  BY <1>2 DEF GoesTo
<1>5. holding'[h].pred \in {None, holding[h].pred} /\ holding'[h].until \in {"open", holding[h].until}
  BY DEF GoesTo
<1> QED BY <1>2, <1>3, <1>4, <1>5 DEF Lawful

(* So is one that goes as it was. *)
LEMMA GoesLawful ==
  ASSUME IInv, NEW h \in Holdings, NEW to \in States \ {"none"},
         GoesTo(holding[h], holding'[h], to), holding[h].state # "none",
         holding[h].state = to \/ Allowed(holding[h].state, to),
         to = "held/security_hold" =>
           /\ holding'[h].disp \in Dispositions
           /\ disposition'[holding'[h].disp].state = "active"
           /\ disposition'[holding'[h].disp].subject = holding[h].holder,
         to = "active" => holding[h].state = "active" \/ Activated(h),
         to = "ended/superseded" => TakenOver(h), to = "ended/expired" => holding[h].until = "past"
  PROVE  Lawful(h)
<1>1. RowSound(holding[h])
  BY DEF IInv
<1> QED BY <1>1, GoesOnLawful

(* Which disposition holds a row is no part of where it goes. *)
LEMMA HoldGoes ==
  ASSUME NEW old, NEW new \in HoldingRows, NEW to, GoesTo(old, new, to), NEW d
  PROVE  GoesTo(old, [new EXCEPT !.disp = d], to) /\ [new EXCEPT !.disp = d].disp = d
<1>1. LET row == [new EXCEPT !.disp = d]
      IN /\ row.state = new.state /\ row.holder = new.holder /\ row.jobs = new.jobs /\ row.cooling = new.cooling
         /\ row.later = new.later /\ row.backfill = new.backfill /\ row.pred = new.pred /\ row.until = new.until
         /\ row.disp = d
  BY DEF HoldingRows
<1> QED BY <1>1 DEF GoesTo

(* Nor is who confirmed it. *)
LEMMA ConfirmersGo ==
  ASSUME NEW old, NEW new \in HoldingRows, NEW to, GoesTo(old, new, to), NEW C
  PROVE  GoesTo(old, [new EXCEPT !.confirmed = C], to) /\ [new EXCEPT !.confirmed = C].disp = new.disp
<1>1. LET row == [new EXCEPT !.confirmed = C]
      IN /\ row.state = new.state /\ row.holder = new.holder /\ row.jobs = new.jobs /\ row.cooling = new.cooling
         /\ row.later = new.later /\ row.backfill = new.backfill /\ row.pred = new.pred /\ row.until = new.until
         /\ row.disp = new.disp
  BY DEF HoldingRows
<1> QED BY <1>1 DEF GoesTo

(* A row a disposition holds. *)
LEMMA HeldGoes ==
  ASSUME NEW row \in HoldingRows, RowSound(row), NEW by \in Somebody, NEW d \in Dispositions
  PROVE  LET held == [Moved(row, "held/security_hold", by) EXCEPT !.disp = d]
         IN held \in HoldingRows /\ GoesTo(row, held, "held/security_hold") /\ held.disp = d
<1>1. "held/security_hold" \in States \ {"none"}
  BY StateGroups
<1>2. Moved(row, "held/security_hold", by) \in HoldingRows
  BY <1>1, MovedType
<1>3. GoesTo(row, Moved(row, "held/security_hold", by), "held/security_hold")
  BY <1>1, MovedGoes
<1>4. [Moved(row, "held/security_hold", by) EXCEPT !.disp = d] \in HoldingRows
  BY <1>2 DEF HoldingRows
<1> QED BY <1>2, <1>3, <1>4, HoldGoes

(* So is one whose state, holder and disposition stay, if what it is held by stands. *)
LEMMA KeptLawful ==
  ASSUME IInv, NEW h \in Holdings, DispositionsStand, RowSound(holding'[h]),
         holding'[h].state = holding[h].state, holding'[h].holder = holding[h].holder,
         holding'[h].disp = holding[h].disp, holding'[h].pred = holding[h].pred,
         holding'[h].until = holding[h].until \/ holding[h].until # "open",
         holding[h].backfill /\ ~holding'[h].backfill => Confirmed(h)
  PROVE  Lawful(h)
<1>1. holding[h].state = "held/security_hold" =>
        /\ holding[h].disp \in Dispositions
        /\ disposition[holding[h].disp].state = "active"
        /\ disposition[holding[h].disp].subject = holding[h].holder
  BY DEF IInv, HeldIsAccountedFor, RowSound
<1>2. holding'[h].state = "held/security_hold" =>
        /\ disposition'[holding'[h].disp].state = "active"
        /\ disposition'[holding'[h].disp].subject = holding'[h].holder
  BY <1>1 DEF DispositionsStand
<1>3. "ended/superseded" \in EndedStates
  BY StateGroups
<1> QED BY <1>2, <1>3 DEF Lawful

(* So is one not written at all. *)
LEMMA UntouchedLawful ==
  ASSUME IInv, NEW h \in Holdings, DispositionsStand, holding'[h] = holding[h]
  PROVE  Lawful(h)
BY KeptLawful DEF IInv

(* So is a record just inserted. *)
LEMMA InsertedLawful ==
  ASSUME NEW h \in Holdings, holding[h].state = "none",
         NEW to \in {"active", "awaiting_confirmation", "ended/rejected"},
         holding'[h].state = to, holding'[h].holder \in Persons, ~holding'[h].backfill,
         holding'[h].jobs = {}, holding'[h].cooling = "none", to = "active" => Activated(h),
         holding'[h].pred # None => Renewal, holding'[h].until # "open" => Timed, IInv
  PROVE  Lawful(h)
<1>1. Allowed("none", to)
  BY MovesByGroup
<1>2. RowSound(holding'[h])
  BY DEF RowSound
<1>3. ~holding[h].backfill
  BY DEF IInv, RowSound
<1> QED BY <1>1, <1>2, <1>3 DEF Lawful

\* A row just inserted, in state to and p's, renewing pred if any.
Inserted(row, to, p, pred, timed) ==
  /\ row \in HoldingRows /\ row.state = to /\ row.holder = p /\ ~row.backfill /\ row.jobs = {} /\ row.cooling = "none"
  /\ row.pred \in {None, pred} /\ (row.until = "open" \/ timed)

(* The row a claim, a request or a recovery inserts. *)
LEMMA NewRowFields ==
  ASSUME NEW to \in {"active", "awaiting_confirmation", "ended/rejected"}, NEW r \in Somebody, NEW p \in Persons,
         NEW pred \in Holdings \cup {None}, NEW timed \in BOOLEAN, NEW later \in BOOLEAN
  PROVE  Inserted(NewRow(to, r, p, pred, timed, later), to, p, pred, timed)
<1> DEFINE base == [Unwritten EXCEPT !.holder = p, !.by = r, !.pred = pred, !.last = Author(r), !.later = later,
                                     !.until = IF timed THEN "ahead" ELSE "open", !.expires = timed]
           row == NewRow(to, r, p, pred, timed, later)
<1>1. to \in States \ {"none"}
  BY StateGroups
<1>2. row \in HoldingRows /\ row.state = to
  BY <1>1, NewRowType
<1>3. /\ base.holder = p /\ base.backfill = FALSE /\ base.jobs = {} /\ base.cooling = "none"
      /\ base.state = "none" /\ base.pred = pred /\ (base.until = "open" \/ timed)
  BY DEF Unwritten
<1>4. DOMAIN base = DOMAIN Unwritten
  OBVIOUS
<1>5. CASE to = "awaiting_confirmation"
  <2>1. row = [base EXCEPT !.state = to]
    BY <1>5 DEF NewRow
  <2> HIDE DEF base
  <2> QED BY <1>2, <1>3, <1>4, <2>1 DEF Unwritten, Inserted
<1>6. CASE to # "awaiting_confirmation"
  <2>1. row = Moved(base, to, None)
    BY <1>6 DEF NewRow
  <2>2. CASE to = "active"
    <3> DEFINE last == base.last
               saved == [base EXCEPT !.state = to, !.jobs = {}, !.last = last]
    <3>1. Moved(base, to, None) = [saved EXCEPT !.by = None, !.confirmed = {}, !.later = FALSE, !.cooling = "none"]
      BY <2>2, StateGroups DEF Moved
    <3>2. /\ saved.holder = p /\ saved.backfill = FALSE /\ saved.jobs = {} /\ DOMAIN saved = DOMAIN Unwritten
          /\ saved.pred = pred /\ (saved.until = "open" \/ timed)
      <4> HIDE DEF base, last
      <4> QED BY <1>3, <1>4 DEF Unwritten
    <3> HIDE DEF base, saved
    <3>3. row = [saved EXCEPT !.by = None, !.confirmed = {}, !.later = FALSE, !.cooling = "none"]
      BY <2>1, <3>1
    <3> HIDE DEF row
    <3>4. /\ row.holder = p /\ row.backfill = FALSE /\ row.jobs = {} /\ row.cooling = "none"
          /\ row.pred = pred /\ (row.until = "open" \/ timed)
      BY <3>2, <3>3 DEF Unwritten
    <3> QED BY <1>2, <3>4 DEF row, Inserted
  <2>3. CASE to = "ended/rejected"
    <3>1. Moved(base, to, None) = [Unwritten EXCEPT !.state = to, !.holder = base.holder, !.last = base.last]
      BY <2>3, StateGroups DEF Moved
    <3> HIDE DEF base
    <3>2. /\ row.holder = p /\ row.backfill = FALSE /\ row.jobs = {} /\ row.cooling = "none"
          /\ row.pred = None /\ row.until = "open"
      BY <1>3, <2>1, <3>1 DEF Unwritten
    <3> QED BY <1>2, <3>2 DEF Inserted
  <2> QED BY <1>6, <2>2, <2>3
<1> QED BY <1>5, <1>6

(* One record moved, to no hold and not superseded. *)
LEMMA WrittenLawful ==
  ASSUME IInv, NEW g \in Holdings, NEW to \in States \ {"none", "held/security_hold", "ended/superseded", "ended/expired"}, NEW by \in Somebody,
         holding' = [holding EXCEPT ![g] = Moved(@, to, by)], Allowed(holding[g].state, to), holding[g].state # "none",
         to = "active" => Activated(g), DispositionsStand, NEW h \in Holdings
  PROVE  Lawful(h)
<1>1. holding \in [Holdings -> HoldingRows] /\ RowSound(holding[g]) /\ holding[g] \in HoldingRows
  BY DEF IInv, TypeOK
<1>2. CASE h # g
  BY <1>1, <1>2, UntouchedLawful
<1>3. CASE h = g
  <2>1. holding'[h] = Moved(holding[h], to, by)
    BY <1>1, <1>3
  <2>2. GoesTo(holding[h], holding'[h], to)
    BY <1>1, <1>3, <2>1, MovedGoes
  <2> QED BY <1>3, <2>2, GoesLawful
<1> QED BY <1>2, <1>3

-----------------------------------------------------------------------------
(* Every action is lawful, for every record *)

(* The install claim. *)
LEMMA ClaimLawful ==
  ASSUME IInv, NEW p \in Persons, Claim(p), NEW h \in Holdings
  PROVE  Lawful(h)
<1>1. PICK g \in Holdings : holding' = [holding EXCEPT ![g] = [NewRow("active", None, p, None, FALSE, FALSE) EXCEPT !.last = None]]
  BY DEF Claim
<1>2. DispositionsStand /\ holding \in [Holdings -> HoldingRows]
  BY DEF Claim, DispositionsStand, IInv, TypeOK
<1>3. CASE h # g
  BY <1>1, <1>2, <1>3, UntouchedLawful
<1>4. CASE h = g
  <2> DEFINE row == NewRow("active", None, p, None, FALSE, FALSE)
  <2>1. Inserted(row, "active", p, None, FALSE)
    BY NewRowFields, Zenon DEF Somebody
  <2>2. holding'[h] = [row EXCEPT !.last = None]
    BY <1>1, <1>2, <1>4
  <2> HIDE DEF row
  <2>3. /\ holding'[h].state = "active" /\ holding'[h].holder = p /\ ~holding'[h].backfill
        /\ holding'[h].jobs = {} /\ holding'[h].cooling = "none" /\ holding'[h].pred = None /\ holding'[h].until = "open"
    BY <2>1, <2>2 DEF HoldingRows, Inserted
  <2>4. holding[h].state = "none"
    BY DEF Claim, Claimed
  <2>5. Activated(h)
    BY <2>4 DEF Activated
  <2> QED BY <2>3, <2>4, <2>5, InsertedLawful
<1> QED BY <1>3, <1>4

(* A request for a holding, saved or finally rejected. *)
LEMMA SubmitLawful ==
  ASSUME IInv, NEW r \in Requesters, NEW p \in Persons, Submits(r, p), NEW h \in Holdings
  PROVE  Lawful(h)
<1>1. PICK g \in Holdings, pred \in Predecessors, timed \in BOOLEAN, later \in BOOLEAN :
        (timed => Timed) /\ (later => Later) /\ Submit(r, p, g, pred, timed, later)
  BY Zenon DEF Submits
<1>2. PICK to \in {"ended/rejected", "awaiting_confirmation"} :
        holding' = [holding EXCEPT ![g] = NewRow(to, r, p, pred, timed, later)]
  BY <1>1 DEF Submit
<1>3. DispositionsStand /\ holding \in [Holdings -> HoldingRows] /\ holding[g].state = "none"
  BY <1>1 DEF Submit, Free, DispositionsStand, IInv, TypeOK
<1>4. CASE h # g
  BY <1>2, <1>3, <1>4, UntouchedLawful
<1>5. CASE h = g
  <2> DEFINE row == NewRow(to, r, p, pred, timed, later)
  <2>1. pred \in Holdings \cup {None} /\ r \in Somebody
    BY Parameters DEF Predecessors, Somebody, Confirmers
  <2>2. to \in {"active", "awaiting_confirmation", "ended/rejected"} /\ Inserted(row, to, p, pred, timed)
    BY <2>1, NewRowFields, Zenon
  <2>3. holding'[h] = row
    BY <1>2, <1>3, <1>5
  <2> HIDE DEF row
  <2>4. (holding'[h].pred # None => Renewal) /\ (holding'[h].until # "open" => Timed)
    BY <1>1, <2>2, <2>3 DEF Inserted, Predecessors
  <2> QED BY <1>3, <1>5, <2>2, <2>3, <2>4, InsertedLawful DEF Inserted
<1> QED BY <1>4, <1>5

(* A confirmation recorded or run out. *)
LEMMA ConfirmLawful ==
  ASSUME IInv, NEW c \in Confirmers, NEW g \in Holdings, Confirm(c, g) \/ ConfirmationExpires(g, c), NEW h \in Holdings
  PROVE  Lawful(h)
<1>1. holding \in [Holdings -> HoldingRows] /\ RowSound(holding[g]) /\ DispositionsStand
  BY DEF IInv, TypeOK, DispositionsStand, Confirm, ConfirmationExpires
<1>2. CASE h # g
  <2>1. holding'[h] = holding[h]
    BY <1>1, <1>2 DEF Confirm, ConfirmationExpires
  <2> QED BY <1>1, <2>1, UntouchedLawful
<1>3. CASE h = g
  <2>1. holding[h] \in HoldingRows
    BY <1>1
  <2>2. /\ holding'[h].state = holding[h].state /\ holding'[h].holder = holding[h].holder
        /\ holding'[h].disp = holding[h].disp /\ holding'[h].backfill = holding[h].backfill
        /\ holding'[h].cooling = holding[h].cooling /\ holding'[h].later = holding[h].later
        /\ holding'[h].pred = holding[h].pred /\ holding'[h].until = holding[h].until
        /\ \/ holding'[h].jobs = holding[h].jobs
           \/ holding[h].state = "awaiting_confirmation" /\ holding'[h].jobs = holding[h].jobs \cup {"confirmed"}
    BY <1>1, <1>3, <2>1 DEF HoldingRows, Confirm, ConfirmationExpires
  <2>3. RowSound(holding'[h])
    BY <1>1, <1>3, <2>2 DEF RowSound
  <2> QED BY <1>1, <2>2, <2>3, KeptLawful
<1> QED BY <1>2, <1>3

(* What time alone does to a record. *)
LEMMA TimeLawful ==
  ASSUME IInv, NEW g \in Holdings, Lapse(g) \/ TimeComes(g) \/ Expire(g), NEW h \in Holdings
  PROVE  Lawful(h)
<1>1. /\ holding \in [Holdings -> HoldingRows] /\ RowSound(holding[g]) /\ DispositionsStand
      /\ holding[g] \in HoldingRows
  BY DEF IInv, TypeOK, DispositionsStand, Lapse, TimeComes, Expire
<1>2. CASE h # g
  <2>1. holding'[h] = holding[h]
    BY <1>1, <1>2 DEF Lapse, TimeComes, Expire
  <2> QED BY <1>1, <2>1, UntouchedLawful
<1>3. CASE h = g /\ Expire(g) /\ holding[g].state \in Effective
  <2>1. holding'[h] = Moved(holding[h], "ended/expired", None)
    BY <1>1, <1>3 DEF Expire
  <2>2. "ended/expired" \in States \ {"none"} /\ None \in Somebody
    BY StateGroups DEF Somebody
  <2>3. GoesTo(holding[h], holding'[h], "ended/expired")
    BY <1>1, <1>3, <2>1, <2>2, MovedGoes
  <2>4. Allowed(holding[h].state, "ended/expired") /\ holding[h].state # "none" /\ holding[h].until = "past"
    BY <1>3, StateGroups, MovesByGroup DEF Expire
  <2> QED BY <2>2, <2>3, <2>4, GoesLawful
<1>4. CASE h = g /\ ~(Expire(g) /\ holding[g].state \in Effective)
  <2>1. \/ holding'[h] = [holding[h] EXCEPT !.until = "past"]
        \/ holding'[h] = [holding[h] EXCEPT !.expires = FALSE]
        \/ holding'[h] = [holding[h] EXCEPT !.later = FALSE, !.cooling = IF @ = "on" THEN "over" ELSE @]
    BY <1>1, <1>4 DEF Lapse, TimeComes, Expire
  <2>2. /\ holding'[h].state = holding[h].state /\ holding'[h].holder = holding[h].holder
        /\ holding'[h].disp = holding[h].disp /\ holding'[h].backfill = holding[h].backfill
        /\ holding'[h].jobs = holding[h].jobs /\ holding'[h].pred = holding[h].pred
        /\ holding'[h].until = holding[h].until \/ holding[h].until # "open"
        /\ holding'[h].cooling = "on" => holding[h].cooling = "on" /\ holding'[h].later = holding[h].later
    <3>1. CASE \/ holding'[h] = [holding[h] EXCEPT !.until = "past"]
               \/ holding'[h] = [holding[h] EXCEPT !.expires = FALSE]
      BY <1>1, <1>4, <3>1 DEF HoldingRows, Lapse, TimeComes, Expire
    <3>2. CASE holding'[h] = [holding[h] EXCEPT !.later = FALSE, !.cooling = IF @ = "on" THEN "over" ELSE @]
      <4> DEFINE now == [holding[h] EXCEPT !.later = FALSE]
                 over == IF now.cooling = "on" THEN "over" ELSE now.cooling
      <4>1. holding'[h] = [now EXCEPT !.cooling = over]
        BY <3>2
      <4>2. /\ now.state = holding[h].state /\ now.holder = holding[h].holder /\ now.disp = holding[h].disp
            /\ now.backfill = holding[h].backfill /\ now.jobs = holding[h].jobs /\ "cooling" \in DOMAIN now
            /\ now.pred = holding[h].pred /\ now.until = holding[h].until
        BY <1>1, <1>4 DEF HoldingRows
      <4>3. over # "on"
        OBVIOUS
      <4> HIDE DEF now, over
      <4> QED BY <4>1, <4>2, <4>3
    <3> QED BY <2>1, <3>1, <3>2
  <2>3. RowSound(holding'[h])
    BY <1>1, <1>4, <2>2 DEF RowSound
  <2> QED BY <1>1, <2>2, <2>3, KeptLawful
<1> QED BY <1>2, <1>3, <1>4

(* A termination. *)
LEMMA TerminateLawful ==
  ASSUME IInv, NEW r \in Requesters, NEW g \in Holdings, NEW how \in {"withdraw", "cancel", "reject"},
         Terminate(r, g, how), NEW h \in Holdings
  PROVE  Lawful(h)
<1>1. PICK to \in PendingEndings : holding' = [holding EXCEPT ![g] = Moved(@, to, r)]
  BY DEF Terminate, PendingEndings
<1>2. holding[g].state \in Pending /\ DispositionsStand /\ r \in Somebody
  BY Parameters, StateGroups DEF Terminate, DispositionsStand, Somebody, Confirmers
<1>3. Allowed(holding[g].state, to) /\ to \in EndedStates \ {"ended/superseded"} /\ holding[g].state # "none"
  BY <1>2, StateGroups, MovesByGroup
<1> QED BY <1>1, <1>2, <1>3, StateGroups, WrittenLawful

(* A person's revocation or relinquishment. *)
LEMMA TightenLawful ==
  ASSUME IInv, NEW r \in Requesters, NEW g \in Holdings, NEW own \in BOOLEAN, NEW c, Tighten(r, g, own, c), NEW h \in Holdings
  PROVE  Lawful(h)
<1>1. PICK to \in {"ended/revoked", "ended/relinquished"} : holding' = [holding EXCEPT ![g] = Moved(@, to, r)]
  BY DEF Tighten
<1>2. holding[g].state \in Effective /\ DispositionsStand /\ r \in Somebody
  BY Parameters DEF Tighten, DispositionsStand, Somebody, Confirmers
<1>3. to \in Endings /\ to # holding[g].state /\ to \in EndedStates \ {"ended/superseded"} /\ holding[g].state # "none"
  BY <1>2, StateGroups
<1>4. Allowed(holding[g].state, to)
  BY <1>2, <1>3, MovesByGroup
<1> QED BY <1>1, <1>2, <1>3, <1>4, StateGroups, WrittenLawful

(* An account's closure. *)
LEMMA ClosureLawful ==
  ASSUME IInv, NEW p \in Persons, AccountClosure(p), NEW h \in Holdings
  PROVE  Lawful(h)
<1> DEFINE H == IF AccountEnded(p) THEN EffectiveOf(holding, p) ELSE {}
           to == "ended/source_ended"
<1>1. holding'[h] = IF h \in H THEN Moved(holding[h], to, None) ELSE holding[h]
  BY DEF AccountClosure
<1>2. DispositionsStand /\ holding[h] \in HoldingRows /\ RowSound(holding[h])
  BY DEF AccountClosure, DispositionsStand, IInv, TypeOK
<1>3. CASE h \notin H
  BY <1>1, <1>2, <1>3, UntouchedLawful
<1>4. CASE h \in H
  <2>1. holding[h].state \in Effective
    BY <1>4 DEF EffectiveOf
  <2>2. to \in States \ {"none"} /\ None \in Somebody /\ Allowed(holding[h].state, to) /\ holding[h].state # "none"
    BY <2>1, StateGroups, MovesByGroup DEF Somebody
  <2>3. GoesTo(holding[h], holding'[h], to)
    BY <1>1, <1>2, <1>4, <2>2, MovedGoes
  <2> QED BY <2>2, <2>3, GoesLawful
<1> QED BY <1>3, <1>4

(* A saved holding's job. *)
LEMMA DueLawful ==
  ASSUME IInv, NEW g \in Holdings, NEW t, Due(g, t), NEW h \in Holdings
  PROVE  Lawful(h)
<1>1. /\ holding \in [Holdings -> HoldingRows] /\ holding[g] \in HoldingRows /\ RowSound(holding[g])
      /\ DispositionsStand /\ Owner \in Somebody
  BY DEF IInv, TypeOK, DispositionsStand, Due, Somebody, Confirmers
<1>2. t \in holding[g].jobs /\ t \in {"confirmed", "scheduled"}
  BY <1>1 DEF Due, HoldingRows
<1>3. /\ holding[g].state \in {"awaiting_confirmation", "scheduled"} /\ holding[g].state \in Pending /\ holding[g].state # "none"
      /\ t = "confirmed" => holding[g].state = "awaiting_confirmation"
  BY <1>1, <1>2, StateGroups DEF RowSound
<1>4. CASE Outcome(Fired(g, Cools(g, t))) = "applied" /\ holding' = TakesEffect(holding, g)
  <2> DEFINE on == [holding EXCEPT ![g] = Moved(@, "active", Owner)]
             p == holding[g].pred
  <2>1. "active" \in States \ {"none"} /\ "ended/superseded" \in States \ {"none"} /\ "active" \notin EndedStates
        /\ "active" \notin Pending
    BY StateGroups
  <2>2. GoesTo(holding[g], Moved(holding[g], "active", Owner), "active")
    BY <1>1, <2>1, MovedGoes
  <2>3. CASE p # None /\ holding[p].state = "active"
    <3>1. holding' = [on EXCEPT ![p] = Moved(@, "ended/superseded", Owner)] /\ p # g /\ p \in Holdings
      BY <1>1, <1>3, <1>4, <2>1, <2>3 DEF TakesEffect, HoldingRows
    <3>2. holding'[g] = Moved(holding[g], "active", Owner) /\ holding'[p] = Moved(holding[p], "ended/superseded", Owner)
          /\ \A x \in Holdings \ {g, p} : holding'[x] = holding[x]
      BY <1>1, <3>1
    <3>3. CASE h = g
      <4>1. Activated(g)
        BY <1>2, <1>4 DEF Activated
      <4>2. Allowed(holding[g].state, "active")
        BY <1>3, MovesByGroup
      <4> QED BY <1>3, <2>1, <2>2, <3>2, <3>3, <4>1, <4>2, GoesLawful
    <3>4. CASE h = p
      <4>1. holding[p] \in HoldingRows /\ RowSound(holding[p])
        BY <3>1 DEF IInv, TypeOK
      <4>2. GoesTo(holding[p], holding'[p], "ended/superseded")
        BY <1>1, <2>1, <3>2, <4>1, MovedGoes
      <4>3. TakenOver(p)
        BY <2>1, <2>2, <3>2 DEF TakenOver, GoesTo
      <4>4. Allowed(holding[p].state, "ended/superseded") /\ holding[p].state # "none"
        BY <2>3, StateGroups, MovesByGroup
      <4> QED BY <2>1, <3>1, <3>4, <4>2, <4>3, <4>4, GoesLawful
    <3>5. CASE h \notin {g, p}
      BY <1>1, <3>2, <3>5, UntouchedLawful
    <3> QED BY <3>3, <3>4, <3>5
  <2>4. CASE ~(p # None /\ holding[p].state = "active")
    <3>1. holding' = on
      BY <1>4, <2>4 DEF TakesEffect
    <3>2. Activated(g) /\ Allowed(holding[g].state, "active")
      BY <1>2, <1>3, <1>4, MovesByGroup DEF Activated
    <3>3. "active" \in States \ {"none", "held/security_hold", "ended/superseded", "ended/expired"}
      BY <2>1
    <3> QED BY <1>1, <1>3, <3>1, <3>2, <3>3, WrittenLawful
  <2> QED BY <2>3, <2>4
<1>5. ASSUME NEW cools, t = "confirmed", holding' = [holding EXCEPT ![g] = Scheduled(@, cools)] PROVE Lawful(h)
  <2>1. CASE h # g
    BY <1>1, <1>5, <2>1, UntouchedLawful
  <2>2. CASE h = g
    <3> DEFINE row == Moved(holding[g], "scheduled", Owner)
               cooling == IF cools THEN "on" ELSE holding[g].cooling
    <3>1. "scheduled" \in States \ {"none"} /\ "scheduled" \notin EndedStates /\ "scheduled" \notin Effective
          /\ "scheduled" \in Pending
      BY StateGroups
    <3>2. row \in HoldingRows /\ GoesTo(holding[g], row, "scheduled")
      BY <1>1, <3>1, MovedType, MovedGoes
    <3>3. holding'[h] = [row EXCEPT !.later = TRUE, !.jobs = {"scheduled"}, !.cooling = cooling]
      BY <1>1, <1>5, <2>2 DEF Scheduled
    <3> HIDE DEF row, cooling
    <3>4. /\ holding'[h].state = row.state /\ holding'[h].holder = row.holder /\ holding'[h].backfill = row.backfill
          /\ holding'[h].pred = row.pred /\ holding'[h].until = row.until /\ holding'[h].later = TRUE /\ holding'[h].jobs = {"scheduled"}
      BY <3>2, <3>3 DEF HoldingRows
    <3>5. GoesTo(holding[h], holding'[h], "scheduled")
      BY <2>2, <3>1, <3>2, <3>4 DEF GoesTo
    <3>6. Allowed(holding[g].state, "scheduled")
      BY <1>3, <1>5, MovesByGroup
    <3> QED BY <1>3, <2>2, <3>1, <3>5, <3>6, GoesLawful
  <2> QED BY <2>1, <2>2
<1>6. ASSUME NEW to \in {"awaiting_confirmation", "ended/rejected"}, holding' = [holding EXCEPT ![g] = Moved(@, to, Owner)]
      PROVE  Lawful(h)
  <2>1. to \in States \ {"none", "held/security_hold", "ended/superseded", "ended/expired"} /\ to # "active"
    BY StateGroups
  <2>2. Allowed(holding[g].state, to)
    <3>1. CASE to = "ended/rejected"
      BY <1>3, <3>1, StateGroups, MovesByGroup
    <3>2. CASE to = "awaiting_confirmation"
      BY <1>3, <3>2, MovesByGroup
    <3> QED BY <3>1, <3>2
  <2> QED BY <1>1, <1>3, <1>6, <2>1, <2>2, WrittenLawful
<1> QED BY <1>4, <1>5, <1>6 DEF Due

(* A record a disposition comes to hold. *)
LEMMA HeldLawful ==
  ASSUME IInv, NEW h \in Holdings, NEW old \in HoldingRows, RowSound(old),
         old.state = holding[h].state, old.holder = holding[h].holder, old.pred = holding[h].pred,
         old.until = holding[h].until, holding[h].backfill /\ ~old.backfill => Confirmed(h),
         NEW by \in Somebody, NEW d \in Dispositions, holding[h].state \in Effective,
         disposition'[d].state = "active", disposition'[d].subject = holding[h].holder,
         holding'[h] = [Moved(old, "held/security_hold", by) EXCEPT !.disp = d]
  PROVE  Lawful(h)
<1>1. GoesTo(old, holding'[h], "held/security_hold") /\ holding'[h].disp = d
  BY HeldGoes
<1>2. "held/security_hold" \in States \ {"none"} /\ holding[h].state # "none"
  BY StateGroups
<1>3. holding[h].state = "held/security_hold" \/ Allowed(holding[h].state, "held/security_hold")
  BY MovesByGroup
<1> QED BY <1>1, <1>2, <1>3, GoesOnLawful

(* A disposition newly made leaves every active one as it was. *)
LEMMA NewDisposition ==
  ASSUME NEW d \in Dispositions, FreeDisposition(d), disposition \in [Dispositions -> DispositionRows], NEW row,
         disposition' = [disposition EXCEPT ![d] = row]
  PROVE  DispositionsStand /\ disposition'[d] = row
BY DEF DispositionsStand, FreeDisposition

(* A disposition by an admin. *)
LEMMA DisposeLawful ==
  ASSUME IInv, NEW r \in Requesters, NEW p \in Persons, NEW c, Dispose(r, p, c), NEW h \in Holdings
  PROVE  Lawful(h)
<1>1. PICK d \in Dispositions :
        /\ FreeDisposition(d) /\ holding' = HeldBy(holding, InForceOf(holding, p), d, r)
        /\ disposition' = [disposition EXCEPT ![d] = Disposing("admin", p, r, 0)]
  BY DEF Dispose
<1>2. holding[h] \in HoldingRows /\ RowSound(holding[h]) /\ r \in Somebody
  BY Parameters DEF IInv, TypeOK, Somebody, Confirmers
<1>3. DispositionsStand /\ disposition'[d].state = "active" /\ disposition'[d].subject = p
  BY <1>1, NewDisposition DEF IInv, TypeOK, Disposing
<1>4. CASE h \notin InForceOf(holding, p)
  <2>1. holding'[h] = holding[h]
    BY <1>1, <1>4 DEF HeldBy
  <2> QED BY <1>3, <2>1, UntouchedLawful
<1>5. CASE h \in InForceOf(holding, p)
  <2>1. holding'[h] = [Moved(holding[h], "held/security_hold", r) EXCEPT !.disp = d]
    BY <1>1, <1>5 DEF HeldBy
  <2>2. holding[h].state \in Effective /\ holding[h].holder = p
    BY <1>5, StateGroups DEF InForceOf, ActiveOf
  <2> QED BY <1>2, <1>3, <2>1, <2>2, HeldLawful
<1> QED BY <1>4, <1>5

(* The Changed hook: the signal's disposition, and the mark of an account come back. *)
LEMMA AccountFactLawful ==
  ASSUME IInv, NEW p \in Persons, NEW s, NEW v \in BOOLEAN, AccountFact(p, s, v), NEW h \in Holdings
  PROVE  Lawful(h)
<1> DEFINE hs == Backfilled(holding, p, s, v)
<1>1. holding[h] \in HoldingRows /\ RowSound(holding[h]) /\ disposition \in [Dispositions -> DispositionRows]
      /\ Owner \in Somebody
  BY DEF IInv, TypeOK, Somebody, Confirmers
<1>2. /\ hs[h] \in HoldingRows /\ RowSound(hs[h]) /\ hs[h].state = holding[h].state /\ hs[h].holder = holding[h].holder
      /\ hs[h].disp = holding[h].disp /\ hs[h].pred = holding[h].pred /\ hs[h].until = holding[h].until
      /\ holding[h].backfill /\ ~hs[h].backfill => Confirmed(h)
  <2>1. CASE hs[h] = holding[h]
    BY <1>1, <2>1
  <2>2. CASE h \in EffectiveOf(holding, p) /\ hs[h] = [holding[h] EXCEPT !.backfill = ~v]
    <3>1. holding[h].state \in Effective /\ holding[h].holder = p
      BY <2>2 DEF EffectiveOf
    <3>2. /\ hs[h] \in HoldingRows /\ hs[h].state = holding[h].state /\ hs[h].holder = holding[h].holder
          /\ hs[h].disp = holding[h].disp /\ hs[h].jobs = holding[h].jobs /\ hs[h].cooling = holding[h].cooling
          /\ hs[h].later = holding[h].later /\ hs[h].pred = holding[h].pred /\ hs[h].until = holding[h].until
          /\ hs[h].backfill = ~v
      BY <1>1, <2>2 DEF HoldingRows
    <3>3. RowSound(hs[h])
      BY <1>1, <3>1, <3>2, StateGroups DEF RowSound
    <3>4. v => Confirmed(h)
      <4>1. v => vouched[p] # {}
        BY DEF AccountFact
      <4>2. p \notin vouched[p]
        BY DEF IInv, NobodyForThemselves
      <4> QED BY <3>1, <4>1, <4>2 DEF Confirmed
    <3> QED BY <3>2, <3>3, <3>4
  <2>3. hs[h] = holding[h] \/ (h \in EffectiveOf(holding, p) /\ hs[h] = [holding[h] EXCEPT !.backfill = ~v])
    BY DEF Backfilled
  <2> QED BY <2>1, <2>2, <2>3
<1> HIDE DEF hs
<1>3. CASE Disposes(p, s)
  <2>1. PICK d \in Dispositions :
          /\ FreeDisposition(d) /\ disposition' = [disposition EXCEPT ![d] = Disposing("identity_side", p, None, 1)]
          /\ holding' = HeldBy(hs, InForceOf(hs, p), d, Owner)
    BY <1>3 DEF AccountFact, hs
  <2>2. DispositionsStand /\ disposition'[d].state = "active" /\ disposition'[d].subject = p
    BY <1>1, <2>1, NewDisposition DEF Disposing
  <2>3. CASE h \notin InForceOf(hs, p)
    <3>1. holding'[h] = hs[h]
      BY <2>1, <2>3 DEF HeldBy
    <3> QED BY <1>2, <2>2, <3>1, KeptLawful
  <2>4. CASE h \in InForceOf(hs, p)
    <3>1. holding'[h] = [Moved(hs[h], "held/security_hold", Owner) EXCEPT !.disp = d]
      BY <2>1, <2>4 DEF HeldBy
    <3>2. holding[h].state \in Effective /\ holding[h].holder = p
      BY <1>2, <2>4, StateGroups DEF InForceOf, ActiveOf
    <3> QED BY <1>1, <1>2, <2>1, <2>2, <3>1, <3>2, HeldLawful
  <2> QED BY <2>3, <2>4
<1>4. CASE ~Disposes(p, s)
  <2>1. holding' = hs
    BY <1>4 DEF AccountFact, hs
  <2>2. DispositionsStand
    <3>1. \/ UNCHANGED disposition
          \/ \E d \in Merges(p) : disposition' = [disposition EXCEPT ![d].refs = @ + 1]
      BY <1>4 DEF AccountFact
    <3>2. ASSUME NEW d \in Merges(p), disposition' = [disposition EXCEPT ![d].refs = @ + 1] PROVE DispositionsStand
      <4>1. d \in Dispositions /\ disposition[d] \in DispositionRows
        BY <1>1 DEF Merges
      <4>2. LET row == [disposition[d] EXCEPT !.refs = @ + 1]
            IN row.state = disposition[d].state /\ row.subject = disposition[d].subject
        BY <4>1 DEF DispositionRows
      <4> QED BY <1>1, <3>2, <4>1, <4>2 DEF DispositionsStand
    <3> QED BY <3>1, <3>2 DEF DispositionsStand
  <2> QED BY <1>2, <2>1, <2>2, KeptLawful
<1> QED BY <1>3, <1>4

(* An admin's reconfirmation. *)
LEMMA ReconfirmLawful ==
  ASSUME IInv, NEW r \in Requesters, NEW p \in Persons, NEW c \in Confirmers, Reconfirm(r, p, c), NEW h \in Holdings
  PROVE  Lawful(h)
<1>1. holding[h] \in HoldingRows /\ RowSound(holding[h]) /\ DispositionsStand
  BY DEF IInv, TypeOK, DispositionsStand, Reconfirm
<1>2. CASE h \notin EffectiveOf(holding, p)
  <2>1. holding'[h] = holding[h]
    BY <1>2 DEF Reconfirm
  <2> QED BY <1>1, <2>1, UntouchedLawful
<1>3. CASE h \in EffectiveOf(holding, p)
  <2>1. holding'[h] = [holding[h] EXCEPT !.backfill = FALSE] /\ holding[h].holder = p
    BY <1>3 DEF Reconfirm, EffectiveOf
  <2>2. /\ holding'[h].state = holding[h].state /\ holding'[h].holder = holding[h].holder
        /\ holding'[h].disp = holding[h].disp /\ holding'[h].jobs = holding[h].jobs
        /\ holding'[h].cooling = holding[h].cooling /\ holding'[h].later = holding[h].later /\ holding'[h].backfill = FALSE
        /\ holding'[h].pred = holding[h].pred /\ holding'[h].until = holding[h].until
    BY <1>1, <2>1 DEF HoldingRows
  <2>3. RowSound(holding'[h])
    BY <1>1, <2>2 DEF RowSound
  <2>4. Confirmed(h)
    <3>1. c \in vouched[p] /\ p \notin vouched[p]
      BY DEF Reconfirm, IInv, NobodyForThemselves
    <3> QED BY <2>1, <3>1 DEF Confirmed
  <2> QED BY <1>1, <2>2, <2>3, <2>4, KeptLawful
<1> QED BY <1>2, <1>3

(* What goes on from a release: each of the records held by the dispositions D in effect again, or superseded. *)
LEMMA BroughtBackLawful ==
  ASSUME IInv, NEW D \in SUBSET Dispositions, NEW H, H = UNION {HeldUnder(holding, d) : d \in D}, NEW by \in Somebody,
         NEW first \in Overtaken(holding, H), disposition' = Released(disposition, D),
         \A x \in Holdings : holding[x].state # "none" => holding'[x] = BroughtBack(holding, H, first, by)[x],
         \A x \in H : Activated(x), NEW h \in Holdings, holding[h].state # "none"
  PROVE  Lawful(h)
<1>1. \A x \in Holdings : holding[x] \in HoldingRows /\ RowSound(holding[x])
  BY DEF IInv, TypeOK
<1>2. \A d \in Dispositions \ D : disposition'[d] = disposition[d]
  BY DEF Released
<1>3. \A x \in H : x \in Holdings /\ holding[x].state = "held/security_hold" /\ holding[x].disp \in D
  BY DEF HeldUnder
<1> DEFINE to(x) == IF Renewed(holding, x) \/ x \in first THEN "ended/superseded" ELSE "active"
<1>4. ASSUME NEW x \in H PROVE GoesTo(holding[x], holding'[x], to(x))
  <2>1. to(x) \in States \ {"none"}
    BY StateGroups
  <2>2. holding'[x] = [Moved(holding[x], to(x), by) EXCEPT !.disp = None]
    BY <1>3 DEF BroughtBack
  <2> HIDE DEF to
  <2>3. Moved(holding[x], to(x), by) \in HoldingRows /\ GoesTo(holding[x], Moved(holding[x], to(x), by), to(x))
    BY <1>1, <1>3, <2>1, MovedType, MovedGoes
  <2> QED BY <2>2, <2>3, HoldGoes
<1>5. CASE h \notin H
  <2>1. holding'[h] = holding[h]
    BY <1>5 DEF BroughtBack
  <2>2. holding[h].state = "held/security_hold" =>
          /\ disposition'[holding[h].disp].state = "active"
          /\ disposition'[holding[h].disp].subject = holding[h].holder
    <3>1. SUFFICES ASSUME holding[h].state = "held/security_hold"
                   PROVE  /\ disposition'[holding[h].disp].state = "active"
                          /\ disposition'[holding[h].disp].subject = holding[h].holder
      OBVIOUS
    <3>2. holding[h].disp \in Dispositions \ D
      BY <1>1, <1>5, <3>1 DEF RowSound, HeldUnder
    <3> QED BY <1>2, <3>1, <3>2 DEF IInv, HeldIsAccountedFor
  <2>3. "ended/superseded" \in EndedStates
    BY StateGroups
  <2> QED BY <1>1, <2>1, <2>2, <2>3 DEF Lawful
<1>6. CASE h \in H
  <2>1. GoesTo(holding[h], holding'[h], to(h)) /\ Activated(h) /\ holding[h].state = "held/security_hold"
    BY <1>3, <1>4, <1>6
  <2>2. to(h) \in States \ {"none"} /\ to(h) \notin {"held/security_hold", "ended/expired"} /\ Allowed("held/security_hold", to(h))
    BY StateGroups, MovesByGroup
  <2>3. to(h) = "ended/superseded" => TakenOver(h)
    <3>1. ASSUME Renewed(holding, h) PROVE TakenOver(h)
      <4>1. PICK x \in Holdings : holding[x].state = "active" /\ holding[x].pred = h
        BY <3>1 DEF Renewed
      <4>2. x \notin H
        BY <1>3, <4>1
      <4>3. holding'[x] = holding[x]
        BY <4>1, <4>2 DEF BroughtBack
      <4> QED BY <4>1, <4>3 DEF TakenOver
    <3>2. ASSUME h \in first PROVE TakenOver(h)
      <4>1. PICK x \in H \ first : holding[x].pred = h /\ ~Renewed(holding, x)
        BY <3>2 DEF Overtaken
      <4>2. GoesTo(holding[x], holding'[x], "active")
        BY <1>4, <4>1
      <4> QED BY <1>3, <4>1, <4>2, StateGroups DEF GoesTo, TakenOver
    <3> QED BY <3>1, <3>2
  <2> HIDE DEF to
  <2> QED BY <2>1, <2>2, <2>3, GoesLawful
<1> QED BY <1>5, <1>6

(* A release that brings anything back passes row 13: the deployment is in operation. *)
LEMMA ReleaseOperates ==
  ASSUME NEW r, NEW d, NEW c, NEW n, Release(r, d, c, n), HeldUnder(holding, d) # {}
  PROVE  deployment.state = "operational"
<1> DEFINE subject == disposition[d].subject
           asked == [Entering EXCEPT !.kind = "restore_security_hold", !.managementWiden = (HeldUnder(holding, d) # {})]
           eligible == Eligible(asked, r, r # subject /\ IsAdmin(r))
           protected == [eligible EXCEPT !.affectsAdmins = TRUE, !.tightenNeedsConfirmation = TRUE]
           f == IF EffectiveOf(holding, subject) # {} THEN Carrying(protected, c, r, subject, TRUE) ELSE eligible
<1>1. Outcome(f) = "applied"
  BY DEF Release
<1>2. /\ asked.trigger = "user" /\ asked.kind = "restore_security_hold" /\ asked.managementWiden = TRUE
      /\ asked.recoveryPending = (deployment.state # "operational")
  BY DEF Entering, FreshFacts
<1> HIDE DEF asked
<1>3. /\ eligible.trigger = "user" /\ eligible.kind = "restore_security_hold" /\ eligible.managementWiden = TRUE
      /\ eligible.recoveryPending = (deployment.state # "operational")
  BY <1>2 DEF Eligible
<1> HIDE DEF eligible
<1>4. /\ f.trigger = "user" /\ f.kind = "restore_security_hold" /\ f.managementWiden = TRUE
      /\ f.recoveryPending = (deployment.state # "operational")
  BY <1>3 DEF Carrying
<1> HIDE DEF f
<1>5. ~RowConditions(f)[13]
  BY <1>1, <1>4, AppliedPassed
<1> QED BY <1>4, <1>5 DEF RowConditions, Waits, Restores

(* A release. *)
LEMMA ReleaseLawful ==
  ASSUME IInv, NEW r \in Requesters, NEW d \in Dispositions, NEW c, NEW n, Release(r, d, c, n), NEW h \in Holdings
  PROVE  Lawful(h)
<1>1. CASE disposition' = [disposition EXCEPT ![d].refs = @ - n] /\ UNCHANGED holding
  <2>1. disposition[d] \in DispositionRows
    BY DEF IInv, TypeOK
  <2>2. LET row == [disposition[d] EXCEPT !.refs = @ - n]
        IN row.state = disposition[d].state /\ row.subject = disposition[d].subject
    BY <2>1 DEF DispositionRows
  <2>3. DispositionsStand
    BY <1>1, <2>2 DEF DispositionsStand, IInv, TypeOK
  <2> QED BY <1>1, <2>3, UntouchedLawful
<1>2. ASSUME disposition' = Released(disposition, {d}),
             NEW first \in Overtaken(holding, HeldUnder(holding, d)),
             holding' = BroughtBack(holding, HeldUnder(holding, d), first, r)
      PROVE  Lawful(h)
  <2> DEFINE H == HeldUnder(holding, d)
  <2>1. H = UNION {HeldUnder(holding, e) : e \in {d}} /\ {d} \in SUBSET Dispositions /\ r \in Somebody
    BY Parameters DEF Somebody, Confirmers
  <2>2. \A x \in H : Activated(x)
    BY ReleaseOperates DEF HeldUnder, Activated
  <2>3. CASE holding[h].state # "none"
    <3> HIDE DEF H
    <3>1. first \in Overtaken(holding, H) /\ holding' = BroughtBack(holding, H, first, r)
      BY <1>2 DEF H
    <3> QED BY <1>2, <2>1, <2>2, <2>3, <3>1, BroughtBackLawful
  <2>4. CASE holding[h].state = "none"
    <3>1. holding'[h] = holding[h]
      BY <1>2, <2>4 DEF BroughtBack, HeldUnder
    <3>2. RowSound(holding[h])
      BY DEF IInv
    <3> QED BY <2>4, <3>1, <3>2, StateGroups DEF Lawful
  <2> QED BY <2>3, <2>4
<1> QED BY <1>1, <1>2 DEF Release

(* The owner's restore. *)
LEMMA RestoreLawful ==
  ASSUME IInv, NEW i \in Recoverable, RecoveryRestore(i), NEW h \in Holdings
  PROVE  Lawful(h)
<1> DEFINE D == Releasable(i)
           H == UNION {HeldUnder(holding, d) : d \in D}
           granted == [NewRow("active", None, i, None, FALSE, FALSE) EXCEPT !.last = Author(Owner)]
<1>1. PICK first \in Overtaken(holding, H) :
        LET back == BroughtBack(holding, H, first, Owner) IN
        \/ holding' = back
        \/ \E g \in Holdings : Free(g) /\ holding' = [back EXCEPT ![g] = granted]
  BY DEF RecoveryRestore
<1>2. disposition' = Released(disposition, D) /\ D \in SUBSET Dispositions /\ Owner \in Somebody /\ i \in Persons
  BY Parameters DEF RecoveryRestore, Releasable, Somebody, Confirmers
<1>3. \A x \in Holdings : holding[x].state \in {"none", "held/security_hold"} => Activated(x)
  BY DEF Activated
<1>4. \A x \in H : x \in Holdings /\ holding[x].state = "held/security_hold"
  BY DEF HeldUnder
<1> HIDE DEF D
<1>5. CASE holding[h].state # "none"
  <2>1. \A x \in Holdings : holding[x].state # "none" => holding'[x] = BroughtBack(holding, H, first, Owner)[x]
    <3> DEFINE back == BroughtBack(holding, H, first, Owner)
    <3>1. DOMAIN back = Holdings
      BY DEF BroughtBack
    <3>2. holding' = back \/ \E g \in Holdings : Free(g) /\ holding' = [back EXCEPT ![g] = granted]
      BY <1>1
    <3> HIDE DEF back, granted
    <3>3. \A x \in Holdings : holding[x].state # "none" => holding'[x] = back[x]
      BY <3>1, <3>2 DEF Free
    <3> QED BY <3>3 DEF back
  <2>2. \A x \in H : Activated(x)
    BY <1>3, <1>4
  <2> QED BY <1>1, <1>2, <1>5, <2>1, <2>2, BroughtBackLawful
<1>6. CASE holding[h].state = "none"
  <2>1. holding'[h] = holding[h] \/ holding'[h] = granted
    BY <1>1, <1>4, <1>6 DEF BroughtBack
  <2>2. CASE holding'[h] = holding[h]
    <3>1. RowSound(holding[h])
      BY DEF IInv
    <3> QED BY <1>6, <2>2, <3>1, StateGroups DEF Lawful
  <2>3. CASE holding'[h] = granted
    <3> DEFINE row == NewRow("active", None, i, None, FALSE, FALSE)
    <3>1. Inserted(row, "active", i, None, FALSE)
      BY <1>2, NewRowFields, Zenon DEF Somebody
    <3>2. holding'[h] = [row EXCEPT !.last = Author(Owner)]
      BY <2>3
    <3> HIDE DEF row
    <3>3. /\ holding'[h].state = "active" /\ holding'[h].holder = i /\ ~holding'[h].backfill
          /\ holding'[h].jobs = {} /\ holding'[h].cooling = "none" /\ holding'[h].pred = None /\ holding'[h].until = "open"
      BY <3>1, <3>2 DEF HoldingRows, Inserted
    <3> QED BY <1>2, <1>3, <1>6, <3>3, InsertedLawful
  <2> QED BY <2>1, <2>2, <2>3
<1> QED BY <1>5, <1>6

(* The owner's replacement. *)
LEMMA ReplaceLawful ==
  ASSUME IInv, NEW H \in SUBSET Holdings, RecoveryReplace(H), NEW h \in Holdings
  PROVE  Lawful(h)
<1> DEFINE replaced == {holding[x].holder : x \in H}
           cancelled == {x \in Holdings : holding[x].state \in Pending /\ holding[x].by \in replaced}
<1>1. PICK ids \in [H -> {d \in Dispositions : FreeDisposition(d)}] :
        /\ \A g, x \in H : ids[g] = ids[x] => g = x
        /\ holding' = [x \in Holdings |->
             [(CASE x \in H -> [Moved(holding[x], "held/security_hold", Owner) EXCEPT !.disp = ids[x]]
                 [] x \in cancelled -> Moved(holding[x], "ended/cancelled", Owner)
                 [] OTHER -> holding[x]) EXCEPT !.confirmed = @ \ replaced]]
        /\ disposition' = [d \in Dispositions |->
             IF \E x \in H : ids[x] = d
             THEN Disposing("admin_recovery", holding[CHOOSE x \in H : ids[x] = d].holder, Owner, 0)
             ELSE disposition[d]]
  BY Zenon DEF RecoveryReplace
<1>2. holding[h] \in HoldingRows /\ RowSound(holding[h]) /\ Owner \in Somebody
  BY DEF IInv, TypeOK, Somebody, Confirmers
<1>3. DispositionsStand
  BY <1>1 DEF DispositionsStand, FreeDisposition
<1>4. h \in H => holding[h].state \in Effective /\ h \notin cancelled
  BY StateGroups DEF RecoveryReplace
<1> HIDE DEF cancelled
<1>5. CASE h \in H
  <2> DEFINE held == [Moved(holding[h], "held/security_hold", Owner) EXCEPT !.disp = ids[h]]
  <2> DEFINE row(x) == CASE x \in H -> [Moved(holding[x], "held/security_hold", Owner) EXCEPT !.disp = ids[x]]
                         [] x \in cancelled -> Moved(holding[x], "ended/cancelled", Owner)
                         [] OTHER -> holding[x]
  <2>1. holding'[h] = [held EXCEPT !.confirmed = held.confirmed \ replaced]
    <3>1. holding'[h] = [row(h) EXCEPT !.confirmed = @ \ replaced]
      BY <1>1
    <3>2. row(h) = held
      BY <1>4, <1>5
    <3> HIDE DEF row, held, replaced
    <3> QED BY <3>1, <3>2
  <2>2. ids[h] \in Dispositions
    BY <1>5
  <2>3. held \in HoldingRows /\ GoesTo(holding[h], held, "held/security_hold") /\ held.disp = ids[h]
    BY <1>2, <2>2, HeldGoes
  <2>4. /\ disposition'[ids[h]].state = "active"
        /\ disposition'[ids[h]].subject = holding[h].holder
    <3>1. (CHOOSE x \in H : ids[x] = ids[h]) = h
      BY <1>1, <1>5
    <3>2. disposition'[ids[h]] = Disposing("admin_recovery", holding[h].holder, Owner, 0)
      BY <1>1, <1>5, <2>2, <3>1
    <3> QED BY <3>2 DEF Disposing
  <2> HIDE DEF held, replaced
  <2>5. GoesTo(holding[h], holding'[h], "held/security_hold") /\ holding'[h].disp = ids[h]
    BY <2>1, <2>3, ConfirmersGo
  <2>6. /\ "held/security_hold" \in States \ {"none"} /\ holding[h].state # "none"
        /\ holding[h].state = "held/security_hold" \/ Allowed(holding[h].state, "held/security_hold")
    BY <1>4, <1>5, StateGroups, MovesByGroup
  <2> QED BY <2>2, <2>4, <2>5, <2>6, GoesLawful
<1>6. CASE h \in cancelled
  <2> DEFINE ended == Moved(holding[h], "ended/cancelled", Owner)
  <2>1. holding'[h] = [ended EXCEPT !.confirmed = ended.confirmed \ replaced]
    BY <1>1, <1>4, <1>6
  <2>2. "ended/cancelled" \in States \ {"none"} /\ "ended/cancelled" # "ended/superseded"
    BY StateGroups
  <2>3. ended \in HoldingRows /\ GoesTo(holding[h], ended, "ended/cancelled")
    BY <1>2, <2>2, MovedType, MovedGoes
  <2> HIDE DEF ended, replaced
  <2>4. GoesTo(holding[h], holding'[h], "ended/cancelled")
    BY <2>1, <2>3, ConfirmersGo
  <2>5. holding[h].state # "none" /\ Allowed(holding[h].state, "ended/cancelled")
    BY <1>6, StateGroups, MovesByGroup DEF cancelled
  <2> QED BY <2>2, <2>4, <2>5, GoesLawful
<1>7. CASE h \notin H /\ h \notin cancelled
  <2>1. holding'[h] = [holding[h] EXCEPT !.confirmed = holding[h].confirmed \ replaced]
    BY <1>1, <1>7
  <2> HIDE DEF replaced
  <2>2. /\ holding'[h].state = holding[h].state /\ holding'[h].holder = holding[h].holder
        /\ holding'[h].disp = holding[h].disp /\ holding'[h].jobs = holding[h].jobs
        /\ holding'[h].cooling = holding[h].cooling /\ holding'[h].later = holding[h].later
        /\ holding'[h].backfill = holding[h].backfill /\ holding'[h].pred = holding[h].pred
        /\ holding'[h].until = holding[h].until
    BY <1>2, <2>1 DEF HoldingRows
  <2>3. RowSound(holding'[h])
    BY <1>2, <2>2 DEF RowSound
  <2> QED BY <1>3, <2>2, <2>3, KeptLawful
<1> QED BY <1>5, <1>6, <1>7

-----------------------------------------------------------------------------
(* The invariant *)

(* Every step is lawful, for every record. *)
LEMMA StepLawful ==
  ASSUME IInv, Next, NEW h \in Holdings
  PROVE  Lawful(h)
<1>1. ASSUME NEW p \in Persons, Claim(p) \/ AccountClosure(p) PROVE Lawful(h)
  BY <1>1, ClaimLawful, ClosureLawful
<1>2. ASSUME NEW r \in Requesters, NEW p \in Persons, Submits(r, p) PROVE Lawful(h)
  BY <1>2, SubmitLawful
<1>3. ASSUME NEW c \in Confirmers, NEW g \in Holdings, Confirm(c, g) \/ ConfirmationExpires(g, c) PROVE Lawful(h)
  BY <1>3, ConfirmLawful
<1>4. ASSUME NEW g \in Holdings, NEW t, Due(g, t) PROVE Lawful(h)
  BY <1>4, DueLawful
<1>5. ASSUME NEW r \in Requesters, NEW g \in Holdings, NEW how \in {"withdraw", "cancel", "reject"}, Terminate(r, g, how)
      PROVE  Lawful(h)
  BY <1>5, TerminateLawful
<1>6. ASSUME NEW r \in Requesters, NEW g \in Holdings, NEW own \in BOOLEAN, NEW c, Tighten(r, g, own, c) PROVE Lawful(h)
  BY <1>6, TightenLawful
<1>7. ASSUME NEW r \in Requesters, NEW p \in Persons, NEW c, Dispose(r, p, c) PROVE Lawful(h)
  BY <1>7, DisposeLawful
<1>8. ASSUME NEW r \in Requesters, NEW d \in Dispositions, NEW c, NEW n, Release(r, d, c, n) PROVE Lawful(h)
  BY <1>8, ReleaseLawful
<1>9. ASSUME NEW p \in Persons, NEW s, NEW v \in BOOLEAN, AccountFact(p, s, v) PROVE Lawful(h)
  BY <1>9, AccountFactLawful
<1>10. ASSUME NEW r \in Requesters, NEW p \in Persons, NEW c \in Confirmers, Reconfirm(r, p, c) PROVE Lawful(h)
  BY <1>10, ReconfirmLawful
<1>11. ASSUME NEW H \in SUBSET Holdings, RecoveryReplace(H) PROVE Lawful(h)
  BY <1>11, ReplaceLawful
<1>12. ASSUME NEW i \in Recoverable, RecoveryRestore(i) PROVE Lawful(h)
  BY <1>12, RestoreLawful
<1>13. ASSUME NEW g \in Holdings, Lapse(g) \/ Expire(g) \/ TimeComes(g) PROVE Lawful(h)
  BY <1>13, TimeLawful
<1>14. ASSUME UNCHANGED <<holding, disposition>> PROVE Lawful(h)
  <2>1. DispositionsStand
    BY <1>14 DEF DispositionsStand
  <2> QED BY <1>14, <2>1, UntouchedLawful
<1>15. ASSUME \/ \E c \in Confirmers, p \in Persons : ConfirmAccount(c, p) \/ AccountConfirmationExpires(c, p)
              \/ RecoveryAbort \/ GrowOld \/ \E s \in SourceStates : SourceMoves(s)
       PROVE  Lawful(h)
  BY <1>14, <1>15 DEF ConfirmAccount, AccountConfirmationExpires, RecoveryAbort, GrowOld, SourceMoves
<1> QED BY <1>1, <1>2, <1>3, <1>4, <1>5, <1>6, <1>7, <1>8, <1>9, <1>10, <1>11, <1>12, <1>13, <1>15 DEF Next

\* What writes neither the confirmations of accounts nor the deployment's state.
Quiet ==
  \/ \E p \in Persons : Claim(p)
  \/ \E r \in Requesters, p \in Persons : Submits(r, p)
  \/ \E c \in Confirmers, h \in Holdings : Confirm(c, h) \/ ConfirmationExpires(h, c)
  \/ \E h \in Holdings, t \in {"confirmed", "scheduled"} : Due(h, t)
  \/ \E r \in Requesters, h \in Holdings, how \in {"withdraw", "cancel", "reject"} : Terminate(r, h, how)
  \/ \E h \in Holdings : Lapse(h) \/ Expire(h) \/ TimeComes(h)
  \/ GrowOld
  \/ \E s \in SourceStates : SourceMoves(s)

(* The quiet steps write neither. *)
LEMMA QuietSteps == ASSUME Quiet PROVE UNCHANGED <<vouched, deployment>>
<1>1. ASSUME NEW p, Claim(p) PROVE UNCHANGED <<vouched, deployment>>
  BY <1>1 DEF Claim
<1>2. ASSUME NEW r, NEW p, Submits(r, p) PROVE UNCHANGED <<vouched, deployment>>
  BY <1>2 DEF Submits, Submit
<1>3. ASSUME NEW c, NEW h, Confirm(c, h) \/ ConfirmationExpires(h, c) PROVE UNCHANGED <<vouched, deployment>>
  BY <1>3 DEF Confirm, ConfirmationExpires
<1>4. ASSUME NEW h, NEW t, Due(h, t) PROVE UNCHANGED <<vouched, deployment>>
  BY <1>4 DEF Due
<1>5. ASSUME NEW r, NEW h, NEW how, Terminate(r, h, how) PROVE UNCHANGED <<vouched, deployment>>
  BY <1>5 DEF Terminate
<1>6. ASSUME NEW h, Lapse(h) \/ Expire(h) \/ TimeComes(h) PROVE UNCHANGED <<vouched, deployment>>
  BY <1>6 DEF Lapse, Expire, TimeComes
<1>7. ASSUME GrowOld \/ \E s : SourceMoves(s) PROVE UNCHANGED <<vouched, deployment>>
  BY <1>7 DEF GrowOld, SourceMoves
<1> QED BY <1>1, <1>2, <1>3, <1>4, <1>5, <1>6, <1>7 DEF Quiet

(* A confirmation of an account is somebody else's at every step. *)
LEMMA NobodyStep == ASSUME IInv, Next PROVE NobodyForThemselves'
<1>1. vouched \in [Persons -> SUBSET Confirmers] /\ \A p \in Persons : p \notin vouched[p]
  BY DEF IInv, TypeOK, NobodyForThemselves
<1>2. ASSUME NEW c, NEW q \in Persons, ConfirmAccount(c, q) PROVE NobodyForThemselves'
  BY <1>1, <1>2 DEF ConfirmAccount, NobodyForThemselves
<1>3. ASSUME \A p \in Persons : vouched'[p] \subseteq vouched[p] PROVE NobodyForThemselves'
  BY <1>1, <1>3 DEF NobodyForThemselves
<1>4. ASSUME NEW q \in Persons, NEW s, NEW v, AccountFact(q, s, v) PROVE NobodyForThemselves'
  BY <1>1, <1>3, <1>4 DEF AccountFact
<1>5. ASSUME NEW q \in Persons, NEW r, NEW c, Reconfirm(r, q, c) PROVE NobodyForThemselves'
  BY <1>1, <1>3, <1>5 DEF Reconfirm
<1>6. ASSUME NEW q \in Persons, NEW c, AccountConfirmationExpires(c, q) PROVE NobodyForThemselves'
  BY <1>1, <1>3, <1>6 DEF AccountConfirmationExpires
<1>7. ASSUME NEW H, RecoveryReplace(H) PROVE NobodyForThemselves'
  BY <1>1, <1>3, <1>7 DEF RecoveryReplace
<1>8. ASSUME UNCHANGED vouched PROVE NobodyForThemselves'
  BY <1>3, <1>8
<1>9. ASSUME NEW p, AccountClosure(p) PROVE NobodyForThemselves'
  BY <1>8, <1>9 DEF AccountClosure
<1>10. ASSUME NEW r, NEW p, NEW c, NEW d, NEW n, Dispose(r, p, c) \/ Release(r, d, c, n) PROVE NobodyForThemselves'
  BY <1>8, <1>10 DEF Dispose, Release
<1>11. ASSUME NEW r, NEW h, NEW own, NEW c, Tighten(r, h, own, c) PROVE NobodyForThemselves'
  BY <1>8, <1>11 DEF Tighten
<1>12. ASSUME RecoveryAbort \/ \E i : RecoveryRestore(i) PROVE NobodyForThemselves'
  BY <1>8, <1>12 DEF RecoveryAbort, RecoveryRestore
<1>13. ASSUME Quiet PROVE NobodyForThemselves'
  BY <1>8, <1>13, QuietSteps
<1> QED BY <1>2, <1>4, <1>5, <1>6, <1>7, <1>9, <1>10, <1>11, <1>12, <1>13 DEF Next, Quiet

\* What a step makes of the deployment's state: it stays, it is judged on what the step leaves (a closure judges twice),
\* or a recovery is entered or aborted.
Rejudged ==
  \/ UNCHANGED deployment
  \/ deployment' = Judged(deployment, holding', account')
  \/ deployment' = Judged(Judged(deployment, holding', account'), holding', account')

(* Whatever the step, the deployment's state is judged, stays, or is a recovery's. *)
LEMMA DeploymentSteps ==
  ASSUME Next, ~RecoveryAbort, \A i \in Recoverable : ~RecoveryRestore(i)
  PROVE  Rejudged
<1> USE DEF Rejudged
<1>1. ASSUME NEW p, AccountClosure(p) PROVE Rejudged
  BY <1>1 DEF AccountClosure
<1>2. ASSUME NEW r, NEW p, NEW c, NEW d, NEW n, Dispose(r, p, c) \/ Release(r, d, c, n) PROVE Rejudged
  BY <1>2 DEF Dispose, Release
<1>3. ASSUME NEW r, NEW g, NEW own, NEW c, Tighten(r, g, own, c) PROVE Rejudged
  BY <1>3 DEF Tighten
<1>4. ASSUME NEW p, NEW s, NEW v, AccountFact(p, s, v) PROVE Rejudged
  BY <1>4 DEF AccountFact
<1>5. ASSUME NEW r, NEW p, NEW c, Reconfirm(r, p, c) PROVE Rejudged
  BY <1>5 DEF Reconfirm
<1>6. ASSUME NEW H, RecoveryReplace(H) PROVE Rejudged
  BY <1>6 DEF RecoveryReplace
<1>7. ASSUME \E c, p : ConfirmAccount(c, p) \/ AccountConfirmationExpires(c, p) PROVE Rejudged
  BY <1>7 DEF ConfirmAccount, AccountConfirmationExpires
<1>8. ASSUME Quiet PROVE Rejudged
  BY <1>8, QuietSteps
<1> QED BY <1>1, <1>2, <1>3, <1>4, <1>5, <1>6, <1>7, <1>8 DEF Next, Quiet

(* A deployment with no record yet stays in operation. *)
LEMMA UnclaimedStep == ASSUME IInv, Next PROVE UnclaimedIsOperational'
<1> SUFFICES ASSUME ~Claimed(holding') PROVE deployment'.state = "operational"
  BY DEF UnclaimedIsOperational
<1>1. \A h \in Holdings : holding[h].state = "none"
  <2> SUFFICES ASSUME NEW h \in Holdings PROVE holding[h].state = "none"
    OBVIOUS
  <2>1. Lawful(h) /\ holding'[h].state = "none" /\ holding[h].state \in States /\ "none" \in States
    BY StepLawful DEF Claimed, IInv, TypeOK, HoldingRows, States
  <2> QED BY <2>1, MovesByGroup DEF Lawful
<1>2. deployment.state = "operational"
  BY <1>1 DEF IInv, UnclaimedIsOperational, Claimed
<1>3. ~RecoveryAbort /\ \A i \in Recoverable : ~RecoveryRestore(i)
  BY <1>1, <1>2 DEF RecoveryAbort, RecoveryRestore, Claimed
<1>4. Rejudged
  BY <1>3, DeploymentSteps
<1>5. ASSUME NEW acct PROVE Judged(deployment, holding', acct) = deployment
  BY <1>2 DEF Judged
<1> QED BY <1>2, <1>4, <1>5 DEF Rejudged

(* A deployment begins in it. *)
LEMMA InitSafe == Init => IInv
<1> SUFFICES ASSUME Init PROVE IInv
  OBVIOUS
<1>1. ASSUME NEW h \in Holdings
      PROVE  /\ RowSound(holding[h]) /\ holding[h].state \in {"none", "active"}
             /\ h \in DOMAIN Seats => holding[h].state # "none"
  <2>1. CASE h \in DOMAIN Seats
    <3>1. holding[h] = [Unwritten EXCEPT !.state = "active", !.holder = Seats[h]] /\ Seats[h] \in Persons
      BY <2>1, Parameters DEF Init
    <3>2. /\ holding[h].state = "active" /\ holding[h].holder = Seats[h] /\ holding[h].backfill = FALSE
          /\ holding[h].jobs = {} /\ holding[h].cooling = "none"
      BY <3>1 DEF Unwritten
    <3> QED BY <3>1, <3>2 DEF RowSound
  <2>2. CASE h \notin DOMAIN Seats
    <3>1. holding[h] = Unwritten
      BY <2>2 DEF Init
    <3>2. holding[h].state = "none" /\ holding[h].backfill = FALSE /\ holding[h].jobs = {} /\ holding[h].cooling = "none"
      BY <3>1 DEF Unwritten
    <3> QED BY <2>2, <3>2 DEF RowSound
  <2> QED BY <2>1, <2>2
<1>2. HeldIsAccountedFor
  BY <1>1 DEF HeldIsAccountedFor
<1>3. NobodyForThemselves /\ UnclaimedIsOperational
  BY DEF Init, NobodyForThemselves, UnclaimedIsOperational
<1> QED BY <1>1, <1>2, <1>3, InitType DEF IInv

(* Every step keeps it. *)
LEMMA StepSafe == IInv /\ [Next]_vars => IInv'
<1> SUFFICES ASSUME IInv, [Next]_vars PROVE IInv'
  OBVIOUS
<1>1. TypeOK'
  BY TypeStep DEF IInv
<1>2. CASE Next
  <2>1. \A h \in Holdings : Lawful(h)
    BY <1>2, StepLawful
  <2>2. (\A h \in Holdings : RowSound(holding[h]))' /\ HeldIsAccountedFor'
    BY <2>1 DEF Lawful, HeldIsAccountedFor, RowSound
  <2>3. NobodyForThemselves' /\ UnclaimedIsOperational'
    BY <1>2, NobodyStep, UnclaimedStep
  <2> QED BY <1>1, <2>2, <2>3 DEF IInv
<1>3. CASE UNCHANGED vars
  BY <1>1, <1>3 DEF vars, IInv, RowSound, HeldIsAccountedFor, NobodyForThemselves, UnclaimedIsOperational, Claimed
<1> QED BY <1>2, <1>3

(* The inductive invariant holds, for any persons, records and features: every row keeps what the jobs, the marks and   *)
(* the holds written on it stand for (Transition, insert and the handlers of internal/effectpoint).                     *)
THEOREM Safe == Spec => []IInv
<1>1. Init => IInv
  BY InitSafe
<1>2. IInv /\ [Next]_vars => IInv'
  BY StepSafe
<1> QED BY <1>1, <1>2, PTL DEF Spec

(* A held holding is held by an active disposition of its holder: no release, restore, replacement or further           *)
(* disposition leaves one held for ever (ReleaseDisposition, recoveryReplace, dispose).                                 *)
THEOREM HeldAccountedFor == Spec => []HeldIsAccountedFor
<1>1. IInv => HeldIsAccountedFor
  BY DEF IInv
<1> QED BY <1>1, Safe, PTL

(* Before the install claim nothing makes the deployment await a recovery (JudgeAdmins, recoveryRestore).               *)
THEOREM UnclaimedOperates == Spec => []UnclaimedIsOperational
<1>1. IInv => UnclaimedIsOperational
  BY DEF IInv
<1> QED BY <1>1, Safe, PTL

-----------------------------------------------------------------------------
(* What no step does *)

(* No job, closure, request, release or recovery reaches Transition with a move the table of states refuses             *)
(* (lifecycle.go); least of all one that revives an ended record.                                                       *)
THEOREM MovesAreAllowed == Spec => MovesAllowed
<1>1. IInv /\ [Next]_vars =>
        [\A h \in Holdings : holding'[h].state # holding[h].state => Allowed(holding[h].state, holding'[h].state)]_vars
  BY StepLawful DEF Lawful
<1> QED BY <1>1, Safe, PTL DEF Spec, MovesAllowed

(* A holding ends superseded only when its renewal is in effect: by its renewal's job, or found renewed when a release   *)
(* or a restore brings it back, in whatever order they bring back those renewed by each other (ReleaseDisposition).     *)
THEOREM SupersededByItsRenewal == Spec => SupersededByRenewal
<1>1. IInv /\ [Next]_vars =>
        [\A h \in Holdings : holding[h].state \notin EndedStates /\ holding'[h].state = "ended/superseded" =>
           \E x \in Holdings : holding'[x].state = "active" /\ holding'[x].pred = h]_vars
  BY StepLawful DEF Lawful, TakenOver
<1> QED BY <1>1, Safe, PTL DEF Spec, SupersededByRenewal

(* An admin whose account came back unconfirmed counts again only with a confirmation of its account by somebody else   *)
(* (AccountChanged, reconfirmHTTP): nothing else clears the mark.                                                       *)
THEOREM BackfillNeedsConfirming == Spec => BackfillIsConfirmed
<1>1. IInv /\ [Next]_vars =>
        [\A h \in Holdings : holding[h].backfill /\ ~holding'[h].backfill /\ holding'[h].state \in Effective =>
           \E c \in vouched[holding[h].holder] : c # holding[h].holder]_vars
  BY StepLawful DEF Lawful, Confirmed
<1> QED BY <1>1, Safe, PTL DEF Spec, BackfillIsConfirmed

(* What a saved holding's job finds is facts of the table's shape. *)
LEMMA FiredFacts ==
  ASSUME TypeOK, NEW h \in Holdings, NEW cools \in BOOLEAN
  PROVE  LET f == Fired(h, cools)
         IN /\ f \in Facts /\ f.kind = "widen" /\ f.trigger = "job" /\ f.managementWiden = TRUE /\ f.needsConfirmation = TRUE
            /\ f.recoveryPending = (deployment.state # "operational") /\ f.future = Future(h, cools)
            /\ f.confirmation = "valid" => Judging(h, "proven") \cup Judging(h, "unprovable") # {}
            /\ f.confirmersProvable => Judging(h, "unprovable") = {} \/ Judging(h, "proven") # {}
            /\ f.eligible = "proven" => /\ holding[h].by \in Persons /\ IsAdmin(holding[h].by)
                                        /\ AccountNow(account, holding[h].by) = "proven"
<1> DEFINE row == holding[h]
           structural == row.by \in Persons /\ IsAdmin(row.by)
           now == IF structural THEN AccountNow(account, row.by) ELSE "disproven"
           moved == ~Renewable(row.pred)
           later == Future(h, cools)
           confirmation == CASE row.confirmed = {} -> "none"
                             [] row.confirmed # {} /\ Judging(h, "proven") \cup Judging(h, "unprovable") = {} -> "invalid"
                             [] OTHER -> "valid"
           provable == Judging(h, "unprovable") = {} \/ Judging(h, "proven") # {}
           asked == [Entering EXCEPT !.trigger = "job", !.managementWiden = TRUE, !.needsConfirmation = TRUE,
                                     !.revisionsChanged = moved, !.future = later, !.confirmation = confirmation,
                                     !.confirmersProvable = provable]
           f == Fired(h, cools)
<1>1. f = Eligible(asked, row.by, structural)
  BY DEF Fired
<1>2. moved \in BOOLEAN /\ later \in BOOLEAN /\ provable \in BOOLEAN /\ confirmation \in Confirmations /\ now \in Proof
  BY DEF TypeOK, HoldingRows, Renewable, Future, Confirmations, Proof, AccountNow
<1>3. /\ confirmation = "valid" => Judging(h, "proven") \cup Judging(h, "unprovable") # {}
      /\ provable => Judging(h, "unprovable") = {} \/ Judging(h, "proven") # {}
      /\ now = "proven" => structural /\ AccountNow(account, row.by) = "proven"
  OBVIOUS
<1> HIDE DEF moved, later, confirmation, provable, now
<1>4. asked \in Facts
  <2>1. Entering \in Facts
    BY DEF Entering, FreshFacts, Facts, Kinds, Triggers, Proof, Confirmations
  <2> QED BY <1>2, <2>1 DEF Facts, Triggers
<1>5. /\ asked.kind = "widen" /\ asked.trigger = "job" /\ asked.managementWiden = TRUE /\ asked.needsConfirmation = TRUE
      /\ asked.recoveryPending = (deployment.state # "operational") /\ asked.future = later
      /\ asked.confirmation = confirmation /\ asked.confirmersProvable = provable
  BY DEF Entering, FreshFacts
<1> HIDE DEF asked
<1>6. /\ f \in Facts /\ f.eligible = now
      /\ f.kind = "widen" /\ f.trigger = "job" /\ f.managementWiden = TRUE /\ f.needsConfirmation = TRUE
      /\ f.recoveryPending = (deployment.state # "operational") /\ f.future = later
      /\ f.confirmation = confirmation /\ f.confirmersProvable = provable
  <2>1. f = IF now # "unprovable" THEN [asked EXCEPT !.eligible = now]
            ELSE [asked EXCEPT !.eligible = now, !.lastApplied = (account[row.by] = "active"),
                               !.quarantined = (source = "fresh"), !.beyondTight = (source = "stalled")]
    BY <1>1 DEF Eligible, now
  <2> HIDE DEF f
  <2>2. CASE now # "unprovable"
    BY <1>2, <1>4, <1>5, <2>1, <2>2 DEF Facts
  <2>3. CASE now = "unprovable"
    <3> DEFINE lastApplied == account[row.by] = "active"
               quarantined == source = "fresh"
               beyondTight == source = "stalled"
    <3>1. f = [asked EXCEPT !.eligible = now, !.lastApplied = lastApplied, !.quarantined = quarantined,
                            !.beyondTight = beyondTight]
      BY <2>1, <2>3
    <3>2. lastApplied \in BOOLEAN /\ quarantined \in BOOLEAN /\ beyondTight \in BOOLEAN
      OBVIOUS
    <3> HIDE DEF lastApplied, quarantined, beyondTight
    <3>3. f \in Facts
      <4> DEFINE a == [asked EXCEPT !.eligible = now]
                 b == [a EXCEPT !.lastApplied = lastApplied]
                 e == [b EXCEPT !.quarantined = quarantined]
      <4>1. a \in Facts
        BY <1>2, <1>4 DEF Facts
      <4> HIDE DEF a
      <4>2. b \in Facts
        BY <3>2, <4>1 DEF Facts
      <4> HIDE DEF b
      <4>3. e \in Facts
        BY <3>2, <4>2 DEF Facts
      <4>4. f = [e EXCEPT !.beyondTight = beyondTight]
        BY <3>1 DEF a, b
      <4> HIDE DEF e
      <4> QED BY <3>2, <4>3, <4>4 DEF Facts
    <3>4. /\ f.eligible = now /\ f.kind = asked.kind /\ f.trigger = asked.trigger
          /\ f.managementWiden = asked.managementWiden /\ f.needsConfirmation = asked.needsConfirmation
          /\ f.recoveryPending = asked.recoveryPending /\ f.future = asked.future
          /\ f.confirmation = asked.confirmation /\ f.confirmersProvable = asked.confirmersProvable
      BY <1>4, <3>1 DEF Facts
    <3> QED BY <1>5, <3>3, <3>4
  <2> QED BY <2>2, <2>3
<1> HIDE DEF f
<1>7. f.future = Future(h, cools)
  BY <1>6 DEF later
<1> QED BY <1>3, <1>6, <1>7 DEF f

(* A saved holding takes effect by its job alone, and the job finds it passed every row of the table. *)
LEMMA SavedTakesEffect ==
  ASSUME IInv, Next, NEW h \in Holdings, holding[h].state \in Pending, holding'[h].state = "active"
  PROVE  \E t \in holding[h].jobs :
           /\ Outcome(Fired(h, Cools(h, t))) = "applied" /\ Cools(h, t) \in BOOLEAN
           /\ deployment.state = "operational" /\ ~Future(h, Cools(h, t))
           /\ holding[h].by \in Persons /\ ConfirmerEligible(holding[h].by) = "proven"
           /\ Judging(h, "proven") # {}
<1>1. Lawful(h) /\ holding[h].state \notin {"none", "held/security_hold", "active"}
  BY StepLawful, StateGroups
<1>2. PICK t \in holding[h].jobs : Outcome(Fired(h, Cools(h, t))) = "applied"
  BY <1>1 DEF Lawful, Activated
<1> DEFINE f == Fired(h, Cools(h, t))
<1>3. Cools(h, t) \in BOOLEAN
  BY DEF Cools
<1>4. /\ f \in Facts /\ f.kind = "widen" /\ f.trigger = "job" /\ f.managementWiden = TRUE /\ f.needsConfirmation = TRUE
      /\ f.recoveryPending = (deployment.state # "operational") /\ f.future = Future(h, Cools(h, t))
      /\ f.confirmation = "valid" => Judging(h, "proven") \cup Judging(h, "unprovable") # {}
      /\ f.confirmersProvable => Judging(h, "unprovable") = {} \/ Judging(h, "proven") # {}
      /\ f.eligible = "proven" => /\ holding[h].by \in Persons /\ IsAdmin(holding[h].by)
                                  /\ AccountNow(account, holding[h].by) = "proven"
  BY <1>3, FiredFacts DEF IInv
<1> HIDE DEF f
<1>5. /\ f.eligible = "proven" /\ ~(f.recoveryPending /\ f.managementWiden) /\ ~f.future
      /\ f.confirmation = "valid" /\ f.confirmersProvable
  BY <1>2, <1>4, AppliedWidening DEF f
<1>6. deployment.state = "operational" /\ ~Future(h, Cools(h, t)) /\ Judging(h, "proven") # {}
  BY <1>4, <1>5
<1>7. holding[h].by \in Persons /\ ConfirmerEligible(holding[h].by) = "proven"
  BY <1>4, <1>5 DEF ConfirmerEligible
<1> QED BY <1>2, <1>3, <1>6, <1>7

(* While the deployment awaits or undergoes recovery no admin holding takes effect or comes back but by the owner's       *)
(* restore, whatever was saved, confirmed or scheduled before (core.Decide, rows 13 and 14).                             *)
THEOREM PendingFreezes == Spec => PendingFreezesManagement
<1>1. IInv /\ [Next]_vars =>
        [ deployment.state # "operational"
          /\ (\E h \in Holdings : holding[h].state # "active" /\ holding'[h].state = "active")
          => \E i \in Recoverable : RecoveryRestore(i) ]_vars
  <2> SUFFICES ASSUME IInv, Next, deployment.state # "operational",
                      NEW h \in Holdings, holding[h].state # "active", holding'[h].state = "active"
               PROVE  \E i \in Recoverable : RecoveryRestore(i)
    OBVIOUS
  <2>1. CASE holding[h].state \in Pending
    BY <2>1, SavedTakesEffect
  <2>2. CASE holding[h].state \notin Pending
    <3>1. Activated(h)
      BY StepLawful DEF Lawful
    <3>2. holding[h].jobs = {}
      <4>1. RowSound(holding[h]) /\ holding[h].jobs \subseteq {"confirmed", "scheduled"}
        BY DEF IInv, TypeOK, HoldingRows
      <4> QED BY <2>2, <4>1, StateGroups DEF RowSound
    <3>3. ~ \E p \in Persons : Claim(p)
      BY DEF IInv, UnclaimedIsOperational, Claim
    <3> QED BY <3>1, <3>2, <3>3 DEF Activated
  <2> QED BY <2>1, <2>2
<1> QED BY <1>1, Safe, PTL DEF Spec, PendingFreezesManagement

(* A saved admin holding takes effect only for a requester an available admin at that moment, confirmed by somebody      *)
(* else who is one too, or by the owner (fired, confirmationsOf; core.Decide, rows 8, 9 and 20 to 23).                   *)
THEOREM ConfirmedBySomebodyElse == Spec => ConfirmedByAnother
<1>1. IInv /\ [Next]_vars =>
        [ \A h \in Holdings : holding[h].state \in Pending /\ holding'[h].state = "active" =>
            LET by == holding[h].by
            IN /\ ConfirmerEligible(by) = "proven"
               /\ \E c \in holding[h].confirmed \ {by, holding[h].holder} :
                    c = Owner \/ ConfirmerEligible(c) = "proven" ]_vars
  <2> SUFFICES ASSUME IInv, Next, NEW h \in Holdings, holding[h].state \in Pending, holding'[h].state = "active"
               PROVE  /\ ConfirmerEligible(holding[h].by) = "proven"
                      /\ \E c \in holding[h].confirmed \ {holding[h].by, holding[h].holder} :
                           c = Owner \/ ConfirmerEligible(c) = "proven"
    OBVIOUS
  <2>1. /\ holding[h].by \in Persons /\ ConfirmerEligible(holding[h].by) = "proven"
        /\ Judging(h, "proven") # {}
    BY SavedTakesEffect
  <2>2. holding[h].holder \in Persons
    BY StateGroups DEF IInv, RowSound
  <2>3. PICK c \in holding[h].confirmed : Judgement(c, holding[h].by, holding[h].holder, TRUE) = "proven"
    BY <2>1 DEF Judging
  <2> QED BY <2>1, <2>2, <2>3, Parameters DEF Judgement
<1> QED BY <1>1, Safe, PTL DEF Spec, ConfirmedByAnother

(* A holding saved for a later time does not take effect before it (fired, core.Decide, row 29).                         *)
THEOREM NotTooEarly == Spec => NotBeforeItsTime
<1>1. IInv /\ [Next]_vars =>
        [\A h \in Holdings : holding[h].state \in Pending /\ holding[h].later => holding'[h].state # "active"]_vars
  <2>1. ASSUME IInv, Next, NEW h \in Holdings, holding[h].state \in Pending, holding[h].later
        PROVE  holding'[h].state # "active"
    BY <2>1, SavedTakesEffect DEF Future
  <2> QED BY <2>1
<1> QED BY <1>1, Safe, PTL DEF Spec, NotBeforeItsTime

(* A holding waiting a cooling-off out does not take effect before it is over: what cools off waits for its time         *)
(* (fired, schedule, holdBack).                                                                                          *)
THEOREM CoolsOff == Spec => CoolingHolds
<1>1. IInv /\ [Next]_vars =>
        [\A h \in Holdings : holding[h].cooling = "on" => holding'[h].state # "active"]_vars
  <2>1. ASSUME IInv, NEW h \in Holdings, holding[h].cooling = "on" PROVE holding[h].later /\ holding[h].state \in Pending
    BY <2>1 DEF IInv, RowSound
  <2>2. ASSUME IInv, Next, NEW h \in Holdings, holding[h].cooling = "on" PROVE holding'[h].state # "active"
    BY <2>1, <2>2, SavedTakesEffect DEF Future
  <2> QED BY <2>2
<1> QED BY <1>1, Safe, PTL DEF Spec, CoolingHolds

(* Confirmed by nobody who stands but the owner, while another admin became unavailable lately, a holding does not take  *)
(* effect at once: its job finds a cooling-off to begin (fired, recentlyUnavailable).                                    *)
THEOREM OwnerAloneWaits == Spec => OwnerAloneCools
<1>1. IInv /\ [Next]_vars =>
        [ \A h \in Holdings :
            /\ holding[h].state = "awaiting_confirmation" /\ Judging(h, "proven") = {Owner}
            /\ holding[h].cooling = "none"
            /\ RecentlyUnavailable({holding[h].by, holding[h].holder})
            => holding'[h].state # "active" ]_vars
  <2>1. ASSUME IInv, Next, NEW h \in Holdings, holding[h].state = "awaiting_confirmation", Judging(h, "proven") = {Owner},
               holding[h].cooling = "none", RecentlyUnavailable({holding[h].by, holding[h].holder}),
               holding'[h].state = "active"
        PROVE  FALSE
    <3>1. PICK t \in holding[h].jobs : ~Future(h, Cools(h, t))
      BY <2>1, StateGroups, SavedTakesEffect
    <3>2. t = "confirmed"
      BY <2>1 DEF IInv, TypeOK, HoldingRows, RowSound
    <3>3. Cools(h, t)
      BY <2>1, <3>2 DEF Cools
    <3> QED BY <3>1, <3>3 DEF Future
  <2> QED BY <2>1
<1> QED BY <1>1, Safe, PTL DEF Spec, OwnerAloneCools

-----------------------------------------------------------------------------
(* Losses *)

\* Who counts as an admin by this record, and still does after the step.
Counting(h) == holding[h].state = "active" /\ ~holding[h].backfill
StaysCounting(h) == holding'[h].state = "active" /\ ~holding'[h].backfill /\ holding'[h].holder = holding[h].holder

\* The steps that judge the admins, a closure that ends several holdings twice.
Judges ==
  \/ deployment' = Judged(deployment, holding', account')
  \/ deployment' = Judged(Judged(deployment, holding', account'), holding', account')

\* The steps that do not: the quiet ones, those on confirmations of accounts, and closures, dispositions and releases that
\* find nothing of an admin's.
NothingToJudge ==
  \/ Quiet
  \/ \E c \in Confirmers, p \in Persons : ConfirmAccount(c, p) \/ AccountConfirmationExpires(c, p)
  \/ \E p \in Persons : AccountClosure(p) /\ (~AccountEnded(p) \/ EffectiveOf(holding, p) = {})
  \/ \E r \in Requesters, p \in Persons, c \in {None} \cup Confirmers : Dispose(r, p, c) /\ ActiveOf(holding, p) = {}
  \/ \E r \in Requesters, d \in Dispositions, c \in {None} \cup Confirmers, n \in 0..MaxRefs : Release(r, d, c, n)
     /\ UNCHANGED deployment

(* Every step but the owner's restore and abort is one or the other. *)
LEMMA JudgesOrNot ==
  ASSUME Next, ~RecoveryAbort, \A i \in Recoverable : ~RecoveryRestore(i)
  PROVE  Judges \/ NothingToJudge
<1>1. ASSUME NEW p \in Persons, AccountClosure(p) PROVE Judges \/ NothingToJudge
  BY <1>1 DEF AccountClosure, Judges, NothingToJudge
<1>2. ASSUME NEW r \in Requesters, NEW p \in Persons, NEW c \in {None} \cup Confirmers, Dispose(r, p, c)
      PROVE  Judges \/ NothingToJudge
  <2>1. ActiveOf(holding, p) # {} => Judges
    BY <1>2 DEF Dispose, Judges
  <2> QED BY <1>2, <2>1 DEF NothingToJudge
<1>3. ASSUME NEW r \in Requesters, NEW d \in Dispositions, NEW c \in {None} \cup Confirmers, NEW n \in 0..MaxRefs,
             Release(r, d, c, n)
      PROVE  Judges \/ NothingToJudge
  <2>1. UNCHANGED deployment \/ Judges
    BY <1>3 DEF Release, Judges
  <2> QED BY <1>3, <2>1 DEF NothingToJudge
<1>4. ASSUME NEW r, NEW g, NEW own, NEW c, Tighten(r, g, own, c) PROVE Judges
  BY <1>4 DEF Tighten, Judges
<1>5. ASSUME NEW p, NEW s, NEW v, AccountFact(p, s, v) PROVE Judges
  BY <1>5 DEF AccountFact, Judges
<1>6. ASSUME NEW r, NEW p, NEW c, Reconfirm(r, p, c) PROVE Judges
  BY <1>6 DEF Reconfirm, Judges
<1>7. ASSUME NEW H, RecoveryReplace(H) PROVE Judges
  BY <1>7 DEF RecoveryReplace, Judges
<1>8. \/ Quiet
      \/ \E c \in Confirmers, p \in Persons : ConfirmAccount(c, p) \/ AccountConfirmationExpires(c, p)
      => NothingToJudge
  BY DEF NothingToJudge
<1> QED BY <1>1, <1>2, <1>3, <1>4, <1>5, <1>6, <1>7, <1>8 DEF Next, Quiet

(* A quiet step takes no counting record away but by a renewal or an expiry. *)
LEMMA QuietKeeps ==
  ASSUME IInv, Quiet, Claimed(holding), NEW h \in Holdings, Counting(h),
         holding'[h].state \notin {"ended/superseded", "ended/expired"}
  PROVE  StaysCounting(h) /\ UNCHANGED account
<1> USE DEF StaysCounting
<1>1. holding \in [Holdings -> HoldingRows] /\ holding[h].state = "active" /\ ~holding[h].backfill
  BY DEF IInv, TypeOK, Counting
<1>2. ASSUME holding'[h] = holding[h] PROVE StaysCounting(h)
  BY <1>1, <1>2
<1>3. ASSUME NEW r, NEW p, Submits(r, p) PROVE StaysCounting(h) /\ UNCHANGED account
  <2>1. PICK g \in Holdings : Free(g) /\ (\E row : holding' = [holding EXCEPT ![g] = row]) /\ UNCHANGED account
    BY <1>3 DEF Submits, Submit
  <2> QED BY <1>1, <1>2, <2>1 DEF Free
<1>4. ASSUME NEW c, NEW g \in Holdings, Confirm(c, g) \/ ConfirmationExpires(g, c) PROVE StaysCounting(h) /\ UNCHANGED account
  <2>1. holding[g].state \in Pending /\ UNCHANGED account
    BY <1>4, StateGroups DEF Confirm, ConfirmationExpires
  <2>2. holding'[h] = holding[h]
    BY <1>1, <1>4, <2>1, StateGroups DEF Confirm, ConfirmationExpires
  <2> QED BY <1>2, <2>1, <2>2
<1>5. ASSUME NEW g \in Holdings, NEW t, Due(g, t) PROVE StaysCounting(h) /\ UNCHANGED account
  <2>1. holding[g].state # "active"
    <3>1. t \in holding[g].jobs /\ holding[g].jobs \subseteq {"confirmed", "scheduled"} /\ RowSound(holding[g])
      BY <1>1, <1>5 DEF Due, HoldingRows, IInv
    <3> QED BY <3>1 DEF RowSound
  <2>2. h # g
    BY <1>1, <2>1
  <2>3. CASE holding' = TakesEffect(holding, g)
    <3> DEFINE on == [holding EXCEPT ![g] = Moved(@, "active", Owner)]
               p == holding[g].pred
    <3>1. on[h] = holding[h] /\ DOMAIN on = Holdings
      BY <1>1, <2>2
    <3>2. holding' = on \/ (holding' = [on EXCEPT ![p] = Moved(@, "ended/superseded", Owner)] /\ p \in Holdings)
      BY <1>1, <2>3 DEF TakesEffect, HoldingRows
    <3>3. CASE holding' = on \/ h # p
      <4> HIDE DEF on
      <4>1. holding'[h] = holding[h]
        BY <3>1, <3>2, <3>3
      <4> QED BY <1>2, <1>5, <4>1 DEF Due
    <3>4. CASE h = p /\ holding' = [on EXCEPT ![p] = Moved(@, "ended/superseded", Owner)]
      <4>1. holding'[h] = Moved(holding[h], "ended/superseded", Owner)
        <5> HIDE DEF on
        <5> QED BY <3>1, <3>4
      <4>2. holding'[h].state = "ended/superseded"
        BY <1>1, <4>1, MovedType, StateGroups DEF Somebody, Confirmers
      <4> QED BY <4>2
    <3>5. UNCHANGED account
      BY <1>5 DEF Due
    <3> QED BY <3>2, <3>3, <3>4, <3>5
  <2>4. CASE \E row : holding' = [holding EXCEPT ![g] = row]
    <3>1. holding'[h] = holding[h]
      BY <1>1, <2>2, <2>4
    <3> QED BY <1>2, <1>5, <3>1 DEF Due
  <2>5. holding' = TakesEffect(holding, g) \/ \E row : holding' = [holding EXCEPT ![g] = row]
    BY <1>5 DEF Due
  <2> QED BY <2>3, <2>4, <2>5
<1>6. ASSUME NEW r, NEW g \in Holdings, NEW how, Terminate(r, g, how) PROVE StaysCounting(h) /\ UNCHANGED account
  <2>1. /\ holding[g].state \in Pending /\ UNCHANGED account
        /\ \E row : holding' = [holding EXCEPT ![g] = row]
    BY <1>6, StateGroups DEF Terminate
  <2>2. holding'[h] = holding[h]
    BY <1>1, <2>1, StateGroups
  <2> QED BY <1>2, <2>1, <2>2
<1>7. ASSUME NEW g \in Holdings, Lapse(g) \/ Expire(g) \/ TimeComes(g) PROVE StaysCounting(h) /\ UNCHANGED account
  <2>1. CASE h # g
    <3>1. holding'[h] = holding[h]
      BY <1>1, <1>7, <2>1 DEF Lapse, Expire, TimeComes
    <3> QED BY <1>2, <1>7, <3>1 DEF Lapse, Expire, TimeComes
  <2>2. CASE h = g
    <3>1. holding[h] \in HoldingRows /\ holding[h].state \in Effective
      BY <1>1, StateGroups
    <3>2. ~(Expire(g) /\ holding[g].state \in Effective)
      <4>1. ASSUME Expire(g) PROVE FALSE
        <5>1. holding'[h] = Moved(holding[h], "ended/expired", None)
          BY <1>1, <2>2, <3>1, <4>1 DEF Expire
        <5>2. holding'[h].state = "ended/expired"
          BY <3>1, <5>1, MovedType, StateGroups DEF Somebody
        <5> QED BY <5>2
      <4> QED BY <4>1
    <3>3. ~Expire(g)
      BY <2>2, <3>1, <3>2
    <3>4. \/ holding'[h] = [holding[h] EXCEPT !.until = "past"]
          \/ \E cooling : holding'[h] = [holding[h] EXCEPT !.later = FALSE, !.cooling = cooling]
      BY <1>1, <1>7, <2>2, <3>3 DEF Lapse, TimeComes
    <3>5. holding'[h].state = "active" /\ holding'[h].backfill = holding[h].backfill /\ holding'[h].holder = holding[h].holder
      BY <1>1, <3>1, <3>4 DEF HoldingRows
    <3> QED BY <1>1, <1>7, <3>5 DEF Lapse, Expire, TimeComes
  <2> QED BY <2>1, <2>2
<1>8. ASSUME GrowOld \/ \E s : SourceMoves(s) PROVE StaysCounting(h) /\ UNCHANGED account
  BY <1>1, <1>8 DEF GrowOld, SourceMoves
<1>9. ASSUME NEW p, Claim(p) PROVE FALSE
  BY <1>9 DEF Claim
<1> QED BY <1>3, <1>4, <1>5, <1>6, <1>7, <1>8, <1>9 DEF Quiet

(* Nor does any other step at which nothing is judged. *)
LEMMA UnjudgedKeeps ==
  ASSUME IInv, NothingToJudge, Claimed(holding), NEW h \in Holdings, Counting(h),
         holding'[h].state \notin {"ended/superseded", "ended/expired"}
  PROVE  StaysCounting(h) /\ UNCHANGED account
<1>1. holding[h].state = "active" /\ ~holding[h].backfill
  BY DEF Counting
<1>2. ASSUME holding'[h] = holding[h] PROVE StaysCounting(h)
  BY <1>1, <1>2 DEF StaysCounting
<1>3. CASE Quiet
  BY <1>3, QuietKeeps
<1>4. CASE \E c \in Confirmers, p \in Persons : ConfirmAccount(c, p) \/ AccountConfirmationExpires(c, p)
  BY <1>2, <1>4 DEF ConfirmAccount, AccountConfirmationExpires
<1>5. ASSUME NEW p, AccountClosure(p), ~AccountEnded(p) \/ EffectiveOf(holding, p) = {} PROVE StaysCounting(h) /\ UNCHANGED account
  <2>1. holding'[h] = holding[h]
    BY <1>5 DEF AccountClosure
  <2> QED BY <1>2, <1>5, <2>1 DEF AccountClosure
<1>6. ASSUME NEW r, NEW p, NEW c, Dispose(r, p, c), ActiveOf(holding, p) = {} PROVE StaysCounting(h) /\ UNCHANGED account
  <2>1. holding'[h] = holding[h]
    BY <1>6 DEF Dispose, HeldBy, InForceOf
  <2> QED BY <1>2, <1>6, <2>1 DEF Dispose
<1>7. ASSUME NEW r, NEW d, NEW c, NEW n, Release(r, d, c, n) PROVE StaysCounting(h) /\ UNCHANGED account
  <2>1. holding' = holding \/ \E first : holding' = BroughtBack(holding, HeldUnder(holding, d), first, r)
    BY <1>7 DEF Release
  <2>2. h \notin HeldUnder(holding, d)
    BY <1>1 DEF HeldUnder
  <2>3. holding'[h] = holding[h]
    BY <2>1, <2>2 DEF BroughtBack
  <2> QED BY <1>2, <1>7, <2>3 DEF Release
<1> QED BY <1>3, <1>4, <1>5, <1>6, <1>7 DEF NothingToJudge

(* What the judgement leaves in operation has an admin, or is a recovery over for somebody who holds and is proven. *)
LEMMA JudgedOperational ==
  ASSUME NEW d, NEW hs, NEW acct, Judged(d, hs, acct).state = "operational", Claimed(hs)
  PROVE  \/ d.state = "operational" /\ AdminsAfter(hs, acct, {}) # "disproven"
         \/ /\ d.state = "admin_recovery" /\ d.identity \in Persons /\ ActiveOf(hs, d.identity) # {}
            /\ AccountNow(acct, d.identity) = "proven"
<1>1. CASE d.state = "operational"
  BY <1>1 DEF Judged
<1>2. CASE d.state # "operational"
  BY <1>2 DEF Judged
<1> QED BY <1>1, <1>2

(* One admin that counts and is proven is enough. *)
LEMMA ProvenIsEnough ==
  ASSUME NEW hs, NEW acct, NEW p \in HoldersBut(hs, {}) \cap Persons, AccountNow(acct, p) = "proven"
  PROVE  AdminsAfter(hs, acct, {}) = "proven"
<1>1. "proven" \in {AccountNow(acct, q) : q \in HoldersBut(hs, {}) \cap Persons}
  OBVIOUS
<1> QED BY <1>1 DEF AdminsAfter

(* Where nobody who counted is missing, no admin is. *)
LEMMA NobodyLost ==
  ASSUME NEW hs, NEW now, NEW acct, HoldersBut(hs, {}) \cap Persons \subseteq HoldersBut(now, {}),
         AdminsAfter(hs, acct, {}) # "disproven"
  PROVE  AdminsAfter(now, acct, {}) # "disproven"
<1>1. PICK p \in HoldersBut(hs, {}) \cap Persons : AccountNow(acct, p) \in {"proven", "unprovable"}
  BY DEF AdminsAfter
<1>2. p \in HoldersBut(now, {}) \cap Persons
  OBVIOUS
<1> QED BY <1>1, <1>2 DEF AdminsAfter

(* A deployment that becomes one without an admin in operation does so in one of the ways at which nobody judges. *)
LEMMA LossStep ==
  ASSUME IInv, Next, NoSilentLoss, ~NoSilentLoss'
  PROVE  Unjudged
<1> SUFFICES ASSUME ~Unjudged PROVE FALSE
  OBVIOUS
<1>1. source' = source /\ Claimed(holding) /\ ~RecoveryAbort
  BY DEF Unjudged
<1>2. deployment'.state = "operational" /\ Claimed(holding') /\ AdminsAfter(holding', account', {}) = "disproven"
  BY <1>1 DEF NoSilentLoss, AdminsAfter, AccountNow
<1>3. ASSUME NEW i \in Persons, deployment.identity = i \/ (i \in Recoverable /\ RecoveryRestore(i)),
             ActiveOf(holding', i) # {}, AccountNow(account', i) = "proven"
      PROVE  FALSE
  <2>1. i \in HoldersBut(holding', {}) \cap Persons
    BY <1>3 DEF Unjudged
  <2> QED BY <1>2, <1>3, <2>1, ProvenIsEnough
<1>4. CASE \E i \in Recoverable : RecoveryRestore(i)
  <2>1. PICK i \in Recoverable : RecoveryRestore(i)
    BY <1>4
  <2>2. PICK d : d.state = "admin_recovery" /\ d.identity = i /\ deployment' = Judged(d, holding', account) /\ account' = account
    BY <2>1 DEF RecoveryRestore
  <2>3. /\ d.identity \in Persons /\ ActiveOf(holding', d.identity) # {} /\ AccountNow(account, d.identity) = "proven"
    BY <1>2, <2>2, JudgedOperational
  <2> QED BY <1>3, <2>1, <2>2, <2>3
<1>5. CASE Judges
  <2>1. ASSUME deployment' = Judged(deployment, holding', account') PROVE FALSE
    BY <1>2, <1>3, <2>1, JudgedOperational
  <2>2. ASSUME deployment' = Judged(Judged(deployment, holding', account'), holding', account') PROVE FALSE
    <3> DEFINE d == Judged(deployment, holding', account')
    <3>1. \/ d.state = "operational"
          \/ /\ d.state = "admin_recovery" /\ ActiveOf(holding', d.identity) # {}
             /\ d.identity \in Persons /\ AccountNow(account', d.identity) = "proven"
      <4> HIDE DEF d
      <4>1. Judged(d, holding', account').state = "operational"
        BY <1>2, <2>2 DEF d
      <4> QED BY <1>2, <4>1, JudgedOperational
    <3>2. d.state = "admin_recovery" => d = deployment
      BY DEF Judged
    <3>3. d.state # "operational"
      <4> HIDE DEF d
      <4>1. ASSUME d.state = "operational" PROVE AdminsAfter(holding', account', {}) # "disproven"
        <5>1. Judged(d, holding', account').state = "operational"
          BY <1>2, <2>2 DEF d
        <5> QED BY <1>2, <4>1, <5>1, JudgedOperational
      <4> QED BY <1>2, <4>1
    <3> HIDE DEF d
    <3> QED BY <1>3, <3>1, <3>2, <3>3
  <2> QED BY <1>5, <2>1, <2>2 DEF Judges
<1>6. CASE NothingToJudge
  <2>1. UNCHANGED deployment
    <3>1. Quiet => UNCHANGED deployment
      BY QuietSteps
    <3>2. ASSUME NEW p \in Persons, AccountClosure(p), ~AccountEnded(p) \/ EffectiveOf(holding, p) = {}
          PROVE  UNCHANGED deployment
      <4> DEFINE H == IF AccountEnded(p) THEN EffectiveOf(holding, p) ELSE {}
      <4>1. H = {}
        BY <3>2
      <4>2. H = {} => deployment' = deployment
        BY <3>2 DEF AccountClosure
      <4> QED BY <4>1, <4>2
    <3>3. ASSUME NEW r, NEW p, NEW c, Dispose(r, p, c), ActiveOf(holding, p) = {} PROVE UNCHANGED deployment
      BY <3>3 DEF Dispose
    <3>4. ASSUME NEW c, NEW p, ConfirmAccount(c, p) \/ AccountConfirmationExpires(c, p) PROVE UNCHANGED deployment
      BY <3>4 DEF ConfirmAccount, AccountConfirmationExpires
    <3> QED BY <1>6, <3>1, <3>2, <3>3, <3>4 DEF NothingToJudge
  <2>2. AdminsAfter(holding, account, {}) # "disproven"
    BY <1>1, <1>2, <2>1 DEF NoSilentLoss
  <2>3. \A h \in Holdings : Counting(h) => StaysCounting(h) /\ UNCHANGED account
    <3>1. ASSUME NEW h \in Holdings, Counting(h) PROVE holding'[h].state \notin {"ended/superseded", "ended/expired"}
      BY <3>1 DEF Unjudged, Counting
    <3> QED BY <1>1, <1>6, <3>1, UnjudgedKeeps
  <2>4. HoldersBut(holding, {}) \subseteq HoldersBut(holding', {})
    BY <2>3 DEF HoldersBut, Counting, StaysCounting
  <2>5. account' = account
    <3>1. HoldersBut(holding, {}) # {}
      BY <2>2 DEF AdminsAfter
    <3> QED BY <2>3, <3>1 DEF HoldersBut, Counting
  <2> QED BY <1>2, <2>2, <2>4, <2>5, NobodyLost
<1> QED BY <1>1, <1>4, <1>5, <1>6, JudgesOrNot

(* No account fact, closure, disposition, release, revocation, reconfirmation or replacement leaves the deployment in     *)
(* operation without an admin: each judges what it leaves in its own transaction (JudgeAdmins, recoveredYet).             *)
THEOREM LossesJudged == Spec => LossesAreJudged
<1>1. IInv /\ [Next]_vars => [NoSilentLoss /\ ~NoSilentLoss' => Unjudged]_vars
  BY LossStep
<1> QED BY <1>1, Safe, PTL DEF Spec, LossesAreJudged

(* A deployment begins with an admin if it begins claimed. *)
LEMMA InitHasAnAdmin == Init => NoSilentLoss
<1> SUFFICES ASSUME Init, Claimed(holding) PROVE AdminsAfter(holding, account, {}) = "proven"
  BY DEF NoSilentLoss
<1>1. PICK h \in Holdings : holding[h].state # "none"
  BY DEF Claimed
<1>2. h \in DOMAIN Seats
  BY <1>1 DEF Init, Unwritten
<1>3. holding[h] = [Unwritten EXCEPT !.state = "active", !.holder = Seats[h]] /\ Seats[h] \in Persons \ Newcomers
  BY <1>2, Parameters DEF Init
<1>4. holding[h].state = "active" /\ holding[h].holder = Seats[h] /\ holding[h].backfill = FALSE
  BY <1>3 DEF Unwritten
<1>5. Seats[h] \in HoldersBut(holding, {}) \cap Persons
  BY <1>3, <1>4 DEF HoldersBut
<1>6. AccountNow(account, Seats[h]) = "proven"
  BY <1>3 DEF Init, AccountNow
<1> QED BY <1>5, <1>6, ProvenIsEnough

(* As long as none of the steps happens at which nobody judges, no deployment in operation is without an admin, whatever *)
(* the account facts, dispositions and changes of several admins do in whatever order (JudgeAdmins).                     *)
THEOREM NoLossWhileJudged == Spec /\ [][~Unjudged]_vars => []NoSilentLoss
<1>1. NoSilentLoss /\ [NoSilentLoss /\ ~NoSilentLoss' => Unjudged]_vars /\ [~Unjudged]_vars => NoSilentLoss'
  BY DEF vars, NoSilentLoss, AdminsAfter, HoldersBut, AccountNow, Claimed
<1> QED BY <1>1, InitHasAnAdmin, LossesJudged, PTL DEF Spec, LossesAreJudged

\* A deployment that uses none of what goes unjudged: its source stays fresh, its holdings are for ever and not renewed,
\* no identity is recovered, and it has its first admin.
Plain ==
  /\ SourceStates = {"fresh"} /\ ~Timed /\ ~Renewal /\ Recoverable = {}
  /\ DOMAIN Seats # {}

PlainInv ==
  /\ IInv /\ NoSilentLoss
  /\ source = "fresh" /\ Claimed(holding) /\ deployment.state # "admin_recovery"
  /\ \A h \in Holdings : holding[h].pred = None /\ holding[h].until = "open"

(* Only the source itself changes how fresh its facts are. *)
LEMMA SourceSteps == ASSUME Next PROVE source' = source \/ \E s \in SourceStates : source' = s
<1>1. ASSUME NEW p, Claim(p) \/ AccountClosure(p) PROVE source' = source
  BY <1>1 DEF Claim, AccountClosure
<1>2. ASSUME NEW r, NEW p, Submits(r, p) PROVE source' = source
  BY <1>2 DEF Submits, Submit
<1>3. ASSUME NEW c, NEW h, Confirm(c, h) \/ ConfirmationExpires(h, c) PROVE source' = source
  BY <1>3 DEF Confirm, ConfirmationExpires
<1>4. ASSUME NEW h, NEW t, Due(h, t) PROVE source' = source
  BY <1>4 DEF Due
<1>5. ASSUME NEW r, NEW h, NEW how, NEW own, NEW c, Terminate(r, h, how) \/ Tighten(r, h, own, c) PROVE source' = source
  BY <1>5 DEF Terminate, Tighten
<1>6. ASSUME NEW r, NEW p, NEW c, NEW d, NEW n, Dispose(r, p, c) \/ Release(r, d, c, n) PROVE source' = source
  BY <1>6 DEF Dispose, Release
<1>7. ASSUME NEW p, NEW s, NEW v, AccountFact(p, s, v) PROVE source' = source
  BY <1>7 DEF AccountFact
<1>8. ASSUME NEW r, NEW c, NEW p, ConfirmAccount(c, p) \/ AccountConfirmationExpires(c, p) \/ Reconfirm(r, p, c)
      PROVE  source' = source
  BY <1>8 DEF ConfirmAccount, AccountConfirmationExpires, Reconfirm
<1>9. ASSUME NEW H, RecoveryReplace(H) PROVE source' = source
  BY <1>9 DEF RecoveryReplace
<1>10. ASSUME NEW i, RecoveryRestore(i) \/ RecoveryAbort PROVE source' = source
  BY <1>10 DEF RecoveryRestore, RecoveryAbort
<1>11. ASSUME NEW h, Lapse(h) \/ Expire(h) \/ TimeComes(h) \/ GrowOld PROVE source' = source
  BY <1>11 DEF Lapse, Expire, TimeComes, GrowOld
<1>12. ASSUME NEW s \in SourceStates, SourceMoves(s) PROVE source' = s
  BY <1>12 DEF SourceMoves
<1>13. RecoveryAbort => source' = source
  BY DEF RecoveryAbort
<1>14. GrowOld => source' = source
  BY DEF GrowOld
<1> QED BY <1>1, <1>2, <1>3, <1>4, <1>5, <1>6, <1>7, <1>8, <1>9, <1>10, <1>11, <1>12, <1>13, <1>14 DEF Next

(* A plain deployment begins as one. *)
LEMMA PlainInit == ASSUME Plain, Init PROVE PlainInv
<1>1. IInv /\ NoSilentLoss /\ source = "fresh" /\ deployment.state # "admin_recovery"
  BY InitSafe, InitHasAnAdmin DEF Init
<1>2. ASSUME NEW h \in Holdings
      PROVE  holding[h].pred = None /\ holding[h].until = "open" /\ (h \in DOMAIN Seats => holding[h].state # "none")
  BY <1>2 DEF Init, Unwritten
<1>3. Claimed(holding)
  BY <1>2, Parameters DEF Plain, Claimed
<1> QED BY <1>1, <1>2, <1>3 DEF PlainInv

(* And nothing it does goes unjudged. *)
LEMMA PlainStep == ASSUME Plain, PlainInv, [Next]_vars PROVE PlainInv'
<1>1. CASE Next
  <2>1. IInv'
    BY StepSafe DEF PlainInv
  <2>2. \A h \in Holdings : Lawful(h)
    BY <1>1, StepLawful DEF PlainInv
  <2>3. source' = "fresh"
    BY <1>1, SourceSteps DEF Plain, PlainInv
  <2>4. Claimed(holding')
    <3>1. PICK h \in Holdings : holding[h].state # "none"
      BY DEF PlainInv, Claimed
    <3>2. holding[h].state \in States /\ "none" \in States /\ Lawful(h)
      BY <2>2 DEF PlainInv, IInv, TypeOK, HoldingRows, States
    <3>3. holding'[h].state # "none"
      BY <3>1, <3>2, MovesByGroup DEF Lawful
    <3> QED BY <3>3 DEF Claimed
  <2>5. deployment'.state # "admin_recovery"
    <3>1. ~RecoveryAbort /\ \A i \in Recoverable : ~RecoveryRestore(i)
      BY DEF Plain, PlainInv, RecoveryAbort
    <3>2. Rejudged
      BY <1>1, <3>1, DeploymentSteps
    <3>3. ASSUME NEW d \in DeploymentRows, NEW hs, NEW acct, d.state # "admin_recovery"
          PROVE  Judged(d, hs, acct) \in DeploymentRows /\ Judged(d, hs, acct).state # "admin_recovery"
      BY <3>3 DEF Judged, DeploymentRows, AdminStates
    <3>4. deployment \in DeploymentRows /\ deployment.state # "admin_recovery"
      BY DEF PlainInv, IInv, TypeOK
    <3>5. Judged(deployment, holding', account') \in DeploymentRows
          /\ Judged(deployment, holding', account').state # "admin_recovery"
      BY <3>3, <3>4
    <3> QED BY <3>2, <3>3, <3>4, <3>5 DEF Rejudged
  <2>6. ASSUME NEW h \in Holdings PROVE holding'[h].pred = None /\ holding'[h].until = "open"
    BY <2>2, <2>6 DEF Lawful, Plain, PlainInv
  <2>7. ~Unjudged
    <3>1. ASSUME NEW h \in Holdings, holding[h].state = "active", holding'[h].state \in {"ended/superseded", "ended/expired"}
          PROVE  FALSE
      <4>1. holding[h].state \notin EndedStates /\ holding[h].until = "open"
        BY <3>1, StateGroups DEF PlainInv
      <4>2. CASE holding'[h].state = "ended/superseded"
        <5>1. \E x \in Holdings : holding'[x].pred = h
          BY <2>2, <4>1, <4>2 DEF Lawful, TakenOver
        <5> QED BY <2>6, <5>1, Parameters
      <4>3. CASE holding'[h].state = "ended/expired"
        BY <2>2, <3>1, <4>1, <4>3 DEF Lawful
      <4> QED BY <3>1, <4>2, <4>3
    <3>2. \A i \in Persons : deployment.identity # i
      BY Parameters DEF PlainInv, IInv, TypeOK, DeploymentRows
    <3>3. source' = source /\ Claimed(holding) /\ ~RecoveryAbort /\ Recoverable = {}
      BY <2>3 DEF Plain, PlainInv, RecoveryAbort
    <3> QED BY <3>1, <3>2, <3>3 DEF Unjudged
  <2>8. NoSilentLoss'
    BY <1>1, <2>7, LossStep DEF PlainInv
  <2> QED BY <2>1, <2>3, <2>4, <2>5, <2>6, <2>8 DEF PlainInv
<1>2. CASE UNCHANGED vars
  <2>1. IInv'
    BY StepSafe DEF PlainInv
  <2> QED BY <1>2, <2>1 DEF vars, PlainInv, NoSilentLoss, AdminsAfter, HoldersBut, AccountNow, Claimed
<1> QED BY <1>1, <1>2

(* In such a deployment the last admin is never lost silently, whatever the account facts, closures, dispositions,       *)
(* releases, revocations and saved changes of any number of admins do in whatever order.                                 *)
THEOREM NoneLostSilently == ASSUME Plain PROVE Spec => []NoSilentLoss
<1>1. Init => PlainInv
  BY PlainInit
<1>2. PlainInv /\ [Next]_vars => PlainInv'
  BY PlainStep
<1>3. PlainInv => NoSilentLoss
  BY DEF PlainInv
<1> QED BY <1>1, <1>2, <1>3, PTL DEF Spec

=============================================================================
