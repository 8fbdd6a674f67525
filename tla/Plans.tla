-------------------------------- MODULE Plans --------------------------------
(***************************************************************************)
(* Batch plans (internal/plans): a plan is drafted with its items, each a    *)
(* change request, previewed, confirmed and executed by a job that takes one *)
(* item per run into the effect point.  Each action is one transaction; the  *)
(* effect point's answer to an item is Decide's, on the facts an item's run  *)
(* finds, and the records it moves keep Lifecycle's table.                   *)
(*                                                                          *)
(* A run that answers processing, or a retryable rejection, changes nothing  *)
(* and its work item waits: it is no step, until MaxWait parks it.  An item  *)
(* saves at most one record, whose identity is the item's own.  Every record *)
(* also moves by changes outside the plans, which is all the rest of the     *)
(* effect point is here.  A plan within the threshold asks for no second     *)
(* person; confirmations of it, and of an ended plan, are left out: nothing   *)
(* reads them.                                                              *)
(***************************************************************************)
EXTENDS Decide, Lifecycle, Sequences, FiniteSets

CONSTANTS
  Plans,         \* identities of plans
  MaxItems,      \* how many items a draft may have
  ConfirmAbove,  \* AUTHZ_PLAN_CONFIRM_ABOVE: more items than this need a second person
  Persons,       \* principals
  Owner,         \* the deployment owner, confirming with the offline key
  Initiators,    \* who drafts plans
  Confirmers,    \* who confirms them: persons, the owner
  None,
  Existing,      \* records in force when a plan is drafted
  Asks,          \* the kinds of change requested
  Elsewhere,     \* the states changes outside the plans move records to
  Provable,      \* what may be proven of a person's standing
  MaxUnused,     \* bound: unused confirmations at a time
  MaxAttempts,   \* bound: how often an item is tried
  MaxDigests     \* bound: how many different contents a plan is previewed with

Positions == 1..MaxItems
Slots == Plans \X Positions      \* an item, and the record it saves
Records == Existing \cup Slots

\* What is asked: a grant; a grant of later effect; a unit (protected); the renewal, the revocation, the narrowing of a record and, of
\* an admin's holding, the dismissal (protected); the cancellation of a record not yet effective.
Widenings == {"grant", "later", "unit", "renew"}
Tightenings == {"revoke", "narrow", "dismiss", "cancel"}
Requests == [ask: Widenings \ {"renew"}, target: {None}] \cup [ask: Tightenings \cup {"renew"}, target: Records]
NoRequest == [ask |-> "none", target |-> None]

ASSUME PlansParameters ==
  /\ MaxItems \in Nat \ {0} /\ ConfirmAbove \in Nat /\ MaxAttempts \in Nat \ {0} /\ MaxDigests \in Nat \ {0}
  /\ Existing \cap Slots = {} /\ None \notin Records /\ None \notin Persons /\ Owner \notin Persons /\ Owner # None
  /\ Asks \subseteq Widenings \cup Tightenings
  /\ Initiators \subseteq Persons /\ Confirmers \subseteq Persons \cup {Owner}
  /\ Provable \subseteq Proof /\ MaxUnused \in Nat
  /\ Elsewhere \subseteq States \ {"none"}

VARIABLES
  plan,      \* authz_plan
  item,      \* authz_plan_item
  record,    \* the state of each security record
  standing,  \* what is proven now of each person: an authorization admin, its account active
  confirmed, \* unused confirmations of plans
  jobs,      \* work items of JobPlan, by plan
  parked,    \* plans of which a work item waited too long and is an operator's
  bound      \* change keys bound by items' runs: item and attempt

vars == <<plan, item, record, standing, confirmed, jobs, parked, bound>>

-----------------------------------------------------------------------------
(* Rows *)

Running == {"confirmed", "executing"}
EndedPlans == {"completed", "partially_completed", "cancelled", "expired"}
PlanStates == {"none", "draft", "previewed"} \cup Running \cup EndedPlans

Open == {"pending", "needs_review"}
Final == {"applied", "rejected"}

\* what a confirmation of a plan confirms: a preview (of 0), or the attempt of the item at a position
Digests == [of: {0}, n: 1..MaxDigests] \cup [of: Positions, n: 1..MaxAttempts]

PlanRows ==
  [state: PlanStates, by: Persons \cup {None}, second: Persons \cup {Owner, None}, size: 0..MaxItems,
   digest: 0..MaxDigests, expiry: {"none", "ahead", "past"}]
NoPlan == [state |-> "none", by |-> None, second |-> None, size |-> 0, digest |-> 0, expiry |-> "none"]

\* moved: the target's revisions are not the ones an open item's request carries
ItemRows ==
  [state: {"none"} \cup Open \cup Final, request: Requests \cup {NoRequest}, attempt: 0..MaxAttempts,
   record: Records \cup {None}, moved: BOOLEAN]
NoItem == [state |-> "none", request |-> NoRequest, attempt |-> 0, record |-> None, moved |-> FALSE]

TypeOK ==
  /\ plan \in [Plans -> PlanRows]
  /\ item \in [Slots -> ItemRows]
  /\ record \in [Records -> States]
  /\ standing \in [Persons -> Proof]
  /\ confirmed \subseteq [plan: Plans, digest: Digests, by: Persons \cup {Owner}]
  /\ jobs \in [Plans -> Nat]
  /\ parked \subseteq Plans
  /\ bound \subseteq Slots \X (1..MaxAttempts)

Init ==
  /\ plan = [p \in Plans |-> NoPlan]
  /\ item = [x \in Slots |-> NoItem]
  /\ record = [r \in Records |-> IF r \in Existing THEN "active" ELSE "none"]
  /\ standing = [q \in Persons |-> "proven"]
  /\ confirmed = {}
  /\ jobs = [p \in Plans |-> 0]
  /\ parked = {}
  /\ bound = {}

ItemsOf(p) == {x \in Slots : x[1] = p}
Above(p) == plan[p].size > ConfirmAbove

-----------------------------------------------------------------------------
(* What a record's move does to the items, and what ends a plan *)

\* The targets in R have new revisions, which open items look at.  A renewal names its predecessor in its candidate: no
\* revision is expected of it.
Moving(its, R) ==
  [x \in Slots |-> [its[x] EXCEPT !.moved = its[x].state \in Open /\ (@ \/ (its[x].request.target \in R
                                                                            /\ its[x].request.ask # "renew"))]]

\* A mutant of Answer: the record's state itself.
AnswerAsRecord(to) == IF to \in Pending THEN "needs_review" ELSE to

\* what becomes of an item that waits on a record now in state to
Answer(to) == CASE to \in {"active", "scheduled"} -> "applied"
                [] to \in EndedStates -> "rejected"
                [] OTHER -> "needs_review"

\* an item that waits on record r
Waiting(x, r) == item[x].state = "needs_review" /\ item[x].record = r

\* FollowRecord: the items that waited on r, now in state to.
Followed(r, to) ==
  Moving([x \in Slots |-> IF Waiting(x, r) THEN [item[x] EXCEPT !.state = Answer(to)] ELSE item[x]], {r})

\* A mutant of Followers: the plans are left to their next run.
FollowersNone(r, to) == {}

\* the plans FollowRecord settles
Followers(r, to) == {p \in Plans : Answer(to) # "needs_review" /\ \E x \in ItemsOf(p) : Waiting(x, r)}

\* settle, for the plans in S: a plan whose items all have a final state has ended.
Settled(its, S) ==
  [p \in Plans |->
     IF p \in S /\ plan[p].state \in Running /\ \A x \in ItemsOf(p) : its[x].state \notin Open
     THEN [plan[p] EXCEPT !.state = IF \E x \in ItemsOf(p) : its[x].state = "rejected"
                                    THEN "partially_completed" ELSE "completed"]
     ELSE plan[p]]

\* the records endPlan cancels: saved by an item to be reviewed, and waiting to be confirmed
Unconfirmed(p) ==
  {r \in Records : record[r] \in {"requested", "awaiting_confirmation"} /\ \E x \in ItemsOf(p) : Waiting(x, r)}

\* Mutants of Terminated and of Cancelled: what is to be reviewed is left; what it saved is left.
TerminatedPending(p) ==
  Moving([x \in Slots |-> IF x[1] = p /\ item[x].state = "pending" THEN [item[x] EXCEPT !.state = "rejected"] ELSE item[x]],
         Unconfirmed(p))
CancelledNone(p) == record

\* endPlan's items: what has not run (plan_terminated) and what is to be reviewed (not_reviewed) is rejected, before
\* the records move, which then find no item waiting on them.
Terminated(p) ==
  Moving([x \in Slots |-> IF x[1] = p /\ item[x].state \in Open THEN [item[x] EXCEPT !.state = "rejected"] ELSE item[x]],
         Unconfirmed(p))
Cancelled(p) == [r \in Records |-> IF r \in Unconfirmed(p) THEN "ended/cancelled" ELSE record[r]]

EndPlan(p, state) ==
  /\ item' = Terminated(p)
  /\ record' = Cancelled(p)
  /\ plan' = [plan EXCEPT ![p].state = state]

-----------------------------------------------------------------------------
(* The routes *)

\* A request can name what exists.
Askable(req) == req.ask \in Asks /\ (req.target # None => record[req.target] # "none")

\* draft: idempotent by the plan key, so a plan is drafted once.
Draft(p, q, requests) ==
  /\ plan[p].state = "none"
  /\ \A i \in DOMAIN requests : Askable(requests[i])
  /\ plan' = [plan EXCEPT ![p] = [NoPlan EXCEPT !.state = "draft", !.by = q, !.size = Len(requests)]]
  /\ item' = [x \in Slots |-> IF x[1] = p /\ x[2] \in DOMAIN requests
                              THEN [NoItem EXCEPT !.state = "pending", !.request = requests[x[2]], !.attempt = 1]
                              ELSE item[x]]
  /\ UNCHANGED <<record, standing, confirmed, jobs, parked, bound>>

\* preview: every item carries its target's revisions as they are now; the digest is of the content, another one if a
\* revision is.  The expiry's work item is registered, and does nothing before the last preview's time.
Preview(p) ==
  LET renewed == plan[p].digest = 0 \/ \E x \in ItemsOf(p) : item[x].moved
  IN /\ plan[p].state \in {"draft", "previewed"}
     /\ renewed => plan[p].digest < MaxDigests
     /\ plan' = [plan EXCEPT ![p].state = "previewed", ![p].expiry = "ahead", ![p].digest = IF renewed THEN @ + 1 ELSE @]
     /\ item' = [x \in Slots |-> IF x[1] = p THEN [item[x] EXCEPT !.moved = FALSE] ELSE item[x]]
     /\ UNCHANGED <<record, standing, confirmed, jobs, parked, bound>>

\* ConfirmPlan: a second person's confirmation of the preview, or of an item's next attempt.  Its maker is judged again
\* when it is used: one made ahead of its use is as one made just then.
ConfirmPlan(c, p, d) ==
  /\ plan[p].digest # 0 /\ Above(p) /\ c # plan[p].by
  /\ c # Owner => standing[c] = "proven"
  /\ Cardinality(confirmed) < MaxUnused
  /\ \/ plan[p].state = "previewed" /\ d = [of |-> 0, n |-> plan[p].digest]
     \/ plan[p].state \in Running /\ \E x \in ItemsOf(p) :
          item[x].state = "needs_review" /\ item[x].record = None /\ d = [of |-> x[2], n |-> item[x].attempt + 1]
  /\ confirmed' = confirmed \cup {[plan |-> p, digest |-> d, by |-> c]}
  /\ UNCHANGED <<plan, item, record, standing, jobs, parked, bound>>

\* a confirmation's validity ends
Lapse(c) ==
  /\ c \in confirmed
  /\ confirmed' = confirmed \ {c}
  /\ UNCHANGED <<plan, item, record, standing, jobs, parked, bound>>

OthersAvailable(q) == \E c \in Persons \ {q} : standing[c] = "proven"

\* secondConfirmer: the confirmations of digest d that stand now.
Seconds(p, d) ==
  {c \in confirmed : /\ c.plan = p /\ c.digest = d /\ c.by # plan[p].by
                     /\ IF c.by = Owner THEN ~OthersAvailable(plan[p].by) ELSE standing[c.by] = "proven"}

\* ConfirmPlanHTTP: the initiator confirms the preview, with a second person above the threshold.
ConfirmPreview(p) ==
  LET d == [of |-> 0, n |-> plan[p].digest]
  IN /\ plan[p].state = "previewed" /\ plan[p].expiry = "ahead"
     /\ \/ /\ ~Above(p)
           /\ plan' = [plan EXCEPT ![p].state = "confirmed"]
           /\ UNCHANGED confirmed
        \/ /\ Above(p)
           /\ \E c \in Seconds(p, d) :
                /\ plan' = [plan EXCEPT ![p].state = "confirmed", ![p].second = c.by]
                /\ confirmed' = confirmed \ {c}
     /\ jobs' = [jobs EXCEPT ![p] = @ + 1]
     /\ UNCHANGED <<item, record, standing, parked, bound>>

CancelPlan(p) ==
  /\ plan[p].state \notin EndedPlans \cup {"none"}
  /\ EndPlan(p, "cancelled")
  /\ UNCHANGED <<standing, confirmed, jobs, parked, bound>>

\* A mutant of Attempted: run again under the key it ran under.
AttemptedAgain(x, req) == [item[x] EXCEPT !.state = "pending", !.request = req, !.moved = FALSE]

Attempted(x, req) == [item[x] EXCEPT !.state = "pending", !.request = req, !.moved = FALSE, !.attempt = @ + 1]

\* ReviewItemHTTP: an item to be reviewed that saved no record is tried again, with its request or a new one; above the
\* threshold a second person confirms the attempt.  The plan keeps the second person it was confirmed with.
ReviewItem(p, x, req) ==
  LET d == [of |-> x[2], n |-> item[x].attempt + 1]
  IN /\ plan[p].state \in Running
     /\ item[x].state = "needs_review" /\ item[x].record = None /\ item[x].attempt < MaxAttempts
     /\ \/ ~Above(p) /\ UNCHANGED confirmed
        \/ Above(p) /\ \E c \in Seconds(p, d) : confirmed' = confirmed \ {c}
     /\ item' = [item EXCEPT ![x] = Attempted(x, req)]
     /\ jobs' = [jobs EXCEPT ![p] = @ + 1]
     /\ UNCHANGED <<plan, record, standing, parked, bound>>

-----------------------------------------------------------------------------
(* The job *)

Pendings(p) == {x \in ItemsOf(p) : item[x].state = "pending"}
Next1(p) == CHOOSE x \in Pendings(p) : \A y \in Pendings(p) : x[2] <= y[2]

Due(p) == jobs[p] > 0 /\ plan[p].state \in Running /\ plan[p].expiry = "ahead"

\* A run that finds the plan in no state to run, past its expiry, or without a pending item.
RunIdle(p) ==
  /\ jobs[p] > 0
  /\ jobs' = [jobs EXCEPT ![p] = @ - 1]
  /\ \/ plan[p].state \notin Running /\ UNCHANGED <<plan, item, record>>
     \/ plan[p].state \in Running /\ plan[p].expiry = "past" /\ EndPlan(p, "expired")
     \/ Due(p) /\ Pendings(p) = {} /\ plan' = Settled(item, {p}) /\ UNCHANGED <<item, record>>
  /\ UNCHANGED <<standing, confirmed, parked, bound>>

\* whether the second person the plan stands on is one no more
Unseconded(p) == plan[p].second \in Persons /\ standing[plan[p].second] = "disproven"

\* A mutant of Seconded: not looked at again.
SecondedOnce(p) == TRUE

Seconded(p) == plan[p].second \in Persons => standing[plan[p].second] = "proven"

\* The item is left for review, and the next run enqueued in place of this one.
RunUnseconded(p) ==
  /\ Due(p) /\ Pendings(p) # {} /\ Unseconded(p)
  /\ item' = [item EXCEPT ![Next1(p)].state = "needs_review"]
  /\ plan' = [plan EXCEPT ![p].state = "executing"]
  /\ UNCHANGED <<record, standing, confirmed, jobs, parked, bound>>

Renewable(r) == record[r] \in {"active", "held/security_hold"}

\* A mutant of Stale: a target's revisions are not looked at.
StaleByState(x) ==
  item[x].request.target # None
    /\ record[item[x].request.target] \notin IF item[x].request.ask = "cancel" THEN Pending ELSE Effective

\* What an item's request names is not as previewed: row 17, not row 3, of an item (PlanItem).
Stale(x) ==
  LET r == item[x].request.target
  IN CASE item[x].request.ask = "renew" -> ~Renewable(r)
       [] item[x].request.ask = "cancel" -> item[x].moved \/ record[r] \notin Pending
       [] item[x].request.ask \in {"revoke", "narrow", "dismiss"} -> item[x].moved \/ record[r] \notin Effective
       [] OTHER -> FALSE

\* what factsOf finds for an item: the initiator as the requester, the job as the trigger, nothing confirmed yet
ItemFacts(p, x, contained, lastApplied, after) ==
  LET ask == item[x].request.ask
  IN [FreshFacts EXCEPT
        !.trigger = "job", !.revisionsChanged = Stale(x),
        !.kind = IF ask \in Widenings THEN "widen" ELSE IF ask = "cancel" THEN "terminate" ELSE "tighten",
        !.eligible = standing[plan[p].by], !.lastApplied = lastApplied, !.contained = contained,
        !.needsConfirmation = (ask = "unit"), !.future = (ask = "later"),
        !.affectsAdmins = (ask = "dismiss"), !.tightenNeedsConfirmation = (ask = "dismiss"), !.adminsAfter = after]

\* itemState, of an answer that does not wait
ItemState(f) ==
  CASE Outcome(f) \in {"applied", "scheduled"} -> "applied"
    [] Outcome(f) \in {"awaiting_saved", "awaiting_unsaved"} \/ Row(f) = 17 -> "needs_review"
    [] OTHER -> "rejected"

\* the state of the record a widening's item inserts
Inserted(o) == CASE o = "applied" -> "active" [] o = "scheduled" -> "scheduled"
                 [] o = "awaiting_saved" -> "awaiting_confirmation" [] OTHER -> "ended/rejected"

\* what an applied item does to the record it names; a predecessor that a disposition holds is kept
EndsIn(req) ==
  CASE req.ask = "renew" /\ record[req.target] = "active" -> "ended/superseded"
    [] req.ask \in {"revoke", "dismiss"} -> "ended/revoked"
    [] req.ask = "cancel" -> "ended/cancelled"
    [] OTHER -> record[req.target]

\* The next item through the effect point, under its attempt's key; the next run enqueued in place of this one.
RunItem(p, contained, lastApplied, after) ==
  LET x == Next1(p)
      f == ItemFacts(p, x, contained, lastApplied, after)
      o == Outcome(f)
      req == item[x].request
      widens == req.ask \in Widenings
      hit == o = "applied" /\ req.target # None
      ends == hit /\ EndsIn(req) # record[req.target]
      its == IF ends THEN Followed(req.target, EndsIn(req))
             ELSE IF hit /\ req.ask = "narrow" THEN Moving(item, {req.target}) ELSE item
  IN /\ Due(p) /\ Pendings(p) # {} /\ Seconded(p)
     /\ o \notin {"processing", "retryable"}
     /\ record' = [r \in Records |-> IF r = x /\ widens THEN Inserted(o)
                                     ELSE IF ends /\ r = req.target THEN EndsIn(req) ELSE record[r]]
     /\ item' = [its EXCEPT ![x].state = ItemState(f),
                            ![x].record = IF widens THEN x ELSE IF o = "applied" THEN req.target ELSE @]
     /\ plan' = [Settled(its, IF ends THEN Followers(req.target, EndsIn(req)) ELSE {}) EXCEPT ![p].state = "executing"]
     /\ bound' = IF o \in {"applied", "rejected"} THEN bound \cup {<<x, item[x].attempt>>} ELSE bound
     /\ UNCHANGED <<standing, confirmed, jobs, parked>>

\* An item the effect point answers before the table (an invalid request): rejected for good.
RunInvalid(p) ==
  LET x == Next1(p)
  IN /\ Due(p) /\ Pendings(p) # {} /\ Seconded(p)
     /\ item' = [item EXCEPT ![x].state = "rejected"]
     /\ plan' = [plan EXCEPT ![p].state = "executing"]
     /\ bound' = bound \cup {<<x, item[x].attempt>>}
     /\ UNCHANGED <<record, standing, confirmed, jobs, parked>>

\* MaxWait: a run that kept waiting goes to an operator.
GiveUp(p) ==
  /\ Due(p) /\ Pendings(p) # {}
  /\ jobs' = [jobs EXCEPT ![p] = @ - 1]
  /\ parked' = parked \cup {p}
  /\ UNCHANGED <<plan, item, record, standing, confirmed, bound>>

\* Mutants of Expirable: a plan being executed is left; an ended one is not.
ExpirableUnlessRun == {"previewed", "confirmed"}
ExpirableEver == PlanStates \ {"none", "draft"}

Expirable == {"previewed"} \cup Running

\* ExpirePlan, the plan's timed item
ExpirePlan(p) ==
  /\ plan[p].expiry = "past" /\ plan[p].state \in Expirable
  /\ EndPlan(p, "expired")
  /\ UNCHANGED <<standing, confirmed, jobs, parked, bound>>

-----------------------------------------------------------------------------
(* What happens around the plans *)

TimePasses(p) ==
  /\ plan[p].expiry = "ahead" /\ plan[p].state \notin EndedPlans
  /\ plan' = [plan EXCEPT ![p].expiry = "past"]
  /\ UNCHANGED <<item, record, standing, confirmed, jobs, parked, bound>>

\* Another change moves a record: Transition, which FollowRecord follows.
RecordMoves(r, to) ==
  /\ record[r] # "none" /\ Allowed(record[r], to)
  /\ record' = [record EXCEPT ![r] = to]
  /\ item' = Followed(r, to)
  /\ plan' = Settled(Followed(r, to), Followers(r, to))
  /\ UNCHANGED <<standing, confirmed, jobs, parked, bound>>

\* Another change narrows or renames a record: its revisions move, its state does not.
RecordRevised(r) ==
  /\ record[r] \notin {"none"} \cup EndedStates
  /\ item' = Moving(item, {r})
  /\ UNCHANGED <<plan, record, standing, confirmed, jobs, parked, bound>>

\* The holdings or the account of a person change, or what can be proven of them.
StandingMoves(q, to) ==
  /\ standing' = [standing EXCEPT ![q] = to]
  /\ UNCHANGED <<plan, item, record, confirmed, jobs, parked, bound>>

\* the plans a replaced admin initiated or confirmed
Replaced(q) == {p \in Plans : plan[p].state \in Running /\ q \in {plan[p].by, plan[p].second}}

\* An administrator recovery replaces q: its holdings are held, and ReviewReplaced takes back what it stood for.
Replace(q) ==
  /\ standing' = [standing EXCEPT ![q] = "disproven"]
  /\ item' = [x \in Slots |-> IF x[1] \in Replaced(q) /\ item[x].state = "pending"
                              THEN [item[x] EXCEPT !.state = "needs_review"] ELSE item[x]]
  /\ UNCHANGED <<plan, record, confirmed, jobs, parked, bound>>

-----------------------------------------------------------------------------
Next ==
  \/ \E p \in Plans, q \in Initiators, n \in Positions : \E requests \in [1..n -> Requests] : Draft(p, q, requests)
  \/ \E p \in Plans : \/ Preview(p) \/ ConfirmPreview(p) \/ CancelPlan(p)
                      \/ RunIdle(p) \/ RunUnseconded(p) \/ RunInvalid(p) \/ GiveUp(p)
                      \/ ExpirePlan(p) \/ TimePasses(p)
  \/ \E p \in Plans, contained, lastApplied \in BOOLEAN, after \in {"proven", "disproven"} :
       RunItem(p, contained, lastApplied, after)
  \/ \E p \in Plans, c \in Confirmers, d \in Digests : ConfirmPlan(c, p, d)
  \/ \E c \in confirmed : Lapse(c)
  \/ \E p \in Plans, x \in Slots, req \in Requests : x[1] = p /\ Askable(req) /\ ReviewItem(p, x, req)
  \/ \E r \in Records : RecordRevised(r) \/ \E to \in Elsewhere : RecordMoves(r, to)
  \/ \E q \in Persons : Replace(q) \/ \E to \in Provable : StandingMoves(q, to)

Spec == Init /\ [][Next]_vars

\* Time passes, and the timed item of an expired plan runs.
FairSpec == Spec /\ \A p \in Plans : WF_vars(TimePasses(p)) /\ WF_vars(ExpirePlan(p))

-----------------------------------------------------------------------------
(* Properties *)

\* An ended plan leaves nothing open, and its state tells what became of its items: completed when every one applied,
\* partially completed when some were rejected (settle, endPlan, FollowRecord).
EndedIsSettled ==
  \A p \in Plans :
    /\ plan[p].state \in EndedPlans => \A x \in ItemsOf(p) : item[x].state \notin Open
    /\ plan[p].state = "completed" => \A x \in ItemsOf(p) : item[x].state # "rejected"
    /\ plan[p].state = "partially_completed" => \E x \in ItemsOf(p) : item[x].state = "rejected"

\* A rejected item gives nothing: no record it made or saved is effective or may still take effect (endPlan cancels
\* what an item saved, FollowRecord rejects an item only with its record).
RejectedGivesNothing ==
  \A x \in Slots : item[x].state = "rejected" => record[x] \in {"none"} \cup EndedStates

\* What an item tries again has had no effect: its earlier attempts left no record and its key is not bound
\* (setItem, ReviewItemHTTP, itemKey).
TriedAfresh ==
  \A x \in Slots : item[x].state = "pending" => record[x] = "none" /\ <<x, item[x].attempt>> \notin bound

\* No run is lost: a plan being executed with an item to run, or with nothing left to wait for, has a run enqueued,
\* unless one waited too long and is with an operator (setItem's next, ReviewItemHTTP, ReviewReplaced, FollowRecord).
NoRunLost ==
  \A p \in Plans :
    plan[p].state \in Running /\ (Pendings(p) # {} \/ \A x \in ItemsOf(p) : item[x].state \notin Open)
      => jobs[p] > 0 \/ p \in parked

\* An ended plan stays as it ended, its items with it, whatever its records, work items and confirmations do then.
EndSticks ==
  [][\A p \in Plans : plan[p].state \in EndedPlans =>
       plan'[p].state = plan[p].state /\ \A x \in ItemsOf(p) : item'[x].state = item[x].state]_vars

\* Above the threshold no item runs but on somebody else than the initiator, who is an authorization admin at that
\* moment or the owner (ConfirmPlanHTTP, RunPlan's recheck).
TwoPersons ==
  [][\A x \in Slots : Above(x[1]) /\ item[x].state = "pending" /\ item'[x].state = "applied"
       => LET s == plan[x[1]].second IN s # None /\ s # plan[x[1]].by /\ (s # Owner => standing[s] = "proven")]_vars

\* A tightening acts on the target as it was when the plan, or the item's new attempt, was previewed: one that moved
\* since is left for review (previewItem, row 17 of an item).
ActsOnThePreviewed ==
  [][\A x \in Slots : item[x].request.ask \in Tightenings /\ item[x].state = "pending" /\ item'[x].state = "applied"
       => ~item[x].moved]_vars

\* A plan once confirmed ends.
ConfirmedEnds == \A p \in Plans : plan[p].state \in Running ~> plan[p].state \in EndedPlans

\* What a cancelled or expired plan saved never takes effect (endPlan's comment, BRICKKIT.md): violated, a record
\* scheduled for later counts as applied and is left.
SavedEndsToo ==
  \A x \in Slots : plan[x[1]].state \in {"cancelled", "expired"} => record[x] \notin Pending

\* An item to be reviewed with a record waits on it, and follows it to its end: violated, a record that ended when it
\* was written is waited on for ever.
WaitsOnTheLiving ==
  \A x \in Slots : item[x].state = "needs_review" /\ item[x].record # None => record[item[x].record] \notin EndedStates
=============================================================================
