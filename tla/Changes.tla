------------------------------- MODULE Changes -------------------------------
(***************************************************************************)
(* One change key from its first asking to a restore from backup: the        *)
(* binding of keys at the effect point (internal/effectpoint/change.go), the *)
(* derived keys of the member's own jobs (scheduled.go), the evidence that   *)
(* goes with a change, and its replay after a disaster                       *)
(* (internal/restore/replay.go, recoverystep.go).                            *)
(*                                                                          *)
(* The database is one value, so that a backup keeps all of it and a restore *)
(* brings all of it back.  The evidence store is another deployment's: an    *)
(* intent reaches it at once, a conclusion by the database's outbox, in the  *)
(* order of the commits.  Users and jobs stand still while the recovery tool *)
(* replays.                                                                 *)
(***************************************************************************)
EXTENDS Decide, Lifecycle, Sequences, FiniteSets

CONSTANTS
  Keys,        \* change keys (one requester's)
  None,
  Asked,       \* what is asked under which key: records of key and of
  Provable,    \* what may be proven of a requester's eligibility
  MaxIssued,   \* bound: identities (of records, of evidence) issued for a key
  MaxRevision  \* bound: state revisions a record reaches before nobody moves it by time or confirmation

\* Identities are new ones each time, whatever a restore takes back.
Ids == Keys \X (1..MaxIssued)

Widenings == {"grant", "later", "unit"}
Tightenings == {"revoke", "narrow", "cancel"}
\* A request: a grant, one of later effect, a unit (protected: it awaits a confirmation); the revocation, the narrowing of a
\* record, the cancellation of one not yet effective, which may expect a state revision (0: it does not say).
WideningContents == [ask: Widenings, on: {None}, at: {0}]
TighteningContents == [ask: Tightenings, on: Ids, at: 0..MaxRevision]
Contents == WideningContents \cup TighteningContents

ASSUME ChangesParameters ==
  /\ Asked \subseteq [key: Keys, of: Contents]
  /\ Provable \subseteq Proof
  /\ MaxIssued \in Nat \ {0} /\ MaxRevision \in Nat \ {0}

VARIABLES
  db,       \* the member's database
  backup,   \* its last backup
  intents,  \* the evidence store: intents of tightenings, by identity
  store,    \* the evidence store: conclusions, in commit order
  issued,   \* identities issued so far, by key
  calls,    \* tightenings on their way: between the intent and the last conclusion
  phase,    \* serving, replaying (6.3), deferred (6.5)
  cursor,   \* the next conclusion to replay
  failed,   \* evidence whose replay came to nothing: for the operator
  before,   \* the records as the disaster took them (None: no disaster yet)
  took      \* attempts whose tightening committed as applied

vars == <<db, backup, intents, store, issued, calls, phase, cursor, failed, before, took>>

-----------------------------------------------------------------------------
(* The database *)

Triggered == {"scheduled", "confirmed", "restore"}
Firings == [rec: Ids, rev: Nat, trigger: Triggered]

NoRecord == [ask |-> "none", state |-> "none", rev |-> 0, width |-> 0]
RecordRows == [ask: Widenings, state: States \ {"none"}, rev: Nat, width: 0..2]

\* None is neither a request nor a table: no key is bound to it, and no disaster took it.
ASSUME NoneIsNothing == None \notin Contents /\ None \notin [Ids -> RecordRows \cup {NoRecord}]

Saved == {"scheduled", "awaiting_saved"}
Bindings == [of: Contents, outcome: {"applied", "rejected"} \cup Saved, rec: Ids \cup {None}]
NoBinding == [of |-> None, outcome |-> "none", rec |-> None]

\* a conclusion: what a change's evidence carries of its request, and whether its candidate.  A widening's is its record's.
Conclusions ==
  {e \in [id: Ids, key: Keys, of: WideningContents, phase: {"general"}, rec: Ids, candidate: BOOLEAN] :
     e.id = e.rec /\ e.rec[1] = e.key}
  \cup [id: Ids, key: Keys, of: TighteningContents, phase: {"effective", "cancelled"}, rec: Ids, candidate: BOOLEAN]
Intents == [id: Ids, key: Keys, of: TighteningContents]

Databases ==
  [record: [Ids -> RecordRows \cup {NoRecord}],    \* authz_record
   bound: [Keys -> Bindings \cup {NoBinding}],   \* authz_change: the requester's keys
   own: SUBSET [firing: Firings, outcome: {"applied", "rejected"}],  \* authz_change: the member's derived keys
   jobs: SUBSET Firings,                         \* work items of JobDue, delivered at least once
   history: SUBSET Ids,                          \* be_change_history: evidence the database reflects
   outbox: Seq(Conclusions),                     \* conclusions queued in their change's transaction
   enacted: [Keys -> 0..2]]                      \* (for the properties) how often a key's change took place

Empty ==
  [record |-> [r \in Ids |-> NoRecord], bound |-> [k \in Keys |-> NoBinding], own |-> {}, jobs |-> {},
   history |-> {}, outbox |-> <<>>, enacted |-> [k \in Keys |-> 0]]

Init ==
  /\ db = Empty /\ backup = Empty
  /\ intents = {} /\ store = <<>>
  /\ issued = [k \in Keys |-> 0]
  /\ calls = {}
  /\ phase = "serving" /\ cursor = 0 /\ failed = {} /\ before = None
  /\ took = {}

NewId(k) == <<k, issued[k] + 1>>
CanIssue(k) == issued[k] < MaxIssued
Issue(k) == issued' = [issued EXCEPT ![k] = @ + 1]

\* A mutant of Moved: the state revision stays.
MovedInPlace(d, r, to) == [d EXCEPT !.record[r].state = to]

Moved(d, r, to) == [d EXCEPT !.record[r].state = to, !.record[r].rev = @ + 1]
Enacted(d, k) == [d EXCEPT !.enacted[k] = IF @ < 2 THEN @ + 1 ELSE @]
Registered(d, r, trigger) ==
  [d EXCEPT !.jobs = @ \cup {[rec |-> r, rev |-> d.record[r].rev, trigger |-> trigger]}]

-----------------------------------------------------------------------------
(* The effect point, entered under a requester's key *)

\* A termination that expects no state revision is not a valid request.
Invalid(c) == c.ask = "cancel" /\ c.at = 0

UserFacts(d, k, c, eligible) ==
  LET widens == c.ask \in Widenings
      target == IF widens THEN NoRecord ELSE d.record[c.on]
  IN [FreshFacts EXCEPT
        !.key = CASE d.bound[k] = NoBinding -> "free" [] d.bound[k].of = c -> "same" [] OTHER -> "other",
        !.kind = CASE widens -> "widen" [] c.ask = "cancel" -> "terminate" [] OTHER -> "tighten",
        !.fromState = widens \/ target.state \in (IF c.ask = "cancel" THEN Pending ELSE Effective),
        !.fromRevision = c.at \in {0, target.rev},
        !.eligible = eligible,
        !.needsConfirmation = c.ask = "unit",
        !.future = c.ask = "later"]

\* What a replay does not decide again: core.ReplayFacts.
ReplayFacts(f) == [f EXCEPT !.eligible = "proven", !.needsConfirmation = FALSE, !.fromRevision = TRUE]

\* The table's verdict, or the answer given before it: an invalid request's (row 0).
Verdict(f, invalid) ==
  LET n == Row(f) IN IF f.key = "free" /\ invalid THEN [row |-> 0, outcome |-> "rejected"] ELSE [row |-> n, outcome |-> RowOutcome[n]]

\* A mutant of Binds: what is saved is not answered for yet.
BindsFinal(v) == v.outcome \in {"applied", "rejected"} /\ v.row # 2

\* The key table: a conflict leaves the key as it is, what waits unsaved binds nothing.
Binds(v) == v.outcome \in {"applied", "rejected"} \cup Saved /\ v.row # 2

Bind(d, k, c, outcome, rec) ==
  [d EXCEPT !.bound[k] = [of |-> c, outcome |-> outcome, rec |-> rec]]

Inserted(d, id, ask, state) == [d EXCEPT !.record[id] = [ask |-> ask, state |-> state, rev |-> 1, width |-> 2]]

\* enact, for a new widening of identity id
Widened(d, k, c, v, id) ==
  CASE v.outcome = "applied" -> Enacted(Inserted(d, id, c.ask, "active"), k)
    [] v.outcome = "scheduled" -> Registered(Inserted(d, id, c.ask, "scheduled"), id, "scheduled")
    [] v.outcome = "awaiting_saved" -> Inserted(d, id, c.ask, "awaiting_confirmation")
    [] v.outcome = "rejected" /\ v.row # 2 -> Inserted(d, id, c.ask, "ended/rejected")
    [] OTHER -> d

\* enact, for a tightening of its target; a narrowing has new content
Tightened(d, k, c) ==
  CASE c.ask = "narrow" -> Enacted([Moved(d, c.on, d.record[c.on].state) EXCEPT !.record[c.on].width = 1], k)
    [] c.ask = "revoke" -> Enacted(Moved(d, c.on, "ended/revoked"), k)
    [] OTHER -> Enacted(Moved(d, c.on, "ended/cancelled"), k)

\* Effect: the database after k asks for c and v is the verdict; a new record would be id.
Effect(d, k, c, v, id) ==
  LET widens == c.ask \in Widenings
      changed == IF widens THEN Widened(d, k, c, v, id) ELSE IF v.outcome = "applied" THEN Tightened(d, k, c) ELSE d
      rec == IF widens THEN id ELSE IF v.outcome = "applied" THEN c.on ELSE None
  IN IF Binds(v) THEN Bind(changed, k, c, v.outcome, rec) ELSE changed

\* evidence that goes with a change, in its transaction: queued, and in the history
Evident(d, e) == [d EXCEPT !.outbox = Append(@, e), !.history = @ \cup {e.id}]
WideningOf(r, k, c, candidate) ==
  [id |-> r, key |-> k, of |-> c, phase |-> "general", rec |-> r, candidate |-> candidate]

\* Ask for a widening: one transaction, the evidence of what took effect in it.  (What it does not change is no step.)
Submit(k, c, eligible) ==
  LET v == Verdict(UserFacts(db, k, c, eligible), FALSE)
      id == NewId(k)
      d == Effect(db, k, c, v, id)
  IN /\ phase = "serving" /\ [key |-> k, of |-> c] \in Asked /\ c.ask \in Widenings
     /\ CanIssue(k) /\ Issue(k) /\ d # db
     /\ db' = IF v.outcome = "applied" THEN Evident(d, WideningOf(id, k, c, TRUE)) ELSE d
     /\ UNCHANGED <<backup, intents, store, calls, phase, cursor, failed, before, took>>

\* Ask for a tightening: its intent goes to the evidence first.
Begin(k, c) ==
  LET call == [id |-> NewId(k), key |-> k, of |-> c]
  IN /\ phase = "serving" /\ [key |-> k, of |-> c] \in Asked /\ c.ask \in Tightenings
     /\ CanIssue(k) /\ Issue(k)
     /\ intents' = intents \cup {call}
     /\ calls' = calls \cup {[call |-> call, open |-> TRUE]}
     /\ UNCHANGED <<db, backup, store, phase, cursor, failed, before, took>>

\* A mutant of Concluded: a bound result answered again concludes too.
ConcludedAgain(v) == v.outcome = "applied" \/ v.row = 1

\* The effective conclusion goes with the transaction when the change applied now (row 1 answers what was bound: returned).
Concluded(v) == v.outcome = "applied"

\* Its transaction.  A commit whose outcome is not told, or not told in time, is one followed by a crash.
Commit(a, eligible) ==
  LET k == a.call.key
      c == a.call.of
      v == Verdict(UserFacts(db, k, c, eligible), Invalid(c))
      d == Effect(db, k, c, v, None)
      now == Concluded(v)
      effective == [id |-> a.call.id, key |-> k, of |-> c, phase |-> "effective", rec |-> c.on, candidate |-> c.ask = "narrow"]
  IN /\ a \in calls /\ a.open
     /\ db' = IF now THEN Evident(d, effective) ELSE d
     /\ took' = IF v.outcome = "applied" THEN took \cup {a.call.id} ELSE took
     /\ calls' = IF now THEN calls \ {a} ELSE (calls \ {a}) \cup {[a EXCEPT !.open = FALSE]}
     /\ UNCHANGED <<backup, intents, store, issued, phase, cursor, failed, before>>

\* The transaction failed before its commit: nothing applied.
Fail(a) ==
  /\ a \in calls /\ a.open
  /\ calls' = (calls \ {a}) \cup {[a EXCEPT !.open = FALSE]}
  /\ UNCHANGED <<db, backup, intents, store, issued, phase, cursor, failed, before, took>>

\* What did not apply is concluded cancelled, in a transaction of its own.
Cancel(a) ==
  LET e == [id |-> a.call.id, key |-> a.call.key, of |-> a.call.of, phase |-> "cancelled", rec |-> a.call.of.on, candidate |-> FALSE]
  IN /\ a \in calls /\ ~a.open
     /\ db' = [db EXCEPT !.outbox = Append(@, e)]
     /\ calls' = calls \ {a}
     /\ UNCHANGED <<backup, intents, store, issued, phase, cursor, failed, before, took>>

\* The member stops and starts: what was on its way is forgotten.
Crash ==
  /\ calls # {}
  /\ calls' = {}
  /\ UNCHANGED <<db, backup, intents, store, issued, phase, cursor, failed, before, took>>

-----------------------------------------------------------------------------
(* The member's own entries: a saved record's job, under a key derived from the record, its state revision, the trigger *)

From(trigger) ==
  CASE trigger = "scheduled" -> {"scheduled"}
    [] trigger = "confirmed" -> {"awaiting_confirmation"}
    [] OTHER -> {"held/uncomputable"}

\* A firing bound already is answered by its binding.  met: the confirmations are valid, the sources can be computed; later:
\* its time is ahead (early by the database's clock, or a cooling-off)
JobFacts(d, j, eligible, met, later) ==
  LET r == d.record[j.rec]
      restores == j.trigger = "restore"
  IN [FreshFacts EXCEPT
        !.key = IF \E b \in d.own : b.firing = j THEN "same" ELSE "free",
        !.kind = IF restores THEN "restore_uncomputable" ELSE "widen",
        !.trigger = "job",
        !.fromState = r.state \in From(j.trigger),
        !.fromRevision = r.rev = j.rev,
        !.eligible = IF restores THEN "proven" ELSE eligible,
        !.needsConfirmation = r.ask = "unit",
        !.confirmation = IF restores \/ r.ask # "unit" THEN "none" ELSE IF met THEN "valid" ELSE "invalid",
        !.restoredEmpty = restores /\ ~met,
        !.future = ~restores /\ later]

\* The jobs that do not come to nothing whatever else is found: answered by their binding (row 1), or of a revision gone by (row 3).
LiveJobs == {j \in db.jobs : Row(JobFacts(db, j, "proven", TRUE, FALSE)) \notin {1, 3}}

\* A mutant of OwnBinds: a derived key binds what a requester's does.
OwnBindsAsUser(v) == Binds(v)

OwnBinds(v) == v.outcome \in {"applied", "rejected"}

\* enact, for the record j was registered for
Fired(d, j, v) ==
  LET k == j.rec[1]
      r == j.rec
  IN CASE v.outcome = "applied" /\ j.trigger = "restore" -> Moved(d, r, "active")
       [] v.outcome = "applied" /\ j.trigger # "restore" -> Enacted(Moved(d, r, "active"), k)
       [] v.outcome = "rejected" -> Moved(d, r, "ended/rejected")
       [] v.outcome = "scheduled" /\ j.trigger = "confirmed" -> Registered(Moved(d, r, "scheduled"), r, "scheduled")
       [] v.outcome = "awaiting_saved" -> Moved(d, r, "awaiting_confirmation")
       [] OTHER -> d

\* What the job's request says of it: a direction, and no candidate.
Due(j, eligible, met, later) ==
  LET f == JobFacts(db, j, eligible, met, later)
      v == Verdict(f, FALSE)
      d == Fired(db, j, v)
      own == IF OwnBinds(v) THEN [d EXCEPT !.own = @ \cup {[firing |-> j, outcome |-> v.outcome]}] ELSE d
      c == [ask |-> db.record[j.rec].ask, on |-> None, at |-> 0]
  IN /\ phase = "serving" /\ j \in db.jobs
     /\ db' = IF v.outcome = "applied" /\ f.kind = "widen" THEN Evident(own, WideningOf(j.rec, j.rec[1], c, FALSE)) ELSE own
     /\ db' # db
     /\ UNCHANGED <<backup, intents, store, issued, calls, phase, cursor, failed, before, took>>

\* A confirmation of a saved record registers its job.
Confirm(r) ==
  /\ phase = "serving" /\ db.record[r].state = "awaiting_confirmation" /\ db.record[r].rev <= MaxRevision
  /\ db' = Registered(db, r, "confirmed")
  /\ db' # db
  /\ UNCHANGED <<backup, intents, store, issued, calls, phase, cursor, failed, before, took>>

\* The closure job holds a record whose sources cannot be computed, and registers its restore when they can again.
Hold(r) ==
  /\ phase = "serving" /\ db.record[r].state = "active" /\ db.record[r].rev <= MaxRevision
  /\ db' = Registered(Moved(db, r, "held/uncomputable"), r, "restore")
  /\ UNCHANGED <<backup, intents, store, issued, calls, phase, cursor, failed, before, took>>

\* The outbox delivers a conclusion.  (Bound: not after the disaster, when nothing reads the store again.)
Deliver ==
  /\ phase = "serving" /\ before = None /\ db.outbox # <<>>
  /\ store' = Append(store, Head(db.outbox))
  /\ db' = [db EXCEPT !.outbox = Tail(@)]
  /\ UNCHANGED <<backup, intents, issued, calls, phase, cursor, failed, before, took>>

-----------------------------------------------------------------------------
(* Backup, disaster, full recovery *)

Backup ==
  /\ phase = "serving" /\ before = None /\ backup # db
  /\ backup' = db
  /\ UNCHANGED <<db, intents, store, issued, calls, phase, cursor, failed, before, took>>

\* The database is lost and put back as the backup has it; the recovery tool begins.  Once.
Disaster ==
  /\ phase = "serving" /\ before = None
  /\ before' = db.record /\ db' = backup
  /\ calls' = {}
  /\ phase' = "replaying" /\ cursor' = 1
  /\ UNCHANGED <<backup, intents, store, issued, failed, took>>

\* The request as the evidence recorded it: without the revisions it expected.
Recalled(c) == [c EXCEPT !.at = 0]

\* A mutant of CameTo: a rejection is an answer too.
CameToAnswer(v, over) == v.outcome \in {"applied", "rejected"} \/ v.row = 1

\* Applied now, or bound already, or a target that ended since: nothing left to tighten.
CameTo(v, over) == v.outcome = "applied" \/ v.row = 1 \/ (v.outcome = "rejected" /\ over)

\* A mutant of NameOf: a replayed record gets a new identity.
NameAfresh(e) == <<e.key, (issued[e.key] % MaxIssued) + 1>>

\* A new record keeps the identity the evidence names.
NameOf(e) == e.rec

\* Replay, of a tightening or of a widening : what the database comes to, and whether it came to something.
Replay(d, e) ==
  LET c == Recalled(e.of)
      v == Verdict(ReplayFacts(UserFacts(d, e.key, c, "proven")), Invalid(c))
      after == [Effect(d, e.key, c, v, NameOf(e)) EXCEPT !.history = @ \cup {e.id}]
      widens == c.ask \in Widenings
      gone == ~widens /\ d.record[c.on].state = "none"
      over == ~widens /\ d.record[c.on].state \in EndedStates
  IN IF (widens /\ ~e.candidate) \/ gone \/ ~CameTo(v, over) THEN [db |-> d, done |-> FALSE] ELSE [db |-> after, done |-> TRUE]

Replayed(e) ==
  IF e.id \in db.history THEN UNCHANGED <<db, failed>>
  ELSE LET outcome == Replay(db, e)
       IN db' = outcome.db /\ failed' = IF outcome.done THEN failed ELSE failed \cup {e.id}

\* 6.3: the conclusions, in the order of their commits.
ReplayNext ==
  /\ phase = "replaying" /\ cursor <= Len(store)
  /\ IF store[cursor].phase = "cancelled" THEN UNCHANGED <<db, failed>> ELSE Replayed(store[cursor])
  /\ cursor' = cursor + 1
  /\ UNCHANGED <<backup, intents, store, issued, calls, phase, before, took>>

ReplayOver ==
  /\ phase = "replaying" /\ cursor > Len(store)
  /\ phase' = "deferred"
  /\ UNCHANGED <<db, backup, intents, store, issued, calls, cursor, failed, before, took>>

IntentOnly == {i \in intents : \A n \in 1..Len(store) : store[n].id # i.id}

\* 6.5: an intent without a conclusion is executed on the final state, unless it would leave no authorization admin.
ReplayDeferred(i, leavesNone) ==
  /\ phase = "deferred" /\ i \in IntentOnly /\ i.id \notin db.history \cup failed
  /\ IF leavesNone
     THEN failed' = failed \cup {i.id} /\ UNCHANGED db
     ELSE Replayed([id |-> i.id, key |-> i.key, of |-> i.of, rec |-> i.of.on, candidate |-> i.of.ask = "narrow"])
  /\ UNCHANGED <<backup, intents, store, issued, calls, phase, cursor, before, took>>

\* The recovery is over: users and jobs again.
Resume ==
  /\ phase = "deferred" /\ \A i \in IntentOnly : i.id \in db.history \cup failed
  /\ phase' = "serving"
  /\ UNCHANGED <<db, backup, intents, store, issued, calls, cursor, failed, before, took>>

-----------------------------------------------------------------------------

Next ==
  \/ \E x \in Asked, eligible \in Provable : Submit(x.key, x.of, eligible)
  \/ \E x \in Asked : Begin(x.key, x.of)
  \/ \E a \in calls, eligible \in Provable : Commit(a, eligible)
  \/ \E a \in calls : Fail(a) \/ Cancel(a)
  \/ Crash
  \/ \E j \in LiveJobs, eligible \in Provable, met, later \in BOOLEAN : Due(j, eligible, met, later)
  \/ \E r \in Ids : Confirm(r) \/ Hold(r)
  \/ Deliver
  \/ Backup
  \/ Disaster
  \/ ReplayNext
  \/ ReplayOver
  \/ \E i \in intents, leavesNone \in BOOLEAN : ReplayDeferred(i, leavesNone)
  \/ Resume

Spec == Init /\ [][Next]_vars

-----------------------------------------------------------------------------
(* Properties *)

TypeOK ==
  /\ db \in Databases /\ backup \in Databases
  /\ intents \subseteq Intents /\ store \in Seq(Conclusions)
  /\ issued \in [Keys -> 0..MaxIssued]
  /\ calls \subseteq [call: Intents, open: BOOLEAN]
  /\ phase \in {"serving", "replaying", "deferred"} /\ cursor \in Nat
  /\ failed \subseteq Ids /\ before \in [Ids -> RecordRows \cup {NoRecord}] \cup {None} /\ took \subseteq Ids

\* A mutant of Answer: a saved record's state answers for it.
AnswerAsRecord(d, k) ==
  LET b == d.bound[k]
      state == d.record[b.rec].state
  IN IF b.outcome \notin Saved THEN b.outcome
     ELSE IF state \in EndedStates THEN "rejected"
     ELSE IF state \in Pending THEN "waiting" ELSE "applied"

\* current: what k's bound result answers now (none for a key not bound).
Answer(d, k) ==
  LET b == d.bound[k]
      own == {o \in d.own : o.firing.rec = b.rec}
  IN IF b.outcome \notin Saved THEN b.outcome
     ELSE IF own # {} THEN (IF \E o \in own : o.outcome = "rejected" THEN "rejected" ELSE "applied")
     ELSE IF d.record[b.rec].state \in EndedStates THEN "rejected" ELSE "waiting"

KeysOf(d) == [k \in Keys |-> [answer |-> Answer(d, k), done |-> d.enacted[k] > 0]]

\* What the requester is promised (ChangeKeys), whatever the retries, crashes, jobs and replays.
Promise == INSTANCE ChangeKeys WITH now <- KeysOf(db), kept <- KeysOf(backup)
KeysPromise == Promise!Spec

\* A key's change takes place once, in the database as it is: retries after a lost answer, duplicate jobs and the replay included
\* (change.go's key table, replay.go's rebinding).
AtMostOnce == \A k \in Keys : db.enacted[k] <= 1

\* A derived key is never met twice (scheduled.go, firing.key): once it is bound, its record has moved on from the revision it
\* names, so the record coming back to that state fires under a new key and is not answered by the old one.
BoundJobsMovedOn == \A o \in db.own : db.record[o.firing.rec].rev > o.firing.rev

\* An intent is concluded truly (changeAs): cancelled only when its tightening did not commit, whatever failed or was asked
\* again in between, and once.
HonestConclusions ==
  LET told == {db.outbox[n] : n \in 1..Len(db.outbox)} \cup {store[n] : n \in 1..Len(store)}
  IN \A e \in told :
       /\ e.phase = "cancelled" => e.id \notin took
       /\ e.phase = "effective" => e.id \in took
       /\ \A other \in told : other.id = e.id => other.phase = e.phase

Recovered == phase = "serving" /\ before # None

\* Evidence the recovery tool was left with: of record r, the replay came to nothing.
ForReview(r) ==
  \/ \E n \in 1..Len(store) : store[n].rec = r /\ store[n].id \in failed
  \/ \E i \in intents : i.of.on = r /\ i.id \in failed

\* No tightening is lost with the database (the intent before the effect, and the replay in commit order): once a recovery is
\* over, a record revoked, cancelled or narrowed before the disaster is so again, or evidence about it is for review.
TighteningsSurvive ==
  Recovered => \A r \in Ids :
    \/ /\ before[r].state \in {"ended/revoked", "ended/cancelled"} => db.record[r].state \in {"none"} \cup EndedStates
       /\ before[r].width = 1 => db.record[r].width <= 1 \/ db.record[r].state \in EndedStates
    \/ ForReview(r)

\* What the evidence told of a widening comes back under the name later evidence calls it by (insert with a replay), or is for
\* review: never silently missing.
KnownByName ==
  Recovered => \A n \in 1..Len(store) :
    store[n].phase = "general" => db.record[store[n].rec].state # "none" \/ store[n].id \in failed

\* replay.go:20: a tightening the restored database does not reflect goes through the effect point again; a record ended before
\* the disaster, whose evidence arrived, is ended after it.
EndingsAreReplayed ==
  Recovered => \A n \in 1..Len(store) :
    store[n].phase = "effective" /\ store[n].of.ask \in {"revoke", "cancel"} => db.record[store[n].rec].state \in {"none"} \cup EndedStates
=============================================================================
