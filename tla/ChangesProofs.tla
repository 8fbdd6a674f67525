---------------------------- MODULE ChangesProofs ----------------------------
(***************************************************************************)
(* Theorems about change keys, for any keys, requests and bounds: the types, *)
(* that a change takes place once, that no derived key is met twice, that    *)
(* evidence concludes truly, and that Changes implements ChangeKeys.         *)
(*                                                                          *)
(* They rest on one invariant, IInv: keys, records and derived keys of a     *)
(* database are linked (Linked), in the database and in its backup, and the  *)
(* evidence is told of the identities it was issued for (Apart, OnTheWay,    *)
(* ToldTruly).  A restore is a step of it only because the backup is linked  *)
(* too; a key's answer is settled only with its record because each names    *)
(* the other.                                                               *)
(***************************************************************************)
EXTENDS Changes, DecideProofs

\* The member's derived keys bound for record r.
OwnOf(d, r) == {o \in d.own : o.firing.rec = r}

\* A record is the one its key's binding names, and while it is saved so is the binding.
RecordsBound(d) ==
  \A r \in Ids : d.record[r].state # "none" =>
    /\ d.bound[r[1]] # NoBinding /\ d.bound[r[1]].rec = r
    /\ d.record[r].state \in Pending => d.bound[r[1]].outcome \in Saved

\* What a derived key is bound for has happened to its record, whose revision has moved on.
OwnHappened(d) ==
  \A o \in d.own :
    LET r == d.record[o.firing.rec]
    IN /\ r.rev > o.firing.rev
       /\ r.state \in (IF o.outcome = "rejected" THEN EndedStates ELSE Effective \cup EndedStates)

\* What is bound as saved names the key's own record: waiting, or ended, or brought into effect by a job.
SavedKept(d) ==
  \A k \in Keys : d.bound[k].outcome \in Saved =>
    LET r == d.bound[k].rec
    IN /\ r \in Ids /\ r[1] = k /\ d.record[r].state # "none"
       /\ OwnOf(d, r) = {} => d.record[r].state \in Pending \cup EndedStates

\* How often a key's change took place follows from its answer.
Counted(d) == \A k \in Keys : d.enacted[k] = IF Answer(d, k) = "applied" THEN 1 ELSE 0

Linked(d) == RecordsBound(d) /\ OwnHappened(d) /\ SavedKept(d) /\ Counted(d)

\* Evidence told or on its way.
Elements(s) == {s[n] : n \in 1..Len(s)}
Told == Elements(db.outbox) \cup Elements(backup.outbox) \cup Elements(store)

Used(i) == i[2] <= issued[i[1]]
IntentIds == {i.id : i \in intents}

\* A widening's evidence, and every record, has an identity no intent has.
Apart ==
  /\ took \subseteq IntentIds /\ \A i \in IntentIds : Used(i)
  /\ \A r \in Ids : db.record[r].state # "none" \/ backup.record[r].state # "none" => Used(r) /\ r \notin IntentIds
  /\ \A e \in Told : IF e.phase = "general" THEN Used(e.id) /\ e.id \notin IntentIds ELSE e.id \in IntentIds

\* What is still on its way has not committed, and nothing has been told of it.
OnTheWay ==
  /\ \A a \in calls : a.call.id \in IntentIds /\ a.call.id \notin took /\ \A e \in Told : e.id # a.call.id
  /\ \A a, b \in calls : a.call.id = b.call.id => a = b

ToldTruly == \A e \in Told : e.phase # "general" => (e.phase = "effective" <=> e.id \in took)

\* The replay has begun at the first conclusion.
Begun == phase = "replaying" => cursor # 0

IInv == TypeOK /\ Linked(db) /\ Linked(backup) /\ Apart /\ OnTheWay /\ ToldTruly /\ Begun

\* From one answer to the next: the same, or a settled one from an open one.
Follows(a, b) ==
  \/ a = b
  \/ a \in {"none", "waiting"} /\ b # "none" /\ (b = "waiting" => a = "none")

\* From a database to the next: linked, each answer following from the last.
Steps(d, m) == m \in Databases /\ Linked(m) /\ \A q \in Keys : Follows(Answer(d, q), Answer(m, q))

\* A step of the keys: of the database, a backup, a restore.
KeysStep ==
  \/ Steps(db, db') /\ backup' = backup
  \/ backup' = db /\ db' = db
  \/ db' = backup /\ backup' = backup

(* Only a free key is bound. *)
LEMMA BindsFree ==
  ASSUME NEW f, NEW invalid, Binds(Verdict(f, invalid))
  PROVE  f.key # "same" /\ f.key # "other"
<1> DEFINE n == Row(f)
<1>1. ASSUME f.key = "same" \/ f.key = "other" PROVE FALSE
  <2>1. Verdict(f, invalid) = [row |-> n, outcome |-> RowOutcome[n]]
    BY <1>1 DEF Verdict
  <2>2. n \in 1..31 /\ RowConditions(f)[n] /\ \A m \in 1..31 : m < n => ~RowConditions(f)[m]
    BY RowIsFirst
  <2>3. n # 1 /\ n # 2
    BY <2>1 DEF Binds, RowOutcome, Saved
  <2>4. ~RowConditions(f)[1] /\ ~RowConditions(f)[2]
    <3> HIDE DEF n
    <3>1. QED BY <2>2, <2>3
  <2>5. QED BY <2>4, <1>1 DEF RowConditions
<1>2. QED BY <1>1

(* What is applied at a requester's key has its record in the state it needs. *)
LEMMA AppliedByUser ==
  ASSUME NEW f, NEW invalid, f.trigger = "user", Verdict(f, invalid).outcome = "applied"
  PROVE  f.fromState /\ f.key # "same" /\ f.key # "other"
<1>1. Binds(Verdict(f, invalid))
  <2>1. Verdict(f, invalid).row # 2
    BY DEF Verdict, RowOutcome
  <2>2. QED BY <2>1 DEF Binds
<1>2. f.key # "same" /\ f.key # "other"
  BY <1>1, BindsFree
<1>3. Outcome(f) = "applied"
  BY DEF Verdict, Outcome
<1>4. Row(f) \in {5, 7, 31}
  BY <1>3, AppliedRows
<1>5. ~RowConditions(f)[4]
  <2>1. \A m \in 1..31 : m < Row(f) => ~RowConditions(f)[m]
    BY RowIsFirst
  <2> HIDE DEF Row
  <2>2. QED BY <2>1, <1>4
<1>6. QED BY <1>2, <1>5 DEF RowConditions

(* What is saved is a widening. *)
LEMMA SavedWidens ==
  ASSUME NEW f, NEW invalid, Verdict(f, invalid).outcome \in Saved
  PROVE  f.kind = "widen"
<1>1. Row(f) \in 1..31 /\ RowConditions(f)[Row(f)]
  BY RowIsFirst
<1>2. RowOutcome[Row(f)] \in Saved
  BY DEF Verdict, Saved
<1>3. Row(f) \in {20, 23, 29}
  BY <1>1, <1>2 DEF RowOutcome, Saved
<1>4. RowConditions(f)[20] \/ RowConditions(f)[23] \/ RowConditions(f)[29]
  BY <1>1, <1>3
<1>5. QED BY <1>4 DEF RowConditions

(* What a job changes has its record as the job was registered for. *)
LEMMA ChangedByJob ==
  ASSUME NEW f, f.trigger = "job", f.key # "other",
         Verdict(f, FALSE).outcome \in {"applied", "rejected"} \cup Saved
  PROVE  f.fromState /\ f.fromRevision /\ f.key # "same"
<1>1. Row(f) \in 1..31 /\ RowConditions(f)[Row(f)]
  BY RowIsFirst
<1>2. RowOutcome[Row(f)] \in {"applied", "rejected"} \cup Saved
  BY DEF Verdict
<1>3. Row(f) # 1 /\ Row(f) # 3
  BY <1>2 DEF RowOutcome, Saved
<1>4. Row(f) # 2
  <2>1. ~RowConditions(f)[2]
    BY DEF RowConditions
  <2> QED BY <1>1, <2>1
<1>5. \A m \in 1..31 : m < Row(f) => ~RowConditions(f)[m]
  BY RowIsFirst
<1>6. ~RowConditions(f)[1] /\ ~RowConditions(f)[3]
  <2> HIDE DEF Row
  <2>1. QED BY <1>1, <1>3, <1>4, <1>5
<1>7. QED BY <1>6 DEF RowConditions

-----------------------------------------------------------------------------
(* What each part of a change writes of the database, and that it leaves one *)

(* A record of seven fields of which one is written. *)
LEMMA OneField ==
  ASSUME NEW R, NEW B, NEW O, NEW J, NEW H, NEW X, NEW N,
         NEW d \in [record: R, bound: B, own: O, jobs: J, history: H, outbox: X, enacted: N]
  PROVE  /\ \A x \in R :
              LET m == [d EXCEPT !.record = x]
              IN /\ m \in [record: R, bound: B, own: O, jobs: J, history: H, outbox: X, enacted: N] /\ m.record = x
                 /\ m.bound = d.bound /\ m.own = d.own /\ m.jobs = d.jobs /\ m.history = d.history /\ m.outbox = d.outbox /\ m.enacted = d.enacted
         /\ \A x \in B :
              LET m == [d EXCEPT !.bound = x]
              IN /\ m \in [record: R, bound: B, own: O, jobs: J, history: H, outbox: X, enacted: N] /\ m.bound = x
                 /\ m.record = d.record /\ m.own = d.own /\ m.jobs = d.jobs /\ m.history = d.history /\ m.outbox = d.outbox /\ m.enacted = d.enacted
         /\ \A x \in O :
              LET m == [d EXCEPT !.own = x]
              IN /\ m \in [record: R, bound: B, own: O, jobs: J, history: H, outbox: X, enacted: N] /\ m.own = x
                 /\ m.record = d.record /\ m.bound = d.bound /\ m.jobs = d.jobs /\ m.history = d.history /\ m.outbox = d.outbox /\ m.enacted = d.enacted
         /\ \A x \in J :
              LET m == [d EXCEPT !.jobs = x]
              IN /\ m \in [record: R, bound: B, own: O, jobs: J, history: H, outbox: X, enacted: N] /\ m.jobs = x
                 /\ m.record = d.record /\ m.bound = d.bound /\ m.own = d.own /\ m.history = d.history /\ m.outbox = d.outbox /\ m.enacted = d.enacted
         /\ \A x \in H :
              LET m == [d EXCEPT !.history = x]
              IN /\ m \in [record: R, bound: B, own: O, jobs: J, history: H, outbox: X, enacted: N] /\ m.history = x
                 /\ m.record = d.record /\ m.bound = d.bound /\ m.own = d.own /\ m.jobs = d.jobs /\ m.outbox = d.outbox /\ m.enacted = d.enacted
         /\ \A x \in X :
              LET m == [d EXCEPT !.outbox = x]
              IN /\ m \in [record: R, bound: B, own: O, jobs: J, history: H, outbox: X, enacted: N] /\ m.outbox = x
                 /\ m.record = d.record /\ m.bound = d.bound /\ m.own = d.own /\ m.jobs = d.jobs /\ m.history = d.history /\ m.enacted = d.enacted
         /\ \A x \in N :
              LET m == [d EXCEPT !.enacted = x]
              IN /\ m \in [record: R, bound: B, own: O, jobs: J, history: H, outbox: X, enacted: N] /\ m.enacted = x
                 /\ m.record = d.record /\ m.bound = d.bound /\ m.own = d.own /\ m.jobs = d.jobs /\ m.history = d.history /\ m.outbox = d.outbox
OBVIOUS

\* The tables of the database, by name.
Records == [Ids -> RecordRows \cup {NoRecord}]
KeyTable == [Keys -> Bindings \cup {NoBinding}]
OwnKeys == SUBSET [firing: Firings, outcome: {"applied", "rejected"}]
WorkItems == SUBSET Firings
Histories == SUBSET Ids
Queues == Seq(Conclusions)
Counts == [Keys -> 0..2]

(* A database one of whose tables is replaced by a table of the same kind is a database, the other tables as they were. *)
LEMMA DatabaseField ==
  ASSUME NEW d \in Databases
  PROVE  /\ \A x \in Records :
              LET m == [d EXCEPT !.record = x]
              IN /\ m \in Databases /\ m.record = x
                 /\ m.bound = d.bound /\ m.own = d.own /\ m.jobs = d.jobs /\ m.history = d.history /\ m.outbox = d.outbox /\ m.enacted = d.enacted
         /\ \A x \in KeyTable :
              LET m == [d EXCEPT !.bound = x]
              IN /\ m \in Databases /\ m.bound = x
                 /\ m.record = d.record /\ m.own = d.own /\ m.jobs = d.jobs /\ m.history = d.history /\ m.outbox = d.outbox /\ m.enacted = d.enacted
         /\ \A x \in OwnKeys :
              LET m == [d EXCEPT !.own = x]
              IN /\ m \in Databases /\ m.own = x
                 /\ m.record = d.record /\ m.bound = d.bound /\ m.jobs = d.jobs /\ m.history = d.history /\ m.outbox = d.outbox /\ m.enacted = d.enacted
         /\ \A x \in WorkItems :
              LET m == [d EXCEPT !.jobs = x]
              IN /\ m \in Databases /\ m.jobs = x
                 /\ m.record = d.record /\ m.bound = d.bound /\ m.own = d.own /\ m.history = d.history /\ m.outbox = d.outbox /\ m.enacted = d.enacted
         /\ \A x \in Histories :
              LET m == [d EXCEPT !.history = x]
              IN /\ m \in Databases /\ m.history = x
                 /\ m.record = d.record /\ m.bound = d.bound /\ m.own = d.own /\ m.jobs = d.jobs /\ m.outbox = d.outbox /\ m.enacted = d.enacted
         /\ \A x \in Queues :
              LET m == [d EXCEPT !.outbox = x]
              IN /\ m \in Databases /\ m.outbox = x
                 /\ m.record = d.record /\ m.bound = d.bound /\ m.own = d.own /\ m.jobs = d.jobs /\ m.history = d.history /\ m.enacted = d.enacted
         /\ \A x \in Counts :
              LET m == [d EXCEPT !.enacted = x]
              IN /\ m \in Databases /\ m.enacted = x
                 /\ m.record = d.record /\ m.bound = d.bound /\ m.own = d.own /\ m.jobs = d.jobs /\ m.history = d.history /\ m.outbox = d.outbox
<1>1. Databases = [record: Records, bound: KeyTable, own: OwnKeys, jobs: WorkItems, history: Histories, outbox: Queues, enacted: Counts]
  BY DEF Databases, Records, KeyTable, OwnKeys, WorkItems, Histories, Queues, Counts
<1>2. QED BY <1>1, OneField

(* A database's tables are of their kinds. *)
LEMMA DatabaseType ==
  ASSUME NEW d \in Databases
  PROVE  d.record \in Records /\ d.bound \in KeyTable /\ d.own \in OwnKeys /\ d.jobs \in WorkItems /\ d.history \in Histories /\ d.outbox \in Queues /\ d.enacted \in Counts
BY DEF Databases, Records, KeyTable, OwnKeys, WorkItems, Histories, Queues, Counts

(* Transition writes its record's state and revision, nothing else. *)
LEMMA MovedWrites ==
  ASSUME NEW d \in Databases, NEW r \in Ids, d.record[r].state # "none", NEW to \in States \ {"none"}
  PROVE  LET m == Moved(d, r, to)
         IN /\ m \in Databases
            /\ m.record = [d.record EXCEPT ![r] = [d.record[r] EXCEPT !.state = to, !.rev = d.record[r].rev + 1]]
            /\ m.bound = d.bound /\ m.own = d.own /\ m.jobs = d.jobs /\ m.history = d.history
            /\ m.outbox = d.outbox /\ m.enacted = d.enacted
<1> DEFINE row == [d.record[r] EXCEPT !.state = to, !.rev = d.record[r].rev + 1]
           records == [d.record EXCEPT ![r] = row]
<1>1. d.record \in Records
  BY DatabaseType
<1>2. d.record[r] \in RecordRows
  BY <1>1 DEF Records, NoRecord
<1>3. row \in RecordRows
  <2> DEFINE old == d.record[r]
             next == old.rev + 1
             there == [old EXCEPT !.state = to]
  <2>1. old.rev \in Nat
    BY <1>2 DEF RecordRows
  <2>2. next \in Nat
    BY <2>1
  <2> HIDE DEF next
  <2>3. there \in RecordRows
    BY <1>2 DEF RecordRows
  <2>4. row = [there EXCEPT !.rev = next]
    BY <1>2 DEF next, RecordRows
  <2> HIDE DEF there
  <2>5. [there EXCEPT !.rev = next] \in RecordRows
    BY <2>2, <2>3 DEF RecordRows
  <2> QED BY <2>4, <2>5
<1>4. records \in Records
  <2> HIDE DEF row
  <2> QED BY <1>1, <1>3 DEF Records
<1>5. Moved(d, r, to) = [d EXCEPT !.record = records]
  BY <1>1, <1>2 DEF Moved, RecordRows, Databases
<1>6. QED
  <2> HIDE DEF records
  <2>1. LET m == [d EXCEPT !.record = records]
        IN /\ m \in Databases /\ m.record = records
           /\ m.bound = d.bound /\ m.own = d.own /\ m.jobs = d.jobs /\ m.history = d.history
           /\ m.outbox = d.outbox /\ m.enacted = d.enacted
    BY <1>4, DatabaseField
  <2> QED BY <1>5, <2>1 DEF records

(* Inserting writes one record. *)
LEMMA InsertedWrites ==
  ASSUME NEW d \in Databases, NEW id \in Ids, NEW ask \in Widenings, NEW state \in States \ {"none"}
  PROVE  LET m == Inserted(d, id, ask, state)
         IN /\ m \in Databases
            /\ m.record = [d.record EXCEPT ![id] = [ask |-> ask, state |-> state, rev |-> 1, width |-> 2]]
            /\ m.bound = d.bound /\ m.own = d.own /\ m.jobs = d.jobs /\ m.history = d.history
            /\ m.outbox = d.outbox /\ m.enacted = d.enacted
<1> DEFINE row == [ask |-> ask, state |-> state, rev |-> 1, width |-> 2]
           records == [d.record EXCEPT ![id] = row]
<1>1. row \in RecordRows
  BY DEF RecordRows
<1>2. records \in Records
  <2> HIDE DEF row
  <2> QED BY <1>1, DatabaseType DEF Records
<1>3. Inserted(d, id, ask, state) = [d EXCEPT !.record = records]
  BY DEF Inserted
<1>4. QED
  <2> HIDE DEF records
  <2>1. LET m == [d EXCEPT !.record = records]
        IN /\ m \in Databases /\ m.record = records
           /\ m.bound = d.bound /\ m.own = d.own /\ m.jobs = d.jobs /\ m.history = d.history
           /\ m.outbox = d.outbox /\ m.enacted = d.enacted
    BY <1>2, DatabaseField
  <2> QED BY <1>3, <2>1 DEF records

(* Counting a change writes its key's count. *)
LEMMA EnactedWrites ==
  ASSUME NEW d \in Databases, NEW k \in Keys
  PROVE  LET m == Enacted(d, k)
         IN /\ m \in Databases
            /\ m.enacted = [d.enacted EXCEPT ![k] = IF d.enacted[k] < 2 THEN d.enacted[k] + 1 ELSE d.enacted[k]]
            /\ m.record = d.record /\ m.bound = d.bound /\ m.own = d.own /\ m.jobs = d.jobs
            /\ m.history = d.history /\ m.outbox = d.outbox
<1> DEFINE counts == [d.enacted EXCEPT ![k] = IF d.enacted[k] < 2 THEN d.enacted[k] + 1 ELSE d.enacted[k]]
<1>1. counts \in Counts
  BY DatabaseType DEF Counts
<1>2. Enacted(d, k) = [d EXCEPT !.enacted = counts]
  BY DEF Enacted
<1>3. QED
  <2> HIDE DEF counts
  <2>1. LET m == [d EXCEPT !.enacted = counts]
        IN /\ m \in Databases /\ m.enacted = counts
           /\ m.record = d.record /\ m.bound = d.bound /\ m.own = d.own /\ m.jobs = d.jobs
           /\ m.history = d.history /\ m.outbox = d.outbox
    BY <1>1, DatabaseField
  <2> QED BY <1>2, <2>1 DEF counts

(* Registering a job writes none of what the keys are read from. *)
LEMMA RegisteredWrites ==
  ASSUME NEW d \in Databases, NEW r \in Ids, d.record[r].state # "none", NEW trigger \in Triggered
  PROVE  LET m == Registered(d, r, trigger)
         IN /\ m \in Databases
            /\ m.record = d.record /\ m.bound = d.bound /\ m.own = d.own /\ m.history = d.history
            /\ m.outbox = d.outbox /\ m.enacted = d.enacted
<1> DEFINE j == [rec |-> r, rev |-> d.record[r].rev, trigger |-> trigger]
           items == d.jobs \cup {j}
<1>1. d.record[r].rev \in Nat
  BY DatabaseType DEF Records, RecordRows, NoRecord
<1>2. items \in WorkItems
  BY <1>1, DatabaseType DEF WorkItems, Firings
<1>3. Registered(d, r, trigger) = [d EXCEPT !.jobs = items]
  BY DEF Registered
<1>4. QED
  <2> HIDE DEF items
  <2>1. LET m == [d EXCEPT !.jobs = items]
        IN /\ m \in Databases
           /\ m.record = d.record /\ m.bound = d.bound /\ m.own = d.own /\ m.history = d.history
           /\ m.outbox = d.outbox /\ m.enacted = d.enacted
    BY <1>2, DatabaseField
  <2> QED BY <1>3, <2>1

(* Binding writes one key's binding. *)
LEMMA BindWrites ==
  ASSUME NEW d \in Databases, NEW k \in Keys, NEW c \in Contents,
         NEW outcome \in {"applied", "rejected"} \cup Saved, NEW rec \in Ids \cup {None}
  PROVE  LET m == Bind(d, k, c, outcome, rec)
         IN /\ m \in Databases
            /\ m.bound = [d.bound EXCEPT ![k] = [of |-> c, outcome |-> outcome, rec |-> rec]]
            /\ m.record = d.record /\ m.own = d.own /\ m.jobs = d.jobs /\ m.history = d.history
            /\ m.outbox = d.outbox /\ m.enacted = d.enacted
<1> DEFINE b == [of |-> c, outcome |-> outcome, rec |-> rec]
           table == [d.bound EXCEPT ![k] = b]
<1>1. b \in Bindings
  BY DEF Bindings
<1>2. table \in KeyTable
  <2> HIDE DEF b
  <2> QED BY <1>1, DatabaseType DEF KeyTable
<1>3. Bind(d, k, c, outcome, rec) = [d EXCEPT !.bound = table]
  BY DEF Bind
<1>4. QED
  <2> HIDE DEF table
  <2>1. LET m == [d EXCEPT !.bound = table]
        IN /\ m \in Databases /\ m.bound = table
           /\ m.record = d.record /\ m.own = d.own /\ m.jobs = d.jobs /\ m.history = d.history
           /\ m.outbox = d.outbox /\ m.enacted = d.enacted
    BY <1>2, DatabaseField
  <2> QED BY <1>3, <2>1 DEF table

(* A change's evidence is queued, and writes none of what the keys are read from. *)
LEMMA EvidentWrites ==
  ASSUME NEW d \in Databases, NEW e \in Conclusions
  PROVE  LET m == Evident(d, e)
         IN /\ m \in Databases
            /\ m.outbox = Append(d.outbox, e) /\ m.history = d.history \cup {e.id}
            /\ m.record = d.record /\ m.bound = d.bound /\ m.own = d.own /\ m.jobs = d.jobs
            /\ m.enacted = d.enacted
<1> DEFINE queue == Append(d.outbox, e)
           past == d.history \cup {e.id}
           queued == [d EXCEPT !.outbox = queue]
<1>1. e.id \in Ids
  BY DEF Conclusions
<1>2. queue \in Queues /\ past \in Histories
  BY <1>1, DatabaseType DEF Queues, Histories
<1>3. Evident(d, e) = [queued EXCEPT !.history = past]
  BY DEF Evident, Databases
<1>4. QED
  <2> HIDE DEF queue, past
  <2>1. /\ queued \in Databases /\ queued.outbox = queue
        /\ queued.record = d.record /\ queued.bound = d.bound /\ queued.own = d.own /\ queued.jobs = d.jobs
        /\ queued.enacted = d.enacted
    BY <1>2, DatabaseField
  <2> HIDE DEF queued
  <2>2. LET m == [queued EXCEPT !.history = past]
        IN /\ m \in Databases /\ m.outbox = queued.outbox /\ m.history = past
           /\ m.record = queued.record /\ m.bound = queued.bound /\ m.own = queued.own /\ m.jobs = queued.jobs
           /\ m.enacted = queued.enacted
    BY <1>2, <2>1, DatabaseField
  <2> QED BY <1>3, <2>1, <2>2 DEF queue, past

-----------------------------------------------------------------------------
(* The keys, the records and the derived keys stay linked; answers move as ChangeKeys has them move *)

(* Answers that follow from each other follow on. *)
LEMMA FollowsOn ==
  ASSUME NEW a, NEW b, NEW c, Follows(a, b), Follows(b, c)
  PROVE  Follows(a, c)
BY DEF Follows

(* The outcomes and the states a change tells apart are different ones. *)
LEMMA StatesApart ==
  /\ Pending \cap Effective = {} /\ Pending \cap EndedStates = {} /\ Effective \cap EndedStates = {}
  /\ "none" \notin Pending \cup Effective \cup EndedStates
  /\ Pending \cup Effective \cup EndedStates \subseteq States \ {"none"}
  /\ {"active", "held/uncomputable"} \subseteq Effective
  /\ {"scheduled", "awaiting_confirmation"} \subseteq Pending
  /\ {"ended/rejected", "ended/revoked", "ended/cancelled"} \subseteq EndedStates
  /\ States = {"none"} \cup Pending \cup Effective \cup EndedStates
BY DEF Pending, Effective, HeldStates, EndedStates, Endings, PendingEndings, States

(* A binding is none of an unbound key, and its outcome is final or saved. *)
LEMMA OutcomesApart ==
  /\ "applied" \notin Saved /\ "rejected" \notin Saved /\ "none" \notin Saved
  /\ NoBinding.outcome = "none"
  /\ \A b \in Bindings : b # NoBinding /\ b.outcome \in {"applied", "rejected"} \cup Saved
BY DEF Saved, Bindings, NoBinding

(* What an answer is. *)
LEMMA AnswerCases ==
  ASSUME NEW d \in Databases, NEW k \in Keys
  PROVE  LET b == d.bound[k]
         IN /\ b = NoBinding => Answer(d, k) = "none"
            /\ b.outcome \in {"applied", "rejected"} => Answer(d, k) = b.outcome
            /\ b.outcome \in Saved /\ OwnOf(d, b.rec) # {} =>
                 Answer(d, k) = IF \E o \in OwnOf(d, b.rec) : o.outcome = "rejected" THEN "rejected" ELSE "applied"
            /\ b.outcome \in Saved /\ OwnOf(d, b.rec) = {} =>
                 Answer(d, k) = IF d.record[b.rec].state \in EndedStates THEN "rejected" ELSE "waiting"
            /\ b = NoBinding \/ b.outcome \in {"applied", "rejected"} \cup Saved
<1>1. d.bound[k] \in Bindings \cup {NoBinding}
  BY DatabaseType DEF KeyTable
<1>2. d.bound[k] = NoBinding \/ d.bound[k].outcome \in {"applied", "rejected"} \cup Saved
  BY <1>1, OutcomesApart
<1>3. d.bound[k].outcome \in {"applied", "rejected"} \cup Saved => d.bound[k] # NoBinding
  BY OutcomesApart
<1>4. d.bound[k] = NoBinding => Answer(d, k) = "none"
  BY OutcomesApart DEF Answer
<1>5. d.bound[k].outcome \in {"applied", "rejected"} => Answer(d, k) = d.bound[k].outcome
  BY OutcomesApart DEF Answer
<1>6. ASSUME d.bound[k].outcome \in Saved
      PROVE  Answer(d, k) = IF OwnOf(d, d.bound[k].rec) # {}
                            THEN IF \E o \in OwnOf(d, d.bound[k].rec) : o.outcome = "rejected" THEN "rejected" ELSE "applied"
                            ELSE IF d.record[d.bound[k].rec].state \in EndedStates THEN "rejected" ELSE "waiting"
  BY <1>6 DEF Answer, OwnOf
<1>7. QED BY <1>2, <1>4, <1>5, <1>6

(* What is not linked does not matter: the queue, the history, the work items. *)
LEMMA LinksOnly ==
  ASSUME NEW d, NEW m, Linked(d), m.record = d.record, m.bound = d.bound, m.own = d.own, m.enacted = d.enacted
  PROVE  Linked(m) /\ \A k \in Keys : Answer(m, k) = Answer(d, k)
<1>1. \A k \in Keys : Answer(m, k) = Answer(d, k)
  BY DEF Answer
<1>2. RecordsBound(m)
  BY DEF Linked, RecordsBound
<1>3. OwnHappened(m)
  BY DEF Linked, OwnHappened
<1>4. SavedKept(m)
  BY DEF Linked, SavedKept, OwnOf
<1>5. Counted(m)
  BY <1>1 DEF Linked, Counted
<1>6. QED BY <1>1, <1>2, <1>3, <1>4, <1>5 DEF Linked

(* A key is settled at once: bound applied, its change taken place, or bound rejected. *)
LEMMA SettledAtOnce ==
  ASSUME NEW d \in Databases, NEW m \in Databases, Linked(d), NEW k \in Keys, d.bound[k] = NoBinding,
         NEW b, b.outcome \in {"applied", "rejected"},
         m.bound = [d.bound EXCEPT ![k] = b], m.record = d.record, m.own = d.own,
         m.enacted = IF b.outcome = "applied"
                     THEN [d.enacted EXCEPT ![k] = IF d.enacted[k] < 2 THEN d.enacted[k] + 1 ELSE d.enacted[k]]
                     ELSE d.enacted
  PROVE  Linked(m) /\ \A q \in Keys : Follows(Answer(d, q), Answer(m, q))
<1>1. d.bound \in [Keys -> Bindings \cup {NoBinding}] /\ d.enacted \in [Keys -> 0..2]
  BY DatabaseType DEF KeyTable, Counts
<1>2. m.bound[k] = b /\ \A q \in Keys : q # k => m.bound[q] = d.bound[q]
  BY <1>1
<1>3. \A q \in Keys : q # k => Answer(m, q) = Answer(d, q)
  BY <1>2 DEF Answer
<1>4. Answer(d, k) = "none" /\ Answer(m, k) = b.outcome
  BY <1>2, AnswerCases
<1>5. RecordsBound(m)
  <2>1. \A r \in Ids : d.record[r].state # "none" => r[1] # k
    BY DEF Linked, RecordsBound
  <2>2. \A r \in Ids : r[1] \in Keys
    BY DEF Ids
  <2> QED BY <1>2, <2>1, <2>2 DEF Linked, RecordsBound
<1>6. OwnHappened(m)
  BY DEF Linked, OwnHappened
<1>7. SavedKept(m)
  BY <1>2, OutcomesApart DEF Linked, SavedKept, OwnOf
<1>8. Counted(m)
  <2>1. d.enacted[k] = 0
    BY <1>4 DEF Linked, Counted
  <2>2. m.enacted[k] = IF b.outcome = "applied" THEN 1 ELSE 0
    BY <1>1, <2>1
  <2>3. \A q \in Keys : q # k => m.enacted[q] = d.enacted[q]
    BY <1>1
  <2> QED BY <1>3, <1>4, <2>2, <2>3 DEF Linked, Counted
<1>9. QED BY <1>3, <1>4, <1>5, <1>6, <1>7, <1>8 DEF Linked, Follows

(* A key and its new record come together. *)
LEMMA BroughtIn ==
  ASSUME NEW d \in Databases, NEW m \in Databases, Linked(d), NEW id \in Ids, d.bound[id[1]] = NoBinding,
         NEW c, NEW outcome \in {"applied", "rejected"} \cup Saved, NEW row,
         row.state \in (CASE outcome = "applied" -> Effective [] outcome = "rejected" -> EndedStates [] OTHER -> Pending),
         m.bound = [d.bound EXCEPT ![id[1]] = [of |-> c, outcome |-> outcome, rec |-> id]],
         m.record = [d.record EXCEPT ![id] = row], m.own = d.own,
         m.enacted = IF outcome = "applied"
                     THEN [d.enacted EXCEPT ![id[1]] = IF d.enacted[id[1]] < 2 THEN d.enacted[id[1]] + 1 ELSE d.enacted[id[1]]]
                     ELSE d.enacted
  PROVE  Linked(m) /\ \A q \in Keys : Follows(Answer(d, q), Answer(m, q))
<1> DEFINE k == id[1]
<1>1. k \in Keys
  BY DEF Ids
<1> HIDE DEF k
<1>2. /\ d.bound \in [Keys -> Bindings \cup {NoBinding}] /\ d.enacted \in [Keys -> 0..2]
      /\ d.record \in [Ids -> RecordRows \cup {NoRecord}]
      /\ \A o \in d.own : o.firing.rec \in Ids
  BY DatabaseType DEF KeyTable, Counts, Records, OwnKeys, Firings
<1>3. m.bound[k] = [of |-> c, outcome |-> outcome, rec |-> id] /\ \A q \in Keys : q # k => m.bound[q] = d.bound[q]
  BY <1>1, <1>2 DEF k
<1>4. m.record[id] = row /\ \A r \in Ids : r # id => m.record[r] = d.record[r]
  BY <1>2
<1>5. \A r \in Ids : r[1] = k => d.record[r].state = "none"
  BY DEF Linked, RecordsBound, k
<1>6. \A o \in d.own : o.firing.rec # id
  <2>1. \A o \in d.own : d.record[o.firing.rec].state # "none"
    BY StatesApart DEF Linked, OwnHappened
  <2> QED BY <1>5, <2>1 DEF k
<1>7. row.state # "none" /\ (row.state \in Pending => outcome \in Saved)
  BY StatesApart
<1>8. RecordsBound(m)
  <2>1. ASSUME NEW r \in Ids, m.record[r].state # "none"
        PROVE  m.bound[r[1]] # NoBinding /\ m.bound[r[1]].rec = r /\ (m.record[r].state \in Pending => m.bound[r[1]].outcome \in Saved)
    <3>1. CASE r = id
      <4>1. m.bound[k] # NoBinding
        BY <1>3, OutcomesApart
      <4> QED BY <3>1, <1>3, <1>4, <1>7, <4>1 DEF k
    <3>2. CASE r # id
      <4>1. r[1] # k /\ r[1] \in Keys /\ m.record[r] = d.record[r]
        BY <2>1, <3>2, <1>4, <1>5 DEF Ids
      <4> QED BY <2>1, <4>1, <1>3 DEF Linked, RecordsBound
    <3> QED BY <3>1, <3>2
  <2> QED BY <2>1 DEF RecordsBound
<1>9. OwnHappened(m)
  <2>1. \A o \in d.own : m.record[o.firing.rec] = d.record[o.firing.rec]
    BY <1>2, <1>4, <1>6
  <2> QED BY <2>1 DEF Linked, OwnHappened
<1>10. OwnOf(m, id) = {} /\ \A r : OwnOf(m, r) = OwnOf(d, r)
  BY <1>6 DEF OwnOf
<1>11. ASSUME NEW q \in Keys, q # k, d.bound[q].outcome \in Saved
       PROVE  m.record[d.bound[q].rec] = d.record[d.bound[q].rec]
  BY <1>4, <1>11 DEF Linked, SavedKept, k
<1>12. SavedKept(m)
  <2>1. ASSUME NEW q \in Keys, m.bound[q].outcome \in Saved
        PROVE  LET r == m.bound[q].rec
               IN /\ r \in Ids /\ r[1] = q /\ m.record[r].state # "none"
                  /\ OwnOf(m, r) = {} => m.record[r].state \in Pending \cup EndedStates
    <3>1. CASE q = k
      <4>1. m.bound[q].rec = id /\ row.state \in Pending
        BY <2>1, <3>1, <1>3, OutcomesApart
      <4> QED BY <3>1, <4>1, <1>4, <1>7 DEF k
    <3>2. CASE q # k
      BY <2>1, <3>2, <1>3, <1>10, <1>11 DEF Linked, SavedKept
    <3> QED BY <3>1, <3>2
  <2> QED BY <2>1 DEF SavedKept
<1>13. \A q \in Keys : q # k => Answer(m, q) = Answer(d, q)
  <2>1. ASSUME NEW q \in Keys, q # k PROVE Answer(m, q) = Answer(d, q)
    <3>1. m.bound[q] = d.bound[q]
      BY <2>1, <1>3
    <3>2. CASE d.bound[q].outcome \in Saved
      BY <3>1, <3>2, <2>1, <1>11 DEF Answer
    <3>3. CASE d.bound[q].outcome \notin Saved
      BY <3>1, <3>3 DEF Answer
    <3> QED BY <3>2, <3>3
  <2> QED BY <2>1
<1>14. Answer(d, k) = "none" /\ Answer(m, k) = IF outcome \in Saved THEN "waiting" ELSE outcome
  <2>1. Answer(d, k) = "none"
    <3>1. d.bound[k] = NoBinding
      BY DEF k
    <3> QED BY <1>1, <3>1, AnswerCases
  <2>2. CASE outcome \in Saved
    <3>1. m.record[id].state \notin EndedStates
      BY <1>4, <2>2, OutcomesApart, StatesApart
    <3>2. m.bound[k].rec = id /\ m.bound[k].outcome \in Saved /\ OwnOf(m, id) = {}
      BY <1>3, <1>10, <2>2
    <3>3. Answer(m, k) = "waiting"
      BY <1>1, <3>1, <3>2, AnswerCases
    <3> QED BY <2>1, <2>2, <3>3
  <2>3. CASE outcome \notin Saved
    BY <1>1, <1>3, <2>1, <2>3, AnswerCases
  <2> QED BY <2>2, <2>3
<1>15. Counted(m)
  <2>1. d.enacted[k] = 0
    BY <1>1, <1>14 DEF Linked, Counted
  <2>2. m.enacted[k] = IF outcome = "applied" THEN 1 ELSE 0
    BY <1>1, <1>2, <2>1 DEF k
  <2>3. \A q \in Keys : q # k => m.enacted[q] = d.enacted[q]
    BY <1>2 DEF k
  <2> QED BY <1>13, <1>14, <2>2, <2>3, OutcomesApart DEF Linked, Counted
<1>16. QED BY <1>8, <1>9, <1>12, <1>13, <1>14, <1>15, OutcomesApart DEF Linked, Follows

(* A record moves on: a saved one within the saved states, an effective one within the effective ones, either to its end. *)
LEMMA MovesOn ==
  ASSUME NEW d \in Databases, NEW m \in Databases, Linked(d), NEW r \in Ids, NEW row \in RecordRows,
         row.rev > d.record[r].rev,
         \/ d.record[r].state \in Pending /\ row.state \in Pending \cup EndedStates
         \/ d.record[r].state \in Effective /\ row.state \in Effective \cup EndedStates,
         m.record = [d.record EXCEPT ![r] = row], m.bound = d.bound, m.own = d.own, m.enacted = d.enacted
  PROVE  Linked(m) /\ \A q \in Keys : Follows(Answer(d, q), Answer(m, q))
<1>1. /\ d.bound \in [Keys -> Bindings \cup {NoBinding}] /\ d.enacted \in [Keys -> 0..2]
      /\ d.record \in [Ids -> RecordRows \cup {NoRecord}]
      /\ \A o \in d.own : o.firing.rec \in Ids /\ o.firing.rev \in Nat
  BY DatabaseType DEF KeyTable, Counts, Records, OwnKeys, Firings
<1>2. m.record[r] = row /\ \A s \in Ids : s # r => m.record[s] = d.record[s]
  BY <1>1
<1>3. d.record[r].state # "none" /\ row.state # "none" /\ d.record[r].rev \in Nat /\ row.rev \in Nat
  BY <1>1, StatesApart DEF RecordRows, NoRecord
<1>4. RecordsBound(m)
  <2>1. ASSUME NEW s \in Ids, m.record[s].state # "none"
        PROVE  m.bound[s[1]] # NoBinding /\ m.bound[s[1]].rec = s /\ (m.record[s].state \in Pending => m.bound[s[1]].outcome \in Saved)
    <3>1. d.record[s].state # "none" /\ (m.record[s].state \in Pending => d.record[s].state \in Pending)
      BY <2>1, <1>2, <1>3, StatesApart
    <3> QED BY <3>1 DEF Linked, RecordsBound
  <2> QED BY <2>1 DEF RecordsBound
<1>5. OwnHappened(m)
  <2>1. ASSUME NEW o \in d.own
        PROVE  /\ m.record[o.firing.rec].rev > o.firing.rev
               /\ m.record[o.firing.rec].state \in (IF o.outcome = "rejected" THEN EndedStates ELSE Effective \cup EndedStates)
    <3>1. /\ d.record[o.firing.rec].rev > o.firing.rev
          /\ d.record[o.firing.rec].state \in (IF o.outcome = "rejected" THEN EndedStates ELSE Effective \cup EndedStates)
      BY DEF Linked, OwnHappened
    <3>2. CASE o.firing.rec = r
      <4>1. row.rev > o.firing.rev
        BY <1>1, <1>3, <3>1, <3>2
      <4>2. o.outcome # "rejected" /\ row.state \in Effective \cup EndedStates
        BY <3>1, <3>2, StatesApart
      <4> QED BY <3>2, <4>1, <4>2, <1>2
    <3>3. CASE o.firing.rec # r
      BY <3>1, <3>3, <1>1, <1>2
    <3> QED BY <3>2, <3>3
  <2> QED BY <2>1 DEF OwnHappened
<1>6. \A s : OwnOf(m, s) = OwnOf(d, s)
  BY DEF OwnOf
<1>7. d.record[r].state \in Pending => OwnOf(d, r) = {}
  BY StatesApart DEF Linked, OwnHappened, OwnOf
<1>8. SavedKept(m)
  <2>1. ASSUME NEW q \in Keys, m.bound[q].outcome \in Saved
        PROVE  LET s == m.bound[q].rec
               IN /\ s \in Ids /\ s[1] = q /\ m.record[s].state # "none"
                  /\ OwnOf(m, s) = {} => m.record[s].state \in Pending \cup EndedStates
    <3> DEFINE s == d.bound[q].rec
    <3>1. /\ s \in Ids /\ s[1] = q /\ d.record[s].state # "none"
          /\ OwnOf(d, s) = {} => d.record[s].state \in Pending \cup EndedStates
      BY <2>1 DEF Linked, SavedKept
    <3>2. m.bound[q].rec = s
      OBVIOUS
    <3> HIDE DEF s
    <3>3. m.record[s].state # "none" /\ (OwnOf(d, s) = {} => m.record[s].state \in Pending \cup EndedStates)
      BY <3>1, <1>2, <1>3, StatesApart
    <3> QED BY <3>1, <3>2, <3>3, <1>6
  <2> QED BY <2>1 DEF SavedKept
<1>9. ASSUME NEW q \in Keys
      PROVE  Follows(Answer(d, q), Answer(m, q)) /\ (Answer(m, q) = "applied" <=> Answer(d, q) = "applied")
  <2>1. CASE d.bound[q].outcome \notin Saved
    <3>1. Answer(m, q) = Answer(d, q)
      BY <2>1 DEF Answer
    <3> QED BY <3>1 DEF Follows
  <2>2. CASE d.bound[q].outcome \in Saved /\ OwnOf(d, d.bound[q].rec) # {}
    <3>1. Answer(m, q) = Answer(d, q)
      BY <2>2, <1>6 DEF Answer, OwnOf
    <3> QED BY <3>1 DEF Follows
  <2>3. CASE d.bound[q].outcome \in Saved /\ OwnOf(d, d.bound[q].rec) = {}
    <3> DEFINE s == d.bound[q].rec
    <3>1. s \in Ids /\ m.bound[q] = d.bound[q] /\ OwnOf(m, s) = {}
      BY <2>3, <1>6 DEF Linked, SavedKept
    <3>2. Answer(d, q) = IF d.record[s].state \in EndedStates THEN "rejected" ELSE "waiting"
      BY <2>3, AnswerCases
    <3>3. Answer(m, q) = IF m.record[s].state \in EndedStates THEN "rejected" ELSE "waiting"
      BY <2>3, <3>1, AnswerCases
    <3>4. d.record[s].state \in EndedStates => m.record[s].state \in EndedStates
      BY <3>1, <1>2, StatesApart
    <3> QED BY <3>2, <3>3, <3>4 DEF Follows
  <2> QED BY <2>1, <2>2, <2>3
<1>10. Counted(m)
  BY <1>9 DEF Linked, Counted
<1>11. QED BY <1>4, <1>5, <1>8, <1>9, <1>10 DEF Linked

(* A job's change: a saved record takes effect or is rejected, a held one is restored; the derived key is bound. *)
LEMMA JobsChange ==
  ASSUME NEW d \in Databases, NEW m \in Databases, Linked(d), NEW j \in Firings, NEW row \in RecordRows,
         NEW outcome \in {"applied", "rejected"},
         d.record[j.rec].rev = j.rev, row.rev > j.rev,
         \/ /\ d.record[j.rec].state \in Pending
            /\ row.state \in (IF outcome = "applied" THEN Effective ELSE EndedStates)
            /\ m.enacted = IF outcome = "applied"
                 THEN [d.enacted EXCEPT ![j.rec[1]] = IF d.enacted[j.rec[1]] < 2 THEN d.enacted[j.rec[1]] + 1 ELSE d.enacted[j.rec[1]]]
                 ELSE d.enacted
         \/ d.record[j.rec].state \in Effective /\ row.state \in Effective /\ outcome = "applied" /\ m.enacted = d.enacted,
         m.record = [d.record EXCEPT ![j.rec] = row], m.bound = d.bound,
         m.own = d.own \cup {[firing |-> j, outcome |-> outcome]}
  PROVE  Linked(m) /\ \A q \in Keys : Follows(Answer(d, q), Answer(m, q))
<1> DEFINE r == j.rec
           k == r[1]
           b == [firing |-> j, outcome |-> outcome]
<1>1. r \in Ids /\ k \in Keys /\ j.rev \in Nat
  BY DEF Firings, Ids
<1>a. b.firing.rec = r /\ b.firing.rev = j.rev /\ b.outcome = outcome /\ m.own = d.own \cup {b}
  OBVIOUS
<1> HIDE DEF b
<1>2. /\ d.bound \in [Keys -> Bindings \cup {NoBinding}] /\ d.enacted \in [Keys -> 0..2]
      /\ d.record \in [Ids -> RecordRows \cup {NoRecord}]
      /\ \A o \in d.own : o.firing.rec \in Ids /\ o.firing.rev \in Nat
  BY DatabaseType DEF KeyTable, Counts, Records, OwnKeys, Firings
<1>3. m.record[r] = row /\ \A s \in Ids : s # r => m.record[s] = d.record[s]
  BY <1>1, <1>2
<1>4. d.record[r].state # "none" /\ row.state \notin {"none"} \cup Pending /\ row.rev \in Nat
  BY StatesApart DEF RecordRows
<1>5. d.bound[k].rec = r /\ d.bound[k] # NoBinding /\ (d.record[r].state \in Pending => d.bound[k].outcome \in Saved)
  BY <1>1, <1>4 DEF Linked, RecordsBound
<1>6. OwnOf(m, r) = OwnOf(d, r) \cup {b} /\ \A s \in Ids : s # r => OwnOf(m, s) = OwnOf(d, s)
  BY <1>a DEF OwnOf
<1>7. d.record[r].state \in Pending => OwnOf(d, r) = {}
  BY StatesApart DEF Linked, OwnHappened, OwnOf
<1>8. \A o \in OwnOf(d, r) : o.outcome # "rejected"
  <2>1. ASSUME NEW o \in OwnOf(d, r), o.outcome = "rejected" PROVE FALSE
    <3>1. d.record[r].state \in EndedStates
      BY <2>1 DEF OwnOf, Linked, OwnHappened
    <3> QED BY <3>1, StatesApart
  <2> QED BY <2>1
<1>9. RecordsBound(m)
  <2>1. ASSUME NEW s \in Ids, m.record[s].state # "none"
        PROVE  m.bound[s[1]] # NoBinding /\ m.bound[s[1]].rec = s /\ (m.record[s].state \in Pending => m.bound[s[1]].outcome \in Saved)
    <3>1. d.record[s].state # "none" /\ (m.record[s].state \in Pending => d.record[s].state \in Pending)
      BY <2>1, <1>3, <1>4
    <3> QED BY <3>1 DEF Linked, RecordsBound
  <2> QED BY <2>1 DEF RecordsBound
<1>10. OwnHappened(m)
  <2>1. ASSUME NEW o \in d.own
        PROVE  /\ m.record[o.firing.rec].rev > o.firing.rev
               /\ m.record[o.firing.rec].state \in (IF o.outcome = "rejected" THEN EndedStates ELSE Effective \cup EndedStates)
    <3>1. /\ d.record[o.firing.rec].rev > o.firing.rev
          /\ d.record[o.firing.rec].state \in (IF o.outcome = "rejected" THEN EndedStates ELSE Effective \cup EndedStates)
      BY DEF Linked, OwnHappened
    <3>2. CASE o.firing.rec = r
      <4>1. row.rev > o.firing.rev
        BY <1>1, <1>2, <1>4, <3>1, <3>2
      <4>2. o \in OwnOf(d, r)
        BY <3>2 DEF OwnOf
      <4>3. o.outcome # "rejected" /\ d.record[r].state \notin Pending
        BY <4>2, <1>7, <1>8
      <4>4. row.state \in Effective
        BY <4>3
      <4> QED BY <3>2, <4>1, <4>3, <4>4, <1>3
    <3>3. CASE o.firing.rec # r
      BY <3>1, <3>3, <1>2, <1>3
    <3> QED BY <3>2, <3>3
  <2>2. m.record[r].rev > j.rev /\ row.state \in (IF outcome = "rejected" THEN EndedStates ELSE Effective \cup EndedStates)
    BY <1>3
  <2> QED BY <2>1, <2>2, <1>a, <1>3 DEF OwnHappened
<1>11. SavedKept(m)
  <2>1. ASSUME NEW q \in Keys, m.bound[q].outcome \in Saved
        PROVE  LET s == m.bound[q].rec
               IN /\ s \in Ids /\ s[1] = q /\ m.record[s].state # "none"
                  /\ OwnOf(m, s) = {} => m.record[s].state \in Pending \cup EndedStates
    <3> DEFINE s == d.bound[q].rec
    <3>1. /\ s \in Ids /\ s[1] = q /\ d.record[s].state # "none"
          /\ OwnOf(d, s) = {} => d.record[s].state \in Pending \cup EndedStates
      BY <2>1 DEF Linked, SavedKept
    <3>2. m.bound[q].rec = s
      OBVIOUS
    <3> HIDE DEF s
    <3>3. CASE s = r
      BY <3>1, <3>2, <3>3, <1>3, <1>4, <1>6
    <3>4. CASE s # r
      BY <3>1, <3>2, <3>4, <1>3, <1>6
    <3> QED BY <3>3, <3>4
  <2> QED BY <2>1 DEF SavedKept
<1>12. \A q \in Keys : q # k => Answer(m, q) = Answer(d, q)
  <2>1. ASSUME NEW q \in Keys, q # k PROVE Answer(m, q) = Answer(d, q)
    <3>1. CASE d.bound[q].outcome \notin Saved
      BY <3>1 DEF Answer
    <3>2. CASE d.bound[q].outcome \in Saved
      <4> DEFINE s == d.bound[q].rec
      <4>1. s \in Ids /\ s # r
        BY <2>1, <3>2 DEF Linked, SavedKept
      <4>2. OwnOf(m, s) = OwnOf(d, s) /\ m.record[s] = d.record[s]
        BY <4>1, <1>3, <1>6
      <4> QED BY <3>2, <4>2 DEF Answer, OwnOf
    <3> QED BY <3>1, <3>2
  <2> QED BY <2>1
<1>13. CASE d.record[r].state \in Pending
  <2>1. Answer(d, k) = "waiting"
    <3>1. d.bound[k].outcome \in Saved /\ OwnOf(d, d.bound[k].rec) = {} /\ d.record[r].state \notin EndedStates
      BY <1>13, <1>5, <1>7, StatesApart
    <3> QED BY <1>1, <1>5, <3>1, AnswerCases
  <2>2. Answer(m, k) = outcome
    <3>1. OwnOf(m, r) = {b} /\ m.bound[k] = d.bound[k] /\ d.bound[k].outcome \in Saved
      BY <1>13, <1>5, <1>6, <1>7
    <3>2. Answer(m, k) = IF \E o \in OwnOf(m, r) : o.outcome = "rejected" THEN "rejected" ELSE "applied"
      BY <1>1, <1>5, <3>1, AnswerCases
    <3> QED BY <3>1, <3>2, <1>a
  <2>3. Counted(m)
    <3>1. d.enacted[k] = 0
      BY <1>1, <2>1 DEF Linked, Counted
    <3>2. m.enacted[k] = IF outcome = "applied" THEN 1 ELSE 0
      BY <1>1, <1>2, <1>13, <3>1, StatesApart
    <3>3. \A q \in Keys : q # k => m.enacted[q] = d.enacted[q]
      BY <1>2, <1>13, StatesApart
    <3> QED BY <1>12, <2>2, <3>2, <3>3 DEF Linked, Counted
  <2> QED BY <1>9, <1>10, <1>11, <1>12, <2>1, <2>2, <2>3 DEF Linked, Follows
<1>14. CASE d.record[r].state \in Effective
  <2>1. outcome = "applied" /\ m.enacted = d.enacted
    BY <1>14, StatesApart
  <2>2. Answer(m, k) = Answer(d, k)
    <3>1. CASE d.bound[k].outcome \notin Saved
      BY <3>1 DEF Answer
    <3>2. CASE d.bound[k].outcome \in Saved
      <4>1. OwnOf(d, r) # {}
        BY <1>1, <1>5, <1>14, <3>2, StatesApart DEF Linked, SavedKept
      <4>2. Answer(d, k) = "applied"
        BY <1>1, <1>5, <1>8, <3>2, <4>1, AnswerCases
      <4>3. OwnOf(m, r) # {} /\ \A o \in OwnOf(m, r) : o.outcome # "rejected"
        BY <1>a, <1>6, <1>8, <2>1
      <4>4. Answer(m, k) = "applied"
        BY <1>1, <1>5, <3>2, <4>3, AnswerCases
      <4> QED BY <4>2, <4>4
    <3> QED BY <3>1, <3>2
  <2>3. \A q \in Keys : Answer(m, q) = Answer(d, q)
    BY <1>12, <2>2
  <2>4. Counted(m)
    BY <2>1, <2>3 DEF Linked, Counted
  <2> QED BY <1>9, <1>10, <1>11, <2>3, <2>4 DEF Linked, Follows
<1>15. QED BY <1>13, <1>14

-----------------------------------------------------------------------------
(* What the facts say of a key and of its target *)

(* What the facts of a requester's change say of its key, its kind and its target. *)
LEMMA UserFactsSay ==
  ASSUME NEW d, NEW k, NEW c, NEW eligible
  PROVE  LET f == UserFacts(d, k, c, eligible)
         IN /\ f.trigger = "user"
            /\ f.key = CASE d.bound[k] = NoBinding -> "free" [] d.bound[k].of = c -> "same" [] OTHER -> "other"
            /\ f.kind = CASE c.ask \in Widenings -> "widen" [] c.ask = "cancel" -> "terminate" [] OTHER -> "tighten"
            /\ f.fromState => c.ask \in Widenings \/ d.record[c.on].state \in (IF c.ask = "cancel" THEN Pending ELSE Effective)
<1> DEFINE key == CASE d.bound[k] = NoBinding -> "free" [] d.bound[k].of = c -> "same" [] OTHER -> "other"
           kind == CASE c.ask \in Widenings -> "widen" [] c.ask = "cancel" -> "terminate" [] OTHER -> "tighten"
           target == IF c.ask \in Widenings THEN NoRecord ELSE d.record[c.on]
           from == c.ask \in Widenings \/ target.state \in (IF c.ask = "cancel" THEN Pending ELSE Effective)
           revision == c.at \in {0, target.rev}
           protected == c.ask = "unit"
           later == c.ask = "later"
<1>1. UserFacts(d, k, c, eligible) =
        [FreshFacts EXCEPT !.key = key, !.kind = kind, !.fromState = from, !.fromRevision = revision,
                           !.eligible = eligible, !.needsConfirmation = protected, !.future = later]
  BY DEF UserFacts
<1>2. from => c.ask \in Widenings \/ d.record[c.on].state \in (IF c.ask = "cancel" THEN Pending ELSE Effective)
  OBVIOUS
<1> HIDE DEF key, kind, from, revision, protected, later
<1>3. LET f == [FreshFacts EXCEPT !.key = key, !.kind = kind, !.fromState = from, !.fromRevision = revision,
                                  !.eligible = eligible, !.needsConfirmation = protected, !.future = later]
      IN f.trigger = "user" /\ f.key = key /\ f.kind = kind /\ f.fromState = from
  BY DEF FreshFacts
<1>4. QED BY <1>1, <1>2, <1>3 DEF key, kind

(* A replay decides again neither more nor less of a key, a kind and a target. *)
LEMMA ReplayFactsSay ==
  ASSUME NEW d, NEW k, NEW c, NEW eligible
  PROVE  LET f == UserFacts(d, k, c, eligible)
             g == ReplayFacts(f)
         IN g.trigger = f.trigger /\ g.key = f.key /\ g.kind = f.kind /\ g.fromState = f.fromState
<1> DEFINE key == CASE d.bound[k] = NoBinding -> "free" [] d.bound[k].of = c -> "same" [] OTHER -> "other"
           kind == CASE c.ask \in Widenings -> "widen" [] c.ask = "cancel" -> "terminate" [] OTHER -> "tighten"
           target == IF c.ask \in Widenings THEN NoRecord ELSE d.record[c.on]
           from == c.ask \in Widenings \/ target.state \in (IF c.ask = "cancel" THEN Pending ELSE Effective)
           revision == c.at \in {0, target.rev}
           protected == c.ask = "unit"
           later == c.ask = "later"
           f == [FreshFacts EXCEPT !.key = key, !.kind = kind, !.fromState = from, !.fromRevision = revision,
                                   !.eligible = eligible, !.needsConfirmation = protected, !.future = later]
<1>1. UserFacts(d, k, c, eligible) = f
  BY DEF UserFacts
<1> HIDE DEF key, kind, from, revision, protected, later
<1>2. LET g == [f EXCEPT !.eligible = "proven", !.needsConfirmation = FALSE, !.fromRevision = TRUE]
      IN g.trigger = f.trigger /\ g.key = f.key /\ g.kind = f.kind /\ g.fromState = f.fromState
  BY DEF FreshFacts
<1>3. QED BY <1>1, <1>2 DEF ReplayFacts

(* What a verdict on a requester's key, given or replayed, may do. *)
LEMMA VerdictHolds ==
  ASSUME NEW d \in Databases, NEW k \in Keys, NEW c \in Contents, NEW eligible, NEW f, NEW invalid,
         LET g == UserFacts(d, k, c, eligible)
         IN f.trigger = g.trigger /\ f.key = g.key /\ f.kind = g.kind /\ f.fromState = g.fromState
  PROVE  LET v == Verdict(f, invalid)
         IN /\ Binds(v) => d.bound[k] = NoBinding
            /\ v.outcome \in {"applied"} \cup Saved => Binds(v)
            /\ v.outcome = "applied" =>
                 c.ask \in Widenings \/ d.record[c.on].state \in (IF c.ask = "cancel" THEN Pending ELSE Effective)
            /\ v.outcome \in Saved => c.ask \in Widenings
<1> DEFINE v == Verdict(f, invalid)
<1>1. Binds(v) => d.bound[k] = NoBinding
  <2>1. f.key = CASE d.bound[k] = NoBinding -> "free" [] d.bound[k].of = c -> "same" [] OTHER -> "other"
    BY UserFactsSay
  <2>2. d.bound[k] # NoBinding => f.key \in {"same", "other"}
    BY <2>1
  <2> HIDE DEF v
  <2>3. Binds(v) => f.key # "same" /\ f.key # "other"
    BY BindsFree DEF v
  <2> QED BY <2>2, <2>3
<1>2. v.outcome \in {"applied"} \cup Saved => Binds(v)
  <2>1. v.outcome \in {"applied"} \cup Saved => v.row # 2
    BY DEF Verdict, RowOutcome, Saved
  <2> QED BY <2>1 DEF Binds
<1>3. v.outcome = "applied" =>
        c.ask \in Widenings \/ d.record[c.on].state \in (IF c.ask = "cancel" THEN Pending ELSE Effective)
  <2>1. f.trigger = "user"
    BY UserFactsSay
  <2>2. f.fromState => c.ask \in Widenings \/ d.record[c.on].state \in (IF c.ask = "cancel" THEN Pending ELSE Effective)
    BY UserFactsSay
  <2> HIDE DEF v
  <2>3. v.outcome = "applied" => f.fromState
    BY <2>1, AppliedByUser DEF v
  <2> QED BY <2>2, <2>3
<1>4. v.outcome \in Saved => c.ask \in Widenings
  <2>1. f.kind = CASE c.ask \in Widenings -> "widen" [] c.ask = "cancel" -> "terminate" [] OTHER -> "tighten"
    BY UserFactsSay
  <2>2. v.outcome \in Saved => f.kind = "widen"
    <3> HIDE DEF v
    <3> QED BY SavedWidens DEF v
  <2> QED BY <2>1, <2>2
<1> HIDE DEF v
<1>5. QED BY <1>1, <1>2, <1>3, <1>4 DEF v

-----------------------------------------------------------------------------
(* The effect point's writes *)

\* No record comes to be but r.
OnlyNew(d, m, r) == \A s \in Ids : m.record[s].state # "none" => d.record[s].state # "none" \/ s = r
NoneNew(d, m) == \A s \in Ids : m.record[s].state # "none" => d.record[s].state # "none"

(* A database as it was is a step of the keys. *)
LEMMA StandingStill ==
  ASSUME NEW d \in Databases, Linked(d)
  PROVE  Steps(d, d)
BY DEF Steps, Follows

(* A widening decided under a free key: the key and its new record are bound together. *)
LEMMA WideningSteps ==
  ASSUME NEW d \in Databases, Linked(d), NEW id \in Ids, NEW c \in WideningContents, NEW v,
         Binds(v), d.bound[id[1]] = NoBinding
  PROVE  LET m == Effect(d, id[1], c, v, id)
         IN Steps(d, m) /\ OnlyNew(d, m, id) /\ m.outbox = d.outbox
<1> DEFINE k == id[1]
<1>1. k \in Keys /\ c \in Contents /\ c.ask \in Widenings
  BY DEF Ids, Contents, WideningContents
<1>2. d.record \in Records
  BY DatabaseType
<1>3. Effect(d, k, c, v, id) = Bind(Widened(d, k, c, v, id), k, c, v.outcome, id)
  BY <1>1 DEF Effect
<1>4. v.outcome \in {"applied", "rejected"} \cup Saved /\ v.row # 2
  BY DEF Binds
<1> HIDE DEF k
<1>5. CASE v.outcome = "applied"
  <2> DEFINE x == Inserted(d, id, c.ask, "active")
             y == Enacted(x, k)
             m == Bind(y, k, c, "applied", id)
             row == [ask |-> c.ask, state |-> "active", rev |-> 1, width |-> 2]
  <2>1. Effect(d, k, c, v, id) = m
    BY <1>3, <1>5 DEF Widened
  <2>2. x \in Databases /\ x.record = [d.record EXCEPT ![id] = row] /\ x.bound = d.bound /\ x.own = d.own
        /\ x.outbox = d.outbox /\ x.enacted = d.enacted
    BY <1>1, InsertedWrites, StatesApart
  <2> HIDE DEF x, row
  <2>3. y \in Databases /\ y.enacted = [x.enacted EXCEPT ![k] = IF x.enacted[k] < 2 THEN x.enacted[k] + 1 ELSE x.enacted[k]]
        /\ y.record = x.record /\ y.bound = x.bound /\ y.own = x.own /\ y.outbox = x.outbox
    BY <1>1, <2>2, EnactedWrites
  <2> HIDE DEF y
  <2>4. m \in Databases /\ m.bound = [y.bound EXCEPT ![k] = [of |-> c, outcome |-> "applied", rec |-> id]]
        /\ m.record = y.record /\ m.own = y.own /\ m.outbox = y.outbox /\ m.enacted = y.enacted
    BY <1>1, <2>3, BindWrites
  <2> HIDE DEF m
  <2>5. row.state = "active"
    BY DEF row
  <2>6. Linked(m) /\ \A q \in Keys : Follows(Answer(d, q), Answer(m, q))
    BY <2>2, <2>3, <2>4, <2>5, BroughtIn, StatesApart DEF k
  <2>7. OnlyNew(d, m, id)
    BY <1>2, <2>2, <2>3, <2>4 DEF OnlyNew, Records
  <2> QED BY <2>1, <2>2, <2>3, <2>4, <2>6, <2>7 DEF Steps, k
<1>6. ASSUME NEW state, NEW x, x \in Databases, v.outcome # "applied",
             state \in (IF v.outcome = "rejected" THEN EndedStates ELSE Pending),
             x.record = [d.record EXCEPT ![id] = [ask |-> c.ask, state |-> state, rev |-> 1, width |-> 2]],
             x.bound = d.bound, x.own = d.own, x.outbox = d.outbox, x.enacted = d.enacted,
             Widened(d, k, c, v, id) = x
      PROVE  LET m == Effect(d, k, c, v, id)
             IN Steps(d, m) /\ OnlyNew(d, m, id) /\ m.outbox = d.outbox
  <2> DEFINE m == Bind(x, k, c, v.outcome, id)
             row == [ask |-> c.ask, state |-> state, rev |-> 1, width |-> 2]
  <2>1. Effect(d, k, c, v, id) = m
    BY <1>3, <1>6
  <2>2. row.state = state /\ x.record = [d.record EXCEPT ![id] = row]
    BY <1>6
  <2> HIDE DEF row
  <2>3. m \in Databases /\ m.bound = [x.bound EXCEPT ![k] = [of |-> c, outcome |-> v.outcome, rec |-> id]]
        /\ m.record = x.record /\ m.own = x.own /\ m.outbox = x.outbox /\ m.enacted = x.enacted
    <3>1. x \in Databases /\ k \in Keys /\ c \in Contents /\ v.outcome \in {"applied", "rejected"} \cup Saved
      BY <1>1, <1>4, <1>6
    <3> DEFINE binding == [of |-> c, outcome |-> v.outcome, rec |-> id]
               table == [x.bound EXCEPT ![k] = binding]
    <3>2. binding \in Bindings
      BY <3>1 DEF Bindings
    <3>3. table \in KeyTable
      <4> HIDE DEF binding, m
      <4> QED BY <3>1, <3>2, DatabaseType DEF KeyTable
    <3>4. m = [x EXCEPT !.bound = table]
      BY DEF Bind
    <3> HIDE DEF m, table
    <3>5. /\ m \in Databases /\ m.bound = table
          /\ m.record = x.record /\ m.own = x.own /\ m.outbox = x.outbox /\ m.enacted = x.enacted
      BY <3>1, <3>3, <3>4, DatabaseField
    <3> QED BY <3>5 DEF table
  <2> HIDE DEF m
  <2>4. row.state \in (CASE v.outcome = "applied" -> Effective [] v.outcome = "rejected" -> EndedStates [] OTHER -> Pending)
    BY <1>6, <2>2
  <2>5. Linked(m) /\ \A q \in Keys : Follows(Answer(d, q), Answer(m, q))
    <3>1. m.bound = [d.bound EXCEPT ![id[1]] = [of |-> c, outcome |-> v.outcome, rec |-> id]]
          /\ m.record = [d.record EXCEPT ![id] = row] /\ m.own = d.own
      BY <1>6, <2>2, <2>3 DEF k
    <3>2. m.enacted = IF v.outcome = "applied"
                      THEN [d.enacted EXCEPT ![id[1]] = IF d.enacted[id[1]] < 2 THEN d.enacted[id[1]] + 1 ELSE d.enacted[id[1]]]
                      ELSE d.enacted
      BY <1>6, <2>3
    <3> QED BY <1>4, <2>3, <2>4, <3>1, <3>2, BroughtIn
  <2>6. OnlyNew(d, m, id)
    BY <1>2, <2>2, <2>3 DEF OnlyNew, Records
  <2> QED BY <1>6, <2>1, <2>3, <2>5, <2>6 DEF Steps
<1>7. CASE v.outcome = "rejected"
  <2> DEFINE x == Inserted(d, id, c.ask, "ended/rejected")
  <2>1. Widened(d, k, c, v, id) = x
    BY <1>4, <1>7 DEF Widened
  <2>2. x \in Databases /\ x.bound = d.bound /\ x.own = d.own /\ x.outbox = d.outbox /\ x.enacted = d.enacted
        /\ x.record = [d.record EXCEPT ![id] = [ask |-> c.ask, state |-> "ended/rejected", rev |-> 1, width |-> 2]]
    BY <1>1, InsertedWrites, StatesApart
  <2> HIDE DEF x
  <2> QED BY <1>6, <1>7, <2>1, <2>2, StatesApart DEF k
<1>8. CASE v.outcome = "awaiting_saved"
  <2> DEFINE x == Inserted(d, id, c.ask, "awaiting_confirmation")
  <2>1. Widened(d, k, c, v, id) = x
    BY <1>8 DEF Widened
  <2>2. x \in Databases /\ x.bound = d.bound /\ x.own = d.own /\ x.outbox = d.outbox /\ x.enacted = d.enacted
        /\ x.record = [d.record EXCEPT ![id] = [ask |-> c.ask, state |-> "awaiting_confirmation", rev |-> 1, width |-> 2]]
    BY <1>1, InsertedWrites, StatesApart
  <2> HIDE DEF x
  <2> QED BY <1>6, <1>8, <2>1, <2>2, StatesApart DEF k
<1>9. CASE v.outcome = "scheduled"
  <2> DEFINE y == Inserted(d, id, c.ask, "scheduled")
             x == Registered(y, id, "scheduled")
  <2>1. Widened(d, k, c, v, id) = x
    BY <1>9 DEF Widened
  <2>2. y \in Databases /\ y.bound = d.bound /\ y.own = d.own /\ y.outbox = d.outbox /\ y.enacted = d.enacted
        /\ y.record = [d.record EXCEPT ![id] = [ask |-> c.ask, state |-> "scheduled", rev |-> 1, width |-> 2]]
    BY <1>1, InsertedWrites, StatesApart
  <2>3. y.record[id].state # "none"
    BY <1>2, <2>2 DEF Records
  <2> HIDE DEF y
  <2>4. x \in Databases /\ x.bound = y.bound /\ x.own = y.own /\ x.outbox = y.outbox /\ x.enacted = y.enacted
        /\ x.record = y.record
    BY <2>2, <2>3, RegisteredWrites DEF Triggered
  <2> HIDE DEF x
  <2> QED BY <1>6, <1>9, <2>1, <2>2, <2>4, StatesApart DEF k
<1>10. QED BY <1>4, <1>5, <1>7, <1>8, <1>9 DEF Saved, k

(* A tightening decided under a free key: its target moves, and the key of the target's own record keeps answering truly. *)
LEMMA TighteningSteps ==
  ASSUME NEW d \in Databases, Linked(d), NEW k \in Keys, NEW c \in TighteningContents, NEW v, NEW id,
         Binds(v), d.bound[k] = NoBinding, v.outcome \notin Saved,
         v.outcome = "applied" => d.record[c.on].state \in (IF c.ask = "cancel" THEN Pending ELSE Effective)
  PROVE  LET m == Effect(d, k, c, v, id)
         IN Steps(d, m) /\ NoneNew(d, m) /\ m.outbox = d.outbox
<1> DEFINE r == c.on
<1>1. r \in Ids /\ c \in Contents /\ c.ask \notin Widenings /\ c.ask \in Tightenings
  BY DEF Contents, TighteningContents, Tightenings, Widenings
<1>2. d.record \in Records
  BY DatabaseType
<1>3. v.outcome \in {"applied", "rejected"}
  BY DEF Binds
<1>4. CASE v.outcome = "rejected"
  <2> DEFINE m == Bind(d, k, c, "rejected", None)
  <2>1. Effect(d, k, c, v, id) = m
    BY <1>1, <1>4 DEF Effect
  <2>2. m \in Databases /\ m.bound = [d.bound EXCEPT ![k] = [of |-> c, outcome |-> "rejected", rec |-> None]]
        /\ m.record = d.record /\ m.own = d.own /\ m.outbox = d.outbox /\ m.enacted = d.enacted
    BY <1>1, BindWrites
  <2> HIDE DEF m
  <2>3. Linked(m) /\ \A q \in Keys : Follows(Answer(d, q), Answer(m, q))
    <3> DEFINE b == [of |-> c, outcome |-> "rejected", rec |-> None]
    <3>1. b.outcome = "rejected" /\ m.bound = [d.bound EXCEPT ![k] = b]
      BY <2>2
    <3> HIDE DEF b
    <3>2. m.enacted = IF b.outcome = "applied"
                      THEN [d.enacted EXCEPT ![k] = IF d.enacted[k] < 2 THEN d.enacted[k] + 1 ELSE d.enacted[k]]
                      ELSE d.enacted
      BY <2>2, <3>1
    <3>3. b.outcome \in {"applied", "rejected"} /\ m.record = d.record /\ m.own = d.own /\ m \in Databases
      BY <2>2, <3>1
    <3>4. m.bound = [d.bound EXCEPT ![k] = b]
      BY <3>1
    <3> QED BY <3>2, <3>3, <3>4, SettledAtOnce
  <2> QED BY <2>1, <2>2, <2>3 DEF Steps, NoneNew
<1>5. CASE v.outcome = "applied"
  <2> DEFINE to == CASE c.ask = "narrow" -> d.record[r].state [] c.ask = "revoke" -> "ended/revoked" [] OTHER -> "ended/cancelled"
             x == Moved(d, r, to)
             y == IF c.ask = "narrow" THEN [x EXCEPT !.record[r].width = 1] ELSE x
             z == Enacted(y, k)
             m == Bind(z, k, c, "applied", r)
  <2>1. Effect(d, k, c, v, id) = m
    <3>1. Tightened(d, k, c) = z
      BY <1>1 DEF Tightened, Tightenings
    <3> HIDE DEF z
    <3> QED BY <1>1, <1>5, <3>1 DEF Effect
  <2>2. d.record[r].state \in Pending \cup Effective
    BY <1>5
  <2>3. to \in States \ {"none"}
    BY <2>2, StatesApart
  <2>4. \/ d.record[r].state \in Pending /\ to \in EndedStates
        \/ d.record[r].state \in Effective /\ to \in Effective \cup EndedStates
    BY <1>5, <2>2, StatesApart
  <2> HIDE DEF to
  <2> DEFINE moved == [d.record[r] EXCEPT !.state = to, !.rev = d.record[r].rev + 1]
             row == IF c.ask = "narrow" THEN [moved EXCEPT !.width = 1] ELSE moved
  <2>5. x \in Databases /\ x.record = [d.record EXCEPT ![r] = moved] /\ x.bound = d.bound /\ x.own = d.own
        /\ x.outbox = d.outbox /\ x.enacted = d.enacted
    <3>1. d.record[r].state # "none"
      BY <2>2, StatesApart
    <3> HIDE DEF r
    <3> QED BY <1>1, <2>3, <3>1, MovedWrites
  <2> HIDE DEF x
  <2>6. d.record[r] \in RecordRows
    BY <1>1, <1>2, <2>2, StatesApart DEF Records, NoRecord
  <2>7. moved = x.record[r] /\ x.record \in Records /\ x.record[r].state # "none"
    <3>1. x.record \in Records
      BY <2>5, DatabaseType
    <3>2. x.record[r] = moved
      BY <1>1, <1>2, <2>5 DEF Records
    <3>3. moved.state = to
      BY <2>6 DEF RecordRows
    <3> QED BY <2>3, <3>1, <3>2, <3>3
  <2>8. moved \in RecordRows /\ moved.state = to /\ moved.rev = d.record[r].rev + 1
    <3>1. moved \in RecordRows
      BY <1>1, <2>7 DEF Records, NoRecord
    <3> QED BY <3>1, <2>6 DEF RecordRows
  <2> HIDE DEF moved
  <2>9. row \in RecordRows /\ row.state = to /\ row.rev = d.record[r].rev + 1
    BY <2>8 DEF RecordRows
  <2>10. [moved EXCEPT !.width = 1] = [x.record[r] EXCEPT !.width = 1]
    BY <2>7
  <2>11. y \in Databases /\ y.record = [d.record EXCEPT ![r] = row] /\ y.bound = d.bound /\ y.own = d.own
         /\ y.outbox = d.outbox /\ y.enacted = d.enacted
    <3>1. CASE c.ask # "narrow"
      BY <2>5, <3>1
    <3>2. CASE c.ask = "narrow"
      <4> DEFINE table == [x.record EXCEPT ![r] = row]
      <4>1. y = [x EXCEPT !.record = table]
        BY <3>2, <2>10
      <4>2. table \in Records
        <5> HIDE DEF row
        <5> QED BY <1>1, <2>7, <2>9 DEF Records
      <4>3. table = [d.record EXCEPT ![r] = row]
        <5> HIDE DEF row
        <5> QED BY <1>1, <1>2, <2>5 DEF Records
      <4> HIDE DEF table, row
      <4>4. LET w == [x EXCEPT !.record = table]
            IN /\ w \in Databases /\ w.record = table
               /\ w.bound = x.bound /\ w.own = x.own /\ w.outbox = x.outbox /\ w.enacted = x.enacted
        BY <2>5, <4>2, DatabaseField
      <4> HIDE DEF y
      <4> QED BY <2>5, <4>1, <4>3, <4>4
    <3> QED BY <3>1, <3>2
  <2> HIDE DEF y, row
  <2>12. Linked(y) /\ \A q \in Keys : Follows(Answer(d, q), Answer(y, q))
    <3>1. d.record[r].rev \in Nat /\ row.rev > d.record[r].rev
      BY <2>6, <2>9 DEF RecordRows
    <3> QED BY <1>1, <2>4, <2>9, <2>11, <3>1, MovesOn
  <2>13. z \in Databases /\ z.enacted = [y.enacted EXCEPT ![k] = IF y.enacted[k] < 2 THEN y.enacted[k] + 1 ELSE y.enacted[k]]
         /\ z.record = y.record /\ z.bound = y.bound /\ z.own = y.own /\ z.outbox = y.outbox
    BY <2>11, EnactedWrites
  <2> HIDE DEF z
  <2>14. m \in Databases /\ m.bound = [z.bound EXCEPT ![k] = [of |-> c, outcome |-> "applied", rec |-> r]]
         /\ m.record = z.record /\ m.own = z.own /\ m.outbox = z.outbox /\ m.enacted = z.enacted
    BY <1>1, <2>13, BindWrites
  <2> HIDE DEF m
  <2>15. Linked(m) /\ \A q \in Keys : Follows(Answer(y, q), Answer(m, q))
    <3> DEFINE b == [of |-> c, outcome |-> "applied", rec |-> r]
    <3>1. b.outcome = "applied" /\ y.bound[k] = NoBinding /\ m.bound = [y.bound EXCEPT ![k] = b]
          /\ m.record = y.record /\ m.own = y.own
          /\ m.enacted = [y.enacted EXCEPT ![k] = IF y.enacted[k] < 2 THEN y.enacted[k] + 1 ELSE y.enacted[k]]
      BY <2>11, <2>13, <2>14
    <3> HIDE DEF b
    <3>2. m.enacted = IF b.outcome = "applied"
                      THEN [y.enacted EXCEPT ![k] = IF y.enacted[k] < 2 THEN y.enacted[k] + 1 ELSE y.enacted[k]]
                      ELSE y.enacted
      BY <3>1
    <3>3. b.outcome \in {"applied", "rejected"} /\ m \in Databases /\ y \in Databases /\ Linked(y)
      BY <2>11, <2>12, <2>14, <3>1
    <3>4. y.bound[k] = NoBinding /\ m.bound = [y.bound EXCEPT ![k] = b] /\ m.record = y.record /\ m.own = y.own
      BY <3>1
    <3> QED BY <3>2, <3>3, <3>4, SettledAtOnce
  <2>16. \A q \in Keys : Follows(Answer(d, q), Answer(m, q))
    BY <2>12, <2>15, FollowsOn
  <2>17. NoneNew(d, m)
    BY <1>1, <1>2, <2>2, <2>11, <2>13, <2>14, StatesApart DEF NoneNew, Records
  <2> QED BY <2>1, <2>11, <2>13, <2>14, <2>15, <2>16, <2>17 DEF Steps
<1>6. QED BY <1>3, <1>4, <1>5

(* What a requester's change, decided or replayed, writes. *)
LEMMA EffectSteps ==
  ASSUME NEW d \in Databases, Linked(d), NEW k \in Keys, NEW c \in Contents, NEW id, NEW v,
         c.ask \in Widenings => id \in Ids /\ id[1] = k,
         Binds(v) => d.bound[k] = NoBinding,
         v.outcome \in {"applied"} \cup Saved => Binds(v),
         v.outcome = "applied" =>
           c.ask \in Widenings \/ d.record[c.on].state \in (IF c.ask = "cancel" THEN Pending ELSE Effective),
         v.outcome \in Saved => c.ask \in Widenings
  PROVE  LET m == Effect(d, k, c, v, id)
         IN /\ Steps(d, m) /\ m.outbox = d.outbox
            /\ IF c.ask \in Widenings THEN OnlyNew(d, m, id) ELSE NoneNew(d, m)
<1>1. CASE ~Binds(v)
  <2>1. v.outcome \notin {"applied"} \cup Saved /\ (v.outcome = "rejected" => v.row = 2)
    BY <1>1 DEF Binds
  <2>2. Widened(d, k, c, v, id) = d
    BY <2>1 DEF Widened, Saved
  <2>3. Effect(d, k, c, v, id) = d
    BY <1>1, <2>1, <2>2 DEF Effect
  <2> QED BY <2>3, StandingStill DEF OnlyNew, NoneNew
<1>2. CASE Binds(v) /\ c.ask \in Widenings
  <2>1. c \in WideningContents
    BY <1>2 DEF Contents, TighteningContents, Widenings, Tightenings
  <2> QED BY <1>2, <2>1, WideningSteps
<1>3. CASE Binds(v) /\ c.ask \notin Widenings
  <2>1. c \in TighteningContents
    BY <1>3 DEF Contents, WideningContents
  <2> QED BY <1>3, <2>1, TighteningSteps
<1>4. QED BY <1>1, <1>2, <1>3

(* A requester's request, decided. *)
LEMMA UserSteps ==
  ASSUME NEW d \in Databases, Linked(d), NEW k \in Keys, NEW c \in Contents, NEW id, NEW eligible, NEW invalid,
         c.ask \in Widenings => id \in Ids /\ id[1] = k
  PROVE  LET m == Effect(d, k, c, Verdict(UserFacts(d, k, c, eligible), invalid), id)
         IN /\ Steps(d, m) /\ m.outbox = d.outbox
            /\ IF c.ask \in Widenings THEN OnlyNew(d, m, id) ELSE NoneNew(d, m)
<1> DEFINE f == UserFacts(d, k, c, eligible)
           v == Verdict(f, invalid)
<1>1. /\ Binds(v) => d.bound[k] = NoBinding
      /\ v.outcome \in {"applied"} \cup Saved => Binds(v)
      /\ v.outcome = "applied" =>
           c.ask \in Widenings \/ d.record[c.on].state \in (IF c.ask = "cancel" THEN Pending ELSE Effective)
      /\ v.outcome \in Saved => c.ask \in Widenings
  BY VerdictHolds
<1> HIDE DEF v
<1>2. QED BY <1>1, EffectSteps DEF v

(* A recorded request, replayed. *)
LEMMA ReplaySteps ==
  ASSUME NEW d \in Databases, Linked(d), NEW e, e.key \in Keys, e.of \in Contents, e.id \in Ids, e.rec \in Ids,
         e.of.ask \in Widenings => e.rec[1] = e.key
  PROVE  LET m == Replay(d, e).db
         IN /\ Steps(d, m) /\ m.outbox = d.outbox
            /\ IF e.of.ask \in Widenings THEN OnlyNew(d, m, e.rec) ELSE NoneNew(d, m)
<1> DEFINE k == e.key
           c == Recalled(e.of)
           f == UserFacts(d, k, c, "proven")
           v == Verdict(ReplayFacts(f), Invalid(c))
           x == Effect(d, k, c, v, e.rec)
           past == x.history \cup {e.id}
           m == [x EXCEPT !.history = past]
<1>1. c \in Contents /\ c.ask = e.of.ask
  BY ChangesParameters DEF Recalled, Contents, WideningContents, TighteningContents
<1>2. Replay(d, e).db = m \/ Replay(d, e).db = d
  BY DEF Replay, NameOf
<1>3. /\ Binds(v) => d.bound[k] = NoBinding
      /\ v.outcome \in {"applied"} \cup Saved => Binds(v)
      /\ v.outcome = "applied" =>
           c.ask \in Widenings \/ d.record[c.on].state \in (IF c.ask = "cancel" THEN Pending ELSE Effective)
      /\ v.outcome \in Saved => c.ask \in Widenings
  <2> DEFINE g == ReplayFacts(f)
  <2>1. g.trigger = f.trigger /\ g.key = f.key /\ g.kind = f.kind /\ g.fromState = f.fromState
    BY ReplayFactsSay
  <2> HIDE DEF g, c
  <2> QED BY <1>1, <2>1, VerdictHolds DEF g
<1> HIDE DEF v, c
<1>4. Steps(d, x) /\ x.outbox = d.outbox /\ IF c.ask \in Widenings THEN OnlyNew(d, x, e.rec) ELSE NoneNew(d, x)
  BY <1>1, <1>3, EffectSteps
<1> HIDE DEF x
<1>5. m \in Databases /\ m.record = x.record /\ m.bound = x.bound /\ m.own = x.own /\ m.enacted = x.enacted
      /\ m.outbox = x.outbox
  <2>1. x \in Databases
    BY <1>4 DEF Steps
  <2>2. past \in Histories
    BY <2>1, DatabaseType DEF Histories
  <2> HIDE DEF past
  <2> QED BY <2>1, <2>2, DatabaseField
<1> HIDE DEF m
<1>6. Steps(d, m)
  BY <1>4, <1>5, LinksOnly DEF Steps
<1>7. OnlyNew(d, x, e.rec) => OnlyNew(d, m, e.rec)
  BY <1>5 DEF OnlyNew
<1>8. NoneNew(d, x) => NoneNew(d, m)
  BY <1>5 DEF NoneNew
<1>9. Steps(d, d) /\ OnlyNew(d, d, e.rec) /\ NoneNew(d, d)
  BY StandingStill DEF OnlyNew, NoneNew
<1>10. QED BY <1>1, <1>2, <1>4, <1>5, <1>6, <1>7, <1>8, <1>9

-----------------------------------------------------------------------------
(* The member's own changes: jobs, confirmations, holds *)

(* What the facts of a due job say of its record: the state and the revision it was registered for. *)
LEMMA JobFactsSay ==
  ASSUME NEW d, NEW j, NEW eligible, NEW met, NEW later
  PROVE  LET f == JobFacts(d, j, eligible, met, later)
         IN /\ f.trigger = "job" /\ f.key # "other" /\ ~f.revisionsChanged
            /\ f.kind = IF j.trigger = "restore" THEN "restore_uncomputable" ELSE "widen"
            /\ f.fromState => d.record[j.rec].state \in From(j.trigger)
            /\ f.fromRevision => d.record[j.rec].rev = j.rev
<1> DEFINE r == d.record[j.rec]
           restores == j.trigger = "restore"
           key == IF \E b \in d.own : b.firing = j THEN "same" ELSE "free"
           kind == IF restores THEN "restore_uncomputable" ELSE "widen"
           from == r.state \in From(j.trigger)
           revision == r.rev = j.rev
           proven == IF restores THEN "proven" ELSE eligible
           protected == r.ask = "unit"
           confirmed == IF restores \/ r.ask # "unit" THEN "none" ELSE IF met THEN "valid" ELSE "invalid"
           empty == restores /\ ~met
           ahead == ~restores /\ later
           f == [FreshFacts EXCEPT !.key = key, !.kind = kind, !.trigger = "job", !.fromState = from, !.fromRevision = revision,
                   !.eligible = proven, !.needsConfirmation = protected, !.confirmation = confirmed,
                   !.restoredEmpty = empty, !.future = ahead]
<1>1. JobFacts(d, j, eligible, met, later) = f
  BY DEF JobFacts
<1>2. key # "other"
  OBVIOUS
<1> HIDE DEF key, kind, from, revision, proven, protected, confirmed, empty, ahead
<1>3. f.trigger = "job" /\ f.key = key /\ f.kind = kind /\ f.fromState = from /\ f.fromRevision = revision
      /\ ~f.revisionsChanged
  BY DEF FreshFacts
<1> HIDE DEF f
<1>4. f.kind = IF j.trigger = "restore" THEN "restore_uncomputable" ELSE "widen"
  BY <1>3 DEF kind
<1>5. f.fromState => d.record[j.rec].state \in From(j.trigger)
  BY <1>3 DEF from
<1>6. f.fromRevision => d.record[j.rec].rev = j.rev
  BY <1>3 DEF revision
<1>7. QED BY <1>1, <1>2, <1>3, <1>4, <1>5, <1>6

(* A restore is never rejected: it restores, stays held or is void. *)
LEMMA RestoresAreKept ==
  ASSUME NEW f, f.trigger = "job", f.key # "other", f.kind = "restore_uncomputable", ~f.revisionsChanged
  PROVE  Verdict(f, FALSE).outcome # "rejected"
<1>1. Row(f) \in 1..31 /\ RowConditions(f)[Row(f)]
  BY RowIsFirst
<1>2. ASSUME Row(f) \in {2, 4, 6, 8, 17, 18, 19, 27} PROVE FALSE
  <2>1. ~RowConditions(f)[2] /\ ~RowConditions(f)[4] /\ ~RowConditions(f)[6] /\ ~RowConditions(f)[8]
    BY DEF RowConditions
  <2>2. ~RowConditions(f)[17] /\ ~RowConditions(f)[18] /\ ~RowConditions(f)[19] /\ ~RowConditions(f)[27]
    BY DEF RowConditions
  <2> QED BY <1>1, <1>2, <2>1, <2>2
<1>3. RowOutcome[Row(f)] # "rejected"
  BY <1>1, <1>2 DEF RowOutcome
<1>4. QED BY <1>3 DEF Verdict

\* The database as a due job j leaves it, v being the verdict.
Left(d, j, v) ==
  LET x == Fired(d, j, v)
  IN IF OwnBinds(v) THEN [x EXCEPT !.own = @ \cup {[firing |-> j, outcome |-> v.outcome]}] ELSE x

\* What a due job comes to: the keys step, no record is new, nothing is told; what applies has its record.
JobsStep(d, j, v, m) ==
  /\ Steps(d, m) /\ NoneNew(d, m) /\ m.outbox = d.outbox
  /\ v.outcome = "applied" => d.record[j.rec].state # "none"

(* A due job, whatever is proven, confirmed or ahead in time: its record's key settles with it. *)
LEMMA JobSteps ==
  ASSUME NEW d \in Databases, Linked(d), NEW j \in Firings, NEW eligible, NEW met, NEW later,
         NEW v, v = Verdict(JobFacts(d, j, eligible, met, later), FALSE)
  PROVE  JobsStep(d, j, v, Left(d, j, v))
<1> DEFINE f == JobFacts(d, j, eligible, met, later)
           x == Fired(d, j, v)
           r == j.rec
           binding == [firing |-> j, outcome |-> v.outcome]
           own == x.own \cup {binding}
           bound == [x EXCEPT !.own = own]
           m == IF OwnBinds(v) THEN bound ELSE x
<1>a. v = Verdict(f, FALSE)
  OBVIOUS
<1>1. r \in Ids /\ j.rev \in Nat /\ j.trigger \in Triggered /\ r[1] \in Keys
  BY DEF Firings, Ids
<1>2. d.record \in Records
  BY DatabaseType
<1>0. /\ f.trigger = "job" /\ f.key # "other" /\ ~f.revisionsChanged
      /\ f.kind = IF j.trigger = "restore" THEN "restore_uncomputable" ELSE "widen"
      /\ f.fromState => d.record[j.rec].state \in From(j.trigger)
      /\ f.fromRevision => d.record[j.rec].rev = j.rev
  BY JobFactsSay
<1>3. v.outcome \in {"applied", "rejected"} \cup Saved => d.record[r].state \in From(j.trigger) /\ d.record[r].rev = j.rev
  <2>1. v.outcome \in {"applied", "rejected"} \cup Saved => f.fromState /\ f.fromRevision
    <3>1. f.trigger = "job" /\ f.key # "other"
      BY <1>0
    <3> HIDE DEF f
    <3> QED BY <1>a, <3>1, ChangedByJob
  <2>2. (f.fromState => d.record[r].state \in From(j.trigger)) /\ (f.fromRevision => d.record[r].rev = j.rev)
    BY <1>0
  <2> HIDE DEF f
  <2> QED BY <2>1, <2>2
<1>4. j.trigger = "restore" => v.outcome # "rejected" /\ v.outcome \notin Saved
  <2>1. ASSUME j.trigger = "restore" PROVE v.outcome # "rejected" /\ v.outcome \notin Saved
    <3>1. f.trigger = "job" /\ f.key # "other" /\ f.kind = "restore_uncomputable" /\ ~f.revisionsChanged
      BY <2>1, <1>0
    <3> HIDE DEF f
    <3>2. v.outcome # "rejected"
      BY <1>a, <3>1, RestoresAreKept
    <3>3. v.outcome \in Saved => f.kind = "widen"
      BY <1>a, SavedWidens
    <3> QED BY <3>1, <3>2, <3>3
  <2> QED BY <2>1
<1> HIDE DEF f
<1>5. ASSUME d.record[r].state \in From(j.trigger)
      PROVE  /\ IF j.trigger = "restore" THEN d.record[r].state \in Effective ELSE d.record[r].state \in Pending
             /\ d.record[r].state # "none" /\ d.record[r] \in RecordRows
  <2>1. d.record[r].state \in (IF j.trigger = "restore" THEN Effective ELSE Pending)
    BY <1>1, <1>5 DEF From, Triggered, Effective, HeldStates, Pending
  <2>2. d.record[r].state # "none"
    BY <2>1, StatesApart
  <2> QED BY <1>1, <1>2, <2>1, <2>2 DEF Records, NoRecord
<1>6. ASSUME v.outcome \in {"applied", "rejected"}, NEW to \in States \ {"none"}, NEW y,
             to \in (IF v.outcome = "applied" THEN Effective ELSE EndedStates),
             y = Moved(d, r, to),
             x = IF v.outcome = "applied" /\ j.trigger # "restore" THEN Enacted(y, r[1]) ELSE y
      PROVE  Steps(d, m) /\ NoneNew(d, m) /\ m.outbox = d.outbox
  <2> DEFINE row == [d.record[r] EXCEPT !.state = to, !.rev = d.record[r].rev + 1]
  <2>1. d.record[r].state # "none" /\ d.record[r] \in RecordRows /\ d.record[r].rev = j.rev
        /\ IF j.trigger = "restore" THEN d.record[r].state \in Effective ELSE d.record[r].state \in Pending
    BY <1>3, <1>5, <1>6
  <2>2. y \in Databases /\ y.record = [d.record EXCEPT ![r] = row] /\ y.bound = d.bound /\ y.own = d.own
        /\ y.outbox = d.outbox /\ y.enacted = d.enacted
    <3> HIDE DEF r
    <3> QED BY <1>1, <1>6, <2>1, MovedWrites
  <2>3. row \in RecordRows /\ row.state = to /\ row.rev > j.rev
    <3>1. row.state = to /\ row.rev = j.rev + 1
      BY <2>1 DEF RecordRows
    <3>2. y.record \in Records /\ y.record[r] = row
      BY <1>1, <1>2, <2>2, DatabaseType DEF Records
    <3>3. row \in RecordRows
      <4> HIDE DEF row
      <4>1. row \in RecordRows \cup {NoRecord}
        BY <1>1, <3>2 DEF Records
      <4> QED BY <1>6, <3>1, <4>1 DEF NoRecord
    <3> QED BY <1>1, <3>1, <3>3
  <2> HIDE DEF row
  <2>4. x \in Databases /\ x.record = y.record /\ x.bound = y.bound /\ x.own = y.own /\ x.outbox = y.outbox
        /\ x.enacted = IF v.outcome = "applied" /\ j.trigger # "restore"
             THEN [y.enacted EXCEPT ![r[1]] = IF y.enacted[r[1]] < 2 THEN y.enacted[r[1]] + 1 ELSE y.enacted[r[1]]]
             ELSE y.enacted
    <3> HIDE DEF x
    <3>1. CASE v.outcome = "applied" /\ j.trigger # "restore"
      <4> HIDE DEF r
      <4> QED BY <1>1, <1>6, <2>2, <3>1, EnactedWrites
    <3>2. CASE ~(v.outcome = "applied" /\ j.trigger # "restore")
      BY <1>6, <2>2, <3>2
    <3> QED BY <3>1, <3>2
  <2> HIDE DEF x
  <2>5. binding \in [firing: Firings, outcome: {"applied", "rejected"}]
    BY <1>6
  <2>6. own \in OwnKeys
    <3> HIDE DEF binding
    <3> QED BY <2>4, <2>5, DatabaseType DEF OwnKeys
  <2>7. m = bound
    BY <1>6 DEF OwnBinds
  <2> HIDE DEF m, own
  <2>8. bound \in Databases /\ bound.own = own /\ bound.record = x.record /\ bound.bound = x.bound
        /\ bound.outbox = x.outbox /\ bound.enacted = x.enacted
    BY <2>4, <2>6, DatabaseField
  <2> HIDE DEF bound
  <2>9. m \in Databases /\ m.own = d.own \cup {[firing |-> j, outcome |-> v.outcome]} /\ m.bound = d.bound
        /\ m.record = [d.record EXCEPT ![j.rec] = row] /\ m.outbox = d.outbox
    BY <2>2, <2>4, <2>7, <2>8 DEF own
  <2>10. \/ /\ d.record[j.rec].state \in Pending
            /\ row.state \in (IF v.outcome = "applied" THEN Effective ELSE EndedStates)
            /\ m.enacted = IF v.outcome = "applied"
                 THEN [d.enacted EXCEPT ![j.rec[1]] = IF d.enacted[j.rec[1]] < 2 THEN d.enacted[j.rec[1]] + 1 ELSE d.enacted[j.rec[1]]]
                 ELSE d.enacted
         \/ d.record[j.rec].state \in Effective /\ row.state \in Effective /\ v.outcome = "applied" /\ m.enacted = d.enacted
    <3>1. CASE j.trigger = "restore"
      <4>1. v.outcome = "applied"
        BY <1>4, <1>6, <3>1
      <4>2. m.enacted = d.enacted
        BY <2>2, <2>4, <2>7, <2>8, <3>1
      <4>3. row.state \in Effective /\ d.record[j.rec].state \in Effective
        BY <1>6, <2>1, <2>3, <3>1, <4>1
      <4> QED BY <4>1, <4>2, <4>3
    <3>2. CASE j.trigger # "restore"
      <4>1. m.enacted = x.enacted
        BY <2>7, <2>8
      <4>2. d.record[j.rec].state \in Pending /\ row.state \in (IF v.outcome = "applied" THEN Effective ELSE EndedStates)
        BY <1>6, <2>1, <2>3, <3>2
      <4> QED BY <2>2, <2>4, <3>2, <4>1, <4>2
    <3> QED BY <3>1, <3>2
  <2>11. Linked(m) /\ \A q \in Keys : Follows(Answer(d, q), Answer(m, q))
    <3>1. d.record[j.rec].rev = j.rev
      BY <2>1
    <3> HIDE DEF r
    <3> QED BY <1>6, <2>3, <2>9, <2>10, <3>1, JobsChange
  <2>12. NoneNew(d, m)
    BY <1>1, <1>2, <2>1, <2>9 DEF NoneNew, Records
  <2> QED BY <2>9, <2>11, <2>12 DEF Steps
<1>7. ASSUME v.outcome \in Saved, NEW to \in Pending, NEW y, y = Moved(d, r, to),
             x = IF v.outcome = "scheduled" THEN Registered(y, r, "scheduled") ELSE y
      PROVE  Steps(d, m) /\ NoneNew(d, m) /\ m.outbox = d.outbox
  <2> DEFINE row == [d.record[r] EXCEPT !.state = to, !.rev = d.record[r].rev + 1]
  <2>1. d.record[r].state # "none" /\ d.record[r] \in RecordRows /\ d.record[r].rev = j.rev /\ d.record[r].state \in Pending
    BY <1>3, <1>4, <1>5, <1>7
  <2>2. y \in Databases /\ y.record = [d.record EXCEPT ![r] = row] /\ y.bound = d.bound /\ y.own = d.own
        /\ y.outbox = d.outbox /\ y.enacted = d.enacted
    <3>1. to \in States \ {"none"}
      BY StatesApart
    <3> HIDE DEF r
    <3> QED BY <1>1, <1>7, <2>1, <3>1, MovedWrites
  <2>3. row \in RecordRows /\ row.state = to /\ row.rev > d.record[r].rev
    <3>1. row.state = to /\ row.rev = j.rev + 1
      BY <2>1 DEF RecordRows
    <3>2. y.record \in Records /\ y.record[r] = row
      BY <1>1, <1>2, <2>2, DatabaseType DEF Records
    <3>3. row \in RecordRows
      <4> HIDE DEF row
      <4>1. row \in RecordRows \cup {NoRecord}
        BY <1>1, <3>2 DEF Records
      <4>2. row.state # "none"
        BY <3>1, StatesApart
      <4> QED BY <4>1, <4>2 DEF NoRecord
    <3> QED BY <1>1, <2>1, <3>1, <3>3
  <2>4. y.record[r].state # "none"
    <3>1. y.record[r] = row
      BY <1>1, <1>2, <2>2 DEF Records
    <3> QED BY <2>3, <3>1, StatesApart
  <2> HIDE DEF row
  <2>5. x \in Databases /\ x.record = y.record /\ x.bound = y.bound /\ x.own = y.own /\ x.outbox = y.outbox
        /\ x.enacted = y.enacted
    <3> HIDE DEF x
    <3>1. CASE v.outcome = "scheduled"
      <4> HIDE DEF r
      <4> QED BY <1>1, <1>7, <2>2, <2>4, <3>1, RegisteredWrites DEF Triggered
    <3>2. CASE v.outcome # "scheduled"
      BY <1>7, <2>2, <3>2
    <3> QED BY <3>1, <3>2
  <2> HIDE DEF x
  <2>6. m = x
    BY <1>7, OutcomesApart DEF OwnBinds
  <2> HIDE DEF m
  <2>7. m \in Databases /\ m.own = d.own /\ m.bound = d.bound /\ m.enacted = d.enacted
        /\ m.record = [d.record EXCEPT ![r] = row] /\ m.outbox = d.outbox
    BY <2>2, <2>5, <2>6
  <2>8. Linked(m) /\ \A q \in Keys : Follows(Answer(d, q), Answer(m, q))
    <3>1. row.state \in Pending
      BY <2>3
    <3> HIDE DEF r
    <3> QED BY <1>1, <2>1, <2>3, <2>7, <3>1, MovesOn
  <2>9. NoneNew(d, m)
    BY <1>1, <1>2, <2>1, <2>7 DEF NoneNew, Records
  <2> QED BY <2>7, <2>8, <2>9 DEF Steps
<1>8. CASE v.outcome = "applied"
  <2>1. x = IF j.trigger # "restore" THEN Enacted(Moved(d, r, "active"), r[1]) ELSE Moved(d, r, "active")
    BY <1>8 DEF Fired
  <2> HIDE DEF x
  <2>2. Steps(d, m) /\ NoneNew(d, m) /\ m.outbox = d.outbox
    <3> HIDE DEF m, r
    <3> QED BY <1>6, <1>8, <2>1, StatesApart
  <2> QED BY <1>3, <1>5, <1>8, <2>2 DEF x, Left, JobsStep
<1>9. CASE v.outcome = "rejected"
  <2>1. x = Moved(d, r, "ended/rejected")
    BY <1>9 DEF Fired
  <2> HIDE DEF x
  <2>2. Steps(d, m) /\ NoneNew(d, m) /\ m.outbox = d.outbox
    <3> HIDE DEF m, r
    <3> QED BY <1>6, <1>9, <2>1, StatesApart
  <2> QED BY <1>9, <2>2 DEF x, Left, JobsStep
<1>10. CASE v.outcome = "awaiting_saved"
  <2>1. x = Moved(d, r, "awaiting_confirmation")
    BY <1>10 DEF Fired
  <2> HIDE DEF x
  <2>2. Steps(d, m) /\ NoneNew(d, m) /\ m.outbox = d.outbox
    <3> HIDE DEF m, r
    <3> QED BY <1>7, <1>10, <2>1, StatesApart DEF Saved
  <2> QED BY <1>10, <2>2 DEF x, Left, JobsStep
<1>11. CASE v.outcome = "scheduled" /\ j.trigger = "confirmed"
  <2>1. x = Registered(Moved(d, r, "scheduled"), r, "scheduled")
    BY <1>11 DEF Fired
  <2> HIDE DEF x
  <2>2. Steps(d, m) /\ NoneNew(d, m) /\ m.outbox = d.outbox
    <3> HIDE DEF m, r
    <3> QED BY <1>7, <1>11, <2>1, StatesApart DEF Saved
  <2> QED BY <1>11, <2>2 DEF x, Left, JobsStep
<1>12. CASE v.outcome \notin {"applied", "rejected", "awaiting_saved"} /\ ~(v.outcome = "scheduled" /\ j.trigger = "confirmed")
  <2>1. x = d
    BY <1>12 DEF Fired
  <2>2. ~OwnBinds(v)
    BY <1>12 DEF OwnBinds
  <2> HIDE DEF x
  <2>3. Steps(d, m) /\ NoneNew(d, m) /\ m.outbox = d.outbox
    BY <2>1, <2>2, StandingStill DEF NoneNew
  <2> QED BY <1>12, <2>3 DEF x, Left, JobsStep
<1>13. QED BY <1>8, <1>9, <1>10, <1>11, <1>12 DEF Left, JobsStep

(* A confirmation registers a job and settles nothing. *)
LEMMA ConfirmSteps ==
  ASSUME NEW d \in Databases, Linked(d), NEW r \in Ids, d.record[r].state # "none"
  PROVE  LET m == Registered(d, r, "confirmed")
         IN Steps(d, m) /\ NoneNew(d, m) /\ m.outbox = d.outbox
<1> DEFINE m == Registered(d, r, "confirmed")
<1>1. m \in Databases /\ m.record = d.record /\ m.bound = d.bound /\ m.own = d.own /\ m.outbox = d.outbox
      /\ m.enacted = d.enacted
  BY RegisteredWrites DEF Triggered
<1> HIDE DEF m
<1>2. Linked(m) /\ \A k \in Keys : Answer(m, k) = Answer(d, k)
  BY <1>1, LinksOnly
<1>3. QED BY <1>1, <1>2 DEF Steps, Follows, NoneNew, m

(* A record held by the closure is as effective as it was to its key. *)
LEMMA HoldSteps ==
  ASSUME NEW d \in Databases, Linked(d), NEW r \in Ids, d.record[r].state = "active"
  PROVE  LET m == Registered(Moved(d, r, "held/uncomputable"), r, "restore")
         IN Steps(d, m) /\ NoneNew(d, m) /\ m.outbox = d.outbox
<1> DEFINE y == Moved(d, r, "held/uncomputable")
           row == [d.record[r] EXCEPT !.state = "held/uncomputable", !.rev = d.record[r].rev + 1]
           m == Registered(y, r, "restore")
<1>1. d.record \in Records /\ d.record[r] \in RecordRows
  BY DatabaseType DEF Records, NoRecord
<1>2. y \in Databases /\ y.record = [d.record EXCEPT ![r] = row] /\ y.bound = d.bound /\ y.own = d.own
      /\ y.outbox = d.outbox /\ y.enacted = d.enacted
  <2>1. "held/uncomputable" \in States \ {"none"} /\ d.record[r].state # "none"
    BY StatesApart
  <2> QED BY <2>1, MovedWrites
<1>3. y.record[r] = row /\ y.record \in Records
  BY <1>1, <1>2, DatabaseType DEF Records
<1>4. row.state = "held/uncomputable" /\ row.rev = d.record[r].rev + 1 /\ d.record[r].rev \in Nat
  BY <1>1 DEF RecordRows
<1> HIDE DEF y, row
<1>5. row \in RecordRows
  BY <1>3, <1>4 DEF Records, NoRecord
<1>6. m \in Databases /\ m.record = y.record /\ m.bound = y.bound /\ m.own = y.own /\ m.outbox = y.outbox
      /\ m.enacted = y.enacted
  BY <1>2, <1>3, <1>4, RegisteredWrites DEF Triggered
<1> HIDE DEF m
<1>7. row.rev > d.record[r].rev /\ d.record[r].state \in Effective /\ row.state \in Effective
  BY <1>4, StatesApart
<1>8. Linked(m) /\ \A q \in Keys : Follows(Answer(d, q), Answer(m, q))
  <2>1. m.record = [d.record EXCEPT ![r] = row] /\ m.bound = d.bound /\ m.own = d.own /\ m.enacted = d.enacted
    BY <1>2, <1>6
  <2> QED BY <1>5, <1>6, <1>7, <2>1, MovesOn
<1>9. NoneNew(d, m)
  BY <1>1, <1>2, <1>6 DEF NoneNew, Records
<1>10. QED BY <1>2, <1>6, <1>8, <1>9 DEF Steps, m, y

-----------------------------------------------------------------------------
(* Evidence, told and on its way *)

(* What a queue holds after one more. *)
LEMMA Appended ==
  ASSUME NEW S, NEW s \in Seq(S), NEW e \in S
  PROVE  Append(s, e) \in Seq(S) /\ Elements(Append(s, e)) = Elements(s) \cup {e}
<1>1. Append(s, e) \in Seq(S) /\ Len(Append(s, e)) = Len(s) + 1 /\ Len(s) \in Nat
  OBVIOUS
<1>2. \A n \in 1..Len(s) : Append(s, e)[n] = s[n]
  OBVIOUS
<1>3. Append(s, e)[Len(s) + 1] = e
  OBVIOUS
<1>4. 1..(Len(s) + 1) = (1..Len(s)) \cup {Len(s) + 1}
  BY <1>1
<1> DEFINE t == Append(s, e)
           last == Len(s) + 1
<1> HIDE DEF t
<1>5. {t[n] : n \in 1..last} = {t[n] : n \in 1..Len(s)} \cup {t[last]}
  BY <1>4
<1>6. {t[n] : n \in 1..Len(s)} = {s[n] : n \in 1..Len(s)}
  BY <1>2 DEF t
<1>7. QED BY <1>1, <1>3, <1>5, <1>6 DEF Elements, t

(* What a queue holds after its first is taken. *)
LEMMA Shifted ==
  ASSUME NEW S, NEW s \in Seq(S), s # <<>>
  PROVE  Tail(s) \in Seq(S) /\ Head(s) \in S /\ Head(s) \in Elements(s) /\ Elements(Tail(s)) \subseteq Elements(s)
<1>1. Tail(s) \in Seq(S) /\ Head(s) \in S /\ Len(s) \in Nat /\ Len(s) # 0 /\ Len(Tail(s)) = Len(s) - 1
  OBVIOUS
<1>2. Head(s) = s[1] /\ \A n \in 1..Len(Tail(s)) : Tail(s)[n] = s[n + 1]
  OBVIOUS
<1>3. \A n \in 1..Len(Tail(s)) : n + 1 \in 1..Len(s)
  BY <1>1
<1>4. 1 \in 1..Len(s)
  BY <1>1
<1>5. QED BY <1>1, <1>2, <1>3, <1>4 DEF Elements

(* What a queue holds is of its kind. *)
LEMMA ElementsType ==
  ASSUME NEW S, NEW s \in Seq(S)
  PROVE  Elements(s) \subseteq S
BY DEF Elements

(* A step of the keys leaves both databases linked. *)
LEMMA KeysKept ==
  ASSUME IInv, KeysStep
  PROVE  db' \in Databases /\ backup' \in Databases /\ Linked(db') /\ Linked(backup')
BY DEF IInv, TypeOK, KeysStep, Steps

(* What tells nothing and makes no record keeps records and evidence apart from intents, and what was told true. *)
LEMMA Quiet ==
  ASSUME IInv, intents' = intents, issued' = issued, took' = took, Told' \subseteq Told,
         \A r \in Ids : db'.record[r].state # "none" \/ backup'.record[r].state # "none" =>
           db.record[r].state # "none" \/ backup.record[r].state # "none"
  PROVE  Apart' /\ ToldTruly'
<1>1. IntentIds' = IntentIds /\ \A i : Used(i)' <=> Used(i)
  BY DEF IntentIds, Used
<1>2. Apart'
  BY <1>1 DEF IInv, Apart
<1>3. ToldTruly'
  BY DEF IInv, ToldTruly
<1>4. QED BY <1>2, <1>3

(* What tells nothing and begins no call leaves the calls on their way as they were. *)
LEMMA QuietCalls ==
  ASSUME IInv, intents' = intents, took' = took, Told' \subseteq Told, calls' \subseteq calls
  PROVE  OnTheWay'
<1>1. IntentIds' = IntentIds
  BY DEF IntentIds
<1>2. QED BY <1>1 DEF IInv, OnTheWay

(* The same, where the database tells what it told and the store and the backup are as they were. *)
LEMMA QuietDatabase ==
  ASSUME IInv, db'.outbox = db.outbox, NoneNew(db, db'), UNCHANGED <<backup, intents, store, issued, took>>
  PROVE  Told' = Told /\ Apart' /\ ToldTruly'
<1>1. Told' = Told
  BY DEF Told, Elements
<1>2. \A r \in Ids : db'.record[r].state # "none" \/ backup'.record[r].state # "none" =>
        db.record[r].state # "none" \/ backup.record[r].state # "none"
  BY DEF NoneNew
<1>3. QED BY <1>1, <1>2, Quiet

(* A confirmation keeps the invariant. *)
LEMMA ConfirmInv ==
  ASSUME IInv, NEW r \in Ids, Confirm(r)
  PROVE  IInv' /\ KeysStep
<1>1. db \in Databases /\ Linked(db)
  BY DEF IInv, TypeOK
<1>2. Steps(db, db') /\ NoneNew(db, db') /\ db'.outbox = db.outbox
  BY <1>1, ConfirmSteps DEF Confirm
<1>3. KeysStep
  BY <1>2 DEF Confirm, KeysStep
<1>4. TypeOK'
  BY <1>3, KeysKept DEF IInv, TypeOK, Confirm
<1>5. Apart' /\ ToldTruly' /\ OnTheWay'
  BY <1>2, QuietDatabase, QuietCalls DEF Confirm
<1>6. QED BY <1>3, <1>4, <1>5, KeysKept DEF IInv, Begun, Confirm

(* A hold keeps the invariant. *)
LEMMA HoldInv ==
  ASSUME IInv, NEW r \in Ids, Hold(r)
  PROVE  IInv' /\ KeysStep
<1>1. db \in Databases /\ Linked(db)
  BY DEF IInv, TypeOK
<1>2. Steps(db, db') /\ NoneNew(db, db') /\ db'.outbox = db.outbox
  BY <1>1, HoldSteps DEF Hold
<1>3. KeysStep
  BY <1>2 DEF Hold, KeysStep
<1>4. TypeOK'
  BY <1>3, KeysKept DEF IInv, TypeOK, Hold
<1>5. Apart' /\ ToldTruly' /\ OnTheWay'
  BY <1>2, QuietDatabase, QuietCalls DEF Hold
<1>6. QED BY <1>3, <1>4, <1>5, KeysKept DEF IInv, Begun, Hold

(* An identity not yet issued is nobody's. *)
LEMMA NewIdIsNew ==
  ASSUME IInv, NEW k \in Keys, CanIssue(k), Issue(k), NEW id, id = NewId(k)
  PROVE  /\ id \in Ids /\ id[1] = k /\ ~Used(id) /\ Used(id)'
         /\ \A i \in Ids : Used(i) => Used(i)'
         /\ issued' \in [Keys -> 0..MaxIssued]
<1>1. issued \in [Keys -> 0..MaxIssued] /\ MaxIssued \in Nat /\ issued[k] < MaxIssued
  BY ChangesParameters DEF IInv, TypeOK, CanIssue
<1>2. PICK n : n = issued[k]
  OBVIOUS
<1>3. n \in 0..MaxIssued /\ n + 1 \in 1..MaxIssued
  BY <1>1, <1>2
<1>4. issued' = [issued EXCEPT ![k] = n + 1] /\ id = <<k, n + 1>>
  BY <1>2 DEF Issue, NewId
<1>5. id \in Ids /\ id[1] = k /\ id[2] = n + 1
  BY <1>3, <1>4 DEF Ids
<1>6. issued' \in [Keys -> 0..MaxIssued]
  BY <1>1, <1>3, <1>4
<1>7. issued'[k] = n + 1 /\ \A q \in Keys : q # k => issued'[q] = issued[q]
  BY <1>1, <1>4
<1>8. ~Used(id) /\ Used(id)'
  BY <1>2, <1>3, <1>5, <1>7 DEF Used
<1>9. ASSUME NEW i \in Ids, Used(i) PROVE Used(i)'
  <2>1. i[1] \in Keys /\ i[2] \in Nat
    BY DEF Ids
  <2> QED BY <1>2, <1>3, <1>7, <1>9, <2>1 DEF Used
<1>10. QED BY <1>5, <1>6, <1>8, <1>9

(* What the invariant says of the types, in the forms the steps need. *)
LEMMA Typed ==
  ASSUME IInv
  PROVE  /\ db \in Databases /\ backup \in Databases /\ Linked(db) /\ Linked(backup)
         /\ db.outbox \in Seq(Conclusions) /\ store \in Seq(Conclusions) /\ Told \subseteq Conclusions
         /\ intents \subseteq Intents /\ IntentIds \subseteq Ids
<1>1. db.outbox \in Seq(Conclusions) /\ backup.outbox \in Seq(Conclusions) /\ store \in Seq(Conclusions)
  BY DatabaseType DEF IInv, TypeOK, Queues
<1>2. Told \subseteq Conclusions
  BY <1>1, ElementsType DEF Told
<1>3. intents \subseteq Intents /\ IntentIds \subseteq Ids
  BY DEF IInv, TypeOK, IntentIds, Intents
<1>4. QED BY <1>1, <1>2, <1>3 DEF IInv, TypeOK

(* A widening's request keeps the invariant: its record and its evidence have a new identity, no intent's. *)
LEMMA SubmitInv ==
  ASSUME IInv, NEW k \in Keys, NEW c, NEW eligible, Submit(k, c, eligible)
  PROVE  IInv' /\ KeysStep
<1>1. PICK id : id = NewId(k)
  OBVIOUS
<1>2. PICK v : v = Verdict(UserFacts(db, k, c, eligible), FALSE)
  OBVIOUS
<1>3. PICK d : d = Effect(db, k, c, v, id)
  OBVIOUS
<1>4. PICK e : e = WideningOf(id, k, c, TRUE)
  OBVIOUS
<1>5. /\ [key |-> k, of |-> c] \in Asked /\ c.ask \in Widenings /\ CanIssue(k) /\ Issue(k) /\ phase = "serving"
      /\ db' = IF v.outcome = "applied" THEN Evident(d, e) ELSE d
      /\ UNCHANGED <<backup, intents, store, calls, phase, cursor, failed, before, took>>
  BY <1>1, <1>2, <1>3, <1>4 DEF Submit
<1>6. c \in Contents /\ c \in WideningContents
  <2>1. c \in Contents
    BY <1>5, ChangesParameters
  <2> QED BY <1>5, <2>1 DEF Contents, TighteningContents, Widenings, Tightenings
<1>7. /\ id \in Ids /\ id[1] = k /\ ~Used(id) /\ Used(id)' /\ \A i \in Ids : Used(i) => Used(i)'
      /\ issued' \in [Keys -> 0..MaxIssued]
  BY <1>1, <1>5, NewIdIsNew
<1>8. Steps(db, d) /\ d.outbox = db.outbox /\ OnlyNew(db, d, id)
  <2>1. db \in Databases /\ Linked(db)
    BY Typed
  <2>2. c.ask \in Widenings => id \in Ids /\ id[1] = k
    BY <1>7
  <2>3. c \in Contents
    BY <1>6
  <2>4. LET m == Effect(db, k, c, Verdict(UserFacts(db, k, c, eligible), FALSE), id)
        IN Steps(db, m) /\ m.outbox = db.outbox /\ IF c.ask \in Widenings THEN OnlyNew(db, m, id) ELSE NoneNew(db, m)
    BY <2>1, <2>2, <2>3, UserSteps
  <2>5. c.ask \in Widenings
    BY <1>5
  <2> QED BY <1>2, <1>3, <2>4, <2>5
<1>9. e \in Conclusions /\ e.id = id /\ e.phase = "general"
  BY <1>4, <1>6, <1>7 DEF WideningOf, Conclusions
<1>10. /\ Steps(db, db') /\ OnlyNew(db, db', id)
       /\ db'.outbox = IF v.outcome = "applied" THEN Append(db.outbox, e) ELSE db.outbox
  <2>1. CASE v.outcome = "applied"
    <3> DEFINE m == Evident(d, e)
    <3>1. d \in Databases /\ Linked(d)
      BY <1>8 DEF Steps
    <3>2. m \in Databases /\ m.outbox = Append(d.outbox, e) /\ m.record = d.record /\ m.bound = d.bound /\ m.own = d.own
          /\ m.enacted = d.enacted
      BY <1>9, <3>1, EvidentWrites
    <3> HIDE DEF m
    <3>3. Linked(m) /\ \A q \in Keys : Answer(m, q) = Answer(d, q)
      BY <3>1, <3>2, LinksOnly
    <3>4. Steps(db, m) /\ OnlyNew(db, m, id)
      BY <1>8, <3>2, <3>3 DEF Steps, OnlyNew
    <3>5. db' = m
      BY <1>5, <2>1 DEF m
    <3> QED BY <1>8, <2>1, <3>2, <3>4, <3>5
  <2>2. CASE v.outcome # "applied"
    BY <1>5, <1>8, <2>2
  <2> QED BY <2>1, <2>2
<1>11. KeysStep
  BY <1>5, <1>10 DEF KeysStep
<1>12. Told' \subseteq Told \cup {e}
  BY <1>5, <1>9, <1>10, Typed, Appended DEF Told
<1>13. IntentIds' = IntentIds
  BY <1>5 DEF IntentIds
<1>14. TypeOK'
  BY <1>5, <1>7, <1>11, KeysKept DEF IInv, TypeOK
<1>15. id \notin IntentIds
  BY <1>7 DEF IInv, Apart
<1>16. Apart'
  <2>1. took' \subseteq IntentIds' /\ \A i \in IntentIds' : Used(i)'
    BY <1>5, <1>7, <1>13, Typed DEF IInv, Apart
  <2>2. ASSUME NEW r \in Ids, db'.record[r].state # "none" \/ backup'.record[r].state # "none"
        PROVE  Used(r)' /\ r \notin IntentIds'
    <3>1. db.record[r].state # "none" \/ backup.record[r].state # "none" \/ r = id
      BY <1>5, <1>10, <2>2 DEF OnlyNew
    <3> QED BY <1>7, <1>13, <1>15, <3>1 DEF IInv, Apart
  <2>3. ASSUME NEW x \in Told'
        PROVE  IF x.phase = "general" THEN Used(x.id)' /\ x.id \notin IntentIds' ELSE x.id \in IntentIds'
    <3>1. CASE x = e
      BY <1>7, <1>9, <1>13, <1>15, <3>1
    <3>2. CASE x \in Told
      <4>1. x.id \in Ids
        BY <3>2, Typed DEF Conclusions
      <4> QED BY <1>7, <1>13, <3>2, <4>1 DEF IInv, Apart
    <3> QED BY <1>12, <3>1, <3>2
  <2> QED BY <2>1, <2>2, <2>3 DEF Apart
<1>17. OnTheWay'
  <2>1. \A a \in calls : e.id # a.call.id
    BY <1>9, <1>15 DEF IInv, OnTheWay
  <2> QED BY <1>5, <1>12, <1>13, <2>1 DEF IInv, OnTheWay
<1>18. ToldTruly'
  BY <1>5, <1>9, <1>12 DEF IInv, ToldTruly
<1>19. QED BY <1>5, <1>11, <1>14, <1>16, <1>17, <1>18, KeysKept DEF IInv, Begun

(* A tightening's intent keeps the invariant: its identity is a new one, nobody's and told of by nothing. *)
LEMMA BeginInv ==
  ASSUME IInv, NEW k \in Keys, NEW c, Begin(k, c)
  PROVE  IInv' /\ KeysStep
<1>1. PICK id : id = NewId(k)
  OBVIOUS
<1>2. PICK call : call = [id |-> id, key |-> k, of |-> c]
  OBVIOUS
<1>3. PICK a : a = [call |-> call, open |-> TRUE]
  OBVIOUS
<1>4. /\ [key |-> k, of |-> c] \in Asked /\ c.ask \in Tightenings /\ CanIssue(k) /\ Issue(k) /\ phase = "serving"
      /\ intents' = intents \cup {call} /\ calls' = calls \cup {a}
      /\ UNCHANGED <<db, backup, store, phase, cursor, failed, before, took>>
  BY <1>1, <1>2, <1>3 DEF Begin
<1>5. c \in TighteningContents
  <2>1. c \in Contents
    BY <1>4, ChangesParameters
  <2> QED BY <1>4, <2>1 DEF Contents, WideningContents, Widenings, Tightenings
<1>6. /\ id \in Ids /\ ~Used(id) /\ Used(id)' /\ \A i \in Ids : Used(i) => Used(i)'
      /\ issued' \in [Keys -> 0..MaxIssued]
  BY <1>1, <1>4, NewIdIsNew
<1>7. call \in Intents /\ call.id = id /\ a.call = call /\ a \in [call: Intents, open: BOOLEAN]
  BY <1>2, <1>3, <1>5, <1>6 DEF Intents
<1>8. Steps(db, db')
  BY <1>4, Typed, StandingStill
<1>9. KeysStep
  BY <1>4, <1>8 DEF KeysStep
<1>10. TypeOK'
  BY <1>4, <1>6, <1>7, <1>9, KeysKept DEF IInv, TypeOK
<1>11. IntentIds' = IntentIds \cup {id}
  BY <1>4, <1>7 DEF IntentIds
<1>12. Told' = Told
  BY <1>4 DEF Told
<1>13. id \notin IntentIds /\ id \notin took /\ (\A e \in Told : e.id # id)
       /\ \A r \in Ids : db.record[r].state # "none" \/ backup.record[r].state # "none" => r # id
  BY <1>6 DEF IInv, Apart
<1>14. Apart'
  <2>1. took' \subseteq IntentIds' /\ \A i \in IntentIds' : Used(i)'
    BY <1>4, <1>6, <1>11, Typed DEF IInv, Apart
  <2>2. ASSUME NEW r \in Ids, db'.record[r].state # "none" \/ backup'.record[r].state # "none"
        PROVE  Used(r)' /\ r \notin IntentIds'
    BY <1>4, <1>6, <1>11, <1>13, <2>2 DEF IInv, Apart
  <2>3. ASSUME NEW x \in Told'
        PROVE  IF x.phase = "general" THEN Used(x.id)' /\ x.id \notin IntentIds' ELSE x.id \in IntentIds'
    <3>1. x.id \in Ids
      BY <1>12, Typed DEF Conclusions
    <3> QED BY <1>6, <1>11, <1>12, <1>13, <3>1 DEF IInv, Apart
  <2> QED BY <2>1, <2>2, <2>3 DEF Apart
<1>15. OnTheWay'
  <2>1. \A b \in calls : b.call.id # id
    BY <1>13 DEF IInv, OnTheWay
  <2> QED BY <1>4, <1>7, <1>11, <1>12, <1>13, <2>1 DEF IInv, OnTheWay
<1>16. ToldTruly'
  BY <1>4, <1>12 DEF IInv, ToldTruly
<1>17. QED BY <1>4, <1>9, <1>10, <1>14, <1>15, <1>16, KeysKept DEF IInv, Begun

(* A failed transaction keeps the invariant. *)
LEMMA FailInv ==
  ASSUME IInv, NEW a \in calls, Fail(a)
  PROVE  IInv' /\ KeysStep
<1>1. PICK b : b = [a EXCEPT !.open = FALSE]
  OBVIOUS
<1>2. /\ calls' = (calls \ {a}) \cup {b}
      /\ UNCHANGED <<db, backup, intents, store, issued, phase, cursor, failed, before, took>>
  BY <1>1 DEF Fail
<1>3. a \in [call: Intents, open: BOOLEAN] /\ b \in [call: Intents, open: BOOLEAN] /\ b.call = a.call
  BY <1>1 DEF IInv, TypeOK
<1>4. Steps(db, db')
  BY <1>2, Typed, StandingStill
<1>5. KeysStep
  BY <1>2, <1>4 DEF KeysStep
<1>6. TypeOK'
  BY <1>2, <1>3, <1>5, KeysKept DEF IInv, TypeOK
<1>7. Told' = Told /\ IntentIds' = IntentIds
  BY <1>2 DEF Told, IntentIds
<1>8. Apart' /\ ToldTruly'
  BY <1>2, <1>7, Quiet
<1>9. OnTheWay'
  BY <1>2, <1>3, <1>7 DEF IInv, OnTheWay
<1>10. QED BY <1>2, <1>5, <1>6, <1>8, <1>9, KeysKept DEF IInv, Begun

(* A crash keeps the invariant. *)
LEMMA CrashInv ==
  ASSUME IInv, Crash
  PROVE  IInv' /\ KeysStep
<1>1. calls' = {} /\ UNCHANGED <<db, backup, intents, store, issued, phase, cursor, failed, before, took>>
  BY DEF Crash
<1>2. Steps(db, db')
  BY <1>1, Typed, StandingStill
<1>3. KeysStep
  BY <1>1, <1>2 DEF KeysStep
<1>4. TypeOK'
  BY <1>1, <1>3, KeysKept DEF IInv, TypeOK
<1>5. Told' = Told
  BY <1>1 DEF Told
<1>6. Apart' /\ ToldTruly' /\ OnTheWay'
  BY <1>1, <1>5, Quiet, QuietCalls
<1>7. QED BY <1>1, <1>3, <1>4, <1>6, KeysKept DEF IInv, Begun

(* A cancelled conclusion keeps the invariant: what it tells of has not committed, nor will it. *)
LEMMA CancelInv ==
  ASSUME IInv, NEW a \in calls, Cancel(a)
  PROVE  IInv' /\ KeysStep
<1>1. PICK e : e = [id |-> a.call.id, key |-> a.call.key, of |-> a.call.of, phase |-> "cancelled", rec |-> a.call.of.on,
                    candidate |-> FALSE]
  OBVIOUS
<1>2. PICK queue : queue = Append(db.outbox, e)
  OBVIOUS
<1>3. /\ db' = [db EXCEPT !.outbox = queue] /\ calls' = calls \ {a}
      /\ UNCHANGED <<backup, intents, store, issued, phase, cursor, failed, before, took>>
  BY <1>1, <1>2 DEF Cancel
<1>4. a.call \in Intents /\ a.call.id \in IntentIds /\ a.call.id \notin took /\ \A x \in Told : x.id # a.call.id
  BY DEF IInv, TypeOK, OnTheWay
<1>5. e \in Conclusions /\ e.id = a.call.id /\ e.phase = "cancelled"
  BY <1>1, <1>4 DEF Conclusions, Intents, TighteningContents
<1>6. db \in Databases /\ Linked(db) /\ queue \in Queues /\ Elements(queue) = Elements(db.outbox) \cup {e}
  BY <1>2, <1>5, Typed, Appended DEF Queues
<1>7. db' \in Databases /\ db'.outbox = queue /\ db'.record = db.record /\ db'.bound = db.bound /\ db'.own = db.own
      /\ db'.enacted = db.enacted
  BY <1>3, <1>6, DatabaseField
<1>8. Linked(db') /\ \A q \in Keys : Answer(db', q) = Answer(db, q)
  BY <1>6, <1>7, LinksOnly
<1>9. KeysStep
  BY <1>3, <1>7, <1>8 DEF KeysStep, Steps, Follows
<1>10. TypeOK'
  BY <1>3, <1>9, KeysKept DEF IInv, TypeOK
<1>11. IntentIds' = IntentIds /\ Told' = Told \cup {e}
  BY <1>3, <1>6, <1>7 DEF Told, IntentIds
<1>12. \A i : Used(i)' <=> Used(i)
  BY <1>3 DEF Used
<1>13. Apart'
  BY <1>3, <1>4, <1>5, <1>7, <1>11, <1>12 DEF IInv, Apart
<1>14. OnTheWay'
  BY <1>3, <1>5, <1>11 DEF IInv, OnTheWay
<1>15. ToldTruly'
  BY <1>3, <1>4, <1>5, <1>11 DEF IInv, ToldTruly
<1>16. QED BY <1>3, <1>9, <1>10, <1>13, <1>14, <1>15, KeysKept DEF IInv, Begun

(* A tightening's transaction keeps the invariant: it tells of its effect exactly when it took place in it. *)
LEMMA CommitInv ==
  ASSUME IInv, NEW a \in calls, NEW eligible, Commit(a, eligible)
  PROVE  IInv' /\ KeysStep
<1>1. PICK k, c : k = a.call.key /\ c = a.call.of
  OBVIOUS
<1>2. PICK invalid : invalid = Invalid(c)
  OBVIOUS
<1>3. PICK v : v = Verdict(UserFacts(db, k, c, eligible), invalid)
  OBVIOUS
<1>4. PICK d : d = Effect(db, k, c, v, None)
  OBVIOUS
<1>5. PICK e : e = [id |-> a.call.id, key |-> k, of |-> c, phase |-> "effective", rec |-> c.on, candidate |-> c.ask = "narrow"]
  OBVIOUS
<1>6. PICK closed : closed = [a EXCEPT !.open = FALSE]
  OBVIOUS
<1>7. /\ db' = IF v.outcome = "applied" THEN Evident(d, e) ELSE d
      /\ took' = IF v.outcome = "applied" THEN took \cup {a.call.id} ELSE took
      /\ calls' = IF v.outcome = "applied" THEN calls \ {a} ELSE (calls \ {a}) \cup {closed}
      /\ UNCHANGED <<backup, intents, store, issued, phase, cursor, failed, before>>
  BY <1>1, <1>2, <1>3, <1>4, <1>5, <1>6 DEF Commit, Concluded
<1>8. a \in [call: Intents, open: BOOLEAN] /\ a.call \in Intents /\ a.call.id \in IntentIds /\ a.call.id \notin took
      /\ \A x \in Told : x.id # a.call.id
  BY DEF IInv, TypeOK, OnTheWay
<1>9. k \in Keys /\ c \in TighteningContents /\ c \in Contents /\ c.ask \notin Widenings /\ a.call.id \in Ids
  BY <1>1, <1>8 DEF Intents, Contents, TighteningContents, Widenings, Tightenings
<1>10. closed \in [call: Intents, open: BOOLEAN] /\ closed.call = a.call
  BY <1>6, <1>8
<1>11. e \in Conclusions /\ e.id = a.call.id /\ e.phase = "effective"
  BY <1>5, <1>9 DEF Conclusions, TighteningContents
<1>12. Steps(db, d) /\ d.outbox = db.outbox /\ NoneNew(db, d)
  <2>1. db \in Databases /\ Linked(db)
    BY Typed
  <2>2. LET m == Effect(db, k, c, Verdict(UserFacts(db, k, c, eligible), invalid), None)
        IN Steps(db, m) /\ m.outbox = db.outbox /\ IF c.ask \in Widenings THEN OnlyNew(db, m, None) ELSE NoneNew(db, m)
    BY <1>9, <2>1, UserSteps
  <2> QED BY <1>3, <1>4, <1>9, <2>2
<1>13. IntentIds' = IntentIds /\ \A i : Used(i)' <=> Used(i)
  BY <1>7 DEF IntentIds, Used
<1>14. CASE v.outcome # "applied"
  <2>1. KeysStep
    BY <1>7, <1>12, <1>14 DEF KeysStep
  <2>2. TypeOK'
    BY <1>7, <1>10, <1>14, <2>1, KeysKept DEF IInv, TypeOK
  <2>3. Told' = Told /\ Apart' /\ ToldTruly'
    BY <1>7, <1>12, <1>14, QuietDatabase
  <2>4. OnTheWay'
    BY <1>7, <1>8, <1>10, <1>13, <1>14, <2>3 DEF IInv, OnTheWay
  <2> QED BY <1>7, <2>1, <2>2, <2>3, <2>4, KeysKept DEF IInv, Begun
<1>15. CASE v.outcome = "applied"
  <2> DEFINE m == Evident(d, e)
  <2>1. d \in Databases /\ Linked(d)
    BY <1>12 DEF Steps
  <2>2. m \in Databases /\ m.outbox = Append(d.outbox, e) /\ m.record = d.record /\ m.bound = d.bound /\ m.own = d.own
        /\ m.enacted = d.enacted
    BY <1>11, <2>1, EvidentWrites
  <2> HIDE DEF m
  <2>3. Linked(m) /\ \A q \in Keys : Answer(m, q) = Answer(d, q)
    BY <2>1, <2>2, LinksOnly
  <2>4. Steps(db, m) /\ NoneNew(db, m)
    BY <1>12, <2>2, <2>3 DEF Steps, NoneNew
  <2>5. db' = m
    BY <1>7, <1>15 DEF m
  <2>6. KeysStep
    BY <1>7, <2>4, <2>5 DEF KeysStep
  <2>7. TypeOK'
    BY <1>7, <1>8, <1>9, <1>15, <2>6, KeysKept DEF IInv, TypeOK
  <2>8. Elements(db'.outbox) = Elements(db.outbox) \cup {e}
    <3>1. Elements(Append(db.outbox, e)) = Elements(db.outbox) \cup {e}
      BY <1>11, Typed, Appended
    <3> QED BY <1>12, <2>2, <2>5, <3>1
  <2>9. Told' = Told \cup {e}
    BY <1>7, <2>8 DEF Told
  <2>10. Apart'
    BY <1>7, <1>8, <1>11, <1>13, <1>15, <2>4, <2>5, <2>9 DEF IInv, Apart, NoneNew
  <2>11. OnTheWay'
    BY <1>7, <1>11, <1>13, <1>15, <2>9 DEF IInv, OnTheWay
  <2>12. ToldTruly'
    BY <1>7, <1>8, <1>11, <1>15, <2>9 DEF IInv, ToldTruly
  <2> QED BY <1>7, <2>6, <2>7, <2>10, <2>11, <2>12, KeysKept DEF IInv, Begun
<1>16. QED BY <1>14, <1>15

(* A job is a saved record's: of what it brings into effect, the record's evidence goes with it. *)
LEMMA DueInv ==
  ASSUME IInv, NEW j \in db.jobs, NEW eligible, NEW met, NEW later, Due(j, eligible, met, later)
  PROVE  IInv' /\ KeysStep
<1>1. PICK f : f = JobFacts(db, j, eligible, met, later)
  OBVIOUS
<1>2. PICK v : v = Verdict(f, FALSE)
  OBVIOUS
<1>4. PICK own : own = Left(db, j, v)
  OBVIOUS
<1>5. PICK c : c = [ask |-> db.record[j.rec].ask, on |-> None, at |-> 0]
  OBVIOUS
<1>6. PICK e : e = WideningOf(j.rec, j.rec[1], c, FALSE)
  OBVIOUS
<1>7. /\ db' = IF v.outcome = "applied" /\ f.kind = "widen" THEN Evident(own, e) ELSE own
      /\ UNCHANGED <<backup, intents, store, issued, calls, phase, cursor, failed, before, took>>
  BY <1>1, <1>2, <1>4, <1>5, <1>6 DEF Due, Left
<1>8. db \in Databases /\ Linked(db)
  BY Typed
<1>9. j \in Firings
  BY <1>8, DatabaseType DEF WorkItems
<1>10. /\ Steps(db, own) /\ NoneNew(db, own) /\ own.outbox = db.outbox
       /\ v.outcome = "applied" => db.record[j.rec].state # "none"
  <2>1. v = Verdict(JobFacts(db, j, eligible, met, later), FALSE)
    BY <1>1, <1>2
  <2>2. JobsStep(db, j, v, own)
    BY <1>4, <1>8, <1>9, <2>1, JobSteps
  <2> QED BY <2>2 DEF JobsStep
<1>11. IntentIds' = IntentIds /\ \A i : Used(i)' <=> Used(i)
  BY <1>7 DEF IntentIds, Used
<1>12. CASE ~(v.outcome = "applied" /\ f.kind = "widen")
  <2>1. db' = own
    BY <1>7, <1>12
  <2>2. KeysStep
    BY <1>7, <1>10, <2>1 DEF KeysStep
  <2>3. TypeOK'
    BY <1>7, <2>2, KeysKept DEF IInv, TypeOK
  <2>4. Apart' /\ ToldTruly' /\ OnTheWay'
    BY <1>7, <1>10, <2>1, QuietDatabase, QuietCalls
  <2> QED BY <1>7, <2>2, <2>3, <2>4, KeysKept DEF IInv, Begun
<1>13. CASE v.outcome = "applied" /\ f.kind = "widen"
  <2> DEFINE m == Evident(own, e)
  <2>1. j.rec \in Ids /\ j.rec[1] \in Keys /\ db.record[j.rec].state # "none"
    BY <1>9, <1>10, <1>13 DEF Firings, Ids
  <2>2. db.record[j.rec].ask \in Widenings
    BY <1>8, <2>1, DatabaseType DEF Records, RecordRows, NoRecord
  <2>3. c \in WideningContents
    BY <1>5, <2>2 DEF WideningContents
  <2>4. e \in Conclusions /\ e.id = j.rec /\ e.phase = "general"
    BY <1>6, <2>1, <2>3 DEF WideningOf, Conclusions
  <2>5. own \in Databases /\ Linked(own)
    BY <1>10 DEF Steps
  <2>6. m \in Databases /\ m.outbox = Append(own.outbox, e) /\ m.record = own.record /\ m.bound = own.bound /\ m.own = own.own
        /\ m.enacted = own.enacted
    BY <2>4, <2>5, EvidentWrites
  <2> HIDE DEF m
  <2>7. Linked(m) /\ \A q \in Keys : Answer(m, q) = Answer(own, q)
    BY <2>5, <2>6, LinksOnly
  <2>8. Steps(db, m) /\ NoneNew(db, m)
    BY <1>10, <2>6, <2>7 DEF Steps, NoneNew
  <2>9. db' = m
    BY <1>7, <1>13 DEF m
  <2>10. KeysStep
    BY <1>7, <2>8, <2>9 DEF KeysStep
  <2>11. TypeOK'
    BY <1>7, <2>10, KeysKept DEF IInv, TypeOK
  <2>12. Elements(db'.outbox) = Elements(db.outbox) \cup {e}
    <3>1. Elements(Append(db.outbox, e)) = Elements(db.outbox) \cup {e}
      BY <2>4, Typed, Appended
    <3> QED BY <1>10, <2>6, <2>9, <3>1
  <2>13. Told' = Told \cup {e}
    BY <1>7, <2>12 DEF Told
  <2>14. Used(j.rec) /\ j.rec \notin IntentIds
    BY <2>1 DEF IInv, Apart
  <2>15. Apart'
    BY <1>7, <1>11, <2>4, <2>8, <2>9, <2>13, <2>14 DEF IInv, Apart, NoneNew
  <2>16. OnTheWay'
    BY <1>7, <1>11, <2>4, <2>13, <2>14 DEF IInv, OnTheWay
  <2>17. ToldTruly'
    BY <1>7, <2>4, <2>13 DEF IInv, ToldTruly
  <2> QED BY <1>7, <2>10, <2>11, <2>15, <2>16, <2>17, KeysKept DEF IInv, Begun
<1>14. QED BY <1>12, <1>13

(* The delivery of a conclusion keeps the invariant: told stays told. *)
LEMMA DeliverInv ==
  ASSUME IInv, Deliver
  PROVE  IInv' /\ KeysStep
<1>1. PICK e, rest : e = Head(db.outbox) /\ rest = Tail(db.outbox)
  OBVIOUS
<1>2. /\ db.outbox # <<>> /\ store' = Append(store, e) /\ db' = [db EXCEPT !.outbox = rest]
      /\ UNCHANGED <<backup, intents, issued, calls, phase, cursor, failed, before, took>>
  BY <1>1 DEF Deliver
<1>3. db \in Databases /\ Linked(db) /\ db.outbox \in Seq(Conclusions) /\ store \in Seq(Conclusions)
  BY Typed
<1>4. rest \in Queues /\ e \in Conclusions /\ e \in Elements(db.outbox) /\ Elements(rest) \subseteq Elements(db.outbox)
  BY <1>1, <1>2, <1>3, Shifted DEF Queues
<1>5. store' \in Seq(Conclusions) /\ Elements(store') = Elements(store) \cup {e}
  BY <1>2, <1>3, <1>4, Appended
<1>6. db' \in Databases /\ db'.outbox = rest /\ db'.record = db.record /\ db'.bound = db.bound /\ db'.own = db.own
      /\ db'.enacted = db.enacted
  BY <1>2, <1>3, <1>4, DatabaseField
<1>7. Linked(db') /\ \A q \in Keys : Answer(db', q) = Answer(db, q)
  BY <1>3, <1>6, LinksOnly
<1>8. KeysStep
  BY <1>2, <1>6, <1>7 DEF KeysStep, Steps, Follows
<1>9. TypeOK'
  BY <1>2, <1>5, <1>8, KeysKept DEF IInv, TypeOK
<1>10. Elements(db.outbox)' \subseteq Elements(db.outbox) /\ Elements(store)' = Elements(store) \cup {e}
       /\ Elements(backup.outbox)' = Elements(backup.outbox)
  BY <1>2, <1>4, <1>5, <1>6 DEF Elements
<1>11. Told' \subseteq Told
  BY <1>4, <1>10 DEF Told
<1>12. Apart' /\ ToldTruly' /\ OnTheWay'
  BY <1>2, <1>6, <1>11, Quiet, QuietCalls
<1>13. QED BY <1>2, <1>8, <1>9, <1>12, KeysKept DEF IInv, Begun

(* A backup keeps the invariant. *)
LEMMA BackupInv ==
  ASSUME IInv, Backup
  PROVE  IInv' /\ KeysStep
<1>1. backup' = db /\ UNCHANGED <<db, intents, store, issued, calls, phase, cursor, failed, before, took>>
  BY DEF Backup
<1>2. KeysStep
  BY <1>1 DEF KeysStep
<1>3. db \in Databases /\ Linked(db)
  BY Typed
<1>4. TypeOK'
  BY <1>1, <1>3 DEF IInv, TypeOK
<1>5. Told' \subseteq Told
  BY <1>1 DEF Told, Elements
<1>6. Apart' /\ ToldTruly' /\ OnTheWay'
  BY <1>1, <1>5, Quiet, QuietCalls
<1>7. QED BY <1>1, <1>2, <1>3, <1>4, <1>6 DEF IInv, Begun

(* A disaster keeps the invariant: the backup was linked, what was on its way is forgotten. *)
LEMMA DisasterInv ==
  ASSUME IInv, Disaster
  PROVE  IInv' /\ KeysStep
<1>1. /\ before' = db.record /\ db' = backup /\ calls' = {} /\ phase' = "replaying" /\ cursor' = 1
      /\ UNCHANGED <<backup, intents, store, issued, failed, took>>
  BY DEF Disaster
<1>2. KeysStep
  BY <1>1 DEF KeysStep
<1>3. backup \in Databases /\ Linked(backup) /\ db.record \in Records
  BY Typed, DatabaseType
<1>4. TypeOK'
  BY <1>1, <1>3 DEF IInv, TypeOK, Records
<1>5. Told' \subseteq Told
  BY <1>1 DEF Told, Elements
<1>6. Apart' /\ ToldTruly' /\ OnTheWay'
  BY <1>1, <1>5, Quiet, QuietCalls
<1>7. QED BY <1>1, <1>2, <1>3, <1>4, <1>6 DEF IInv, Begun

(* What is replayed of evidence whose identity, of a widening, is no intent's. *)
LEMMA ReplayedInv ==
  ASSUME IInv, NEW e, Replayed(e), e.key \in Keys, e.of \in Contents, e.id \in Ids, e.rec \in Ids,
         e.of.ask \in Widenings => e.rec[1] = e.key /\ Used(e.rec) /\ e.rec \notin IntentIds,
         UNCHANGED <<backup, intents, store, issued, calls, phase, before, took>>, cursor' \in {cursor, cursor + 1}
  PROVE  IInv' /\ KeysStep
<1>1. db \in Databases /\ Linked(db) /\ store \in Seq(Conclusions)
  BY Typed
<1>2. PICK m : m = Replay(db, e).db
  OBVIOUS
<1>3. Steps(db, m) /\ m.outbox = db.outbox /\ IF e.of.ask \in Widenings THEN OnlyNew(db, m, e.rec) ELSE NoneNew(db, m)
  BY <1>1, <1>2, ReplaySteps
<1>4. (db' = db \/ db' = m) /\ (failed' = failed \/ failed' = failed \cup {e.id})
  BY <1>2 DEF Replayed
<1>5. /\ Steps(db, db') /\ db'.outbox = db.outbox
      /\ IF e.of.ask \in Widenings THEN OnlyNew(db, db', e.rec) ELSE NoneNew(db, db')
  BY <1>1, <1>3, <1>4, StandingStill DEF OnlyNew, NoneNew
<1>6. KeysStep
  BY <1>5 DEF KeysStep
<1>7. cursor' \in Nat /\ (phase = "replaying" => cursor' # 0)
  BY DEF IInv, TypeOK, Begun
<1>8. TypeOK'
  BY <1>4, <1>6, <1>7, KeysKept DEF IInv, TypeOK
<1>9. Told' = Told
  BY <1>5 DEF Told, Elements
<1>10. IntentIds' = IntentIds /\ \A i : Used(i)' <=> Used(i)
  BY DEF IntentIds, Used
<1>11. Apart'
  <2>1. ASSUME NEW r \in Ids, db'.record[r].state # "none" \/ backup'.record[r].state # "none"
        PROVE  Used(r) /\ r \notin IntentIds
    BY <1>5, <2>1 DEF IInv, Apart, OnlyNew, NoneNew
  <2> QED BY <1>9, <1>10, <2>1 DEF IInv, Apart
<1>12. ToldTruly' /\ OnTheWay'
  BY <1>9, <1>10 DEF IInv, ToldTruly, OnTheWay
<1>13. QED BY <1>6, <1>7, <1>8, <1>11, <1>12, KeysKept DEF IInv, Begun

(* The replay of the next conclusion keeps the invariant. *)
LEMMA ReplayNextInv ==
  ASSUME IInv, ReplayNext
  PROVE  IInv' /\ KeysStep
<1>1. PICK e : e = store[cursor]
  OBVIOUS
<1>2. /\ phase = "replaying" /\ cursor <= Len(store) /\ cursor' = cursor + 1
      /\ IF e.phase = "cancelled" THEN UNCHANGED <<db, failed>> ELSE Replayed(e)
      /\ UNCHANGED <<backup, intents, store, issued, calls, phase, before, took>>
  BY <1>1 DEF ReplayNext
<1>3. store \in Seq(Conclusions) /\ cursor \in 1..Len(store)
  BY <1>2, Typed DEF IInv, TypeOK, Begun
<1>4. e \in Conclusions /\ e \in Told
  BY <1>1, <1>3 DEF Told, Elements
<1>5. CASE e.phase = "cancelled"
  <2>1. UNCHANGED <<db, backup, intents, store, issued, calls, phase, failed, before, took>> /\ cursor' = cursor + 1
    BY <1>2, <1>5
  <2>2. Steps(db, db')
    BY <2>1, Typed, StandingStill
  <2>3. KeysStep
    BY <2>1, <2>2 DEF KeysStep
  <2>4. cursor' \in Nat /\ cursor' # 0
    BY <1>3, <2>1
  <2>5. TypeOK'
    BY <2>1, <2>3, <2>4, KeysKept DEF IInv, TypeOK
  <2>6. Told' = Told
    BY <2>1 DEF Told
  <2>7. Apart' /\ ToldTruly' /\ OnTheWay'
    BY <2>1, <2>6, Quiet, QuietCalls
  <2> QED BY <2>1, <2>3, <2>4, <2>5, <2>7, KeysKept DEF IInv, Begun
<1>6. CASE e.phase # "cancelled"
  <2>1. Replayed(e)
    BY <1>2, <1>6
  <2>2. e.key \in Keys /\ e.of \in Contents /\ e.id \in Ids /\ e.rec \in Ids
    BY <1>4 DEF Conclusions, Contents
  <2>3. ASSUME e.of.ask \in Widenings PROVE e.rec[1] = e.key /\ Used(e.rec) /\ e.rec \notin IntentIds
    <3>1. e.phase = "general" /\ e.id = e.rec /\ e.rec[1] = e.key
      BY <1>4, <2>3 DEF Conclusions, TighteningContents, Widenings, Tightenings
    <3> QED BY <1>4, <3>1 DEF IInv, Apart
  <2> QED BY <1>2, <2>1, <2>2, <2>3, ReplayedInv
<1>7. QED BY <1>5, <1>6

(* The end of the conclusions keeps the invariant. *)
LEMMA ReplayOverInv ==
  ASSUME IInv, ReplayOver
  PROVE  IInv' /\ KeysStep
<1>1. phase' = "deferred" /\ UNCHANGED <<db, backup, intents, store, issued, calls, cursor, failed, before, took>>
  BY DEF ReplayOver
<1>2. Steps(db, db')
  BY <1>1, Typed, StandingStill
<1>3. KeysStep
  BY <1>1, <1>2 DEF KeysStep
<1>4. TypeOK'
  BY <1>1, <1>3, KeysKept DEF IInv, TypeOK
<1>5. Told' = Told
  BY <1>1 DEF Told
<1>6. Apart' /\ ToldTruly' /\ OnTheWay'
  BY <1>1, <1>5, Quiet, QuietCalls
<1>7. QED BY <1>1, <1>3, <1>4, <1>6, KeysKept DEF IInv, Begun

(* The end of the recovery keeps the invariant. *)
LEMMA ResumeInv ==
  ASSUME IInv, Resume
  PROVE  IInv' /\ KeysStep
<1>1. phase' = "serving" /\ UNCHANGED <<db, backup, intents, store, issued, calls, cursor, failed, before, took>>
  BY DEF Resume
<1>2. Steps(db, db')
  BY <1>1, Typed, StandingStill
<1>3. KeysStep
  BY <1>1, <1>2 DEF KeysStep
<1>4. TypeOK'
  BY <1>1, <1>3, KeysKept DEF IInv, TypeOK
<1>5. Told' = Told
  BY <1>1 DEF Told
<1>6. Apart' /\ ToldTruly' /\ OnTheWay'
  BY <1>1, <1>5, Quiet, QuietCalls
<1>7. QED BY <1>1, <1>3, <1>4, <1>6, KeysKept DEF IInv, Begun

(* The replay of an intent without a conclusion keeps the invariant. *)
LEMMA ReplayDeferredInv ==
  ASSUME IInv, NEW i \in intents, NEW leavesNone, ReplayDeferred(i, leavesNone)
  PROVE  IInv' /\ KeysStep
<1>1. PICK e : e = [id |-> i.id, key |-> i.key, of |-> i.of, rec |-> i.of.on, candidate |-> i.of.ask = "narrow"]
  OBVIOUS
<1>2. /\ (failed' = failed \cup {i.id} /\ UNCHANGED db) \/ Replayed(e)
      /\ UNCHANGED <<backup, intents, store, issued, calls, phase, cursor, before, took>>
  BY <1>1 DEF ReplayDeferred
<1>3. i \in Intents
  BY Typed
<1>4. e.id = i.id /\ e.key = i.key /\ e.of = i.of /\ e.rec = i.of.on
  BY <1>1
<1>5. e.key \in Keys /\ e.of \in Contents /\ e.id \in Ids /\ e.rec \in Ids /\ e.of.ask \notin Widenings
  BY <1>3, <1>4 DEF Intents, Contents, TighteningContents, Widenings, Tightenings
<1>6. CASE Replayed(e)
  BY <1>2, <1>5, <1>6, ReplayedInv
<1>7. CASE failed' = failed \cup {i.id} /\ UNCHANGED db
  <2>1. Steps(db, db')
    BY <1>7, Typed, StandingStill
  <2>2. KeysStep
    BY <1>2, <2>1 DEF KeysStep
  <2>3. TypeOK'
    BY <1>2, <1>4, <1>5, <1>7, <2>2, KeysKept DEF IInv, TypeOK
  <2>4. Told' = Told
    BY <1>2, <1>7 DEF Told
  <2>5. Apart' /\ ToldTruly' /\ OnTheWay'
    BY <1>2, <1>7, <2>4, Quiet, QuietCalls
  <2> QED BY <1>2, <1>7, <2>2, <2>3, <2>5, KeysKept DEF IInv, Begun
<1>8. QED BY <1>2, <1>6, <1>7

-----------------------------------------------------------------------------
(* The invariant, and what follows from it *)

(* The first database is linked, and nothing has been told. *)
LEMMA InitInv ==
  ASSUME Init
  PROVE  IInv
<1>1. db = Empty /\ backup = Empty
  BY DEF Init
<1>2. Empty.record \in Records /\ \A r \in Ids : Empty.record[r] = NoRecord
  BY DEF Empty, Records
<1>3. Empty.bound \in KeyTable /\ \A k \in Keys : Empty.bound[k] = NoBinding
  BY DEF Empty, KeyTable
<1>4. Empty.own = {} /\ Empty.jobs = {} /\ Empty.history = {} /\ Empty.outbox = <<>>
  BY DEF Empty
<1>5. Empty.enacted \in Counts /\ \A k \in Keys : Empty.enacted[k] = 0
  BY DEF Empty, Counts
<1>6. Empty \in Databases
  <2>1. <<>> \in Queues /\ {} \in OwnKeys /\ {} \in WorkItems /\ {} \in Histories
    BY DEF Queues, OwnKeys, WorkItems, Histories
  <2>2. Empty = [record |-> Empty.record, bound |-> Empty.bound, own |-> {}, jobs |-> {}, history |-> {}, outbox |-> <<>>,
                 enacted |-> Empty.enacted]
    BY DEF Empty
  <2>3. Databases = [record: Records, bound: KeyTable, own: OwnKeys, jobs: WorkItems, history: Histories, outbox: Queues,
                     enacted: Counts]
    BY DEF Databases, Records, KeyTable, OwnKeys, WorkItems, Histories, Queues, Counts
  <2>4. PICK a, b, n : a = Empty.record /\ b = Empty.bound /\ n = Empty.enacted
    OBVIOUS
  <2>5. a \in Records /\ b \in KeyTable /\ n \in Counts
    BY <1>2, <1>3, <1>5, <2>4
  <2>6. [record |-> a, bound |-> b, own |-> {}, jobs |-> {}, history |-> {}, outbox |-> <<>>, enacted |-> n]
          \in [record: Records, bound: KeyTable, own: OwnKeys, jobs: WorkItems, history: Histories, outbox: Queues,
              enacted: Counts]
    BY <2>1, <2>5
  <2> QED BY <2>2, <2>3, <2>4, <2>6
<1>7. Linked(Empty)
  <2>1. RecordsBound(Empty)
    BY <1>2 DEF RecordsBound, NoRecord
  <2>2. OwnHappened(Empty)
    BY <1>4 DEF OwnHappened
  <2>3. SavedKept(Empty)
    BY <1>3, OutcomesApart DEF SavedKept
  <2>4. Counted(Empty)
    BY <1>3, <1>5, <1>6, AnswerCases DEF Counted
  <2> QED BY <2>1, <2>2, <2>3, <2>4 DEF Linked
<1>8. TypeOK
  <2>1. issued \in [Keys -> 0..MaxIssued]
    BY ChangesParameters DEF Init
  <2>2. store \in Seq(Conclusions)
    BY DEF Init
  <2> QED BY <1>1, <1>6, <2>1, <2>2 DEF Init, TypeOK
<1>9. Told = {} /\ IntentIds = {}
  BY <1>1, <1>4 DEF Init, Told, Elements, IntentIds
<1>10. Apart /\ OnTheWay /\ ToldTruly /\ Begun
  BY <1>1, <1>2, <1>9 DEF Init, Apart, OnTheWay, ToldTruly, Begun, NoRecord
<1>11. QED BY <1>1, <1>6, <1>7, <1>8, <1>10 DEF IInv

(* Every step keeps the invariant, and is one of the keys'. *)
LEMMA StepInv ==
  ASSUME IInv, [Next]_vars
  PROVE  IInv' /\ KeysStep
<1>1. ASSUME NEW k \in Keys, NEW c, NEW eligible, Submit(k, c, eligible) PROVE IInv' /\ KeysStep
  BY <1>1, SubmitInv
<1>2. ASSUME NEW k \in Keys, NEW c, Begin(k, c) PROVE IInv' /\ KeysStep
  BY <1>2, BeginInv
<1>3. ASSUME NEW a \in calls, NEW eligible, Commit(a, eligible) PROVE IInv' /\ KeysStep
  BY <1>3, CommitInv
<1>4. ASSUME NEW a \in calls, Fail(a) \/ Cancel(a) PROVE IInv' /\ KeysStep
  BY <1>4, FailInv, CancelInv
<1>5. ASSUME Crash PROVE IInv' /\ KeysStep
  BY <1>5, CrashInv
<1>6. ASSUME NEW j \in db.jobs, NEW eligible, NEW met, NEW later, Due(j, eligible, met, later) PROVE IInv' /\ KeysStep
  BY <1>6, DueInv
<1>7. ASSUME NEW r \in Ids, Confirm(r) \/ Hold(r) PROVE IInv' /\ KeysStep
  BY <1>7, ConfirmInv, HoldInv
<1>8. ASSUME Deliver \/ Backup \/ Disaster PROVE IInv' /\ KeysStep
  BY <1>8, DeliverInv, BackupInv, DisasterInv
<1>9. ASSUME ReplayNext \/ ReplayOver \/ Resume PROVE IInv' /\ KeysStep
  BY <1>9, ReplayNextInv, ReplayOverInv, ResumeInv
<1>10. ASSUME NEW i \in intents, NEW leavesNone, ReplayDeferred(i, leavesNone) PROVE IInv' /\ KeysStep
  BY <1>10, ReplayDeferredInv
<1>11. ASSUME UNCHANGED vars PROVE IInv' /\ KeysStep
  <2>1. UNCHANGED <<db, backup, intents, store, issued, calls, phase, cursor, failed, before, took>>
    BY <1>11 DEF vars
  <2>2. Steps(db, db')
    BY <2>1, Typed, StandingStill
  <2>3. KeysStep
    BY <2>1, <2>2 DEF KeysStep
  <2>4. TypeOK'
    BY <2>1, <2>3, KeysKept DEF IInv, TypeOK
  <2>5. Told' = Told
    BY <2>1 DEF Told
  <2>6. Apart' /\ ToldTruly' /\ OnTheWay'
    BY <2>1, <2>5, Quiet, QuietCalls
  <2> QED BY <2>1, <2>3, <2>4, <2>6, KeysKept DEF IInv, Begun
<1>12. \A x \in Asked : x.key \in Keys
  BY ChangesParameters
<1>13. LiveJobs \subseteq db.jobs
  BY DEF LiveJobs
<1>14. QED BY <1>1, <1>2, <1>3, <1>4, <1>5, <1>6, <1>7, <1>8, <1>9, <1>10, <1>11, <1>12, <1>13 DEF Next

(* The invariant holds in every state, for any keys, requests, provable eligibilities and bounds. *)
THEOREM Invariant == Spec => []IInv
<1>1. Init => IInv
  BY InitInv
<1>2. IInv /\ [Next]_vars => IInv'
  BY StepInv
<1> QED BY <1>1, <1>2, PTL DEF Spec

(* Every table of the database, of its backup and of the evidence keeps its shape (0001_authz.up.sql, 0002_lifecycle.up.sql,
   change.go's records of evidence). *)
THEOREM TypeCorrect == Spec => []TypeOK
<1>1. IInv => TypeOK
  BY DEF IInv
<1> QED BY <1>1, Invariant, PTL

(* A change asked under one key takes place at most once in the database as it is, whatever is retried, restored or replayed
   (change.go's key table; the job that brings a saved record into effect; replay.go). *)
THEOREM OnceAtMost == Spec => []AtMostOnce
<1>1. IInv => AtMostOnce
  BY DEF IInv, Linked, Counted, AtMostOnce
<1> QED BY <1>1, Invariant, PTL

(* A derived key (scheduled.go, firing.key) is bound for a revision its record has left: no job is answered by another's result. *)
THEOREM NeverMetTwice == Spec => []BoundJobsMovedOn
<1>1. IInv => BoundJobsMovedOn
  BY DEF IInv, Linked, OwnHappened, BoundJobsMovedOn
<1> QED BY <1>1, Invariant, PTL

(* What the evidence tells of a tightening is what became of it (change.go, changeAs): effective if its transaction committed as
   applied, cancelled only if none did, and never both. *)
THEOREM ConcludedTruly == Spec => []HonestConclusions
<1>1. IInv => HonestConclusions
  <2> SUFFICES ASSUME IInv PROVE HonestConclusions
    OBVIOUS
  <2>1. PICK told : told = {db.outbox[n] : n \in 1..Len(db.outbox)} \cup {store[n] : n \in 1..Len(store)}
    OBVIOUS
  <2>2. told \subseteq Told /\ Told \subseteq Conclusions
    BY <2>1, Typed DEF Told, Elements
  <2>3. \A e \in Conclusions : e.phase \in {"general", "effective", "cancelled"}
    BY DEF Conclusions
  <2>4. ASSUME NEW e \in told
        PROVE  /\ e.phase = "cancelled" => e.id \notin took
               /\ e.phase = "effective" => e.id \in took
               /\ \A other \in told : other.id = e.id => other.phase = e.phase
    <3>1. e.phase # "general" => (e.phase = "effective" <=> e.id \in took)
      BY <2>2 DEF IInv, ToldTruly
    <3>2. ASSUME NEW other \in told, other.id = e.id PROVE other.phase = e.phase
      <4>1. other.phase # "general" => (other.phase = "effective" <=> other.id \in took)
        BY <2>2 DEF IInv, ToldTruly
      <4>2. e.phase = "general" <=> other.phase = "general"
        BY <2>2, <3>2 DEF IInv, Apart
      <4> QED BY <2>2, <2>3, <3>1, <3>2, <4>1, <4>2
    <3> QED BY <3>1, <3>2
  <2> QED BY <2>1, <2>4 DEF HonestConclusions
<1> QED BY <1>1, Invariant, PTL

-----------------------------------------------------------------------------
(* The keys' promise *)

(* A linked database's keys are in states ChangeKeys has: done exactly when they answer applied. *)
LEMMA KeysOfDatabase ==
  ASSUME NEW d \in Databases, Linked(d)
  PROVE  /\ KeysOf(d) \in [Keys -> Promise!KeyStates]
         /\ \A k \in Keys : /\ KeysOf(d)[k].answer = Answer(d, k)
                            /\ KeysOf(d)[k].done <=> Answer(d, k) = "applied"
<1>1. ASSUME NEW k \in Keys
      PROVE  Answer(d, k) \in Promise!Answers /\ (d.enacted[k] > 0 <=> Answer(d, k) = "applied")
  <2>1. Answer(d, k) \in Promise!Answers
    BY AnswerCases DEF Promise!Answers
  <2>2. d.enacted[k] = IF Answer(d, k) = "applied" THEN 1 ELSE 0
    BY DEF Linked, Counted
  <2> QED BY <2>1, <2>2
<1>2. ASSUME NEW k \in Keys
      PROVE  /\ KeysOf(d)[k] = [answer |-> Answer(d, k), done |-> d.enacted[k] > 0]
             /\ KeysOf(d)[k] \in Promise!KeyStates
  BY <1>1, <1>2 DEF KeysOf, Promise!KeyStates
<1>3. KeysOf(d) = [k \in Keys |-> KeysOf(d)[k]]
  BY DEF KeysOf
<1>4. KeysOf(d) \in [Keys -> Promise!KeyStates]
  BY <1>2, <1>3
<1>5. ASSUME NEW k \in Keys
      PROVE  KeysOf(d)[k].answer = Answer(d, k) /\ (KeysOf(d)[k].done <=> Answer(d, k) = "applied")
  <2> DEFINE some == d.enacted[k] > 0
  <2>1. KeysOf(d)[k] = [answer |-> Answer(d, k), done |-> some]
    BY <1>2
  <2>2. some <=> Answer(d, k) = "applied"
    BY <1>1
  <2> HIDE DEF some
  <2> DEFINE answer == Answer(d, k)
             row == [answer |-> answer, done |-> some]
  <2> HIDE DEF answer
  <2>3. row.answer = answer /\ row.done = some
    OBVIOUS
  <2> HIDE DEF row
  <2>4. KeysOf(d)[k] = row
    BY <2>1 DEF row, answer
  <2>5. KeysOf(d)[k].answer = Answer(d, k) /\ KeysOf(d)[k].done = some
    BY <2>3, <2>4, Zenon DEF answer
  <2> QED BY <2>2, <2>5, Zenon
<1>6. QED BY <1>4, <1>5

(* An answer that follows from the last settles it as ChangeKeys has it. *)
LEMMA KeysSettle ==
  ASSUME NEW d \in Databases, NEW m \in Databases, Linked(d), Linked(m), NEW k \in Keys, Follows(Answer(d, k), Answer(m, k))
  PROVE  Promise!Settles(KeysOf(d)[k], KeysOf(m)[k])
<1>1. /\ KeysOf(d)[k] = [answer |-> Answer(d, k), done |-> d.enacted[k] > 0]
      /\ KeysOf(m)[k] = [answer |-> Answer(m, k), done |-> m.enacted[k] > 0]
  BY DEF KeysOf
<1>2. /\ KeysOf(d)[k].answer = Answer(d, k) /\ (KeysOf(d)[k].done <=> Answer(d, k) = "applied")
      /\ KeysOf(m)[k].answer = Answer(m, k) /\ (KeysOf(m)[k].done <=> Answer(m, k) = "applied")
      /\ KeysOf(d)[k] \in Promise!KeyStates /\ KeysOf(m)[k] \in Promise!KeyStates
  BY KeysOfDatabase
<1>3. CASE Answer(d, k) = Answer(m, k)
  <2>1. d.enacted[k] = m.enacted[k]
    BY <1>3 DEF Linked, Counted
  <2> QED BY <1>1, <1>3, <2>1 DEF Promise!Settles
<1>4. CASE Answer(d, k) # Answer(m, k)
  <2>1. Answer(d, k) \in {"none", "waiting"} /\ Answer(m, k) # "none" /\ (Answer(m, k) = "waiting" => Answer(d, k) = "none")
    BY <1>4 DEF Follows
  <2>2. PICK from, to : from = KeysOf(d)[k] /\ to = KeysOf(m)[k]
    OBVIOUS
  <2>3. from.answer \in {"none", "waiting"} /\ ~from.done /\ (to.answer = "waiting" => from.answer = "none")
        /\ to.answer # "none" /\ (to.done <=> to.answer = "applied") /\ to.done \in BOOLEAN
    BY <1>2, <2>1, <2>2 DEF Promise!KeyStates
  <2>4. to.done = (to.answer = "applied")
    BY <2>3
  <2> QED BY <2>2, <2>3, <2>4 DEF Promise!Settles
<1>5. QED BY <1>3, <1>4

(* The effect point, its jobs, crashes and the recovery implement ChangeKeys: a key is answered once and for all, and answers
   applied exactly when its change took place; only the restore of the backup takes answers back, all of them at once. *)
THEOREM KeysKeepTheirPromise == Spec => KeysPromise
<1>1. Init => Promise!Init
  <2> SUFFICES ASSUME Init PROVE Promise!Init
    OBVIOUS
  <2>1. db = Empty /\ backup = Empty
    BY DEF Init
  <2>2. ASSUME NEW k \in Keys PROVE Answer(db, k) = "none" /\ ~(db.enacted[k] > 0)
    <3>1. db.bound[k] = NoBinding /\ db.enacted[k] = 0 /\ db \in Databases
      BY <2>1, InitInv, Typed DEF Empty
    <3> QED BY <3>1, AnswerCases
  <2>3. KeysOf(db) = [k \in Keys |-> [answer |-> "none", done |-> FALSE]]
    <3>1. ASSUME NEW k \in Keys
          PROVE  [answer |-> Answer(db, k), done |-> db.enacted[k] > 0] = [answer |-> "none", done |-> FALSE]
      <4> DEFINE some == db.enacted[k] > 0
      <4>1. Answer(db, k) = "none" /\ ~some
        BY <2>2
      <4>2. some \in BOOLEAN
        OBVIOUS
      <4> HIDE DEF some
      <4>3. some = FALSE
        BY <4>1, <4>2, Zenon
      <4>4. [answer |-> Answer(db, k), done |-> some] = [answer |-> "none", done |-> FALSE]
        BY <4>1, <4>3, Zenon
      <4> QED BY <4>4 DEF some
    <3> QED BY <3>1, Zenon DEF KeysOf
  <2> QED BY <2>1, <2>3 DEF Promise!Init
<1>2. IInv /\ [Next]_vars => [Promise!Next]_<<KeysOf(db), KeysOf(backup)>>
  <2> SUFFICES ASSUME IInv, [Next]_vars PROVE [Promise!Next]_<<KeysOf(db), KeysOf(backup)>>
    OBVIOUS
  <2>1. KeysStep /\ db \in Databases /\ backup \in Databases /\ Linked(db) /\ Linked(backup)
    BY StepInv, Typed
  <2>2. CASE Steps(db, db') /\ backup' = backup
    <3>1. db' \in Databases /\ Linked(db')
      BY <2>2 DEF Steps
    <3>2. KeysOf(db') \in [Keys -> Promise!KeyStates]
      BY <3>1, KeysOfDatabase
    <3>3. ASSUME NEW k \in Keys PROVE Promise!Settles(KeysOf(db)[k], KeysOf(db')[k])
      <4>1. Follows(Answer(db, k), Answer(db', k))
        BY <2>2 DEF Steps
      <4> QED BY <2>1, <3>1, <4>1, KeysSettle
    <3>4. Promise!Change
      BY <2>2, <3>2, <3>3 DEF Promise!Change
    <3> QED BY <3>4 DEF Promise!Next
  <2>3. CASE backup' = db /\ db' = db
    BY <2>3 DEF Promise!Next, Promise!Backup
  <2>4. CASE db' = backup /\ backup' = backup
    BY <2>4 DEF Promise!Next, Promise!Restore
  <2> QED BY <2>1, <2>2, <2>3, <2>4 DEF KeysStep
<1>3. QED BY <1>1, <1>2, Invariant, PTL DEF Spec, KeysPromise, Promise!Spec
=============================================================================
