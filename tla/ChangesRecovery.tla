---------------------------- MODULE ChangesRecovery ----------------------------
(***************************************************************************)
(* Theorems about recovery, for any keys, requests and bounds: no tightening *)
(* is lost with the database, and a widening the evidence told of comes back *)
(* under its name.                                                          *)
(*                                                                          *)
(* They rest on one invariant, RInv, beside IInv.  What a database's history *)
(* names is so in it (Reflects), in the database and in its backup.  Before  *)
(* the disaster each tightening that committed holds its key (Foreseen), so  *)
(* that afterwards a key of it is either bound as it was, or bound by the     *)
(* replay (Replaying, Unsettled): a replay answered by a key's binding has    *)
(* nothing left to do.  At the end every identity is in the history or for   *)
(* review (Progress).                                                       *)
(***************************************************************************)
EXTENDS ChangesProofs

\* What tightening c asked is so of its record.
Done(d, c) ==
  LET r == d.record[c.on]
  IN r.state \in EndedStates \/ (c.ask = "narrow" /\ r.state # "none" /\ r.width <= 1)

\* A key bound to a widening names a record of its own that exists, one bound to an applied tightening what is so.
Named(d) ==
  \A k \in Keys :
    LET b == d.bound[k]
    IN b # NoBinding =>
         /\ b.of.ask \in Widenings => b.rec \in Ids /\ b.rec[1] = k /\ d.record[b.rec].state # "none"
         /\ b.of.ask \in Tightenings /\ b.outcome = "applied" => Done(d, b.of)

\* What the history names is so: a widening's record exists, a tightening that committed is done.
Reflects(d) ==
  /\ \A h \in d.history : h \notin IntentIds => d.record[h].state # "none"
  /\ \A i \in intents : i.id \in took /\ i.id \in d.history => Done(d, i.of)

\* An identity is of one intent, and what is on its way or told of it is what was asked.
Matched ==
  /\ \A i, j \in intents : i.id = j.id => i = j
  /\ \A a \in calls : a.call \in intents
  /\ \A e \in Told : e.phase # "general" =>
       e.rec = e.of.on /\ \A i \in intents : i.id = e.id => i.key = e.key /\ i.of = e.of

Terminated == {"ended/revoked", "ended/cancelled"}

\* The records as they are, or as the disaster took them: what is revoked, cancelled or narrowed is so by a tightening that committed.
Was == IF before = None THEN db.record ELSE before
Accounted ==
  \A r \in Ids :
    /\ Was[r].state \in Terminated => \E i \in intents : i.id \in took /\ i.of.on = r /\ i.of.ask # "narrow"
    /\ Was[r].width = 1 => \E i \in intents : i.id \in took /\ i.of.on = r

\* Conclusions in the order of their commits: of those not lost, and not of the backup's.
Current == Elements(store) \cup Elements(db.outbox)

\* Before the disaster: the backup's keys and history are true of it; a told widening and a committed tightening have their keys,
\* a key bound in the backup is bound as it was then, and tightenings in a history are those that committed.
Foreseen ==
  before = None =>
    /\ phase = "serving" /\ Named(backup) /\ Reflects(backup)
    /\ \A e \in Current : e.phase = "general" => db.bound[e.key] # NoBinding /\ db.bound[e.key].rec = e.rec
    /\ \A k \in Keys : backup.bound[k] # NoBinding => db.bound[k] = backup.bound[k]
    /\ \A i \in intents : i.id \in took =>
         db.bound[i.key] # NoBinding /\ db.bound[i.key].of = i.of /\ db.bound[i.key].outcome = "applied"
    /\ \A h \in IntentIds : h \in db.history \cup backup.history => h \in took

\* While the conclusions are replayed: a key is of one widening, and if it is bound to one, to that one.
Generals == {e \in Elements(store) : e.phase = "general"}
Replaying ==
  phase = "replaying" =>
    /\ \A e, f \in Generals : e.key = f.key => e.rec = f.rec
    /\ \A e \in Generals :
         db.bound[e.key] # NoBinding /\ db.bound[e.key].of.ask \in Widenings => db.bound[e.key].rec = e.rec

\* While the tool recovers: nothing is on its way; a committed tightening's request that its key is bound to otherwise than as
\* applied has its record ended.
Unsettled ==
  phase # "serving" =>
    /\ before # None /\ calls = {}
    /\ \A i \in intents :
         LET b == db.bound[i.key]
         IN i.id \in took /\ b # NoBinding /\ b.of = Recalled(i.of) /\ b.outcome # "applied" =>
              db.record[i.of.on].state \in EndedStates

\* Evidence met: the database reflects it, or it is for the operator.
Met == db.history \cup failed
Progress ==
  before # None =>
    /\ \A n \in 1..Len(store) : n < cursor /\ store[n].phase # "cancelled" => store[n].id \in Met
    /\ phase # "replaying" => cursor > Len(store)
    /\ phase = "serving" => took \subseteq Met

RInv ==
  /\ Named(db) /\ Reflects(db)
  /\ Matched /\ Accounted /\ Foreseen /\ Replaying /\ Unsettled /\ Progress

-----------------------------------------------------------------------------
(* What was so stays so *)

\* Of d's records, in m: they exist, what is ended is ended, what is narrow is narrow.
Stays(d, m) ==
  \A r \in Ids : d.record[r].state # "none" =>
    /\ m.record[r].state # "none"
    /\ d.record[r].width <= 1 => m.record[r].width <= 1
    /\ d.record[r].state \in EndedStates => m.record[r].state \in EndedStates

\* What is bound stays bound as it is.
StaysBound(d, m) == \A k \in Keys : d.bound[k] # NoBinding => m.bound[k] = d.bound[k]

(* What is done stays done. *)
LEMMA DoneStays ==
  ASSUME NEW d, NEW m, Stays(d, m), NEW c, c.on \in Ids, Done(d, c)
  PROVE  Done(m, c)
BY StatesApart DEF Stays, Done

(* The keys keep naming what is so. *)
LEMMA NamedStays ==
  ASSUME NEW d \in Databases, NEW m, Stays(d, m), m.bound = d.bound, Named(d)
  PROVE  Named(m)
<1> SUFFICES ASSUME NEW k \in Keys, m.bound[k] # NoBinding
             PROVE  LET b == m.bound[k]
                    IN /\ b.of.ask \in Widenings => b.rec \in Ids /\ b.rec[1] = k /\ m.record[b.rec].state # "none"
                       /\ b.of.ask \in Tightenings /\ b.outcome = "applied" => Done(m, b.of)
  BY DEF Named
<1>1. PICK b : b = d.bound[k]
  OBVIOUS
<1>2. /\ b.of.ask \in Widenings => b.rec \in Ids /\ b.rec[1] = k /\ d.record[b.rec].state # "none"
      /\ b.of.ask \in Tightenings /\ b.outcome = "applied" => Done(d, b.of)
  BY <1>1 DEF Named
<1>3. b \in Bindings
  BY <1>1, DatabaseType DEF KeyTable
<1>4. b.of.ask \in Tightenings => b.of.on \in Ids
  BY <1>3 DEF Bindings, Contents, WideningContents, TighteningContents, Widenings, Tightenings
<1>5. b.of.ask \in Tightenings /\ b.outcome = "applied" => Done(m, b.of)
  BY <1>2, <1>4, DoneStays
<1>6. b.of.ask \in Widenings => m.record[b.rec].state # "none"
  BY <1>2 DEF Stays
<1>7. QED BY <1>1, <1>2, <1>5, <1>6

(* One row is written, of a record that has not ended and does not become wider. *)
LEMMA RowWritten ==
  ASSUME NEW d, NEW m, NEW r \in Ids, \A s \in Ids : s # r => m.record[s] = d.record[s],
         m.record[r].state # "none", d.record[r].state \notin EndedStates,
         d.record[r].state # "none" /\ d.record[r].width <= 1 => m.record[r].width <= 1
  PROVE  Stays(d, m)
<1> SUFFICES ASSUME NEW s \in Ids, d.record[s].state # "none"
             PROVE  /\ m.record[s].state # "none"
                    /\ d.record[s].width <= 1 => m.record[s].width <= 1
                    /\ d.record[s].state \in EndedStates => m.record[s].state \in EndedStates
  BY DEF Stays
<1>1. CASE s = r
  BY <1>1
<1>2. CASE s # r
  BY <1>2
<1>3. QED BY <1>1, <1>2

(* A table of records with one row written, row by row. *)
LEMMA RowByRow ==
  ASSUME NEW d \in Databases, NEW r \in Ids, NEW row
  PROVE  LET table == [d.record EXCEPT ![r] = row]
         IN table[r] = row /\ \A s \in Ids : s # r => table[s] = d.record[s]
<1>1. d.record \in [Ids -> RecordRows \cup {NoRecord}]
  BY DatabaseType DEF Records
<1>2. QED BY <1>1

-----------------------------------------------------------------------------
(* What the effect point writes *)

(* A widening writes its record. *)
LEMMA WidenedWrites ==
  ASSUME NEW d \in Databases, NEW k \in Keys, NEW c \in WideningContents, NEW id \in Ids, NEW v, Binds(v)
  PROVE  LET x == Widened(d, k, c, v, id)
         IN /\ x \in Databases /\ x.bound = d.bound /\ x.history = d.history
            /\ \E row : /\ x.record = [d.record EXCEPT ![id] = row]
                        /\ row.state \in {"active", "scheduled", "awaiting_confirmation", "ended/rejected"} /\ row.width = 2
<1>1. c.ask \in Widenings
  BY DEF WideningContents
<1>2. v.outcome \in {"applied", "rejected"} \cup Saved /\ v.row # 2
  BY DEF Binds
<1>3. ASSUME NEW state \in {"active", "scheduled", "awaiting_confirmation", "ended/rejected"}
      PROVE  LET x == Inserted(d, id, c.ask, state)
             IN /\ x \in Databases /\ x.bound = d.bound /\ x.history = d.history /\ x.record[id].state # "none"
                /\ \E row : /\ x.record = [d.record EXCEPT ![id] = row]
                            /\ row.state \in {"active", "scheduled", "awaiting_confirmation", "ended/rejected"} /\ row.width = 2
  <2> DEFINE x == Inserted(d, id, c.ask, state)
  <2>1. PICK row : row = [ask |-> c.ask, state |-> state, rev |-> 1, width |-> 2]
    OBVIOUS
  <2>2. state \in States \ {"none"}
    BY StatesApart
  <2>3. x \in Databases /\ x.bound = d.bound /\ x.history = d.history /\ x.record = [d.record EXCEPT ![id] = row]
    BY <1>1, <2>1, <2>2, InsertedWrites
  <2>4. row.state = state /\ row.width = 2
    BY <2>1
  <2> HIDE DEF x
  <2>5. d.record \in [Ids -> RecordRows \cup {NoRecord}]
    BY DatabaseType DEF Records
  <2>6. x.record[id] = row
    BY <2>3, <2>5
  <2>7. x.record[id].state # "none"
    BY <2>4, <2>6
  <2> QED BY <2>3, <2>4, <2>7 DEF x
<1>4. CASE v.outcome = "applied"
  <2> DEFINE x == Inserted(d, id, c.ask, "active")
             y == Enacted(x, k)
  <2>1. Widened(d, k, c, v, id) = y
    BY <1>4 DEF Widened
  <2>2. /\ x \in Databases /\ x.bound = d.bound /\ x.history = d.history
        /\ \E row : /\ x.record = [d.record EXCEPT ![id] = row]
                    /\ row.state \in {"active", "scheduled", "awaiting_confirmation", "ended/rejected"} /\ row.width = 2
    BY <1>3
  <2> HIDE DEF x
  <2>3. y \in Databases /\ y.bound = x.bound /\ y.history = x.history /\ y.record = x.record
    BY <2>2, EnactedWrites
  <2> QED BY <2>1, <2>2, <2>3
<1>5. CASE v.outcome = "scheduled"
  <2> DEFINE x == Inserted(d, id, c.ask, "scheduled")
             y == Registered(x, id, "scheduled")
  <2>1. Widened(d, k, c, v, id) = y
    BY <1>5 DEF Widened
  <2>2. /\ x \in Databases /\ x.bound = d.bound /\ x.history = d.history /\ x.record[id].state # "none"
        /\ \E row : /\ x.record = [d.record EXCEPT ![id] = row]
                    /\ row.state \in {"active", "scheduled", "awaiting_confirmation", "ended/rejected"} /\ row.width = 2
    BY <1>3
  <2> HIDE DEF x
  <2>3. y \in Databases /\ y.bound = x.bound /\ y.history = x.history /\ y.record = x.record
    BY <2>2, RegisteredWrites DEF Triggered
  <2> QED BY <2>1, <2>2, <2>3
<1>6. CASE v.outcome = "awaiting_saved"
  <2>1. Widened(d, k, c, v, id) = Inserted(d, id, c.ask, "awaiting_confirmation")
    BY <1>6 DEF Widened
  <2> QED BY <1>3, <2>1
<1>7. CASE v.outcome = "rejected"
  <2>1. Widened(d, k, c, v, id) = Inserted(d, id, c.ask, "ended/rejected")
    BY <1>2, <1>7 DEF Widened
  <2> QED BY <1>3, <2>1
<1>8. QED BY <1>2, <1>4, <1>5, <1>6, <1>7 DEF Saved

(* A tightening writes its target. *)
LEMMA TightenedWrites ==
  ASSUME NEW d \in Databases, NEW k \in Keys, NEW c \in TighteningContents,
         d.record[c.on].state \in (IF c.ask = "cancel" THEN Pending ELSE Effective)
  PROVE  LET x == Tightened(d, k, c)
         IN /\ x \in Databases /\ x.bound = d.bound /\ x.history = d.history
            /\ \E row : /\ x.record = [d.record EXCEPT ![c.on] = row]
                        /\ row.state = CASE c.ask = "narrow" -> d.record[c.on].state
                                         [] c.ask = "revoke" -> "ended/revoked" [] OTHER -> "ended/cancelled"
                        /\ row.width = IF c.ask = "narrow" THEN 1 ELSE d.record[c.on].width
<1> DEFINE to == CASE c.ask = "narrow" -> d.record[c.on].state [] c.ask = "revoke" -> "ended/revoked" [] OTHER -> "ended/cancelled"
           x == Moved(d, c.on, to)
           y == IF c.ask = "narrow" THEN [x EXCEPT !.record[c.on].width = 1] ELSE x
           z == Enacted(y, k)
<1>1. c.on \in Ids
  BY DEF TighteningContents
<1>2. Tightened(d, k, c) = z
  BY DEF Tightened
<1>3. d.record[c.on].state # "none" /\ to \in States \ {"none"}
  BY StatesApart
<1>4. d.record \in [Ids -> RecordRows \cup {NoRecord}]
  BY DatabaseType DEF Records
<1>5. d.record[c.on] \in RecordRows
  BY <1>1, <1>3, <1>4 DEF NoRecord
<1>6. PICK state : state = to
  OBVIOUS
<1>7. PICK row : row = [d.record[c.on] EXCEPT !.state = state, !.rev = d.record[c.on].rev + 1]
  OBVIOUS
<1>8. row.state = state /\ row.width = d.record[c.on].width
  BY <1>5, <1>7 DEF RecordRows
<1> HIDE DEF to
<1>9. x \in Databases /\ x.record = [d.record EXCEPT ![c.on] = row] /\ x.bound = d.bound /\ x.history = d.history
  <2>1. x = Moved(d, c.on, state) /\ state \in States \ {"none"}
    BY <1>3, <1>6
  <2>2. PICK r : r = c.on
    OBVIOUS
  <2>3. r \in Ids /\ d.record[r].state # "none" /\ row = [d.record[r] EXCEPT !.state = state, !.rev = d.record[r].rev + 1]
    BY <1>1, <1>3, <1>7, <2>2
  <2>4. LET m == Moved(d, r, state)
        IN /\ m \in Databases /\ m.bound = d.bound /\ m.history = d.history
           /\ m.record = [d.record EXCEPT ![r] = [d.record[r] EXCEPT !.state = state, !.rev = d.record[r].rev + 1]]
    BY <2>1, <2>3, MovedWrites
  <2> HIDE DEF x, y
  <2> QED BY ONLY <2>1, <2>2, <2>3, <2>4
<1> HIDE DEF x
<1>10. x.record \in Records /\ x.record[c.on] = row
  BY <1>1, <1>4, <1>9, DatabaseType
<1>11. row \in RecordRows
  BY <1>1, <1>3, <1>6, <1>8, <1>10 DEF Records, NoRecord
<1>12. PICK last : last = IF c.ask = "narrow" THEN [row EXCEPT !.width = 1] ELSE row
  OBVIOUS
<1>13. last \in RecordRows /\ last.state = state /\ last.width = IF c.ask = "narrow" THEN 1 ELSE d.record[c.on].width
  BY <1>8, <1>11, <1>12 DEF RecordRows
<1>14. y \in Databases /\ y.record = [d.record EXCEPT ![c.on] = last] /\ y.bound = d.bound /\ y.history = d.history
  <2>1. CASE c.ask # "narrow"
    BY <1>9, <1>12, <2>1
  <2>2. CASE c.ask = "narrow"
    <3> DEFINE table == [x.record EXCEPT ![c.on] = last]
    <3>1. y = [x EXCEPT !.record = table]
      BY <1>10, <1>12, <2>2
    <3>2. table \in Records
      BY <1>1, <1>10, <1>13 DEF Records
    <3>3. table = [d.record EXCEPT ![c.on] = last]
      BY <1>1, <1>4, <1>9 DEF Records
    <3> HIDE DEF table, y
    <3>4. LET w == [x EXCEPT !.record = table]
          IN w \in Databases /\ w.record = table /\ w.bound = x.bound /\ w.history = x.history
      BY <1>9, <3>2, DatabaseField
    <3> QED BY <1>9, <3>1, <3>3, <3>4
  <2> QED BY <2>1, <2>2
<1> HIDE DEF y
<1>15. z \in Databases /\ z.record = y.record /\ z.bound = y.bound /\ z.history = y.history
  BY <1>14, EnactedWrites
<1> HIDE DEF z
<1>16. \E r : /\ z.record = [d.record EXCEPT ![c.on] = r] /\ r.state = to
             /\ r.width = IF c.ask = "narrow" THEN 1 ELSE d.record[c.on].width
  BY <1>6, <1>13, <1>14, <1>15
<1>17. z \in Databases /\ z.bound = d.bound /\ z.history = d.history
  BY <1>14, <1>15
<1>18. QED BY ONLY <1>2, <1>16, <1>17 DEF to

\* What comes of a request c of k, on new record id: k is bound to it or to what it was, what is done is done, and nothing but an
\* applied tightening's target is newly terminated or narrowed.
Effected(d, m, k, c, v, id) ==
  /\ m \in Databases /\ m.history = d.history /\ Stays(d, m)
  /\ \A q \in Keys : q # k => m.bound[q] = d.bound[q]
  /\ IF Binds(v)
     THEN /\ d.bound[k] = NoBinding
          /\ m.bound[k] # NoBinding /\ m.bound[k].of = c /\ m.bound[k].outcome = v.outcome
          /\ c.ask \in Widenings => m.bound[k].rec = id /\ m.record[id].state # "none"
     ELSE m.bound[k] = d.bound[k]
  /\ v.outcome = "applied" => Binds(v)
  /\ v.outcome = "applied" /\ c.ask \in Tightenings => Done(m, c)
  /\ \A r \in Ids :
       /\ m.record[r].state \in Terminated =>
            d.record[r].state \in Terminated
            \/ (v.outcome = "applied" /\ c.ask \in Tightenings /\ c.ask # "narrow" /\ c.on = r)
       /\ m.record[r].width = 1 =>
            d.record[r].width = 1 \/ (v.outcome = "applied" /\ c.ask \in Tightenings /\ c.on = r)

(* Binding a key: what it is bound to, and the rest as it was. *)
LEMMA BindsOne ==
  ASSUME NEW d \in Databases, NEW k \in Keys, NEW c \in Contents,
         NEW outcome \in {"applied", "rejected"} \cup Saved, NEW rec \in Ids \cup {None}
  PROVE  LET m == Bind(d, k, c, outcome, rec)
         IN /\ m \in Databases /\ m.record = d.record /\ m.history = d.history
            /\ \A q \in Keys : q # k => m.bound[q] = d.bound[q]
            /\ m.bound[k] # NoBinding /\ m.bound[k].of = c /\ m.bound[k].outcome = outcome /\ m.bound[k].rec = rec
<1> DEFINE m == Bind(d, k, c, outcome, rec)
<1>1. d.bound \in [Keys -> Bindings \cup {NoBinding}]
  BY DatabaseType DEF KeyTable
<1>2. PICK b : b = [of |-> c, outcome |-> outcome, rec |-> rec]
  OBVIOUS
<1>3. b.of = c /\ b.outcome = outcome /\ b.rec = rec
  BY <1>2
<1>4. b # NoBinding
  BY <1>3, OutcomesApart
<1>5. m \in Databases /\ m.record = d.record /\ m.history = d.history /\ m.bound = [d.bound EXCEPT ![k] = b]
  BY <1>2, BindWrites
<1> HIDE DEF m
<1>6. m.bound[k] = b /\ \A q \in Keys : q # k => m.bound[q] = d.bound[q]
  BY <1>1, <1>5
<1>7. QED BY <1>3, <1>4, <1>5, <1>6 DEF m

(* A widening under a free key: its record is new. *)
LEMMA WideningEffect ==
  ASSUME NEW d \in Databases, Linked(d), NEW k \in Keys, NEW c \in WideningContents, NEW id \in Ids, id[1] = k,
         NEW v, Binds(v), d.bound[k] = NoBinding
  PROVE  Effected(d, Effect(d, k, c, v, id), k, c, v, id)
<1> DEFINE x == Widened(d, k, c, v, id)
<1>1. c.ask \in Widenings /\ c.ask \notin Tightenings /\ c \in Contents /\ id \in Ids \cup {None}
  BY DEF WideningContents, Widenings, Tightenings, Contents
<1>2. PICK outcome : outcome = v.outcome
  OBVIOUS
<1> DEFINE m == Bind(x, k, c, outcome, id)
<1>3. outcome \in {"applied", "rejected"} \cup Saved
  BY <1>2 DEF Binds
<1>4. Effect(d, k, c, v, id) = m
  BY <1>1, <1>2 DEF Effect
<1>5. x \in Databases /\ x.bound = d.bound /\ x.history = d.history
  BY WidenedWrites
<1>6. PICK row : /\ x.record = [d.record EXCEPT ![id] = row]
                 /\ row.state \in {"active", "scheduled", "awaiting_confirmation", "ended/rejected"} /\ row.width = 2
  BY WidenedWrites
<1> HIDE DEF x
<1>7. /\ m \in Databases /\ m.record = x.record /\ m.history = d.history
      /\ \A q \in Keys : q # k => m.bound[q] = d.bound[q]
      /\ m.bound[k] # NoBinding /\ m.bound[k].of = c /\ m.bound[k].outcome = outcome /\ m.bound[k].rec = id
  <2>1. LET y == Bind(x, k, c, outcome, id)
        IN /\ y \in Databases /\ y.record = x.record /\ y.history = x.history
           /\ \A q \in Keys : q # k => y.bound[q] = x.bound[q]
           /\ y.bound[k] # NoBinding /\ y.bound[k].of = c /\ y.bound[k].outcome = outcome /\ y.bound[k].rec = id
    BY <1>1, <1>3, <1>5, BindsOne
  <2> QED BY ONLY <1>5, <2>1
<1> HIDE DEF m
<1>8. d.record[id].state = "none"
  BY DEF Linked, RecordsBound
<1>9. m.record[id] = row /\ \A s \in Ids : s # id => m.record[s] = d.record[s]
  BY <1>6, <1>7, RowByRow
<1>10. Stays(d, m)
  <2>1. row.state # "none" /\ d.record[id].state \notin EndedStates
    BY <1>6, <1>8, StatesApart
  <2> QED BY <1>8, <1>9, <2>1, RowWritten
<1>11. row.state # "none" /\ row.state \notin Terminated /\ row.width # 1
  BY <1>6 DEF Terminated
<1>12. QED BY <1>1, <1>2, <1>4, <1>7, <1>9, <1>10, <1>11 DEF Effected

(* A tightening under a free key: its target, if it applies. *)
LEMMA TighteningEffect ==
  ASSUME NEW d \in Databases, NEW k \in Keys, NEW c \in TighteningContents, NEW id,
         NEW v, Binds(v), d.bound[k] = NoBinding, v.outcome \notin Saved,
         v.outcome = "applied" => d.record[c.on].state \in (IF c.ask = "cancel" THEN Pending ELSE Effective)
  PROVE  Effected(d, Effect(d, k, c, v, id), k, c, v, id)
<1>1. c.ask \notin Widenings /\ c.ask \in Tightenings /\ c \in Contents /\ c.on \in Ids
  BY DEF TighteningContents, Widenings, Tightenings, Contents
<1>2. v.outcome \in {"applied", "rejected"}
  BY DEF Binds
<1>3. CASE v.outcome = "rejected"
  <2> DEFINE m == Bind(d, k, c, "rejected", None)
  <2>1. Effect(d, k, c, v, id) = m
    BY <1>1, <1>3 DEF Effect
  <2>2. /\ m \in Databases /\ m.record = d.record /\ m.history = d.history
        /\ \A q \in Keys : q # k => m.bound[q] = d.bound[q]
        /\ m.bound[k] # NoBinding /\ m.bound[k].of = c /\ m.bound[k].outcome = "rejected"
    BY <1>1, BindsOne
  <2> HIDE DEF m
  <2>3. Stays(d, m)
    BY <2>2 DEF Stays
  <2> QED BY <1>1, <1>3, <2>1, <2>2, <2>3 DEF Effected
<1>4. CASE v.outcome = "applied"
  <2> DEFINE x == Tightened(d, k, c)
             m == Bind(x, k, c, "applied", c.on)
  <2>1. Effect(d, k, c, v, id) = m
    BY <1>1, <1>4 DEF Effect
  <2>2. d.record[c.on].state \in (IF c.ask = "cancel" THEN Pending ELSE Effective)
    BY <1>4
  <2>3. x \in Databases /\ x.bound = d.bound /\ x.history = d.history
    BY <2>2, TightenedWrites
  <2>4. PICK row : /\ x.record = [d.record EXCEPT ![c.on] = row]
                   /\ row.state = CASE c.ask = "narrow" -> d.record[c.on].state
                                    [] c.ask = "revoke" -> "ended/revoked" [] OTHER -> "ended/cancelled"
                   /\ row.width = IF c.ask = "narrow" THEN 1 ELSE d.record[c.on].width
    BY <2>2, TightenedWrites
  <2> HIDE DEF x
  <2>5. PICK rec : rec = c.on
    OBVIOUS
  <2>6. /\ m \in Databases /\ m.record = x.record /\ m.history = d.history
        /\ \A q \in Keys : q # k => m.bound[q] = d.bound[q]
        /\ m.bound[k] # NoBinding /\ m.bound[k].of = c /\ m.bound[k].outcome = "applied"
    BY <1>1, <2>3, <2>5, BindsOne
  <2> HIDE DEF m
  <2>7. m.record[c.on] = row /\ \A s \in Ids : s # c.on => m.record[s] = d.record[s]
    <3>1. m.record[rec] = row /\ \A s \in Ids : s # rec => m.record[s] = d.record[s]
      BY <1>1, <2>4, <2>5, <2>6, RowByRow
    <3> QED BY <2>5, <3>1
  <2>8. d.record[c.on].state \notin EndedStates /\ d.record[c.on].state # "none" /\ d.record[c.on].state \notin Terminated
    BY <2>2, StatesApart DEF Terminated
  <2>9. row.state # "none" /\ (d.record[c.on].width <= 1 => row.width <= 1)
    BY <2>4, <2>8
  <2>10. Stays(d, m)
    <3>1. /\ rec \in Ids /\ \A s \in Ids : s # rec => m.record[s] = d.record[s]
          /\ m.record[rec].state # "none" /\ d.record[rec].state \notin EndedStates
          /\ d.record[rec].state # "none" /\ d.record[rec].width <= 1 => m.record[rec].width <= 1
      BY <1>1, <2>5, <2>7, <2>8, <2>9
    <3> QED BY <3>1, RowWritten
  <2>11. Done(m, c)
    <3>1. CASE c.ask = "narrow"
      BY <2>4, <2>7, <2>9, <3>1 DEF Done
    <3>2. CASE c.ask # "narrow"
      <4>1. row.state \in EndedStates
        BY <2>4, <3>2, StatesApart
      <4> QED BY <2>7, <4>1 DEF Done
    <3> QED BY <3>1, <3>2
  <2>12. row.state \in Terminated => c.ask # "narrow"
    BY <2>4, <2>8
  <2>13. \A r \in Ids :
           /\ m.record[r].state \in Terminated => d.record[r].state \in Terminated \/ (c.ask # "narrow" /\ c.on = r)
           /\ m.record[r].width = 1 => d.record[r].width = 1 \/ c.on = r
    BY <2>7, <2>12
  <2> QED BY <1>1, <1>4, <2>1, <2>6, <2>10, <2>11, <2>13 DEF Effected
<1>5. QED BY <1>2, <1>3, <1>4

(* A requester's change, decided or replayed. *)
LEMMA EffectEffected ==
  ASSUME NEW d \in Databases, Linked(d), NEW k \in Keys, NEW c \in Contents, NEW id, NEW v,
         c.ask \in Widenings => id \in Ids /\ id[1] = k,
         Binds(v) => d.bound[k] = NoBinding,
         v.outcome \in {"applied"} \cup Saved => Binds(v),
         v.outcome = "applied" =>
           c.ask \in Widenings \/ d.record[c.on].state \in (IF c.ask = "cancel" THEN Pending ELSE Effective),
         v.outcome \in Saved => c.ask \in Widenings
  PROVE  Effected(d, Effect(d, k, c, v, id), k, c, v, id)
<1>1. CASE ~Binds(v)
  <2>1. v.outcome \notin {"applied"} \cup Saved /\ (v.outcome = "rejected" => v.row = 2)
    BY <1>1 DEF Binds
  <2>2. Widened(d, k, c, v, id) = d
    BY <2>1 DEF Widened, Saved
  <2>3. Effect(d, k, c, v, id) = d
    BY <1>1, <2>1, <2>2 DEF Effect
  <2>4. Stays(d, d)
    BY DEF Stays
  <2> QED BY <1>1, <2>1, <2>3, <2>4 DEF Effected
<1>2. CASE Binds(v) /\ c.ask \in Widenings
  <2>1. c \in WideningContents
    BY <1>2 DEF Contents, TighteningContents, Widenings, Tightenings
  <2> QED BY <1>2, <2>1, WideningEffect
<1>3. CASE Binds(v) /\ c.ask \notin Widenings
  <2>1. c \in TighteningContents
    BY <1>3 DEF Contents, WideningContents
  <2> QED BY <1>3, <2>1, TighteningEffect
<1>4. QED BY <1>1, <1>2, <1>3

(* A requester's request, decided. *)
LEMMA UserEffected ==
  ASSUME NEW d \in Databases, Linked(d), NEW k \in Keys, NEW c \in Contents, NEW id, NEW eligible, NEW invalid,
         c.ask \in Widenings => id \in Ids /\ id[1] = k
  PROVE  LET v == Verdict(UserFacts(d, k, c, eligible), invalid)
         IN Effected(d, Effect(d, k, c, v, id), k, c, v, id)
<1> DEFINE f == UserFacts(d, k, c, eligible)
           v == Verdict(f, invalid)
<1>1. /\ Binds(v) => d.bound[k] = NoBinding
      /\ v.outcome \in {"applied"} \cup Saved => Binds(v)
      /\ v.outcome = "applied" =>
           c.ask \in Widenings \/ d.record[c.on].state \in (IF c.ask = "cancel" THEN Pending ELSE Effective)
      /\ v.outcome \in Saved => c.ask \in Widenings
  BY VerdictHolds
<1> HIDE DEF v
<1>2. Effected(d, Effect(d, k, c, v, id), k, c, v, id)
  BY <1>1, EffectEffected
<1>3. QED BY <1>2 DEF v

(* What is bound stays bound, and the keys keep naming what is so. *)
LEMMA EffectedNamed ==
  ASSUME NEW d \in Databases, NEW m, NEW k \in Keys, NEW c \in Contents, NEW v, NEW id,
         c.ask \in Widenings => id \in Ids /\ id[1] = k, Effected(d, m, k, c, v, id), Named(d)
  PROVE  Named(m) /\ StaysBound(d, m)
<1>1. Stays(d, m) /\ \A q \in Keys : q # k => m.bound[q] = d.bound[q]
  BY DEF Effected
<1>2. StaysBound(d, m)
  BY DEF Effected, StaysBound
<1>3. ASSUME NEW q \in Keys, d.bound[q] # NoBinding, m.bound[q] = d.bound[q]
      PROVE  /\ m.bound[q].of.ask \in Widenings =>
                  m.bound[q].rec \in Ids /\ m.bound[q].rec[1] = q /\ m.record[m.bound[q].rec].state # "none"
             /\ m.bound[q].of.ask \in Tightenings /\ m.bound[q].outcome = "applied" => Done(m, m.bound[q].of)
  <2>1. PICK b : b = d.bound[q]
    OBVIOUS
  <2>2. /\ b.of.ask \in Widenings => b.rec \in Ids /\ b.rec[1] = q /\ d.record[b.rec].state # "none"
        /\ b.of.ask \in Tightenings /\ b.outcome = "applied" => Done(d, b.of)
    BY <1>3, <2>1 DEF Named
  <2>3. b \in Bindings
    BY <1>3, <2>1, DatabaseType DEF KeyTable
  <2>4. b.of.ask \in Tightenings => b.of.on \in Ids
    BY <2>3 DEF Bindings, Contents, WideningContents, TighteningContents, Widenings, Tightenings
  <2>5. b.of.ask \in Tightenings /\ b.outcome = "applied" => Done(m, b.of)
    BY <1>1, <2>2, <2>4, DoneStays
  <2>6. b.of.ask \in Widenings => m.record[b.rec].state # "none"
    BY <1>1, <2>2 DEF Stays
  <2> QED BY <1>3, <2>1, <2>2, <2>5, <2>6
<1>4. ASSUME NEW q \in Keys, m.bound[q] # NoBinding
      PROVE  /\ m.bound[q].of.ask \in Widenings =>
                  m.bound[q].rec \in Ids /\ m.bound[q].rec[1] = q /\ m.record[m.bound[q].rec].state # "none"
             /\ m.bound[q].of.ask \in Tightenings /\ m.bound[q].outcome = "applied" => Done(m, m.bound[q].of)
  <2>1. CASE m.bound[q] = d.bound[q]
    BY <1>3, <1>4, <2>1
  <2>2. CASE m.bound[q] # d.bound[q]
    <3>1. q = k /\ Binds(v)
      BY <2>2 DEF Effected
    <3>2. /\ m.bound[k].of = c /\ m.bound[k].outcome = v.outcome
          /\ c.ask \in Widenings => m.bound[k].rec = id /\ m.record[id].state # "none"
          /\ v.outcome = "applied" /\ c.ask \in Tightenings => Done(m, c)
      BY <3>1 DEF Effected
    <3> QED BY <3>1, <3>2
  <2> QED BY <2>1, <2>2
<1>5. QED BY <1>2, <1>4 DEF Named

(* A request is recalled without the revisions it expected: what it asks, and of which record, it keeps. *)
LEMMA RecalledIs ==
  ASSUME NEW c \in Contents
  PROVE  /\ Recalled(c) \in Contents /\ Recalled(c).ask = c.ask /\ Recalled(c).on = c.on
         /\ \A m : Done(m, Recalled(c)) <=> Done(m, c)
<1>1. Recalled(c) \in Contents /\ Recalled(c).ask = c.ask /\ Recalled(c).on = c.on
  BY ChangesParameters DEF Recalled, Contents, WideningContents, TighteningContents
<1>2. QED BY <1>1 DEF Done

(* An answer that is a binding's is of the same request. *)
LEMMA AnsweredByKey ==
  ASSUME NEW d, NEW k, NEW c \in Contents, NEW f, NEW invalid, f.key = UserFacts(d, k, c, "proven").key, Verdict(f, invalid).row = 1
  PROVE  d.bound[k] # NoBinding /\ d.bound[k].of = c /\ ~Binds(Verdict(f, invalid))
<1> DEFINE v == Verdict(f, invalid)
<1>1. v.row = Row(f) /\ v.outcome = RowOutcome[Row(f)]
  BY DEF Verdict
<1>2. Row(f) = 1
  BY <1>1
<1>3. RowConditions(f)[1]
  <2>1. RowConditions(f)[Row(f)]
    BY RowIsFirst
  <2> QED BY <1>2, <2>1
<1>4. f.key = "same"
  BY <1>3 DEF RowConditions
<1>5. f.key = CASE d.bound[k] = NoBinding -> "free" [] d.bound[k].of = c -> "same" [] OTHER -> "other"
  BY UserFactsSay
<1>6. ~Binds(v)
  <2>1. v.outcome = "returned"
    BY <1>1, <1>2 DEF RowOutcome
  <2> HIDE DEF v
  <2> QED BY <2>1 DEF Binds, Saved
<1> HIDE DEF v
<1>7. d.bound[k] # NoBinding /\ d.bound[k].of = c
  <2>1. NoBinding.of # c
    BY NoneIsNothing DEF NoBinding
  <2> QED BY <1>4, <1>5, <2>1
<1>8. QED BY <1>6, <1>7 DEF v

\* What the replay of e comes to, m being the database and done whether it came to something: e's identity in the history and, when
\* its key is not misbound, what e tells so.
Misbound(d, e) ==
  LET b == d.bound[e.key]
  IN /\ b # NoBinding
     /\ \/ e.of.ask \in Widenings /\ b.of.ask \in Widenings /\ b.rec # e.rec
        \/ /\ e.of.ask \in Tightenings /\ b.of = Recalled(e.of) /\ b.outcome # "applied"
           /\ d.record[e.of.on].state \notin EndedStates

ComesTo(d, e, m, done) ==
  /\ Stays(d, m) /\ StaysBound(d, m) /\ Named(m)
  /\ \A q \in Keys : m.bound[q] # d.bound[q] =>
       /\ q = e.key /\ m.bound[q] # NoBinding /\ m.bound[q].of = Recalled(e.of)
       /\ e.of.ask \in Widenings => m.bound[q].rec = e.rec
       /\ m.bound[q].outcome # "applied" => e.of.ask \in Tightenings /\ m.record[e.of.on].state \in EndedStates
  /\ m.history = IF done THEN d.history \cup {e.id} ELSE d.history
  /\ done /\ ~Misbound(d, e) =>
       IF e.of.ask \in Widenings THEN m.record[e.rec].state # "none" ELSE Done(m, e.of)

(* The replay of a conclusion or of an intent. *)
LEMMA ReplayComesTo ==
  ASSUME NEW d \in Databases, Linked(d), Named(d), NEW e, e.key \in Keys, e.of \in Contents, e.id \in Ids, e.rec \in Ids,
         e.of.ask \in Widenings => e.rec[1] = e.key
  PROVE  ComesTo(d, e, Replay(d, e).db, Replay(d, e).done)
<1> DEFINE k == e.key
           c == Recalled(e.of)
           f == UserFacts(d, k, c, "proven")
           g == ReplayFacts(f)
           v == Verdict(g, Invalid(c))
           x == Effect(d, k, c, v, e.rec)
           past == x.history \cup {e.id}
           m == [x EXCEPT !.history = past]
           over == c.ask \notin Widenings /\ d.record[c.on].state \in EndedStates
<1>1. c \in Contents /\ c.ask = e.of.ask /\ c.on = e.of.on /\ \A y : Done(y, c) <=> Done(y, e.of)
  BY RecalledIs
<1>2. \/ Replay(d, e).db = d /\ Replay(d, e).done = FALSE
      \/ Replay(d, e).db = m /\ Replay(d, e).done = TRUE /\ CameTo(v, over)
  BY DEF Replay, NameOf
<1>3. g.trigger = f.trigger /\ g.key = f.key /\ g.kind = f.kind /\ g.fromState = f.fromState
  BY ReplayFactsSay
<1> HIDE DEF g, c
<1>4. /\ Binds(v) => d.bound[k] = NoBinding
      /\ v.outcome \in {"applied"} \cup Saved => Binds(v)
      /\ v.outcome = "applied" =>
           c.ask \in Widenings \/ d.record[c.on].state \in (IF c.ask = "cancel" THEN Pending ELSE Effective)
      /\ v.outcome \in Saved => c.ask \in Widenings
  BY <1>1, <1>3, VerdictHolds
<1>5. v.row = 1 => d.bound[k] # NoBinding /\ d.bound[k].of = c /\ ~Binds(v)
  BY <1>1, <1>3, AnsweredByKey
<1> HIDE DEF v, f
<1>6. Effected(d, x, k, c, v, e.rec)
  BY <1>1, <1>4, EffectEffected
<1> HIDE DEF x
<1>7. Named(x) /\ StaysBound(d, x)
  BY <1>1, <1>6, EffectedNamed
<1>8. /\ x \in Databases /\ x.history = d.history /\ Stays(d, x)
      /\ \A q \in Keys : q # k => x.bound[q] = d.bound[q]
  BY <1>6 DEF Effected
<1>9. m \in Databases /\ m.history = past /\ m.record = x.record /\ m.bound = x.bound
  <2>1. past \in Histories
    BY <1>8, DatabaseType DEF Histories
  <2> HIDE DEF past
  <2> QED BY <1>8, <2>1, DatabaseField
<1> HIDE DEF m
<1>10. Stays(x, m) /\ Stays(d, m)
  BY <1>8, <1>9 DEF Stays
<1>11. Named(m) /\ StaysBound(d, m)
  BY <1>7, <1>8, <1>9, <1>10, NamedStays DEF StaysBound
<1>12. m.history = d.history \cup {e.id}
  BY <1>8, <1>9
<1>13. \A y : Done(x, y) => Done(m, y)
  BY <1>9 DEF Done
<1>14. c.ask \in Widenings \/ c.ask \in Tightenings
  BY <1>1 DEF Contents, WideningContents, TighteningContents
<1>15. c.ask \notin Widenings \/ c.ask \notin Tightenings
  BY DEF Widenings, Tightenings
<1>16. ASSUME CameTo(v, over), NEW q \in Keys, m.bound[q] # d.bound[q]
       PROVE  /\ q = k /\ m.bound[q] # NoBinding /\ m.bound[q].of = c
              /\ c.ask \in Widenings => m.bound[q].rec = e.rec
              /\ m.bound[q].outcome # "applied" => c.ask \in Tightenings /\ m.record[c.on].state \in EndedStates
  <2>1. q = k /\ x.bound[k] # d.bound[k]
    BY <1>8, <1>9, <1>16
  <2>2. Binds(v)
    BY <1>6, <2>1 DEF Effected
  <2>3. /\ x.bound[k] # NoBinding /\ x.bound[k].of = c /\ x.bound[k].outcome = v.outcome
        /\ c.ask \in Widenings => x.bound[k].rec = e.rec
    BY <1>6, <2>2 DEF Effected
  <2>4. v.outcome # "applied" => over
    BY <1>5, <1>16, <2>2 DEF CameTo
  <2>5. over => c.ask \in Tightenings /\ d.record[c.on].state \in EndedStates /\ c.on \in Ids
    BY <1>1, <1>14 DEF Contents, WideningContents, TighteningContents
  <2>6. over => m.record[c.on].state \in EndedStates
    BY <1>10, <2>5, StatesApart DEF Stays
  <2> QED BY <1>9, <2>1, <2>3, <2>4, <2>5, <2>6
<1>17. ASSUME CameTo(v, over), ~Misbound(d, e), c.ask \in Widenings
       PROVE  m.record[e.rec].state # "none"
  <2>1. CASE v.outcome = "applied"
    <3>1. x.record[e.rec].state # "none"
      BY <1>6, <1>17, <2>1 DEF Effected
    <3> QED BY <1>9, <3>1
  <2>2. CASE v.outcome # "applied"
    <3>1. v.row = 1
      BY <1>17, <2>2 DEF CameTo
    <3>2. d.bound[k] # NoBinding /\ d.bound[k].of = c
      BY <1>5, <3>1
    <3>3. d.bound[k].rec = e.rec /\ d.record[d.bound[k].rec].state # "none"
      BY <1>1, <1>17, <3>2 DEF Misbound, Named
    <3> QED BY <1>10, <3>3 DEF Stays
  <2> QED BY <2>1, <2>2
<1>18. ASSUME CameTo(v, over), ~Misbound(d, e), c.ask \in Tightenings
       PROVE  Done(m, c)
  <2>0. c.on \in Ids /\ e.of.ask \in Tightenings
    BY <1>1, <1>15, <1>18 DEF Contents, WideningContents, TighteningContents
  <2>1. CASE v.outcome = "applied"
    <3>1. Done(x, c)
      BY <1>6, <1>18, <2>1 DEF Effected
    <3> QED BY <1>13, <3>1
  <2>2. CASE v.outcome # "applied" /\ over
    <3>1. Done(d, c)
      BY <2>2 DEF Done
    <3> QED BY <1>10, <2>0, <3>1, DoneStays
  <2>3. CASE v.row = 1
    <3>1. d.bound[k] # NoBinding /\ d.bound[k].of = c
      BY <1>5, <2>3
    <3>2. d.bound[k].outcome = "applied" => Done(d, c)
      BY <1>18, <3>1 DEF Named
    <3>3. d.bound[k].outcome # "applied" => Done(d, c)
      BY <1>1, <1>18, <2>0, <3>1 DEF Misbound, Done, c
    <3> QED BY <1>10, <2>0, <3>2, <3>3, DoneStays
  <2> QED BY <1>18, <2>1, <2>2, <2>3 DEF CameTo
<1>19. CASE Replay(d, e).db = d /\ Replay(d, e).done = FALSE
  <2>1. Stays(d, d) /\ StaysBound(d, d)
    BY DEF Stays, StaysBound
  <2> QED BY <1>19, <2>1 DEF ComesTo
<1>20. CASE Replay(d, e).db = m /\ Replay(d, e).done = TRUE /\ CameTo(v, over)
  <2>1. ComesTo(d, e, m, TRUE)
    <3>1. \A q \in Keys : m.bound[q] # d.bound[q] =>
            /\ q = e.key /\ m.bound[q] # NoBinding /\ m.bound[q].of = Recalled(e.of)
            /\ e.of.ask \in Widenings => m.bound[q].rec = e.rec
            /\ m.bound[q].outcome # "applied" => e.of.ask \in Tightenings /\ m.record[e.of.on].state \in EndedStates
      BY <1>1, <1>16, <1>20 DEF c
    <3>2. ~Misbound(d, e) => IF e.of.ask \in Widenings THEN m.record[e.rec].state # "none" ELSE Done(m, e.of)
      BY <1>1, <1>14, <1>17, <1>18, <1>20
    <3> QED BY <1>10, <1>11, <1>12, <3>1, <3>2 DEF ComesTo
  <2> QED BY <1>20, <2>1
<1>21. QED BY <1>2, <1>19, <1>20

-----------------------------------------------------------------------------
(* What the member's own steps write *)

\* Nothing is newly terminated or narrowed.
Unmarked(d, m) ==
  \A r \in Ids :
    /\ m.record[r].state \in Terminated => d.record[r].state \in Terminated
    /\ m.record[r].width = 1 => d.record[r].width = 1

\* A record moves on, and is neither terminated nor narrowed.
MovesAlong(d, m) ==
  m \in Databases /\ m.bound = d.bound /\ m.history = d.history /\ Stays(d, m) /\ Unmarked(d, m)

(* A record moves to a state that is no requester's end. *)
LEMMA MovedOn ==
  ASSUME NEW d \in Databases, NEW r \in Ids, d.record[r].state \notin EndedStates \cup {"none"},
         NEW to \in States \ ({"none"} \cup Terminated)
  PROVE  LET m == Moved(d, r, to) IN MovesAlong(d, m) /\ m.record[r].state # "none"
<1> DEFINE m == Moved(d, r, to)
<1>1. d.record[r].state # "none" /\ to \in States \ {"none"} /\ to # "none" /\ to \notin Terminated
  OBVIOUS
<1>2. PICK row : row = [d.record[r] EXCEPT !.state = to, !.rev = d.record[r].rev + 1]
  OBVIOUS
<1>3. m \in Databases /\ m.record = [d.record EXCEPT ![r] = row] /\ m.bound = d.bound /\ m.history = d.history
  <2>1. LET x == Moved(d, r, to)
        IN /\ x \in Databases /\ x.bound = d.bound /\ x.history = d.history
           /\ x.record = [d.record EXCEPT ![r] = [d.record[r] EXCEPT !.state = to, !.rev = d.record[r].rev + 1]]
    BY <1>1, MovedWrites
  <2> QED BY ONLY <1>2, <2>1
<1> HIDE DEF m
<1>4. m.record[r] = row /\ \A s \in Ids : s # r => m.record[s] = d.record[s]
  BY <1>3, RowByRow
<1>5. d.record[r] \in RecordRows
  BY <1>1, DatabaseType DEF Records, NoRecord
<1>6. row.state = to /\ row.width = d.record[r].width
  BY <1>2, <1>5 DEF RecordRows
<1>7. Stays(d, m)
  BY <1>1, <1>4, <1>6, RowWritten
<1>8. Unmarked(d, m)
  <2>1. ASSUME NEW s \in Ids
        PROVE  /\ m.record[s].state \in Terminated => d.record[s].state \in Terminated
               /\ m.record[s].width = 1 => d.record[s].width = 1
    <3>1. CASE s = r
      BY <1>1, <1>4, <1>6, <3>1
    <3>2. CASE s # r
      BY <1>4, <3>2
    <3> QED BY <3>1, <3>2
  <2> QED BY <2>1 DEF Unmarked
<1>9. m.record[r].state # "none"
  BY <1>1, <1>4, <1>6
<1>10. QED BY <1>3, <1>7, <1>8, <1>9 DEF MovesAlong, m

(* What moves on and then stands still has moved on. *)
LEMMA MovedAndLeft ==
  ASSUME NEW d, NEW x, MovesAlong(d, x), NEW m \in Databases, m.record = x.record, m.bound = x.bound, m.history = x.history
  PROVE  MovesAlong(d, m)
BY DEF MovesAlong, Stays, Unmarked

(* A due job. *)
LEMMA JobMoves ==
  ASSUME NEW d \in Databases, NEW j \in Firings, NEW eligible, NEW met, NEW later,
         NEW v, v = Verdict(JobFacts(d, j, eligible, met, later), FALSE), Left(d, j, v) \in Databases
  PROVE  MovesAlong(d, Left(d, j, v))
<1> DEFINE f == JobFacts(d, j, eligible, met, later)
           x == Fired(d, j, v)
           r == j.rec
           m == Left(d, j, v)
<1>1. r \in Ids /\ j.trigger \in Triggered /\ r[1] \in Keys
  BY DEF Firings, Ids
<1>2. v.outcome \in {"applied", "rejected"} \cup Saved => d.record[r].state \in From(j.trigger)
  <2>1. f.trigger = "job" /\ f.key # "other" /\ (f.fromState => d.record[r].state \in From(j.trigger))
    BY JobFactsSay
  <2>2. v = Verdict(f, FALSE)
    OBVIOUS
  <2> HIDE DEF f
  <2> QED BY <2>1, <2>2, ChangedByJob
<1> HIDE DEF f
<1>3. From(j.trigger) \cap (EndedStates \cup {"none"}) = {}
  BY <1>1, StatesApart DEF From, Triggered
<1>4. MovesAlong(d, d)
  BY DEF MovesAlong, Stays, Unmarked
<1>5. {"active", "ended/rejected", "scheduled", "awaiting_confirmation"} \subseteq States \ ({"none"} \cup Terminated)
  BY StatesApart DEF Terminated
<1>6. MovesAlong(d, x)
  <2>1. ASSUME v.outcome \in {"applied", "rejected"} \cup Saved,
               NEW to \in {"active", "ended/rejected", "scheduled", "awaiting_confirmation"}
        PROVE  MovesAlong(d, Moved(d, r, to)) /\ Moved(d, r, to).record[r].state # "none"
    <3>1. d.record[r].state \notin EndedStates \cup {"none"}
      BY <1>2, <1>3, <2>1
    <3>2. to \in States \ ({"none"} \cup Terminated)
      BY <1>5
    <3> HIDE DEF r
    <3> QED BY <1>1, <3>1, <3>2, MovedOn
  <2>2. CASE v.outcome = "applied" /\ j.trigger = "restore"
    <3>1. x = Moved(d, r, "active")
      BY <2>2 DEF Fired
    <3> QED BY <2>1, <2>2, <3>1
  <2>3. CASE v.outcome = "applied" /\ j.trigger # "restore"
    <3> DEFINE y == Moved(d, r, "active")
               k == r[1]
               z == Enacted(y, k)
    <3>1. x = z
      BY <2>3 DEF Fired
    <3>2. MovesAlong(d, y) /\ k \in Keys
      BY <1>1, <2>1, <2>3
    <3> HIDE DEF y, k
    <3>3. z \in Databases /\ z.record = y.record /\ z.bound = y.bound /\ z.history = y.history
      BY <3>2, EnactedWrites DEF MovesAlong
    <3> HIDE DEF z
    <3> QED BY <3>1, <3>2, <3>3, MovedAndLeft
  <2>4. CASE v.outcome = "rejected"
    <3>1. x = Moved(d, r, "ended/rejected")
      BY <2>4 DEF Fired
    <3> QED BY <2>1, <2>4, <3>1
  <2>5. CASE v.outcome = "scheduled" /\ j.trigger = "confirmed"
    <3> DEFINE y == Moved(d, r, "scheduled")
               z == Registered(y, r, "scheduled")
    <3>1. x = z
      BY <2>5 DEF Fired
    <3>2. MovesAlong(d, y) /\ y.record[r].state # "none"
      BY <2>1, <2>5 DEF Saved
    <3> HIDE DEF y, r
    <3>3. z \in Databases /\ z.record = y.record /\ z.bound = y.bound /\ z.history = y.history
      BY <1>1, <3>2, RegisteredWrites DEF MovesAlong, Triggered
    <3> HIDE DEF z
    <3> QED BY <3>1, <3>2, <3>3, MovedAndLeft
  <2>6. CASE v.outcome = "awaiting_saved"
    <3>1. x = Moved(d, r, "awaiting_confirmation")
      BY <2>6 DEF Fired
    <3> QED BY <2>1, <2>6, <3>1 DEF Saved
  <2>7. CASE v.outcome \notin {"applied", "rejected", "awaiting_saved"} /\ ~(v.outcome = "scheduled" /\ j.trigger = "confirmed")
    <3>1. x = d
      BY <2>7 DEF Fired
    <3> QED BY <1>4, <3>1
  <2> QED BY <2>2, <2>3, <2>4, <2>5, <2>6, <2>7
<1>7. m.record = x.record /\ m.bound = x.bound /\ m.history = x.history
  <2>1. x \in Databases
    BY <1>6 DEF MovesAlong
  <2>2. m = IF OwnBinds(v) THEN [x EXCEPT !.own = x.own \cup {[firing |-> j, outcome |-> v.outcome]}] ELSE x
    BY DEF Left
  <2> HIDE DEF x, m
  <2> QED BY <2>1, <2>2 DEF Databases
<1> HIDE DEF m, x
<1>8. QED BY <1>6, <1>7, MovedAndLeft DEF m

(* A confirmation. *)
LEMMA ConfirmMoves ==
  ASSUME NEW d \in Databases, NEW r \in Ids, d.record[r].state # "none"
  PROVE  MovesAlong(d, Registered(d, r, "confirmed"))
<1> DEFINE m == Registered(d, r, "confirmed")
<1>1. m \in Databases /\ m.record = d.record /\ m.bound = d.bound /\ m.history = d.history
  BY RegisteredWrites DEF Triggered
<1> HIDE DEF m
<1>2. MovesAlong(d, d)
  BY DEF MovesAlong, Stays, Unmarked
<1>3. QED BY <1>1, <1>2, MovedAndLeft DEF m

(* A hold. *)
LEMMA HoldMoves ==
  ASSUME NEW d \in Databases, NEW r \in Ids, d.record[r].state = "active"
  PROVE  MovesAlong(d, Registered(Moved(d, r, "held/uncomputable"), r, "restore"))
<1> DEFINE x == Moved(d, r, "held/uncomputable")
           m == Registered(x, r, "restore")
<1>1. d.record[r].state \notin EndedStates \cup {"none"} /\ "held/uncomputable" \in States \ ({"none"} \cup Terminated)
  BY StatesApart DEF Terminated
<1>2. MovesAlong(d, x) /\ x.record[r].state # "none"
  BY <1>1, MovedOn
<1> HIDE DEF x
<1>3. m \in Databases /\ m.record = x.record /\ m.bound = x.bound /\ m.history = x.history
  BY <1>2, RegisteredWrites DEF MovesAlong, Triggered
<1> HIDE DEF m
<1>4. QED BY <1>2, <1>3, MovedAndLeft DEF m, x

-----------------------------------------------------------------------------
(* While serving *)

\* A step while serving: of the database, of what has committed, of what has been told.  What newly committed is done, has its key,
\* and is in the history; the history names nothing else anew but a record that exists; what is newly terminated or narrowed is so
\* by a tightening that committed; a widening newly told of has its key.
Serving ==
  /\ phase = "serving" /\ UNCHANGED <<backup, intents, phase, cursor, failed, before>>
  /\ before # None => store' = store
  /\ Stays(db, db') /\ StaysBound(db, db') /\ Named(db')
  /\ took \subseteq took' /\ took' \subseteq IntentIds /\ db.history \subseteq db'.history
  /\ \A i \in intents : i.id \in took' /\ i.id \notin took =>
       /\ Done(db', i.of) /\ i.id \in db'.history
       /\ db'.bound[i.key] # NoBinding /\ db'.bound[i.key].of = i.of /\ db'.bound[i.key].outcome = "applied"
  /\ \A h \in db'.history : h \notin db.history =>
       IF h \in IntentIds THEN h \in took' \ took ELSE db'.record[h].state # "none"
  /\ \A r \in Ids :
       /\ db'.record[r].state \in Terminated =>
            db.record[r].state \in Terminated \/ \E i \in intents : i.id \in took' /\ i.of.on = r /\ i.of.ask # "narrow"
       /\ db'.record[r].width = 1 =>
            db.record[r].width = 1 \/ \E i \in intents : i.id \in took' /\ i.of.on = r
  /\ \A e \in Current' : e.phase = "general" =>
       e \in Current \/ (db'.bound[e.key] # NoBinding /\ db'.bound[e.key].rec = e.rec)

(* The history names identities, and all of them issued. *)
LEMMA HistoryUsed ==
  ASSUME IInv, RInv
  PROVE  /\ \A h \in db.history : h \in Ids /\ Used(h)
         /\ before = None => \A h \in backup.history : h \in Ids /\ Used(h)
<1>1. db.history \subseteq Ids /\ backup.history \subseteq Ids
  BY Typed, DatabaseType DEF Histories
<1>2. Reflects(db) /\ (before = None => Reflects(backup))
  BY DEF RInv, Foreseen
<1>3. \A h \in db.history : Used(h)
  BY <1>1, <1>2 DEF IInv, Apart, Reflects
<1>4. before = None => \A h \in backup.history : Used(h)
  BY <1>1, <1>2 DEF IInv, Apart, Reflects
<1>5. QED BY <1>1, <1>3, <1>4

(* While something is on its way, the member serves. *)
LEMMA CallsServe ==
  ASSUME RInv, calls # {}
  PROVE  phase = "serving"
BY DEF RInv, Unsettled

(* A step while serving keeps the invariant. *)
LEMMA ServingInv ==
  ASSUME IInv, RInv, Serving, Matched'
  PROVE  RInv'
<1>1. /\ phase = "serving" /\ phase' = "serving" /\ intents' = intents /\ IntentIds' = IntentIds /\ before' = before
      /\ backup' = backup /\ cursor' = cursor /\ failed' = failed
  BY DEF Serving, IntentIds
<1>2. \A i \in intents : i.of.on \in Ids /\ i.key \in Keys /\ i.id \in IntentIds
  <2>1. intents \subseteq Intents
    BY Typed
  <2> QED BY <2>1 DEF Intents, TighteningContents, IntentIds
<1>3. Stays(db, db') /\ StaysBound(db, db') /\ took \subseteq took' /\ db.history \subseteq db'.history
  BY DEF Serving
<1>4. Named(db)'
  BY DEF Serving
<1>5. Reflects(db)'
  <2>1. ASSUME NEW h \in db'.history, h \notin IntentIds PROVE db'.record[h].state # "none"
    <3>1. CASE h \in db.history
      <4>1. h \in Ids /\ db.record[h].state # "none"
        BY <2>1, <3>1, HistoryUsed DEF RInv, Reflects
      <4> QED BY <1>3, <4>1 DEF Stays
    <3>2. CASE h \notin db.history
      BY <2>1, <3>2 DEF Serving
    <3> QED BY <3>1, <3>2
  <2>2. ASSUME NEW i \in intents, i.id \in took', i.id \in db'.history PROVE Done(db', i.of)
    <3>1. CASE i.id \notin took
      BY <2>2, <3>1 DEF Serving
    <3>2. CASE i.id \in took /\ i.id \in db.history
      <4>1. Done(db, i.of)
        BY <3>2 DEF RInv, Reflects
      <4>2. PICK c : c = i.of
        OBVIOUS
      <4> QED BY <1>2, <1>3, <4>1, <4>2, DoneStays
    <3>3. CASE i.id \in took /\ i.id \notin db.history
      BY <1>2, <2>2, <3>3 DEF Serving
    <3> QED BY <3>1, <3>2, <3>3
  <2> QED BY <1>1, <2>1, <2>2 DEF Reflects
<1>6. Accounted'
  <2>1. ASSUME NEW r \in Ids
        PROVE  /\ Was'[r].state \in Terminated => \E i \in intents : i.id \in took' /\ i.of.on = r /\ i.of.ask # "narrow"
               /\ Was'[r].width = 1 => \E i \in intents : i.id \in took' /\ i.of.on = r
    <3>1. /\ Was[r].state \in Terminated => \E i \in intents : i.id \in took /\ i.of.on = r /\ i.of.ask # "narrow"
          /\ Was[r].width = 1 => \E i \in intents : i.id \in took /\ i.of.on = r
      BY DEF RInv, Accounted
    <3>2. CASE before # None
      <4>1. Was' = Was
        BY <1>1, <3>2 DEF Was
      <4> QED BY <1>3, <3>1, <4>1
    <3>3. CASE before = None
      <4>1. Was = db.record /\ Was' = db'.record
        BY <1>1, <3>3 DEF Was
      <4>2. /\ db'.record[r].state \in Terminated =>
                 db.record[r].state \in Terminated \/ \E i \in intents : i.id \in took' /\ i.of.on = r /\ i.of.ask # "narrow"
            /\ db'.record[r].width = 1 =>
                 db.record[r].width = 1 \/ \E i \in intents : i.id \in took' /\ i.of.on = r
        BY DEF Serving
      <4> QED BY <1>3, <3>1, <4>1, <4>2
    <3> QED BY <3>2, <3>3
  <2> QED BY <1>1, <2>1 DEF Accounted
<1>7. ASSUME before = None PROVE Foreseen'
  <2>1. /\ Named(backup) /\ Reflects(backup)
        /\ \A e \in Current : e.phase = "general" => db.bound[e.key] # NoBinding /\ db.bound[e.key].rec = e.rec
        /\ \A k \in Keys : backup.bound[k] # NoBinding => db.bound[k] = backup.bound[k]
        /\ \A i \in intents : i.id \in took =>
             db.bound[i.key] # NoBinding /\ db.bound[i.key].of = i.of /\ db.bound[i.key].outcome = "applied"
        /\ \A h \in IntentIds : h \in db.history \cup backup.history => h \in took
    BY <1>7 DEF RInv, Foreseen
  <2>2. Reflects(backup)'
    BY <1>1, <1>2, <2>1 DEF Reflects
  <2>3. ASSUME NEW e \in Current', e.phase = "general"
        PROVE  db'.bound[e.key] # NoBinding /\ db'.bound[e.key].rec = e.rec
    <3>1. e \in Current \/ (db'.bound[e.key] # NoBinding /\ db'.bound[e.key].rec = e.rec)
      BY <2>3 DEF Serving
    <3>2. CASE e \in Current
      <4>1. e \in Told /\ e.key \in Keys
        BY <3>2, Typed DEF Current, Told, Conclusions
      <4> QED BY <1>3, <2>1, <2>3, <3>2, <4>1 DEF StaysBound
    <3> QED BY <3>1, <3>2
  <2>4. ASSUME NEW k \in Keys, backup.bound[k] # NoBinding PROVE db'.bound[k] = backup.bound[k]
    BY <1>3, <2>1, <2>4 DEF StaysBound
  <2>5. ASSUME NEW i \in intents, i.id \in took'
        PROVE  db'.bound[i.key] # NoBinding /\ db'.bound[i.key].of = i.of /\ db'.bound[i.key].outcome = "applied"
    <3>1. CASE i.id \in took
      BY <1>2, <1>3, <2>1, <3>1 DEF StaysBound
    <3>2. CASE i.id \notin took
      BY <2>5, <3>2 DEF Serving
    <3> QED BY <3>1, <3>2
  <2>6. ASSUME NEW h \in IntentIds, h \in db'.history \cup backup.history PROVE h \in took'
    BY <1>3, <2>1, <2>6 DEF Serving
  <2> QED BY <1>1, <2>1, <2>2, <2>3, <2>4, <2>5, <2>6 DEF Foreseen
<1>8. Foreseen'
  BY <1>1, <1>7 DEF Foreseen
<1>9. Replaying' /\ Unsettled'
  BY <1>1 DEF Replaying, Unsettled
<1>10. Progress'
  <2> SUFFICES ASSUME before # None PROVE Progress'
    BY <1>1 DEF Progress
  <2>1. store' = store
    BY DEF Serving
  <2>2. Met \subseteq Met'
    BY <1>1, <1>3 DEF Met
  <2>3. took' \subseteq Met'
    <3>1. took \subseteq Met
      BY <1>1 DEF RInv, Progress
    <3>2. ASSUME NEW h \in took', h \notin took PROVE h \in Met'
      <4>1. took' \subseteq IntentIds
        BY DEF Serving
      <4> QED BY <1>1, <3>2, <4>1 DEF Serving, IntentIds, Met
    <3> QED BY <2>2, <3>1, <3>2
  <2>4. /\ \A n \in 1..Len(store) : n < cursor /\ store[n].phase # "cancelled" => store[n].id \in Met
        /\ phase # "replaying" => cursor > Len(store)
    BY DEF RInv, Progress
  <2> QED BY <1>1, <2>1, <2>2, <2>3, <2>4 DEF Progress
<1>11. QED BY <1>4, <1>5, <1>6, <1>8, <1>9, <1>10 DEF RInv

(* What is told newly is matched if it is a widening's, or a request's that is on its way. *)
LEMMA MatchedStays ==
  ASSUME IInv, RInv, UNCHANGED intents, \A a \in calls' : a.call \in intents,
         \A e \in Told' : e \in Told \/ e.phase = "general"
                          \/ \E i \in intents : e.id = i.id /\ e.key = i.key /\ e.of = i.of /\ e.rec = i.of.on
  PROVE  Matched'
<1>1. Matched
  BY DEF RInv
<1>2. \A i, j \in intents : i.id = j.id => i = j
  BY <1>1 DEF Matched
<1>3. ASSUME NEW e \in Told', e.phase # "general"
      PROVE  e.rec = e.of.on /\ \A i \in intents : i.id = e.id => i.key = e.key /\ i.of = e.of
  <2>1. CASE e \in Told
    BY <1>1, <1>3, <2>1 DEF Matched
  <2>2. CASE \E i \in intents : e.id = i.id /\ e.key = i.key /\ e.of = i.of /\ e.rec = i.of.on
    BY <1>2, <2>2
  <2> QED BY <1>3, <2>1, <2>2
<1>4. QED BY <1>2, <1>3 DEF Matched

(* A record that moves on, or nothing of the database but its queue, is a step while serving. *)
LEMMA MovesServe ==
  ASSUME IInv, RInv, phase = "serving", MovesAlong(db, db'),
         UNCHANGED <<backup, intents, phase, cursor, failed, before, took>>, before # None => store' = store,
         \A a \in calls' : a.call \in intents,
         \A e \in Told' : e \in Told \/ \E i \in intents : e.id = i.id /\ e.key = i.key /\ e.of = i.of /\ e.rec = i.of.on,
         \A e \in Current' : e \in Current \/ e.phase # "general"
  PROVE  RInv'
<1>1. Stays(db, db') /\ Unmarked(db, db') /\ db'.bound = db.bound /\ db'.history = db.history
  BY DEF MovesAlong
<1>2. Named(db')
  BY <1>1, NamedStays, Typed DEF RInv
<1>3. took \subseteq IntentIds
  BY DEF IInv, Apart
<1>4. Serving
  BY <1>1, <1>2, <1>3 DEF Serving, StaysBound, Unmarked
<1>5. Matched'
  BY MatchedStays
<1>6. QED BY <1>4, <1>5, ServingInv

(* A database with the tables the invariant reads as they were has moved along. *)
LEMMA StandsStill ==
  ASSUME NEW d \in Databases, NEW m \in Databases, m.record = d.record, m.bound = d.bound, m.history = d.history
  PROVE  MovesAlong(d, m)
<1>1. MovesAlong(d, d)
  BY DEF MovesAlong, Stays, Unmarked
<1>2. QED BY <1>1, MovedAndLeft

(* What leaves the queue and the store as they were tells nothing new. *)
LEMMA NothingTold ==
  ASSUME db'.outbox = db.outbox, UNCHANGED <<backup, store>>
  PROVE  Told' = Told /\ Current' = Current
BY DEF Told, Current, Elements

(* A confirmation is a step while serving, in which the record stands still. *)
LEMMA ConfirmRecovers ==
  ASSUME IInv, RInv, NEW r \in Ids, Confirm(r)
  PROVE  RInv'
<1>1. /\ phase = "serving" /\ db.record[r].state # "none" /\ db' = Registered(db, r, "confirmed")
      /\ UNCHANGED <<backup, intents, store, issued, calls, phase, cursor, failed, before, took>>
  BY DEF Confirm
<1>2. db'.outbox = db.outbox
  BY <1>1, Typed, ConfirmSteps
<1>3. MovesAlong(db, db')
  BY <1>1, Typed, ConfirmMoves
<1>4. QED BY <1>1, <1>2, <1>3, NothingTold, MovesServe DEF RInv, Matched

(* A hold: its record moves on. *)
LEMMA HoldRecovers ==
  ASSUME IInv, RInv, NEW r \in Ids, Hold(r)
  PROVE  RInv'
<1>1. /\ phase = "serving" /\ db.record[r].state = "active"
      /\ db' = Registered(Moved(db, r, "held/uncomputable"), r, "restore")
      /\ UNCHANGED <<backup, intents, store, issued, calls, phase, cursor, failed, before, took>>
  BY DEF Hold
<1>2. db'.outbox = db.outbox
  BY <1>1, Typed, HoldSteps
<1>3. MovesAlong(db, db')
  BY <1>1, Typed, HoldMoves
<1>4. QED BY <1>1, <1>2, <1>3, NothingTold, MovesServe DEF RInv, Matched

(* A failed transaction: the call is still an intent's. *)
LEMMA FailRecovers ==
  ASSUME IInv, RInv, NEW a \in calls, Fail(a)
  PROVE  RInv'
<1>1. PICK closed : closed = [a EXCEPT !.open = FALSE]
  OBVIOUS
<1>2. /\ calls' = (calls \ {a}) \cup {closed}
      /\ UNCHANGED <<db, backup, intents, store, issued, phase, cursor, failed, before, took>>
  BY <1>1 DEF Fail
<1>3. closed.call = a.call
  <2>1. a \in [call: Intents, open: BOOLEAN]
    BY DEF IInv, TypeOK
  <2> QED BY <1>1, <2>1
<1>4. \A b \in calls' : b.call \in intents
  BY <1>2, <1>3 DEF RInv, Matched
<1>5. MovesAlong(db, db')
  BY <1>2, Typed, StandsStill
<1>6. phase = "serving"
  BY CallsServe
<1>7. QED BY <1>2, <1>4, <1>5, <1>6, NothingTold, MovesServe

(* A crash: nothing is on its way any more. *)
LEMMA CrashRecovers ==
  ASSUME IInv, RInv, Crash
  PROVE  RInv'
<1>1. /\ calls # {} /\ calls' = {}
      /\ UNCHANGED <<db, backup, intents, store, issued, phase, cursor, failed, before, took>>
  BY DEF Crash
<1>2. MovesAlong(db, db')
  BY <1>1, Typed, StandsStill
<1>3. phase = "serving"
  BY <1>1, CallsServe
<1>4. QED BY <1>1, <1>2, <1>3, NothingTold, MovesServe

(* A conclusion as cancelled, of its intent. *)
LEMMA CancelRecovers ==
  ASSUME IInv, RInv, NEW a \in calls, Cancel(a)
  PROVE  RInv'
<1>1. PICK e : e = [id |-> a.call.id, key |-> a.call.key, of |-> a.call.of, phase |-> "cancelled", rec |-> a.call.of.on,
                    candidate |-> FALSE]
  OBVIOUS
<1>2. PICK queue : queue = Append(db.outbox, e)
  OBVIOUS
<1>3. /\ db' = [db EXCEPT !.outbox = queue] /\ calls' = calls \ {a}
      /\ UNCHANGED <<backup, intents, store, issued, phase, cursor, failed, before, took>>
  BY <1>1, <1>2 DEF Cancel
<1>4. a.call \in intents /\ a.call \in Intents
  BY DEF IInv, TypeOK, RInv, Matched
<1>5. e \in Conclusions /\ e.phase # "general"
      /\ e.id = a.call.id /\ e.key = a.call.key /\ e.of = a.call.of /\ e.rec = a.call.of.on
  BY <1>1, <1>4 DEF Conclusions, Intents, TighteningContents
<1>6. db \in Databases /\ queue \in Queues /\ Elements(queue) = Elements(db.outbox) \cup {e}
  BY <1>2, <1>5, Typed, Appended DEF Queues
<1>7. db' \in Databases /\ db'.outbox = queue /\ db'.record = db.record /\ db'.bound = db.bound /\ db'.history = db.history
  BY <1>3, <1>6, DatabaseField
<1>8. MovesAlong(db, db')
  BY <1>6, <1>7, StandsStill
<1>9. Told' = Told \cup {e} /\ Current' = Current \cup {e}
  BY <1>3, <1>6, <1>7 DEF Told, Current
<1>10. phase = "serving"
  BY CallsServe
<1>11. \A b \in calls' : b.call \in intents
  BY <1>3 DEF RInv, Matched
<1>12. \A x \in Told' : x \in Told \/ \E i \in intents : x.id = i.id /\ x.key = i.key /\ x.of = i.of /\ x.rec = i.of.on
  BY <1>4, <1>5, <1>9
<1>13. QED BY <1>3, <1>5, <1>8, <1>9, <1>10, <1>11, <1>12, MovesServe

(* A delivery: told as it was queued. *)
LEMMA DeliverRecovers ==
  ASSUME IInv, RInv, Deliver
  PROVE  RInv'
<1>1. PICK e, rest : e = Head(db.outbox) /\ rest = Tail(db.outbox)
  OBVIOUS
<1>2. /\ phase = "serving" /\ before = None /\ db.outbox # <<>> /\ store' = Append(store, e) /\ db' = [db EXCEPT !.outbox = rest]
      /\ UNCHANGED <<backup, intents, issued, calls, phase, cursor, failed, before, took>>
  BY <1>1 DEF Deliver
<1>3. db \in Databases /\ db.outbox \in Seq(Conclusions) /\ store \in Seq(Conclusions)
  BY Typed
<1>4. rest \in Queues /\ e \in Conclusions /\ e \in Elements(db.outbox) /\ Elements(rest) \subseteq Elements(db.outbox)
  BY <1>1, <1>2, <1>3, Shifted DEF Queues
<1>5. Elements(store') = Elements(store) \cup {e}
  BY <1>2, <1>3, <1>4, Appended
<1>6. db' \in Databases /\ db'.outbox = rest /\ db'.record = db.record /\ db'.bound = db.bound /\ db'.history = db.history
  BY <1>2, <1>3, <1>4, DatabaseField
<1>7. MovesAlong(db, db')
  BY <1>3, <1>6, StandsStill
<1>8. Elements(db.outbox)' \subseteq Elements(db.outbox) /\ Elements(store)' = Elements(store) \cup {e}
      /\ Elements(backup.outbox)' = Elements(backup.outbox)
  BY <1>2, <1>4, <1>5, <1>6 DEF Elements
<1>9. Told' \subseteq Told /\ Current' \subseteq Current
  BY <1>4, <1>8 DEF Told, Current
<1>10. \A b \in calls' : b.call \in intents
  BY <1>2 DEF RInv, Matched
<1>11. QED BY <1>2, <1>7, <1>9, <1>10, MovesServe

(* A due job: the widening it tells of has its record, and the record its key. *)
LEMMA DueRecovers ==
  ASSUME IInv, RInv, NEW j \in db.jobs, NEW eligible, NEW met, NEW later, Due(j, eligible, met, later)
  PROVE  RInv'
<1>1. PICK f : f = JobFacts(db, j, eligible, met, later)
  OBVIOUS
<1>2. PICK v : v = Verdict(f, FALSE)
  OBVIOUS
<1>3. PICK own : own = Left(db, j, v)
  OBVIOUS
<1>4. PICK c : c = [ask |-> db.record[j.rec].ask, on |-> None, at |-> 0]
  OBVIOUS
<1>5. PICK e : e = WideningOf(j.rec, j.rec[1], c, FALSE)
  OBVIOUS
<1>6. /\ db' = IF v.outcome = "applied" /\ f.kind = "widen" THEN Evident(own, e) ELSE own
      /\ phase = "serving"
      /\ UNCHANGED <<backup, intents, store, issued, calls, phase, cursor, failed, before, took>>
  BY <1>1, <1>2, <1>3, <1>4, <1>5 DEF Due, Left
<1>7. db \in Databases /\ Linked(db)
  BY Typed
<1>8. j \in Firings
  BY <1>7, DatabaseType DEF WorkItems
<1>9. v = Verdict(JobFacts(db, j, eligible, met, later), FALSE)
  BY <1>1, <1>2
<1>10. /\ own \in Databases /\ own.outbox = db.outbox
       /\ v.outcome = "applied" => db.record[j.rec].state # "none"
  <2>1. JobsStep(db, j, v, own)
    BY <1>3, <1>7, <1>8, <1>9, JobSteps
  <2> QED BY <2>1 DEF JobsStep, Steps
<1>11. MovesAlong(db, own)
  BY <1>3, <1>7, <1>8, <1>9, <1>10, JobMoves
<1>12. \A a \in calls' : a.call \in intents
  BY <1>6 DEF RInv, Matched
<1>13. CASE ~(v.outcome = "applied" /\ f.kind = "widen")
  <2>1. db' = own
    BY <1>6, <1>13
  <2> QED BY <1>6, <1>10, <1>11, <1>12, <2>1, NothingTold, MovesServe
<1>14. CASE v.outcome = "applied" /\ f.kind = "widen"
  <2> DEFINE m == Evident(own, e)
  <2>1. j.rec \in Ids /\ j.rec[1] \in Keys /\ db.record[j.rec].state # "none"
    BY <1>8, <1>10, <1>14 DEF Firings, Ids
  <2>2. db.record[j.rec].ask \in Widenings
    BY <1>7, <2>1, DatabaseType DEF Records, RecordRows, NoRecord
  <2>3. c \in WideningContents
    BY <1>4, <2>2 DEF WideningContents
  <2>4. e \in Conclusions /\ e.id = j.rec /\ e.rec = j.rec /\ e.key = j.rec[1] /\ e.phase = "general"
    BY <1>5, <2>1, <2>3 DEF WideningOf, Conclusions
  <2>5. m \in Databases /\ m.outbox = Append(own.outbox, e) /\ m.history = own.history \cup {e.id}
        /\ m.record = own.record /\ m.bound = own.bound
    BY <1>10, <2>4, EvidentWrites
  <2> HIDE DEF m
  <2>6. db' = m
    BY <1>6, <1>14 DEF m
  <2>7. /\ db'.record = own.record /\ db'.bound = db.bound /\ db'.history = db.history \cup {e.id}
        /\ Stays(db, db') /\ Unmarked(db, db')
    BY <1>11, <2>5, <2>6 DEF MovesAlong, Stays, Unmarked
  <2>8. Named(db')
    BY <1>7, <2>7, NamedStays DEF RInv
  <2>9. Elements(db'.outbox) = Elements(db.outbox) \cup {e}
    <3>1. Elements(Append(db.outbox, e)) = Elements(db.outbox) \cup {e}
      BY <2>4, Typed, Appended
    <3> QED BY <1>10, <2>5, <2>6, <3>1
  <2>10. Told' = Told \cup {e} /\ Current' = Current \cup {e}
    BY <1>6, <2>9 DEF Told, Current
  <2>11. e.id \notin IntentIds /\ db'.record[e.id].state # "none"
    BY <2>1, <2>4, <2>7 DEF IInv, Apart, Stays
  <2>12. db'.bound[e.key] # NoBinding /\ db'.bound[e.key].rec = e.rec
    BY <1>7, <2>1, <2>4, <2>7 DEF Linked, RecordsBound
  <2>13. took \subseteq IntentIds
    BY DEF IInv, Apart
  <2>14. Serving
    BY <1>6, <2>7, <2>8, <2>10, <2>11, <2>12, <2>13 DEF Serving, StaysBound, Unmarked
  <2>15. Matched'
    BY <1>6, <1>12, <2>4, <2>10, MatchedStays
  <2> QED BY <2>14, <2>15, ServingInv
<1>15. QED BY <1>13, <1>14

(* A widening's request: its record is new, and the key names it. *)
LEMMA SubmitRecovers ==
  ASSUME IInv, RInv, NEW k \in Keys, NEW c, NEW eligible, Submit(k, c, eligible)
  PROVE  RInv'
<1>1. PICK id : id = NewId(k)
  OBVIOUS
<1>2. PICK v : v = Verdict(UserFacts(db, k, c, eligible), FALSE)
  OBVIOUS
<1>3. PICK d : d = Effect(db, k, c, v, id)
  OBVIOUS
<1>4. PICK e : e = WideningOf(id, k, c, TRUE)
  OBVIOUS
<1>5. /\ [key |-> k, of |-> c] \in Asked /\ c.ask \in Widenings /\ CanIssue(k) /\ Issue(k) /\ phase = "serving"
      /\ db' = IF v.outcome = "applied" THEN Evident(d, e) ELSE d
      /\ UNCHANGED <<backup, intents, store, calls, phase, cursor, failed, before, took>>
  BY <1>1, <1>2, <1>3, <1>4 DEF Submit
<1>6. c \in Contents /\ c \in WideningContents /\ c.ask \notin Tightenings
  <2>1. c \in Contents
    BY <1>5, ChangesParameters
  <2> QED BY <1>5, <2>1 DEF Contents, TighteningContents, Widenings, Tightenings
<1>7. id \in Ids /\ id[1] = k /\ ~Used(id)
  BY <1>1, <1>5, NewIdIsNew
<1>8. db \in Databases /\ Linked(db) /\ Named(db)
  BY Typed DEF RInv
<1>9. Effected(db, d, k, c, v, id)
  <2>1. LET w == Verdict(UserFacts(db, k, c, eligible), FALSE)
        IN Effected(db, Effect(db, k, c, w, id), k, c, w, id)
    BY <1>6, <1>7, <1>8, UserEffected
  <2> QED BY ONLY <1>2, <1>3, <2>1
<1>10. Named(d) /\ StaysBound(db, d)
  BY <1>6, <1>7, <1>8, <1>9, EffectedNamed
<1>11. d.outbox = db.outbox
  <2>1. c \in Contents /\ db \in Databases /\ Linked(db) /\ (c.ask \in Widenings => id \in Ids /\ id[1] = k)
    BY <1>6, <1>7, <1>8
  <2>2. LET m == Effect(db, k, c, Verdict(UserFacts(db, k, c, eligible), FALSE), id)
        IN Steps(db, m) /\ m.outbox = db.outbox /\ IF c.ask \in Widenings THEN OnlyNew(db, m, id) ELSE NoneNew(db, m)
    BY <2>1, UserSteps
  <2> QED BY ONLY <1>2, <1>3, <2>2
<1>12. d \in Databases /\ d.history = db.history /\ Stays(db, d) /\ Unmarked(db, d)
  BY <1>6, <1>9 DEF Effected, Unmarked
<1>13. e \in Conclusions /\ e.id = id /\ e.rec = id /\ e.key = k /\ e.phase = "general"
  BY <1>4, <1>6, <1>7 DEF WideningOf, Conclusions
<1>14. id \notin IntentIds /\ took \subseteq IntentIds
  BY <1>7 DEF IInv, Apart
<1>15. \A a \in calls' : a.call \in intents
  BY <1>5 DEF RInv, Matched
<1>16. CASE v.outcome # "applied"
  <2>1. db' = d
    BY <1>5, <1>16
  <2>2. Told' = Told /\ Current' = Current
    BY <1>5, <1>11, <2>1, NothingTold
  <2>3. Serving
    BY <1>5, <1>10, <1>12, <1>14, <2>1, <2>2 DEF Serving, Unmarked
  <2>4. Matched'
    BY <1>5, <1>15, <2>2, MatchedStays
  <2> QED BY <2>3, <2>4, ServingInv
<1>17. CASE v.outcome = "applied"
  <2> DEFINE m == Evident(d, e)
  <2>1. m \in Databases /\ m.outbox = Append(d.outbox, e) /\ m.history = d.history \cup {e.id}
        /\ m.record = d.record /\ m.bound = d.bound
    BY <1>12, <1>13, EvidentWrites
  <2> HIDE DEF m
  <2>2. db' = m
    BY <1>5, <1>17 DEF m
  <2>3. Stays(db, db') /\ Unmarked(db, db') /\ StaysBound(db, db') /\ db'.history = db.history \cup {e.id}
    BY <1>10, <1>12, <2>1, <2>2 DEF Stays, Unmarked, StaysBound
  <2>4. Named(db')
    <3>1. Stays(d, m)
      BY <2>1 DEF Stays
    <3> QED BY <1>10, <1>12, <2>1, <2>2, <3>1, NamedStays
  <2>5. Elements(db'.outbox) = Elements(db.outbox) \cup {e}
    <3>1. Elements(Append(db.outbox, e)) = Elements(db.outbox) \cup {e}
      BY <1>13, Typed, Appended
    <3> QED BY <1>11, <2>1, <2>2, <3>1
  <2>6. Told' = Told \cup {e} /\ Current' = Current \cup {e}
    BY <1>5, <2>5 DEF Told, Current
  <2>7. db'.record[e.id].state # "none" /\ db'.bound[e.key] # NoBinding /\ db'.bound[e.key].rec = e.rec
    BY <1>5, <1>9, <1>13, <1>17, <2>1, <2>2 DEF Effected
  <2>8. Serving
    BY <1>5, <1>13, <1>14, <2>3, <2>4, <2>6, <2>7 DEF Serving, Unmarked
  <2>9. Matched'
    BY <1>5, <1>13, <1>15, <2>6, MatchedStays
  <2> QED BY <2>8, <2>9, ServingInv
<1>18. QED BY <1>16, <1>17

(* A tightening's transaction: if it applies it is done, its key says so, and its identity is in the history. *)
LEMMA CommitRecovers ==
  ASSUME IInv, RInv, NEW a \in calls, NEW eligible, Commit(a, eligible)
  PROVE  RInv'
<1>1. PICK k, c : k = a.call.key /\ c = a.call.of
  OBVIOUS
<1>2. PICK invalid : invalid = Invalid(c)
  OBVIOUS
<1>3. PICK v : v = Verdict(UserFacts(db, k, c, eligible), invalid)
  OBVIOUS
<1>4. PICK d : d = Effect(db, k, c, v, None)
  OBVIOUS
<1>5. PICK e : e = [id |-> a.call.id, key |-> k, of |-> c, phase |-> "effective", rec |-> c.on, candidate |-> c.ask = "narrow"]
  OBVIOUS
<1>6. PICK closed : closed = [a EXCEPT !.open = FALSE]
  OBVIOUS
<1>7. /\ db' = IF v.outcome = "applied" THEN Evident(d, e) ELSE d
      /\ took' = IF v.outcome = "applied" THEN took \cup {a.call.id} ELSE took
      /\ calls' = IF v.outcome = "applied" THEN calls \ {a} ELSE (calls \ {a}) \cup {closed}
      /\ UNCHANGED <<backup, intents, store, issued, phase, cursor, failed, before>>
  BY <1>1, <1>2, <1>3, <1>4, <1>5, <1>6 DEF Commit, Concluded
<1>8. PICK i : i = a.call
  OBVIOUS
<1>9. a \in [call: Intents, open: BOOLEAN] /\ i \in Intents /\ i \in intents /\ i.id \in IntentIds /\ i.id \notin took
  BY <1>8 DEF IInv, TypeOK, OnTheWay, RInv, Matched
<1>10. i.key = k /\ i.of = c /\ \A other \in intents : other.id = i.id => other = i
  BY <1>1, <1>8, <1>9 DEF RInv, Matched
<1>11. k \in Keys /\ c \in TighteningContents /\ c \in Contents /\ c.ask \notin Widenings /\ c.ask \in Tightenings
       /\ i.id \in Ids /\ c.on \in Ids
  BY <1>9, <1>10 DEF Intents, Contents, TighteningContents, Widenings, Tightenings
<1>12. e \in Conclusions /\ e.id = i.id /\ e.key = k /\ e.of = c /\ e.rec = c.on /\ e.phase = "effective"
  BY <1>5, <1>8, <1>11 DEF Conclusions, TighteningContents
<1>13. db \in Databases /\ Linked(db) /\ Named(db)
  BY Typed DEF RInv
<1>14. Effected(db, d, k, c, v, None)
  <2>1. LET w == Verdict(UserFacts(db, k, c, eligible), invalid)
        IN Effected(db, Effect(db, k, c, w, None), k, c, w, None)
    BY <1>11, <1>13, UserEffected
  <2> QED BY ONLY <1>3, <1>4, <2>1
<1>15. Named(d) /\ StaysBound(db, d)
  BY <1>11, <1>13, <1>14, EffectedNamed
<1>16. d.outbox = db.outbox
  <2>1. LET m == Effect(db, k, c, Verdict(UserFacts(db, k, c, eligible), invalid), None)
        IN Steps(db, m) /\ m.outbox = db.outbox /\ IF c.ask \in Widenings THEN OnlyNew(db, m, None) ELSE NoneNew(db, m)
    BY <1>11, <1>13, UserSteps
  <2> QED BY ONLY <1>3, <1>4, <2>1
<1>17. d \in Databases /\ d.history = db.history /\ Stays(db, d)
  BY <1>14 DEF Effected
<1>18. closed.call = a.call
  BY <1>6, <1>9
<1>19. \A b \in calls' : b.call \in intents
  BY <1>7, <1>18 DEF RInv, Matched
<1>20. phase = "serving" /\ took \subseteq IntentIds
  BY CallsServe DEF IInv, Apart
<1>21. \A r \in Ids :
         /\ d.record[r].state \in Terminated =>
              db.record[r].state \in Terminated \/ (v.outcome = "applied" /\ c.ask # "narrow" /\ c.on = r)
         /\ d.record[r].width = 1 => db.record[r].width = 1 \/ (v.outcome = "applied" /\ c.on = r)
  BY <1>14 DEF Effected
<1>22. CASE v.outcome # "applied"
  <2>1. db' = d /\ took' = took
    BY <1>7, <1>22
  <2>2. Told' = Told /\ Current' = Current
    BY <1>7, <1>16, <2>1, NothingTold
  <2>3. Serving
    BY <1>7, <1>15, <1>17, <1>20, <1>21, <1>22, <2>1, <2>2 DEF Serving
  <2>4. Matched'
    BY <1>7, <1>19, <2>2, MatchedStays
  <2> QED BY <2>3, <2>4, ServingInv
<1>23. CASE v.outcome = "applied"
  <2> DEFINE m == Evident(d, e)
  <2>1. m \in Databases /\ m.outbox = Append(d.outbox, e) /\ m.history = d.history \cup {e.id}
        /\ m.record = d.record /\ m.bound = d.bound
    BY <1>12, <1>17, EvidentWrites
  <2> HIDE DEF m
  <2>2. db' = m /\ took' = took \cup {i.id}
    BY <1>7, <1>8, <1>23 DEF m
  <2>3. Stays(db, db') /\ StaysBound(db, db') /\ db'.history = db.history \cup {i.id}
    BY <1>12, <1>15, <1>17, <2>1, <2>2 DEF Stays, StaysBound
  <2>4. Named(db') /\ Stays(d, m)
    <3>1. Stays(d, m)
      BY <2>1 DEF Stays
    <3> QED BY <1>15, <1>17, <2>1, <2>2, <3>1, NamedStays
  <2>5. Elements(db'.outbox) = Elements(db.outbox) \cup {e}
    <3>1. Elements(Append(db.outbox, e)) = Elements(db.outbox) \cup {e}
      BY <1>12, Typed, Appended
    <3> QED BY <1>16, <2>1, <2>2, <3>1
  <2>6. Told' = Told \cup {e} /\ Current' = Current \cup {e}
    BY <1>7, <2>5 DEF Told, Current
  <2>7. db'.bound[k] # NoBinding /\ db'.bound[k].of = c /\ db'.bound[k].outcome = "applied" /\ Done(db', c)
    <3>1. d.bound[k] # NoBinding /\ d.bound[k].of = c /\ d.bound[k].outcome = "applied" /\ Done(d, c)
      BY <1>11, <1>14, <1>23 DEF Effected
    <3>2. Done(m, c)
      BY <1>11, <2>4, <3>1, DoneStays
    <3> QED BY <2>1, <2>2, <3>1, <3>2
  <2>8. \A other \in intents : other.id \in took' /\ other.id \notin took =>
          /\ Done(db', other.of) /\ other.id \in db'.history
          /\ db'.bound[other.key] # NoBinding /\ db'.bound[other.key].of = other.of
          /\ db'.bound[other.key].outcome = "applied"
    BY <1>10, <2>2, <2>3, <2>7
  <2>9. \A r \in Ids :
          /\ db'.record[r].state \in Terminated =>
               db.record[r].state \in Terminated
               \/ \E other \in intents : other.id \in took' /\ other.of.on = r /\ other.of.ask # "narrow"
          /\ db'.record[r].width = 1 =>
               db.record[r].width = 1 \/ \E other \in intents : other.id \in took' /\ other.of.on = r
    BY <1>9, <1>10, <1>21, <2>1, <2>2
  <2>10. Serving
    BY <1>7, <1>9, <1>12, <1>20, <2>2, <2>3, <2>4, <2>6, <2>8, <2>9 DEF Serving
  <2>11. Matched'
    BY <1>7, <1>9, <1>10, <1>12, <1>19, <2>6, MatchedStays
  <2> QED BY <2>10, <2>11, ServingInv
<1>24. QED BY <1>22, <1>23

(* A tightening's intent: its identity is new to every history. *)
LEMMA BeginRecovers ==
  ASSUME IInv, RInv, NEW k \in Keys, NEW c, Begin(k, c)
  PROVE  RInv'
<1>1. PICK id : id = NewId(k)
  OBVIOUS
<1>2. PICK call : call = [id |-> id, key |-> k, of |-> c]
  OBVIOUS
<1>3. PICK a : a = [call |-> call, open |-> TRUE]
  OBVIOUS
<1>4. /\ phase = "serving" /\ CanIssue(k) /\ Issue(k)
      /\ intents' = intents \cup {call} /\ calls' = calls \cup {a}
      /\ UNCHANGED <<db, backup, store, phase, cursor, failed, before, took>>
  BY <1>1, <1>2, <1>3 DEF Begin
<1>5. call.id = id /\ call.key = k /\ call.of = c /\ a.call = call
  BY <1>2, <1>3
<1>6. id \in Ids /\ ~Used(id)
  BY <1>1, <1>4, NewIdIsNew
<1>7. IntentIds' = IntentIds \cup {id} /\ Told' = Told /\ Current' = Current /\ Was' = Was /\ Met' = Met
  BY <1>4, <1>5 DEF IntentIds, Told, Current, Elements, Was, Met
<1>8. id \notin IntentIds /\ id \notin took /\ \A e \in Told : e.id # id
  BY <1>6 DEF IInv, Apart
<1>9. id \notin db.history /\ (before = None => id \notin backup.history)
  BY <1>6, HistoryUsed
<1>10. \A i \in intents : i.id # id
  BY <1>8 DEF IntentIds
<1>11. Named(db)'
  BY <1>4 DEF RInv
<1>12. Reflects(db)'
  BY <1>4, <1>5, <1>7, <1>8 DEF RInv, Reflects
<1>13. Matched'
  <2>1. \A i, j \in intents' : i.id = j.id => i = j
    BY <1>4, <1>5, <1>10 DEF RInv, Matched
  <2>2. \A b \in calls' : b.call \in intents'
    BY <1>4, <1>5 DEF RInv, Matched
  <2>3. ASSUME NEW e \in Told, e.phase # "general"
        PROVE  e.rec = e.of.on /\ \A i \in intents' : i.id = e.id => i.key = e.key /\ i.of = e.of
    BY <1>4, <1>5, <1>8, <2>3 DEF RInv, Matched
  <2> QED BY <1>7, <2>1, <2>2, <2>3 DEF Matched
<1>14. Accounted'
  BY <1>4, <1>7 DEF RInv, Accounted
<1>15. Foreseen'
  <2> SUFFICES ASSUME before = None PROVE Foreseen'
    BY <1>4 DEF Foreseen
  <2>1. Foreseen
    BY DEF RInv
  <2>2. Reflects(backup)'
    BY <1>4, <1>5, <1>7, <1>8, <2>1 DEF Foreseen, Reflects
  <2>3. \A i \in intents' : i.id \in took' =>
          db'.bound[i.key] # NoBinding /\ db'.bound[i.key].of = i.of /\ db'.bound[i.key].outcome = "applied"
    BY <1>4, <1>5, <1>8, <2>1 DEF Foreseen
  <2>4. \A h \in IntentIds' : h \in db'.history \cup backup'.history => h \in took'
    BY <1>4, <1>7, <1>9, <2>1 DEF Foreseen
  <2> QED BY <1>4, <1>7, <2>1, <2>2, <2>3, <2>4 DEF Foreseen
<1>16. Replaying' /\ Unsettled'
  BY <1>4 DEF Replaying, Unsettled
<1>17. Progress'
  BY <1>4, <1>7 DEF RInv, Progress
<1>18. QED BY <1>11, <1>12, <1>13, <1>14, <1>15, <1>16, <1>17 DEF RInv

(* What tells nothing new and changes no intent leaves the evidence matched. *)
LEMMA StillMatched ==
  ASSUME RInv, UNCHANGED intents, calls' \subseteq calls, Told' \subseteq Told
  PROVE  Matched'
BY DEF RInv, Matched

(* A backup keeps what the database is. *)
LEMMA BackupRecovers ==
  ASSUME IInv, RInv, Backup
  PROVE  RInv'
<1>1. /\ phase = "serving" /\ before = None /\ backup' = db
      /\ UNCHANGED <<db, intents, store, issued, calls, phase, cursor, failed, before, took>>
  BY DEF Backup
<1>2. Told' \subseteq Told /\ Current' = Current /\ Was' = Was /\ Met' = Met /\ IntentIds' = IntentIds
  BY <1>1 DEF Told, Current, Elements, Was, Met, IntentIds
<1>3. Named(db)' /\ Named(backup)'
  BY <1>1 DEF RInv
<1>4. Reflects(db)' /\ Reflects(backup)'
  BY <1>1, <1>2 DEF RInv, Reflects
<1>5. Matched' /\ Accounted'
  BY <1>1, <1>2, StillMatched DEF RInv, Accounted
<1>6. Foreseen'
  BY <1>1, <1>2, <1>3, <1>4 DEF RInv, Foreseen
<1>7. Replaying' /\ Unsettled' /\ Progress'
  BY <1>1 DEF Replaying, Unsettled, Progress
<1>8. QED BY <1>3, <1>4, <1>5, <1>6, <1>7 DEF RInv

(* A disaster: the backup was foreseen. *)
LEMMA DisasterRecovers ==
  ASSUME IInv, RInv, Disaster
  PROVE  RInv'
<1>1. /\ phase = "serving" /\ before = None /\ before' = db.record /\ db' = backup /\ calls' = {}
      /\ phase' = "replaying" /\ cursor' = 1 /\ UNCHANGED <<backup, intents, store, issued, failed, took>>
  BY DEF Disaster
<1>2. before' # None
  <2>1. db.record \in [Ids -> RecordRows \cup {NoRecord}]
    BY Typed, DatabaseType DEF Records
  <2> QED BY <1>1, <2>1, NoneIsNothing
<1>3. /\ Named(backup) /\ Reflects(backup)
      /\ \A e \in Current : e.phase = "general" => db.bound[e.key] # NoBinding /\ db.bound[e.key].rec = e.rec
      /\ \A k \in Keys : backup.bound[k] # NoBinding => db.bound[k] = backup.bound[k]
      /\ \A i \in intents : i.id \in took =>
           db.bound[i.key] # NoBinding /\ db.bound[i.key].of = i.of /\ db.bound[i.key].outcome = "applied"
  BY <1>1 DEF RInv, Foreseen
<1>4. Told' \subseteq Told /\ Was' = Was /\ IntentIds' = IntentIds /\ Generals' = Generals
  BY <1>1, <1>2 DEF Told, Elements, Was, IntentIds, Generals
<1>5. Named(db)' /\ Reflects(db)'
  BY <1>1, <1>3, <1>4 DEF Reflects
<1>6. Matched' /\ Accounted'
  BY <1>1, <1>4, StillMatched DEF RInv, Accounted
<1>7. Foreseen'
  BY <1>2 DEF Foreseen
<1>8. Replaying'
  <2>1. Generals \subseteq Current /\ \A e \in Generals : e.phase = "general" /\ e.key \in Keys
    BY Typed DEF Generals, Current, Told, Conclusions
  <2>2. \A e, f \in Generals : e.key = f.key => e.rec = f.rec
    BY <1>3, <2>1
  <2>3. \A e \in Generals : backup.bound[e.key] # NoBinding => backup.bound[e.key].rec = e.rec
    BY <1>3, <2>1
  <2> QED BY <1>1, <1>4, <2>2, <2>3 DEF Replaying
<1>9. Unsettled'
  <2>1. \A i \in intents : i.key \in Keys
    BY Typed DEF Intents
  <2>2. \A i \in intents : i.id \in took /\ backup.bound[i.key] # NoBinding => backup.bound[i.key].outcome = "applied"
    BY <1>3, <2>1
  <2> QED BY <1>1, <1>2, <2>2 DEF Unsettled
<1>10. Progress'
  BY <1>1, <1>2 DEF Progress
<1>11. QED BY <1>5, <1>6, <1>7, <1>8, <1>9, <1>10 DEF RInv

-----------------------------------------------------------------------------
(* While the tool recovers *)

(* A replay of a told widening or of an intent: what it meets is met, and the rest of the invariant is kept. *)
LEMMA ReplayedRecovers ==
  ASSUME IInv, RInv, phase # "serving", NEW e, Replayed(e), e.key \in Keys, e.of \in Contents, e.id \in Ids, e.rec \in Ids,
         e.of.ask \in Widenings => e.rec[1] = e.key /\ e.id = e.rec /\ e.id \notin IntentIds /\ e \in Generals /\ phase = "replaying",
         e.of.ask \notin Widenings => \E i \in intents : i.id = e.id /\ i.key = e.key /\ i.of = e.of,
         UNCHANGED <<backup, intents, store, issued, calls, phase, before, took>>
  PROVE  e.id \in Met' /\ Met \subseteq Met' /\ (Progress' => RInv')
<1>1. db \in Databases /\ Linked(db) /\ Named(db) /\ before # None /\ calls = {}
  BY Typed DEF RInv, Unsettled
<1>2. PICK m : m = Replay(db, e).db
  OBVIOUS
<1>3. PICK done : done = Replay(db, e).done
  OBVIOUS
<1>4. ComesTo(db, e, m, done)
  BY <1>1, <1>2, <1>3, ReplayComesTo
<1>5. m.outbox = db.outbox
  BY <1>1, <1>2, ReplaySteps
<1>6. \A i \in intents : i.of.on \in Ids /\ i.key \in Keys /\ i.id \in IntentIds /\ i.of \in Contents
  <2>1. intents \subseteq Intents
    BY Typed
  <2> QED BY <2>1 DEF Intents, TighteningContents, IntentIds, Contents
<1>7. e.of.ask \in Widenings \/ e.of.ask \in Tightenings
  BY DEF Contents, WideningContents, TighteningContents
<1>8. Told' = Told /\ IntentIds' = IntentIds /\ Was' = Was /\ Generals' = Generals
  <2>1. db'.outbox = db.outbox
    BY <1>2, <1>5 DEF Replayed
  <2> QED BY <1>1, <2>1 DEF Told, Elements, IntentIds, Was, Generals
<1>9. Matched' /\ Accounted' /\ Foreseen'
  <2>1. Foreseen'
    BY <1>1 DEF Foreseen
  <2> QED BY <1>8, <2>1, StillMatched DEF RInv, Accounted
<1>10. CASE e.id \in db.history
  <2>1. UNCHANGED <<db, failed>>
    BY <1>10 DEF Replayed
  <2>2. Met' = Met /\ e.id \in Met
    BY <1>10, <2>1 DEF Met
  <2>3. Named(db)' /\ Reflects(db)'
    BY <1>8, <2>1 DEF RInv, Reflects
  <2>4. Replaying' /\ Unsettled'
    BY <1>8, <2>1 DEF RInv, Replaying, Unsettled
  <2> QED BY <1>9, <2>2, <2>3, <2>4 DEF RInv
<1>11. CASE e.id \notin db.history
  <2>1. db' = m /\ failed' = IF done THEN failed ELSE failed \cup {e.id}
    BY <1>2, <1>3, <1>11 DEF Replayed
  <2>2. Stays(db, m) /\ Named(m) /\ m.history = IF done THEN db.history \cup {e.id} ELSE db.history
    BY <1>4 DEF ComesTo
  <2>3. ASSUME NEW q \in Keys, m.bound[q] # db.bound[q]
        PROVE  /\ q = e.key /\ m.bound[q] # NoBinding /\ m.bound[q].of = Recalled(e.of)
               /\ e.of.ask \in Widenings => m.bound[q].rec = e.rec
               /\ m.bound[q].outcome # "applied" => e.of.ask \in Tightenings /\ m.record[e.of.on].state \in EndedStates
    BY <1>4, <2>3 DEF ComesTo
  <2>4. e.id \in Met' /\ Met \subseteq Met'
    BY <2>1, <2>2 DEF Met
  <2>5. Reflects(db)'
    <3>1. ASSUME NEW h \in m.history, h \notin IntentIds PROVE m.record[h].state # "none"
      <4>1. CASE h \in db.history
        <5>1. h \in Ids /\ db.record[h].state # "none"
          BY <3>1, <4>1, HistoryUsed DEF RInv, Reflects
        <5> QED BY <2>2, <5>1 DEF Stays
      <4>2. CASE h \notin db.history
        <5>1. h = e.id /\ done
          BY <2>2, <3>1, <4>2
        <5>2. e.of.ask \in Widenings /\ e.id = e.rec /\ e \in Generals /\ phase = "replaying"
          BY <1>6, <3>1, <5>1
        <5>3. db.bound[e.key] # NoBinding /\ db.bound[e.key].of.ask \in Widenings => db.bound[e.key].rec = e.rec
          BY <5>2 DEF RInv, Replaying
        <5>4. ~Misbound(db, e)
          BY <5>2, <5>3 DEF Misbound, Widenings, Tightenings
        <5> QED BY <1>4, <5>1, <5>2, <5>4 DEF ComesTo
      <4> QED BY <4>1, <4>2
    <3>2. ASSUME NEW i \in intents, i.id \in took, i.id \in m.history PROVE Done(m, i.of)
      <4>1. CASE i.id \in db.history
        <5>1. Done(db, i.of)
          BY <3>2, <4>1 DEF RInv, Reflects
        <5>2. PICK c : c = i.of
          OBVIOUS
        <5> QED BY <1>6, <2>2, <5>1, <5>2, DoneStays
      <4>2. CASE i.id \notin db.history
        <5>1. i.id = e.id /\ done
          BY <2>2, <3>2, <4>2
        <5>2. e.of.ask \notin Widenings
          BY <1>6, <5>1
        <5>3. i.key = e.key /\ i.of = e.of
          BY <5>1, <5>2 DEF RInv, Matched
        <5>4. i.id \in took /\ db.bound[i.key] # NoBinding /\ db.bound[i.key].of = Recalled(i.of)
                /\ db.bound[i.key].outcome # "applied" => db.record[i.of.on].state \in EndedStates
          BY DEF RInv, Unsettled
        <5>5. ~Misbound(db, e)
          BY <3>2, <5>2, <5>3, <5>4 DEF Misbound
        <5> QED BY <1>4, <5>1, <5>2, <5>3, <5>5 DEF ComesTo
      <4> QED BY <4>1, <4>2
    <3> QED BY <1>8, <2>1, <3>1, <3>2 DEF Reflects
  <2>6. Replaying'
    <3> SUFFICES ASSUME phase = "replaying" PROVE Replaying'
      BY DEF Replaying
    <3>1. ASSUME NEW f \in Generals, m.bound[f.key] # NoBinding, m.bound[f.key].of.ask \in Widenings
          PROVE  m.bound[f.key].rec = f.rec
      <4>1. f.key \in Keys
        BY Typed DEF Generals, Told, Conclusions
      <4>2. CASE m.bound[f.key] = db.bound[f.key]
        BY <3>1, <4>2 DEF RInv, Replaying
      <4>3. CASE m.bound[f.key] # db.bound[f.key]
        <5>1. f.key = e.key /\ m.bound[f.key].of = Recalled(e.of) /\ (e.of.ask \in Widenings => m.bound[f.key].rec = e.rec)
          BY <2>3, <4>1, <4>3
        <5>2. e.of.ask \in Widenings
          BY <3>1, <5>1, RecalledIs
        <5>3. e.rec = f.rec
          BY <5>1, <5>2 DEF RInv, Replaying
        <5> QED BY <5>1, <5>2, <5>3
      <4> QED BY <4>2, <4>3
    <3> QED BY <1>8, <2>1, <3>1 DEF RInv, Replaying
  <2>7. Unsettled'
    <3>1. ASSUME NEW i \in intents, i.id \in took, m.bound[i.key] # NoBinding, m.bound[i.key].of = Recalled(i.of),
                 m.bound[i.key].outcome # "applied"
          PROVE  m.record[i.of.on].state \in EndedStates
      <4>1. CASE m.bound[i.key] = db.bound[i.key]
        <5>1. db.record[i.of.on].state \in EndedStates
          BY <3>1, <4>1 DEF RInv, Unsettled
        <5> QED BY <1>6, <2>2, <5>1, StatesApart DEF Stays
      <4>2. CASE m.bound[i.key] # db.bound[i.key]
        <5>1. m.bound[i.key].of = Recalled(e.of) /\ m.record[e.of.on].state \in EndedStates
          BY <1>6, <2>3, <3>1, <4>2
        <5>2. Recalled(e.of).on = e.of.on /\ Recalled(i.of).on = i.of.on
          BY <1>6, RecalledIs
        <5> QED BY <3>1, <5>1, <5>2
      <4> QED BY <4>1, <4>2
    <3> QED BY <1>1, <2>1, <3>1 DEF Unsettled
  <2>8. Named(db)'
    BY <2>1, <2>2
  <2> QED BY <1>9, <2>4, <2>5, <2>6, <2>7, <2>8 DEF RInv
<1>12. QED BY <1>10, <1>11

(* The next conclusion. *)
LEMMA ReplayNextRecovers ==
  ASSUME IInv, RInv, ReplayNext
  PROVE  RInv'
<1>1. PICK e : e = store[cursor]
  OBVIOUS
<1>2. /\ phase = "replaying" /\ cursor <= Len(store) /\ cursor' = cursor + 1
      /\ IF e.phase = "cancelled" THEN UNCHANGED <<db, failed>> ELSE Replayed(e)
      /\ UNCHANGED <<backup, intents, store, issued, calls, phase, before, took>>
  BY <1>1 DEF ReplayNext
<1>3. store \in Seq(Conclusions) /\ cursor \in 1..Len(store)
  BY <1>2, Typed DEF IInv, TypeOK, Begun
<1>4. e \in Conclusions /\ e \in Told /\ e \in Elements(store)
  BY <1>1, <1>3 DEF Told, Elements
<1>5. \A n \in 1..Len(store) : n < cursor /\ store[n].phase # "cancelled" => store[n].id \in Met
  BY <1>2 DEF RInv, Progress, Unsettled
<1>6. ASSUME Met \subseteq Met', e.phase # "cancelled" => e.id \in Met' PROVE Progress'
  <2>1. ASSUME NEW n \in 1..Len(store), n < cursor + 1, store[n].phase # "cancelled" PROVE store[n].id \in Met'
    <3>1. n < cursor \/ n = cursor
      BY <1>3, <2>1
    <3>2. CASE n < cursor
      BY <1>5, <1>6, <2>1, <3>2
    <3>3. CASE n = cursor
      BY <1>1, <1>6, <2>1, <3>3
    <3> QED BY <3>1, <3>2, <3>3
  <2> QED BY <1>2, <2>1 DEF Progress
<1>7. CASE e.phase = "cancelled"
  <2>1. UNCHANGED <<db, backup, intents, store, issued, calls, phase, failed, before, took>>
    BY <1>2, <1>7
  <2>2. Told' = Told /\ IntentIds' = IntentIds /\ Was' = Was /\ Generals' = Generals /\ Met' = Met /\ Current' = Current
    BY <2>1 DEF Told, Elements, IntentIds, Was, Generals, Met, Current
  <2>3. Progress'
    BY <1>6, <1>7, <2>2
  <2>4. Named(db)' /\ Reflects(db)' /\ Matched' /\ Accounted'
    BY <2>1, <2>2, StillMatched DEF RInv, Reflects, Accounted
  <2>5. Foreseen' /\ Replaying' /\ Unsettled'
    BY <1>2, <2>1, <2>2 DEF RInv, Foreseen, Replaying, Unsettled
  <2> QED BY <2>3, <2>4, <2>5 DEF RInv
<1>8. CASE e.phase # "cancelled"
  <2>1. Replayed(e)
    BY <1>2, <1>8
  <2>2. e.key \in Keys /\ e.of \in Contents /\ e.id \in Ids /\ e.rec \in Ids
    BY <1>4 DEF Conclusions, Contents
  <2>3. e.of.ask \in Widenings => e.rec[1] = e.key /\ e.id = e.rec /\ e.id \notin IntentIds /\ e \in Generals
    <3>1. e.of.ask \in Widenings => e.phase = "general" /\ e.id = e.rec /\ e.rec[1] = e.key
      BY <1>4 DEF Conclusions, TighteningContents, Widenings, Tightenings
    <3> QED BY <1>4, <3>1 DEF IInv, Apart, Generals
  <2>4. e.of.ask \notin Widenings => \E i \in intents : i.id = e.id /\ i.key = e.key /\ i.of = e.of
    <3>1. e.of.ask \notin Widenings => e.phase # "general"
      BY <1>4 DEF Conclusions, WideningContents
    <3> QED BY <1>4, <3>1 DEF IInv, Apart, IntentIds, RInv, Matched
  <2>5. e.id \in Met' /\ Met \subseteq Met' /\ (Progress' => RInv')
    BY <1>2, <2>1, <2>2, <2>3, <2>4, ReplayedRecovers
  <2> QED BY <1>6, <2>5
<1>9. QED BY <1>7, <1>8

(* An intent without a conclusion. *)
LEMMA ReplayDeferredRecovers ==
  ASSUME IInv, RInv, NEW i \in intents, NEW leavesNone, ReplayDeferred(i, leavesNone)
  PROVE  RInv'
<1>1. PICK e : e = [id |-> i.id, key |-> i.key, of |-> i.of, rec |-> i.of.on, candidate |-> i.of.ask = "narrow"]
  OBVIOUS
<1>2. /\ (failed' = failed \cup {i.id} /\ UNCHANGED db) \/ Replayed(e)
      /\ phase = "deferred" /\ UNCHANGED <<backup, intents, store, issued, calls, phase, cursor, before, took>>
  BY <1>1 DEF ReplayDeferred
<1>3. i \in Intents
  BY Typed
<1>4. e.id = i.id /\ e.key = i.key /\ e.of = i.of /\ e.rec = i.of.on
  BY <1>1
<1>5. e.key \in Keys /\ e.of \in Contents /\ e.id \in Ids /\ e.rec \in Ids /\ e.of.ask \notin Widenings
  BY <1>3, <1>4 DEF Intents, Contents, TighteningContents, Widenings, Tightenings
<1>6. ASSUME Met \subseteq Met' PROVE Progress'
  BY <1>2, <1>6 DEF RInv, Progress
<1>7. CASE Replayed(e)
  <2>1. Met \subseteq Met' /\ (Progress' => RInv')
    BY <1>2, <1>4, <1>5, <1>7, ReplayedRecovers
  <2> QED BY <1>6, <2>1
<1>8. CASE failed' = failed \cup {i.id} /\ UNCHANGED db
  <2>1. Told' = Told /\ IntentIds' = IntentIds /\ Was' = Was /\ Generals' = Generals /\ Met \subseteq Met'
    BY <1>2, <1>8 DEF Told, Elements, IntentIds, Was, Generals, Met
  <2>2. Named(db)' /\ Reflects(db)' /\ Matched' /\ Accounted'
    BY <1>2, <1>8, <2>1, StillMatched DEF RInv, Reflects, Accounted
  <2>3. Foreseen' /\ Replaying' /\ Unsettled'
    BY <1>2, <1>8, <2>1 DEF RInv, Foreseen, Replaying, Unsettled
  <2> QED BY <1>6, <2>1, <2>2, <2>3 DEF RInv
<1>9. QED BY <1>2, <1>7, <1>8

(* The end of the conclusions: all of them are met. *)
LEMMA ReplayOverRecovers ==
  ASSUME IInv, RInv, ReplayOver
  PROVE  RInv'
<1>1. /\ phase = "replaying" /\ phase' = "deferred" /\ cursor > Len(store)
      /\ UNCHANGED <<db, backup, intents, store, issued, calls, cursor, failed, before, took>>
  BY DEF ReplayOver
<1>2. Told' = Told /\ IntentIds' = IntentIds /\ Was' = Was /\ Met' = Met
  BY <1>1 DEF Told, Elements, IntentIds, Was, Met
<1>3. Named(db)' /\ Reflects(db)' /\ Matched' /\ Accounted'
  BY <1>1, <1>2, StillMatched DEF RInv, Reflects, Accounted
<1>4. Foreseen' /\ Replaying' /\ Unsettled'
  BY <1>1 DEF RInv, Foreseen, Replaying, Unsettled
<1>5. Progress'
  BY <1>1, <1>2 DEF RInv, Progress
<1>6. QED BY <1>3, <1>4, <1>5 DEF RInv

(* The end of the recovery: every tightening that committed has an effective conclusion, replayed, or none, and is an intent
   executed. *)
LEMMA ResumeRecovers ==
  ASSUME IInv, RInv, Resume
  PROVE  RInv'
<1>1. /\ phase = "deferred" /\ phase' = "serving" /\ \A i \in IntentOnly : i.id \in db.history \cup failed
      /\ UNCHANGED <<db, backup, intents, store, issued, calls, cursor, failed, before, took>>
  BY DEF Resume
<1>2. Told' = Told /\ IntentIds' = IntentIds /\ Was' = Was /\ Met' = Met
  BY <1>1 DEF Told, Elements, IntentIds, Was, Met
<1>3. Named(db)' /\ Reflects(db)' /\ Matched' /\ Accounted'
  BY <1>1, <1>2, StillMatched DEF RInv, Reflects, Accounted
<1>4. before # None
  BY <1>1 DEF RInv, Unsettled
<1>5. Foreseen' /\ Replaying' /\ Unsettled'
  BY <1>1, <1>4 DEF Foreseen, Replaying, Unsettled
<1>6. /\ \A n \in 1..Len(store) : n < cursor /\ store[n].phase # "cancelled" => store[n].id \in Met
      /\ cursor > Len(store)
  BY <1>1, <1>4 DEF RInv, Progress
<1>7. ASSUME NEW h \in took PROVE h \in Met
  <2>1. PICK i \in intents : i.id = h
    BY DEF IInv, Apart, IntentIds
  <2>2. CASE i \in IntentOnly
    BY <1>1, <2>1, <2>2 DEF Met
  <2>3. CASE i \notin IntentOnly
    <3>1. PICK n \in 1..Len(store) : store[n].id = h
      BY <2>1, <2>3 DEF IntentOnly
    <3>2. PICK e : e = store[n]
      OBVIOUS
    <3>3. e \in Told
      BY <3>2 DEF Told, Elements
    <3>4. e.phase # "general"
      BY <2>1, <3>1, <3>2, <3>3 DEF IInv, Apart, IntentIds
    <3>5. e.phase = "effective"
      BY <3>1, <3>2, <3>3, <3>4 DEF IInv, ToldTruly
    <3>6. n < cursor
      <4>1. store \in Seq(Conclusions) /\ cursor \in Nat
        BY Typed DEF IInv, TypeOK
      <4> QED BY <1>6, <4>1
    <3> QED BY <1>6, <3>1, <3>2, <3>5, <3>6
  <2> QED BY <2>2, <2>3
<1>8. Progress'
  BY <1>1, <1>2, <1>6, <1>7 DEF Progress
<1>9. QED BY <1>3, <1>5, <1>8 DEF RInv

-----------------------------------------------------------------------------
(* The invariant, and what follows from it *)

(* At first nothing is bound, told or on its way. *)
LEMMA InitRecovers ==
  ASSUME Init
  PROVE  RInv
<1>1. db = Empty /\ backup = Empty
  BY DEF Init
<1>2. /\ \A r \in Ids : Empty.record[r] = NoRecord
      /\ \A k \in Keys : Empty.bound[k] = NoBinding
      /\ Empty.history = {} /\ Empty.outbox = <<>>
  BY DEF Empty
<1>3. intents = {} /\ store = <<>> /\ calls = {} /\ phase = "serving" /\ before = None /\ took = {}
  BY DEF Init
<1>4. Told = {} /\ Current = {} /\ IntentIds = {} /\ Was = Empty.record
  BY <1>1, <1>2, <1>3 DEF Told, Current, Elements, IntentIds, Was
<1>5. Named(Empty) /\ Reflects(Empty)
  BY <1>2, <1>3 DEF Named, Reflects
<1>6. Matched
  BY <1>3, <1>4 DEF Matched
<1>7. Accounted
  BY <1>2, <1>4 DEF Accounted, NoRecord, Terminated
<1>8. Foreseen
  BY <1>1, <1>2, <1>3, <1>4, <1>5 DEF Foreseen
<1>9. Replaying /\ Unsettled /\ Progress
  BY <1>3 DEF Replaying, Unsettled, Progress
<1>10. QED BY <1>1, <1>5, <1>6, <1>7, <1>8, <1>9 DEF RInv

(* Every step keeps the invariant. *)
LEMMA StepRecovers ==
  ASSUME IInv, RInv, [Next]_vars
  PROVE  RInv'
<1>1. ASSUME NEW k \in Keys, NEW c, NEW eligible, Submit(k, c, eligible) PROVE RInv'
  BY <1>1, SubmitRecovers
<1>2. ASSUME NEW k \in Keys, NEW c, Begin(k, c) PROVE RInv'
  BY <1>2, BeginRecovers
<1>3. ASSUME NEW a \in calls, NEW eligible, Commit(a, eligible) PROVE RInv'
  BY <1>3, CommitRecovers
<1>4. ASSUME NEW a \in calls, Fail(a) \/ Cancel(a) PROVE RInv'
  BY <1>4, FailRecovers, CancelRecovers
<1>5. ASSUME Crash PROVE RInv'
  BY <1>5, CrashRecovers
<1>6. ASSUME NEW j \in db.jobs, NEW eligible, NEW met, NEW later, Due(j, eligible, met, later) PROVE RInv'
  BY <1>6, DueRecovers
<1>7. ASSUME NEW r \in Ids, Confirm(r) \/ Hold(r) PROVE RInv'
  BY <1>7, ConfirmRecovers, HoldRecovers
<1>8. ASSUME Deliver \/ Backup \/ Disaster PROVE RInv'
  BY <1>8, DeliverRecovers, BackupRecovers, DisasterRecovers
<1>9. ASSUME ReplayNext \/ ReplayOver \/ Resume PROVE RInv'
  BY <1>9, ReplayNextRecovers, ReplayOverRecovers, ResumeRecovers
<1>10. ASSUME NEW i \in intents, NEW leavesNone, ReplayDeferred(i, leavesNone) PROVE RInv'
  BY <1>10, ReplayDeferredRecovers
<1>11. ASSUME UNCHANGED vars PROVE RInv'
  <2>1. UNCHANGED <<db, backup, intents, store, issued, calls, phase, cursor, failed, before, took>>
    BY <1>11 DEF vars
  <2>2. Told' = Told /\ Current' = Current /\ IntentIds' = IntentIds /\ Was' = Was /\ Met' = Met /\ Generals' = Generals
    BY <2>1 DEF Told, Current, Elements, IntentIds, Was, Met, Generals
  <2>3. Named(db)' /\ Reflects(db)' /\ Matched' /\ Accounted'
    BY <2>1, <2>2, StillMatched DEF RInv, Reflects, Accounted
  <2>4. Foreseen'
    BY <2>1, <2>2 DEF RInv, Foreseen, Reflects
  <2>5. Replaying' /\ Unsettled' /\ Progress'
    BY <2>1, <2>2 DEF RInv, Replaying, Unsettled, Progress
  <2> QED BY <2>3, <2>4, <2>5 DEF RInv
<1>12. \A x \in Asked : x.key \in Keys
  BY ChangesParameters
<1>13. LiveJobs \subseteq db.jobs
  BY DEF LiveJobs
<1>14. QED BY <1>1, <1>2, <1>3, <1>4, <1>5, <1>6, <1>7, <1>8, <1>9, <1>10, <1>11, <1>12, <1>13 DEF Next

(* What recovery rests on holds in every state: keys and history say what is so of the records, before a disaster, while the tool
   replays (replay.go, recoverystep.go) and after. *)
THEOREM RecoveryInvariant == Spec => [](IInv /\ RInv)
<1>1. Init => IInv /\ RInv
  BY InitInv, InitRecovers
<1>2. IInv /\ RInv /\ [Next]_vars => IInv' /\ RInv'
  BY StepInv, StepRecovers
<1> QED BY <1>1, <1>2, PTL DEF Spec

(* No tightening is lost with the database (change.go writes the intent before the effect, replay.go executes the conclusions in
   the order of the commits and then the intents without one): after a recovery, a record that was revoked, cancelled or narrowed
   when the disaster struck is so again, or evidence of it is for review. *)
THEOREM NoTighteningIsLost == Spec => []TighteningsSurvive
<1>1. IInv /\ RInv => TighteningsSurvive
  <2> SUFFICES ASSUME IInv, RInv, Recovered, NEW r \in Ids, ~ForReview(r)
               PROVE  /\ before[r].state \in {"ended/revoked", "ended/cancelled"} =>
                           db.record[r].state \in {"none"} \cup EndedStates
                      /\ before[r].width = 1 => db.record[r].width <= 1 \/ db.record[r].state \in EndedStates
    BY DEF TighteningsSurvive
  <2>1. before # None /\ took \subseteq Met
    BY DEF RInv, Progress, Recovered
  <2>2. ASSUME NEW i \in intents, i.id \in took, i.of.on = r PROVE Done(db, i.of)
    <3>1. i.id \notin failed
      BY <2>2 DEF ForReview
    <3>2. i.id \in db.history
      BY <2>1, <2>2, <3>1 DEF Met
    <3> QED BY <2>2, <3>2 DEF RInv, Reflects
  <2>3. ASSUME before[r].state \in {"ended/revoked", "ended/cancelled"} PROVE db.record[r].state \in EndedStates
    <3>1. PICK i \in intents : i.id \in took /\ i.of.on = r /\ i.of.ask # "narrow"
      BY <2>1, <2>3 DEF RInv, Accounted, Was, Terminated
    <3> QED BY <2>2, <3>1 DEF Done
  <2>4. ASSUME before[r].width = 1 PROVE db.record[r].width <= 1 \/ db.record[r].state \in EndedStates
    <3>1. PICK i \in intents : i.id \in took /\ i.of.on = r
      BY <2>1, <2>4 DEF RInv, Accounted, Was
    <3> QED BY <2>2, <3>1 DEF Done
  <2> QED BY <2>3, <2>4
<1> QED BY <1>1, RecoveryInvariant, PTL

(* A widening whose evidence arrived has, after the recovery, a record under the identity the evidence names it by (insert with a
   replay), or is for review. *)
THEOREM ToldIsNamed == Spec => []KnownByName
<1>1. IInv /\ RInv => KnownByName
  <2> SUFFICES ASSUME IInv, RInv, Recovered, NEW n \in 1..Len(store), store[n].phase = "general"
               PROVE  db.record[store[n].rec].state # "none" \/ store[n].id \in failed
    BY DEF KnownByName
  <2>1. PICK e : e = store[n]
    OBVIOUS
  <2>2. e \in Told /\ e \in Conclusions
    <3>1. e \in Told
      BY <2>1 DEF Told, Elements
    <3> QED BY <3>1, Typed
  <2>3. e.id = e.rec /\ e.id \notin IntentIds
    BY <2>1, <2>2 DEF Conclusions, IInv, Apart
  <2>4. n < cursor
    <3>1. cursor > Len(store) /\ store \in Seq(Conclusions) /\ cursor \in Nat
      BY Typed DEF RInv, Progress, Recovered, IInv, TypeOK
    <3> QED BY <3>1
  <2>5. e.id \in db.history \cup failed
    BY <2>1, <2>4 DEF RInv, Progress, Recovered, Met
  <2>6. e.id \in db.history => db.record[e.id].state # "none"
    BY <2>3 DEF RInv, Reflects
  <2> QED BY <2>1, <2>3, <2>5, <2>6
<1> QED BY <1>1, RecoveryInvariant, PTL
=============================================================================
