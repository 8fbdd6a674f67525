----------------------------- MODULE PlansProofs -----------------------------
(***************************************************************************)
(* Theorems about batch plans, for any plans, items, persons and bounds: the *)
(* types, that an ended plan is settled and stays so, that a rejected item   *)
(* gives nothing, that an attempt starts afresh, that no run is lost, that   *)
(* above the threshold a second person stands behind what runs, and that a   *)
(* tightening acts on what was previewed.                                    *)
(*                                                                          *)
(* They rest on one invariant, IInv.  What it adds to the properties is      *)
(* Linked: an item waits on its own record or on none, and on one that is    *)
(* not yet effective; so what ends a plan ends what its items saved, and     *)
(* only that.                                                               *)
(***************************************************************************)
EXTENDS Plans, DecideProofs, SequenceTheorems, WellFoundedInduction

\* An item i at x, of a plan in state s, its own record in state r, among the keys bound B.
ItemLinked(x, i, s, r, B) ==
  /\ i.state = "none" => i.attempt = 0 /\ r = "none"
  /\ i.state # "none" => i.attempt > 0 /\ s # "none"
  /\ i.state \in Open => i.record \in {None, x} /\ (i.record = None => r = "none")
  /\ i.state = "pending" => i.record = None /\ <<x, i.attempt>> \notin B
  /\ i.state = "needs_review" => r \in {"none", "requested", "awaiting_confirmation"} \cup EndedStates
  /\ i.state = "rejected" => r \in {"none"} \cup EndedStates
  /\ \A n \in Nat : <<x, n>> \in B => n <= i.attempt

Linked == \A x \in Slots : ItemLinked(x, item[x], plan[x[1]].state, record[x], bound)

\* A plan above the threshold runs on a second person.
Doubled == \A p \in Plans : plan[p].state \in Running /\ Above(p) => plan[p].second # None /\ plan[p].second # plan[p].by

IInv == TypeOK /\ Linked /\ EndedIsSettled /\ NoRunLost /\ Doubled

\* An ended plan and its items stay: a step of EndSticks.
Stuck ==
  \A p \in Plans : plan[p].state \in EndedPlans =>
    plan'[p].state = plan[p].state /\ \A x \in ItemsOf(p) : item'[x].state = item[x].state

\* What an item that was pending is applied on: steps of ActsOnThePreviewed and of TwoPersons.
Acts(x) ==
  item[x].state = "pending" /\ item'[x].state = "applied" =>
    /\ item[x].request.ask \in Tightenings => ~item[x].moved
    /\ Above(x[1]) => LET s == plan[x[1]].second IN s # None /\ s # plan[x[1]].by /\ (s # Owner => standing[s] = "proven")
Acted == \A x \in Slots : Acts(x)

\* The item j after i has i's request, attempt and record.
Same(i, j) == j.request = i.request /\ j.attempt = i.attempt /\ j.record = i.record

(* The groups of states the rows are written by. *)
LEMMA StatesApart ==
  /\ EndedStates \cap (Pending \cup Effective) = {} /\ Pending \cap Effective = {}
  /\ EndedStates \cup Pending \cup Effective \subseteq States \ {"none"}
  /\ {"active", "held/security_hold"} \subseteq Effective
  /\ {"requested", "awaiting_confirmation", "scheduled"} = Pending
  /\ {"ended/rejected", "ended/cancelled", "ended/superseded", "ended/revoked"} \subseteq EndedStates
BY DEF EndedStates, Endings, PendingEndings, Effective, HeldStates, States, Pending

(* The groups of states of plans and items. *)
LEMMA PlanStatesApart ==
  /\ Running \cap EndedPlans = {} /\ Running \cup EndedPlans \subseteq PlanStates
  /\ {"none", "draft", "previewed"} \cap (Running \cup EndedPlans) = {}
  /\ "confirmed" \in Running /\ "executing" \in Running
  /\ {"completed", "partially_completed", "cancelled", "expired"} = EndedPlans
  /\ Open \cap Final = {} /\ "none" \notin Open \cup Final
  /\ {"pending", "needs_review"} = Open /\ {"applied", "rejected"} = Final
BY DEF Running, EndedPlans, PlanStates, Open, Final

(* A record that ended moves no more, and one that awaits its confirmation goes nowhere but into effect or its end. *)
LEMMA MovesFrom ==
  ASSUME NEW from, NEW to, Allowed(from, to)
  PROVE  /\ from \notin EndedStates
         /\ from \in {"requested", "awaiting_confirmation"} =>
              to \in {"awaiting_confirmation", "scheduled", "active"} \cup EndedStates
BY DEF Allowed, Moves, EndedStates, Endings, PendingEndings, HeldStates

(* What the answer to an item that waited tells of its record. *)
LEMMA Answers ==
  ASSUME NEW to
  PROVE  /\ Answer(to) \in {"applied", "rejected", "needs_review"}
         /\ Answer(to) = "applied" <=> to \in {"active", "scheduled"}
         /\ Answer(to) = "rejected" <=> to \in EndedStates
BY DEF Answer, EndedStates, Endings, PendingEndings

(* The rows, one at a time. *)
LEMMA Rows ==
  ASSUME TypeOK, NEW x \in Slots
  PROVE  /\ item[x] \in ItemRows /\ x[1] \in Plans /\ x[2] \in Positions /\ x \in Records /\ x = <<x[1], x[2]>>
         /\ plan[x[1]] \in PlanRows /\ record[x] \in States /\ x \in ItemsOf(x[1])
BY DEF TypeOK, Slots, Records, ItemsOf

(* What a plan and an item are before they are drafted. *)
LEMMA EmptyRows ==
  NoPlan \in PlanRows /\ NoItem \in ItemRows
<1>1. 0 \in 0..MaxItems /\ 0 \in 0..MaxDigests /\ 0 \in 0..MaxAttempts
  BY PlansParameters
<1>2. "none" \in PlanStates /\ "none" \in {"none", "ahead", "past"}
  BY DEF PlanStates
<1>3. NoPlan \in PlanRows
  BY <1>1, <1>2 DEF NoPlan, PlanRows
<1>4. NoItem \in ItemRows
  BY <1>1 DEF NoItem, ItemRows
<1> QED BY <1>3, <1>4

(* A target with new revisions is told to the items that name it, of which nothing else changes. *)
LEMMA MovingItem ==
  ASSUME NEW its \in [Slots -> ItemRows], NEW R, NEW x \in Slots
  PROVE  /\ Moving(its, R) \in [Slots -> ItemRows]
         /\ Moving(its, R)[x].state = its[x].state
         /\ Same(its[x], Moving(its, R)[x])
<1>1. ASSUME NEW y \in Slots, NEW b \in BOOLEAN
      PROVE  [its[y] EXCEPT !.moved = b] \in ItemRows /\ [its[y] EXCEPT !.moved = b].state = its[y].state
             /\ Same(its[y], [its[y] EXCEPT !.moved = b])
  BY DEF ItemRows, Same
<1>2. ASSUME NEW y \in Slots
      PROVE  \E b \in BOOLEAN : Moving(its, R)[y] = [its[y] EXCEPT !.moved = b]
  BY DEF Moving
<1>3. Moving(its, R) = [y \in Slots |-> Moving(its, R)[y]]
  BY DEF Moving
<1>4. ASSUME NEW y \in Slots
      PROVE  Moving(its, R)[y] \in ItemRows /\ Moving(its, R)[y].state = its[y].state /\ Same(its[y], Moving(its, R)[y])
  <2>1. PICK b \in BOOLEAN : Moving(its, R)[y] = [its[y] EXCEPT !.moved = b]
    BY <1>2
  <2>2. [its[y] EXCEPT !.moved = b] \in ItemRows /\ [its[y] EXCEPT !.moved = b].state = its[y].state
        /\ Same(its[y], [its[y] EXCEPT !.moved = b])
    BY <1>1
  <2> QED BY <2>1, <2>2
<1>5. Moving(its, R) \in [Slots -> ItemRows]
  BY <1>3, <1>4, Zenon
<1> QED BY <1>4, <1>5

(* What an item becomes when record r moves to a state: an item that waited on it is answered, the others stay. *)
LEMMA FollowedItem ==
  ASSUME TypeOK, NEW r, NEW to, NEW x \in Slots
  PROVE  /\ Followed(r, to) \in [Slots -> ItemRows]
         /\ Followed(r, to)[x].state = IF Waiting(x, r) THEN Answer(to) ELSE item[x].state
         /\ Same(item[x], Followed(r, to)[x])
<1> DEFINE its == [y \in Slots |-> IF Waiting(y, r) THEN [item[y] EXCEPT !.state = Answer(to)] ELSE item[y]]
<1>1. ASSUME NEW y \in Slots
      PROVE  /\ its[y] \in ItemRows /\ Same(item[y], its[y])
             /\ its[y].state = IF Waiting(y, r) THEN Answer(to) ELSE item[y].state
  <2>1. item[y] \in ItemRows
    BY Rows
  <2>2. Answer(to) \in {"none"} \cup Open \cup Final
    BY Answers, PlanStatesApart
  <2> QED BY <2>1, <2>2 DEF ItemRows, Same
<1>2. its \in [Slots -> ItemRows]
  BY <1>1
<1>3. Followed(r, to) = Moving(its, {r})
  BY DEF Followed
<1> HIDE DEF its
<1>4. /\ Moving(its, {r}) \in [Slots -> ItemRows] /\ Moving(its, {r})[x].state = its[x].state
      /\ Same(its[x], Moving(its, {r})[x])
  BY <1>2, MovingItem
<1> QED BY <1>1, <1>3, <1>4 DEF Same

(* What an item becomes when plan p is ended: one still open is rejected. *)
LEMMA TerminatedItem ==
  ASSUME TypeOK, NEW p, NEW x \in Slots
  PROVE  /\ Terminated(p) \in [Slots -> ItemRows]
         /\ Terminated(p)[x].state = IF x[1] = p /\ item[x].state \in Open THEN "rejected" ELSE item[x].state
         /\ Same(item[x], Terminated(p)[x])
<1> DEFINE its == [y \in Slots |-> IF y[1] = p /\ item[y].state \in Open THEN [item[y] EXCEPT !.state = "rejected"] ELSE item[y]]
<1>1. ASSUME NEW y \in Slots
      PROVE  /\ its[y] \in ItemRows /\ Same(item[y], its[y])
             /\ its[y].state = IF y[1] = p /\ item[y].state \in Open THEN "rejected" ELSE item[y].state
  <2>1. item[y] \in ItemRows
    BY Rows
  <2>2. "rejected" \in {"none"} \cup Open \cup Final
    BY PlanStatesApart
  <2> QED BY <2>1, <2>2 DEF ItemRows, Same
<1>2. its \in [Slots -> ItemRows]
  BY <1>1
<1>3. Terminated(p) = Moving(its, Unconfirmed(p))
  BY DEF Terminated
<1> HIDE DEF its
<1>4. /\ Moving(its, Unconfirmed(p)) \in [Slots -> ItemRows] /\ Moving(its, Unconfirmed(p))[x].state = its[x].state
      /\ Same(its[x], Moving(its, Unconfirmed(p))[x])
  BY <1>2, MovingItem
<1> QED BY <1>1, <1>3, <1>4 DEF Same

(* A plan that is settled: as it was, or ended as its items tell; and ended if nothing of it is open. *)
LEMMA SettledPlan ==
  ASSUME TypeOK, NEW its, NEW S, NEW p \in Plans
  PROVE  /\ Settled(its, S) \in [Plans -> PlanRows]
         /\ \/ Settled(its, S)[p] = plan[p]
            \/ /\ p \in S /\ plan[p].state \in Running /\ \A x \in ItemsOf(p) : its[x].state \notin Open
               /\ Settled(its, S)[p].state \in {"completed", "partially_completed"}
               /\ Settled(its, S)[p].state = "completed" => \A x \in ItemsOf(p) : its[x].state # "rejected"
               /\ Settled(its, S)[p].state = "partially_completed" => \E x \in ItemsOf(p) : its[x].state = "rejected"
         /\ p \in S /\ plan[p].state \in Running /\ (\A x \in ItemsOf(p) : its[x].state \notin Open) =>
              Settled(its, S)[p].state \in EndedPlans
<1> DEFINE over(q) == q \in S /\ plan[q].state \in Running /\ \A x \in ItemsOf(q) : its[x].state \notin Open
           end(q) == IF \E x \in ItemsOf(q) : its[x].state = "rejected" THEN "partially_completed" ELSE "completed"
<1>1. ASSUME NEW q \in Plans
      PROVE  Settled(its, S)[q] = IF over(q) THEN [plan[q] EXCEPT !.state = end(q)] ELSE plan[q]
  BY DEF Settled
<1>2. ASSUME NEW q \in Plans, NEW e \in PlanStates
      PROVE  [plan[q] EXCEPT !.state = e] \in PlanRows /\ [plan[q] EXCEPT !.state = e].state = e
  BY DEF TypeOK, PlanRows
<1>3. ASSUME NEW q \in Plans PROVE end(q) \in PlanStates
  BY PlanStatesApart
<1>4. ASSUME NEW q \in Plans
      PROVE  Settled(its, S)[q] \in PlanRows /\ (over(q) => Settled(its, S)[q].state = end(q))
                                              /\ (~over(q) => Settled(its, S)[q] = plan[q])
  <2>1. plan[q] \in PlanRows
    BY DEF TypeOK
  <2>2. PICK e : e = end(q)
    OBVIOUS
  <2>3. PICK o : o <=> over(q)
    OBVIOUS
  <2>4. e \in PlanStates /\ Settled(its, S)[q] = IF o THEN [plan[q] EXCEPT !.state = e] ELSE plan[q]
    BY <1>1, <1>3, <2>2, <2>3
  <2> HIDE DEF over, end
  <2>5. CASE o
    <3>1. Settled(its, S)[q] = [plan[q] EXCEPT !.state = e]
      BY <2>4, <2>5
    <3> QED BY <1>2, <2>2, <2>3, <2>4, <2>5, <3>1
  <2>6. CASE ~o
    BY <2>1, <2>3, <2>4, <2>6
  <2> QED BY <2>5, <2>6
<1>5. Settled(its, S) = [q \in Plans |-> Settled(its, S)[q]]
  BY DEF Settled
<1>6. Settled(its, S) \in [Plans -> PlanRows]
  BY <1>4, <1>5, Zenon
<1>7. over(p) => Settled(its, S)[p].state \in EndedPlans
  BY <1>4, PlanStatesApart
<1> QED BY <1>4, <1>6, <1>7

(* The plans settled are rows of plans, whether or not there are any. *)
LEMMA SettledType ==
  ASSUME TypeOK, NEW its, NEW S
  PROVE  Settled(its, S) \in [Plans -> PlanRows]
<1>1. ASSUME NEW q \in Plans PROVE Settled(its, S)[q] \in PlanRows
  BY SettledPlan
<1>2. Settled(its, S) = [q \in Plans |-> Settled(its, S)[q]]
  BY DEF Settled
<1> QED BY <1>1, <1>2, Zenon

(* A step that leaves every item in its state and every plan in its state or on its way to running. *)
LEMMA Carried ==
  ASSUME IInv, TypeOK',
         \A x \in Slots : item'[x].state = item[x].state /\ Same(item[x], item'[x]),
         record' = record, bound' = bound, parked \subseteq parked',
         \A p \in Plans :
           /\ \/ plan'[p].state = plan[p].state
              \/ plan[p].state \notin EndedPlans /\ plan'[p].state \notin EndedPlans \cup {"none"}
           /\ plan'[p].state \in Running =>
                \/ plan[p].state \in Running /\ (jobs'[p] = jobs[p] \/ p \in parked')
                \/ jobs'[p] > 0,
         Doubled'
  PROVE  IInv' /\ Stuck /\ Acted
<1>1. Linked'
  <2> SUFFICES ASSUME NEW x \in Slots PROVE ItemLinked(x, item'[x], plan'[x[1]].state, record'[x], bound')
    BY DEF Linked
  <2>1. ItemLinked(x, item[x], plan[x[1]].state, record[x], bound) /\ x[1] \in Plans
    BY Rows DEF IInv, Linked
  <2>2. plan[x[1]].state # "none" => plan'[x[1]].state # "none"
    BY <2>1
  <2> QED BY <2>1, <2>2 DEF ItemLinked, Same
<1>2. Stuck
  BY DEF Stuck, ItemsOf
<1>3. EndedIsSettled'
  <2> SUFFICES ASSUME NEW p \in Plans, plan'[p].state \in EndedPlans
               PROVE  plan[p].state = plan'[p].state
    <3>1. ASSUME NEW p \in Plans, plan'[p].state \in EndedPlans
          PROVE  /\ \A x \in ItemsOf(p) : item'[x].state = item[x].state
                 /\ plan[p].state = plan'[p].state
      BY <3>1 DEF ItemsOf
    <3> QED BY <3>1, PlanStatesApart DEF IInv, EndedIsSettled, ItemsOf
  <2> QED OBVIOUS
<1>4. NoRunLost'
  <2> SUFFICES ASSUME NEW p \in Plans, plan'[p].state \in Running,
                      Pendings(p)' # {} \/ \A x \in ItemsOf(p)' : item'[x].state \notin Open
               PROVE  jobs'[p] > 0 \/ p \in parked'
    BY DEF NoRunLost
  <2>1. Pendings(p)' = Pendings(p) /\ ItemsOf(p)' = ItemsOf(p) /\ \A x \in ItemsOf(p) : item'[x].state = item[x].state
    BY DEF Pendings, ItemsOf
  <2>2. CASE plan[p].state \in Running /\ jobs'[p] = jobs[p]
    BY <2>1, <2>2 DEF IInv, NoRunLost
  <2> QED BY <2>2
<1>5. Acted
  BY DEF Acted, Acts
<1> QED BY <1>1, <1>2, <1>3, <1>4, <1>5 DEF IInv

(* What ending plan p does to the records is only to what its own items saved and wait on. *)
LEMMA UnconfirmedIsOwn ==
  ASSUME IInv, NEW p, NEW r \in Records
  PROVE  r \in Unconfirmed(p) <=> /\ r \in Slots /\ r[1] = p
                                 /\ item[r].state = "needs_review" /\ item[r].record = r
                                 /\ record[r] \in {"requested", "awaiting_confirmation"}
<1>1. ASSUME NEW x \in Slots, Waiting(x, r) PROVE x = r
  <2>1. ItemLinked(x, item[x], plan[x[1]].state, record[x], bound)
    BY DEF IInv, Linked
  <2>2. item[x].state \in Open /\ item[x].record = r
    BY <1>1, PlanStatesApart DEF Waiting
  <2> QED BY <2>1, <2>2, PlansParameters DEF ItemLinked
<1> QED BY <1>1 DEF Unconfirmed, Waiting, ItemsOf

(* A plan that ends ends what its items saved, and rejects what is open of it. *)
LEMMA PlanEnds ==
  ASSUME IInv, NEW p \in Plans, NEW state \in {"cancelled", "expired"}, plan[p].state \notin EndedPlans \cup {"none"},
         EndPlan(p, state), standing' = standing, confirmed' = confirmed, bound' = bound, parked' = parked,
         jobs' \in [Plans -> Nat], \A q \in Plans : q # p => jobs'[q] = jobs[q]
  PROVE  IInv' /\ Stuck /\ Acted
<1>0. TypeOK
  BY DEF IInv
<1>a. ASSUME NEW x \in Slots
      PROVE  /\ item'[x].state = IF x[1] = p /\ item[x].state \in Open THEN "rejected" ELSE item[x].state
             /\ Same(item[x], item'[x]) /\ item' \in [Slots -> ItemRows]
  BY <1>0, TerminatedItem DEF EndPlan
<1>b. ASSUME NEW r \in Records
      PROVE  record'[r] = IF r \in Unconfirmed(p) THEN "ended/cancelled" ELSE record[r]
  BY DEF EndPlan, Cancelled
<1>c. ASSUME NEW q \in Plans
      PROVE  /\ plan'[q].state = IF q = p THEN state ELSE plan[q].state
             /\ plan'[q].second = plan[q].second /\ plan'[q].by = plan[q].by /\ plan'[q].size = plan[q].size
  BY <1>0 DEF EndPlan, TypeOK, PlanRows
<1>1. TypeOK'
  <2>1. item' \in [Slots -> ItemRows]
    BY <1>0, TerminatedItem, <1>a DEF EndPlan, Terminated, Moving
  <2>2. record' \in [Records -> States]
    BY <1>0, StatesApart DEF EndPlan, Cancelled, TypeOK
  <2>3. plan' \in [Plans -> PlanRows]
    BY <1>0, PlanStatesApart DEF EndPlan, TypeOK, PlanRows
  <2> QED BY <1>0, <2>1, <2>2, <2>3 DEF TypeOK
<1>2. Linked'
  <2> SUFFICES ASSUME NEW x \in Slots PROVE ItemLinked(x, item'[x], plan'[x[1]].state, record'[x], bound')
    BY DEF Linked
  <2>1. ItemLinked(x, item[x], plan[x[1]].state, record[x], bound) /\ x[1] \in Plans /\ x \in Records
    BY <1>0, Rows DEF IInv, Linked
  <2>2. x \in Unconfirmed(p) <=> /\ x[1] = p /\ item[x].state = "needs_review" /\ item[x].record = x
                                 /\ record[x] \in {"requested", "awaiting_confirmation"}
    BY <2>1, UnconfirmedIsOwn
  <2>3. plan[x[1]].state # "none" => plan'[x[1]].state # "none"
    BY <1>c, <2>1
  <2>4. CASE x[1] = p /\ item[x].state \in Open
    <3>1. item'[x].state = "rejected" /\ item[x].state # "none"
      BY <1>a, <2>4, PlanStatesApart
    <3>2. record'[x] \in {"none"} \cup EndedStates
      <4>1. item[x].record \in {None, x} /\ (item[x].record = None => record[x] = "none")
        BY <2>1, <2>4 DEF ItemLinked
      <4>2. item[x].state = "pending" => record[x] = "none"
        BY <2>1, <2>4 DEF ItemLinked
      <4>3. item[x].state = "needs_review" => record[x] \in {"none", "requested", "awaiting_confirmation"} \cup EndedStates
        BY <2>1 DEF ItemLinked
      <4> QED BY <1>b, <2>1, <2>2, <2>4, <4>1, <4>2, <4>3, StatesApart, PlanStatesApart
    <3> QED BY <1>a, <2>1, <2>3, <3>1, <3>2, PlanStatesApart DEF ItemLinked, Same
  <2>5. CASE ~(x[1] = p /\ item[x].state \in Open)
    <3>1. item'[x].state = item[x].state /\ record'[x] = record[x]
      BY <1>a, <1>b, <2>1, <2>2, <2>5, PlanStatesApart
    <3> QED BY <1>a, <2>1, <2>3, <3>1 DEF ItemLinked, Same
  <2> QED BY <2>4, <2>5
<1>3. Stuck
  BY <1>a, <1>c DEF Stuck, ItemsOf, IInv, EndedIsSettled
<1>4. EndedIsSettled'
  <2> SUFFICES ASSUME NEW q \in Plans, plan'[q].state \in EndedPlans
               PROVE  /\ \A x \in ItemsOf(q) : item'[x].state \notin Open
                      /\ plan'[q].state = "completed" => \A x \in ItemsOf(q) : item'[x].state # "rejected"
                      /\ plan'[q].state = "partially_completed" => \E x \in ItemsOf(q) : item'[x].state = "rejected"
    BY PlanStatesApart DEF EndedIsSettled, ItemsOf
  <2>1. CASE q = p
    BY <1>a, <1>c, <2>1, PlanStatesApart DEF ItemsOf
  <2>2. CASE q # p
    BY <1>a, <1>c, <2>2 DEF ItemsOf, IInv, EndedIsSettled
  <2> QED BY <2>1, <2>2
<1>5. NoRunLost'
  <2> SUFFICES ASSUME NEW q \in Plans, plan'[q].state \in Running,
                      Pendings(q)' # {} \/ \A x \in ItemsOf(q)' : item'[x].state \notin Open
               PROVE  jobs'[q] > 0 \/ q \in parked'
    BY DEF NoRunLost
  <2>1. q # p /\ plan[q].state \in Running
    BY <1>c, PlanStatesApart
  <2>2. ItemsOf(q)' = ItemsOf(q) /\ \A x \in ItemsOf(q) : item'[x].state = item[x].state
    BY <1>a, <2>1 DEF ItemsOf
  <2>3. Pendings(q)' = Pendings(q)
    BY <2>2 DEF Pendings
  <2> QED BY <2>1, <2>2, <2>3 DEF IInv, NoRunLost
<1>6. Doubled'
  BY <1>c, PlanStatesApart DEF IInv, Doubled, Above
<1>7. Acted
  <2> SUFFICES ASSUME NEW x \in Slots, item[x].state = "pending" PROVE item'[x].state # "applied"
    BY DEF Acted, Acts
  <2> QED BY <1>a
<1> QED BY <1>1, <1>2, <1>3, <1>4, <1>5, <1>6, <1>7 DEF IInv

\* The items its, and the plans settled among S, when the records become recs: an item that waited may be answered, all
\* stay linked, and a plan that goes on with nothing to wait for has its run.
Carry(its, S, recs) ==
  /\ its \in [Slots -> ItemRows]
  /\ \A y \in Slots :
       /\ Same(item[y], its[y])
       /\ its[y].state = item[y].state \/ (item[y].state = "needs_review" /\ its[y].state \in Final)
       /\ ItemLinked(y, its[y], plan[y[1]].state, recs[y], bound)
  /\ \A q \in Plans :
       /\ Settled(its, S)[q].state \in Running
       /\ (\E y \in ItemsOf(q) : its[y].state = "pending") \/ (\A y \in ItemsOf(q) : its[y].state \notin Open)
       => jobs[q] > 0 \/ q \in parked

(* A record that moves as the table allows, its items following it. *)
LEMMA FollowedLinked ==
  ASSUME IInv, NEW r \in Records, NEW to, record[r] # "none", Allowed(record[r], to)
  PROVE  Carry(Followed(r, to), Followers(r, to), [record EXCEPT ![r] = to])
<1>0. TypeOK
  BY DEF IInv
<1> DEFINE its == Followed(r, to)
           S == Followers(r, to)
           recs == [record EXCEPT ![r] = to]
<1>1. ASSUME NEW y \in Slots
      PROVE  /\ its \in [Slots -> ItemRows] /\ its[y].state = IF Waiting(y, r) THEN Answer(to) ELSE item[y].state
             /\ Same(item[y], its[y])
  BY <1>0, FollowedItem
<1>a. its \in [Slots -> ItemRows]
  BY <1>1 DEF Followed, Moving
<1>b. recs \in [Records -> {to} \cup States] /\ \A y \in Records : recs[y] = IF y = r THEN to ELSE record[y]
  BY <1>0 DEF TypeOK
<1> HIDE DEF its, S, recs
<1>2. ASSUME NEW y \in Slots
      PROVE  its[y].state = item[y].state \/ (item[y].state = "needs_review" /\ its[y].state \in Final)
  BY <1>1, Answers, PlanStatesApart DEF Waiting
<1>3. ASSUME NEW y \in Slots PROVE ItemLinked(y, its[y], plan[y[1]].state, recs[y], bound)
  <2>1. ItemLinked(y, item[y], plan[y[1]].state, record[y], bound) /\ y \in Records
    BY <1>0, Rows DEF IInv, Linked
  <2>2. record[r] \notin {"none"} \cup EndedStates
    BY MovesFrom
  <2>3. CASE Waiting(y, r)
    <3>1. item[y].state = "needs_review" /\ item[y].record = r /\ item[y].state \in Open
      BY <2>3, PlanStatesApart DEF Waiting
    <3>2. r = y
      BY <2>1, <3>1, PlansParameters DEF ItemLinked
    <3>3. record[r] \in {"requested", "awaiting_confirmation"}
      BY <2>1, <2>2, <3>1, <3>2 DEF ItemLinked
    <3>4. to \in {"awaiting_confirmation", "scheduled", "active"} \cup EndedStates
      BY <3>3, MovesFrom
    <3>5. its[y].state = Answer(to) /\ recs[y] = to
      BY <1>1, <1>b, <2>1, <2>3, <3>2
    <3>6. Answer(to) = "needs_review" => to = "awaiting_confirmation"
      BY <3>4, Answers
    <3>7. Answer(to) \in {"applied", "rejected", "needs_review"} /\ (Answer(to) = "rejected" => to \in EndedStates)
      BY Answers
    <3>8. /\ item[y].attempt > 0 /\ plan[y[1]].state # "none" /\ item[y].record = y
          /\ \A n \in Nat : <<y, n>> \in bound => n <= item[y].attempt
      BY <2>1, <3>1, <3>2 DEF ItemLinked
    <3>9. PICK i : i = its[y]
      OBVIOUS
    <3>10. i.attempt = item[y].attempt /\ i.record = item[y].record
      BY <1>1, <3>9 DEF Same
    <3>11. ItemLinked(y, i, plan[y[1]].state, recs[y], bound)
      BY <3>5, <3>6, <3>7, <3>8, <3>9, <3>10, PlansParameters, <2>1 DEF ItemLinked
    <3> QED BY <3>9, <3>11
  <2>4. CASE ~Waiting(y, r) /\ y # r
    <3>1. its[y].state = item[y].state /\ recs[y] = record[y]
      BY <1>1, <1>b, <2>1, <2>4
    <3> QED BY <1>1, <2>1, <3>1 DEF ItemLinked, Same
  <2>5. CASE ~Waiting(y, r) /\ y = r
    <3>1. its[y].state = item[y].state
      BY <1>1, <2>5
    <3>2. item[y].state \notin {"none", "pending", "rejected"}
      BY <2>1, <2>2, <2>5, PlanStatesApart DEF ItemLinked
    <3>3. item[y].state # "needs_review"
      <4>1. ASSUME item[y].state = "needs_review" PROVE FALSE
        <5>1. item[y].record \in {None, y} /\ (item[y].record = None => record[y] = "none")
          BY <2>1, <4>1, PlanStatesApart DEF ItemLinked
        <5> QED BY <2>2, <2>5, <4>1, <5>1 DEF Waiting
      <4> QED BY <4>1
    <3> QED BY <1>1, <2>1, <3>1, <3>2, <3>3, PlanStatesApart DEF ItemLinked, Same
  <2> QED BY <2>3, <2>4, <2>5
<1>4. ASSUME NEW q \in Plans, Settled(its, S)[q].state \in Running,
             (\E y \in ItemsOf(q) : its[y].state = "pending") \/ (\A y \in ItemsOf(q) : its[y].state \notin Open)
      PROVE  jobs[q] > 0 \/ q \in parked
  <2>1. plan[q].state \in Running
    BY <1>0, <1>4, SettledPlan, PlanStatesApart
  <2>2. CASE \E y \in ItemsOf(q) : its[y].state = "pending"
    <3>1. PICK y \in ItemsOf(q) : its[y].state = "pending"
      BY <2>2
    <3>2. item[y].state = "pending" /\ y \in Slots
      BY <1>2, <3>1, PlanStatesApart DEF ItemsOf
    <3> QED BY <2>1, <3>1, <3>2 DEF IInv, NoRunLost, Pendings
  <2>3. CASE \A y \in ItemsOf(q) : its[y].state \notin Open
    <3>1. q \notin S
      BY <1>0, <1>4, <2>1, <2>3, SettledPlan, PlanStatesApart
    <3>2. ASSUME NEW y \in ItemsOf(q) PROVE ~Waiting(y, r)
      <4>1. ASSUME Waiting(y, r) PROVE FALSE
        <5>1. its[y].state = Answer(to) /\ y \in Slots
          BY <1>1, <4>1 DEF ItemsOf
        <5>2. Answer(to) # "needs_review"
          BY <2>3, <5>1, PlanStatesApart
        <5> QED BY <3>1, <4>1, <5>2 DEF S, Followers
      <4> QED BY <4>1
    <3>3. \A y \in ItemsOf(q) : item[y].state \notin Open
      BY <1>1, <2>3, <3>2 DEF ItemsOf
    <3> QED BY <2>1, <3>3 DEF IInv, NoRunLost
  <2> QED BY <1>4, <2>2, <2>3
<1>5. Carry(its, S, recs)
  BY <1>a, <1>1, <1>2, <1>3, <1>4 DEF Carry
<1> QED BY <1>5 DEF its, S, recs

(* No record moves: the items stay, whatever revisions they look at. *)
LEMMA QuietLinked ==
  ASSUME IInv, NEW its \in [Slots -> ItemRows],
         \A y \in Slots : its[y].state = item[y].state /\ Same(item[y], its[y])
  PROVE  Carry(its, {}, record)
<1>0. TypeOK
  BY DEF IInv
<1>1. ASSUME NEW y \in Slots PROVE ItemLinked(y, its[y], plan[y[1]].state, record[y], bound)
  <2>1. ItemLinked(y, item[y], plan[y[1]].state, record[y], bound)
    BY DEF IInv, Linked
  <2> QED BY <2>1 DEF ItemLinked, Same
<1>2. ASSUME NEW q \in Plans, Settled(its, {})[q].state \in Running,
             (\E y \in ItemsOf(q) : its[y].state = "pending") \/ (\A y \in ItemsOf(q) : its[y].state \notin Open)
      PROVE  jobs[q] > 0 \/ q \in parked
  <2>1. Settled(its, {})[q] = plan[q]
    BY <1>0, SettledPlan
  <2> QED BY <1>2, <2>1 DEF IInv, NoRunLost, Pendings, ItemsOf
<1> QED BY <1>1, <1>2 DEF Carry

(* Another change moves a record. *)
LEMMA RecordMovesInv ==
  ASSUME IInv, NEW r \in Records, NEW to \in Elsewhere, RecordMoves(r, to)
  PROVE  IInv' /\ Stuck /\ Acted
<1>0. TypeOK
  BY DEF IInv
<1> DEFINE its == Followed(r, to)
           S == Followers(r, to)
<1>1. /\ item' = its /\ plan' = Settled(its, S) /\ record' = [record EXCEPT ![r] = to]
      /\ UNCHANGED <<standing, confirmed, jobs, parked, bound>>
      /\ Carry(its, S, record')
  BY FollowedLinked DEF RecordMoves
<1> HIDE DEF its, S
<1>2. ASSUME NEW q \in Plans
      PROVE  /\ plan' \in [Plans -> PlanRows]
             /\ \/ plan'[q] = plan[q]
                \/ /\ plan[q].state \in Running /\ \A x \in ItemsOf(q) : item'[x].state \notin Open
                   /\ plan'[q].state \in {"completed", "partially_completed"}
                   /\ plan'[q].state = "completed" => \A x \in ItemsOf(q) : item'[x].state # "rejected"
                   /\ plan'[q].state = "partially_completed" => \E x \in ItemsOf(q) : item'[x].state = "rejected"
  BY <1>0, <1>1, SettledPlan
<1>3. TypeOK'
  <2>1. plan' \in [Plans -> PlanRows]
    BY <1>0, <1>1, SettledType
  <2>2. record' \in [Records -> States]
    BY <1>0, <1>1, PlansParameters DEF TypeOK
  <2>3. item' \in [Slots -> ItemRows]
    BY <1>1 DEF Carry
  <2> QED BY <1>0, <1>1, <2>1, <2>2, <2>3 DEF TypeOK
<1>4. Linked'
  <2> SUFFICES ASSUME NEW x \in Slots PROVE ItemLinked(x, item'[x], plan'[x[1]].state, record'[x], bound')
    BY DEF Linked
  <2>1. ItemLinked(x, item'[x], plan[x[1]].state, record'[x], bound)
    BY <1>1 DEF Carry
  <2>2. plan'[x[1]].state # "none" \/ plan'[x[1]].state = plan[x[1]].state
    BY <1>0, <1>2, Rows
  <2> QED BY <1>1, <2>1, <2>2 DEF ItemLinked
<1>5. Stuck
  <2> SUFFICES ASSUME NEW q \in Plans, plan[q].state \in EndedPlans
               PROVE  plan'[q].state = plan[q].state /\ \A x \in ItemsOf(q) : item'[x].state = item[x].state
    BY DEF Stuck
  <2>1. plan'[q] = plan[q]
    BY <1>2, PlanStatesApart
  <2>2. ASSUME NEW x \in ItemsOf(q) PROVE item'[x].state = item[x].state
    <3>1. item[x].state \notin Open /\ x \in Slots
      BY DEF IInv, EndedIsSettled, ItemsOf
    <3> QED BY <1>1, <3>1, PlanStatesApart DEF Carry
  <2> QED BY <2>1, <2>2
<1>6. EndedIsSettled'
  <2> SUFFICES ASSUME NEW q \in Plans, plan'[q].state \in EndedPlans
               PROVE  /\ \A x \in ItemsOf(q) : item'[x].state \notin Open
                      /\ plan'[q].state = "completed" => \A x \in ItemsOf(q) : item'[x].state # "rejected"
                      /\ plan'[q].state = "partially_completed" => \E x \in ItemsOf(q) : item'[x].state = "rejected"
    BY PlanStatesApart DEF EndedIsSettled, ItemsOf
  <2>1. CASE plan'[q] = plan[q]
    BY <1>5, <2>1 DEF Stuck, IInv, EndedIsSettled
  <2>2. CASE plan'[q] # plan[q]
    BY <1>2, <2>2
  <2> QED BY <2>1, <2>2
<1>7. NoRunLost'
  <2> SUFFICES ASSUME NEW q \in Plans, plan'[q].state \in Running,
                      Pendings(q)' # {} \/ \A x \in ItemsOf(q)' : item'[x].state \notin Open
               PROVE  jobs'[q] > 0 \/ q \in parked'
    BY DEF NoRunLost
  <2>1. Settled(its, S)[q].state \in Running /\ jobs'[q] = jobs[q] /\ parked' = parked
    BY <1>1
  <2>2. (\E x \in ItemsOf(q) : its[x].state = "pending") \/ (\A x \in ItemsOf(q) : its[x].state \notin Open)
    BY <1>1 DEF Pendings, ItemsOf
  <2> QED BY <1>1, <2>1, <2>2 DEF Carry
<1>8. Doubled'
  <2> SUFFICES ASSUME NEW q \in Plans, plan'[q].state \in Running, Above(q)'
               PROVE  plan'[q].second # None /\ plan'[q].second # plan'[q].by
    BY DEF Doubled
  <2>1. plan'[q] = plan[q]
    BY <1>2, PlanStatesApart
  <2> QED BY <2>1 DEF IInv, Doubled, Above
<1>9. Acted
  <2> SUFFICES ASSUME NEW x \in Slots, item[x].state = "pending" PROVE item'[x].state # "applied"
    BY DEF Acted, Acts
  <2> QED BY <1>1, PlanStatesApart DEF Carry
<1> QED BY <1>3, <1>4, <1>5, <1>6, <1>7, <1>8, <1>9 DEF IInv

(* A set of numbers that is not empty has a least one. *)
LEMMA Least ==
  ASSUME NEW N \in SUBSET Nat, N # {}
  PROVE  \E m \in N : \A n \in N : m <= n
<1> DEFINE R == {s \in Nat \X Nat : s[1] < s[2]}
<1>1. OpToRel(<, Nat) = R
  BY DEF OpToRel
<1>2. IsWellFoundedOn(R, Nat)
  BY <1>1, NatLessThanWellFounded
<1> HIDE DEF R
<1>3. \E m \in N : \A n \in N : ~(<<n, m>> \in R)
  BY <1>2, WFMin
<1>4. PICK m \in N : \A n \in N : ~(<<n, m>> \in R)
  BY <1>3
<1>5. ASSUME NEW n \in N PROVE m <= n
  <2>1. <<n, m>> \in Nat \X Nat /\ <<n, m>>[1] = n /\ <<n, m>>[2] = m
    OBVIOUS
  <2>2. n < m => <<n, m>> \in R
    BY <2>1, Zenon DEF R
  <2>3. ~(n < m)
    BY <1>4, <2>2, Zenon
  <2> QED BY <2>3
<1> QED BY <1>5

(* The next item is one that has not run. *)
LEMMA NextIsPending ==
  ASSUME TypeOK, NEW p \in Plans, Pendings(p) # {}
  PROVE  /\ Next1(p) \in Slots /\ Next1(p)[1] = p /\ Next1(p) \in Records
         /\ item[Next1(p)].state = "pending" /\ item[Next1(p)] \in ItemRows
<1> DEFINE N == {x[2] : x \in Pendings(p)}
<1>1. \A x \in Pendings(p) : x \in Slots /\ x[1] = p /\ item[x].state = "pending" /\ x[2] \in Nat
  BY PlansParameters DEF Pendings, ItemsOf, Slots, Positions
<1>2. N \in SUBSET Nat /\ N # {}
  BY <1>1
<1>3. \E m \in N : \A n \in N : m <= n
  <2> HIDE DEF N
  <2> QED BY <1>2, Least
<1>4. \E x \in Pendings(p) : \A y \in Pendings(p) : x[2] <= y[2]
  BY <1>3
<1>5. Next1(p) \in Pendings(p)
  BY <1>4 DEF Next1
<1> QED BY <1>1, <1>5, Rows

(* Item x of the running plan p moves, the others as Carry has them. *)
LEMMA OneItem ==
  ASSUME IInv, TypeOK', NEW p \in Plans, NEW x \in Slots, x[1] = p,
         plan[p].state \in Running, plan'[p].state \in Running,
         plan'[p].second = plan[p].second, plan'[p].by = plan[p].by, plan'[p].size = plan[p].size,
         NEW its, NEW S, NEW recs, Carry(its, S, recs),
         \A y \in Slots : y # x => item'[y] = its[y] /\ record'[y] = recs[y],
         \A q \in Plans : q # p => plan'[q] = Settled(its, S)[q] /\ jobs'[q] = jobs[q],
         jobs'[p] > 0, parked' = parked,
         ItemLinked(x, item'[x], plan'[p].state, record'[x], bound'),
         \A y \in Slots, n \in Nat : y # x /\ <<y, n>> \in bound' => <<y, n>> \in bound,
         Acts(x)
  PROVE  IInv' /\ Stuck /\ Acted
<1>0. TypeOK
  BY DEF IInv
<1>1. ASSUME NEW q \in Plans, q # p
      PROVE  \/ plan'[q] = plan[q]
             \/ /\ plan[q].state \in Running /\ \A y \in ItemsOf(q) : its[y].state \notin Open
                /\ plan'[q].state \in {"completed", "partially_completed"}
                /\ plan'[q].state = "completed" => \A y \in ItemsOf(q) : its[y].state # "rejected"
                /\ plan'[q].state = "partially_completed" => \E y \in ItemsOf(q) : its[y].state = "rejected"
  <2>1. plan'[q] = Settled(its, S)[q]
    BY <1>1
  <2> QED BY <1>0, <2>1, SettledPlan
<1>2. ASSUME NEW q \in Plans, q # p, NEW y \in ItemsOf(q)
      PROVE  /\ y \in Slots /\ y # x /\ item'[y] = its[y]
             /\ its[y].state = item[y].state \/ (item[y].state = "needs_review" /\ its[y].state \in Final)
  BY <1>2 DEF ItemsOf, Carry
<1>3. Linked'
  <2> SUFFICES ASSUME NEW y \in Slots PROVE ItemLinked(y, item'[y], plan'[y[1]].state, record'[y], bound')
    BY DEF Linked
  <2>1. CASE y = x
    BY <2>1
  <2>2. CASE y # x
    <3>1. ItemLinked(y, its[y], plan[y[1]].state, recs[y], bound) /\ item'[y] = its[y] /\ record'[y] = recs[y]
      BY <2>2 DEF Carry
    <3>2. plan[y[1]].state # "none" => plan'[y[1]].state # "none"
      BY <1>0, <1>1, Rows, PlanStatesApart
    <3>3. \A n \in Nat : <<y, n>> \in bound' => <<y, n>> \in bound
      BY <2>2
    <3>4. its[y].state = "pending" => its[y].attempt \in Nat
      <4>1. its \in [Slots -> ItemRows]
        BY DEF Carry
      <4> QED BY <4>1, PlansParameters DEF ItemRows
    <3> QED BY <3>1, <3>2, <3>3, <3>4 DEF ItemLinked
  <2> QED BY <2>1, <2>2
<1>4. Stuck
  <2> SUFFICES ASSUME NEW q \in Plans, plan[q].state \in EndedPlans
               PROVE  plan'[q].state = plan[q].state /\ \A y \in ItemsOf(q) : item'[y].state = item[y].state
    BY DEF Stuck
  <2>1. q # p
    BY PlanStatesApart
  <2>2. plan'[q] = plan[q]
    BY <1>1, <2>1, PlanStatesApart
  <2>3. \A y \in ItemsOf(q) : item[y].state \notin Open
    BY DEF IInv, EndedIsSettled
  <2> QED BY <1>2, <2>1, <2>2, <2>3, PlanStatesApart
<1>5. EndedIsSettled'
  <2> SUFFICES ASSUME NEW q \in Plans, plan'[q].state \in EndedPlans
               PROVE  /\ \A y \in ItemsOf(q) : item'[y].state \notin Open
                      /\ plan'[q].state = "completed" => \A y \in ItemsOf(q) : item'[y].state # "rejected"
                      /\ plan'[q].state = "partially_completed" => \E y \in ItemsOf(q) : item'[y].state = "rejected"
    BY PlanStatesApart DEF EndedIsSettled, ItemsOf
  <2>1. q # p
    BY PlanStatesApart
  <2>2. CASE plan'[q] = plan[q]
    BY <1>4, <2>2 DEF Stuck, IInv, EndedIsSettled
  <2>3. CASE plan'[q] # plan[q]
    BY <1>1, <1>2, <2>1, <2>3
  <2> QED BY <2>2, <2>3
<1>6. NoRunLost'
  <2> SUFFICES ASSUME NEW q \in Plans, q # p, plan'[q].state \in Running,
                      Pendings(q)' # {} \/ \A y \in ItemsOf(q)' : item'[y].state \notin Open
               PROVE  jobs'[q] > 0 \/ q \in parked'
    BY DEF NoRunLost
  <2>1. Settled(its, S)[q].state \in Running /\ jobs'[q] = jobs[q]
    BY DEF NoRunLost
  <2>2. (\E y \in ItemsOf(q) : its[y].state = "pending") \/ (\A y \in ItemsOf(q) : its[y].state \notin Open)
    BY <1>2 DEF Pendings, ItemsOf
  <2> QED BY <2>1, <2>2 DEF Carry
<1>7. Doubled'
  <2> SUFFICES ASSUME NEW q \in Plans, plan'[q].state \in Running, Above(q)'
               PROVE  plan'[q].second # None /\ plan'[q].second # plan'[q].by
    BY DEF Doubled
  <2>1. plan[q].state \in Running /\ plan'[q].second = plan[q].second /\ plan'[q].by = plan[q].by /\ plan'[q].size = plan[q].size
    BY <1>1, PlanStatesApart
  <2> QED BY <2>1 DEF IInv, Doubled, Above
<1>8. Acted
  <2> SUFFICES ASSUME NEW y \in Slots, y # x PROVE Acts(y)
    BY DEF Acted
  <2>1. item[y].state = "pending" => item'[y].state # "applied"
    BY DEF Carry
  <2> QED BY <2>1 DEF Acts
<1> QED BY <1>3, <1>4, <1>5, <1>6, <1>7, <1>8 DEF IInv

(* What an item's run makes of it, by the table's answer. *)
LEMMA ItemAnswers ==
  ASSUME NEW f
  PROVE  /\ ItemState(f) \in {"applied", "needs_review", "rejected"}
         /\ ItemState(f) = "applied" => Outcome(f) \in {"applied", "scheduled"}
         /\ Outcome(f) = "applied" => ItemState(f) = "applied"
         /\ Inserted(Outcome(f)) \in {"active", "scheduled", "awaiting_confirmation", "ended/rejected"}
         /\ ItemState(f) = "needs_review" => Inserted(Outcome(f)) \in {"awaiting_confirmation", "ended/rejected"}
         /\ ItemState(f) = "rejected" => Inserted(Outcome(f)) = "ended/rejected"
<1>1. Row(f) = 17 => Outcome(f) = "rejected"
  BY DEF Outcome, RowOutcome
<1>2. PICK o : o = Outcome(f)
  OBVIOUS
<1>3. ItemState(f) = CASE o \in {"applied", "scheduled"} -> "applied"
                       [] o \in {"awaiting_saved", "awaiting_unsaved"} \/ Row(f) = 17 -> "needs_review"
                       [] OTHER -> "rejected"
  BY <1>2 DEF ItemState
<1>4. Row(f) = 17 => o = "rejected"
  BY <1>1, <1>2
<1> QED BY <1>2, <1>3, <1>4 DEF Inserted

(* What a job's request is applied on has not moved. *)
LEMMA AppliedUnmoved ==
  ASSUME NEW f, f.trigger = "job", Outcome(f) \in {"applied", "scheduled"}
  PROVE  ~f.revisionsChanged
<1>1. Row(f) \in 1..31 /\ RowConditions(f)[Row(f)] /\ \A k \in 1..31 : k < Row(f) => ~RowConditions(f)[k]
  BY RowIsFirst
<1>2. Row(f) \in {5, 7, 29, 31}
  BY <1>1 DEF Outcome, RowOutcome
<1>3. ~RowConditions(f)[5] /\ ~RowConditions(f)[7]
  BY DEF RowConditions
<1>4. Row(f) \in {29, 31}
  BY <1>1, <1>2, <1>3
<1>5. ~RowConditions(f)[17]
  <2> HIDE DEF Row
  <2> QED BY <1>1, <1>4
<1> QED BY <1>5 DEF RowConditions

(* The two facts of an item that the proof looks at. *)
LEMMA ItemFactsFields ==
  ASSUME NEW p, NEW x, NEW contained, NEW lastApplied, NEW after
  PROVE  /\ ItemFacts(p, x, contained, lastApplied, after).trigger = "job"
         /\ ItemFacts(p, x, contained, lastApplied, after).revisionsChanged = Stale(x)
BY DEF ItemFacts, FreshFacts

(* What an applied item ends, it ends as the table of moves allows. *)
LEMMA EndsAllowed ==
  ASSUME TypeOK, NEW x \in Slots, ~Stale(x), NEW req, req = item[x].request, req.target # None, EndsIn(req) # record[req.target]
  PROVE  /\ req.target \in Records /\ record[req.target] # "none"
         /\ Allowed(record[req.target], EndsIn(req)) /\ EndsIn(req) \in EndedStates
<1>1. req \in Requests \cup {NoRequest}
  BY Rows DEF ItemRows
<1>2. req \in Requests
  BY <1>1 DEF NoRequest
<1>3. req.target \in Records /\ req.ask \in Widenings \cup Tightenings
  BY <1>2 DEF Requests, Widenings
<1>4. PICK from : from = record[req.target]
  OBVIOUS
<1>5. CASE req.ask = "renew"
  <2>1. from = "active" /\ EndsIn(req) = "ended/superseded"
    BY <1>4, <1>5 DEF EndsIn
  <2> QED BY <1>3, <1>4, <2>1 DEF Allowed, Moves, Endings, EndedStates
<1>6. CASE req.ask \in {"revoke", "dismiss"}
  <2>1. EndsIn(req) = "ended/revoked"
    BY <1>6 DEF EndsIn
  <2>2. from \in Effective
    BY <1>4, <1>6 DEF Stale
  <2> QED BY <1>3, <1>4, <2>1, <2>2 DEF Allowed, Moves, Endings, EndedStates, Effective, HeldStates
<1>7. CASE req.ask = "cancel"
  <2>1. EndsIn(req) = "ended/cancelled"
    BY <1>7 DEF EndsIn
  <2>2. from \in Pending
    BY <1>4, <1>7 DEF Stale
  <2>3. PendingEndings \subseteq Moves(from) /\ from # "none"
    BY <2>2 DEF Moves, Pending, HeldStates
  <2>4. "ended/cancelled" \in PendingEndings
    BY DEF PendingEndings
  <2> QED BY <1>3, <1>4, <2>1, <2>3, <2>4 DEF Allowed, EndedStates
<1> QED BY <1>3, <1>5, <1>6, <1>7 DEF EndsIn

(* The next item through the effect point. *)
LEMMA RunItemInv ==
  ASSUME IInv, NEW p \in Plans, NEW contained, NEW lastApplied, NEW after, RunItem(p, contained, lastApplied, after)
  PROVE  IInv' /\ Stuck /\ Acted
<1>0. TypeOK
  BY DEF IInv
<1>x. PICK x : x = Next1(p)
  OBVIOUS
<1> DEFINE f == ItemFacts(p, x, contained, lastApplied, after)
           o == Outcome(f)
           req == item[x].request
           widens == req.ask \in Widenings
           hit == o = "applied" /\ req.target # None
           ends == hit /\ EndsIn(req) # record[req.target]
           its == IF ends THEN Followed(req.target, EndsIn(req))
                  ELSE IF hit /\ req.ask = "narrow" THEN Moving(item, {req.target}) ELSE item
           S == IF ends THEN Followers(req.target, EndsIn(req)) ELSE {}
           recs == IF ends THEN [record EXCEPT ![req.target] = EndsIn(req)] ELSE record
           made == IF widens THEN x ELSE IF o = "applied" THEN req.target ELSE its[x].record
           inserted == IF widens THEN Inserted(o) ELSE recs[x]
<1>1. /\ Due(p) /\ Pendings(p) # {} /\ Seconded(p)
      /\ record' = [r \in Records |-> IF r = x /\ widens THEN Inserted(o)
                                      ELSE IF ends /\ r = req.target THEN EndsIn(req) ELSE record[r]]
      /\ item' = [its EXCEPT ![x].state = ItemState(f), ![x].record = made]
      /\ plan' = [Settled(its, S) EXCEPT ![p].state = "executing"]
      /\ bound' = IF o \in {"applied", "rejected"} THEN bound \cup {<<x, item[x].attempt>>} ELSE bound
      /\ UNCHANGED <<standing, confirmed, jobs, parked>>
  BY <1>x DEF RunItem
<1>2. /\ x \in Slots /\ x[1] = p /\ x \in Records /\ item[x].state = "pending" /\ item[x] \in ItemRows
      /\ ItemLinked(x, item[x], plan[p].state, record[x], bound)
  <2>1. x \in Slots /\ x[1] = p /\ x \in Records /\ item[x].state = "pending" /\ item[x] \in ItemRows
    BY <1>0, <1>1, <1>x, NextIsPending
  <2>2. ItemLinked(x, item[x], plan[x[1]].state, record[x], bound)
    BY <2>1 DEF IInv, Linked
  <2> QED BY <2>1, <2>2
<1>3. record[x] = "none" /\ item[x].record = None /\ item[x].attempt > 0
  BY <1>2, PlanStatesApart DEF ItemLinked
<1>4. o \in {"applied", "scheduled"} => ~Stale(x)
  BY ItemFactsFields, AppliedUnmoved
<1>5. req \in Requests \cup {NoRequest} /\ req.target \in Records \cup {None}
  BY <1>2 DEF ItemRows, Requests, NoRequest
<1>6. ends => /\ req.target \in Records /\ record[req.target] # "none"
              /\ Allowed(record[req.target], EndsIn(req)) /\ EndsIn(req) \in EndedStates /\ req.target # x
  BY <1>0, <1>2, <1>3, <1>4, EndsAllowed
<1>7. Carry(its, S, recs)
  <2>1. CASE ends
    BY <1>6, <2>1, FollowedLinked
  <2>2. CASE ~ends
    <3>1. item \in [Slots -> ItemRows]
      BY <1>0 DEF TypeOK
    <3>2. PICK R : R = {req.target}
      OBVIOUS
    <3>3. its \in [Slots -> ItemRows] /\ \A y \in Slots : its[y].state = item[y].state /\ Same(item[y], its[y])
      <4>1. CASE its = item
        BY <3>1, <4>1 DEF Same
      <4>2. CASE its = Moving(item, R)
        <5>1. Moving(item, R) \in [Slots -> ItemRows]
          BY <1>2, <3>1, MovingItem
        <5>2. ASSUME NEW y \in Slots PROVE Moving(item, R)[y].state = item[y].state /\ Same(item[y], Moving(item, R)[y])
          BY <3>1, MovingItem
        <5> HIDE DEF its
        <5> QED BY <4>2, <5>1, <5>2
      <4> QED BY <2>2, <3>2, <4>1, <4>2
    <3>4. S = {} /\ recs = record
      BY <2>2
    <3> HIDE DEF its, S, recs
    <3> QED BY <3>3, <3>4, QuietLinked
  <2> QED BY <2>1, <2>2
<1>8. /\ \A y \in Slots : y # x => record'[y] = recs[y]
      /\ record'[x] = inserted /\ (~widens => recs[x] = "none")
      /\ recs \in [Records -> States]
  <2>1. recs \in [Records -> States] /\ recs[x] = "none"
    BY <1>0, <1>2, <1>3, <1>6, StatesApart DEF TypeOK
  <2>2. ASSUME NEW y \in Slots, y # x PROVE record'[y] = recs[y]
    <3>1. y \in Records
      BY DEF Records
    <3> QED BY <1>0, <1>1, <1>6, <2>2, <3>1 DEF TypeOK
  <2>3. record'[x] = inserted
    BY <1>0, <1>1, <1>2, <1>3, <1>6, <2>1
  <2> QED BY <2>1, <2>2, <2>3
<1>9. PICK I : I = its
  OBVIOUS
<1>10. PICK W : W = S
  OBVIOUS
<1>11. PICK Q : Q = recs
  OBVIOUS
<1>12. Carry(I, W, Q) /\ (\A y \in Slots : y # x => record'[y] = Q[y])
  BY <1>7, <1>8, <1>9, <1>10, <1>11
<1>13. I \in [Slots -> ItemRows] /\ Same(item[x], I[x]) /\ I[x].state = "pending"
  BY <1>2, <1>12, PlanStatesApart DEF Carry
<1>14. made \in Records \cup {None} /\ made = IF widens THEN x ELSE IF o = "applied" THEN req.target ELSE None
  BY <1>2, <1>3, <1>5, <1>9, <1>13 DEF Same
<1>15. item' = [I EXCEPT ![x].state = ItemState(f), ![x].record = made] /\ plan' = [Settled(I, W) EXCEPT ![p].state = "executing"]
  BY <1>1, <1>9, <1>10
<1>16. /\ ItemState(f) \in {"applied", "needs_review", "rejected"}
       /\ ItemState(f) = "applied" => ~Stale(x)
       /\ o = "applied" => ItemState(f) = "applied"
       /\ Inserted(o) \in {"active", "scheduled", "awaiting_confirmation", "ended/rejected"}
       /\ ItemState(f) = "needs_review" => Inserted(o) \in {"awaiting_confirmation", "ended/rejected"}
       /\ ItemState(f) = "rejected" => Inserted(o) = "ended/rejected"
  BY <1>4, ItemAnswers
<1>17. UNCHANGED <<standing, confirmed, jobs, parked>> /\ (\A b \in bound' : b \in bound \/ b = <<x, item[x].attempt>>)
  BY <1>1
<1>18. inserted = IF widens THEN Inserted(o) ELSE "none"
  BY <1>8
<1>19. inserted \in States
  BY <1>16, <1>18, StatesApart DEF States
<1>20. record'[x] = inserted
  BY <1>8
<1> HIDE DEF its, S, recs, f
<1>21. PICK st : st = ItemState(f)
  OBVIOUS
<1>22. PICK rec : rec = made
  OBVIOUS
<1>23. PICK ins : ins = inserted
  OBVIOUS
<1>24. PICK w \in BOOLEAN : w <=> widens
  OBVIOUS
<1>25. /\ item' = [I EXCEPT ![x].state = st, ![x].record = rec] /\ plan' = [Settled(I, W) EXCEPT ![p].state = "executing"]
       /\ st \in {"applied", "needs_review", "rejected"} /\ (st = "applied" => ~Stale(x))
       /\ rec \in Records \cup {None} /\ (st = "needs_review" => rec = IF w THEN x ELSE None)
       /\ ins \in States /\ record'[x] = ins /\ (~w => ins = "none")
       /\ st = "needs_review" => ins \in {"none", "awaiting_confirmation", "ended/rejected"}
       /\ st = "rejected" => ins \in {"none", "ended/rejected"}
  <2>1. item' = [I EXCEPT ![x].state = st, ![x].record = rec] /\ plan' = [Settled(I, W) EXCEPT ![p].state = "executing"]
    BY <1>15, <1>21, <1>22
  <2>2. st \in {"applied", "needs_review", "rejected"} /\ (st = "applied" => ~Stale(x))
    BY <1>16, <1>21
  <2>3. rec \in Records \cup {None} /\ (st = "needs_review" => rec = IF w THEN x ELSE None)
    BY <1>14, <1>16, <1>21, <1>22, <1>24
  <2>4. ins \in States /\ record'[x] = ins /\ (~w => ins = "none")
    BY <1>18, <1>19, <1>20, <1>23, <1>24
  <2>5. /\ st = "needs_review" => ins \in {"none", "awaiting_confirmation", "ended/rejected"}
        /\ st = "rejected" => ins \in {"none", "ended/rejected"}
    BY <1>16, <1>18, <1>21, <1>23, <1>24
  <2> QED BY <2>1, <2>2, <2>3, <2>4, <2>5
<1> HIDE DEF made, inserted, widens, hit, ends, o, req
<1>26. /\ item' \in [Slots -> ItemRows] /\ \A y \in Slots : y # x => item'[y] = I[y]
       /\ item'[x].state = st /\ item'[x].record = rec /\ item'[x].attempt = item[x].attempt
  <2>1. I[x] \in ItemRows
    BY <1>2, <1>13
  <2>2. [I[x] EXCEPT !.state = st, !.record = rec] \in ItemRows
    BY <1>25, <2>1, PlanStatesApart DEF ItemRows
  <2>3. item' = [I EXCEPT ![x] = [I[x] EXCEPT !.state = st, !.record = rec]]
    BY <1>2, <1>13, <1>25
  <2>4. /\ [I[x] EXCEPT !.state = st, !.record = rec].state = st /\ [I[x] EXCEPT !.state = st, !.record = rec].record = rec
        /\ [I[x] EXCEPT !.state = st, !.record = rec].attempt = I[x].attempt
    BY <2>1 DEF ItemRows
  <2>5. PICK j : j = [I[x] EXCEPT !.state = st, !.record = rec]
    OBVIOUS
  <2>6. item' = [I EXCEPT ![x] = j] /\ j \in ItemRows /\ j.state = st /\ j.record = rec /\ j.attempt = I[x].attempt
    BY <2>2, <2>3, <2>4, <2>5
  <2>7. item'[x] = j /\ item' \in [Slots -> ItemRows] /\ \A y \in Slots : y # x => item'[y] = I[y]
    BY <1>2, <1>13, <2>6
  <2> QED BY <1>13, <2>6, <2>7 DEF Same
<1>27. /\ plan' \in [Plans -> PlanRows] /\ \A q \in Plans : q # p => plan'[q] = Settled(I, W)[q]
       /\ plan'[p] = [plan[p] EXCEPT !.state = "executing"]
  <2>1. Settled(I, W)[p] = plan[p]
    <3>1. \E y \in ItemsOf(p) : I[y].state \in Open
      BY <1>2, <1>13, PlanStatesApart DEF ItemsOf
    <3> QED BY <1>0, <3>1, SettledPlan
  <2>2. PICK s : s = Settled(I, W)
    OBVIOUS
  <2>3. s \in [Plans -> PlanRows] /\ s[p] = plan[p] /\ plan' = [s EXCEPT ![p].state = "executing"]
    BY <1>0, <1>25, <2>1, <2>2, SettledType
  <2>4. [plan[p] EXCEPT !.state = "executing"] \in PlanRows
    BY <1>0, PlanStatesApart DEF TypeOK, PlanRows
  <2>5. plan' = [s EXCEPT ![p] = [plan[p] EXCEPT !.state = "executing"]]
    BY <2>3
  <2> QED BY <2>2, <2>3, <2>4, <2>5
<1>28. /\ plan'[p].state = "executing" /\ plan'[p].second = plan[p].second /\ plan'[p].by = plan[p].by
       /\ plan'[p].size = plan[p].size
  BY <1>0, <1>27 DEF TypeOK, PlanRows
<1>29. TypeOK'
  <2>1. record' \in [Records -> States]
    <3>1. ASSUME NEW r \in Records PROVE record'[r] \in States
      <4>1. CASE r = x
        BY <1>25, <4>1
      <4>2. CASE r # x
        <5>1. record'[r] \in States
          BY <1>0, <1>1, <1>6, <1>25, <4>2, StatesApart DEF TypeOK, ends
        <5> QED BY <5>1
      <4> QED BY <4>1, <4>2
    <3>2. record' = [r \in Records |-> record'[r]]
      BY <1>1
    <3> QED BY <3>1, <3>2, Zenon
  <2>2. bound' \subseteq Slots \X (1..MaxAttempts)
    <3>1. item[x].attempt \in 1..MaxAttempts
      BY <1>2, <1>3, PlansParameters DEF ItemRows
    <3> QED BY <1>0, <1>2, <1>17, <3>1 DEF TypeOK
  <2> QED BY <1>0, <1>17, <1>26, <1>27, <2>1, <2>2 DEF TypeOK
<1>30. ItemLinked(x, item'[x], plan'[p].state, record'[x], bound')
  <2>1. x # None
    BY <1>2, PlansParameters
  <2>2. \A n \in Nat : <<x, n>> \in bound' => n <= item[x].attempt
    <3>1. item[x].attempt \in Nat /\ \A n \in Nat : <<x, n>> \in bound => n <= item[x].attempt
      BY <1>2, PlansParameters DEF ItemLinked, ItemRows
    <3> QED BY <1>17, <3>1
  <2>3. item'[x].state # "none" /\ item'[x].state # "pending"
    BY <1>25, <1>26
  <2>4. item'[x].state = "needs_review" =>
          /\ item'[x].record \in {None, x} /\ (item'[x].record = None => record'[x] = "none")
          /\ record'[x] \in {"none", "requested", "awaiting_confirmation"} \cup EndedStates
    BY <1>25, <1>26, <2>1, StatesApart
  <2>5. item'[x].state = "rejected" => record'[x] \in {"none"} \cup EndedStates
    BY <1>25, <1>26, StatesApart
  <2>6. item'[x].state \in Open => item'[x].state = "needs_review"
    BY <1>25, <1>26, PlanStatesApart
  <2> QED BY <1>3, <1>26, <1>28, <2>2, <2>3, <2>4, <2>5, <2>6 DEF ItemLinked
<1>31. plan[p].state \in Running /\ jobs'[p] > 0
  BY <1>1, <1>17 DEF Due
<1>32. Acts(x)
  <2> SUFFICES ASSUME item'[x].state = "applied"
               PROVE  /\ item[x].request.ask \in Tightenings => ~item[x].moved
                      /\ Above(p) => /\ plan[p].second # None /\ plan[p].second # plan[p].by
                                     /\ plan[p].second # Owner => standing[plan[p].second] = "proven"
    BY <1>2 DEF Acts
  <2>1. ~Stale(x)
    BY <1>25, <1>26
  <2>2. item[x].request.ask \in Tightenings => ~item[x].moved
    <3>1. CASE item[x].request.ask = "cancel"
      BY <2>1, <3>1 DEF Stale
    <3>2. CASE item[x].request.ask \in {"revoke", "narrow", "dismiss"}
      BY <2>1, <3>2 DEF Stale
    <3> QED BY <3>1, <3>2 DEF Tightenings
  <2>3. Above(p) => plan[p].second # None /\ plan[p].second # plan[p].by
    BY <1>31 DEF IInv, Doubled
  <2>4. plan[p].second \in Persons => standing[plan[p].second] = "proven"
    BY <1>1 DEF Seconded
  <2>5. plan[p].second \in Persons \cup {Owner, None}
    BY <1>0 DEF TypeOK, PlanRows
  <2> QED BY <2>2, <2>3, <2>4, <2>5
<1>33. plan'[p].state \in Running
  BY <1>28, PlanStatesApart
<1>34. \A y \in Slots, n \in Nat : y # x /\ <<y, n>> \in bound' => <<y, n>> \in bound
  BY <1>17
<1>35. \A y \in Slots : y # x => item'[y] = I[y] /\ record'[y] = Q[y]
  BY <1>12, <1>26
<1>36. jobs' = jobs /\ parked' = parked
  BY <1>17
<1>37. \A q \in Plans : q # p => plan'[q] = Settled(I, W)[q] /\ jobs'[q] = jobs[q]
  BY <1>27, <1>36
<1>38. /\ x \in Slots /\ x[1] = p /\ Carry(I, W, Q)
  BY <1>2, <1>12
<1> QED BY <1>28, <1>29, <1>30, <1>31, <1>32, <1>33, <1>34, <1>35, <1>36, <1>37, <1>38, OneItem

(* One item of a running plan moves, and no record. *)
LEMMA OneItemOnly ==
  ASSUME IInv, TypeOK', NEW p \in Plans, NEW x \in Slots, x[1] = p,
         plan[p].state \in Running, plan'[p].state \in Running,
         plan'[p].second = plan[p].second, plan'[p].by = plan[p].by, plan'[p].size = plan[p].size,
         \A y \in Slots : y # x => item'[y] = item[y], record' = record,
         \A q \in Plans : q # p => plan'[q] = plan[q] /\ jobs'[q] = jobs[q],
         jobs'[p] > 0, parked' = parked,
         ItemLinked(x, item'[x], plan'[p].state, record[x], bound'),
         \A y \in Slots, n \in Nat : y # x /\ <<y, n>> \in bound' => <<y, n>> \in bound,
         item'[x].state # "applied"
  PROVE  IInv' /\ Stuck /\ Acted
<1>0. TypeOK
  BY DEF IInv
<1>1. PICK I, W, Q : I = item /\ W = {} /\ Q = record
  OBVIOUS
<1>2. Carry(I, W, Q)
  <2>1. item \in [Slots -> ItemRows] /\ \A y \in Slots : Same(item[y], item[y])
    BY <1>0 DEF TypeOK, Same
  <2>2. Carry(item, {}, record)
    BY <2>1, QuietLinked
  <2> QED BY <1>1, <2>2
<1>3. ASSUME NEW q \in Plans, q # p PROVE plan'[q] = Settled(I, W)[q] /\ jobs'[q] = jobs[q]
  <2>1. Settled(I, {})[q] = plan[q]
    BY <1>0, SettledPlan
  <2> QED BY <1>1, <1>3, <2>1
<1>4. Acts(x)
  BY DEF Acts
<1>5. \A y \in Slots : y # x => item'[y] = I[y] /\ record'[y] = Q[y]
  BY <1>1
<1>6. record'[x] = record[x]
  OBVIOUS
<1> QED BY <1>2, <1>3, <1>4, <1>5, <1>6, OneItem

(* An item the effect point refuses, or that is left for review. *)
LEMMA RunOtherInv ==
  ASSUME IInv, NEW p \in Plans, RunInvalid(p) \/ RunUnseconded(p)
  PROVE  IInv' /\ Stuck /\ Acted
<1>0. TypeOK
  BY DEF IInv
<1>x. PICK x : x = Next1(p)
  OBVIOUS
<1>1. PICK st : /\ st = IF RunInvalid(p) THEN "rejected" ELSE "needs_review"
  OBVIOUS
<1>2. /\ Due(p) /\ Pendings(p) # {}
      /\ item' = [item EXCEPT ![x].state = st] /\ plan' = [plan EXCEPT ![p].state = "executing"]
      /\ bound' = bound \/ bound' = bound \cup {<<x, item[x].attempt>>}
      /\ st = "needs_review" => bound' = bound
      /\ UNCHANGED <<record, standing, confirmed, jobs, parked>>
  <2>1. CASE RunInvalid(p)
    BY <1>x, <1>1, <2>1 DEF RunInvalid
  <2>2. CASE ~RunInvalid(p)
    BY <1>x, <1>1, <2>2 DEF RunUnseconded
  <2> QED BY <2>1, <2>2
<1>3. /\ x \in Slots /\ x[1] = p /\ x \in Records /\ item[x].state = "pending" /\ item[x] \in ItemRows
  BY <1>0, <1>2, <1>x, NextIsPending
<1>4. ItemLinked(x, item[x], plan[p].state, record[x], bound)
  BY <1>3 DEF IInv, Linked
<1>5. record[x] = "none" /\ item[x].record = None /\ item[x].attempt > 0 /\ item[x].attempt \in 1..MaxAttempts
  BY <1>3, <1>4, PlanStatesApart, PlansParameters DEF ItemLinked, ItemRows
<1>6. st \in {"rejected", "needs_review"}
  BY <1>1
<1>7. /\ item'[x] = [item[x] EXCEPT !.state = st] /\ item'[x].state = st /\ item'[x].record = None
      /\ item'[x].attempt = item[x].attempt /\ item' \in [Slots -> ItemRows]
      /\ \A y \in Slots : y # x => item'[y] = item[y]
  BY <1>0, <1>2, <1>3, <1>5, <1>6, PlanStatesApart DEF TypeOK, ItemRows
<1>8. /\ plan' \in [Plans -> PlanRows] /\ plan'[p].state = "executing" /\ plan'[p].second = plan[p].second
      /\ plan'[p].by = plan[p].by /\ plan'[p].size = plan[p].size
      /\ \A q \in Plans : q # p => plan'[q] = plan[q]
  BY <1>0, <1>2, PlanStatesApart DEF TypeOK, PlanRows
<1>9. TypeOK'
  <2>1. bound' \subseteq Slots \X (1..MaxAttempts)
    BY <1>0, <1>2, <1>3, <1>5 DEF TypeOK
  <2> QED BY <1>0, <1>2, <1>7, <1>8, <2>1 DEF TypeOK
<1>10. ItemLinked(x, item'[x], plan'[p].state, record[x], bound')
  <2>1. \A n \in Nat : <<x, n>> \in bound' => n <= item[x].attempt
    BY <1>2, <1>4, <1>5 DEF ItemLinked
  <2> QED BY <1>5, <1>6, <1>7, <1>8, <2>1, PlanStatesApart DEF ItemLinked
<1>11. plan[p].state \in Running /\ plan'[p].state \in Running /\ jobs'[p] > 0 /\ jobs' = jobs /\ parked' = parked /\ record' = record
  BY <1>2, <1>8, PlanStatesApart DEF Due
<1>12. \A y \in Slots, n \in Nat : y # x /\ <<y, n>> \in bound' => <<y, n>> \in bound
  BY <1>2
<1>13. item'[x].state # "applied"
  BY <1>6, <1>7
<1>14. \A q \in Plans : q # p => plan'[q] = plan[q] /\ jobs'[q] = jobs[q]
  BY <1>8, <1>11
<1> QED BY <1>3, <1>7, <1>8, <1>9, <1>10, <1>11, <1>12, <1>13, <1>14, OneItemOnly

(* An item is tried again. *)
LEMMA ReviewItemInv ==
  ASSUME IInv, NEW p \in Plans, NEW x \in Slots, NEW req \in Requests, x[1] = p, ReviewItem(p, x, req)
  PROVE  IInv' /\ Stuck /\ Acted
<1>0. TypeOK
  BY DEF IInv
<1>1. /\ plan[p].state \in Running /\ item[x].state = "needs_review" /\ item[x].record = None
      /\ item[x].attempt < MaxAttempts
      /\ item' = [item EXCEPT ![x] = Attempted(x, req)] /\ jobs' = [jobs EXCEPT ![p] = @ + 1]
      /\ UNCHANGED <<plan, record, standing, parked, bound>>
      /\ confirmed' \subseteq confirmed
  BY DEF ReviewItem
<1>2. item[x] \in ItemRows /\ ItemLinked(x, item[x], plan[p].state, record[x], bound)
  BY <1>0, Rows DEF IInv, Linked
<1>3. record[x] = "none" /\ item[x].attempt > 0 /\ plan[p].state # "none"
  BY <1>1, <1>2, PlanStatesApart DEF ItemLinked
<1>4. /\ Attempted(x, req) \in ItemRows /\ Attempted(x, req).state = "pending" /\ Attempted(x, req).record = None
      /\ Attempted(x, req).attempt = item[x].attempt + 1
  <2>1. PICK i : i = item[x]
    OBVIOUS
  <2>2. PICK n : n = i.attempt + 1
    OBVIOUS
  <2>3. Attempted(x, req) = [i EXCEPT !.state = "pending", !.request = req, !.moved = FALSE, !.attempt = n]
    BY <2>1, <2>2 DEF Attempted
  <2>4. i \in ItemRows /\ i.record = None /\ i.attempt < MaxAttempts
    BY <1>1, <1>2, <2>1
  <2>5. n \in 0..MaxAttempts
    BY <2>2, <2>4, PlansParameters DEF ItemRows
  <2> QED BY <2>1, <2>2, <2>3, <2>4, <2>5, PlanStatesApart DEF ItemRows
<1>5. /\ item' \in [Slots -> ItemRows] /\ item'[x] = Attempted(x, req) /\ \A y \in Slots : y # x => item'[y] = item[y]
  BY <1>0, <1>1, <1>4 DEF TypeOK
<1>6. jobs' \in [Plans -> Nat] /\ jobs'[p] > 0 /\ \A q \in Plans : q # p => jobs'[q] = jobs[q]
  BY <1>0, <1>1 DEF TypeOK
<1>7. TypeOK'
  BY <1>0, <1>1, <1>5, <1>6 DEF TypeOK
<1>8. ItemLinked(x, item'[x], plan'[p].state, record[x], bound')
  <2>1. item[x].attempt \in Nat
    BY <1>2, PlansParameters DEF ItemRows
  <2>2. \A n \in Nat : <<x, n>> \in bound => n <= item[x].attempt
    BY <1>2 DEF ItemLinked
  <2> QED BY <1>1, <1>3, <1>4, <1>5, <2>1, <2>2, PlanStatesApart DEF ItemLinked
<1>9. item'[x].state # "applied" /\ plan' = plan /\ record' = record /\ parked' = parked /\ bound' = bound
  BY <1>1, <1>4, <1>5
<1> QED BY <1>1, <1>5, <1>6, <1>7, <1>8, <1>9, OneItemOnly

(* A recovery takes back what the replaced admin stood for. *)
LEMMA ReplaceInv ==
  ASSUME IInv, NEW q \in Persons, Replace(q)
  PROVE  IInv' /\ Stuck /\ Acted
<1>0. TypeOK
  BY DEF IInv
<1> DEFINE back(x) == x[1] \in Replaced(q) /\ item[x].state = "pending"
<1>1. /\ standing' = [standing EXCEPT ![q] = "disproven"]
      /\ UNCHANGED <<plan, record, confirmed, jobs, parked, bound>>
  BY DEF Replace
<1>2. ASSUME NEW x \in Slots
      PROVE  /\ item'[x] \in ItemRows
             /\ item'[x].state = IF back(x) THEN "needs_review" ELSE item[x].state
             /\ item'[x].record = item[x].record /\ item'[x].attempt = item[x].attempt
  <2>1. item[x] \in ItemRows
    BY <1>0, Rows
  <2>2. item'[x] = IF back(x) THEN [item[x] EXCEPT !.state = "needs_review"] ELSE item[x]
    BY DEF Replace
  <2>3. CASE back(x)
    <3>1. item'[x] = [item[x] EXCEPT !.state = "needs_review"]
      BY <2>2, <2>3
    <3> QED BY <2>1, <2>3, <3>1, PlanStatesApart DEF ItemRows
  <2>4. CASE ~back(x)
    BY <2>1, <2>2, <2>4
  <2> QED BY <2>3, <2>4
<1>3. TypeOK'
  <2>1. item' = [x \in Slots |-> item'[x]]
    BY DEF Replace
  <2>2. item' \in [Slots -> ItemRows]
    BY <1>2, <2>1, Zenon
  <2> QED BY <1>0, <1>1, <2>2 DEF TypeOK, Proof
<1>4. Linked'
  <2> SUFFICES ASSUME NEW x \in Slots PROVE ItemLinked(x, item'[x], plan[x[1]].state, record[x], bound)
    BY <1>1 DEF Linked
  <2>1. ItemLinked(x, item[x], plan[x[1]].state, record[x], bound)
    BY DEF IInv, Linked
  <2>2. CASE back(x)
    <3>1. item[x].record = None /\ item[x].attempt > 0 /\ plan[x[1]].state # "none" /\ record[x] = "none"
      BY <2>1, <2>2, PlanStatesApart DEF ItemLinked
    <3> QED BY <1>2, <2>1, <2>2, <3>1, PlanStatesApart DEF ItemLinked
  <2>3. CASE ~back(x)
    BY <1>2, <2>1, <2>3 DEF ItemLinked
  <2> QED BY <2>2, <2>3
<1>5. ASSUME NEW p \in Plans, plan[p].state \in EndedPlans
      PROVE  \A x \in ItemsOf(p) : item'[x].state = item[x].state
  BY <1>2, <1>5, PlanStatesApart DEF ItemsOf, Replaced
<1>6. Stuck
  BY <1>1, <1>5 DEF Stuck
<1>7. EndedIsSettled'
  BY <1>1, <1>5, PlanStatesApart DEF IInv, EndedIsSettled, ItemsOf
<1>8. NoRunLost'
  <2> SUFFICES ASSUME NEW p \in Plans, plan[p].state \in Running,
                      Pendings(p)' # {} \/ \A x \in ItemsOf(p)' : item'[x].state \notin Open
               PROVE  jobs[p] > 0 \/ p \in parked
    BY <1>1 DEF NoRunLost
  <2>1. ItemsOf(p)' = ItemsOf(p)
    BY DEF ItemsOf
  <2>2. Pendings(p)' \subseteq Pendings(p)
    BY <1>2, <2>1 DEF Pendings, ItemsOf
  <2>3. (\A x \in ItemsOf(p) : item'[x].state \notin Open) => \A x \in ItemsOf(p) : item[x].state \notin Open
    BY <1>2, PlanStatesApart DEF ItemsOf
  <2> QED BY <2>1, <2>2, <2>3 DEF IInv, NoRunLost
<1>9. Doubled'
  BY <1>1 DEF IInv, Doubled, Above
<1>10. Acted
  BY <1>2 DEF Acted, Acts
<1> QED BY <1>3, <1>4, <1>6, <1>7, <1>8, <1>9, <1>10 DEF IInv

(* A plan is drafted. *)
LEMMA DraftInv ==
  ASSUME IInv, NEW p \in Plans, NEW q \in Persons, NEW n \in Positions, NEW requests \in [1..n -> Requests],
         Draft(p, q, requests)
  PROVE  IInv' /\ Stuck /\ Acted
<1>0. TypeOK
  BY DEF IInv
<1>n. n \in Nat \ {0} /\ n <= MaxItems /\ MaxItems \in Nat
  BY PlansParameters DEF Positions
<1>d. DOMAIN requests = 1..n /\ Len(requests) = n
  <2>1. requests \in Seq(Requests)
    BY <1>n, SeqDef
  <2> QED BY <1>n, <2>1, LenProperties
<1> DEFINE new(x) == x[1] = p /\ x[2] \in 1..n
<1>1. /\ plan[p].state = "none"
      /\ plan' = [plan EXCEPT ![p] = [NoPlan EXCEPT !.state = "draft", !.by = q, !.size = n]]
      /\ item' = [x \in Slots |-> IF new(x) THEN [NoItem EXCEPT !.state = "pending", !.request = requests[x[2]], !.attempt = 1]
                                  ELSE item[x]]
      /\ UNCHANGED <<record, standing, confirmed, jobs, parked, bound>>
  BY <1>d DEF Draft
<1>2. ASSUME NEW x \in Slots
      PROVE  /\ item'[x] \in ItemRows
             /\ new(x) => item'[x].state = "pending" /\ item'[x].record = None /\ item'[x].attempt = 1
             /\ ~new(x) => item'[x] = item[x]
  <2>1. item[x] \in ItemRows
    BY <1>0, Rows
  <2>2. CASE new(x)
    <3>1. PICK req \in Requests : req = requests[x[2]]
      BY <2>2
    <3>2. item'[x] = [NoItem EXCEPT !.state = "pending", !.request = req, !.attempt = 1]
      BY <1>1, <2>2, <3>1
    <3>3. item'[x] = [state |-> "pending", request |-> req, attempt |-> 1, record |-> None, moved |-> FALSE]
      BY <3>2 DEF NoItem
    <3>4. item'[x] \in ItemRows
      BY <3>3, PlanStatesApart, PlansParameters DEF ItemRows
    <3> QED BY <2>2, <3>3, <3>4
  <2>3. CASE ~new(x)
    BY <1>1, <2>1, <2>3
  <2> QED BY <2>2, <2>3
<1>3. /\ plan' \in [Plans -> PlanRows] /\ plan'[p].state = "draft" /\ \A u \in Plans : u # p => plan'[u] = plan[u]
  <2>1. PICK i \in PlanRows : i = NoPlan
    BY EmptyRows
  <2>2. PICK row : row = [i EXCEPT !.state = "draft", !.by = q, !.size = n]
    OBVIOUS
  <2>3. n \in 0..MaxItems /\ "draft" \in PlanStates
    BY <1>n DEF PlanStates
  <2>4. row \in PlanRows
    BY <2>2, <2>3 DEF PlanRows
  <2>5. row.state = "draft"
    BY <2>2 DEF PlanRows
  <2>6. row = [NoPlan EXCEPT !.state = "draft", !.by = q, !.size = n]
    BY <2>1, <2>2
  <2>7. plan' = [plan EXCEPT ![p] = row]
    BY <1>1, <2>6
  <2> QED BY <1>0, <2>4, <2>5, <2>7 DEF TypeOK
<1>4. TypeOK'
  <2>1. item' = [x \in Slots |-> item'[x]]
    BY <1>1
  <2>2. item' \in [Slots -> ItemRows]
    BY <1>2, <2>1, Zenon
  <2> QED BY <1>0, <1>1, <1>3, <2>2 DEF TypeOK
<1> HIDE DEF new
<1>5. Linked'
  <2> SUFFICES ASSUME NEW x \in Slots PROVE ItemLinked(x, item'[x], plan'[x[1]].state, record[x], bound)
    BY <1>1 DEF Linked
  <2>1. ItemLinked(x, item[x], plan[x[1]].state, record[x], bound)
    BY DEF IInv, Linked
  <2>2. CASE new(x)
    <3>1. item[x].attempt = 0 /\ record[x] = "none" /\ x[1] = p
      BY <1>1, <2>1, <2>2 DEF ItemLinked, new
    <3>2. \A k \in Nat : <<x, k>> \notin bound
      BY <1>0, <2>1, <3>1, PlansParameters DEF ItemLinked, TypeOK
    <3> QED BY <1>2, <1>3, <2>2, <3>1, <3>2, PlanStatesApart DEF ItemLinked
  <2>3. CASE ~new(x) /\ x[1] = p
    BY <1>1, <1>2, <2>1, <2>3 DEF ItemLinked
  <2>4. CASE x[1] # p
    BY <1>2, <1>3, <2>1, <2>4, Rows, <1>0 DEF ItemLinked, new
  <2> QED BY <2>2, <2>3, <2>4
<1>6. \A u \in Plans : u # p => \A x \in ItemsOf(u) : item'[x] = item[x]
  BY <1>2 DEF ItemsOf, new
<1>7. plan[p].state \notin Running \cup EndedPlans /\ plan'[p].state \notin Running \cup EndedPlans
  BY <1>1, <1>3, PlanStatesApart
<1>8. Stuck
  BY <1>3, <1>6, <1>7 DEF Stuck
<1>9. EndedIsSettled'
  BY <1>3, <1>6, <1>7, PlanStatesApart DEF IInv, EndedIsSettled, ItemsOf
<1>10. NoRunLost'
  <2> SUFFICES ASSUME NEW u \in Plans, plan'[u].state \in Running,
                      Pendings(u)' # {} \/ \A x \in ItemsOf(u)' : item'[x].state \notin Open
               PROVE  jobs[u] > 0 \/ u \in parked
    BY <1>1 DEF NoRunLost
  <2>1. u # p /\ ItemsOf(u)' = ItemsOf(u)
    BY <1>7 DEF ItemsOf
  <2>2. Pendings(u)' = Pendings(u)
    BY <1>6, <2>1 DEF Pendings
  <2> QED BY <1>3, <1>6, <2>1, <2>2 DEF IInv, NoRunLost
<1>11. Doubled'
  BY <1>3, <1>7 DEF IInv, Doubled, Above
<1>12. Acted
  BY <1>2 DEF Acted, Acts
<1> QED BY <1>4, <1>5, <1>8, <1>9, <1>10, <1>11, <1>12 DEF IInv

(* A step that leaves the plans, the items, the records, the work items and the keys. *)
LEMMA QuietInv ==
  ASSUME IInv, UNCHANGED <<plan, item, record, jobs, parked, bound>>, standing' \in [Persons -> Proof],
         confirmed' \subseteq [plan: Plans, digest: Digests, by: Persons \cup {Owner}]
  PROVE  IInv' /\ Stuck /\ Acted
<1>1. TypeOK'
  BY DEF IInv, TypeOK
<1>2. Doubled'
  BY DEF IInv, Doubled, Above
<1>3. \A x \in Slots : item'[x].state = item[x].state /\ Same(item[x], item'[x])
  BY DEF Same
<1> QED BY <1>1, <1>2, <1>3, Carried

(* A target's revisions move. *)
LEMMA RevisedInv ==
  ASSUME IInv, NEW r, RecordRevised(r)
  PROVE  IInv' /\ Stuck /\ Acted
<1>0. TypeOK /\ item \in [Slots -> ItemRows]
  BY DEF IInv, TypeOK
<1>1. item' = Moving(item, {r}) /\ UNCHANGED <<plan, record, standing, confirmed, jobs, parked, bound>>
  BY DEF RecordRevised
<1>2. \A x \in Slots : item'[x].state = item[x].state /\ Same(item[x], item'[x])
  BY <1>0, <1>1, MovingItem
<1>3. Moving(item, {r}) = [x \in Slots |-> Moving(item, {r})[x]]
  BY DEF Moving
<1>4. item' \in [Slots -> ItemRows]
  <2>1. CASE Slots = {}
    BY <1>1, <1>3, <2>1
  <2>2. CASE Slots # {}
    BY <1>0, <1>1, <2>2, MovingItem
  <2> QED BY <2>1, <2>2
<1>5. TypeOK' /\ Doubled'
  BY <1>0, <1>1, <1>4 DEF IInv, TypeOK, Doubled, Above
<1> QED BY <1>1, <1>2, <1>5, Carried

(* A plan is previewed. *)
LEMMA PreviewInv ==
  ASSUME IInv, NEW p \in Plans, Preview(p)
  PROVE  IInv' /\ Stuck /\ Acted
<1>0. TypeOK
  BY DEF IInv
<1>1. PICK row, d :
        /\ row = plan[p] /\ row.state \in {"draft", "previewed"} /\ d \in 0..MaxDigests
        /\ plan' = [plan EXCEPT ![p] = [row EXCEPT !.state = "previewed", !.expiry = "ahead", !.digest = d]]
  <2>1. PICK e : e <=> (plan[p].digest = 0 \/ \E x \in ItemsOf(p) : item[x].moved)
    OBVIOUS
  <2>2. PICK d : d = IF e THEN plan[p].digest + 1 ELSE plan[p].digest
    OBVIOUS
  <2>3. plan[p].digest \in 0..MaxDigests
    BY <1>0 DEF TypeOK, PlanRows
  <2>4. d \in 0..MaxDigests
    BY <2>1, <2>2, <2>3, PlansParameters DEF Preview
  <2>5. plan' = [plan EXCEPT ![p].state = "previewed", ![p].expiry = "ahead", ![p].digest = d]
    BY <2>1, <2>2 DEF Preview
  <2>6. plan' = [plan EXCEPT ![p] = [plan[p] EXCEPT !.state = "previewed", !.expiry = "ahead", !.digest = d]]
    BY <1>0, <2>5 DEF TypeOK
  <2> QED BY <2>4, <2>6 DEF Preview
<1>2. /\ item' = [x \in Slots |-> IF x[1] = p THEN [item[x] EXCEPT !.moved = FALSE] ELSE item[x]]
      /\ UNCHANGED <<record, standing, confirmed, jobs, parked, bound>>
  BY DEF Preview
<1>3. ASSUME NEW x \in Slots
      PROVE  item'[x] \in ItemRows /\ item'[x].state = item[x].state /\ Same(item[x], item'[x])
  <2>1. PICK i \in ItemRows : i = item[x]
    BY <1>0, Rows
  <2>2. [i EXCEPT !.moved = FALSE] \in ItemRows /\ [i EXCEPT !.moved = FALSE].state = i.state
        /\ Same(i, [i EXCEPT !.moved = FALSE])
    BY DEF ItemRows, Same
  <2> QED BY <1>2, <2>1, <2>2 DEF Same
<1>4. item' \in [Slots -> ItemRows]
  <2>1. item' = [x \in Slots |-> item'[x]]
    BY <1>2
  <2> QED BY <1>3, <2>1, Zenon
<1>5. PICK new : new = [row EXCEPT !.state = "previewed", !.expiry = "ahead", !.digest = d]
  OBVIOUS
<1>6. new \in PlanRows /\ new.state = "previewed"
  <2>1. row \in PlanRows
    BY <1>0, <1>1 DEF TypeOK
  <2> QED BY <1>1, <1>5, <2>1 DEF PlanRows, PlanStates
<1>7. plan' \in [Plans -> PlanRows] /\ plan'[p] = new /\ \A q \in Plans : q # p => plan'[q] = plan[q]
  BY <1>0, <1>1, <1>5, <1>6 DEF TypeOK
<1>8. TypeOK'
  BY <1>0, <1>2, <1>4, <1>7 DEF TypeOK
<1>9. Doubled'
  BY <1>6, <1>7, PlanStatesApart DEF IInv, Doubled, Above
<1>10. \A q \in Plans : \/ plan'[q].state = plan[q].state
                        \/ plan[q].state \notin EndedPlans /\ plan'[q].state \notin EndedPlans \cup {"none"} \cup Running
  BY <1>1, <1>6, <1>7, PlanStatesApart
<1> QED BY <1>2, <1>3, <1>8, <1>9, <1>10, Carried

(* A plan is confirmed: above the threshold on a second person, who is not its initiator. *)
LEMMA ConfirmPreviewInv ==
  ASSUME IInv, NEW p \in Plans, ConfirmPreview(p)
  PROVE  IInv' /\ Stuck /\ Acted
<1>0. TypeOK /\ plan[p] \in PlanRows
  BY DEF IInv, TypeOK
<1>1. /\ plan[p].state = "previewed" /\ jobs' = [jobs EXCEPT ![p] = @ + 1]
      /\ UNCHANGED <<item, record, standing, parked, bound>> /\ confirmed' \subseteq confirmed
  BY DEF ConfirmPreview
<1>2. PICK row : /\ plan' = [plan EXCEPT ![p] = row] /\ row \in PlanRows /\ row.state = "confirmed"
                 /\ row.by = plan[p].by /\ row.size = plan[p].size
                 /\ Above(p) => row.second # None /\ row.second # row.by
  <2>1. PICK old \in PlanRows : old = plan[p]
    BY <1>0
  <2>2. CASE ~Above(p)
    <3>1. PICK row : row = [old EXCEPT !.state = "confirmed"]
      OBVIOUS
    <3>2. plan' = [plan EXCEPT ![p].state = "confirmed"]
      BY <2>2 DEF ConfirmPreview
    <3>3. plan' = [plan EXCEPT ![p] = row]
      BY <1>0, <2>1, <3>1, <3>2 DEF TypeOK
    <3>4. row \in PlanRows /\ row.state = "confirmed" /\ row.by = old.by /\ row.size = old.size
      BY <3>1, PlanStatesApart DEF PlanRows
    <3> QED BY <2>1, <2>2, <3>3, <3>4
  <2>3. CASE Above(p)
    <3>1. PICK c \in Seconds(p, [of |-> 0, n |-> plan[p].digest]) :
            plan' = [plan EXCEPT ![p].state = "confirmed", ![p].second = c.by]
      BY <2>3 DEF ConfirmPreview
    <3>2. PICK b : b = c.by
      OBVIOUS
    <3>3. b \in Persons \cup {Owner} /\ b # None /\ b # old.by
      BY <1>0, <2>1, <3>1, <3>2, PlansParameters DEF Seconds, TypeOK
    <3>4. PICK row : row = [old EXCEPT !.state = "confirmed", !.second = b]
      OBVIOUS
    <3>5. plan' = [plan EXCEPT ![p] = row]
      BY <1>0, <2>1, <3>1, <3>2, <3>4 DEF TypeOK
    <3>6. /\ row \in PlanRows /\ row.state = "confirmed" /\ row.by = old.by /\ row.size = old.size /\ row.second = b
      BY <3>3, <3>4, PlanStatesApart DEF PlanRows
    <3> QED BY <2>1, <3>3, <3>5, <3>6
  <2> QED BY <2>2, <2>3
<1>3. plan' \in [Plans -> PlanRows] /\ plan'[p] = row /\ \A q \in Plans : q # p => plan'[q] = plan[q]
  BY <1>0, <1>2 DEF TypeOK
<1>4. jobs' \in [Plans -> Nat] /\ jobs'[p] > 0 /\ \A q \in Plans : q # p => jobs'[q] = jobs[q]
  BY <1>0, <1>1 DEF TypeOK
<1>5. TypeOK'
  BY <1>0, <1>1, <1>3, <1>4 DEF TypeOK
<1>6. Doubled'
  BY <1>2, <1>3 DEF IInv, Doubled, Above
<1>7. \A x \in Slots : item'[x].state = item[x].state /\ Same(item[x], item'[x])
  BY <1>1 DEF Same
<1>8. "previewed" \notin EndedPlans /\ "confirmed" \notin EndedPlans \cup {"none"}
  BY PlanStatesApart
<1>9. ASSUME NEW q \in Plans
      PROVE  /\ \/ plan'[q].state = plan[q].state
                \/ plan[q].state \notin EndedPlans /\ plan'[q].state \notin EndedPlans \cup {"none"}
             /\ plan'[q].state \in Running =>
                  \/ plan[q].state \in Running /\ (jobs'[q] = jobs[q] \/ q \in parked')
                  \/ jobs'[q] > 0
  <2>1. CASE q = p
    BY <1>1, <1>2, <1>3, <1>4, <1>8, <2>1
  <2>2. CASE q # p
    BY <1>3, <1>4, <2>2
  <2> QED BY <2>1, <2>2
<1> QED BY <1>1, <1>5, <1>6, <1>7, <1>9, Carried

(* A run waited too long, or time passes: no plan and no item leaves its state. *)
LEMMA StillInv ==
  ASSUME IInv, NEW p \in Plans, GiveUp(p) \/ TimePasses(p)
  PROVE  IInv' /\ Stuck /\ Acted
<1>0. TypeOK /\ plan[p] \in PlanRows
  BY DEF IInv, TypeOK
<1>1. PICK past : past = [plan[p] EXCEPT !.expiry = "past"]
  OBVIOUS
<1>2. past \in PlanRows /\ past.state = plan[p].state /\ past.second = plan[p].second /\ past.by = plan[p].by
      /\ past.size = plan[p].size
  <2>1. PICK old \in PlanRows : old = plan[p]
    BY <1>0
  <2>2. past = [old EXCEPT !.expiry = "past"]
    BY <1>1, <2>1
  <2>3. past \in PlanRows /\ past.state = old.state /\ past.second = old.second /\ past.by = old.by /\ past.size = old.size
    BY <2>2 DEF PlanRows
  <2> QED BY <2>1, <2>3
<1>3. /\ UNCHANGED <<item, record, standing, confirmed, bound>>
      /\ plan' = plan \/ plan' = [plan EXCEPT ![p] = past]
  <2>1. CASE GiveUp(p)
    BY <2>1 DEF GiveUp
  <2>2. CASE TimePasses(p)
    <3>1. plan' = [plan EXCEPT ![p].expiry = "past"]
      BY <2>2 DEF TimePasses
    <3> QED BY <1>0, <1>1, <2>2, <3>1 DEF TimePasses, TypeOK
  <2> QED BY <2>1, <2>2
<1>4. /\ jobs' \in [Plans -> Nat] /\ parked \subseteq parked' /\ parked' \subseteq Plans
      /\ \A q \in Plans : jobs'[q] = jobs[q] \/ q \in parked'
  <2>1. CASE GiveUp(p)
    <3>1. jobs[p] > 0 /\ jobs' = [jobs EXCEPT ![p] = @ - 1] /\ parked' = parked \cup {p}
      BY <2>1 DEF GiveUp, Due
    <3> QED BY <1>0, <3>1 DEF TypeOK
  <2>2. CASE TimePasses(p)
    BY <1>0, <2>2 DEF TimePasses, TypeOK
  <2> QED BY <2>1, <2>2
<1>5. /\ plan' \in [Plans -> PlanRows]
      /\ \A q \in Plans : /\ plan'[q].state = plan[q].state /\ plan'[q].second = plan[q].second
                          /\ plan'[q].by = plan[q].by /\ plan'[q].size = plan[q].size
  BY <1>0, <1>2, <1>3 DEF TypeOK
<1>6. TypeOK'
  BY <1>0, <1>3, <1>4, <1>5 DEF TypeOK
<1>7. Doubled'
  BY <1>5 DEF IInv, Doubled, Above
<1>8. \A x \in Slots : item'[x].state = item[x].state /\ Same(item[x], item'[x])
  BY <1>3 DEF Same
<1> QED BY <1>3, <1>4, <1>5, <1>6, <1>7, <1>8, Carried

(* A run that takes no item: one that comes too late, that ends a plan, or that finds nothing left to run. *)
LEMMA RunIdleInv ==
  ASSUME IInv, NEW p \in Plans, RunIdle(p)
  PROVE  IInv' /\ Stuck /\ Acted
<1>0. TypeOK
  BY DEF IInv
<1>1. /\ UNCHANGED <<standing, confirmed, parked, bound>>
      /\ jobs' \in [Plans -> Nat] /\ \A q \in Plans : q # p => jobs'[q] = jobs[q]
  <2>1. jobs[p] > 0 /\ jobs' = [jobs EXCEPT ![p] = @ - 1]
    BY DEF RunIdle
  <2> QED BY <1>0, <2>1 DEF RunIdle, TypeOK
<1>2. CASE plan[p].state \notin Running /\ UNCHANGED <<plan, item, record>>
  <2>1. TypeOK' /\ Doubled'
    BY <1>0, <1>1, <1>2 DEF IInv, TypeOK, Doubled, Above
  <2>2. \A x \in Slots : item'[x].state = item[x].state /\ Same(item[x], item'[x])
    BY <1>2 DEF Same
  <2>3. \A q \in Plans : plan'[q].state \in Running => jobs'[q] = jobs[q]
    BY <1>1, <1>2
  <2> QED BY <1>1, <1>2, <2>1, <2>2, <2>3, Carried
<1>3. CASE plan[p].state \in Running /\ EndPlan(p, "expired")
  <2>1. plan[p].state \notin EndedPlans \cup {"none"}
    BY <1>3, PlanStatesApart
  <2> QED BY <1>1, <1>3, <2>1, PlanEnds
<1>4. CASE Due(p) /\ Pendings(p) = {} /\ plan' = Settled(item, {p}) /\ UNCHANGED <<item, record>>
  <2>1. /\ plan' \in [Plans -> PlanRows] /\ \A q \in Plans : q # p => plan'[q] = plan[q]
    BY <1>0, <1>4, SettledType DEF Settled
  <2>2. /\ \/ plan'[p] = plan[p]
           \/ /\ plan[p].state \in Running /\ \A x \in ItemsOf(p) : item[x].state \notin Open
              /\ plan'[p].state \in {"completed", "partially_completed"}
              /\ plan'[p].state = "completed" => \A x \in ItemsOf(p) : item[x].state # "rejected"
              /\ plan'[p].state = "partially_completed" => \E x \in ItemsOf(p) : item[x].state = "rejected"
        /\ (\A x \in ItemsOf(p) : item[x].state \notin Open) => plan'[p].state \in EndedPlans
    BY <1>0, <1>4, SettledPlan DEF Due
  <2>3. TypeOK'
    BY <1>0, <1>1, <1>4, <2>1 DEF TypeOK
  <2>4. Linked'
    <3> SUFFICES ASSUME NEW x \in Slots PROVE ItemLinked(x, item[x], plan'[x[1]].state, record[x], bound)
      BY <1>1, <1>4 DEF Linked
    <3>1. ItemLinked(x, item[x], plan[x[1]].state, record[x], bound) /\ x[1] \in Plans
      BY <1>0, Rows DEF IInv, Linked
    <3>2. plan[x[1]].state # "none" => plan'[x[1]].state # "none"
      BY <2>1, <2>2, <3>1
    <3> QED BY <3>1, <3>2 DEF ItemLinked
  <2>5. Stuck
    BY <1>4, <2>1, <2>2, PlanStatesApart DEF Stuck
  <2>6. EndedIsSettled'
    <3> SUFFICES ASSUME NEW q \in Plans
                 PROVE  /\ plan'[q].state \in EndedPlans => \A x \in ItemsOf(q) : item[x].state \notin Open
                        /\ plan'[q].state = "completed" => \A x \in ItemsOf(q) : item[x].state # "rejected"
                        /\ plan'[q].state = "partially_completed" => \E x \in ItemsOf(q) : item[x].state = "rejected"
      BY <1>4 DEF EndedIsSettled, ItemsOf
    <3>1. /\ plan[q].state \in EndedPlans => \A x \in ItemsOf(q) : item[x].state \notin Open
          /\ plan[q].state = "completed" => \A x \in ItemsOf(q) : item[x].state # "rejected"
          /\ plan[q].state = "partially_completed" => \E x \in ItemsOf(q) : item[x].state = "rejected"
      BY DEF IInv, EndedIsSettled
    <3> QED BY <2>1, <2>2, <3>1, PlanStatesApart
  <2>7. NoRunLost'
    <3> SUFFICES ASSUME NEW q \in Plans, plan'[q].state \in Running,
                        Pendings(q)' # {} \/ \A x \in ItemsOf(q)' : item'[x].state \notin Open
                 PROVE  jobs'[q] > 0 \/ q \in parked'
      BY DEF NoRunLost
    <3>1. ItemsOf(q)' = ItemsOf(q)
      BY DEF ItemsOf
    <3>2. Pendings(q)' = Pendings(q)
      BY <1>4, <3>1 DEF Pendings
    <3>3. q # p
      BY <1>4, <2>2, <3>1, <3>2, PlanStatesApart
    <3> QED BY <1>1, <1>4, <2>1, <3>1, <3>2, <3>3 DEF IInv, NoRunLost
  <2>8. Doubled'
    BY <2>1, <2>2, PlanStatesApart DEF IInv, Doubled, Above
  <2>9. Acted
    BY <1>4 DEF Acted, Acts
  <2> QED BY <2>3, <2>4, <2>5, <2>6, <2>7, <2>8, <2>9 DEF IInv
<1> QED BY <1>2, <1>3, <1>4 DEF RunIdle

(* The invariant holds where nothing is drafted yet. *)
LEMMA InitInv ==
  Init => IInv
<1> SUFFICES ASSUME Init PROVE IInv
  OBVIOUS
<1>1. ASSUME NEW p \in Plans PROVE plan[p] = NoPlan /\ plan[p].state = "none"
  BY DEF Init, NoPlan
<1>2. ASSUME NEW x \in Slots
      PROVE item[x] = NoItem /\ item[x].state = "none" /\ item[x].attempt = 0 /\ record[x] = "none"
  BY PlansParameters DEF Init, NoItem, Records
<1>3. TypeOK
  <2>1. plan \in [Plans -> PlanRows] /\ item \in [Slots -> ItemRows]
    BY EmptyRows DEF Init
  <2>2. record \in [Records -> States]
    BY StatesApart DEF Init, States
  <2>3. standing \in [Persons -> Proof]
    BY DEF Init, Proof
  <2> QED BY <2>1, <2>2, <2>3 DEF Init, TypeOK
<1>4. Linked
  BY <1>2, PlanStatesApart DEF Linked, ItemLinked, Init
<1>5. EndedIsSettled /\ NoRunLost /\ Doubled
  BY <1>1, PlanStatesApart DEF EndedIsSettled, NoRunLost, Doubled
<1> QED BY <1>3, <1>4, <1>5 DEF IInv

(* Every action keeps the invariant, and does what EndSticks, TwoPersons and ActsOnThePreviewed ask of a step. *)
LEMMA StepInv ==
  IInv /\ [Next]_vars => IInv' /\ Stuck /\ Acted
<1> SUFFICES ASSUME IInv, [Next]_vars PROVE IInv' /\ Stuck /\ Acted
  OBVIOUS
<1>0. TypeOK /\ Initiators \subseteq Persons /\ Provable \subseteq Proof
  BY PlansParameters DEF IInv
<1>1. ASSUME NEW p \in Plans, NEW q \in Initiators, NEW n \in Positions, NEW requests \in [1..n -> Requests],
             Draft(p, q, requests)
      PROVE  IInv' /\ Stuck /\ Acted
  BY <1>0, <1>1, DraftInv
<1>2. ASSUME NEW p \in Plans, Preview(p) PROVE IInv' /\ Stuck /\ Acted
  BY <1>2, PreviewInv
<1>3. ASSUME NEW p \in Plans, ConfirmPreview(p) PROVE IInv' /\ Stuck /\ Acted
  BY <1>3, ConfirmPreviewInv
<1>4. ASSUME NEW p \in Plans, CancelPlan(p) PROVE IInv' /\ Stuck /\ Acted
  <2>1. /\ plan[p].state \notin EndedPlans \cup {"none"} /\ EndPlan(p, "cancelled")
        /\ UNCHANGED <<standing, confirmed, jobs, parked, bound>>
    BY <1>4 DEF CancelPlan
  <2> QED BY <1>0, <2>1, PlanEnds DEF TypeOK
<1>5. ASSUME NEW p \in Plans, RunIdle(p) PROVE IInv' /\ Stuck /\ Acted
  BY <1>5, RunIdleInv
<1>6. ASSUME NEW p \in Plans, RunUnseconded(p) \/ RunInvalid(p) PROVE IInv' /\ Stuck /\ Acted
  BY <1>6, RunOtherInv
<1>7. ASSUME NEW p \in Plans, GiveUp(p) \/ TimePasses(p) PROVE IInv' /\ Stuck /\ Acted
  BY <1>7, StillInv
<1>8. ASSUME NEW p \in Plans, ExpirePlan(p) PROVE IInv' /\ Stuck /\ Acted
  <2>1. /\ plan[p].state \notin EndedPlans \cup {"none"} /\ EndPlan(p, "expired")
        /\ UNCHANGED <<standing, confirmed, jobs, parked, bound>>
    BY <1>8, PlanStatesApart DEF ExpirePlan, Expirable
  <2> QED BY <1>0, <2>1, PlanEnds DEF TypeOK
<1>9. ASSUME NEW p \in Plans, NEW contained, NEW lastApplied, NEW after, RunItem(p, contained, lastApplied, after)
      PROVE  IInv' /\ Stuck /\ Acted
  BY <1>9, RunItemInv
<1>10. ASSUME NEW p \in Plans, NEW c \in Confirmers, NEW d \in Digests, ConfirmPlan(c, p, d)
       PROVE  IInv' /\ Stuck /\ Acted
  <2>1. [plan |-> p, digest |-> d, by |-> c] \in [plan: Plans, digest: Digests, by: Persons \cup {Owner}]
    BY PlansParameters
  <2> QED BY <1>0, <1>10, <2>1, QuietInv DEF ConfirmPlan, TypeOK
<1>11. ASSUME NEW c, Lapse(c) PROVE IInv' /\ Stuck /\ Acted
  BY <1>0, <1>11, QuietInv DEF Lapse, TypeOK
<1>12. ASSUME NEW p \in Plans, NEW x \in Slots, NEW req \in Requests, x[1] = p, ReviewItem(p, x, req)
       PROVE  IInv' /\ Stuck /\ Acted
  BY <1>12, ReviewItemInv
<1>13. ASSUME NEW r \in Records, RecordRevised(r) PROVE IInv' /\ Stuck /\ Acted
  BY <1>13, RevisedInv
<1>14. ASSUME NEW r \in Records, NEW to \in Elsewhere, RecordMoves(r, to) PROVE IInv' /\ Stuck /\ Acted
  BY <1>14, RecordMovesInv
<1>15. ASSUME NEW q \in Persons, Replace(q) PROVE IInv' /\ Stuck /\ Acted
  BY <1>15, ReplaceInv
<1>16. ASSUME NEW q \in Persons, NEW to \in Provable, StandingMoves(q, to) PROVE IInv' /\ Stuck /\ Acted
  BY <1>0, <1>16, QuietInv DEF StandingMoves, TypeOK
<1>17. CASE UNCHANGED vars
  BY <1>0, <1>17, QuietInv DEF vars, TypeOK
<1> QED BY <1>1, <1>2, <1>3, <1>4, <1>5, <1>6, <1>7, <1>8, <1>9, <1>10, <1>11, <1>12, <1>13, <1>14, <1>15, <1>16, <1>17 DEF Next

-----------------------------------------------------------------------------
(* The inductive invariant. *)
THEOREM Invariant == Spec => []IInv
<1>1. IInv /\ [Next]_vars => IInv'
  BY StepInv
<1> QED BY InitInv, <1>1, PTL DEF Spec

(* Every variable keeps its type. *)
THEOREM TypeCorrect == Spec => []TypeOK
<1>1. IInv => TypeOK
  BY DEF IInv
<1> QED BY <1>1, Invariant, PTL

(* What ends a plan, by its last item, by its cancellation or by its expiry, leaves no item open and tells what became
   of them: endPlan rejects what is open, settle and FollowRecord end a plan only on its last answer. *)
THEOREM EndedPlansAreSettled == Spec => []EndedIsSettled
<1>1. IInv => EndedIsSettled
  BY DEF IInv
<1> QED BY <1>1, Invariant, PTL

(* No record of a rejected item is effective or waits to be: it was never written, was written as ended, was ended by
   endPlan, or is what rejected the item when it ended. *)
THEOREM RejectedItemsGiveNothing == Spec => []RejectedGivesNothing
<1>1. IInv => RejectedGivesNothing
  BY DEF IInv, Linked, ItemLinked, RejectedGivesNothing
<1> QED BY <1>1, Invariant, PTL

(* An item to be run has left nothing behind under the key it runs with: no record, no bound answer. *)
THEOREM AttemptsStartAfresh == Spec => []TriedAfresh
<1>1. IInv => TriedAfresh
  <2> SUFFICES ASSUME IInv, NEW x \in Slots, item[x].state = "pending"
               PROVE  record[x] = "none" /\ <<x, item[x].attempt>> \notin bound
    BY DEF TriedAfresh
  <2>1. ItemLinked(x, item[x], plan[x[1]].state, record[x], bound)
    BY DEF IInv, Linked
  <2> QED BY <2>1, PlanStatesApart DEF ItemLinked
<1> QED BY <1>1, Invariant, PTL

(* A plan with something to do has a run enqueued, or one with an operator, whatever order the runs, the reviews, the
   records' moves and a recovery came in. *)
THEOREM RunsAreKept == Spec => []NoRunLost
<1>1. IInv => NoRunLost
  BY DEF IInv
<1> QED BY <1>1, Invariant, PTL

(* No run, review, record's move or late confirmation reopens or rewrites a plan that ended. *)
THEOREM EndedPlansStay == Spec => EndSticks
<1>1. IInv /\ [Next]_vars => [Stuck]_vars
  BY StepInv
<1>2. [Stuck]_vars =>
        [\A p \in Plans : plan[p].state \in EndedPlans =>
           plan'[p].state = plan[p].state /\ \A x \in ItemsOf(p) : item'[x].state = item[x].state]_vars
  BY DEF Stuck
<1> QED BY <1>1, <1>2, Invariant, PTL DEF Spec, EndSticks

(* Above the threshold nothing runs on the initiator alone: the second person is another, and is proven an admin by the
   run itself. *)
THEOREM RunsOnTwoPersons == Spec => TwoPersons
<1>1. IInv /\ [Next]_vars =>
        [\A x \in Slots : Above(x[1]) /\ item[x].state = "pending" /\ item'[x].state = "applied"
           => LET s == plan[x[1]].second IN s # None /\ s # plan[x[1]].by /\ (s # Owner => standing[s] = "proven")]_vars
  BY StepInv DEF Acted, Acts
<1> QED BY <1>1, Invariant, PTL DEF Spec, TwoPersons

(* No tightening is applied to a target that moved since the preview the confirmation is of. *)
THEOREM RunsOnThePreviewed == Spec => ActsOnThePreviewed
<1>1. IInv /\ [Next]_vars =>
        [\A x \in Slots : item[x].request.ask \in Tightenings /\ item[x].state = "pending" /\ item'[x].state = "applied"
           => ~item[x].moved]_vars
  BY StepInv DEF Acted, Acts
<1> QED BY <1>1, Invariant, PTL DEF Spec, ActsOnThePreviewed
=============================================================================
