-------------------------------- MODULE Units --------------------------------
(***************************************************************************)
(* Management units and the grants under them: the tree of units, the limit *)
(* each gives, what may be made within it, and the closure job that keeps   *)
(* the books of what depends on a unit that was narrowed, ended or renewed. *)
(* Each action is one transaction under the deployment's guard.             *)
(*                                                                          *)
(* A scope is a set of cells, each standing for one segment: two segments of*)
(* one kind meet in what they share, two of different kinds are outside the *)
(* table of intersections (they meet in nothing, and a record meeting one   *)
(* in its limit cannot be computed).  Who asks and who confirms is Admins'  *)
(* subject: here whatever somebody could ask for is asked for, and what is  *)
(* saved may be confirmed at any time.                                      *)
(***************************************************************************)
EXTENDS Decide, Lifecycle, FiniteSets, Integers

CONSTANTS
  Units,      \* identities of unit records
  Grants,     \* identities of grant records, all of one grantee
  Root,       \* the root unit's identity
  None,
  Cells,      \* what scopes are made of
  KindOf,     \* each cell's kind of atom
  Offered,    \* the scopes asked for
  Depths,     \* the sub-delegation depths asked for
  RootDepth,  \* the root's
  MaxLevel,   \* AUTHZ_MAX_UNIT_DEPTH: levels below the root
  Renewal,    \* a widening may name a predecessor
  Later       \* a grant may carry effective_from

Records == Units \cup Grants

ASSUME Parameters ==
  /\ Root \in Units /\ None \notin Records /\ Units \cap Grants = {}
  /\ IsFiniteSet(Units)
  /\ Offered \subseteq SUBSET Cells /\ {} \notin Offered
  /\ Depths \subseteq Nat /\ RootDepth \in Nat /\ MaxLevel \in Nat
  /\ {Renewal, Later} \subseteq BOOLEAN

VARIABLES
  record,    \* authz_record: the units and the grants
  closures   \* units whose closure is enqueued

vars == <<record, closures>>

\* under: the parent or the governance unit, as the record names it; restore: a restore's job of the present state
\* revision is enqueued.
Rows ==
  [state: States, under: Units \cup {None}, scope: SUBSET Cells, depth: Nat, pred: Records \cup {None},
   review: BOOLEAN, restore: BOOLEAN]

Unwritten == [state |-> "none", under |-> None, scope |-> {}, depth |-> 0, pred |-> None, review |-> FALSE, restore |-> FALSE]

Init ==
  /\ record = [r \in Records |-> IF r = Root THEN [Unwritten EXCEPT !.state = "active", !.depth = RootDepth] ELSE Unwritten]
  /\ closures = {}

MovedWithJobs(row, to) == \* mutant: a job of the revision before stays valid
  IF to \in EndedStates THEN [Unwritten EXCEPT !.state = to, !.pred = row.pred] ELSE [row EXCEPT !.state = to]

\* Transition: the state moves, and a restore of the revision before is void.  Of an ended record only what it
\* renewed is read again, and only if it was itself renewed: the rest is forgotten.
Moved(row, to) ==
  IF to \in EndedStates THEN [Unwritten EXCEPT !.state = to, !.pred = IF to = "ended/superseded" THEN row.pred ELSE None]
  ELSE [row EXCEPT !.state = to, !.restore = FALSE]

-----------------------------------------------------------------------------
(* The units as they stand, and the limits they give *)

\* The units the edges E lead to from u, itself among them: those in every set that holds u and that no edge leaves.
Reached(E, u) ==
  {v \in Units : \A S \in SUBSET Units : u \in S /\ (\A e \in E : e[1] \in S => e[2] \in S) => v \in S}

\* Units: an identity stands for the active unit that renewed it, or for itself; for none when that has ended.
Renewals(rs) ==
  {<<rs[x].pred, x>> : x \in {y \in Units : rs[y].pred # None /\ rs[y].state \in {"active", "ended/superseded"}}}
StandingFor(rs) == [u \in Units |-> {x \in Reached(Renewals(rs), u) : rs[x].state = "active"}]

\* World: each identity's active unit, and the active units from there up (chain), the root among them unless it is off.
Upwards(rs, standing) ==
  UNION {{<<x, y>> : y \in standing[rs[x].under]} : x \in {y \in Units : rs[y].state = "active" /\ rs[y].under # None}}
World(rs) ==
  LET standing == StandingFor(rs)
      up == Upwards(rs, standing)
  IN [unit |-> standing, chain |-> [u \in Units |-> UNION {Reached(up, x) : x \in standing[u]}],
      scope |-> [u \in Units |-> rs[u].scope], depth |-> [u \in Units |-> rs[u].depth]]

SameUnit(w, u, v) == u = v \/ (w.unit[u] # {} /\ w.unit[u] = w.unit[v])

Rooted(w, u) == Root \in w.chain[u]

\* Limits.walk, Cut: what every unit from u up leaves; the root limits nothing.
Limit(w, u) == {c \in Cells : \A x \in w.chain[u] \ {Root} : c \in w.scope[x]}
Unlimited(w, u) == w.chain[u] = {Root}

\* Computable: no cell of the record's meets one of its limit of another kind.
Computable(w, row) ==
  Unlimited(w, row.under) \/ \A a \in row.scope, b \in Limit(w, row.under) : KindOf[a] = KindOf[b]

Left(w, row) == row.scope \cap Limit(w, row.under)
Covers(w, row) == Rooted(w, row.under) /\ row.scope \subseteq Limit(w, row.under)

\* levelOf; depthOf: a unit's depth is at most one less than its parent's.
LevelOf(w, u) == Cardinality(w.chain[u]) - 1
DepthLeft(w, u, d) == \A x \in w.chain[u] : d < w.depth[x] - (LevelOf(w, u) - LevelOf(w, x))

\* widening, delegation, supersedes: a unit is within its parent and the depth left there, a grant within its
\* governance unit; a grant that renews another covers it.
Contained(w, r, row) ==
  /\ Covers(w, row)
  /\ r \in Units => DepthLeft(w, row.under, row.depth) /\ LevelOf(w, row.under) < MaxLevel
  /\ r \in Grants /\ row.pred # None => record[row.pred].scope \subseteq row.scope

\* underItself: a unit below the one it supersedes, or on a loop already.
OnLoop(w, u) == w.chain[u] # {} /\ ~Rooted(w, u) /\ \A x \in w.chain[u] : w.unit[record[x].under] # {}
UnderItself(w, u, pred) == OnLoop(w, u) \/ \E x \in w.chain[u] : SameUnit(w, x, pred)

-----------------------------------------------------------------------------
(* Changes of units and grants *)

\* A predecessor is an active record of the same type.
Renewable(rs, r, pred) == pred # None => rs[pred].state = "active" /\ (r \in Units <=> pred \in Units)

\* What a unit's tightening, end or renewal enqueues.
CloseAfter(R) == closures' = closures \cup (R \cap Units)

\* A record takes effect: what it renews ends superseded.
TakesEffect(rs, r) ==
  [x \in Records |-> CASE x = r -> Moved(rs[x], "active")
                       [] x # r /\ x = rs[r].pred -> Moved(rs[x], "ended/superseded")
                       [] OTHER -> rs[x]]

\* submitted: somebody asks for the record r with the content row.  A unit awaits its confirmation, a grant takes effect
\* at once or at its time; one not contained is written as rejected.
Submit(w, r, row, future) ==
  LET o == Outcome([FreshFacts EXCEPT !.eligible = "proven", !.managementWiden = (r \in Units),
                      !.needsConfirmation = (r \in Units), !.contained = Contained(w, r, row), !.future = future])
      as(state) == [record EXCEPT ![r] = Moved(row, state)]
  IN /\ Renewable(record, r, row.pred) /\ w.unit[row.under] # {}
     /\ ~(r \in Units /\ row.pred # None /\ UnderItself(w, row.under, row.pred))
     /\ \/ /\ o = "rejected"
           /\ record' = as("ended/rejected")
           /\ UNCHANGED closures
        \/ /\ o = "awaiting_saved"
           /\ record' = as("awaiting_confirmation")
           /\ UNCHANGED closures
        \/ /\ o = "scheduled"
           /\ record' = as("scheduled")
           /\ UNCHANGED closures
        \/ /\ o = "applied"
           /\ record' = TakesEffect(as("active"), r)
           /\ CloseAfter({row.pred})

Candidate(under, scope, depth, pred) ==
  [Unwritten EXCEPT !.under = under, !.scope = scope, !.depth = depth, !.pred = pred]

\* Identities are drawn at random: which of the unwritten ones is drawn makes no difference.
Drawn == {CHOOSE r \in R : TRUE : R \in {{r \in T : record[r].state = "none"} : T \in {Units, Grants}} \ {{}}}

Submits ==
  LET w == World(record)
  IN \E r \in Drawn, under \in Units, scope \in Offered, pred \in {None} \cup {x \in Records : Renewal} :
       \/ r \in Units /\ \E d \in Depths : Submit(w, r, Candidate(under, scope, d, pred), FALSE)
       \/ r \in Grants /\ \E later \in BOOLEAN :
            (later => Later) /\ Submit(w, r, Candidate(under, scope, 0, pred), later)

\* fired: a saved record's job, once confirmed (a unit) or due (a grant); what it was checked against is checked again.
Due(r) ==
  LET row == record[r]
      w == World(record)
      o == Outcome([FreshFacts EXCEPT !.trigger = "job", !.eligible = "proven", !.managementWiden = (r \in Units),
                      !.needsConfirmation = (r \in Units), !.confirmation = IF r \in Units THEN "valid" ELSE "none",
                      !.revisionsChanged = ~Renewable(record, r, row.pred), !.contained = Contained(w, r, row)])
  IN /\ row.state \in Pending
     /\ \/ /\ o = "applied"
           /\ record' = TakesEffect(record, r)
           /\ CloseAfter({row.pred})
        \/ /\ o = "rejected"
           /\ record' = [record EXCEPT ![r] = Moved(@, "ended/rejected")]
           /\ UNCHANGED closures

\* onTarget: a saved record withdrawn, an effective or held one revoked (never the root, which nobody is above).
End(r) ==
  /\ r # Root /\ record[r].state \in Pending \cup Effective
  /\ record' = [record EXCEPT ![r] = Moved(@, IF record[r].state \in Pending THEN "ended/withdrawn" ELSE "ended/revoked")]
  /\ CloseAfter({r})

NarrowAlone(r, scope, d) == \* mutant: a held record's unit does not look at it again
  /\ r # Root /\ record[r].state \in Effective
  /\ scope \subseteq record[r].scope /\ d <= record[r].depth /\ (r \in Grants => scope # {} /\ d = 0)
  /\ <<scope, d>> # <<record[r].scope, record[r].depth>>
  /\ record' = [record EXCEPT ![r].scope = scope, ![r].depth = d, ![r].restore = FALSE]
  /\ CloseAfter({r})

NarrowToAny(r, scope, d) == \* mutant: the narrowed scope is not compared with the one before
  /\ r # Root /\ record[r].state \in Effective
  /\ d <= record[r].depth /\ (r \in Grants => scope # {} /\ d = 0)
  /\ record' = [record EXCEPT ![r].scope = scope, ![r].depth = d, ![r].restore = FALSE]
  /\ CloseAfter({r, record[r].under})

\* onTarget, narrows: less of an effective or held record's scope, and no more depth.  A restore under way is void, and a
\* held record's unit looks at it again.  A narrowing that changes nothing is left out: repeated for ever it would void
\* every restore.
Narrow(r, scope, d) ==
  LET row == record[r]
  IN /\ r # Root /\ row.state \in Effective
     /\ scope \subseteq row.scope /\ d <= row.depth /\ (r \in Grants => scope # {} /\ d = 0)
     /\ <<scope, d>> # <<row.scope, row.depth>>
     /\ record' = [record EXCEPT ![r].scope = scope, ![r].depth = d, ![r].restore = FALSE]
     /\ CloseAfter({r} \cup (IF row.state = "held/uncomputable" THEN {row.under} ELSE {}))

-----------------------------------------------------------------------------
(* The closure of a unit, and restores *)

\* dependents, by the index: the effective and held records that name the unit, or an identity it now stands for.
Dependents(rs, w, u) ==
  {r \in Records : rs[r].state \in Effective /\ rs[r].under # None /\ SameUnit(w, rs[r].under, u)}

\* assess: where a record's unit, as it stands, puts it.
Assessed(w, row) ==
  IF ~Rooted(w, row.under) THEN "ended/source_ended"
  ELSE IF Unlimited(w, row.under) THEN row.state
  ELSE IF ~Computable(w, row) THEN "held/uncomputable"
  ELSE IF Left(w, row) = {} THEN "ended/source_narrowed" ELSE "active"

\* KeepBooks: a record is moved where it is put; one held that could come back has its restore enqueued; one in effect is
\* marked for review when partly outside.
Booked(w, row) ==
  LET put == Assessed(w, row)
  IN IF row.state \in HeldStates /\ put = "held/uncomputable" THEN row
     ELSE IF row.state \in HeldStates /\ put \in {"active", row.state} THEN [row EXCEPT !.restore = TRUE]
     ELSE IF put # row.state THEN Moved(row, put)
     ELSE [row EXCEPT !.review = ~Covers(w, row)]

CloseFlat(u) == \* mutant: the closure does not go on to the units below
  LET w == World(record)
      D == Dependents(record, w, u)
  IN /\ u \in closures
     /\ record' = [r \in Records |-> IF r \in D THEN Booked(w, record[r]) ELSE record[r]]
     /\ closures' = closures \ {u}

\* Closure: the books of u's dependents, and the closures of the units among them.
Close(u) ==
  LET w == World(record)
      D == Dependents(record, w, u)
  IN /\ u \in closures
     /\ record' = [r \in Records |-> IF r \in D THEN Booked(w, record[r]) ELSE record[r]]
     /\ closures' = (closures \ {u}) \cup (D \cap Units)

\* restoring: a held record whose sources can be computed again comes back, for review when partly outside.
Restore(r) ==
  LET row == record[r]
      w == World(record)
      o == Outcome([FreshFacts EXCEPT !.kind = "restore_uncomputable", !.trigger = "job", !.eligible = "proven",
                      !.managementWiden = (r \in Units),
                      !.restoredEmpty = \/ ~Rooted(w, row.under) \/ ~Computable(w, row)
                                        \/ (~Unlimited(w, row.under) /\ Left(w, row) = {}),
                      !.partlyOutside = ~Covers(w, row)])
  IN /\ row.restore
     /\ \/ /\ o \in {"applied", "applied_review"}
           /\ record' = [record EXCEPT ![r] = [Moved(@, "active") EXCEPT !.review = (o = "applied_review")]]
           /\ CloseAfter({r})
        \/ /\ o = "kept_held"
           /\ record' = [record EXCEPT ![r].restore = FALSE]
           /\ UNCHANGED closures

Next ==
  \/ Submits
  \/ \E r \in Records : Due(r) \/ End(r) \/ Restore(r)
  \/ \E r \in Records, scope \in SUBSET Cells, d \in Depths \cup {0} : Narrow(r, scope, d)
  \/ \E u \in Units : Close(u)

Spec == Init /\ [][Next]_vars

\* The work queue runs what is enqueued: weak fairness of each job, with what enables it written out (to evaluate
\* ENABLED of a whole closure takes TLC too long).
Fairness ==
  /\ \A u \in Units : []<>(u \notin closures) \/ []<><<Close(u)>>_vars
  /\ \A r \in Records : []<>~record[r].restore \/ []<><<Restore(r)>>_vars

FairSpec == Spec /\ Fairness

-----------------------------------------------------------------------------
(* Properties *)

\* Records keep the shape their table gives them, and only what is held waits for a restore.
TypeOK ==
  /\ record \in [Records -> Rows] /\ closures \subseteq Units
  /\ \A r \in Records : record[r].restore => record[r].state \in HeldStates

\* The records that closures of the units in S come to, one closure enqueuing the next.
ComesTo(rs, w, S) ==
  LET down == UNION {{<<x, y>> : y \in Dependents(rs, w, x) \cap Units} : x \in Units}
  IN UNION {Dependents(rs, w, x) : x \in UNION {Reached(down, u) : u \in S}}

\* A record its unit no longer allows as it is: its unit is gone, or it reaches outside and is neither held for not
\* being computable nor marked for review.
OutOfBooks(w, row) ==
  \/ ~Rooted(w, row.under)
  \/ row.state = "active" /\ ~Covers(w, row) /\ ~(row.review /\ Computable(w, row))

\* Renewed units' identities once what renewed them is no longer active: no closure comes to what names them (dependents).
Lost(rs, w) == {u \in Units : rs[u].state = "ended/superseded" /\ w.unit[u] = {}}

\* No record is left behind by its unit: whatever the order of narrowings, ends, renewals, holds and restores, a record
\* in effect or held whose unit no longer allows it is one a closure still enqueued comes to; but for what names a lost
\* identity, and what is below that.
BooksFollow ==
  LET w == World(record)
  IN \A r \in Records \ {Root} :
       record[r].state \in Effective /\ OutOfBooks(w, record[r]) => r \in ComesTo(record, w, closures \cup Lost(record, w))

\* underItself's promise, however renewals are saved and confirmed: no active unit is below itself.
NoUnitUnderItself ==
  LET w == World(record)
  IN \A u \in Units : record[u].state = "active" /\ record[u].under # None => u \notin w.chain[record[u].under]

\* What a grant gives: its cells within the limit of its unit as it stands.
Gives(rs, g) ==
  LET w == World(rs)
  IN IF rs[g].state = "active" /\ Rooted(w, rs[g].under) THEN Left(w, rs[g]) ELSE {}

\* Only widenings widen: unless a record takes effect or comes back, no step lets any grant give more than it gave.
OnlyWideningsWiden ==
  [][ (\A r \in Records : record[r].state # "active" => record'[r].state # "active")
      => \A g \in Grants : Gives(record', g) \subseteq Gives(record, g) ]_vars

\* held though it can be computed and would give something
Stranded(r) ==
  LET w == World(record)
  IN /\ record[r].state = "held/uncomputable"
     /\ Rooted(w, record[r].under) /\ Computable(w, record[r])
     /\ Left(w, record[r]) # {} \/ Unlimited(w, record[r].under)

\* A record held because it could not be computed does not stay held once it can be and would give something: its
\* restore is enqueued, and enqueued again when the record is narrowed meanwhile.
HeldComesBack == \A r \in Records : []<>~Stranded(r)

=============================================================================
