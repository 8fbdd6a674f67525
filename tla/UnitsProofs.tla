----------------------------- MODULE UnitsProofs -----------------------------
(***************************************************************************)
(* The tree of units, for any units, grants, scopes and limits: what edges  *)
(* lead to, what a line of renewals and a chain upwards look like, and what *)
(* follows for grants (only widenings widen) and for the closure's books.   *)
(***************************************************************************)
EXTENDS Units, DecideProofs

-----------------------------------------------------------------------------
(* What edges lead to *)

(* Reached holds its start and is closed under the edges. *)
LEMMA ReachedStart ==
  ASSUME NEW E, NEW u \in Units
  PROVE  u \in Reached(E, u) /\ Reached(E, u) \subseteq Units
BY DEF Reached

LEMMA ReachedOn ==
  ASSUME NEW E, NEW u \in Units, NEW e \in E, e[1] \in Reached(E, u), e[2] \in Units
  PROVE  e[2] \in Reached(E, u)
BY DEF Reached

(* It is in every set that is. *)
LEMMA ReachedLeast ==
  ASSUME NEW E, NEW u \in Units, NEW S, u \in S, \A e \in E : e[1] \in S => e[2] \in S, S \subseteq Units
  PROVE  Reached(E, u) \subseteq S
BY DEF Reached

\* Edges between units.
Edges(E) == E \subseteq Units \X Units

(* Where the edges met are edges of another set too, that one leads at least as far. *)
LEMMA ReachedGrows ==
  ASSUME NEW E, NEW F, NEW u \in Units, Edges(E), \A e \in E : e[1] \in Reached(E, u) /\ e[1] \in Reached(F, u) => e \in F
  PROVE  Reached(E, u) \subseteq Reached(F, u)
<1> DEFINE S == Reached(E, u) \cap Reached(F, u)
<1>1. u \in S /\ S \subseteq Units
  BY ReachedStart
<1>2. ASSUME NEW e \in E, e[1] \in S PROVE e[2] \in S
  <2>1. e \in F /\ e[2] \in Units
    BY <1>2 DEF Edges
  <2> QED BY <1>2, <2>1, ReachedOn
<1>3. Reached(E, u) \subseteq S
  <2> HIDE DEF S
  <2> QED BY <1>1, <1>2, ReachedLeast
<1> QED BY <1>3

(* What is led to leads no further. *)
LEMMA ReachedWithin ==
  ASSUME NEW E, NEW u \in Units, NEW v \in Reached(E, u), Edges(E)
  PROVE  Reached(E, v) \subseteq Reached(E, u)
<1>1. v \in Reached(E, u) /\ Reached(E, u) \subseteq Units
  BY ReachedStart
<1>2. \A e \in E : e[1] \in Reached(E, u) => e[2] \in Reached(E, u)
  BY ReachedOn DEF Edges
<1> QED BY <1>1, <1>2, ReachedLeast

(* Anything further is led to by a first edge. *)
LEMMA FirstEdge ==
  ASSUME NEW E, NEW u \in Units, NEW v \in Reached(E, u), v # u, Edges(E)
  PROVE  \E e \in E : e[1] = u /\ v \in Reached(E, e[2])
<1> DEFINE S == {u} \cup {x \in Units : \E e \in E : e[1] = u /\ x \in Reached(E, e[2])}
<1>1. u \in S /\ S \subseteq Units
  OBVIOUS
<1>2. ASSUME NEW e \in E, e[1] \in S PROVE e[2] \in S
  <2>1. e[1] \in Units /\ e[2] \in Units
    BY DEF Edges
  <2>2. CASE e[1] = u
    BY <2>1, <2>2, ReachedStart
  <2>3. CASE e[1] # u
    <3>1. PICK f \in E : f[1] = u /\ e[1] \in Reached(E, f[2])
      BY <1>2, <2>3
    <3>2. f[2] \in Units
      BY DEF Edges
    <3>3. e[2] \in Reached(E, f[2])
      BY <2>1, <3>1, <3>2, ReachedOn
    <3> QED BY <2>1, <3>1, <3>3
  <2> QED BY <2>2, <2>3
<1>3. Reached(E, u) \subseteq S
  <2> HIDE DEF S
  <2> QED BY <1>1, <1>2, ReachedLeast
<1> QED BY <1>3

(* Without an edge to leave by, a unit leads to itself alone. *)
LEMMA NoEdge ==
  ASSUME NEW E, NEW u \in Units, \A e \in E : e[1] # u, Edges(E)
  PROVE  Reached(E, u) = {u}
BY FirstEdge, ReachedStart

\* At most one edge leaves a unit.
Single(E) == \A e, f \in E : e[1] = f[1] => e = f

(* Along single edges, all on the way to where they end lead there. *)
LEMMA OneWay ==
  ASSUME NEW E, Edges(E), Single(E), NEW u \in Units, NEW x \in Reached(E, u), \A e \in E : e[1] # x,
         NEW v \in Reached(E, u)
  PROVE  x \in Reached(E, v)
<1> DEFINE S == {y \in Reached(E, u) : x \in Reached(E, y)}
<1>1. u \in S /\ S \subseteq Units
  BY ReachedStart
<1>2. ASSUME NEW e \in E, e[1] \in S PROVE e[2] \in S
  <2>1. e[1] \in Units /\ e[2] \in Units /\ e[1] # x
    BY DEF Edges
  <2>2. PICK f \in E : f[1] = e[1] /\ x \in Reached(E, f[2])
    BY <1>2, <2>1, FirstEdge
  <2>3. f = e
    BY <2>2 DEF Single
  <2>4. e[2] \in Reached(E, u)
    BY <1>2, <2>1, ReachedOn
  <2> QED BY <2>2, <2>3, <2>4
<1>3. Reached(E, u) \subseteq S
  <2> HIDE DEF S
  <2> QED BY <1>1, <1>2, ReachedLeast
<1> QED BY <1>3

(* So they end in one place only. *)
LEMMA OneEnd ==
  ASSUME NEW E, Edges(E), Single(E), NEW u \in Units, NEW x \in Reached(E, u), NEW y \in Reached(E, u),
         \A e \in E : e[1] # x /\ e[1] # y
  PROVE  x = y
<1>1. x \in Reached(E, y)
  BY OneWay
<1>2. y \in Units
  BY ReachedStart
<1>3. Reached(E, y) = {y}
  BY <1>2, NoEdge
<1> QED BY <1>1, <1>3

(* And never come back to where they began. *)
LEMMA NoWayBack ==
  ASSUME NEW E, Edges(E), Single(E), NEW u \in Units, NEW x \in Reached(E, u), \A e \in E : e[1] # x,
         NEW d \in Reached(E, u), <<d, u>> \in E
  PROVE  FALSE
<1> DEFINE S == {y \in Reached(E, u) : d \in Reached(E, y)}
<1>1. u \in S /\ S \subseteq Units
  BY ReachedStart
<1>2. ASSUME NEW e \in E, e[1] \in S PROVE e[2] \in S
  <2>1. e[1] \in Units /\ e[2] \in Units /\ e[2] \in Reached(E, u)
    BY <1>2, ReachedOn DEF Edges
  <2>2. CASE e[1] = d
    <3>1. e = <<d, u>>
      BY <2>2 DEF Single
    <3>2. e[2] = u
      BY <3>1
    <3> QED BY <1>1, <3>2
  <2>3. CASE e[1] # d
    <3>1. PICK f \in E : f[1] = e[1] /\ d \in Reached(E, f[2])
      BY <1>2, <2>1, <2>3, FirstEdge
    <3>2. f = e
      BY <3>1 DEF Single
    <3> QED BY <2>1, <3>1, <3>2
  <2> QED BY <2>2, <2>3
<1>3. x \in S
  <2>1. Reached(E, u) \subseteq S
    <3> HIDE DEF S
    <3> QED BY <1>1, <1>2, ReachedLeast
  <2> QED BY <2>1
<1>4. x \in Units /\ Reached(E, x) = {x}
  BY ReachedStart, NoEdge
<1>5. d = x
  BY <1>3, <1>4
<1> QED BY <1>5

-----------------------------------------------------------------------------
(* The units as they stand *)

Taken == Effective \cup {"ended/superseded"}

\* The tree's shape: the root is in effect, above all and renewed by nobody; what is saved or in effect names a unit that
\* came into effect once; a unit is renewed by one at most, and is superseded from when that one takes effect.
RootStays(rs) == rs[Root].state = "active" /\ rs[Root].under = None /\ rs[Root].pred = None
UnitsNamed(rs) ==
  \A r \in Records \ {Root} : rs[r].state \in Pending \cup Effective =>
    rs[r].under \in Units /\ rs[rs[r].under].state \in Effective \cup EndedStates
RenewedOnce(rs) ==
  \A x \in Units : rs[x].state \in Taken /\ rs[x].pred # None =>
    /\ rs[x].pred \in Units /\ rs[rs[x].pred].state = "ended/superseded"
    /\ \A y \in Units : rs[y].state \in Taken /\ rs[y].pred = rs[x].pred => y = x
RootNotRenewed(rs) == \A x \in Units : rs[x].state \in Pending => rs[x].pred # Root

Sound(rs) ==
  /\ rs \in [Records -> Rows]
  /\ RootStays(rs) /\ UnitsNamed(rs) /\ RenewedOnce(rs) /\ RootNotRenewed(rs)

\* What stands for a unit's identity, and what is above it.
Stand(rs, u) == StandingFor(rs)[u]
Up(rs) == Upwards(rs, StandingFor(rs))

(* How the states are grouped. *)
LEMMA StateGroups ==
  /\ "active" \in Effective /\ "active" \in Taken /\ "active" \notin EndedStates /\ "active" \notin Pending
  /\ "active" \notin HeldStates /\ "none" \notin Pending \cup Effective \cup EndedStates \cup Taken
  /\ "ended/superseded" \in EndedStates /\ "ended/superseded" \in Taken /\ "ended/superseded" \notin Effective
  /\ Effective \cap EndedStates = {} /\ Pending \cap EndedStates = {} /\ Pending \cap Effective = {}
  /\ Pending \cap Taken = {} /\ Effective \subseteq Taken /\ HeldStates \subseteq Effective
  /\ \A s \in Effective : s = "active" \/ s \in HeldStates
  /\ Pending \cup Effective \cup EndedStates \cup {"none"} = States
BY DEF Taken, Effective, HeldStates, Pending, EndedStates, States, Endings, PendingEndings

(* A line of renewals does not fork, and ends at what stands. *)
LEMMA LineOfRenewals ==
  ASSUME NEW rs, Sound(rs)
  PROVE  /\ Edges(Renewals(rs)) /\ Single(Renewals(rs))
         /\ \A x \in Units : rs[x].state # "ended/superseded" => \A e \in Renewals(rs) : e[1] # x
<1>1. ASSUME NEW e \in Renewals(rs)
      PROVE  \E x \in Units : /\ e = <<rs[x].pred, x>> /\ rs[x].pred # None /\ rs[x].state \in Taken
                              /\ rs[x].pred \in Units /\ rs[rs[x].pred].state = "ended/superseded"
  <2>1. PICK x \in Units : e = <<rs[x].pred, x>> /\ rs[x].pred # None /\ rs[x].state \in {"active", "ended/superseded"}
    BY <1>1 DEF Renewals
  <2>2. rs[x].state \in Taken
    BY <2>1, StateGroups
  <2> QED BY <2>1, <2>2 DEF Sound, RenewedOnce
<1>2. Edges(Renewals(rs))
  BY <1>1 DEF Edges
<1>3. Single(Renewals(rs))
  <2> SUFFICES ASSUME NEW e \in Renewals(rs), NEW f \in Renewals(rs), e[1] = f[1] PROVE e = f
    BY DEF Single
  <2>1. PICK x \in Units : e = <<rs[x].pred, x>> /\ rs[x].pred # None /\ rs[x].state \in Taken
    BY <1>1
  <2>2. PICK y \in Units : f = <<rs[y].pred, y>> /\ rs[y].pred # None /\ rs[y].state \in Taken
    BY <1>1
  <2>3. rs[x].pred = rs[y].pred
    BY <2>1, <2>2
  <2> QED BY <2>1, <2>2, <2>3 DEF Sound, RenewedOnce
<1>4. ASSUME NEW x \in Units, rs[x].state # "ended/superseded", NEW e \in Renewals(rs) PROVE e[1] # x
  BY <1>1, <1>4
<1> QED BY <1>2, <1>3, <1>4

(* One unit at most stands for an identity; an active one stands for itself, another's stands for it only when it is    *)
(* superseded.                                                                                                          *)
LEMMA Standing ==
  ASSUME NEW rs, Sound(rs), NEW u \in Units
  PROVE  /\ Stand(rs, u) = {x \in Reached(Renewals(rs), u) : rs[x].state = "active"}
         /\ Stand(rs, u) \subseteq {x \in Units : rs[x].state = "active"}
         /\ \A x, y \in Stand(rs, u) : x = y
         /\ rs[u].state = "active" => Stand(rs, u) = {u}
         /\ rs[u].state # "ended/superseded" => Stand(rs, u) \subseteq {u}
<1> USE LineOfRenewals
<1>1. Stand(rs, u) = {x \in Reached(Renewals(rs), u) : rs[x].state = "active"}
  BY DEF Stand, StandingFor
<1>2. Stand(rs, u) \subseteq {x \in Units : rs[x].state = "active"}
  BY <1>1, ReachedStart
<1>3. ASSUME NEW x \in Stand(rs, u), NEW y \in Stand(rs, u) PROVE x = y
  <2>1. x \in Reached(Renewals(rs), u) /\ y \in Reached(Renewals(rs), u)
    BY <1>1
  <2>2. \A e \in Renewals(rs) : e[1] # x /\ e[1] # y
    BY <1>2
  <2> QED BY <2>1, <2>2, OneEnd
<1>4. rs[u].state # "ended/superseded" => Reached(Renewals(rs), u) = {u}
  BY NoEdge
<1> QED BY <1>1, <1>2, <1>3, <1>4

(* Nor does the way up fork, or go on from the root. *)
LEMMA WayUp ==
  ASSUME NEW rs, Sound(rs)
  PROVE  /\ Edges(Up(rs)) /\ Single(Up(rs)) /\ \A e \in Up(rs) : e[1] # Root
         /\ \A x, y : <<x, y>> \in Up(rs) <=> /\ x \in Units /\ rs[x].state = "active" /\ rs[x].under # None
                                             /\ y \in Stand(rs, rs[x].under)
         /\ \A e \in Up(rs) : \E x, y \in Units : e = <<x, y>> /\ rs[x].state = "active" /\ rs[y].state = "active"
<1>1. ASSUME NEW x, NEW y
      PROVE  <<x, y>> \in Up(rs) <=> /\ x \in Units /\ rs[x].state = "active" /\ rs[x].under # None
                                    /\ y \in Stand(rs, rs[x].under)
  BY DEF Up, Upwards, Stand
<1>2. ASSUME NEW e \in Up(rs)
      PROVE  \E x, y \in Units : /\ e = <<x, y>> /\ rs[x].state = "active" /\ rs[y].state = "active"
                                 /\ rs[x].under \in Units /\ y \in Stand(rs, rs[x].under)
  <2>1. PICK x \in Units : /\ rs[x].state = "active" /\ rs[x].under # None
                           /\ \E y \in StandingFor(rs)[rs[x].under] : e = <<x, y>>
    BY <1>2 DEF Up, Upwards
  <2>2. PICK y \in Stand(rs, rs[x].under) : e = <<x, y>>
    BY <2>1 DEF Stand
  <2>3. rs[x].under \in Units
    <3>1. x # Root /\ x \in Records
      BY <2>1 DEF Sound, RootStays, Records
    <3> QED BY <2>1, <3>1, StateGroups DEF Sound, UnitsNamed
  <2> QED BY <2>1, <2>2, <2>3, Standing
<1>3. Edges(Up(rs))
  BY <1>2 DEF Edges
<1>4. Single(Up(rs))
  <2> SUFFICES ASSUME NEW e \in Up(rs), NEW f \in Up(rs), e[1] = f[1] PROVE e = f
    BY DEF Single
  <2>1. PICK x \in Units, y \in Units : e = <<x, y>> /\ rs[x].under \in Units /\ y \in Stand(rs, rs[x].under)
    BY <1>2
  <2>2. PICK a \in Units, b \in Units : f = <<a, b>> /\ b \in Stand(rs, rs[a].under)
    BY <1>2
  <2> QED BY <2>1, <2>2, Standing
<1>5. \A e \in Up(rs) : e[1] # Root
  <2> SUFFICES ASSUME NEW e \in Up(rs), e[1] = Root PROVE FALSE
    OBVIOUS
  <2>1. PICK x \in Units, y \in Units : e = <<x, y>> /\ rs[x].under \in Units
    BY <1>2
  <2> QED BY <2>1, Parameters DEF Sound, RootStays, Records
<1>6. \A e \in Up(rs) : \E x, y \in Units : e = <<x, y>> /\ rs[x].state = "active" /\ rs[y].state = "active"
  BY <1>2
<1> QED BY <1>1, <1>3, <1>4, <1>5, <1>6

(* What is above an active unit is active. *)
LEMMA AboveIsActive ==
  ASSUME NEW rs, Sound(rs), NEW x \in Units, rs[x].state = "active", NEW y \in Reached(Up(rs), x)
  PROVE  y \in Units /\ rs[y].state = "active"
<1> DEFINE S == {v \in Units : rs[v].state = "active"}
<1>1. \A e \in Up(rs) : e[1] \in S => e[2] \in S
  <2> SUFFICES ASSUME NEW e \in Up(rs) PROVE e[2] \in S
    OBVIOUS
  <2>1. PICK a \in Units, b \in Units : e = <<a, b>> /\ rs[b].state = "active"
    BY WayUp
  <2> QED BY <2>1
<1>2. Reached(Up(rs), x) \subseteq S
  <2>1. x \in S /\ S \subseteq Units
    OBVIOUS
  <2> HIDE DEF S
  <2> QED BY <1>1, <2>1, ReachedLeast
<1> QED BY <1>2

(* What World says, in these terms. *)
LEMMA WorldIs ==
  ASSUME NEW rs, NEW u \in Units
  PROVE  /\ World(rs).unit[u] = Stand(rs, u)
         /\ World(rs).chain[u] = UNION {Reached(Up(rs), x) : x \in Stand(rs, u)}
         /\ World(rs).scope[u] = rs[u].scope
BY DEF World, Stand, Up

(* The chain of an identity is what is above the unit that stands for it. *)
LEMMA ChainIs ==
  ASSUME NEW rs, Sound(rs), NEW u \in Units, NEW x \in Stand(rs, u)
  PROVE  World(rs).chain[u] = Reached(Up(rs), x)
<1>1. Stand(rs, u) = {x}
  BY Standing
<1>2. World(rs).chain[u] = UNION {Reached(Up(rs), y) : y \in {x}}
  BY <1>1, WorldIs
<1> QED BY <1>2

-----------------------------------------------------------------------------
(* What a closure comes to *)

\* What depends on u by name, or by an identity the same unit stands for.
Below(rs, u) == Dependents(rs, World(rs), u)
Coming(rs, S) == ComesTo(rs, World(rs), S)

(* A unit's dependents, in terms of what stands. *)
LEMMA BelowIs ==
  ASSUME NEW rs, Sound(rs), NEW u \in Units
  PROVE  Below(rs, u) = {r \in Records : /\ rs[r].state \in Effective /\ rs[r].under \in Units
                                         /\ rs[r].under = u \/ (Stand(rs, u) # {} /\ Stand(rs, rs[r].under) = Stand(rs, u))}
<1>1. ASSUME NEW r \in Records, rs[r].state \in Effective
      PROVE  rs[r].under # None <=> rs[r].under \in Units
  <2>1. r = Root => rs[r].under = None
    BY DEF Sound, RootStays
  <2>2. r # Root => rs[r].under \in Units
    BY <1>1 DEF Sound, UnitsNamed
  <2> QED BY <2>1, <2>2, Parameters DEF Records
<1>2. ASSUME NEW v \in Units
      PROVE  SameUnit(World(rs), v, u) <=> v = u \/ (Stand(rs, u) # {} /\ Stand(rs, v) = Stand(rs, u))
  BY WorldIs DEF SameUnit
<1> QED BY <1>1, <1>2 DEF Below, Dependents

(* Identities of one unit have the same dependents. *)
LEMMA SameBelow ==
  ASSUME NEW rs, Sound(rs), NEW u \in Units, NEW v \in Units, Stand(rs, u) # {}, Stand(rs, u) = Stand(rs, v)
  PROVE  Below(rs, u) = Below(rs, v)
BY BelowIs

(* The closures of the units in S come to the dependents of these, and to those of what they come to; *)
LEMMA ComingOn ==
  ASSUME NEW rs, NEW S \in SUBSET Units
  PROVE  /\ \A u \in S : Below(rs, u) \subseteq Coming(rs, S)
         /\ \A d \in Coming(rs, S) \cap Units : Below(rs, d) \subseteq Coming(rs, S)
         /\ Coming(rs, S) \subseteq Records
<1> DEFINE down == UNION {{<<x, y>> : y \in Below(rs, x) \cap Units} : x \in Units}
<1>1. Coming(rs, S) = UNION {Below(rs, x) : x \in UNION {Reached(down, u) : u \in S}}
  BY DEF Coming, ComesTo, Below
<1>2. ASSUME NEW u \in S PROVE Below(rs, u) \subseteq Coming(rs, S)
  <2>1. u \in Reached(down, u)
    BY ReachedStart
  <2> HIDE DEF down
  <2> QED BY <1>1, <2>1
<1>3. ASSUME NEW d \in Coming(rs, S) \cap Units PROVE Below(rs, d) \subseteq Coming(rs, S)
  <2>1. PICK u \in S : \E x \in Reached(down, u) : d \in Below(rs, x)
    <3> HIDE DEF down
    <3> QED BY <1>1
  <2>0. PICK x \in Reached(down, u) : d \in Below(rs, x)
    BY <2>1
  <2>2. x \in Units
    BY <2>0, ReachedStart
  <2>3. <<x, d>> \in down
    BY <2>0, <2>2
  <2>4. d \in Reached(down, u)
    <3> HIDE DEF down
    <3>1. <<x, d>>[1] = x /\ <<x, d>>[2] = d
      OBVIOUS
    <3> QED BY <2>0, <2>3, <3>1, ReachedOn
  <2> HIDE DEF down
  <2> QED BY <1>1, <2>4
<1>4. Coming(rs, S) \subseteq Records
  BY <1>1 DEF Below, Dependents
<1> QED BY <1>2, <1>3, <1>4

(* and to nothing else. *)
LEMMA ComingLeast ==
  ASSUME NEW rs, NEW S \in SUBSET Units, NEW B, \A u \in S : Below(rs, u) \subseteq B,
         \A d \in B \cap Units : Below(rs, d) \subseteq B
  PROVE  Coming(rs, S) \subseteq B
<1> DEFINE down == UNION {{<<x, y>> : y \in Below(rs, x) \cap Units} : x \in Units}
           T == {x \in Units : Below(rs, x) \subseteq B}
<1>1. Coming(rs, S) = UNION {Below(rs, x) : x \in UNION {Reached(down, u) : u \in S}}
  BY DEF Coming, ComesTo, Below
<1>2. ASSUME NEW e \in down, e[1] \in T PROVE e[2] \in T
  <2>1. PICK x \in Units : \E y \in Below(rs, x) \cap Units : e = <<x, y>>
    OBVIOUS
  <2> QED BY <1>2, <2>1
<1>3. ASSUME NEW u \in S PROVE Reached(down, u) \subseteq T
  <2>1. u \in T /\ T \subseteq Units
    OBVIOUS
  <2> HIDE DEF down, T
  <2> QED BY <1>2, <2>1, ReachedLeast
<1> HIDE DEF down
<1> QED BY <1>1, <1>3

(* What is below a unit is come to by its closure, or by that of an identity it stands for. *)
LEMMA ComesDown ==
  ASSUME NEW rs, Sound(rs), NEW S \in SUBSET Units, NEW c \in S, NEW v \in Units, v \in Stand(rs, c) \/ v = c,
         NEW r \in Records, rs[r].state \in Effective, rs[r].under \in Units, v \in World(rs).chain[rs[r].under]
  PROVE  r \in Coming(rs, S)
<1> DEFINE K == Coming(rs, S)
<1>1. PICK x \in Stand(rs, rs[r].under) : v \in Reached(Up(rs), x)
  BY WorldIs
<1>2. x \in Units /\ rs[x].state = "active" /\ Stand(rs, rs[r].under) = {x} /\ Stand(rs, x) = {x}
  BY <1>1, Standing
<1>3. rs[v].state = "active"
  BY <1>1, <1>2, AboveIsActive
<1>4. Below(rs, v) \subseteq K
  <2>1. Stand(rs, v) = {v}
    BY <1>3, Standing
  <2>0. Stand(rs, c) = {v}
    <3>1. CASE v = c
      BY <2>1, <3>1
    <3>2. CASE v \in Stand(rs, c)
      <4>1. \A m, n \in Stand(rs, c) : m = n
        BY Standing
      <4> QED BY <3>2, <4>1
    <3> QED BY <3>1, <3>2
  <2>2. Below(rs, v) = Below(rs, c)
    BY <2>0, <2>1, SameBelow
  <2> QED BY <2>2, ComingOn
<1>5. Below(rs, x) \subseteq K
  <2> SUFFICES ASSUME ~(Below(rs, x) \subseteq K) PROVE FALSE
    OBVIOUS
  <2> DEFINE Z == {y \in Units : rs[y].state = "active" /\ ~(Below(rs, y) \subseteq K)}
  <2>1. ASSUME NEW e \in Up(rs), e[1] \in Z PROVE e[2] \in Z
    <3>1. PICK a \in Units, b \in Units : e = <<a, b>> /\ rs[a].state = "active" /\ rs[b].state = "active"
      BY WayUp
    <3>2. rs[a].under # None /\ b \in Stand(rs, rs[a].under)
      BY <3>1, WayUp
    <3>3. a # Root /\ a \in Records /\ rs[a].under \in Units
      <4>1. a # Root /\ a \in Records
        BY <3>2 DEF Sound, RootStays, Records
      <4> QED BY <3>1, <4>1, StateGroups DEF Sound, UnitsNamed
    <3>4. Stand(rs, b) = {b} /\ Stand(rs, rs[a].under) = {b}
      BY <3>1, <3>2, <3>3, Standing
    <3>5. a \in Below(rs, b)
      <4>1. Stand(rs, b) # {} /\ Stand(rs, rs[a].under) = Stand(rs, b) /\ rs[a].state \in Effective
        BY <3>1, <3>4, StateGroups
      <4> QED BY <3>3, <4>1, BelowIs
    <3>6. ASSUME Below(rs, b) \subseteq K PROVE FALSE
      <4>1. a \in K \cap Units
        BY <3>1, <3>5, <3>6
      <4>2. Below(rs, a) \subseteq K
        BY <4>1, ComingOn
      <4> QED BY <2>1, <3>1, <4>2
    <3> QED BY <3>1, <3>6
  <2>2. Reached(Up(rs), x) \subseteq Z
    <3>1. x \in Z /\ Z \subseteq Units
      BY <1>2
    <3> HIDE DEF Z, K
    <3> QED BY <1>2, <2>1, <3>1, ReachedLeast
  <2> QED BY <1>1, <1>4, <2>2
<1>6. r \in Below(rs, x)
  <2>1. Stand(rs, x) # {} /\ Stand(rs, rs[r].under) = Stand(rs, x)
    BY <1>2
  <2>2. x \in Units /\ Sound(rs) /\ r \in Records /\ rs[r].state \in Effective /\ rs[r].under \in Units
    BY <1>2
  <2> HIDE DEF K
  <2> QED BY ONLY <2>1, <2>2, BelowIs
<1> QED BY <1>5, <1>6

-----------------------------------------------------------------------------
(* Steps at which nothing takes effect or comes back *)

\* From rs to ns records only end, are held or narrowed.
Shrinks(rs, ns) ==
  /\ \A r \in Records : ns[r].state \in Effective =>
       rs[r].state \in Effective /\ ns[r].under = rs[r].under /\ ns[r].scope \subseteq rs[r].scope
  /\ \A r \in Records : ns[r].state = "active" => rs[r].state = "active"
  /\ \A x \in Units : ns[x].state = "ended/superseded" <=> rs[x].state = "ended/superseded"
  /\ \A x \in Units : ns[x].state \in {"active", "ended/superseded"} => ns[x].pred = rs[x].pred

\* The units that are active no more.
Off(rs, ns) == {x \in Units : rs[x].state = "active" /\ ns[x].state # "active"}

(* An identity then stands for the unit it stood for, or for none. *)
LEMMA StandShrinks ==
  ASSUME NEW rs, NEW ns, Sound(rs), Sound(ns), Shrinks(rs, ns), NEW u \in Units
  PROVE  Stand(ns, u) = Stand(rs, u) \ Off(rs, ns)
<1> USE LineOfRenewals
<1>1. Renewals(ns) \subseteq Renewals(rs)
  <2> SUFFICES ASSUME NEW e \in Renewals(ns) PROVE e \in Renewals(rs)
    OBVIOUS
  <2>1. PICK x \in Units : /\ e = <<ns[x].pred, x>> /\ ns[x].pred # None
                           /\ ns[x].state \in {"active", "ended/superseded"}
    BY DEF Renewals
  <2>2. rs[x].state \in {"active", "ended/superseded"} /\ rs[x].pred = ns[x].pred
    BY <2>1 DEF Shrinks, Records
  <2> QED BY <2>1, <2>2 DEF Renewals
<1>2. Reached(Renewals(ns), u) \subseteq Reached(Renewals(rs), u)
  BY <1>1, ReachedGrows
<1>3. Stand(ns, u) \subseteq Stand(rs, u) \ Off(rs, ns)
  BY <1>2, Standing DEF Shrinks, Records, Off
<1>4. ASSUME NEW x \in Stand(rs, u), x \notin Off(rs, ns) PROVE x \in Stand(ns, u)
  <2> DEFINE S == Reached(Renewals(ns), u) \cup Off(rs, ns)
  <2>1. u \in S /\ S \subseteq Units
    BY ReachedStart DEF Off
  <2>2. ASSUME NEW e \in Renewals(rs), e[1] \in S PROVE e[2] \in S
    <3>1. PICK y \in Units : /\ e = <<rs[y].pred, y>> /\ rs[y].pred # None
                             /\ rs[y].state \in {"active", "ended/superseded"}
      BY DEF Renewals
    <3>2. e[1] \notin Off(rs, ns)
      BY DEF Off
    <3>3. CASE y \notin Off(rs, ns)
      <4>1. ns[y].state \in {"active", "ended/superseded"}
        BY <3>1, <3>3 DEF Off, Shrinks
      <4>2. ns[y].pred = rs[y].pred
        BY <4>1 DEF Shrinks
      <4>3. e \in Renewals(ns) /\ e[2] \in Units
        BY <3>1, <4>1, <4>2 DEF Renewals
      <4> QED BY <2>2, <3>2, <4>3, ReachedOn
    <3>4. CASE y \in Off(rs, ns)
      BY <3>1, <3>4
    <3> QED BY <3>3, <3>4
  <2>3. Reached(Renewals(rs), u) \subseteq S
    <3> HIDE DEF S
    <3> QED BY <2>1, <2>2, ReachedLeast
  <2>4. x \in Reached(Renewals(ns), u) /\ x \in Units /\ rs[x].state = "active"
    BY <1>4, <2>3, Standing
  <2>5. ns[x].state = "active"
    BY <1>4, <2>4 DEF Off
  <2> QED BY <2>4, <2>5, Standing
<1> QED BY <1>3, <1>4

(* No way up is new. *)
LEMMA UpShrinks ==
  ASSUME NEW rs, NEW ns, Sound(rs), Sound(ns), Shrinks(rs, ns)
  PROVE  Up(ns) \subseteq Up(rs)
<1> SUFFICES ASSUME NEW e \in Up(ns) PROVE e \in Up(rs)
  OBVIOUS
<1>1. PICK x \in Units, y \in Units : e = <<x, y>> /\ ns[x].state = "active"
  BY WayUp
<1>2. ns[x].under # None /\ y \in Stand(ns, ns[x].under)
  BY <1>1, WayUp
<1>3. rs[x].state = "active" /\ rs[x].under = ns[x].under
  BY <1>1, StateGroups DEF Shrinks, Records
<1>4. rs[x].under \in Units
  <2>1. x # Root /\ x \in Records
    BY <1>2 DEF Sound, RootStays, Records
  <2> QED BY <1>3, <2>1, StateGroups DEF Sound, UnitsNamed
<1>5. y \in Stand(rs, rs[x].under)
  BY <1>2, <1>3, <1>4, StandShrinks
<1> QED BY <1>1, <1>2, <1>3, <1>5, WayUp

(* A chain none of whose units is off stays as it is; *)
LEMMA ChainKept ==
  ASSUME NEW rs, NEW ns, Sound(rs), Sound(ns), Shrinks(rs, ns), NEW u \in Units,
         World(rs).chain[u] \cap Off(rs, ns) = {}
  PROVE  Stand(ns, u) = Stand(rs, u) /\ World(ns).chain[u] = World(rs).chain[u]
<1> USE WayUp
<1>1. ASSUME NEW x \in Stand(rs, u) PROVE x \in World(rs).chain[u] /\ x \notin Off(rs, ns)
  <2>1. x \in Units
    BY Standing
  <2>2. x \in Reached(Up(rs), x)
    BY <2>1, ReachedStart
  <2>3. x \in World(rs).chain[u]
    BY <2>2, WorldIs
  <2> QED BY <2>3
<1>2. Stand(ns, u) = Stand(rs, u)
  <2>1. Stand(rs, u) \ Off(rs, ns) = Stand(rs, u)
    BY <1>1
  <2> QED BY ONLY <2>1, StandShrinks, Sound(rs), Sound(ns), Shrinks(rs, ns), u \in Units
<1>3. CASE Stand(rs, u) = {}
  <2>1. /\ World(rs).chain[u] = UNION {Reached(Up(rs), x) : x \in Stand(rs, u)}
        /\ World(ns).chain[u] = UNION {Reached(Up(ns), x) : x \in Stand(ns, u)}
    BY WorldIs
  <2>2. World(rs).chain[u] = {} /\ World(ns).chain[u] = {}
    BY ONLY <2>1, <1>2, <1>3
  <2> QED BY <1>2, <2>2
<1>4. CASE Stand(rs, u) # {}
  <2>1. PICK x \in Stand(rs, u) : TRUE
    BY <1>4
  <2>2. /\ x \in Units /\ x \in Stand(ns, u)
        /\ World(rs).chain[u] = Reached(Up(rs), x) /\ World(ns).chain[u] = Reached(Up(ns), x)
    BY <1>2, Standing, ChainIs
  <2>3. Reached(Up(ns), x) \subseteq Reached(Up(rs), x)
    BY <2>2, UpShrinks, ReachedGrows
  <2>4. ASSUME NEW e \in Up(rs), e[1] \in Reached(Up(rs), x) PROVE e \in Up(ns)
    <3>1. PICK a \in Units, b \in Units : e = <<a, b>> /\ rs[a].state = "active" /\ rs[b].state = "active"
      OBVIOUS
    <3>2. rs[a].under # None /\ b \in Stand(rs, rs[a].under)
      BY <3>1
    <3>3. a \in Reached(Up(rs), x) /\ b \in Reached(Up(rs), x)
      BY <2>2, <2>4, <3>1, ReachedOn
    <3>4. a \notin Off(rs, ns) /\ b \notin Off(rs, ns)
      BY <2>2, <3>3
    <3>5. ns[a].state = "active" /\ ns[a].under = rs[a].under
      BY <3>1, <3>4, StateGroups DEF Off, Shrinks, Records
    <3>6. rs[a].under \in Units
      <4>1. a # Root /\ a \in Records
        BY <3>2 DEF Sound, RootStays, Records
      <4> QED BY <3>1, <4>1, StateGroups DEF Sound, UnitsNamed
    <3>7. b \in Stand(ns, ns[a].under)
      BY <3>2, <3>4, <3>5, <3>6, StandShrinks
    <3> QED BY <3>1, <3>2, <3>5, <3>7
  <2>5. Reached(Up(rs), x) \subseteq Reached(Up(ns), x)
    <3>1. Edges(Up(rs)) /\ x \in Units
      BY <2>2
    <3>2. \A e \in Up(rs) : e[1] \in Reached(Up(rs), x) /\ e[1] \in Reached(Up(ns), x) => e \in Up(ns)
      BY <2>4
    <3> QED BY ONLY <3>1, <3>2, ReachedGrows
  <2>6. World(ns).chain[u] = World(rs).chain[u]
    <3>1. Reached(Up(rs), x) = Reached(Up(ns), x)
      BY <2>3, <2>5
    <3> QED BY ONLY <2>2, <3>1
  <2> QED BY <1>2, <2>6
<1> QED BY <1>3, <1>4

(* and one that still leads to the root is as it was. *)
LEMMA RootedKept ==
  ASSUME NEW rs, NEW ns, Sound(rs), Sound(ns), Shrinks(rs, ns), NEW u \in Units, Rooted(World(ns), u)
  PROVE  World(ns).chain[u] = World(rs).chain[u]
<1>1. PICK x \in Stand(ns, u) : Root \in Reached(Up(ns), x)
  BY WorldIs DEF Rooted
<1>2. x \in Stand(rs, u) /\ x \in Units
  BY StandShrinks, Standing
<1>3. World(ns).chain[u] = Reached(Up(ns), x) /\ World(rs).chain[u] = Reached(Up(rs), x)
  BY <1>2, ChainIs
<1>4. Reached(Up(ns), x) \subseteq Reached(Up(rs), x)
  BY <1>2, UpShrinks, ReachedGrows, WayUp
<1>5. Reached(Up(rs), x) \subseteq Reached(Up(ns), x)
  <2> DEFINE T == {v \in Reached(Up(ns), x) : Root \in Reached(Up(ns), v)}
  <2>1. x \in T /\ T \subseteq Units
    BY <1>1, <1>2, ReachedStart
  <2>2. ASSUME NEW e \in Up(rs), e[1] \in T PROVE e[2] \in T
    <3>1. e[1] # Root /\ e[1] \in Units
      BY <2>1, <2>2, WayUp
    <3>2. PICK f \in Up(ns) : f[1] = e[1] /\ Root \in Reached(Up(ns), f[2])
      BY <2>2, <3>1, FirstEdge, WayUp
    <3>3. f = e
      BY <3>2, UpShrinks, WayUp DEF Single
    <3>4. f[2] \in Units
      BY WayUp DEF Edges
    <3>5. f[2] \in Reached(Up(ns), x)
      BY <1>2, <2>2, <3>2, <3>4, ReachedOn
    <3> QED BY <3>2, <3>3, <3>5
  <2>3. Reached(Up(rs), x) \subseteq T
    <3> HIDE DEF T
    <3> QED BY <1>2, <2>1, <2>2, ReachedLeast
  <2> QED BY <2>3
<1>6. Reached(Up(ns), x) = Reached(Up(rs), x)
  BY <1>4, <1>5
<1> QED BY ONLY <1>3, <1>6

(* So no grant gives what it did not give. *)
LEMMA GivesLess ==
  ASSUME NEW rs, NEW ns, Sound(rs), Sound(ns), Shrinks(rs, ns), NEW g \in Grants
  PROVE  Gives(ns, g) \subseteq Gives(rs, g)
<1> SUFFICES ASSUME ns[g].state = "active", Rooted(World(ns), ns[g].under),
                    NEW c \in ns[g].scope, c \in Limit(World(ns), ns[g].under)
             PROVE  c \in Gives(rs, g)
  BY DEF Gives, Left
<1>1. g \in Records \ {Root}
  BY Parameters DEF Records
<1>2. rs[g].state = "active" /\ rs[g].under = ns[g].under /\ ns[g].scope \subseteq rs[g].scope
  BY <1>1, StateGroups DEF Shrinks
<1>3. rs[g].under \in Units
  BY <1>1, <1>2, StateGroups DEF Sound, UnitsNamed
<1>4. World(ns).chain[rs[g].under] = World(rs).chain[rs[g].under]
  BY <1>2, <1>3, RootedKept
<1>5. ASSUME NEW x \in World(rs).chain[rs[g].under] \ {Root} PROVE c \in World(rs).scope[x]
  <2>1. PICK y \in Stand(ns, rs[g].under) : x \in Reached(Up(ns), y)
    BY <1>3, <1>4, <1>5, WorldIs
  <2>2. y \in Units /\ ns[y].state = "active"
    BY <1>3, Standing
  <2>3. x \in Units /\ ns[x].state = "active"
    BY <2>1, <2>2, AboveIsActive
  <2>4. ns[x].scope \subseteq rs[x].scope
    BY <2>3, StateGroups DEF Shrinks, Records
  <2>5. c \in ns[x].scope
    BY <1>2, <1>4, <2>3, WorldIs DEF Limit
  <2> QED BY <2>3, <2>4, <2>5, WorldIs
<1>6. c \in Cells
  BY DEF Limit
<1>7. c \in Left(World(rs), rs[g])
  BY <1>2, <1>5, <1>6 DEF Left, Limit
<1> QED BY <1>2, <1>4, <1>7 DEF Gives, Rooted

-----------------------------------------------------------------------------
(* The books *)

\* BooksFollow, of any records and any closures.
Books(rs, cl) ==
  \A s \in Records \ {Root} :
    rs[s].state \in Effective /\ OutOfBooks(World(rs), rs[s]) => s \in Coming(rs, cl \cup Lost(rs, World(rs)))

(* The more closures, the more they come to. *)
LEMMA ComingMore ==
  ASSUME NEW rs, NEW T \in SUBSET Units, NEW S \in SUBSET T
  PROVE  Coming(rs, S) \subseteq Coming(rs, T)
<1>1. \A u \in S : Below(rs, u) \subseteq Coming(rs, T)
  BY ComingOn
<1>2. \A d \in Coming(rs, T) \cap Units : Below(rs, d) \subseteq Coming(rs, T)
  BY ComingOn
<1>3. S \in SUBSET Units
  OBVIOUS
<1> QED BY ONLY <1>1, <1>2, <1>3, ComingLeast

(* A chain is of active units. *)
LEMMA ChainActive ==
  ASSUME NEW rs, Sound(rs), NEW u \in Units
  PROVE  \A v \in World(rs).chain[u] : v \in Units /\ rs[v].state = "active"
<1> SUFFICES ASSUME NEW v \in World(rs).chain[u] PROVE v \in Units /\ rs[v].state = "active"
  OBVIOUS
<1>1. PICK x \in Stand(rs, u) : v \in Reached(Up(rs), x)
  BY WorldIs
<1>2. x \in Units /\ rs[x].state = "active"
  BY Standing
<1> QED BY <1>1, <1>2, AboveIsActive

(* The limit depends on the chain and its scopes alone, *)
LEMMA SameLimit ==
  ASSUME NEW rs, NEW ns, Sound(rs), NEW u \in Units, World(ns).chain[u] = World(rs).chain[u],
         \A x \in World(rs).chain[u] \ {Root} : ns[x].scope = rs[x].scope
  PROVE  Limit(World(ns), u) = Limit(World(rs), u)
<1>1. ASSUME NEW x \in World(rs).chain[u] \ {Root} PROVE World(ns).scope[x] = World(rs).scope[x]
  <2>1. x \in Units
    BY ChainActive
  <2>2. World(ns).scope[x] = ns[x].scope /\ World(rs).scope[x] = rs[x].scope
    BY <2>1, WorldIs
  <2> QED BY <2>2
<1>2. ASSUME NEW c \in Cells PROVE c \in Limit(World(ns), u) <=> c \in Limit(World(rs), u)
  BY <1>1 DEF Limit
<1>3. Limit(World(ns), u) \subseteq Cells /\ Limit(World(rs), u) \subseteq Cells
  BY DEF Limit
<1> QED BY ONLY <1>2, <1>3

(* and a record within the books stays within them while these stay as they are and it does not grow. *)
LEMMA SameBooks ==
  ASSUME NEW rs, NEW ns, Sound(rs), NEW u \in Units, World(ns).chain[u] = World(rs).chain[u],
         \A x \in World(rs).chain[u] \ {Root} : ns[x].scope = rs[x].scope,
         NEW row, NEW nrow, row.under = u, nrow.under = u, nrow.scope \subseteq row.scope,
         nrow.state = "active" => row.state = "active" /\ (row.review => nrow.review), OutOfBooks(World(ns), nrow)
  PROVE  OutOfBooks(World(rs), row)
<1>1. Limit(World(ns), u) = Limit(World(rs), u)
  BY SameLimit
<1>2. Rooted(World(ns), u) <=> Rooted(World(rs), u)
  BY DEF Rooted
<1>3. Covers(World(rs), row) => Covers(World(ns), nrow)
  BY <1>1, <1>2 DEF Covers
<1>4. Computable(World(rs), row) => Computable(World(ns), nrow)
  BY <1>1 DEF Computable, Unlimited
<1> QED BY <1>2, <1>3, <1>4 DEF OutOfBooks

(* What a closure came to before a step that only ends, holds and narrows, one comes to after it: where all that goes   *)
(* has its closure enqueued, and a closure that runs has looked at its own dependents, D.                              *)
LEMMA Follow ==
  ASSUME NEW rs, NEW ns, Sound(rs), Sound(ns), Shrinks(rs, ns), NEW cl \in SUBSET Units, NEW ncl \in SUBSET Units, NEW D,
         \A d \in Units : rs[d].state \in Effective /\ (ns[d].state \notin Effective \/ d \in Off(rs, ns)) => d \in ncl,
         \A u \in cl \ ncl : Below(rs, u) \subseteq D,
         D \cap Units \subseteq ncl,
         NEW s \in Coming(rs, cl \cup Lost(rs, World(rs)) \cup Off(rs, ns)), ns[s].state \in Effective
  PROVE  s \in Coming(ns, ncl \cup Lost(ns, World(ns))) \cup D
<1> DEFINE S == cl \cup Lost(rs, World(rs)) \cup Off(rs, ns)
           N == ncl \cup Lost(ns, World(ns))
           C == Coming(ns, N)
           Gone == {d \in Records : rs[d].state \in Effective /\ ns[d].state \notin Effective}
           B == C \cup D \cup Gone
<1>1. S \in SUBSET Units /\ N \in SUBSET Units /\ Off(rs, ns) \subseteq ncl
  BY StateGroups DEF Lost, Off
<1>2. /\ \A u \in N : Below(ns, u) \subseteq C
      /\ \A d \in C \cap Units : Below(ns, d) \subseteq C
  BY <1>1, ComingOn
<1>3. ASSUME NEW y \in Units, NEW t \in Below(rs, y), t \notin Gone
      PROVE  t \in Below(ns, y) \cup C
  <2>1. /\ t \in Records /\ rs[t].state \in Effective /\ rs[t].under \in Units
        /\ rs[t].under = y \/ (Stand(rs, y) # {} /\ Stand(rs, rs[t].under) = Stand(rs, y))
    BY <1>3, BelowIs
  <2>2. ns[t].state \in Effective /\ ns[t].under = rs[t].under
    BY <1>3, <2>1 DEF Shrinks
  <2>3. CASE rs[t].under = y
    <3>1. t \in Below(ns, y)
      <4> HIDE DEF C, Gone
      <4> QED BY <2>1, <2>2, <2>3, BelowIs
    <3> QED BY <3>1
  <2>4. CASE Stand(rs, y) # {} /\ Stand(rs, rs[t].under) = Stand(rs, y)
    <3> DEFINE v == rs[t].under
    <3>1. PICK z : z \in Stand(rs, y)
      BY <2>4
    <3>2. Stand(rs, y) = {z} /\ Stand(rs, v) = {z} /\ z \in Units /\ rs[z].state = "active"
      <4>1. Stand(rs, y) = {z} /\ z \in Units /\ rs[z].state = "active"
        BY <3>1, Standing
      <4> QED BY <2>4, <4>1
    <3>3. CASE z \notin Off(rs, ns)
      <4>1. Stand(ns, y) = {z} /\ Stand(ns, v) = {z}
        <5>1. Stand(ns, y) = Stand(rs, y) \ Off(rs, ns) /\ Stand(ns, v) = Stand(rs, v) \ Off(rs, ns)
          BY <2>1, StandShrinks
        <5> QED BY <3>2, <3>3, <5>1
      <4>2. t \in Below(ns, y)
        <5>1. ns[t].under = v /\ v \in Units /\ Stand(ns, y) # {} /\ Stand(ns, v) = Stand(ns, y)
          BY <2>1, <2>2, <4>1
        <5> HIDE DEF C, Gone, v
        <5> QED BY <2>1, <2>2, <5>1, BelowIs
      <4> QED BY <4>2
    <3>4. CASE z \in Off(rs, ns)
      <4>1. v \in N
        <5>1. CASE v = z
          BY <1>1, <3>4, <5>1
        <5>2. CASE v # z
          <6>1. rs[v].state = "ended/superseded"
            <7>1. rs[v].state # "ended/superseded" => Stand(rs, v) \subseteq {v}
              BY <2>1, Standing
            <7> QED BY <3>2, <5>2, <7>1
          <6>2. ns[v].state = "ended/superseded"
            BY <2>1, <6>1 DEF Shrinks
          <6>3. Stand(ns, v) = {}
            <7>1. Stand(ns, v) = Stand(rs, v) \ Off(rs, ns)
              BY <2>1, StandShrinks
            <7> QED BY <3>2, <3>4, <7>1
          <6> QED BY <2>1, <6>2, <6>3, WorldIs DEF Lost
        <5> QED BY <5>1, <5>2
      <4>2. t \in Below(ns, v)
        <5>1. ns[t].under = v /\ v \in Units
          BY <2>1, <2>2
        <5> HIDE DEF C, Gone, v
        <5> QED BY <2>1, <2>2, <5>1, BelowIs
      <4> QED BY <1>2, <4>1, <4>2
    <3> QED BY <3>3, <3>4
  <2> QED BY <2>1, <2>3, <2>4
<1>4. ASSUME NEW y \in S PROVE Below(rs, y) \subseteq B
  <2>1. CASE y \in cl \ ncl
    BY <2>1
  <2>2. CASE y \in ncl
    BY <1>2, <1>3, <2>2
  <2>3. CASE y \in Lost(rs, World(rs))
    <3>1. y \in Units /\ rs[y].state = "ended/superseded" /\ Stand(rs, y) = {}
      BY <2>3, WorldIs DEF Lost
    <3>2. ns[y].state = "ended/superseded" /\ Stand(ns, y) = {}
      BY <3>1, StandShrinks DEF Shrinks
    <3>3. y \in N
      BY <3>1, <3>2, WorldIs DEF Lost
    <3> QED BY <1>2, <1>3, <3>1, <3>3
  <2> QED BY <1>1, <1>4, <2>1, <2>2, <2>3
<1>5. ASSUME NEW d \in B \cap Units PROVE Below(rs, d) \subseteq B
  <2>1. CASE d \in C
    BY <1>2, <1>3, <2>1, <1>5
  <2>2. CASE d \in D
    BY <1>2, <1>3, <2>2, <1>5
  <2>3. CASE d \in Gone
    <3>1. d \in ncl
      BY <1>5, <2>3
    <3> QED BY <1>2, <1>3, <1>5, <3>1
  <2> QED BY <1>5, <2>1, <2>2, <2>3
<1>6. Coming(rs, S) \subseteq B
  <2> HIDE DEF S, B
  <2> QED BY <1>1, <1>4, <1>5, ComingLeast
<1> QED BY <1>6

-----------------------------------------------------------------------------
(* Steps at which a unit takes effect or comes back *)

\* From rs to ns the unit r becomes active, as it was saved or held, and what it renews, if anything, is superseded.
Rises(rs, ns, r) ==
  LET p == rs[r].pred
  IN /\ r \in Units \ {Root} /\ rs[r].state \in Pending \cup HeldStates /\ ns[r].state = "active"
     /\ ns[r].under = rs[r].under /\ ns[r].scope = rs[r].scope /\ ns[r].pred = p
     /\ p # None => /\ p \in Units \ {Root, r} /\ ns[p].state = "ended/superseded" /\ ns[p].pred = rs[p].pred
                    /\ rs[p].state = IF rs[r].state \in Pending THEN "active" ELSE "ended/superseded"
     /\ \A x \in Records \ {r, p} : ns[x] = rs[x]

\* Those whose line of renewals comes to r.
Taking(rs, r) == {u \in Units : u = r \/ rs[r].pred \in Reached(Renewals(rs), u)}

(* The line goes on to r. *)
LEMMA LineRises ==
  ASSUME NEW rs, NEW ns, NEW r, Sound(rs), Sound(ns), Rises(rs, ns, r)
  PROVE  Renewals(ns) = Renewals(rs) \cup (IF rs[r].pred = None THEN {} ELSE {<<rs[r].pred, r>>})
<1> DEFINE p == rs[r].pred
<1>0. r \in Units /\ Units \subseteq Records
  BY DEF Rises, Records
<1>1. ASSUME NEW x \in Units \ {r}
      PROVE  /\ ns[x].pred = rs[x].pred
             /\ ns[x].state \in {"active", "ended/superseded"} <=> rs[x].state \in {"active", "ended/superseded"}
  <2>1. CASE x = p
    <3>1. p # None
      BY <1>0, <2>1, Parameters DEF Records
    <3>2. ns[p].pred = rs[p].pred /\ ns[p].state = "ended/superseded" /\ rs[p].state \in {"active", "ended/superseded"}
      BY <3>1 DEF Rises
    <3> QED BY <2>1, <3>2
  <2>2. CASE x # p
    <3>1. ns[x] = rs[x]
      BY <1>0, <2>2 DEF Rises
    <3> QED BY <3>1
  <2> QED BY <2>1, <2>2
<1>2. rs[r].state \notin {"active", "ended/superseded"} /\ ns[r].state = "active" /\ ns[r].pred = p
  BY StateGroups DEF Rises
<1>3. ASSUME NEW e \in Renewals(ns) PROVE e \in Renewals(rs) \/ (p # None /\ e = <<p, r>>)
  <2>1. PICK x \in Units : /\ e = <<ns[x].pred, x>> /\ ns[x].pred # None
                           /\ ns[x].state \in {"active", "ended/superseded"}
    BY <1>3 DEF Renewals
  <2>2. CASE x = r
    BY <1>2, <2>1, <2>2
  <2>3. CASE x # r
    <3>1. e = <<rs[x].pred, x>> /\ rs[x].pred # None /\ rs[x].state \in {"active", "ended/superseded"}
      BY <1>1, <2>1, <2>3
    <3> QED BY <3>1 DEF Renewals
  <2> QED BY <2>2, <2>3
<1>4. ASSUME NEW e \in Renewals(rs) PROVE e \in Renewals(ns)
  <2>1. PICK x \in Units : /\ e = <<rs[x].pred, x>> /\ rs[x].pred # None
                           /\ rs[x].state \in {"active", "ended/superseded"}
    BY <1>4 DEF Renewals
  <2>2. x # r
    BY <1>2, <2>1
  <2>3. e = <<ns[x].pred, x>> /\ ns[x].pred # None /\ ns[x].state \in {"active", "ended/superseded"}
    BY <1>1, <2>1, <2>2
  <2> QED BY <2>3 DEF Renewals
<1>5. p # None => <<p, r>> \in Renewals(ns)
  BY <1>0, <1>2 DEF Renewals
<1>6. ASSUME NEW e
      PROVE  e \in Renewals(ns) <=> e \in Renewals(rs) \cup (IF rs[r].pred = None THEN {} ELSE {<<rs[r].pred, r>>})
  <2>1. CASE p = None
    BY <1>3, <1>4, <2>1
  <2>2. CASE p # None
    BY <1>3, <1>4, <1>5, <2>2
  <2> QED BY <2>1, <2>2
<1> QED BY <1>6

(* What stood for what r renews or for nothing, r stands for; everything else stands as it did. *)
LEMMA StandRises ==
  ASSUME NEW rs, NEW ns, NEW r, Sound(rs), Sound(ns), Rises(rs, ns, r), NEW u \in Units
  PROVE  /\ u \in Taking(rs, r) => Stand(ns, u) = {r} /\ Stand(rs, u) \subseteq {rs[r].pred}
         /\ u \in Taking(rs, r) /\ rs[r].state \in Pending => u = r \/ Stand(rs, u) = {rs[r].pred}
         /\ u \in Taking(rs, r) /\ rs[r].state \in HeldStates => Stand(rs, u) = {}
         /\ u \notin Taking(rs, r) => Stand(ns, u) = Stand(rs, u) /\ {r, rs[r].pred} \cap Stand(rs, u) = {}
<1> DEFINE p == rs[r].pred
<1>0. /\ r \in Units /\ Units \subseteq Records /\ rs[r].state \notin {"active", "ended/superseded"}
      /\ ns[r].state = "active" /\ Edges(Renewals(rs)) /\ Edges(Renewals(ns))
  BY StateGroups, LineOfRenewals DEF Rises, Records
<1>1. \A e \in Renewals(rs) : e[1] # r
  BY <1>0, LineOfRenewals
<1>2. Stand(rs, r) = {} /\ Stand(ns, r) = {r}
  <2>1. Stand(rs, r) \subseteq {r} /\ Stand(rs, r) \subseteq {x \in Units : rs[x].state = "active"}
    BY <1>0, Standing
  <2>2. Stand(ns, r) = {r}
    BY <1>0, Standing
  <2> QED BY <1>0, <2>1, <2>2
<1>3. ASSUME u # r, p \in Reached(Renewals(rs), u) PROVE p \in Units \ {Root, r} /\ p # None /\ <<p, r>> \in Renewals(ns)
  <2>1. p \in Units
    BY <1>3, ReachedStart
  <2>2. p # None
    BY <2>1, Parameters DEF Records
  <2> QED BY <2>1, <2>2, LineRises DEF Rises
<1>4. ASSUME u # r, p \in Reached(Renewals(rs), u) PROVE Stand(ns, u) = {r}
  <2>1. Reached(Renewals(rs), u) \subseteq Reached(Renewals(ns), u)
    <3>1. Renewals(rs) \subseteq Renewals(ns)
      BY LineRises
    <3> QED BY <1>0, <3>1, ReachedGrows
  <2>2. r \in Reached(Renewals(ns), u)
    <3>1. <<p, r>> \in Renewals(ns) /\ <<p, r>>[1] = p /\ <<p, r>>[2] = r
      BY <1>3, <1>4
    <3>2. p \in Reached(Renewals(ns), u)
      BY <1>4, <2>1
    <3> HIDE DEF p
    <3> QED BY <1>0, <3>1, <3>2, ReachedOn
  <2>3. r \in Stand(ns, u)
    BY <1>0, <2>2, Standing
  <2> QED BY <2>3, Standing
<1>5. ASSUME u # r, p \in Reached(Renewals(rs), u), rs[r].state \in Pending PROVE Stand(rs, u) = {p}
  <2>1. rs[p].state = "active"
    BY <1>3, <1>5 DEF Rises
  <2>2. p \in Stand(rs, u)
    BY <1>5, <2>1, Standing
  <2> QED BY <2>2, Standing
<1>6. ASSUME u # r, p \in Reached(Renewals(rs), u), rs[r].state \in HeldStates PROVE Stand(rs, u) = {}
  <2>1. p \in Units /\ rs[p].state = "ended/superseded"
    BY <1>3, <1>6, StateGroups DEF Rises
  <2>2. ASSUME NEW e \in Renewals(rs) PROVE e[1] # p
    <3>1. SUFFICES ASSUME e[1] = p PROVE FALSE
      OBVIOUS
    <3>2. e = <<p, r>>
      <4>1. e \in Renewals(ns) /\ <<p, r>> \in Renewals(ns)
        BY <1>3, <1>6, LineRises
      <4>2. e[1] = <<p, r>>[1]
        BY <3>1
      <4> QED BY ONLY <4>1, <4>2, Sound(ns), LineOfRenewals DEF Single
    <3>3. PICK x \in Units : e = <<rs[x].pred, x>> /\ rs[x].state \in {"active", "ended/superseded"}
      BY <2>2 DEF Renewals
    <3> QED BY <1>0, <3>2, <3>3
  <2>3. ASSUME NEW x \in Stand(rs, u) PROVE FALSE
    <3>1. x \in Reached(Renewals(rs), u) /\ x \in Units /\ rs[x].state = "active"
      BY <2>3, Standing
    <3>2. \A e \in Renewals(rs) : e[1] # x
      BY <3>1, LineOfRenewals
    <3>3. x = p
      <4> HIDE DEF p
      <4> QED BY <1>6, <2>2, <3>1, <3>2, LineOfRenewals, OneEnd
    <3> QED BY <2>1, <3>1, <3>3
  <2> QED BY <2>3
<1>7. ASSUME u # r, p \notin Reached(Renewals(rs), u)
      PROVE  Stand(ns, u) = Stand(rs, u) /\ r \notin Stand(rs, u) /\ p \notin Stand(rs, u)
  <2>1. Reached(Renewals(ns), u) \subseteq Reached(Renewals(rs), u)
    <3>1. ASSUME NEW e \in Renewals(ns), e[1] \in Reached(Renewals(rs), u) PROVE e \in Renewals(rs)
      <4>1. e[1] # p
        BY <1>7, <3>1
      <4>2. e # <<p, r>>
        BY <4>1
      <4> QED BY <3>1, <4>2, LineRises
    <3> QED BY <1>0, <3>1, ReachedGrows
  <2>2. Reached(Renewals(rs), u) \subseteq Reached(Renewals(ns), u)
    <3>1. Renewals(rs) \subseteq Renewals(ns)
      BY LineRises
    <3> QED BY <1>0, <3>1, ReachedGrows
  <2>3. p \notin Stand(rs, u)
    BY <1>7, Standing
  <2>4. r \notin Reached(Renewals(rs), u)
    <3> DEFINE S == Units \ {r}
    <3>1. u \in S /\ S \subseteq Units
      BY <1>7
    <3>2. ASSUME NEW e \in Renewals(rs) PROVE e[2] \in S
      <4>1. PICK x \in Units : e = <<rs[x].pred, x>> /\ rs[x].state \in {"active", "ended/superseded"}
        BY DEF Renewals
      <4> QED BY <1>0, <4>1
    <3>3. Reached(Renewals(rs), u) \subseteq S
      <4> HIDE DEF S
      <4> QED BY <3>1, <3>2, ReachedLeast
    <3> QED BY <3>3
  <2>5. \A x \in Reached(Renewals(rs), u) : x \in Units /\ x # r /\ x # p
    BY <1>7, <2>4, ReachedStart
  <2>6. \A x \in Reached(Renewals(rs), u) : ns[x].state = rs[x].state
    BY <1>0, <2>5 DEF Rises
  <2>7. Stand(ns, u) = Stand(rs, u)
    <3>1. Reached(Renewals(ns), u) = Reached(Renewals(rs), u)
      BY <2>1, <2>2
    <3>2. /\ Stand(rs, u) = {x \in Reached(Renewals(rs), u) : rs[x].state = "active"}
          /\ Stand(ns, u) = {x \in Reached(Renewals(ns), u) : ns[x].state = "active"}
      BY Standing
    <3> QED BY ONLY <2>6, <3>1, <3>2
  <2> QED BY <2>3, <2>4, <2>7, Standing
<1>8. rs[r].state \in Pending \/ rs[r].state \in HeldStates
  BY DEF Rises
<1>9. CASE u = r
  BY <1>2, <1>9 DEF Taking
<1>10. CASE u # r /\ p \in Reached(Renewals(rs), u)
  <2>1. u \in Taking(rs, r)
    BY <1>10 DEF Taking
  <2>2. rs[r].state \notin Pending \/ rs[r].state \notin HeldStates
    BY StateGroups
  <2> QED BY <1>4, <1>5, <1>6, <1>8, <1>10, <2>1, <2>2
<1>11. CASE u # r /\ p \notin Reached(Renewals(rs), u)
  <2>1. u \notin Taking(rs, r)
    BY <1>11 DEF Taking
  <2> QED BY <1>7, <1>11, <2>1
<1> QED BY <1>9, <1>10, <1>11

(* A chain without r is as it was; *)
LEMMA ChainRises ==
  ASSUME NEW rs, NEW ns, NEW r, Sound(rs), Sound(ns), Rises(rs, ns, r), NEW u \in Units, r \notin World(ns).chain[u]
  PROVE  /\ World(ns).chain[u] = World(rs).chain[u]
         /\ \A x \in World(rs).chain[u] : ns[x] = rs[x]
<1> DEFINE p == rs[r].pred
<1>0. r \in Units /\ rs[r].state # "active" /\ ns[r].state = "active"
  BY StateGroups DEF Rises
<1>1. ASSUME NEW v \in Units, r \notin World(ns).chain[v]
      PROVE  v \notin Taking(rs, r) /\ Stand(ns, v) = Stand(rs, v)
  <2>1. SUFFICES ASSUME Stand(ns, v) = {r} PROVE FALSE
    BY <1>1, StandRises
  <2>2. World(ns).chain[v] = Reached(Up(ns), r)
    BY <2>1, ChainIs
  <2> QED BY <1>0, <1>1, <2>2, ReachedStart
<1>2. ASSUME NEW x \in Units, rs[x].state = "active", ns[x].state = "active" PROVE ns[x] = rs[x]
  <2>1. x # r /\ x \in Records
    BY <1>0, <1>2 DEF Records
  <2>2. x # p
    <3>1. SUFFICES ASSUME x = p PROVE FALSE
      OBVIOUS
    <3>2. p # None
      BY <3>1, Parameters DEF Records
    <3>3. ns[p].state = "ended/superseded"
      BY <3>2 DEF Rises
    <3> QED BY <1>2, <3>1, <3>3
  <2> QED BY <2>1, <2>2 DEF Rises
<1>3. ASSUME NEW x \in Units, rs[x].state = "active", rs[x].under # None
      PROVE  rs[x].under \in Units
  <2>1. x # Root /\ x \in Records
    BY <1>3 DEF Sound, RootStays, Records
  <2> QED BY <1>3, <2>1, StateGroups DEF Sound, UnitsNamed
<1>4. CASE Stand(rs, u) = {}
  <2>1. /\ World(rs).chain[u] = UNION {Reached(Up(rs), x) : x \in Stand(rs, u)}
        /\ World(ns).chain[u] = UNION {Reached(Up(ns), x) : x \in Stand(ns, u)}
    BY WorldIs
  <2>2. Stand(ns, u) = {}
    BY <1>1, <1>4
  <2>3. World(rs).chain[u] = {} /\ World(ns).chain[u] = {}
    BY ONLY <2>1, <2>2, <1>4
  <2> QED BY <2>3
<1>5. CASE Stand(rs, u) # {}
  <2>1. PICK x \in Stand(rs, u) : x \in Stand(ns, u)
    BY <1>1, <1>5
  <2>2. /\ x \in Units /\ World(rs).chain[u] = Reached(Up(rs), x) /\ World(ns).chain[u] = Reached(Up(ns), x)
    BY <2>1, Standing, ChainIs
  <2> DEFINE O == Reached(Up(rs), x)
             W == Reached(Up(ns), x)
  <2>3. \A v \in O : v \in Units /\ rs[v].state = "active"
    BY <2>2, ChainActive
  <2>4. \A v \in W : v \in Units /\ ns[v].state = "active" /\ v # r
    BY <2>2, ChainActive
  <2>5. ASSUME NEW a \in O, a \in W PROVE ns[a] = rs[a] /\ (rs[a].under # None => Stand(ns, rs[a].under) = Stand(rs, rs[a].under))
    <3>1. a \in Units /\ rs[a].state = "active" /\ ns[a].state = "active"
      BY <2>3, <2>4, <2>5
    <3>2. ns[a] = rs[a]
      BY <1>2, <3>1
    <3>3. ASSUME rs[a].under # None PROVE Stand(ns, rs[a].under) = Stand(rs, rs[a].under)
      <4>1. rs[a].under \in Units
        BY <1>3, <3>1, <3>3
      <4>2. rs[a].under \notin Taking(rs, r)
        <5>1. SUFFICES ASSUME rs[a].under \in Taking(rs, r) PROVE FALSE
          OBVIOUS
        <5>2. r \in Stand(ns, ns[a].under)
          BY <3>2, <4>1, <5>1, StandRises
        <5>3. <<a, r>> \in Up(ns) /\ <<a, r>>[1] = a /\ <<a, r>>[2] = r
          BY <3>1, <3>2, <3>3, <5>2, WayUp
        <5>4. r \in W
          BY ONLY <5>3, <2>5, <1>0, <2>2, ReachedOn
        <5> QED BY <2>4, <5>4
      <4> QED BY <4>1, <4>2, StandRises
    <3> QED BY <3>2, <3>3
  <2>6. ASSUME NEW a \in O, a \in W, NEW b PROVE <<a, b>> \in Up(rs) <=> <<a, b>> \in Up(ns)
    <3>1. a \in Units /\ rs[a].state = "active" /\ ns[a].state = "active"
      BY <2>3, <2>4, <2>6
    <3>2. ns[a].under = rs[a].under /\ (rs[a].under # None => Stand(ns, rs[a].under) = Stand(rs, rs[a].under))
      BY <2>5, <2>6
    <3>3. <<a, b>> \in Up(rs) <=> rs[a].under # None /\ b \in Stand(rs, rs[a].under)
      BY <3>1, WayUp
    <3>4. <<a, b>> \in Up(ns) <=> ns[a].under # None /\ b \in Stand(ns, ns[a].under)
      BY <3>1, WayUp
    <3> QED BY ONLY <3>2, <3>3, <3>4
  <2>7. O \subseteq W
    <3>1. ASSUME NEW e \in Up(rs), e[1] \in O, e[1] \in W PROVE e \in Up(ns)
      <4>1. PICK a \in Units, b \in Units : e = <<a, b>>
        BY WayUp
      <4> HIDE DEF O, W
      <4>2. a \in O /\ a \in W
        BY <3>1, <4>1
      <4> QED BY <2>6, <4>1, <4>2
    <3>2. Edges(Up(rs))
      BY WayUp
    <3> QED BY ONLY <3>1, <3>2, <2>2, ReachedGrows
  <2>8. W \subseteq O
    <3>1. ASSUME NEW e \in Up(ns), e[1] \in W, e[1] \in O PROVE e \in Up(rs)
      <4>1. PICK a \in Units, b \in Units : e = <<a, b>>
        BY WayUp
      <4> HIDE DEF O, W
      <4>2. a \in O /\ a \in W
        BY <3>1, <4>1
      <4> QED BY <2>6, <4>1, <4>2
    <3>2. Edges(Up(ns))
      BY WayUp
    <3> QED BY ONLY <3>1, <3>2, <2>2, ReachedGrows
  <2>9. O = W
    BY <2>7, <2>8
  <2> HIDE DEF O, W
  <2>10. World(rs).chain[u] = O /\ World(ns).chain[u] = W
    BY <2>2 DEF O, W
  <2> QED BY <2>5, <2>9, <2>10
<1> QED BY <1>4, <1>5

(* one with r in it is come to by the closure that the step enqueued, *)
LEMMA ComesToRisen ==
  ASSUME NEW rs, NEW ns, NEW r, Sound(rs), Sound(ns), Rises(rs, ns, r), NEW ncl \in SUBSET Units,
         rs[r].state \in Pending /\ rs[r].pred # None => rs[r].pred \in ncl,
         rs[r].state \in HeldStates => r \in ncl,
         NEW s \in Records \ {Root}, ns[s].state \in Effective, r \in World(ns).chain[ns[s].under]
  PROVE  s \in Coming(ns, ncl)
<1> DEFINE p == rs[r].pred
<1>0. r \in Units /\ ns[s].under \in Units /\ Stand(ns, r) = {r} /\ Units \subseteq Records
  <2>1. r \in Units /\ r \in Taking(rs, r)
    BY DEF Rises, Taking
  <2>2. Stand(ns, r) = {r}
    BY <2>1, StandRises
  <2>3. ns[s].under \in Units
    BY DEF Sound, UnitsNamed
  <2> QED BY <2>1, <2>2, <2>3 DEF Records
<1>1. CASE rs[r].state \in HeldStates
  BY <1>0, <1>1, ComesDown
<1>2. CASE rs[r].state \in Pending /\ p # None
  <2>1. p \in Units /\ rs[p].state = "active"
    BY <1>2 DEF Rises
  <2>2. p \in Taking(rs, r)
    <3>1. p \in Reached(Renewals(rs), p)
      BY <2>1, ReachedStart
    <3> QED BY <2>1, <3>1 DEF Taking
  <2>3. r \in Stand(ns, p)
    BY <2>1, <2>2, StandRises
  <2> QED BY <1>0, <1>2, <2>3, ComesDown
<1>3. CASE rs[r].state \in Pending /\ p = None
  <2>1. \A u \in Units : u \in Taking(rs, r) => u = r
    <3>1. p \notin Units
      BY <1>3, Parameters DEF Records
    <3>2. \A u \in Units : Reached(Renewals(rs), u) \subseteq Units
      BY ReachedStart
    <3> QED BY <3>1, <3>2 DEF Taking
  <2>2. ASSUME NEW x \in Records \ {Root}, ns[x].state \in Effective PROVE ns[x].under # r
    <3>1. rs[x].state \in Pending \cup Effective /\ ns[x].under = rs[x].under
      <4>1. CASE x = r
        BY <1>3, <4>1 DEF Rises
      <4>2. CASE x # r
        <5>1. x # p
          BY <1>3, Parameters
        <5>2. ns[x] = rs[x]
          BY <4>2, <5>1 DEF Rises
        <5> QED BY <2>2, <5>2
      <4> QED BY <4>1, <4>2
    <3>2. rs[rs[x].under].state \in Effective \cup EndedStates
      BY <3>1 DEF Sound, UnitsNamed
    <3> QED BY <1>3, <3>1, <3>2, StateGroups
  <2>3. PICK x \in Stand(ns, ns[s].under) : r \in Reached(Up(ns), x)
    BY <1>0, WorldIs
  <2>4. ns[s].under # r
    BY <2>2
  <2>5. x # r
    <3>1. ns[s].under \notin Taking(rs, r)
      BY <1>0, <2>1, <2>4
    <3>2. Stand(ns, ns[s].under) = Stand(rs, ns[s].under) /\ r \notin Stand(rs, ns[s].under)
      BY <1>0, <3>1, StandRises
    <3> QED BY <3>2
  <2> DEFINE S == Units \ {r}
  <2>6. x \in S /\ S \subseteq Units
    BY <1>0, <2>5, Standing
  <2>7. ASSUME NEW e \in Up(ns), e[1] \in S PROVE e[2] \in S
    <3>1. PICK a \in Units, b \in Units : e = <<a, b>> /\ ns[a].state = "active"
      BY WayUp
    <3>2. ns[a].under # None /\ b \in Stand(ns, ns[a].under)
      BY <3>1, WayUp
    <3>3. a \in Records \ {Root}
      BY <1>0, <3>2 DEF Sound, RootStays
    <3>4. ns[a].under \in Units /\ ns[a].under # r
      BY <2>2, <3>1, <3>3, StateGroups DEF Sound, UnitsNamed
    <3>5. ns[a].under \notin Taking(rs, r)
      BY <2>1, <3>4
    <3>6. b # r
      BY <3>2, <3>4, <3>5, StandRises
    <3> QED BY <3>1, <3>6
  <2>8. Reached(Up(ns), x) \subseteq S
    <3> HIDE DEF S
    <3> QED BY <2>6, <2>7, ReachedLeast
  <2> QED BY <2>3, <2>8
<1> QED BY <1>1, <1>2, <1>3 DEF Rises

(* and so the books follow a unit that takes effect or comes back, if it is itself within them. *)
LEMMA BooksRise ==
  ASSUME NEW rs, NEW ns, NEW r, Sound(rs), Sound(ns), Rises(rs, ns, r),
         NEW ncl \in SUBSET Units, NEW cl \in SUBSET ncl, Books(rs, cl),
         rs[r].state \in Pending /\ rs[r].pred # None => rs[r].pred \in ncl,
         rs[r].state \in HeldStates => r \in ncl,
         ~OutOfBooks(World(rs), ns[r])
  PROVE  Books(ns, ncl)
<1> DEFINE p == rs[r].pred
           S == cl \cup Lost(rs, World(rs))
           N == ncl \cup Lost(ns, World(ns))
           C == Coming(ns, N)
           B == C \cup {p}
<1> SUFFICES ASSUME NEW s \in Records \ {Root}, ns[s].state \in Effective, OutOfBooks(World(ns), ns[s])
             PROVE  s \in C
  BY DEF Books
<1>0. S \in SUBSET Units /\ N \in SUBSET Units /\ ncl \subseteq N /\ r \in Units
  BY DEF Lost, Rises
<1>1. ns[s].under \in Units
  BY DEF Sound, UnitsNamed
<1>2. CASE r \in World(ns).chain[ns[s].under]
  <2>1. s \in Coming(ns, ncl)
    BY <1>2, ComesToRisen
  <2>2. Coming(ns, ncl) \subseteq C
    <3> HIDE DEF N
    <3> QED BY <1>0, ComingMore
  <2> QED BY <2>1, <2>2
<1>3. CASE r \notin World(ns).chain[ns[s].under]
  <2>1. /\ World(ns).chain[ns[s].under] = World(rs).chain[ns[s].under]
        /\ \A x \in World(rs).chain[ns[s].under] : ns[x] = rs[x]
    BY <1>1, <1>3, ChainRises
  <2>2. OutOfBooks(World(rs), ns[s])
    BY <1>1, <2>1, SameBooks
  <2>3. s # r
    BY <2>2
  <2>4. s # p /\ ns[s] = rs[s]
    <3>1. s # p
      <4>1. SUFFICES ASSUME s = p PROVE FALSE
        OBVIOUS
      <4>2. p # None
        BY <4>1, Parameters
      <4>3. ns[p].state = "ended/superseded"
        BY <4>2 DEF Rises
      <4> QED BY <4>1, <4>3, StateGroups
    <3> QED BY <2>3, <3>1 DEF Rises
  <2>5. s \in Coming(rs, S)
    BY <2>2, <2>4 DEF Books
  <2>6. /\ \A u \in N : Below(ns, u) \subseteq C
        /\ \A d \in C \cap Units : Below(ns, d) \subseteq C
    BY <1>0, ComingOn
  <2>7. ASSUME NEW y \in Units, NEW t \in Below(rs, y), t # p
        PROVE  t \in Below(ns, y) /\ (y \in Taking(rs, r) => t \in Below(ns, r))
    <3>1. /\ t \in Records /\ rs[t].state \in Effective /\ rs[t].under \in Units
          /\ rs[t].under = y \/ (Stand(rs, y) # {} /\ Stand(rs, rs[t].under) = Stand(rs, y))
      BY <2>7, BelowIs
    <3>2. ns[t].state \in Effective /\ ns[t].under = rs[t].under
      <4>1. CASE t = r
        BY <4>1, StateGroups DEF Rises
      <4>2. CASE t # r
        <5>1. ns[t] = rs[t]
          BY <2>7, <3>1, <4>2 DEF Rises
        <5> QED BY <3>1, <5>1
      <4> QED BY <4>1, <4>2
    <3> DEFINE v == rs[t].under
    <3>3. v = y \/ (Stand(ns, y) # {} /\ Stand(ns, v) = Stand(ns, y))
      <4>1. SUFFICES ASSUME Stand(rs, y) # {}, Stand(rs, v) = Stand(rs, y)
                     PROVE  Stand(ns, y) # {} /\ Stand(ns, v) = Stand(ns, y)
        BY <3>1
      <4>2. CASE y \in Taking(rs, r)
        <5>1. Stand(rs, y) = {p} /\ Stand(ns, y) = {r}
          BY <4>1, <4>2, StandRises
        <5>2. v \in Taking(rs, r)
          <6>1. SUFFICES ASSUME v \notin Taking(rs, r) PROVE FALSE
            OBVIOUS
          <6>2. p \notin Stand(rs, v)
            BY <3>1, <6>1, StandRises
          <6> QED BY <4>1, <5>1, <6>2
        <5>3. Stand(ns, v) = {r}
          BY <3>1, <5>2, StandRises
        <5> QED BY <5>1, <5>3
      <4>3. CASE y \notin Taking(rs, r)
        <5>1. Stand(ns, y) = Stand(rs, y) /\ p \notin Stand(rs, y)
          BY <4>3, StandRises
        <5>2. v \notin Taking(rs, r)
          <6>1. SUFFICES ASSUME v \in Taking(rs, r) PROVE FALSE
            OBVIOUS
          <6>2. Stand(rs, v) \subseteq {p}
            BY <3>1, <6>1, StandRises
          <6> QED BY <4>1, <5>1, <6>2
        <5>3. Stand(ns, v) = Stand(rs, v)
          BY <3>1, <5>2, StandRises
        <5> QED BY <4>1, <5>1, <5>3
      <4> QED BY <4>2, <4>3
    <3>4. t \in Below(ns, y)
      <4>1. /\ t \in Records /\ ns[t].state \in Effective /\ ns[t].under \in Units
            /\ ns[t].under = y \/ (Stand(ns, y) # {} /\ Stand(ns, ns[t].under) = Stand(ns, y))
        BY <3>1, <3>2, <3>3
      <4> QED BY ONLY <4>1, Sound(ns), y \in Units, BelowIs
    <3>5. ASSUME y \in Taking(rs, r) PROVE t \in Below(ns, r)
      <4>1. r \in Taking(rs, r)
        BY <1>0 DEF Taking
      <4>2. Stand(ns, y) = {r} /\ Stand(ns, r) = {r}
        BY <1>0, <3>5, <4>1, StandRises
      <4>3. Below(ns, y) = Below(ns, r)
        BY <1>0, <4>2, SameBelow
      <4> QED BY <3>4, <4>3
    <3> QED BY <3>4, <3>5
  <2>8. ASSUME NEW y \in N PROVE Below(rs, y) \subseteq B
    <3>1. y \in Units
      BY <1>0, <2>8
    <3> HIDE DEF N, C
    <3>2. Below(rs, y) \subseteq Below(ns, y) \cup {p}
      BY <2>7, <3>1
    <3> QED BY <2>6, <2>8, <3>2
  <2>9. ASSUME NEW y \in Units, y \in Taking(rs, r), rs[r].state \in HeldStates PROVE Below(rs, y) \subseteq B
    <3>1. r \in N
      BY <1>0, <2>9
    <3> HIDE DEF N, C
    <3>2. Below(rs, y) \subseteq Below(ns, r) \cup {p}
      BY <2>7, <2>9
    <3> QED BY <2>6, <3>1, <3>2
  <2>10. ASSUME NEW y \in S PROVE Below(rs, y) \subseteq B
    <3>1. CASE y \in cl
      BY <1>0, <2>8, <3>1
    <3>2. CASE y \in Lost(rs, World(rs))
      <4>1. y \in Units /\ rs[y].state = "ended/superseded" /\ Stand(rs, y) = {}
        BY <3>2, WorldIs DEF Lost
      <4>2. CASE y \in Taking(rs, r)
        <5>1. y # r
          BY <4>1, StateGroups DEF Rises
        <5>2. rs[r].state \notin Pending
          BY <4>1, <4>2, <5>1, StandRises
        <5> QED BY <2>9, <4>1, <4>2, <5>2 DEF Rises
      <4>3. CASE y \notin Taking(rs, r)
        <5>1. Stand(ns, y) = {}
          BY <4>1, <4>3, StandRises
        <5>2. ns[y].state = "ended/superseded"
          <6>1. y # r
            BY <4>1, StateGroups DEF Rises
          <6>2. CASE y = p
            <7>1. p # None
              BY <4>1, <6>2, Parameters DEF Records
            <7> QED BY <6>2, <7>1 DEF Rises
          <6>3. CASE y # p
            <7>1. ns[y] = rs[y]
              BY <4>1, <6>1, <6>3 DEF Rises, Records
            <7> QED BY <4>1, <7>1
          <6> QED BY <6>2, <6>3
        <5>3. y \in N
          BY <4>1, <5>1, <5>2, WorldIs DEF Lost
        <5> QED BY <2>8, <5>3
      <4> QED BY <4>2, <4>3
    <3> QED BY <2>10, <3>1, <3>2
  <2>11. ASSUME NEW d \in B \cap Units PROVE Below(rs, d) \subseteq B
    <3>1. CASE d \in C
      <4>1. Below(rs, d) \subseteq Below(ns, d) \cup {p}
        BY <2>7, <2>11
      <4> QED BY <2>6, <2>11, <3>1, <4>1
    <3>2. CASE d = p
      <4>1. p # None
        BY <2>11, <3>2, Parameters DEF Records
      <4>2. CASE rs[r].state \in Pending
        BY <1>0, <2>8, <3>2, <4>1, <4>2
      <4>3. CASE rs[r].state \in HeldStates
        <5>1. d \in Reached(Renewals(rs), d)
          BY <2>11, ReachedStart
        <5>2. d \in Taking(rs, r)
          BY <2>11, <3>2, <5>1 DEF Taking
        <5> QED BY <2>9, <2>11, <4>3, <5>2
      <4> QED BY <4>2, <4>3 DEF Rises
    <3> QED BY <2>11, <3>1, <3>2
  <2>12. Coming(rs, S) \subseteq B
    <3> HIDE DEF S, B
    <3> QED BY <1>0, <2>10, <2>11, ComingLeast
  <2> QED BY <2>4, <2>5, <2>12
<1> QED BY <1>2, <1>3

-----------------------------------------------------------------------------
(* Steps that settle one record: what is saved, ends, is narrowed or stays *)

(* What Moved leaves of a row. *)
LEMMA MovedIs ==
  ASSUME NEW row \in Rows, NEW to \in States
  PROVE  /\ Moved(row, to) \in Rows /\ Moved(row, to).state = to /\ ~Moved(row, to).restore
         /\ to \notin EndedStates => /\ Moved(row, to).under = row.under /\ Moved(row, to).scope = row.scope
                                     /\ Moved(row, to).pred = row.pred /\ Moved(row, to).review = row.review
                                     /\ Moved(row, to).depth = row.depth
         /\ to \in EndedStates => Moved(row, to).pred = IF to = "ended/superseded" THEN row.pred ELSE None
<1>1. CASE to \in EndedStates
  BY <1>1 DEF Moved, Unwritten, Rows
<1>2. CASE to \notin EndedStates
  BY <1>2 DEF Moved, Rows
<1> QED BY <1>1, <1>2

(* The tree keeps its shape when no unit starts to renew another. *)
LEMMA SoundKept ==
  ASSUME NEW rs, NEW ns, Sound(rs), ns \in [Records -> Rows], RootStays(ns),
         \A r \in Records \ {Root} : ns[r].state \in Pending \cup Effective =>
           ns[r].under \in Units /\ rs[ns[r].under].state \in Effective \cup EndedStates,
         \A u \in Units : rs[u].state \in Effective \cup EndedStates => ns[u].state \in Effective \cup EndedStates,
         \A x \in Units : ns[x].state \in Taken /\ ns[x].pred # None =>
           rs[x].state \in Taken /\ rs[x].pred = ns[x].pred,
         \A u \in Units : rs[u].state = "ended/superseded" => ns[u].state = "ended/superseded",
         \A x \in Units : ns[x].state \in Pending => ns[x].pred # Root
  PROVE  Sound(ns)
<1>1. UnitsNamed(ns)
  BY DEF UnitsNamed
<1>2. RenewedOnce(ns)
  <2> SUFFICES ASSUME NEW x \in Units, ns[x].state \in Taken, ns[x].pred # None
               PROVE  /\ ns[x].pred \in Units /\ ns[ns[x].pred].state = "ended/superseded"
                      /\ \A y \in Units : ns[y].state \in Taken /\ ns[y].pred = ns[x].pred => y = x
    BY DEF RenewedOnce
  <2>1. rs[x].state \in Taken /\ rs[x].pred = ns[x].pred
    OBVIOUS
  <2>2. ns[x].pred \in Units /\ rs[ns[x].pred].state = "ended/superseded"
    BY <2>1 DEF Sound, RenewedOnce
  <2>3. ASSUME NEW y \in Units, ns[y].state \in Taken, ns[y].pred = ns[x].pred PROVE y = x
    <3>1. rs[y].state \in Taken /\ rs[y].pred = rs[x].pred /\ rs[x].pred # None
      BY <2>1, <2>3
    <3> QED BY <2>1, <3>1 DEF Sound, RenewedOnce
  <2> QED BY <2>2, <2>3
<1>3. RootNotRenewed(ns)
  BY DEF RootNotRenewed
<1> QED BY <1>1, <1>2, <1>3 DEF Sound

\* The record r, not superseded, becomes row: it ends, or is saved anew, or stays as it is with no more in its scope.
Settles(rs, r, row) ==
  /\ r \in Records \ {Root} /\ row \in Rows
  /\ rs[r].state # "ended/superseded" /\ row.state # "ended/superseded"
  /\ \/ row.state \in EndedStates /\ row.pred = None
     \/ /\ rs[r].state = "none" /\ row.state \in Pending /\ row.under \in Units
        /\ rs[row.under].state \in Effective \cup EndedStates /\ (r \in Units => row.pred # Root)
     \/ /\ rs[r].state = row.state /\ row.state \in Effective /\ row.under = rs[r].under /\ row.pred = rs[r].pred
        /\ row.scope \subseteq rs[r].scope /\ row.review = rs[r].review

(* Then the tree keeps its shape, and the step is one at which nothing rises. *)
LEMMA SettlesSound ==
  ASSUME NEW rs, Sound(rs), NEW r, NEW row, Settles(rs, r, row)
  PROVE  Sound([rs EXCEPT ![r] = row]) /\ Shrinks(rs, [rs EXCEPT ![r] = row])
<1> DEFINE ns == [rs EXCEPT ![r] = row]
<1>1. ns \in [Records -> Rows] /\ ns[r] = row /\ r \in Records \ {Root} /\ \A x \in Records \ {r} : ns[x] = rs[x]
  BY DEF Settles, Sound
<1> HIDE DEF ns
<1>2. RootStays(ns)
  <2>1. Root \in Records /\ Root # r
    BY <1>1, Parameters DEF Records
  <2> QED BY <1>1, <2>1 DEF Sound, RootStays
<1>3. ASSUME NEW x \in Records \ {Root}, ns[x].state \in Pending \cup Effective
      PROVE  ns[x].under \in Units /\ rs[ns[x].under].state \in Effective \cup EndedStates
  <2>1. CASE x # r
    BY <1>1, <1>3, <2>1 DEF Sound, UnitsNamed
  <2>2. CASE x = r
    <3>1. row.state \notin EndedStates
      BY <1>1, <1>3, <2>2, StateGroups
    <3>2. CASE rs[r].state = "none"
      BY <1>1, <2>2, <3>1, <3>2, StateGroups DEF Settles
    <3>3. CASE rs[r].state # "none"
      <4>1. rs[r].state \in Effective /\ row.under = rs[r].under
        BY <1>1, <2>2, <3>1, <3>3, StateGroups DEF Settles
      <4> QED BY <1>1, <2>2, <4>1 DEF Sound, UnitsNamed
    <3> QED BY <3>2, <3>3
  <2> QED BY <2>1, <2>2
<1>4. rs[r].state \in Effective \cup EndedStates => row.state \in Effective \cup EndedStates
  BY StateGroups DEF Settles
<1>5. row.state \in Taken => /\ rs[r].state = row.state /\ row.state \in Effective
                             /\ row.under = rs[r].under /\ row.pred = rs[r].pred /\ row.scope \subseteq rs[r].scope
  <2>1. row.state \in Taken => row.state \in Effective
    BY DEF Settles, Taken
  <2> QED BY <2>1, StateGroups DEF Settles
<1>6. row.state \in Pending /\ r \in Units => row.pred # Root
  BY StateGroups DEF Settles
<1>7. Sound(ns)
  <2>1. \A u \in Units : rs[u].state \in Effective \cup EndedStates => ns[u].state \in Effective \cup EndedStates
    BY <1>1, <1>4 DEF Records
  <2>2. \A x \in Units : ns[x].state \in Taken /\ ns[x].pred # None => rs[x].state \in Taken /\ rs[x].pred = ns[x].pred
    BY <1>1, <1>5 DEF Records
  <2>3. \A u \in Units : rs[u].state = "ended/superseded" => ns[u].state = "ended/superseded"
    BY <1>1 DEF Records, Settles
  <2>4. \A x \in Units : ns[x].state \in Pending => ns[x].pred # Root
    BY <1>1, <1>6 DEF Records, Sound, RootNotRenewed
  <2> QED BY <1>1, <1>2, <1>3, <2>1, <2>2, <2>3, <2>4, SoundKept
<1>8. Shrinks(rs, ns)
  <2>1. ASSUME NEW x \in Records
        PROVE  /\ ns[x].state \in Effective =>
                    rs[x].state \in Effective /\ ns[x].under = rs[x].under /\ ns[x].scope \subseteq rs[x].scope
               /\ ns[x].state = "active" => rs[x].state = "active"
               /\ ns[x].state = "ended/superseded" <=> rs[x].state = "ended/superseded"
               /\ ns[x].state \in {"active", "ended/superseded"} => ns[x].pred = rs[x].pred
    <3>1. CASE x = r
      <4>1. row.state # "ended/superseded" /\ rs[r].state # "ended/superseded"
        BY DEF Settles
      <4> QED BY <1>1, <1>5, <3>1, <4>1, StateGroups
    <3>2. CASE x # r
      BY <1>1, <3>2
    <3> QED BY <3>1, <3>2
  <2>2. Units \subseteq Records
    BY DEF Records
  <2> QED BY <2>1, <2>2 DEF Shrinks
<1> QED BY <1>7, <1>8 DEF ns

(* The books follow a step at which nothing rises, when what a running closure has looked at, D, is within them, and    *)
(* what is out of them for another reason than a unit that goes was so before.                                          *)
LEMMA BooksShrink ==
  ASSUME NEW rs, NEW ns, Sound(rs), Sound(ns), Shrinks(rs, ns), NEW cl \in SUBSET Units, NEW ncl \in SUBSET Units,
         Books(rs, cl), NEW D,
         \A d \in Units : rs[d].state \in Effective /\ (ns[d].state \notin Effective \/ d \in Off(rs, ns)) => d \in ncl,
         \A u \in cl \ ncl : Below(rs, u) \subseteq D,
         D \cap Units \subseteq ncl,
         \A s \in D : ns[s].state \in Effective => ~OutOfBooks(World(ns), ns[s]),
         \A s \in Records \ {Root} :
           /\ s \notin D /\ ns[s].state \in Effective /\ OutOfBooks(World(ns), ns[s])
           /\ World(ns).chain[ns[s].under] = World(rs).chain[ns[s].under]
           => OutOfBooks(World(rs), rs[s]) \/ s \in Coming(ns, ncl)
  PROVE  Books(ns, ncl)
<1> DEFINE S == cl \cup Lost(rs, World(rs)) \cup Off(rs, ns)
           N == ncl \cup Lost(ns, World(ns))
<1> SUFFICES ASSUME NEW s \in Records \ {Root}, ns[s].state \in Effective, OutOfBooks(World(ns), ns[s])
             PROVE  s \in Coming(ns, N)
  BY DEF Books
<1>0. S \in SUBSET Units /\ N \in SUBSET Units /\ ncl \in SUBSET N /\ (cl \cup Lost(rs, World(rs))) \in SUBSET S
  BY DEF Lost, Off
<1>1. rs[s].state \in Effective /\ ns[s].under = rs[s].under /\ rs[s].under \in Units /\ s \notin D
  BY DEF Shrinks, Sound, UnitsNamed
<1>2. SUFFICES ASSUME s \notin Coming(ns, ncl) PROVE s \in Coming(rs, S)
  <2>1. CASE s \in Coming(ns, ncl)
    <3>1. Coming(ns, ncl) \subseteq Coming(ns, N)
      <4> HIDE DEF N, S
      <4> QED BY <1>0, ComingMore
    <3> QED BY <2>1, <3>1
  <2>2. CASE s \notin Coming(ns, ncl)
    <3>1. s \in Coming(rs, S)
      BY <1>2, <2>2
    <3>2. s \in Coming(ns, N) \cup D
      BY <3>1, Follow
    <3> QED BY <1>1, <3>2
  <2> QED BY <2>1, <2>2
<1>3. CASE World(rs).chain[rs[s].under] \cap Off(rs, ns) = {}
  <2>1. World(ns).chain[ns[s].under] = World(rs).chain[ns[s].under]
    BY <1>1, <1>3, ChainKept
  <2>2. OutOfBooks(World(rs), rs[s])
    BY <1>1, <1>2, <2>1
  <2>3. s \in Coming(rs, cl \cup Lost(rs, World(rs)))
    BY <1>1, <2>2 DEF Books
  <2>4. Coming(rs, cl \cup Lost(rs, World(rs))) \subseteq Coming(rs, S)
    <3> HIDE DEF S, N
    <3> QED BY <1>0, ComingMore
  <2> QED BY <2>3, <2>4
<1>4. CASE World(rs).chain[rs[s].under] \cap Off(rs, ns) # {}
  <2>1. PICK v \in Off(rs, ns) : v \in World(rs).chain[rs[s].under]
    BY <1>4
  <2>2. v \in S /\ v \in Units
    BY <2>1 DEF Off
  <2> HIDE DEF S, N
  <2>3. s \in Records /\ rs[s].state \in Effective /\ rs[s].under \in Units /\ v \in World(rs).chain[rs[s].under]
    BY <1>1, <2>1
  <2> QED BY ONLY <1>0, <2>2, <2>3, Sound(rs), ComesDown
<1> QED BY <1>3, <1>4

(* So they follow one that settles a record, if a unit's closure is enqueued when the unit goes or gives less. *)
LEMMA SettlesBooks ==
  ASSUME NEW rs, Sound(rs), NEW r, NEW row, Settles(rs, r, row), NEW ncl \in SUBSET Units, NEW cl \in SUBSET ncl,
         Books(rs, cl),
         r \in Units /\ rs[r].state \in Effective /\ (row.state \notin Effective \/ row.scope # rs[r].scope) => r \in ncl
  PROVE  Books([rs EXCEPT ![r] = row], ncl)
<1> DEFINE ns == [rs EXCEPT ![r] = row]
<1>1. Sound(ns) /\ Shrinks(rs, ns)
  BY SettlesSound
<1>2. ns[r] = row /\ r \in Records \ {Root} /\ \A x \in Records \ {r} : ns[x] = rs[x]
  BY DEF Settles, Sound
<1> HIDE DEF ns
<1>3. ASSUME NEW d \in Units, rs[d].state \in Effective, ns[d].state \notin Effective \/ d \in Off(rs, ns) PROVE d \in ncl
  <2>1. CASE d = r
    <3>1. row.state \notin Effective
      <4>1. row.state # rs[r].state \/ row.state \notin Effective
        BY <1>2, <1>3, <2>1 DEF Off
      <4> QED BY <1>3, <2>1, <4>1, StateGroups DEF Settles
    <3> QED BY <1>3, <2>1, <3>1
  <2>2. CASE d # r
    <3>1. ns[d] = rs[d]
      BY <1>2, <2>2 DEF Records
    <3> QED BY <1>3, <3>1 DEF Off
  <2> QED BY <2>1, <2>2
<1>4. ASSUME NEW s \in Records \ {Root}, ns[s].state \in Effective, OutOfBooks(World(ns), ns[s]),
             World(ns).chain[ns[s].under] = World(rs).chain[ns[s].under]
      PROVE  OutOfBooks(World(rs), rs[s]) \/ s \in Coming(ns, ncl)
  <2>1. /\ rs[s].state \in Effective /\ ns[s].under = rs[s].under /\ rs[s].under \in Units
        /\ ns[s].scope \subseteq rs[s].scope /\ (ns[s].state = "active" => rs[s].state = "active")
    BY <1>1, <1>4 DEF Shrinks, Sound, UnitsNamed
  <2>2. ns[s].review = rs[s].review
    <3>1. CASE s = r
      BY <1>2, <1>4, <2>1, <3>1, StateGroups DEF Settles
    <3>2. CASE s # r
      BY <1>2, <3>2
    <3> QED BY <3>1, <3>2
  <2>3. CASE r \in World(rs).chain[rs[s].under] /\ row.scope # rs[r].scope
    <3>1. r \in Units /\ rs[r].state = "active"
      BY <2>1, <2>3, ChainActive
    <3>2. r \in ncl
      BY <2>3, <3>1, StateGroups
    <3> QED BY <1>1, <1>4, <2>1, <2>3, <3>1, <3>2, ComesDown
  <2>4. CASE ~(r \in World(rs).chain[rs[s].under] /\ row.scope # rs[r].scope)
    <3>1. \A x \in World(rs).chain[rs[s].under] \ {Root} : ns[x].scope = rs[x].scope
      <4>1. \A x \in World(rs).chain[rs[s].under] : x \in Records
        BY <2>1, ChainActive DEF Records
      <4> QED BY <1>2, <2>4, <4>1
    <3> QED BY <1>4, <2>1, <2>2, <3>1, SameBooks
  <2> QED BY <2>3, <2>4
<1>5. Books(ns, ncl)
  <2>1. \A s \in {} : ns[s].state \in Effective => ~OutOfBooks(World(ns), ns[s])
    OBVIOUS
  <2>2. \A u \in cl \ ncl : Below(rs, u) \subseteq {}
    OBVIOUS
  <2>3. {} \cap Units \subseteq ncl /\ cl \in SUBSET Units
    OBVIOUS
  <2>4. \A s \in Records \ {Root} :
           /\ s \notin {} /\ ns[s].state \in Effective /\ OutOfBooks(World(ns), ns[s])
           /\ World(ns).chain[ns[s].under] = World(rs).chain[ns[s].under]
           => OutOfBooks(World(rs), rs[s]) \/ s \in Coming(ns, ncl)
    BY <1>4
  <2>5. \A d \in Units : rs[d].state \in Effective /\ (ns[d].state \notin Effective \/ d \in Off(rs, ns)) => d \in ncl
    BY <1>3
  <2> QED BY ONLY <1>1, <2>1, <2>2, <2>3, <2>4, <2>5, Sound(rs), ncl \in SUBSET Units, Books(rs, cl), BooksShrink
<1> QED BY <1>5 DEF ns

-----------------------------------------------------------------------------
(* A closure's step *)

(* What the books make of a record in effect or held: ended, or left in effect or held where its unit's limit puts it.  *)
LEMMA BookedIs ==
  ASSUME NEW w, NEW row \in Rows, row.state \in Effective, row.restore => row.state \in HeldStates
  PROVE  LET nrow == Booked(w, row)
         IN /\ nrow \in Rows /\ (nrow.restore => nrow.state \in HeldStates)
            /\ \/ nrow.state \in EndedStates /\ nrow.state # "ended/superseded" /\ nrow.pred = None
               \/ /\ nrow.state \in Effective /\ nrow.under = row.under /\ nrow.scope = row.scope /\ nrow.pred = row.pred
                  /\ nrow.state = "active" => row.state = "active" /\ nrow.review = ~Covers(w, row) /\ Computable(w, row)
                  /\ Rooted(w, row.under)
<1> DEFINE put == Assessed(w, row)
           nrow == Booked(w, row)
           Done == /\ nrow \in Rows /\ (nrow.restore => nrow.state \in HeldStates)
                   /\ \/ nrow.state \in EndedStates /\ nrow.state # "ended/superseded" /\ nrow.pred = None
                      \/ /\ nrow.state \in Effective /\ nrow.under = row.under /\ nrow.scope = row.scope /\ nrow.pred = row.pred
                         /\ nrow.state = "active" => row.state = "active" /\ nrow.review = ~Covers(w, row) /\ Computable(w, row)
                         /\ Rooted(w, row.under)
<1>0. /\ "ended/source_ended" \in EndedStates /\ "ended/source_narrowed" \in EndedStates
      /\ "held/uncomputable" \in HeldStates /\ "held/uncomputable" \in States /\ "held/uncomputable" \notin EndedStates
      /\ "held/uncomputable" \in Effective /\ EndedStates \subseteq States
  BY DEF EndedStates, Endings, PendingEndings, HeldStates, States, Effective, Pending
<1>1. /\ put \in {"ended/source_ended", "ended/source_narrowed", "held/uncomputable", "active", row.state}
      /\ put \notin EndedStates => Rooted(w, row.under)
      /\ put \in {"active", row.state} => put \in EndedStates \/ put = "held/uncomputable" \/ Computable(w, row)
  <2>1. CASE ~Rooted(w, row.under)
    BY <2>1, <1>0 DEF Assessed
  <2>2. CASE Rooted(w, row.under) /\ Unlimited(w, row.under)
    BY <2>2 DEF Assessed, Computable
  <2>3. CASE Rooted(w, row.under) /\ ~Unlimited(w, row.under) /\ ~Computable(w, row)
    BY <2>3 DEF Assessed
  <2>4. CASE Rooted(w, row.under) /\ ~Unlimited(w, row.under) /\ Computable(w, row)
    BY <2>4 DEF Assessed
  <2> QED BY <2>1, <2>2, <2>3, <2>4
<1>2. row.state \notin EndedStates /\ (row.state = "active" \/ row.state \in HeldStates) /\ "active" \notin HeldStates
  BY StateGroups
<1> HIDE DEF put
<1>3. nrow = IF row.state \in HeldStates /\ put = "held/uncomputable" THEN row
             ELSE IF row.state \in HeldStates /\ put \in {"active", row.state} THEN [row EXCEPT !.restore = TRUE]
             ELSE IF put # row.state THEN Moved(row, put)
             ELSE [row EXCEPT !.review = ~Covers(w, row)]
  BY DEF Booked, put
<1>4. CASE row.state \in HeldStates /\ put = "held/uncomputable"
  <2>1. nrow = row /\ Rooted(w, row.under)
    BY <1>0, <1>1, <1>3, <1>4, StateGroups
  <2> QED BY <1>2, <1>4, <2>1
<1>5. CASE row.state \in HeldStates /\ put # "held/uncomputable" /\ put \in {"active", row.state}
  <2>1. nrow = [row EXCEPT !.restore = TRUE]
    BY <1>3, <1>5
  <2>2. Rooted(w, row.under)
    BY <1>1, <1>2, <1>5, StateGroups
  <2>3. /\ nrow \in Rows /\ nrow.state = row.state /\ nrow.under = row.under /\ nrow.scope = row.scope
        /\ nrow.pred = row.pred
    BY <2>1 DEF Rows
  <2> QED BY <1>2, <1>5, <2>2, <2>3
<1>6. CASE ~(row.state \in HeldStates /\ put \in {"held/uncomputable", "active", row.state}) /\ put # row.state
  <2>1. nrow = Moved(row, put)
    BY <1>3, <1>6
  <2>2. CASE put \in EndedStates
    <3>1. put # "ended/superseded" /\ put \in States
      BY <1>0, <1>1, <1>2, <2>2, StateGroups
    <3>2. nrow \in Rows /\ nrow.state = put /\ ~nrow.restore /\ nrow.pred = None
      BY <2>1, <2>2, <3>1, MovedIs
    <3> QED BY <2>2, <3>1, <3>2
  <2>3. CASE put \notin EndedStates
    <3>1. put = "held/uncomputable" /\ Rooted(w, row.under)
      BY <1>0, <1>1, <1>2, <1>6, <2>3
    <3>2. /\ nrow \in Rows /\ nrow.state = put /\ ~nrow.restore
          /\ nrow.under = row.under /\ nrow.scope = row.scope /\ nrow.pred = row.pred
      BY <1>0, <2>1, <2>3, <3>1, MovedIs
    <3> QED BY <1>0, <1>2, <3>1, <3>2
  <2> QED BY <2>2, <2>3
<1>7. CASE row.state \notin HeldStates /\ put = row.state
  <2>1. nrow = [row EXCEPT !.review = ~Covers(w, row)]
    BY <1>3, <1>7
  <2>2. (~Covers(w, row)) \in BOOLEAN
    BY DEF Covers, Rooted
  <2>3. /\ nrow \in Rows /\ nrow.state = row.state /\ nrow.under = row.under /\ nrow.scope = row.scope
        /\ nrow.pred = row.pred /\ nrow.review = ~Covers(w, row) /\ nrow.restore = row.restore
    BY <2>1, <2>2 DEF Rows
  <2>4. Rooted(w, row.under) /\ Computable(w, row)
    BY <1>0, <1>1, <1>2, <1>7
  <2> QED BY <1>2, <1>7, <2>3, <2>4
<1>8. Done
  BY <1>4, <1>5, <1>6, <1>7
<1> QED BY <1>8

\* What the closure of u makes of the records.
Closed(rs, u) == [r \in Records |-> IF r \in Below(rs, u) THEN Booked(World(rs), rs[r]) ELSE rs[r]]

(* It keeps the tree's shape, nothing rises, and what it changes is below u. *)
LEMMA ClosedSound ==
  ASSUME NEW rs, Sound(rs), \A r \in Records : rs[r].restore => rs[r].state \in HeldStates, NEW u \in Units
  PROVE  /\ Sound(Closed(rs, u)) /\ Shrinks(rs, Closed(rs, u))
         /\ \A r \in Records : Closed(rs, u)[r].restore => Closed(rs, u)[r].state \in HeldStates
         /\ \A r \in Records \ Below(rs, u) : Closed(rs, u)[r] = rs[r]
         /\ \A r \in Below(rs, u) : Closed(rs, u)[r] = Booked(World(rs), rs[r])
<1> DEFINE ns == Closed(rs, u)
           D == Below(rs, u)
<1>1. /\ DOMAIN ns = Records /\ \A r \in Records \ D : ns[r] = rs[r]
      /\ \A r \in D : r \in Records /\ ns[r] = Booked(World(rs), rs[r])
      /\ \A r \in D : rs[r].state \in Effective /\ rs[r].under \in Units
      /\ ns = [r \in Records |-> ns[r]]
  BY BelowIs DEF Closed
<1>2. \A r \in Records : rs[r] \in Rows
  BY DEF Sound
<1> HIDE DEF ns, D
<1>3. ASSUME NEW r \in D
      PROVE  /\ ns[r] \in Rows /\ (ns[r].restore => ns[r].state \in HeldStates)
             /\ rs[r].state \in Effective /\ rs[r].under \in Units
             /\ \/ ns[r].state \in EndedStates /\ ns[r].state # "ended/superseded" /\ ns[r].pred = None
                \/ /\ ns[r].state \in Effective /\ ns[r].under = rs[r].under /\ ns[r].scope = rs[r].scope
                   /\ ns[r].pred = rs[r].pred /\ (ns[r].state = "active" => rs[r].state = "active")
  <2>1. r \in Records /\ rs[r] \in Rows /\ rs[r].state \in Effective /\ (rs[r].restore => rs[r].state \in HeldStates)
    BY <1>1, <1>2
  <2> QED BY <1>1, <2>1, BookedIs
<1>4. ASSUME NEW r \in Records
      PROVE  /\ ns[r] \in Rows
             /\ rs[r].restore => rs[r].state \in HeldStates
             /\ ns[r].restore => ns[r].state \in HeldStates
             /\ ns[r].state = "active" => rs[r].state = "active"
             /\ ns[r].state = "ended/superseded" <=> rs[r].state = "ended/superseded"
             /\ ns[r].state \in Taken => ns[r].pred = rs[r].pred /\ rs[r].state \in Taken
             /\ ns[r].state \in Effective => rs[r].state \in Effective /\ ns[r].under = rs[r].under /\ ns[r].scope = rs[r].scope
             /\ rs[r].state \in Effective \cup EndedStates => ns[r].state \in Effective \cup EndedStates
             /\ ns[r].state \in Pending => ns[r] = rs[r]
  <2>1. CASE r \in D
    BY <1>3, <2>1, StateGroups DEF Taken
  <2>2. CASE r \notin D
    BY <1>1, <1>2, <2>2
  <2> QED BY <2>1, <2>2
<1>5. Root \notin D /\ Root \in Records /\ Units \subseteq Records
  <2>1. rs[Root].under \notin Units
    BY Parameters DEF Sound, RootStays, Records
  <2> QED BY <1>1, <2>1, Parameters DEF Records
<1>6. Sound(ns)
  <2>1. ns \in [Records -> Rows]
    BY <1>1, <1>4
  <2>2. RootStays(ns)
    BY <1>1, <1>5 DEF Sound, RootStays
  <2>3. ASSUME NEW r \in Records \ {Root}, ns[r].state \in Pending \cup Effective
        PROVE  ns[r].under \in Units /\ rs[ns[r].under].state \in Effective \cup EndedStates
    <3>1. rs[r].state \in Pending \cup Effective /\ ns[r].under = rs[r].under
      BY <1>4, <2>3
    <3> QED BY <3>1 DEF Sound, UnitsNamed
  <2>4. \A x \in Units : ns[x].state \in Pending => ns[x].pred # Root
    BY <1>4, <1>5 DEF Sound, RootNotRenewed
  <2>5. /\ \A v \in Units : rs[v].state \in Effective \cup EndedStates => ns[v].state \in Effective \cup EndedStates
        /\ \A x \in Units : ns[x].state \in Taken /\ ns[x].pred # None => rs[x].state \in Taken /\ rs[x].pred = ns[x].pred
        /\ \A v \in Units : rs[v].state = "ended/superseded" => ns[v].state = "ended/superseded"
    BY <1>4, <1>5
  <2> QED BY ONLY Sound(rs), <2>1, <2>2, <2>3, <2>4, <2>5, SoundKept
<1>7. Shrinks(rs, ns)
  <2>1. \A r \in Records : ns[r].state \in {"active", "ended/superseded"} => ns[r].pred = rs[r].pred
    BY <1>4, StateGroups
  <2> QED BY <1>4, <1>5, <2>1 DEF Shrinks
<1>8. \A r \in Records : ns[r].restore => ns[r].state \in HeldStates
  BY <1>4
<1> QED BY <1>1, <1>6, <1>7, <1>8 DEF ns, D

(* None of what is below a unit is above it, as long as that leads to the root. *)
LEMMA NoneBelowAbove ==
  ASSUME NEW rs, Sound(rs), NEW u \in Units, NEW s \in Below(rs, u), Rooted(World(rs), rs[s].under),
         NEW v \in Below(rs, u) \cap Units, rs[v].state = "active"
  PROVE  v \notin World(rs).chain[rs[s].under]
<1> SUFFICES ASSUME v \in World(rs).chain[rs[s].under] PROVE FALSE
  OBVIOUS
<1>1. /\ rs[s].under \in Units /\ (rs[s].under = u \/ (Stand(rs, u) # {} /\ Stand(rs, rs[s].under) = Stand(rs, u)))
      /\ rs[v].under \in Units /\ (rs[v].under = u \/ (Stand(rs, u) # {} /\ Stand(rs, rs[v].under) = Stand(rs, u)))
  BY BelowIs
<1>2. PICK y \in Stand(rs, rs[s].under) : v \in Reached(Up(rs), y)
  BY <1>1, WorldIs
<1>3. World(rs).chain[rs[s].under] = Reached(Up(rs), y) /\ y \in Units
  BY <1>1, <1>2, ChainIs, Standing
<1>4. Root \in Reached(Up(rs), y)
  BY <1>3 DEF Rooted
<1>5. y \in Stand(rs, rs[v].under)
  BY <1>1, <1>2
<1>6. <<v, y>> \in Up(rs)
  BY <1>1, <1>5, WayUp, Parameters DEF Records
<1>7. Edges(Up(rs)) /\ Single(Up(rs)) /\ \A e \in Up(rs) : e[1] # Root
  BY WayUp
<1> QED BY ONLY <1>2, <1>3, <1>4, <1>6, <1>7, NoWayBack

(* The books follow a closure: it leaves its own dependents within them, and enqueues the closures of the units among   *)
(* them.                                                                                                                *)
LEMMA ClosedBooks ==
  ASSUME NEW rs, Sound(rs), \A r \in Records : rs[r].restore => rs[r].state \in HeldStates, NEW u \in Units,
         NEW cl \in SUBSET Units, Books(rs, cl)
  PROVE  Books(Closed(rs, u), (cl \ {u}) \cup (Below(rs, u) \cap Units))
<1> DEFINE ns == Closed(rs, u)
           D == Below(rs, u)
           ncl == (cl \ {u}) \cup (Below(rs, u) \cap Units)
           w == World(rs)
<1>1. /\ Sound(ns) /\ Shrinks(rs, ns)
      /\ \A r \in Records \ D : ns[r] = rs[r]
      /\ \A r \in D : ns[r] = Booked(World(rs), rs[r])
  BY ClosedSound
<1>2. /\ ncl \in SUBSET Units /\ D \cap Units \subseteq ncl /\ \A x \in cl \ ncl : x = u
      /\ \A r \in D : r \in Records /\ rs[r].state \in Effective /\ rs[r].under \in Units
  BY BelowIs
<1> HIDE DEF ns, D, ncl
<1>3. ASSUME NEW s \in D, ns[s].state \in Effective
      PROVE  /\ ns[s].under = rs[s].under /\ ns[s].scope = rs[s].scope /\ Rooted(w, rs[s].under)
             /\ ns[s].state = "active" => ns[s].review = ~Covers(w, rs[s]) /\ Computable(w, rs[s])
  <2>1. rs[s] \in Rows /\ rs[s].state \in Effective /\ (rs[s].restore => rs[s].state \in HeldStates)
    BY <1>2 DEF Sound
  <2> QED BY <1>1, <1>3, <2>1, BookedIs, StateGroups
<1>4. Off(rs, ns) \subseteq D
  <2> SUFFICES ASSUME NEW x \in Off(rs, ns), x \notin D PROVE FALSE
    OBVIOUS
  <2>1. x \in Records /\ rs[x].state = "active" /\ ns[x].state # "active"
    BY DEF Off, Records
  <2> QED BY <1>1, <2>1
<1>5. ASSUME NEW x \in Units, rs[x].state = "active", ns[x].state = "active" PROVE ns[x].scope = rs[x].scope
  <2>1. CASE x \in D
    BY <1>3, <1>5, <2>1, StateGroups
  <2>2. CASE x \notin D
    BY <1>1, <2>2 DEF Records
  <2> QED BY <2>1, <2>2
<1>6. ASSUME NEW v \in Units, World(ns).chain[v] = World(rs).chain[v]
      PROVE  \A x \in World(rs).chain[v] \ {Root} : ns[x].scope = rs[x].scope
  <2> SUFFICES ASSUME NEW x \in World(rs).chain[v] \ {Root} PROVE ns[x].scope = rs[x].scope
    OBVIOUS
  <2>1. x \in Units /\ rs[x].state = "active"
    BY ChainActive
  <2>2. ns[x].state = "active"
    BY <1>1, <1>6, ChainActive
  <2> QED BY <1>5, <2>1, <2>2
<1>7. ASSUME NEW s \in D, ns[s].state \in Effective PROVE ~OutOfBooks(World(ns), ns[s])
  <2> SUFFICES ASSUME OutOfBooks(World(ns), ns[s]) PROVE FALSE
    OBVIOUS
  <2>1. /\ ns[s].under = rs[s].under /\ ns[s].scope = rs[s].scope /\ Rooted(w, rs[s].under) /\ rs[s].under \in Units
        /\ ns[s].state = "active" => ns[s].review = ~Covers(w, rs[s]) /\ Computable(w, rs[s])
    BY <1>2, <1>3, <1>7
  <2>2. ASSUME NEW v \in Off(rs, ns) PROVE v \notin World(rs).chain[rs[s].under]
    <3>1. v \in D \cap Units /\ rs[v].state = "active"
      BY <1>4 DEF Off
    <3> QED BY <2>1, <3>1, NoneBelowAbove DEF D
  <2>3. World(ns).chain[rs[s].under] = World(rs).chain[rs[s].under]
    <3>1. World(rs).chain[rs[s].under] \cap Off(rs, ns) = {}
      BY <2>2
    <3> QED BY ONLY <1>1, <2>1, <3>1, Sound(rs), ChainKept
  <2>4. \A x \in World(rs).chain[rs[s].under] \ {Root} : ns[x].scope = rs[x].scope
    BY <1>6, <2>1, <2>3
  <2> DEFINE nrow == ns[s]
  <2>5. OutOfBooks(World(rs), nrow)
    BY <2>1, <2>3, <2>4, SameBooks
  <2>6. nrow.state = "active" /\ ~Covers(w, nrow) /\ ~(nrow.review /\ Computable(w, nrow))
    BY <2>1, <2>5 DEF OutOfBooks
  <2>7. Covers(w, nrow) <=> Covers(w, rs[s])
    BY <2>1 DEF Covers
  <2>8. Computable(w, nrow) <=> Computable(w, rs[s])
    BY <2>1 DEF Computable
  <2> QED BY <2>1, <2>6, <2>7, <2>8
<1>8. ASSUME NEW s \in Records \ {Root}, s \notin D, ns[s].state \in Effective, OutOfBooks(World(ns), ns[s]),
             World(ns).chain[ns[s].under] = World(rs).chain[ns[s].under]
      PROVE  OutOfBooks(World(rs), rs[s])
  <2>1. ns[s] = rs[s]
    BY <1>1, <1>8
  <2>2. ns[s].under \in Units
    BY <1>1, <1>8 DEF Sound, UnitsNamed
  <2>3. \A x \in World(rs).chain[ns[s].under] \ {Root} : ns[x].scope = rs[x].scope
    BY <1>6, <1>8, <2>2
  <2> QED BY <1>8, <2>1, <2>2, <2>3, SameBooks
<1>9. ASSUME NEW d \in Units, rs[d].state \in Effective, ns[d].state \notin Effective \/ d \in Off(rs, ns) PROVE d \in ncl
  <2>1. d \in D
    BY <1>1, <1>4, <1>9 DEF Records
  <2> QED BY <1>2, <2>1
<1>10. \A x \in cl \ ncl : Below(rs, x) \subseteq D
  BY <1>2 DEF D
<1>11. Books(ns, ncl)
  BY ONLY <1>1, <1>2, <1>7, <1>8, <1>9, <1>10, Sound(rs), cl \in SUBSET Units, Books(rs, cl), BooksShrink
<1> QED BY <1>11 DEF ns, ncl

-----------------------------------------------------------------------------
(* Grants that take effect or come back; and the tree where a unit does *)

(* The tree is the units' alone. *)
LEMMA SameWorld ==
  ASSUME NEW rs, NEW ns, \A u \in Units : ns[u] = rs[u]
  PROVE  World(ns) = World(rs) /\ \A u \in Units : Stand(ns, u) = Stand(rs, u)
<1>1. Renewals(ns) = Renewals(rs)
  <2>1. {y \in Units : ns[y].pred # None /\ ns[y].state \in {"active", "ended/superseded"}}
        = {y \in Units : rs[y].pred # None /\ rs[y].state \in {"active", "ended/superseded"}}
    OBVIOUS
  <2>2. \A y \in Units : <<ns[y].pred, y>> = <<rs[y].pred, y>>
    OBVIOUS
  <2> QED BY <2>1, <2>2 DEF Renewals
<1>2. ASSUME NEW u \in Units PROVE StandingFor(ns)[u] = StandingFor(rs)[u]
  <2>1. \A x \in Reached(Renewals(rs), u) : ns[x] = rs[x]
    BY ReachedStart
  <2> QED BY <1>1, <2>1 DEF StandingFor
<1>3. StandingFor(ns) = StandingFor(rs)
  <2>1. StandingFor(ns) = [u \in Units |-> StandingFor(ns)[u]] /\ StandingFor(rs) = [u \in Units |-> StandingFor(rs)[u]]
    BY DEF StandingFor
  <2> QED BY <1>2, <2>1
<1>4. Upwards(ns, StandingFor(rs)) = Upwards(rs, StandingFor(rs))
  <2>1. ASSUME NEW e PROVE e \in Upwards(ns, StandingFor(rs)) <=> e \in Upwards(rs, StandingFor(rs))
    BY DEF Upwards
  <2> QED BY <2>1
<1>5. /\ [u \in Units |-> ns[u].scope] = [u \in Units |-> rs[u].scope]
      /\ [u \in Units |-> ns[u].depth] = [u \in Units |-> rs[u].depth]
  OBVIOUS
<1>6. World(ns) = World(rs)
  <2>1. Up(ns) = Up(rs)
    BY <1>3, <1>4 DEF Up
  <2> DEFINE chains(up, standing) == [u \in Units |-> UNION {Reached(up, x) : x \in standing[u]}]
  <2>2. /\ World(ns) = [unit |-> StandingFor(ns), chain |-> chains(Up(ns), StandingFor(ns)),
                        scope |-> [u \in Units |-> ns[u].scope], depth |-> [u \in Units |-> ns[u].depth]]
        /\ World(rs) = [unit |-> StandingFor(rs), chain |-> chains(Up(rs), StandingFor(rs)),
                        scope |-> [u \in Units |-> rs[u].scope], depth |-> [u \in Units |-> rs[u].depth]]
    BY DEF World, Up
  <2> HIDE DEF chains
  <2> QED BY ONLY <1>3, <1>5, <2>1, <2>2
<1> QED BY <1>2, <1>6 DEF Stand


\* The grant r becomes active, and what else changes is that grants end.
GrantRises(rs, ns, r) ==
  /\ r \in Grants /\ rs[r].state \notin {"active"} \cup EndedStates /\ ns[r].state = "active"
  /\ ns[r].under \in Units /\ rs[ns[r].under].state \in Effective \cup EndedStates
  /\ rs[r].state \in Effective => ns[r].under = rs[r].under
  /\ \A x \in Records \ {r} : ns[x] = rs[x] \/ (x \in Grants /\ ns[x].state \in EndedStates)

(* The tree stays as it is, and the books follow if the grant is within them. *)
LEMMA GrantsRising ==
  ASSUME NEW rs, NEW ns, NEW r, Sound(rs), ns \in [Records -> Rows], GrantRises(rs, ns, r)
  PROVE  /\ Sound(ns) /\ World(ns) = World(rs)
         /\ \A cl, ncl \in SUBSET Units :
              cl \subseteq ncl /\ Books(rs, cl) /\ ~OutOfBooks(World(rs), ns[r]) => Books(ns, ncl)
<1>1. /\ \A u \in Units : ns[u] = rs[u]
      /\ \A x \in Records \ {r} : ns[x] = rs[x] \/ ns[x].state \in EndedStates
      /\ r \in Grants /\ r \in Records \ {Root} /\ Units \subseteq Records
  BY Parameters DEF GrantRises, Records
<1>2. World(ns) = World(rs) /\ \A u \in Units : Stand(ns, u) = Stand(rs, u)
  BY <1>1, SameWorld
<1>3. Sound(ns)
  <2>1. RootStays(ns)
    BY <1>1, Parameters DEF Sound, RootStays
  <2>2. ASSUME NEW x \in Records \ {Root}, ns[x].state \in Pending \cup Effective
        PROVE  ns[x].under \in Units /\ rs[ns[x].under].state \in Effective \cup EndedStates
    <3>1. CASE x = r
      BY <3>1 DEF GrantRises
    <3>2. CASE x # r
      <4>1. ns[x] = rs[x]
        BY <1>1, <2>2, <3>2, StateGroups
      <4> QED BY <2>2, <4>1 DEF Sound, UnitsNamed
    <3> QED BY <3>1, <3>2
  <2>3. /\ \A u \in Units : rs[u].state \in Effective \cup EndedStates => ns[u].state \in Effective \cup EndedStates
        /\ \A x \in Units : ns[x].state \in Taken /\ ns[x].pred # None => rs[x].state \in Taken /\ rs[x].pred = ns[x].pred
        /\ \A u \in Units : rs[u].state = "ended/superseded" => ns[u].state = "ended/superseded"
        /\ \A x \in Units : ns[x].state \in Pending => ns[x].pred # Root
    BY <1>1 DEF Sound, RootNotRenewed
  <2> QED BY ONLY Sound(rs), ns \in [Records -> Rows], <2>1, <2>2, <2>3, SoundKept
<1>4. ASSUME NEW cl \in SUBSET Units, NEW ncl \in SUBSET Units, cl \subseteq ncl, Books(rs, cl),
             ~OutOfBooks(World(rs), ns[r])
      PROVE  Books(ns, ncl)
  <2> DEFINE S == cl \cup Lost(rs, World(rs))
             N == ncl \cup Lost(ns, World(ns))
             C == Coming(ns, N)
             Gone == {x \in Grants : ns[x].state \notin Effective}
             B == C \cup Gone
  <2>1. S \in SUBSET Units /\ N \in SUBSET Units /\ S \subseteq N
    BY <1>1, <1>2, <1>4 DEF Lost
  <2>2. /\ \A u \in N : Below(ns, u) \subseteq C
        /\ \A d \in C \cap Units : Below(ns, d) \subseteq C
    BY <2>1, ComingOn
  <2>3. ASSUME NEW y \in Units, NEW t \in Below(rs, y), t \notin Gone PROVE t \in Below(ns, y)
    <3>1. /\ t \in Records /\ rs[t].state \in Effective /\ rs[t].under \in Units
          /\ rs[t].under = y \/ (Stand(rs, y) # {} /\ Stand(rs, rs[t].under) = Stand(rs, y))
      BY <2>3, BelowIs
    <3>2. ns[t].state \in Effective /\ ns[t].under = rs[t].under
      <4>1. CASE t = r
        BY <3>1, <4>1, StateGroups DEF GrantRises
      <4>2. CASE t # r
        <5>1. ns[t] = rs[t]
          <6>1. CASE t \in Grants
            BY <1>1, <2>3, <3>1, <4>2, <6>1, StateGroups
          <6>2. CASE t \notin Grants
            BY <1>1, <3>1, <6>2 DEF Records
          <6> QED BY <6>1, <6>2
        <5> QED BY <3>1, <5>1
      <4> QED BY <4>1, <4>2
    <3>3. ns[t].under = y \/ (Stand(ns, y) # {} /\ Stand(ns, ns[t].under) = Stand(ns, y))
      BY <1>2, <3>1, <3>2
    <3>4. ns[t].under \in Units
      BY <3>1, <3>2
    <3> QED BY ONLY <1>3, <3>1, <3>2, <3>3, <3>4, y \in Units, BelowIs
  <2>4. ASSUME NEW y \in S PROVE Below(rs, y) \subseteq B
    BY <2>1, <2>2, <2>3, <2>4
  <2>5. ASSUME NEW d \in B \cap Units PROVE Below(rs, d) \subseteq B
    <3>1. d \in C
      BY <2>5, Parameters
    <3> QED BY <2>2, <2>3, <2>5, <3>1
  <2>6. Coming(rs, S) \subseteq B
    <3> HIDE DEF S, B
    <3> QED BY <2>1, <2>4, <2>5, ComingLeast
  <2>7. ASSUME NEW s \in Records \ {Root}, ns[s].state \in Effective, OutOfBooks(World(ns), ns[s]) PROVE s \in C
    <3>1. s # r
      BY <1>2, <1>4, <2>7
    <3>2. ns[s] = rs[s]
      BY <1>1, <2>7, <3>1, StateGroups
    <3>3. s \in Coming(rs, S)
      BY <1>2, <1>4, <2>7, <3>2 DEF Books
    <3> QED BY <2>6, <2>7, <3>3
  <2> QED BY <2>7 DEF Books
<1> QED BY <1>2, <1>3, <1>4

(* The tree keeps its shape where a unit rises. *)
LEMMA RisesSound ==
  ASSUME NEW rs, NEW ns, NEW r, Sound(rs), ns \in [Records -> Rows], Rises(rs, ns, r)
  PROVE  Sound(ns)
<1> DEFINE p == rs[r].pred
<1>1. /\ r \in Units \ {Root} /\ rs[r].state \in Pending \cup HeldStates /\ ns[r].state = "active"
      /\ ns[r].under = rs[r].under /\ ns[r].pred = p /\ Units \subseteq Records /\ None \notin Records
      /\ \A x \in Records \ {r, p} : ns[x] = rs[x]
  BY Parameters DEF Rises, Records
<1>2. p # None => /\ p \in Units \ {Root, r} /\ ns[p].state = "ended/superseded" /\ ns[p].pred = rs[p].pred
                  /\ rs[r].state \in Pending => rs[p].state = "active"
                  /\ rs[r].state \notin Pending => rs[p].state = "ended/superseded"
  BY DEF Rises
<1>3. \A x \in Records : x # r /\ ns[x] # rs[x] => x = p /\ p # None
  BY <1>1
<1> HIDE DEF p
<1>4. RootStays(ns)
  BY <1>1, <1>2, <1>3, Parameters DEF Sound, RootStays
<1>5. UnitsNamed(ns)
  <2> SUFFICES ASSUME NEW x \in Records \ {Root}, ns[x].state \in Pending \cup Effective
               PROVE  ns[x].under \in Units /\ ns[ns[x].under].state \in Effective \cup EndedStates
    BY DEF UnitsNamed
  <2>1. rs[x].state \in Pending \cup Effective /\ ns[x].under = rs[x].under
    <3>1. CASE x = r
      BY <1>1, <3>1, StateGroups
    <3>2. CASE x # r
      BY <1>2, <1>3, <3>2, StateGroups
    <3> QED BY <3>1, <3>2
  <2>2. ns[x].under \in Units /\ rs[ns[x].under].state \in Effective \cup EndedStates
    BY <2>1 DEF Sound, UnitsNamed
  <2> DEFINE v == ns[x].under
  <2>3. ns[v].state \in Effective \cup EndedStates
    <3>1. CASE v = r
      BY <1>1, <3>1, StateGroups
    <3>2. CASE v # r
      BY <1>1, <1>2, <1>3, <2>2, <3>2, StateGroups
    <3> QED BY <3>1, <3>2
  <2> QED BY <2>2, <2>3
<1>6. RenewedOnce(ns)
  <2>1. ASSUME NEW x \in Units \ {r}, ns[x].state \in Taken, ns[x].pred # None
        PROVE  /\ rs[x].state \in Taken /\ rs[x].pred = ns[x].pred /\ ns[x].pred \in Units
               /\ rs[ns[x].pred].state = "ended/superseded" /\ ns[ns[x].pred].state = "ended/superseded"
               /\ ns[x].pred = p => rs[r].state \in Effective /\ x = r
    <3>1. rs[x].state \in Taken /\ rs[x].pred = ns[x].pred
      BY <1>1, <1>2, <1>3, <2>1, StateGroups
    <3>2. rs[x].pred \in Units /\ rs[rs[x].pred].state = "ended/superseded"
      BY <2>1, <3>1 DEF Sound, RenewedOnce
    <3>3. ns[rs[x].pred].state = "ended/superseded"
      BY <1>1, <1>2, <1>3, <3>2, StateGroups
    <3>4. ASSUME ns[x].pred = p PROVE rs[r].state \in Effective /\ x = r
      <4>1. rs[r].state \notin Pending
        BY <1>2, <2>1, <3>1, <3>2, <3>4
      <4>2. rs[r].state \in Effective /\ rs[r].state \in Taken
        BY <1>1, <4>1, StateGroups
      <4>3. rs[r].pred = rs[x].pred /\ rs[x].pred # None
        BY <2>1, <3>1, <3>4 DEF p
      <4>4. r = x
        BY <1>1, <3>1, <4>2, <4>3 DEF Sound, RenewedOnce
      <4> QED BY <4>2, <4>4
    <3> QED BY <3>1, <3>2, <3>3, <3>4
  <2> SUFFICES ASSUME NEW x \in Units, ns[x].state \in Taken, ns[x].pred # None
               PROVE  /\ ns[x].pred \in Units /\ ns[ns[x].pred].state = "ended/superseded"
                      /\ \A y \in Units : ns[y].state \in Taken /\ ns[y].pred = ns[x].pred => y = x
    BY DEF RenewedOnce
  <2>2. CASE x = r
    BY <1>1, <1>2, <2>1, <2>2
  <2>3. CASE x # r
    <3>1. ASSUME NEW y \in Units, ns[y].state \in Taken, ns[y].pred = ns[x].pred PROVE y = x
      <4>1. CASE y = r
        BY <1>1, <2>1, <2>3, <3>1, <4>1
      <4>2. CASE y # r
        <5>1. rs[y].state \in Taken /\ rs[x].state \in Taken /\ rs[y].pred = rs[x].pred /\ rs[x].pred # None
          BY <2>1, <2>3, <3>1, <4>2
        <5> QED BY <5>1 DEF Sound, RenewedOnce
      <4> QED BY <4>1, <4>2
    <3> QED BY <2>1, <2>3, <3>1
  <2> QED BY <2>2, <2>3
<1>7. RootNotRenewed(ns)
  <2> SUFFICES ASSUME NEW x \in Units, ns[x].state \in Pending PROVE ns[x].pred # Root
    BY DEF RootNotRenewed
  <2>1. ns[x] = rs[x]
    BY <1>1, <1>2, <1>3, StateGroups
  <2> QED BY <2>1 DEF Sound, RootNotRenewed
<1> QED BY <1>4, <1>5, <1>6, <1>7 DEF Sound

-----------------------------------------------------------------------------
(* The inductive invariant, and what every step keeps *)

\* The types, the tree's shape and the books.
IInv == TypeOK /\ Sound(record) /\ BooksFollow

\* A step after which it holds again, and at which nothing rises unless a record becomes active.
Keeps ==
  /\ IInv'
  /\ Shrinks(record, record') \/ \E r \in Records : record[r].state # "active" /\ record'[r].state = "active"

(* What the types add, and the books, in the terms above. *)
LEMMA IInvIs ==
  IInv <=> /\ Sound(record) /\ closures \in SUBSET Units /\ Books(record, closures)
           /\ \A r \in Records : record[r].restore => record[r].state \in HeldStates
<1>1. BooksFollow <=> Books(record, closures)
  BY DEF BooksFollow, Books, Coming
<1>2. Sound(record) => record \in [Records -> Rows]
  BY DEF Sound
<1> QED BY <1>1, <1>2 DEF IInv, TypeOK

LEMMA IInvNext ==
  IInv' <=> /\ Sound(record') /\ closures' \in SUBSET Units /\ Books(record', closures')
            /\ \A r \in Records : record'[r].restore => record'[r].state \in HeldStates
<1>1. BooksFollow' <=> Books(record', closures')
  BY DEF BooksFollow, Books, Coming
<1>2. Sound(record') => record' \in [Records -> Rows]
  BY DEF Sound
<1> QED BY <1>1, <1>2 DEF IInv, TypeOK

LEMMA SettlesKeeps ==
  ASSUME IInv, NEW r, NEW row, Settles(record, r, row), row.restore => row.state \in HeldStates,
         record' = [record EXCEPT ![r] = row], closures' \in SUBSET Units, closures \subseteq closures',
         r \in Units /\ record[r].state \in Effective /\ (row.state \notin Effective \/ row.scope # record[r].scope)
         => r \in closures'
  PROVE  Keeps
<1>1. Sound(record') /\ Shrinks(record, record')
  BY SettlesSound, IInvIs
<1>2. Books(record', closures')
  BY SettlesBooks, IInvIs
<1>3. \A x \in Records : record'[x].restore => record'[x].state \in HeldStates
  <2>1. \A x \in Records : record'[x] = IF x = r THEN row ELSE record[x]
    BY IInvIs DEF Sound
  <2> QED BY <2>1, IInvIs
<1> QED BY <1>1, <1>2, <1>3, IInvNext DEF Keeps

LEMMA GrantKeeps ==
  ASSUME IInv, NEW r, GrantRises(record, record', r), record' \in [Records -> Rows],
         \A x \in Records : record'[x].restore => record'[x].state \in HeldStates,
         closures' \in SUBSET Units, closures \subseteq closures', ~OutOfBooks(World(record), record'[r])
  PROVE  Keeps
<1>1. Sound(record') /\ Books(record', closures')
  BY GrantsRising, IInvIs
<1>2. r \in Records /\ record[r].state # "active" /\ record'[r].state = "active"
  BY DEF GrantRises, Records
<1> QED BY <1>1, <1>2, IInvNext DEF Keeps

LEMMA UnitKeeps ==
  ASSUME IInv, NEW r, Rises(record, record', r), record' \in [Records -> Rows],
         \A x \in Records : record'[x].restore => record'[x].state \in HeldStates,
         closures' \in SUBSET Units, closures \subseteq closures', ~OutOfBooks(World(record), record'[r]),
         record[r].state \in Pending /\ record[r].pred # None => record[r].pred \in closures',
         record[r].state \in HeldStates => r \in closures'
  PROVE  Keeps
<1>1. Sound(record')
  BY RisesSound, IInvIs
<1>2. Books(record', closures')
  BY <1>1, BooksRise, IInvIs
<1>3. r \in Records /\ record[r].state # "active" /\ record'[r].state = "active"
  BY StateGroups DEF Rises, Records
<1> QED BY <1>1, <1>2, <1>3, IInvNext DEF Keeps

-----------------------------------------------------------------------------
(* What the table has asked of what is saved, applied or brought back *)

LEMMA WideningPassed ==
  ASSUME NEW f, f.kind = "widen", f.trigger \in {"user", "job"}, Outcome(f) \in {"awaiting_saved", "scheduled", "applied"}
  PROVE  /\ f.contained /\ ~f.revisionsChanged
         /\ Outcome(f) = "applied" /\ f.needsConfirmation => f.confirmation # "none"
<1>1. Row(f) \in {20, 23, 29, 31}
  <2>1. Row(f) \in 1..31 /\ RowConditions(f)[Row(f)]
    BY RowIsFirst
  <2>2. Row(f) \in {20, 23, 29, 31} \cup {5, 7}
    BY <2>1 DEF Outcome, RowOutcome
  <2>3. ~RowConditions(f)[5] /\ ~RowConditions(f)[7]
    BY DEF RowConditions
  <2> QED BY <2>1, <2>2, <2>3
<1>2. ~RowConditions(f)[17] /\ ~RowConditions(f)[18]
  BY <1>1, RowIsFirst
<1>3. Outcome(f) = "applied" => ~RowConditions(f)[20]
  <2>1. Outcome(f) = "applied" => Row(f) = 31
    BY <1>1 DEF Outcome, RowOutcome
  <2> QED BY <2>1, RowIsFirst
<1> QED BY <1>2, <1>3 DEF RowConditions

LEMMA RestorePassed ==
  ASSUME NEW f, f.kind = "restore_uncomputable", f.trigger = "job", Outcome(f) \in {"applied", "applied_review"}
  PROVE  ~f.restoredEmpty /\ (Outcome(f) = "applied" => ~f.partlyOutside)
<1>1. Row(f) \in {30, 31}
  <2>1. Row(f) \in 1..31 /\ RowConditions(f)[Row(f)]
    BY RowIsFirst
  <2>2. Row(f) \in {30, 31} \cup {5, 7}
    BY <2>1 DEF Outcome, RowOutcome
  <2>3. ~RowConditions(f)[5] /\ ~RowConditions(f)[7]
    BY DEF RowConditions
  <2> QED BY <2>1, <2>2, <2>3
<1>2. ~RowConditions(f)[25]
  BY <1>1, RowIsFirst
<1>3. Outcome(f) = "applied" => ~RowConditions(f)[30]
  <2>1. Outcome(f) = "applied" => Row(f) = 31
    BY <1>1 DEF Outcome, RowOutcome
  <2> QED BY <2>1, RowIsFirst
<1> QED BY <1>2, <1>3 DEF RowConditions, Restores

(* A record that takes effect, and what it renews. *)
LEMMA TakesEffectIs ==
  ASSUME NEW rs \in [Records -> Rows], NEW r \in Records, rs[r].pred # r
  PROVE  LET ns == TakesEffect(rs, r)
             p == rs[r].pred
         IN /\ ns \in [Records -> Rows]
            /\ ns[r].state = "active" /\ ns[r].under = rs[r].under /\ ns[r].scope = rs[r].scope
            /\ ns[r].pred = p /\ ~ns[r].restore
            /\ p \in Records => ns[p].state = "ended/superseded" /\ ns[p].pred = rs[p].pred /\ ~ns[p].restore
            /\ \A x \in Records \ {r, p} : ns[x] = rs[x]
<1> DEFINE ns == TakesEffect(rs, r)
           p == rs[r].pred
<1>1. "active" \in States /\ "active" \notin EndedStates /\ "ended/superseded" \in States /\ "ended/superseded" \in EndedStates
  BY StateGroups
<1>2. ns = [x \in Records |-> IF x = r THEN Moved(rs[x], "active")
                              ELSE IF x = p THEN Moved(rs[x], "ended/superseded") ELSE rs[x]]
  BY DEF TakesEffect
<1>3. ASSUME NEW x \in Records
      PROVE  /\ Moved(rs[x], "active") \in Rows /\ Moved(rs[x], "active").state = "active"
             /\ ~Moved(rs[x], "active").restore /\ Moved(rs[x], "active").under = rs[x].under
             /\ Moved(rs[x], "active").scope = rs[x].scope /\ Moved(rs[x], "active").pred = rs[x].pred
             /\ Moved(rs[x], "ended/superseded") \in Rows /\ Moved(rs[x], "ended/superseded").state = "ended/superseded"
             /\ ~Moved(rs[x], "ended/superseded").restore /\ Moved(rs[x], "ended/superseded").pred = rs[x].pred
  BY <1>1, MovedIs
<1> HIDE DEF ns, p
<1>4. ns \in [Records -> Rows]
  BY <1>2, <1>3
<1>5. ns[r] = Moved(rs[r], "active")
  BY <1>2
<1>6. p \in Records => ns[p] = Moved(rs[p], "ended/superseded")
  BY <1>2 DEF p
<1>7. \A x \in Records \ {r, p} : ns[x] = rs[x]
  BY <1>2
<1> QED BY <1>3, <1>4, <1>5, <1>6, <1>7 DEF ns, p

-----------------------------------------------------------------------------
(* Each action keeps the invariant *)

LEMMA CloseKeeps ==
  ASSUME IInv, NEW u \in Units, Close(u)
  PROVE  Keeps
<1>1. record' = Closed(record, u) /\ closures' = (closures \ {u}) \cup (Below(record, u) \cap Units)
  BY DEF Close, Closed, Below
<1>2. /\ Sound(record') /\ Shrinks(record, record')
      /\ \A r \in Records : record'[r].restore => record'[r].state \in HeldStates
  BY <1>1, IInvIs, ClosedSound
<1>3. Books(record', closures')
  BY <1>1, IInvIs, ClosedBooks
<1>4. closures' \in SUBSET Units
  BY <1>1, IInvIs
<1> QED BY <1>2, <1>3, <1>4, IInvNext DEF Keeps

LEMMA EndKeeps ==
  ASSUME IInv, NEW r \in Records, End(r)
  PROVE  Keeps
<1> DEFINE to == IF record[r].state \in Pending THEN "ended/withdrawn" ELSE "ended/revoked"
           row == Moved(record[r], to)
<1>1. to \in States /\ to \in EndedStates /\ to # "ended/superseded"
  BY DEF States, EndedStates, Endings, PendingEndings
<1>2. record[r] \in Rows /\ record[r].state \in Pending \cup Effective /\ r # Root
  BY IInvIs DEF Sound, End
<1>3. row \in Rows /\ row.state = to /\ ~row.restore /\ row.pred = None
  BY <1>1, <1>2, MovedIs
<1>4. record' = [record EXCEPT ![r] = row] /\ closures' = closures \cup ({r} \cap Units)
  BY IInvIs DEF End, CloseAfter, Sound
<1> HIDE DEF to, row
<1>5. Settles(record, r, row)
  BY <1>1, <1>2, <1>3, StateGroups DEF Settles
<1>6. closures' \in SUBSET Units /\ closures \subseteq closures' /\ (r \in Units => r \in closures')
  BY <1>4, IInvIs
<1> QED BY <1>3, <1>4, <1>5, <1>6, SettlesKeeps

LEMMA NarrowKeeps ==
  ASSUME IInv, NEW r \in Records, NEW scope \in SUBSET Cells, NEW d \in Nat, Narrow(r, scope, d)
  PROVE  Keeps
<1> DEFINE row == [record[r] EXCEPT !.scope = scope, !.depth = d, !.restore = FALSE]
<1>1. record[r] \in Rows /\ record[r].state \in Effective /\ r # Root /\ scope \subseteq record[r].scope
  BY IInvIs DEF Sound, Narrow
<1>2. /\ row \in Rows /\ row.state = record[r].state /\ row.under = record[r].under /\ row.pred = record[r].pred
      /\ row.scope = scope /\ row.review = record[r].review /\ ~row.restore
  BY <1>1 DEF Rows
<1>3. record' = [record EXCEPT ![r] = row]
  BY IInvIs DEF Narrow, Sound
<1>4. closures' \in SUBSET Units /\ closures \subseteq closures' /\ (r \in Units => r \in closures')
  BY IInvIs DEF Narrow, CloseAfter
<1> HIDE DEF row
<1>5. Settles(record, r, row)
  BY <1>1, <1>2, StateGroups DEF Settles
<1> QED BY <1>2, <1>3, <1>4, <1>5, SettlesKeeps

(* A record named stands or has stood. *)
LEMMA NamedStands ==
  ASSUME NEW rs, Sound(rs), NEW u \in Units, World(rs).unit[u] # {}
  PROVE  rs[u].state \in Effective \cup EndedStates
<1>1. PICK x \in Units : x \in Stand(rs, u) /\ rs[x].state = "active"
  BY WorldIs, Standing
<1>2. rs[u].state # "ended/superseded" => x = u
  BY <1>1, Standing
<1> QED BY <1>1, <1>2, StateGroups

(* What is within its unit's limit is within the books. *)
LEMMA CoveredIsIn ==
  ASSUME NEW w, NEW row, NEW nrow, Covers(w, row), nrow.under = row.under, nrow.scope = row.scope
  PROVE  ~OutOfBooks(w, nrow)
BY DEF Covers, OutOfBooks

LEMMA DueKeeps ==
  ASSUME IInv, NEW r \in Records, Due(r)
  PROVE  Keeps
<1> DEFINE row == record[r]
           w == World(record)
           f == [FreshFacts EXCEPT !.trigger = "job", !.eligible = "proven", !.managementWiden = (r \in Units),
                   !.needsConfirmation = (r \in Units), !.confirmation = IF r \in Units THEN "valid" ELSE "none",
                   !.revisionsChanged = ~Renewable(record, r, row.pred), !.contained = Contained(w, r, row)]
<1>1. /\ row.state \in Pending
      /\ \/ /\ Outcome(f) = "applied"
            /\ record' = TakesEffect(record, r)
            /\ closures' = closures \cup ({row.pred} \cap Units)
         \/ /\ Outcome(f) = "rejected"
            /\ record' = [record EXCEPT ![r] = Moved(@, "ended/rejected")]
            /\ UNCHANGED closures
  BY DEF Due, CloseAfter
<1>2. /\ f.kind = "widen" /\ f.trigger = "job" /\ f.revisionsChanged = ~Renewable(record, r, row.pred)
      /\ f.contained = Contained(w, r, row)
  BY DEF FreshFacts
<1> HIDE DEF f
<1>3. /\ record \in [Records -> Rows] /\ row \in Rows /\ r # Root /\ closures \in SUBSET Units
      /\ \A x \in Records : record[x].restore => record[x].state \in HeldStates
  BY <1>1, IInvIs, StateGroups DEF Sound, RootStays
<1>4. CASE Outcome(f) = "rejected"
  <2> DEFINE nrow == Moved(row, "ended/rejected")
  <2>1. "ended/rejected" \in States /\ "ended/rejected" \in EndedStates /\ "ended/rejected" # "ended/superseded"
    BY DEF States, EndedStates, PendingEndings
  <2>2. nrow \in Rows /\ nrow.state = "ended/rejected" /\ ~nrow.restore /\ nrow.pred = None
    BY <1>3, <2>1, MovedIs
  <2>3. record' = [record EXCEPT ![r] = nrow] /\ closures' = closures
    BY <1>1, <1>3, <1>4
  <2> HIDE DEF nrow
  <2>4. Settles(record, r, nrow)
    BY <1>1, <1>3, <2>1, <2>2, StateGroups DEF Settles
  <2>5. r \in Units /\ record[r].state \in Effective => FALSE
    BY <1>1, StateGroups
  <2> QED BY <1>3, <2>2, <2>3, <2>4, <2>5, SettlesKeeps
<1>5. CASE Outcome(f) = "applied"
  <2> DEFINE p == row.pred
  <2>1. Covers(w, row) /\ Renewable(record, r, p)
    <3>1. f.contained /\ ~f.revisionsChanged
      BY <1>2, <1>5, WideningPassed
    <3> QED BY <1>2, <3>1 DEF Contained
  <2>2. record' = TakesEffect(record, r) /\ closures' = closures \cup ({p} \cap Units)
    BY <1>1, <1>5
  <2>3. p # None => record[p].state = "active" /\ (r \in Units <=> p \in Units) /\ p \in Records
    BY <1>3, <2>1 DEF Renewable, Rows
  <2>4. p # r
    BY <1>1, <2>3, Parameters, StateGroups
  <2>5. /\ record' \in [Records -> Rows]
        /\ record'[r].state = "active" /\ record'[r].under = row.under /\ record'[r].scope = row.scope
        /\ record'[r].pred = p /\ ~record'[r].restore
        /\ p \in Records => record'[p].state = "ended/superseded" /\ record'[p].pred = record[p].pred /\ ~record'[p].restore
        /\ \A x \in Records \ {r, p} : record'[x] = record[x]
    BY <1>3, <2>2, <2>4, TakesEffectIs
  <2>6. \A x \in Records : record'[x].restore => record'[x].state \in HeldStates
    BY <1>3, <2>5
  <2>7. ~OutOfBooks(World(record), record'[r])
    BY <2>1, <2>5, CoveredIsIn
  <2>8. closures' \in SUBSET Units /\ closures \subseteq closures' /\ (p \in Units => p \in closures')
    BY <1>3, <2>2
  <2>9. CASE r \in Units
    <3>1. p # None => p \in Units /\ p # Root
      BY <1>1, <2>3, <2>9, IInvIs DEF Sound, RootNotRenewed
    <3>2. Rises(record, record', r)
      BY <1>1, <1>3, <2>3, <2>4, <2>5, <2>9, <3>1 DEF Rises
    <3>3. row.state \notin HeldStates
      BY <1>1, StateGroups
    <3> QED BY <2>5, <2>6, <2>7, <2>8, <3>1, <3>2, <3>3, UnitKeeps
  <2>10. CASE r \notin Units
    <3>1. r \in Grants /\ r \in Records \ {Root} /\ (p # None => p \in Grants)
      BY <1>3, <2>3, <2>10 DEF Records
    <3>2. row.under \in Units /\ record[row.under].state \in Effective \cup EndedStates
      BY <1>1, <3>1, IInvIs DEF Sound, UnitsNamed
    <3>3. \A x \in Records \ {r} : record'[x] = record[x] \/ (x \in Grants /\ record'[x].state \in EndedStates)
      BY <2>3, <2>5, <3>1, StateGroups, Parameters
    <3>4. row.state \notin Effective /\ row.state \notin {"active"} \cup EndedStates
      BY <1>1, StateGroups
    <3>5. GrantRises(record, record', r)
      BY <2>5, <3>1, <3>2, <3>3, <3>4 DEF GrantRises
    <3> QED BY <2>5, <2>6, <2>7, <2>8, <3>5, GrantKeeps
  <2> QED BY <2>9, <2>10
<1> QED BY <1>1, <1>4, <1>5

LEMMA RestoreKeeps ==
  ASSUME IInv, NEW r \in Records, Restore(r)
  PROVE  Keeps
<1> DEFINE row == record[r]
           w == World(record)
           Empty == \/ ~Rooted(w, row.under) \/ ~Computable(w, row)
                    \/ (~Unlimited(w, row.under) /\ Left(w, row) = {})
           f == [FreshFacts EXCEPT !.kind = "restore_uncomputable", !.trigger = "job", !.eligible = "proven",
                   !.managementWiden = (r \in Units), !.restoredEmpty = Empty, !.partlyOutside = ~Covers(w, row)]
           back == [Moved(row, "active") EXCEPT !.review = (Outcome(f) = "applied_review")]
           kept == [row EXCEPT !.restore = FALSE]
<1>1. /\ record \in [Records -> Rows] /\ row \in Rows /\ closures \in SUBSET Units
      /\ \A x \in Records : record[x].restore => record[x].state \in HeldStates
  BY IInvIs DEF Sound
<1>2. /\ row.restore
      /\ \/ /\ Outcome(f) \in {"applied", "applied_review"}
            /\ record' = [record EXCEPT ![r] = back]
            /\ closures' = closures \cup ({r} \cap Units)
         \/ /\ record' = [record EXCEPT ![r] = kept]
            /\ UNCHANGED closures
  BY <1>1 DEF Restore, CloseAfter
<1>3. f.kind = "restore_uncomputable" /\ f.trigger = "job" /\ f.restoredEmpty = Empty /\ f.partlyOutside = ~Covers(w, row)
  BY DEF FreshFacts
<1> HIDE DEF f
<1>4. row.state \in HeldStates /\ row.state \in Effective /\ row.state \in Taken /\ r # Root
  BY <1>1, <1>2, IInvIs, StateGroups DEF Sound, RootStays
<1>5. CASE record' = [record EXCEPT ![r] = kept] /\ UNCHANGED closures
  <2>1. /\ kept \in Rows /\ kept.state = row.state /\ kept.under = row.under /\ kept.pred = row.pred
        /\ kept.scope = row.scope /\ kept.review = row.review /\ ~kept.restore
    BY <1>1 DEF Rows
  <2> HIDE DEF kept
  <2>2. Settles(record, r, kept)
    BY <1>4, <2>1, StateGroups DEF Settles
  <2> QED BY <1>1, <1>4, <1>5, <2>1, <2>2, SettlesKeeps
<1>6. CASE /\ Outcome(f) \in {"applied", "applied_review"} /\ record' = [record EXCEPT ![r] = back]
           /\ closures' = closures \cup ({r} \cap Units)
  <2>1. ~Empty /\ (Outcome(f) = "applied" => Covers(w, row))
    BY <1>3, <1>6, RestorePassed
  <2>2. /\ back \in Rows /\ back.state = "active" /\ back.under = row.under /\ back.scope = row.scope
        /\ back.pred = row.pred /\ ~back.restore /\ back.review = (Outcome(f) = "applied_review")
    <3>1. /\ Moved(row, "active") \in Rows /\ Moved(row, "active").state = "active"
          /\ Moved(row, "active").under = row.under /\ Moved(row, "active").scope = row.scope
          /\ Moved(row, "active").pred = row.pred /\ ~Moved(row, "active").restore
      BY <1>1, MovedIs, StateGroups
    <3> QED BY <3>1 DEF Rows
  <2> HIDE DEF back
  <2>3. /\ record' \in [Records -> Rows] /\ record'[r] = back /\ \A x \in Records \ {r} : record'[x] = record[x]
        /\ \A x \in Records : record'[x].restore => record'[x].state \in HeldStates
    BY <1>1, <1>6, <2>2
  <2>4. ~OutOfBooks(World(record), record'[r])
    <3>1. CASE Outcome(f) = "applied"
      BY <2>1, <2>2, <2>3, <3>1, CoveredIsIn
    <3>2. CASE Outcome(f) = "applied_review"
      <4>1. Rooted(w, back.under) /\ back.review
        BY <2>1, <2>2, <3>2
      <4>2. Computable(w, back)
        BY <2>1, <2>2 DEF Computable
      <4> QED BY <2>3, <4>1, <4>2 DEF OutOfBooks
    <3> QED BY <1>6, <3>1, <3>2
  <2>5. closures' \in SUBSET Units /\ closures \subseteq closures' /\ (r \in Units => r \in closures')
    BY <1>1, <1>6
  <2>6. CASE r \in Units
    <3>1. row.pred # None => /\ row.pred \in Units \ {Root, r} /\ record[row.pred].state = "ended/superseded"
      <4>1. row.pred # None => row.pred \in Units /\ record[row.pred].state = "ended/superseded"
        BY <1>4, <2>6, IInvIs DEF Sound, RenewedOnce
      <4> QED BY <1>4, <4>1, IInvIs, StateGroups DEF Sound, RootStays
    <3>2. row.state \notin Pending
      BY <1>4, StateGroups
    <3>3. Rises(record, record', r)
      BY <1>4, <2>2, <2>3, <2>6, <3>1, <3>2 DEF Rises, Records
    <3> QED BY <2>3, <2>4, <2>5, <2>6, <3>2, <3>3, UnitKeeps
  <2>7. CASE r \notin Units
    <3>1. r \in Grants /\ r \in Records \ {Root}
      BY <1>4, <2>7 DEF Records
    <3>2. row.under \in Units /\ record[row.under].state \in Effective \cup EndedStates
      BY <1>4, <3>1, IInvIs DEF Sound, UnitsNamed
    <3>3. GrantRises(record, record', r)
      BY <1>4, <2>2, <2>3, <3>1, <3>2, StateGroups DEF GrantRises
    <3> QED BY <2>3, <2>4, <2>5, <3>3, GrantKeeps
  <2> QED BY <2>6, <2>7
<1> QED BY <1>2, <1>5, <1>6

LEMMA SubmitKeeps ==
  ASSUME IInv, NEW r \in Records, record[r].state = "none", NEW under \in Units, NEW scope \in SUBSET Cells, NEW d \in Nat,
         NEW pred \in Records \cup {None}, NEW future,
         Submit(World(record), r, Candidate(under, scope, d, pred), future)
  PROVE  Keeps
<1> DEFINE row == Candidate(under, scope, d, pred)
           w == World(record)
           f == [FreshFacts EXCEPT !.eligible = "proven", !.managementWiden = (r \in Units),
                   !.needsConfirmation = (r \in Units), !.contained = Contained(w, r, row), !.future = future]
           as(state) == [record EXCEPT ![r] = Moved(row, state)]
<1>1. /\ Renewable(record, r, row.pred) /\ w.unit[row.under] # {}
      /\ ~(r \in Units /\ row.pred # None /\ UnderItself(w, row.under, row.pred))
      /\ \/ /\ Outcome(f) = "rejected"
            /\ record' = as("ended/rejected")
            /\ UNCHANGED closures
         \/ /\ Outcome(f) = "awaiting_saved"
            /\ record' = as("awaiting_confirmation")
            /\ UNCHANGED closures
         \/ /\ Outcome(f) = "scheduled"
            /\ record' = as("scheduled")
            /\ UNCHANGED closures
         \/ /\ Outcome(f) = "applied"
            /\ record' = TakesEffect(as("active"), r)
            /\ closures' = closures \cup ({row.pred} \cap Units)
  BY DEF Submit, CloseAfter
<1>2. /\ f.kind = "widen" /\ f.trigger = "user" /\ f.contained = Contained(w, r, row)
      /\ f.needsConfirmation = (r \in Units) /\ f.confirmation = "none"
  BY DEF FreshFacts
<1> HIDE DEF f
<1>3. /\ record \in [Records -> Rows] /\ r # Root /\ closures \in SUBSET Units /\ r \in Records \ {Root}
      /\ \A x \in Records : record[x].restore => record[x].state \in HeldStates
  BY IInvIs, StateGroups DEF Sound, RootStays
<1>4. row \in Rows /\ row.under = under /\ row.scope = scope /\ row.pred = pred
  BY StateGroups, Parameters DEF Candidate, Unwritten, Rows, States
<1> HIDE DEF row
<1>5. record[under].state \in Effective \cup EndedStates
  BY <1>1, <1>4, IInvIs, NamedStands
<1>6. Outcome(f) \in {"awaiting_saved", "scheduled", "applied"} => Covers(w, row)
  <2>1. Outcome(f) \in {"awaiting_saved", "scheduled", "applied"} => f.contained
    BY <1>2, WideningPassed
  <2> QED BY <1>2, <2>1 DEF Contained
<1>7. ASSUME NEW to \in {"ended/rejected", "awaiting_confirmation", "scheduled"}, record' = as(to), UNCHANGED closures,
             to # "ended/rejected" => Covers(w, row)
      PROVE  Keeps
  <2> DEFINE nrow == Moved(row, to)
  <2>1. /\ to \in States /\ to # "ended/superseded" /\ (to = "ended/rejected" => to \in EndedStates)
        /\ to # "ended/rejected" => to \in Pending /\ to \notin EndedStates
    BY <1>7 DEF States, EndedStates, PendingEndings, Endings, Pending
  <2>2. /\ nrow \in Rows /\ nrow.state = to /\ ~nrow.restore
        /\ to \in EndedStates => nrow.pred = None
        /\ to \notin EndedStates => nrow.under = under /\ nrow.pred = pred
    BY <1>4, <2>1, MovedIs
  <2>3. to # "ended/rejected" /\ r \in Units => pred # Root
    <3>1. SUFFICES ASSUME Covers(w, row), r \in Units, pred = Root PROVE FALSE
      BY <1>7
    <3>2. Root \in w.chain[row.under]
      BY <3>1 DEF Covers, Rooted
    <3>3. UnderItself(w, row.under, row.pred)
      BY <1>4, <3>1, <3>2 DEF UnderItself, SameUnit
    <3> QED BY <1>1, <1>4, <3>1, <3>3, Parameters DEF Records
  <2> HIDE DEF nrow
  <2>4. Settles(record, r, nrow)
    <3>1. record[r].state # "ended/superseded" /\ nrow.state # "ended/superseded"
      BY <2>1, <2>2
    <3>2. CASE to = "ended/rejected"
      BY <1>3, <2>1, <2>2, <3>1, <3>2 DEF Settles
    <3>3. CASE to # "ended/rejected"
      BY <1>3, <1>5, <2>1, <2>2, <2>3, <3>1, <3>3 DEF Settles
    <3> QED BY <3>2, <3>3
  <2>5. record' = [record EXCEPT ![r] = nrow]
    BY <1>7 DEF nrow
  <2>6. record[r].state \notin Effective
    BY StateGroups
  <2> QED BY <1>3, <1>7, <2>2, <2>4, <2>5, <2>6, SettlesKeeps
<1>8. CASE Outcome(f) = "applied" /\ record' = TakesEffect(as("active"), r) /\ closures' = closures \cup ({row.pred} \cap Units)
  <2>1. r \notin Units
    BY <1>2, <1>8, WideningPassed
  <2>2. r \in Grants /\ (pred # None => pred \in Grants /\ record[pred].state = "active")
    BY <1>1, <1>4, <2>1 DEF Records, Renewable
  <2>3. pred # r
    BY <2>2, Parameters DEF Records
  <2> DEFINE rs == as("active")
  <2>4. /\ Moved(row, "active") \in Rows /\ Moved(row, "active").under = under /\ Moved(row, "active").scope = scope
        /\ Moved(row, "active").pred = pred
    BY <1>4, MovedIs, StateGroups
  <2>5. /\ rs \in [Records -> Rows] /\ rs[r].under = under /\ rs[r].scope = scope /\ rs[r].pred = pred
        /\ \A x \in Records \ {r} : rs[x] = record[x]
    BY <1>3, <2>4
  <2>6. record' = TakesEffect(rs, r)
    BY <1>8
  <2> HIDE DEF rs
  <2>7. /\ record' \in [Records -> Rows]
        /\ record'[r].state = "active" /\ record'[r].under = under /\ record'[r].scope = scope /\ ~record'[r].restore
        /\ pred \in Records => record'[pred].state = "ended/superseded" /\ ~record'[pred].restore
        /\ \A x \in Records \ {r, pred} : record'[x] = record[x]
    BY <2>3, <2>5, <2>6, TakesEffectIs
  <2>8. \A x \in Records : record'[x].restore => record'[x].state \in HeldStates
    BY <1>3, <2>7
  <2>9. ~OutOfBooks(World(record), record'[r])
    BY <1>4, <1>6, <1>8, <2>7, CoveredIsIn
  <2>10. \A x \in Records \ {r} : record'[x] = record[x] \/ (x \in Grants /\ record'[x].state \in EndedStates)
    <3>1. ASSUME NEW x \in Records \ {r}, x = pred PROVE x \in Grants /\ record'[x].state \in EndedStates
      BY <2>2, <2>7, <3>1, StateGroups, Parameters
    <3> QED BY <2>7, <3>1
  <2>11. GrantRises(record, record', r)
    BY <1>5, <2>2, <2>7, <2>10, StateGroups DEF GrantRises
  <2>12. closures' \in SUBSET Units /\ closures \subseteq closures'
    BY <1>3, <1>8
  <2> QED BY <2>7, <2>8, <2>9, <2>11, <2>12, GrantKeeps
<1> QED BY <1>1, <1>6, <1>7, <1>8

(* An unwritten identity is drawn. *)
LEMMA DrawnIs ==
  ASSUME NEW r \in Drawn
  PROVE  r \in Records /\ record[r].state = "none"
<1>1. PICK R \in {{x \in T : record[x].state = "none"} : T \in {Units, Grants}} \ {{}} : r = CHOOSE x \in R : TRUE
  BY DEF Drawn
<1>2. PICK T \in {Units, Grants} : R = {x \in T : record[x].state = "none"}
  BY <1>1
<1>3. r \in R
  BY <1>1
<1> QED BY <1>2, <1>3 DEF Records

LEMMA StepKeeps ==
  ASSUME IInv, Next
  PROVE  Keeps
<1>1. CASE Submits
  <2>1. PICK r \in Drawn, under \in Units, scope \in Offered, pred \in {None} \cup {x \in Records : Renewal} :
          \/ r \in Units /\ \E d \in Depths : Submit(World(record), r, Candidate(under, scope, d, pred), FALSE)
          \/ r \in Grants /\ \E later \in BOOLEAN :
               (later => Later) /\ Submit(World(record), r, Candidate(under, scope, 0, pred), later)
    BY <1>1 DEF Submits
  <2>2. PICK d \in Nat, future \in BOOLEAN : Submit(World(record), r, Candidate(under, scope, d, pred), future)
    BY <2>1, Parameters
  <2>3. r \in Records /\ record[r].state = "none" /\ scope \in SUBSET Cells /\ pred \in Records \cup {None}
    BY DrawnIs, Parameters
  <2> QED BY <2>2, <2>3, SubmitKeeps
<1>2. ASSUME NEW r \in Records, Due(r) PROVE Keeps
  BY <1>2, DueKeeps
<1>3. ASSUME NEW r \in Records, End(r) PROVE Keeps
  BY <1>3, EndKeeps
<1>4. ASSUME NEW r \in Records, Restore(r) PROVE Keeps
  BY <1>4, RestoreKeeps
<1>5. ASSUME NEW r \in Records, NEW scope \in SUBSET Cells, NEW d \in Depths \cup {0}, Narrow(r, scope, d) PROVE Keeps
  <2>1. d \in Nat
    BY Parameters
  <2> QED BY <1>5, <2>1, NarrowKeeps
<1>6. ASSUME NEW u \in Units, Close(u) PROVE Keeps
  BY <1>6, CloseKeeps
<1> QED BY <1>1, <1>2, <1>3, <1>4, <1>5, <1>6 DEF Next

LEMMA InitIs ==
  ASSUME Init
  PROVE  IInv
<1>1. /\ Unwritten \in Rows /\ Unwritten.state = "none" /\ Unwritten.under = None /\ Unwritten.pred = None
      /\ ~Unwritten.restore
  BY DEF Unwritten, Rows, States
<1>2. /\ record \in [Records -> Rows]
      /\ record[Root].state = "active" /\ record[Root].under = None /\ record[Root].pred = None /\ ~record[Root].restore
      /\ \A r \in Records \ {Root} : record[r].state = "none" /\ ~record[r].restore
      /\ closures = {}
  <2>1. [Unwritten EXCEPT !.state = "active", !.depth = RootDepth] \in Rows
    BY Parameters, StateGroups DEF Unwritten, Rows, States, Effective
  <2>2. /\ [Unwritten EXCEPT !.state = "active", !.depth = RootDepth].state = "active"
        /\ [Unwritten EXCEPT !.state = "active", !.depth = RootDepth].under = None
        /\ [Unwritten EXCEPT !.state = "active", !.depth = RootDepth].pred = None
        /\ ~[Unwritten EXCEPT !.state = "active", !.depth = RootDepth].restore
    BY DEF Unwritten
  <2> QED BY <1>1, <2>1, <2>2, Parameters DEF Init, Records
<1>3. Sound(record)
  <2>1. \A x \in Units \ {Root} : record[x].state = "none"
    BY <1>2 DEF Records
  <2>2. RootStays(record) /\ RootNotRenewed(record)
    BY <1>2, <2>1, StateGroups DEF RootStays, RootNotRenewed
  <2>3. UnitsNamed(record)
    BY <1>2, StateGroups DEF UnitsNamed
  <2>4. RenewedOnce(record)
    BY <1>2, <2>1, StateGroups DEF RenewedOnce
  <2> QED BY <1>2, <2>2, <2>3, <2>4 DEF Sound
<1>4. Books(record, closures)
  BY <1>2, StateGroups DEF Books
<1>5. \A r \in Records : record[r].restore => record[r].state \in HeldStates
  BY <1>2
<1> QED BY <1>2, <1>3, <1>4, <1>5, IInvIs

(* The invariant holds in every state of every tree of units. *)
THEOREM Safe == Spec => []IInv
<1>1. Init => IInv
  BY InitIs
<1>2. IInv /\ [Next]_vars => IInv'
  <2> SUFFICES ASSUME IInv, [Next]_vars PROVE IInv'
    OBVIOUS
  <2>1. CASE Next
    BY <2>1, StepKeeps DEF Keeps
  <2>2. CASE UNCHANGED vars
    BY <2>2 DEF vars, IInv, TypeOK, BooksFollow
  <2> QED BY <2>1, <2>2
<1> QED BY <1>1, <1>2, PTL DEF Spec

(* Records keep the shape their table gives them, and only what is held waits for a restore. *)
THEOREM UnitsTypeCorrect == Spec => []TypeOK
<1>1. IInv => TypeOK
  BY DEF IInv
<1> QED BY <1>1, Safe, PTL

(* No record is left behind by its unit: one that its unit no longer allows is one that an enqueued closure comes to,   *)
(* but for what names a lost identity and what is below that, for any tree and any order of changes.                    *)
THEOREM NothingLeftBehind == Spec => []BooksFollow
<1>1. IInv => BooksFollow
  BY DEF IInv
<1> QED BY <1>1, Safe, PTL

(* No step but one at which a record takes effect or comes back lets any grant give more. *)
THEOREM OnlyWideningsDo == Spec => OnlyWideningsWiden
<1> DEFINE Widen == (\A r \in Records : record[r].state # "active" => record'[r].state # "active")
                    => \A g \in Grants : Gives(record', g) \subseteq Gives(record, g)
<1>1. IInv /\ [Next]_vars => [Widen]_vars
  <2> SUFFICES ASSUME IInv, Next PROVE Widen
    OBVIOUS
  <2>1. SUFFICES ASSUME Shrinks(record, record'), NEW g \in Grants PROVE Gives(record', g) \subseteq Gives(record, g)
    BY StepKeeps DEF Keeps
  <2>2. Sound(record) /\ Sound(record')
    BY StepKeeps, IInvIs, IInvNext DEF Keeps
  <2> QED BY <2>1, <2>2, GivesLess
<1>2. [][Next]_vars /\ []IInv => [][Widen]_vars
  BY <1>1, PTL
<1> QED BY <1>2, Safe, PTL DEF Spec, OnlyWideningsWiden

=============================================================================
