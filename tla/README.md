# The authorization member, in TLA+

A verification development of the authorization member (`infra/authz`): a Go service over Postgres that keeps who may
do what in one deployment — management units, holdings of units, role revisions and grants — and through which every
change of those records goes. This directory holds the TLA+ modules, their TLC configurations, and proofs checked by
TLAPS.

    tlc -workers 2 -config Core.cfg MCAdmins.tla      # Core, Recovery, OwnersKey, Bootstrap, and three that fail
    tlc -workers 2 -config Plans.cfg MCPlans.tla
    tlc -workers 2 -config Changes.cfg MCChanges.tla  # and CancelledComesBack
    tlc -workers 2 -config Units.cfg MCUnits.tla      # and UnitLoop
    for m in Decide ChangeKeys Changes Plans Admins Units; do tlapm ${m}Proofs.tla; done   # the theorems
    tlapm AdminsSafety.tla
    tlapm ChangesRecovery.tla

## The system

### One guard, many records

All security records are rows of `authz_record` with a type (`management_unit`, `management_holding`,
`role_revision`, `grant`), a state with its reason (`awaiting_confirmation`, `scheduled`, `active`,
`held/{security_hold,restore_pending,uncomputable}`, `ended/<reason>`), a state revision and a content revision, and
the times it is valid between. Every change is one Postgres transaction that first locks the single row of
`authz_state` (`SELECT … FOR UPDATE`): the *deployment guard*. So transactions interleave in any order, but the
statements of two of them do not. What is hard is what lies *between* transactions: a change is asked for in one,
confirmed in another, becomes effective in a third that a queue runs at some later time, and in between accounts are
disabled, dispositions hold records, and the people who asked or confirmed stop being who they were.

| part | state it keeps | operations | how it meets the others |
|---|---|---|---|
| decision table (`internal/core/decide.go`) | none | `Decide(facts)` → applied, saved, rejected, … | the only judge; every entry collects facts for it |
| effect point (`internal/effectpoint`: facts, enact, target, lifecycle) | `authz_record` | submit, tighten, terminate, fire a saved record, restore | calls the table under the guard, then `Transition`s records and enqueues work |
| change keys (`change.go`) | `authz_change`, evidence of changes | bind a key to its request and result, answer it again; intent before a tightening, conclusion with it | every entry of the effect point goes through it; its evidence is what a restore replays |
| confirmations (`confirm.go`, `internal/confirmroutes`) | `authz_confirmation` | confirm, judge again | bound to a digest; judged again when the change enters |
| saved widenings (`scheduled.go`, `cooling.go`) | the record and its jobs | `Due`, cooling-off, veto | at-least-once jobs, dropped when the state revision moved on |
| dispositions (`disposition.go`, `release.go`, `signal.go`) | `authz_disposition`, `authz_account_signal` | hold, release, merge identity-side signals | hold records, judge the admins again |
| admin state (`pending.go`) | `authz_state` | `JudgeAdmins` | called by whatever may take an admin away |
| accounts (`internal/accounts`, the `changed` hook in `authz/module.go`) | `authz_account_seen`, backfill marks | account facts, confirmations of a status change, reconfirmation | the identity member's facts arrive through a projection |
| closure and expiry (`closure.go`) | `authz_dependency`, review marks | what depended on a source that changed is ended, held or marked | at-least-once work items |
| administrator recovery (`internal/adminrecovery`) | `authz_state`, `authz_recovery_nonce` | replace, restore, abort | the owner's recovery key, outside the table |
| install claim (`internal/claim`) | `authz_claim` | the first admin | once, before there is any holding |
| units, limits, budgets, delegation (`effective.go`, `effect.go`, `budget.go`, `delegate.go`) | derived | is a candidate contained, delegable, within budget | facts for the table, the closure's books, the view |
| plans (`internal/plans`) | `authz_plan`, `authz_plan_item` | draft, preview, confirm, run item by item, review an item, cancel, expire | each item enters the effect point on its own; `Transition` tells the plans of every record that moved (`FollowRecord`) |
| view (`internal/view`) | none | what a component is told it may do | reads active records and dispositions |
| restore (`internal/restore`) | the change history, the recovery tool's position | replay of conclusions in commit order, then of intents without one | `ReplayFacts`, the table; under the identities the evidence names |
| definitions (`internal/definitions`) | `authz_definition*`, `authz_component` | versions of definition sets | names segments and operations speak of |

Outside this repository and only seen through its use: Postgres, the SDK's work queue (at-least-once, `work.Wait` puts
an item off), its projection of the identity member's accounts (a watermark tells how fresh it is).

### What is hard about it, and what makes each part correct

- **The deployment never silently loses its last authorization admin.** An ordinary change may not remove the last
  available one; anything that does anyway (a freeze, a disable, a disposition, a closure) must be noticed in its own
  transaction and freeze management until the owner recovers it. Six files change admin holdings; each must call the
  judge.
- **A saved change is judged when it takes effect**, not when it was asked for or confirmed: the requester's standing,
  the confirmers', the predecessor's state, the time.
- **Jobs are at-least-once and late.** A job of an older state revision must do nothing; an early one must wait; one
  that ran before its record was ready must not have been the only one.
- **A record held by a disposition comes back exactly once**, and not when it has been renewed meanwhile.
- **An account re-enabled without a confirmation does not make its admin available**, through whatever releases,
  recoveries and changes follow.
- **The owner's offline key does not let one person clear its own way**: it cools off when another admin has just
  become unavailable.
- Containment and budgets: what a grant gives stays within its unit's limit, however units are renewed and narrowed.
- **A change key is answered once and for all, and truly**: the same change asked again has the same answer and takes
  effect at most once, whatever crashed between its intent and its conclusion, and whether or not its job, a retry and
  the replay of its evidence all come.
- **No tightening is lost with the database**: what was revoked, cancelled or narrowed before a disaster is so after
  the recovery, or is left to an operator by name.
- **A plan ends, and what it did not do it never does**: no run, review, or move of a record reopens it or brings into
  effect what its rejected items saved; an item runs on what was previewed, and on a second person who still counts.
- Locks: the projection hook and the plan runner take their row locks in an order of their own.

The full list, each at the line where it bites and with the properties that would catch it, is `hazards` in
`PROJECT.json`.

## The modules

| module | models | |
|---|---|---|
| `Decide` | `internal/core/decide.go` | the table: a record of facts, the rows' conditions in order, the outcome of the first that holds |
| `DecideProofs` | | what any applied tightening or widening must have had |
| `Lifecycle` | `effectpoint/lifecycle.go` | states (`held/security_hold`, `ended/revoked`, …) and the moves `Transition` allows |
| `Admins` | the deployment's authorization admins, end to end | below |
| `MCAdmins` | | instances for TLC and the view |
| `Units` | the tree of units, its limits, grants within it, and the closure's books | below |
| `MCUnits` | | instances for TLC |
| `Plans` | `internal/plans` | below |
| `MCPlans` | | an instance for TLC |
| `ChangeKeys` | what a change key promises | the abstract specification: a register settled once |
| `Changes` | `change.go`, the derived keys of `scheduled.go`, `internal/restore` | one key's way through retries, crashes, jobs, a disaster and the replay; implements `ChangeKeys` |
| `MCChanges` | | instances for TLC and the view |
| `AdminsProofs` | | type correctness, and that the last admin is kept |
| `AdminsSafety` | | every other safety property of admins but those the code breaks |
| `ChangeKeysProofs`, `ChangesProofs` | | the promise's own invariant; the refinement, and the safety of keys and evidence |
| `ChangesRecovery` | | what a recovery brings back |
| `PlansProofs` | | every safety property of plans |
| `UnitsProofs` | | every safety property of units but the one the code breaks |

`Decide` and `Lifecycle` are shared: `Admins`, `Units`, `Plans` and `Changes` each collect the facts their entries
find, ask `Decide` for the row and the outcome, and move records only as `Lifecycle` allows. Each of the four leaves
open what is another's subject: in `Units` anybody may ask and confirm, in `Plans` records also move by themselves, in
`Changes` what can be proven of a requester varies from one entry to the next.

### `Admins`

One variable per table, one action per handler, each a whole transaction: the checks, the moves, `JudgeAdmins` where
the code calls it and only there.

- `holding[h]` is a row of `authz_record` of an authorization admin's holding (all are in the root unit, with no
  limit, so containment does not come into it), with its confirmations and its pending work items: `jobs` are those of
  the *current* state revision (`Transition` empties it, as the revision in a job's key voids the older ones).
  `until`/`later` are the validity's end and the effective time as three or two values, passed by `Lapse` and
  `TimeComes`; `cooling` tells a cooling-off never begun, running or over.
- `disposition[d]`, `deployment` (`authz_state`), `vouched[p]` (unused confirmations of an account being active at its
  present version), `closures` (account closures enqueued), `seen[p]` (the last complete status told).
- `account[p]`, `source`: the facts the member has applied and whether the watermark proves them: `fresh`, `aged` (not
  provable, still within the tightening bound), `stalled`. A status can itself be incomplete (`unproven`).
- `after`, `recent`: the order of `updated_at` and which are within the cooling-off period. Only the owner's key reads
  them, so they are kept only with `OwnerKey`.

| action | code |
|---|---|
| `Claim` | `claim.ClaimHTTP` |
| `Submit` | `submitted` → `enact`/`save` |
| `Confirm`, `ConfirmationExpires` | `Confirm`; validity in `judgeConfirmation` |
| `Due` | `Due` → `fired` → `apply` / `coolOff` |
| `Terminate` | `onTarget`: withdraw, cancel, veto, reject |
| `Tighten` | `onTarget`: revoke, relinquish |
| `Dispose`, `Release` | `disposing`/`dispose`, `releasing`/`release`/`ReleaseDisposition` |
| `AccountFact` | the `changed` hook: `AccountChanged`, `IdentitySignal`, `CloseAfter`, `JudgeAdmins` |
| `AccountClosure` | `Closure` of an account |
| `ConfirmAccount`, `AccountConfirmationExpires`, `Reconfirm` | `accounts` |
| `RecoveryReplace`, `RecoveryRestore`, `RecoveryAbort` | `adminrecovery` |
| `Expire` | `Expiry` |
| `Lapse`, `TimeComes`, `GrowOld`, `SourceMoves` | time, and the source's freshness |

Requests that change nothing (rejected without a record, retryable, processing) are no steps; a job that must wait is
no step either. Abstractions: digests and signatures (a confirmation binds what it confirms), a state revision a
request names (a request always names the current one: a stale one is refused without effect), HTTP answers.
Definitions named as *mutants* are plausible wrong versions of the definition they stand next to; no specification
uses them: `PROJECT.json` pairs each with the property that refutes it.

### `Units`

Here who may ask and confirm is left open (that is `Admins`' subject): whatever somebody could ask for is asked for,
and what is saved may be confirmed at any time. What remains is how records hang together.

- `record[r]` is a row of `authz_record` of a unit or a grant: its state, the unit it names (`under`: parent or
  governance unit), its scope, depth, predecessor, the review mark, and whether a restore of its present state
  revision is enqueued. A scope is a set of cells standing for segments, each of one kind of atom: cells of one kind
  meet when equal, two of different kinds are a pair outside the table of intersections.
- `closures`: units whose closure is enqueued.
- `World(record)` is what every transaction reads first: which active unit an identity stands for, following renewals
  (`Units`), and its chain up to the root (`Limits.walk`). Both walks are `Reached`: what the edges (a renewal, a
  parent) lead to, as the least set they do not leave, rather than by a recursion that counts the steps. It is the same
  set, and one can reason about it without induction over the length of a walk. `Limit`, `Left`, `Covers`,
  `Computable`, `DepthLeft`, `UnderItself` are read off it as in `effective.go` and `delegate.go`.

| action | code |
|---|---|
| `Submits` | `submitted` with `widening`, `supersedes`, `underItself` → `enact`, `save`, `apply` |
| `Due` | `Due` → `fired` → `apply` or row 17, 18 |
| `End`, `Narrow` | `onTarget`, `narrows` → `apply`, with the closures it enqueues |
| `Close` | `Closure` of a unit: `dependents`, `assess`, `KeepBooks`, the cascade |
| `Restore` | `restoring` → `apply` or kept held |

### `Plans`

- `plan[p]` is a row of `authz_plan`: state, initiator, second person, number of items, the digest of the last preview
  (the number of different contents previewed), and whether its expiry is ahead. `item[x]`, `x` a plan and a position,
  is a row of `authz_plan_item`: state, request, attempt, the record it waits on or made, and `moved`: the request's
  expected revisions are no longer the target's. An item saves at most one record, named by the item itself.
- `record[r]` is the state of a security record: those the items save and those that exist beside (`Existing`), which
  move by changes outside the plans (`RecordMoves`, `RecordRevised`).
- `standing[q]` is what can be proven of a person at the moment; `confirmed` the unused confirmations; `jobs` the work
  items of `JobPlan`, `parked` those that waited longer than `MaxWait`; `bound` the change keys (item and attempt).

| action | code |
|---|---|
| `Draft`, `Preview` | `CreatePlanHTTP` with `draft`; `PreviewPlanHTTP` with `preview`, `previewItem` |
| `ConfirmPlan`, `ConfirmPreview`, `Lapse` | `ConfirmPlan`, a second person's confirmation; `ConfirmPlanHTTP` with `secondConfirmer`; the end of a confirmation's validity |
| `CancelPlan`, `ExpirePlan` | `CancelPlanHTTP`, `ExpirePlan`: `endPlan` |
| `ReviewItem` | `ReviewItemHTTP` |
| `RunIdle`, `RunUnseconded`, `RunItem`, `RunInvalid` | `RunPlan`: nothing to run; the second person is gone; an item through the effect point (`Effect` of an entry with `PlanItem`, `setItem`, `settle`); one refused before the table |
| `GiveUp` | the queue's `MaxWait` |
| `RecordMoves`, `RecordRevised` | `Transition` and `FollowRecord`, of a change outside the plans |
| `StandingMoves`, `Replace` | what is proven of a person; a recovery's `ReviewReplaced` |

### `Changes` and `ChangeKeys`

The member's database is one value `db` (records with their state revision, the requesters' keys, the member's derived
keys, the jobs, the change history, the outbox), so a backup is a copy of it and a disaster puts the copy back. The
evidence store is another deployment's: intents reach it at once (`intents`), conclusions by the outbox in commit order
(`store`). `calls` are tightenings between their intent and their conclusion, which a crash forgets. Jobs are never
removed: at-least-once delivery is that one may run again at any time.

| action | code |
|---|---|
| `Submit` | `changeAs` of a widening: `Effect` (key, facts, `enact`, binding) and its evidence in one transaction |
| `Begin`, `Commit`, `Fail`, `Cancel`, `Crash` | `changeAs` of a tightening: intent; transaction with the conclusion `effective`; its failure; the conclusion `cancelled`; the member's stop |
| `Due` | `Due` under the key derived from record, revision and trigger |
| `Confirm`, `Hold` | what registers a job: a confirmation; a hold by the closure, with its restore |
| `Deliver`, `Backup`, `Disaster` | the outbox; the database's backup and loss (once) |
| `ReplayNext`, `ReplayOver`, `ReplayDeferred`, `Resume` | the recovery tool: `Replay` of conclusions in order, of intents without a conclusion on the final state |

`ChangeKeys` says of each key only its answer and whether its change took place. A step settles answers: a settled one
stays, and the change takes place in the very step that settles it as applied; a restore takes every key back to where
the backup had it. `Changes` implements it under `now <- KeysOf(db)`, `kept <- KeysOf(backup)`, where `Answer` is
`current` of `change.go`: a key bound as saved answers by its record's jobs.

## The runs

A run is an MC module with one configuration. Those of `Admins` turn on different families of behaviours, all of which
together are out of reach. Runs that end in an error are disagreements of the code with its own documents (next
section).

| run | instance | what it shows |
|---|---|---|
| `Core` | 3 persons (2 ask), 3 holdings (2 seats), 1 disposition, accounts active/disabled | changes, jobs, dispositions and account facts in every order: every loss is noticed at once, no tightening removes the last admin, nothing saved takes effect on stale judgements, no record moves as the table forbids, nothing stays held |
| `Recovery` | 2 persons, 3 holdings (2 seats), 1 disposition, freezes, renewals, the owner's key and its three recovery operations for `p2` | management is frozen until a recovery is over; an unconfirmed admin counts again only once confirmed; nothing stays held, or ends superseded, without a reason; every loss of the last admin is judged but at the steps named in `Unjudged`; `TypeOK` |
| `OwnersKey` | 2 persons, 3 holdings, the owner's key, the order of updates, later start and end | the cooling-off is neither missed nor cut short; early jobs wait, whatever is confirmed, lapses or expires meanwhile |
| `Bootstrap` | `FairSpec`, 2 persons, no seat, one the source has not told of, the owner's key, confirmations of statuses, a source that stalls | nothing before the claim makes a recovery of it; a loss that could not be proven is noticed once it can be |
| `Plans` | `FairSpec`, 1 plan of up to 2 items above a threshold of 1, asking for a unit or a cancellation, 2 attempts, 2 persons and the owner, 1 record beside | an ended plan is settled and stays so; rejected items give nothing; attempts start afresh; no run is lost; nothing runs without a second person who counts, or on a target that moved; a confirmed plan ends |
| `Changes` | a key for a grant or a unit, a key for tightenings of its record, 2 identities each | keys keep `ChangeKeys`' promise; a change takes place once; evidence concludes truly; a disaster loses no tightening and no widening unseen |
| `Units` | root, 2 units, 1 grant, 3 cells of 2 kinds, renewals, later grants | no record is left behind by its unit; only widenings widen; what can be computed again comes back; `TypeOK` |

**Bounds.** In `Core`, three persons are an admin that goes, an admin that stays, and a third: requester, confirmer and
object of a change are then distinct. One more holding than seats lets an admin be made, lost and made again (records
are never reused, so the number of holdings also bounds the length of a history). `MaxRefs` bounds the signals merged
into one disposition, of which only "is any left" is read. One disposition is enough for holding and releasing. Without
the owner's key no rule reads whose an ended record was or how it ended, except that it is ended, so `Core` identifies
such states (`View`), and states in which the two admins of the start trade places, each with its holding
(`TradePlaces`). In `Recovery` no status ends an account, so an account's closure changes nothing but itself and `Recovery`
identifies states that differ only in the closures still to come (`BesideClosures`). `CHECK_DEADLOCK` stays on for the passing runs of `Admins`: the source can always tell a status again.

In `Units` two units below the root and a grant give a chain of three levels, a renewal of the upper or the lower unit,
and siblings; a depth of 0 or 1 and a maximum level of 2 let a delegation just fit and just not; three cells of two
kinds give scopes partly outside, empty and not computable. A third
unit below the root is the least with which something lies below what names a lost identity, a case the first statement
of `BooksFollow` had overlooked and its proof brought up: with it the instance has too many states for all its cells, so
this case is left to the proof, which is for any number of units. A narrowing that changes nothing is left out: repeated for
ever it would void every restore.

In `Plans` one item or two put a plan within or above the threshold; a unit saves a record to be confirmed (what a plan
waits on and `endPlan` cancels), a cancellation names a record that moves, among them the other item's. Two attempts
are a first run and one after a review. One plan is enough for the runs of one plan; that a record ends another plan's
wait too is covered by the proofs, which are for any number of plans. The other kinds of requests (a grant, a later
one, a renewal, a revocation, a narrowing, an admin's dismissal) are in the module and the proofs, not in the instance.

In `Changes` two identities per key are one request and one retry, a tightening's two attempts, or a first change and
one after the recovery. `MaxRevision` bounds what nobody's request drives (confirmations and holds). One disaster, and
no delivery after it, as nothing reads the evidence store again; the states after a recovery are told apart only by
what the properties read (`View`). `LiveJobs` in `Next` leaves out jobs that come to nothing whatever is found, which
are no steps.

`CHECK_DEADLOCK` is off in `Units`, `Plans` and `Changes`: identities, attempts and plans are used up, and then nothing
more can happen.

**Fairness.** `Bootstrap`: weak fairness of each account's closure. The hook enqueues it in the transaction that applies
the fact, and the queue delivers at least once and retries what waits for the source, so a closure that stays possible
is run. Accounts are only active or disabled there: an account *frozen* while the source is stalled is judged by
nothing later (its closure ends nothing), which is listed as a hazard and not covered. `Plans`: weak fairness of time
passing and of the expiry, a timed item of the queue; none of a plan's runs, which may wait until `MaxWait` parks them.
`Units`: weak fairness of each closure and each restore, which the queue delivers until they have run; TLC evaluates
`ENABLED` of a closure too slowly, so the formula says what enables them instead (they are enqueued).

**Mutants.** Each property of each passing run has a mutated definition under which the same configuration refutes it:
a judgement before instead of after the change, a confirmation kept as recorded, a transition that keeps its jobs, a
key bound only by a final answer, an attempt under the key of the last one, and so on.

## Where the code and its documents disagree

Found while modelling; each has a run whose counterexample is the behaviour.

| run | in short |
|---|---|
| `RenewalDropsAdmin` | a renewal for somebody else ends the last admin's holding `superseded`, past the last-admin rows (`facts.go:343`) |
| `ReconfirmUnproven` | a reconfirmation passes on a confirmer who cannot be proven (`accountchange.go:322`) |
| `OwnerKeyCleared` | a later pending row hides the one the requester ended, so the owner's key confirms at once (`cooling.go:37`) |
| `CancelledComesBack` | a termination's evidence lacks the state revision it must expect, so its replay is refused and the restored record is saved again, its job with it (`facts.go:391`) |
| `UnitLoop` | two saved renewals, each of a unit under the other, are both confirmed: the units end below each other, off the root (`facts.go:163`) |

`PROJECT.json` quotes the lines they contradict. More was met without a document that contradicts it outright; the
runs leave the case out where a property needs it, and the hazard at that line says so: a holding and its renewal, held
by two dispositions, both come back (`release.go:352`); an expiry that ends the last admin's holding does not judge the
admins, and a holding that takes effect after its expiry has run is never ended (`closure.go:334`); a recovery ends on
an identity whose holding does not count yet (`pending.go:135`), and aborting one restores `operational` without
judging (`recovery.go:287`); what names a renewed unit is not reached by a closure once the unit that renewed it has
ended (`closure.go:167`, excepted by `Lost` in `BooksFollow`, with what is below it). Of change keys and restore: a widening that a job brought
into effect is recorded without its candidate, so its replay is always refused and left to the operator
(`change.go:299`, `replay.go:57`); the answer to a key of a saved record takes the result of a *plan's item* on that
record for its job's, both being bound in the member's namespace (`change.go:316`); a request replayed without the
revisions it expected is another content for its key, a conflict if the user repeats it. Of plans: a record an item
saved for later is not cancelled with the plan (`SavedEndsToo` in `Plans`), and an item whose record had ended when it
was written is neither followed nor open to a review until the plan ends (`WaitsOnTheLiving`): TLC refutes both of
these on the instance of `Plans`, no run keeps them.

## What is proved

For every value of the constants, from the assumptions on the constants in each module alone (`Parameters`,
`PlansParameters`, `ChangesParameters`; and `NoneIsNothing`: the value that stands for "nothing" in
`Changes` is no request and no table).

**The table** (`DecideProofs`). `AppliedTightening`, `AppliedWidening`: what the facts must have been for the table to
say "applied". They hold for *all* facts, several of which no run reaches; the modules below rest on them.

**Admins** (`AdminsProofs`), for any persons, holdings, dispositions and features.

- `TypeCorrect`: `Spec => []TypeOK`. `TypeOK` is inductive as it stands because it includes what the table's
  constraint says of `authz_state`: an identity being recovered is named exactly while a recovery is on
  (`DeploymentRows`). One lemma per action.
- `LastAdminIsKept`: `Spec => LastAdminKept`, the rule the whole system is about: a revocation or a relinquishment
  leaves an admin *proven* available. The argument has four parts: of all actions only `Tighten` ends a holding
  `revoked` or `relinquished` (`OnlyTighteningsEnd`, from `TypeOK`: an ended record's state is not one that another
  action produces); an applied tightening of an admin that is no disposition has `adminsAfter = "proven"`
  (`AppliedTightening`, about every row of the table before the last); what `AdminsAfter` counts without the ended
  holding before the step is what it counts after it (`HoldersAfterEnding`); and a tightening changes neither the
  accounts nor the source.

**Admins, continued** (`AdminsSafety`). The inductive invariant `IInv` is `TypeOK`, `HeldIsAccountedFor`,
`UnclaimedIsOperational` and

- `RowSound`, of every row: only what is in effect awaits a reconfirmation, a job is of the state it was registered
  for, what cools off waits for its time, a held record names a disposition. Without the jobs' part a job found later
  could move a record out of any state; without the mark's, a saved record could come into effect marked.
- `NobodyForThemselves`: no unused confirmation of an account is its own.

What a step may do to one record is `Lawful`, shown once per action (`StepLawful`), and the properties are read off it:
`MovesAreAllowed`, `SupersededByItsRenewal`, `BackfillNeedsConfirming`. How a record may come into effect is `Activated`:
by the claim, the owner's restore, a release while in operation, or its own job on the table's word. From it and the
rows before the last: `PendingFreezes`, `ConfirmedBySomebodyElse`, `NotTooEarly`, `CoolsOff`, `OwnerAloneWaits`.
`HeldAccountedFor` rests on `DispositionsStand`: no step but a release or a restore ends a disposition, and those bring
back all it holds.

`LossesJudged` (`Spec => LossesAreJudged`): of the steps after which a deployment in operation has no admin all are
named in `Unjudged`, each one a place where the code judges nobody, and listed among the hazards; every other step
either runs `JudgeAdmins` on what it leaves or takes nobody from those who count. Two theorems conclude from it that
`NoSilentLoss` holds in every state: `NoLossWhileJudged`, of behaviours in which those steps are not taken, and
`NoneLostSilently`, of deployments (`Plain`) that have none: the source stays fresh (else what can be proven changes
by itself), no holding ends or is renewed (neither is judged), nobody is recovered (an abort does not judge), and there
is a first admin (else the claim may be for an account that is none). `Core` is such a deployment.

**Change keys** (`ChangesProofs`), for any keys, requests, identities and revisions. The inductive invariant `IInv` is
`TypeOK` and

- `Linked`, of the database *and* of its backup: a record is the one its key's binding names, and while it is saved so
  is the binding (`RecordsBound`); a derived key is bound only for a revision its record has left and for what happened
  to it (`OwnHappened`); what is bound as saved names a record of the key that waits, has ended or was brought into
  effect by a job (`SavedKept`); and a change took place as often as its answer says (`Counted`). Without the backup's
  part the disaster would not be a step of it; without `OwnHappened` a job could be answered by an older one's result.
- `Apart`: identities of intents and of records are different, and issued; `OnTheWay`: what is between intent and
  conclusion has not committed and nothing was told of it; `ToldTruly`: what was told is what happened; `Begun`.

From it: `TypeCorrect`, `OnceAtMost`, `NeverMetTwice`, `ConcludedTruly`, and the refinement `KeysKeepTheirPromise`
(`Spec => KeysPromise`): a change of the database settles answers as `ChangeKeys` allows, a backup and a disaster are
its own steps, everything else stutters. `AppliedTruly` (`ChangeKeysProofs`) is what the promise is worth: a key
answers applied exactly when its change took place.

**Recovery** (`ChangesRecovery`), for any keys, requests, histories and orders of delivery. `NoTighteningIsLost`
(`Spec => []TighteningsSurvive`) and `ToldIsNamed` (`Spec => []KnownByName`), from `IInv` and a second invariant `RInv`.
What makes them hard is that the replay counts an answer by a key's binding (row 1) as met, so a key must never answer
for something that is not so, in a database that mixes what the backup had with what was replayed since.

- `Named`, `Reflects`: a key bound to an applied tightening, and a history that names one, has its target done
  (`Done`: ended, or narrow); a key bound to a widening, and a history that names one, has its record. They are
  invariants of the database and, until the disaster, of the backup (`Foreseen`); they last because what is ended stays
  ended and what is narrow narrow (`Stays`), through every job, confirmation and hold (`MovesAlong`).
- `Foreseen`, before the disaster: every committed tightening holds its key as applied, every told widening its key
  with its own identity, and a key bound in the backup is bound as it was then. So after it a key is bound as before or
  free (`Replaying`, `Unsettled`), and the replay binds a free key only to what the evidence says (`ComesTo`).
- `Accounted`, `Matched`: what was revoked, cancelled or narrowed was so by an intent whose transaction committed, and
  a conclusion tells what its intent asked.
- `Progress`: conclusions before the cursor are in the history or for review, and at the end so is every tightening that
  committed: one with a conclusion has an effective one (`ToldTruly`), one without is an intent executed in 6.5.

TLC found no violation of `RInv` on the instance of `Changes` (without its view), nor in long random behaviours of one
with three keys.

**Plans** (`PlansProofs`), for any plans, items, persons, requests and bounds. `IInv` is `TypeOK`, `EndedIsSettled`,
`NoRunLost` and

- `Linked`, relating an item to its plan, to its own record and to the keys bound: a pending item has no record and a
  key not bound; an open item waits on its own record or on none; what it waits on is not effective; a rejected item's
  record is ended or never was. So `endPlan` reaches every record that may still take effect for an item it rejects,
  and a record's move answers exactly the items that waited on it.
- `Doubled`: a running plan above the threshold has a second person other than its initiator.

One lemma per action (what a move of a record does to items and plans, `FollowedLinked`, serves `RecordMoves` and
`RunItem`). From it: `TypeCorrect`, `EndedPlansAreSettled`, `RejectedItemsGiveNothing`, `AttemptsStartAfresh`,
`RunsAreKept`, and of every step `EndedPlansStay`, `RunsOnTwoPersons`, `RunsOnThePreviewed` (from the rows before the
last: an applied item's target is not stale, `AppliedUnmoved`).

**Units** (`UnitsProofs`), for any units, grants, cells, kinds, depths and levels, and trees of any shape. `IInv` is
`TypeOK`, `BooksFollow` and `Sound`: the root is active, below nothing and renews nothing (`RootStays`); a record names a
unit that was made (`UnitsNamed`); a unit is renewed by one at most, and is superseded from when that one takes effect
(`RenewedOnce`); nothing saved renews the root. Loops are *not* excluded: the code lets them come
about (`UnitLoop`), and what is proved holds with them.

- About `Reached` alone: it is a closure, monotone in the edges met, a line when no two edges leave one place
  (`OneWay`), with one end at most (`OneEnd`) and no way back from it (`NoWayBack`). So an identity stands for at most
  one unit, and a chain up is a line too (`Standing`, `WayUp`).
- Steps come in two kinds. Those that only take away (`Shrinks`: an end, a narrowing, a closure's books) leave every
  chain that still reaches the root as it was (`ChainKept`, `RootedKept`), so a grant gives no more (`GivesLess`): this
  is `OnlyWideningsDo`. Those at which a record comes into effect (`Rises`) change the chains through it and through
  what it renews (`ChainRises`).
- `BooksFollow` under the first kind (`BooksShrink`): a record newly out of its books has in its chain something that
  changed, whose closure was enqueued (`Follow`). Under the second (`BooksRise`): it is below what was renewed or
  came back, whose closure was. Under a closure itself (`ClosedBooks`): what it dealt with is within its books again, and its dependents
  that are units are enqueued in its place, none of them being above another that still reaches the root
  (`NoneBelowAbove`).

`UnitsTypeCorrect` and `NothingLeftBehind` are the invariant's parts.

**Only model-checked.** The liveness properties `LossIsNoticed`, `ConfirmedEnds`, `HeldComesBack`: fairness is out of the
prover's reach. `NoSilentLoss` without `Plain` or `Unjudged` does not hold. `EndingsAreReplayed` does not hold either
(`CancelledComesBack`): what `NoTighteningIsLost` leaves to review is more than `replay.go` says.

## What is not modelled

- Of units and grants: management actions, grantable operations and fields, validity, role revisions and their closure,
  holdings of units below the root, and dispositions of segments. They are further dimensions of the containment that
  `Units` has for scopes and depth, or need domains larger than TLC's to tell the segment algebra's cases apart. The
  closure's scan when the dependency index is incomplete (nothing in `src/` marks it so).
- Budgets (a sum over records, computed when a widening is decided; the row that refuses is in `Decide`), the view
  (computed anew at each read, keeping nothing), definitions (each submission one transaction over content nothing
  else in the models reads).
- Of restore: the replay of releases by their signals, the answer about the identity source, and `Check`'s books, which
  are the closures of `Units` run to their end.
- The evidence of a plan's items (`planIntent`): the intent of a tightening, written before its run's transaction as a
  change's is (`Changes`), and concluded with it.
- Locks: every transaction is taken to be atomic, which the guard gives to those that take it. The hook takes it only
  for a marked status, and three pairs of transactions lock in opposite orders: listed as hazards. PostgreSQL breaks
  such a cycle and one of the two is retried.
- `CheckAccountChange` (a verdict given to the identity member, which keeps nothing), the recovery request's signature
  and nonce, what an install claim names.
- Transport, formatting, start-up, commands.

## What to prove or model next

- Plans inside `Changes`: the items' keys are bound in the member's namespace, which is where `current` confuses them.
- Roles and holdings below the root as dependents in `Units`.
- Dispositions of segments, with several holding one record.
