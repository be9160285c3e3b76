# A TLA+ development of sqltide

sqltide (`src/src/sqltide`) compiles a project of SQL models for ClickHouse, builds
them beside the live ones, publishes and rolls back what it built, cleans up after
itself, destroys what is no longer wanted, serves a browser with accounts and roles,
and reacts to what happened through sensors. This directory holds TLA+
modules of the parts whose correctness depends on the order of steps, on what an
aborted or killed process leaves behind, and on several processes sharing one
database; the TLC runs over small instances; and TLAPS proofs of the invariants that
matter most. `PROJECT.json` is the index: the components, the runs, the source lines
behind every definition (`map`), a mutation of the code for every property
(`mutants`), the known disagreements (`findings`) and what is hard to test
(`hazards`).

Paths below are relative to `src/src/sqltide` unless they start with `src/`.

## 1. The system

### What there is

sqltide has no server state of its own that matters: nearly everything lasting is in
ClickHouse, which offers atomic single statements and no transactions.

| Part | State it keeps | Operations |
|---|---|---|
| Target mutation lock (`executor/workflow`, `adapters/clickhouse/classes/clickhouse_connection.py`) | a lock table in the target, a marker table during each release | acquire, release, run a workflow of statements in between |
| Virtual build (`executor/backfill`, `cli/build`) | object rows and a header for each deployment, physical relations `object__deployment` and their rows | preflight, persist metadata, realize, capture the boundary, replay, check readiness |
| Promotion and rollback (`executor/promotion`, `cli/rollback`) | stable views, publication events | build the binding request, replace views, remove obsolete views, record the event; resolve a rollback target |
| Janitor (`executor/janitor`) | none; drops views and relations | classify deployments, remove obsolete views, drop relations |
| Direct build, reconcile, repair (`executor/direct`, `executor/reconcile`, `executor/repair`) | the live relations themselves | rebuild in place, resume, adopt drift, rebind |
| Destruction (`executor/destruction`) | plans with their review and challenge state, in memory or in a control database | plan, review, consume, verify drift, drop and retire |
| Event sensors (`sensors`, `dev_server/classes/sensor_scheduler.py`) | checkpoints, ticks, step markers, leases; all append-only | poll, fetch, deliver, retry, dead-letter, advance; operator's retry and skip |
| Polling sensors | last tick and cursor | evaluate at an interval |
| Run events (`executor/observability`) | event rows with a sequence number | append, heartbeat, terminal event |
| Build process and cancellation (`dev_server/classes`) | a child process, its active query | start, cancel, kill, record the outcome |
| Audit scheduler (`dev_server/classes/audit_scheduler.py`) | schedule state, audit rows | poll, run what is due |
| Control store and authentication (`auth`) | accounts, roles, sessions, a cache with a revision | sign in, resolve, revoke, administer |
| Compiler (`compiler`), SQL crates (`src/crates`), CLI, UI | derived from project files | pure functions and presentation |

### How they interact

* Every operation that mutates a target (build, promotion, rollback, janitor,
  reconcile, repair, destruction) executes inside `target_mutation_lock`.
  The lock is the only mutual exclusion between processes.
* Builds, promotions and the janitor communicate through metadata rows and through
  the catalog itself (which relations exist, which view reads what). Promotions and the
  janitor read both once they hold the lock, and a destruction plans again under it.
  Builds are planned before the lock is taken (`cli/build/_helpers/virtual_command.py:145`,
  `execution.py:44`): of a virtual build, preflight statements check the id again under
  the lock; of a direct build, only consumers of added models are looked for again. A
  rollback's target is resolved before the lock, too.
* Runs insert quality results and invocation rows; sensors read them as a stream.
  Dispatchers of several servers share checkpoints and ticks and are kept apart only
  by a lease that is read and then inserted.
* A handler runs on a thread the dispatcher waits for with a timeout; its durable
  steps share the marker rows with every other attempt at the same event.

### What is hard

* A statement is atomic, an operation is not: it may stop after any statement
  because of an error, an interrupt or a kill, and the next one finds what it left.
* An interrupted client does not stop the statement that the server is executing.
* Reads and the writes that depend on them are separate statements.
* A thread that timed out is not stopped.
* Rows become visible in another order than their timestamps say.
* Rows of aborted attempts are never deleted; they accumulate under the same id.

The `hazards` list of `PROJECT.json` places each of these at the line where it bites.

### What makes each part correct

* Lock: one claimant at a time; a dead owner leaves the target closed; a late release
  harms nobody; a release ends.
* Deployments: a view always reads an existing relation; metadata tells which
  publication is live; a rollback restores exactly what an earlier publication bound;
  the janitor keeps what a rollback needs and takes no model offline; published
  relations are not written by builds; history is inserted once per build.
* Staged replay: a finished build has every row the model had, once, while rows keep
  landing, for every rebuild policy.
* Sensors: no owed event is passed unresolved; order is kept; an at-most-once step is
  called once; the stream never blocks for good.
* Destruction: a plan is executed once, by one process, as it was reviewed and for
  somebody who still may; nothing of another pipeline goes with it; no view is left
  over a relation that is gone; what remains after a failure can be planned again; the
  record says what happened.
* Control plane: somebody can always administer; a cached answer outlives a change by a
  bounded time; a reset or a disabling leaves no old credential; accounts are in the
  state somebody asked for last.
* Server builds: a build from the browser writes what its user may, although the child
  compiles the project again; a cancellation settles, and one that is called completed
  left no query running; the browser shows what the routes enforce.
* Direct builds: what is reported as applied is there, the source is not left paused,
  the landing table has each event once.

## 2. The modules

| Module | What it is |
|---|---|
| `TargetLock` | the lock protocol, statement by statement |
| `ExclusiveClaim` | what the lock promises: a claim that is gained only when nobody has one |
| `TargetLockProofs` | proofs about `TargetLock`, its refinement of `ExclusiveClaim` included |
| `Deployments` | build, promotion, rollback and janitor over one metadata history |
| `DeploymentsProofs` | proofs about `Deployments` |
| `StagedReplay` | how a staged table is filled: the rebuild policy, and the statements of one replay root while rows land |
| `SensorDispatch` | event sensor dispatch with durable steps and operator actions |
| `ProjectGraph` | the compiled project: typed edges, the rules of a project, order, traversals |
| `DestructionPlanning` | what a destructive request would drop: selection, ownership, evidence, order, challenges, refusals (extends `ProjectGraph`) |
| `Destruction` | the life of a destruction plan among servers, shells, builds and edits (extends `DestructionPlanning`) |
| `OnceOnly` | what the plan store promises; `Destruction` implements it |
| `ControlPlane` | accounts, system roles, sessions and the authentication cache |
| `Authorization` | the access policy: what compiles, what is decided, what is shown |
| `ServerBuilds` | builds from the browser, their child process, events and cancellation (instantiates `Authorization`) |
| `DirectBuild` | in-place builds with the recovery of their source (extends `ProjectGraph`) |
| `StagedReplayProofs`, `SensorDispatchProofs`, `DestructionProofs`, `ControlPlaneProofs`, `ServerBuildsProofs`, `DirectBuildProofs` | proofs about those modules; `DestructionProofs` has the refinement of `OnceOnly` |
| `MC...` | instances for TLC |

Definitions whose comment begins with "Mutant:" are plausible mistakes in the code,
used to confirm that each property can fail. They are not part of any specification.

### `TargetLock`

`lock` and `marker[r]` are the tables, represented by the owner id in their comment.
`pc[r]` is the place of run `r` in `target_mutation_lock`: the acquisition
(`CREATE TABLE`, with its failure, and with an answer that is lost after it took
effect), the operation, and the release (create the marker, `EXCHANGE TABLES`, read
the comment, then drop marker and lock, or exchange back, drop and refuse). `query[r]`
says whether the server is executing a statement of `r`, which outlives an interrupt.
`Crash` is possible wherever a statement is. `OperatorDropsLock` is the manual
`DROP TABLE` that the error message describes; the constant `Operator` chooses
between nobody, one who checks that no run is active, and one who does not.

Abstractions. A workflow's tolerated errors (`continue_on_error`) with the server
still busy are the same as `InterruptStatement` followed by nothing worse. The
operator does not act within the five statements of a release: if he did, no protocol
of this kind could help, and the code does not claim to.

### `Deployments`

| Variable | In the code |
|---|---|
| `mappings` | object-state rows by deployment |
| `headers` | header rows by deployment, each standing for the workflow fingerprint of its plan |
| `relations`, `copies` | catalog of physical relations, and how often the captured history was inserted in each |
| `active` | what each stable view selects from |
| `history`, `expired` | publication events in rank order; how many are older than the retention |
| `plan` | a rollback's resolved target, waiting for confirmation |
| `op` | the workflow in progress: phase and statements that are left |
| `attempts`, `unrecorded` | bookkeeping for bounds and properties |

One operation is in progress at a time; that is what `TargetLock` establishes
(`ExclusiveOwnership`), except for the interrupted statements that
`OverlapExplained` describes, which are not composed into this module. Every
statement is a step and `Abort` may follow each. `StartBuild`, `Publish` and
`StartJanitor` carry the refusals of the code as guards: the fingerprint
assertion, the refusal of a published id, the missing header, missing relations, and
the janitor's refusal of a relation that is bound. What a build was planned to contain is
any plan of the constant `Plans`, whenever it was made.

Abstractions. Statements of one phase may run in any order (the code's is the order
of names, which makes no difference to what an abort can leave). Every published
object counts as a root of the replay, and what a replay selects is reduced to "the
captured history, once"; `StagedReplay` looks into it. The choice of a
default deployment for a promotion is left open: any may be chosen. Promotion of
inspected views that have no metadata, the safety checks of physical names and the
quality assertions of a build are not modelled. Time is `TimePasses`.

### `SensorDispatch`

`checkpoint`, `ticks` and `steps` are the three tables of rows; a tick is the
reduction of its rows, together with the thread that runs its handler. `pass[d]` is
the local state of one `_dispatch_event_sensor` call (`head`, `position`, `batch`,
which of the batch had expired when it was fetched, the tick being waited for).
`Arrive` makes an observation visible, in any order; `late` remembers those that came
behind a later one, `skipped` those an initialization stepped over. A handler thread
may run one durable step, whose policy is a constant of the event: it reads the
step's markers, marks it started (at-most-once), calls it and records the result. It
may raise anywhere, and its dispatcher may time out and leave it behind
(`abandoned`). `cool` holds the events that wait for their backoff.

Abstractions. The lease grants everything to everybody, which is what two
dispatchers that both believe they hold it amount to. A read directly followed by the
write that uses it (the checkpoint and the head, the tick state and the STARTED row)
is one step; ticks and checkpoints only grow, so the later of the two moments decides
and nothing is hidden except races between two dispatchers that are also possible one
step later. One sensor, one stream, at most one step in a handler. Of the
checkpoint rows only the furthest is kept, the one the query reads. Tick retention is not
modelled. A failed query (`PassFails`) and a crash share the bound `MaxCrashes`.

### `StagedReplay`

The first part is the planner's decision for one changed table: `Changes` are the
differences that `diff.py` tells apart with the `replay_on_change` rule that applies,
the fallback and the flags of the command; `RebuildSubtree` and `ResolvedSubtree` are
`rebuild.py` and `behavior.py`; `MayDropHistory` is what `plan_rendering.py` tells the
user he gives up. Every resulting plan is an initial state.

The second part is the statements of `executor/backfill/_helpers/workflow.py`, one step
each, with the SQL that `adapters/clickhouse/_helpers/replay.py` renders as set
expressions over rows: `Watermarks`, `LowerBounds`, `Seed`, `Replayed`. `boundary` and
`cutoffs` are the deployment's metadata rows, which a rerun finds and keeps. A row is a
number, in the order of offsets within its partition and of the cursor; it carries
`landed_at`, its timestamp and the views its insert feeds. `landed_at` is the server's
time; the timestamp is the producer's and up to `MaxSkew` behind or ahead of it. An insert
fixes its views when it begins and becomes visible at its end (external, ClickHouse).

Abstractions. One root and one deployment id; the graph around the root is left to
`Deployments`. `Abort` follows any statement. Rows are counted, not compared. Every row
has a timestamp: the column is nullable in the code, and a row without one is not
modelled. `slow` and `seam` remember two of the causes that `HistoryExplained` names, `start` the bounds
the seed statement read.

### `DestructionPlanning` and `Destruction`

A request is planned by pure operators over a project and a warehouse record (catalog
with generations, manifests, recorded deployments): selection with its closure over
shared sources, owned relations with the evidence for each, dependants from the
catalog, reverse topological order, challenges, refusals. They are written from
`planning.py` and `ordering.py` and evaluated in every planning step of `Destruction`.

| Variable | In the code |
|---|---|
| `plans` | rows of the relational plan store: state, actor, deadline passed, the frozen plan |
| `exec` | what each server or shell is executing, statement by statement |
| `lock` | the target mutation lock |
| `runs` | the last terminal record for each plan |
| `project`, `warehouse`, `admins` | files, target and accounts, which change meanwhile |
| `dropped`, `started`, `vetted` | history for the properties |

`CreatePlan`, `ReviewPlan`, `ExecutePlan` are the routes, `ShellPlan`, `ShellConfirm`
the command. Execution announces the run, takes the lock, plans again and compares
(`Replan`), consumes the row in a read and a conditional write, drops one relation per
step, reads the catalog and records. Statements fail before or after they took effect,
events and records are lost, keyboards interrupt, processes die, locks are released by
hand. `wanted` limits the requests of a behaviour, `upsets` the interference, `PlanIds`
the plans. Sizes are "over the limit or not"; the in-memory store is not modelled.

### `ControlPlane`

`accounts` and `sessions` are the tables, `cache[p]` the cache of a process, `worker[w]`
the thread or command in a transaction. A transaction is one step where a single
statement decides it; one that reads, decides and writes is two, on PostgreSQL with the
admin role's row locked in between and on SQLite without. Both backends and both
authentication modes are initial states. A cache entry counts only under the current
revision, so raising the revision empties the cache; an answer that was being fetched
meanwhile is still stored, which is the hazard. A reset and a disabling mark every session
of the account that they leave open (`Outlived`), so that `CredentialsRevoked` sees a
revocation that is missing. Time is ticks.

### `Authorization` and `ServerBuilds`

`Authorization` has the rules that a grant in `access.yml` must satisfy, `Decide`,
`CapabilitiesPayload`, and what each route asks for. Seven permissions stand for the thirteen,
one for each combination of scopes the code tells apart.

`ServerBuilds` has the project on disk and the compile the server holds, the manager of
one child, the child from its own compile to its terminal row, its standard output (read
late), its queries, which live in the warehouse and not in the child, the events and
rows from which a status is derived, and one cancellation per run with its thread:
SIGINT, KILL QUERY, grace, SIGTERM, grace, the offer to kill. Interrupts hit the child in
any phase, including its handlers. Writes of events and rows may be lost, signals age.
A `cast` bounds a behaviour: who starts runs, with which selectors, how many changes,
which runs are stopped. What a statement does to tables is in `DirectBuild`.

### `DirectBuild`

One managed source (Kafka table, landing view, landing table) and the models behind it.
`rows[x]` counts for each event how often a table has its row, so that duplication and
loss show; an insert pushes through the materialized views that exist. A plan is made
over one snapshot without the lock (`Plan`), turned into statements (`AssembleStatements`)
and executed later under it, a statement per step; a statement fails whole, in part or
after taking effect, then recovery attempts all its statements. `baseline` is the
recorded fingerprint. `history` holds what was reported and which mishaps occurred.

A replay reads a window of its driving input. `Boundary` is what the capture of it finds:
`InWindow` has the lower bound that `--start-time` forces (`NewPlan`'s `start`; for offsets
the last one up to that time, for a cursor the first one from it on, for timestamps the
time itself) and the upper one (the last that is there, or for timestamps the server's
`now64` when the boundary is read, any of `Times`). `Stamp` is the time of an event in the
column its lineage names; a start time needs inputs that exist (`BoundedInputsExist`) and
is refused where source drift alone selects. `history.left` collects what the windows of a
table's replays may leave out, stated by the times of the rows alone and not by the bounds
computed from them: `RowsOnce` requires every other row.

Lineage by `landed_at` cuts like timestamps do, by a column of its own, and is the mode
"timestamp" here. Rows without a timestamp, the refusal for an input without a time column
(`_forced_time_column`), several partitions (in `StagedReplay`), several sources, external
sources, audits and waits are not modelled.

## 3. The runs

Every run has a small instance in its `.cfg`. Deadlock is not checked: runs, builds,
plans, rows and events are bounded, and the system may stop when they are used up.

| Run | Instance | Shows |
|---|---|---|
| `lock_claims` | 3 runs, a mistaken operator, fairness; 270,000 states | the lock implements an exclusive claim, stays closed after a crash, overlap of statements has one of two causes, a release that ends leaves no table behind, and every holder frees the lock, is refused or dies |
| `deploy_janitor` | 3 deployments of a model that is renamed, 3 events; 170,000 states | the janitor keeps the rollback points, and models stay bound |
| `deploy_rebuild` | 2 deployments of two models built apart, one with a materialized view, 2 builds of each id, 3 events; 250,000 states | views read existing relations and are bound as recorded, a rollback restores an earlier publication, published deployments are frozen |
| `staged_replay` | 4 rows in 2 partitions, 2 of them landing meanwhile, 4 lineage modes, clocks off by 1, all plans, 2 builds, 1 cleanup; 6.7 million states | a row that a finished build lacks is missing for one of five reasons; a build inserts no row twice |
| `sensors_shared` | 2 dispatchers, 2 events, 2 attempts, an at-least-once step, 1 expiring event; 990,000 states | no event lost and order kept with two dispatchers at once |
| `sensors_steps` | 1 dispatcher, 2 events, timeouts, 1 crash or failed pass, 1 operator action, an at-most-once step, fairness; 1.1 million states | the step is repeated only beside an abandoned attempt; every event is resolved in the end, also behind one that fails for good |
| `destroy_plans` | a server and a shell, 1 account, 2 plans, 5 worlds (a shared source with all its pipelines, a pipeline never built, one removed from the files, a reset with orphans, recorded deployments), 1 upset; 270,000 states | what is dropped, in which order, for whom, how often, and what the record says |
| `destroy_reuse` | a stable name that another model uses by now | **violation**: finding 1 |
| `control_plane` | 2 accounts, 1 session, 2 threads with 2 changes or a thread and a command with 3, both backends and modes; 990,000 states | who can administer, how stale an answer may be, what a reset or disabling leaves open |
| `server_builds` | 2 runs, 2 models in 2 pipelines, 4 projects, 4 casts, fairness; 180,000 states | a child writes what was permitted, leftover queries are explained, shown and enforced permissions agree, cancellations settle |
| `direct_build` | a source, 3 tables and a view, 2 builders, 2 events, 8 casts (3 of them with start times, in 3 lineage modes); 1.0 million states | what is applied stands but for what a replay's window leaves out, events land once, the source comes back |
| `direct_fan_in` | a table that joins a side table rebuilt with it, 1 event | **violation**: finding 2 |

Why the bounds are enough. The lock's hard case needs three runs: one whose lock was
dropped, one that acquired meanwhile, and a third that would get in if the first took
the second's lock for its own. Janitor decisions need three deployments: the active
one, the one to keep and one to drop, and a model with two names. A rerun that merges
plans needs two attempts of one id; a stale rollback needs two deployments and three
events; a promotion of part of the graph needs two models.

A seam in a staged replay needs a partition with history and one more row that lands
between two statements, the loss after a cleanup a second build; a partition that is new
since the frontier needs the second partition; a timestamp beyond the boundary needs a
clock that is ahead by one tick. Each of the five causes in
`HistoryExplained` is needed: without any one of them TLC finds a row lost for just that
reason in this instance.

Ordering, batches and blocking of sensors need two events with `BatchLimit` 1, so that
every event is a batch of its own and a full one; the interference of dispatchers is
pairwise. In `sensors_steps` the second attempt at an event is the operator's retry of a
dead letter or the one after a crash; `sensors_shared` has a second attempt by backoff.

Two processes and two plans are what competing consumption takes, and a failed run with
its recovery; the worlds of `destroy_plans` are chosen so that every rule of ownership
decides something. The races of `ControlPlane` are pairwise, with a third change to make
the outcome visible. `server_builds` needs two statements for a cancellation that hears
of the wrong one, and two runs for a manager that owns another child by now.
`direct_build` needs two builders for a stale plan, an edit or a reset in between, and a
second event for what arrives while the source is paused. The first event is stamped
later than the second, so that offsets and times disagree, and the server's clock may be
between them: every clause of `MayLeave` is needed, without it TLC finds a row an applied
table lacks. Casts keep the combinations
apart: a behaviour has one kind of trouble at a time, in any order of steps.

Fairness. `TargetLock`: a run that is alive executes its next statement and the server
answers every statement (weak); `LeaveOperation` is strongly fair because a workflow
is a finite tuple of statements, while the model lets a run start statements for
ever. `SensorDispatch`: the scheduler's loop polls until the process ends, a
`future.result` with a timeout returns, and a backoff elapses (all weak). Handlers get
no fairness, they may hang; neither do arrivals, crashes or operators. `ServerBuilds`:
the thread of a cancellation takes its next step, whose waits have timeouts (weak); the
child gets none, it may ignore every signal.

## 4. Proofs

`TargetLockProofs`, for every set of runs and every kind of operator:

* `LockInvariant`: `Spec => []LockInv`. `LockInv` is `TypeOK`, `FailClosed` and
  `UniqueClaim` (two claimants are one) strengthened by `MarkerPhases` (in which phases
  of a release its marker table can exist), `DisplacedInv` (a displaced run that reads
  its marker never finds its own id there, because its lock is gone) and `QueryInv` (a
  statement executes only for a run inside, or one that was interrupted or died).
  None of the three properties is inductive alone: whether a release keeps the claim
  unique depends on what the marker tells it.
* `LockTypeOK`, `LockFailClosed`, `LockOverlapExplained` follow, and `LockLeavesNothing`
  (`NothingLeftBehind`) from where a release has its marker and its lock.
* `LockExclusiveOwnership`: `Spec => Claims!Spec`, the refinement of `ExclusiveClaim`
  with the claimants as its state; every step of a run maps to gaining a claim,
  losing one, or a stutter.

`DeploymentsProofs`, for all deployments, objects, plans and bounds:

* `DeploymentInvariant`: `Spec => []DeploymentInv`. `DeploymentInv` is `TypeOK`,
  `ActiveRelationsExist` and `RecordedBindings` strengthened by `OpInv`: what an
  operation found when it started holds until its last statement. A build's id is
  unpublished (`BuildInv`), the relations a publication is going to bind exist and the
  views it has bound are marked (`PublishInv`), and nothing the janitor is going to
  drop is bound (`CleanInv`).
* `DeploymentTypeOK`, `ViewsReadable`, `BindingsRecorded` follow;
  `PublishedStaysFrozen` is the action property `PublishedFrozen`.
* `EventInvariant` adds what the recorded publications say: all events of a deployment
  name the views its metadata names (`EventViews`, by `PublishedFrozen`), a resolved
  rollback is to a published deployment (`RollbackInv`), a publication has yet to remove
  every other recorded view of its models (`ScopeInv`), so that a recorded view is bound
  by the newest event that names a view of its model (`SoleInv`); a cleanup removes no
  recorded view (`SparedInv`). `RollbackRestored` is `RollbackRestores`,
  `ModelsStayBound` is `JanitorKeepsModelsBound`.
* `RollbackPointsKept` is `JanitorKeepsRollbackPoints`. `KeptInv`: either the cleanup
  touches no rollback point or it spares `MinimumRollback` of them. The newest rollback
  point it does not spare has that many newer ones, and those are spared.

`StagedReplayProofs`, for any rows, partitions, lineage modes, plans and lookback:
`ReplayInvariant`, with `InsertedOnce` (`InsertedOncePerBuild`) and `HistoryComplete`
(`HistoryExplained`). `CountInv` counts the inserts of a row statement by statement; it
needs that the bound the replay reads is not below the one the seed read. `WaitedInv`,
`BoundaryInv`, `CutoffInv` and `SeededInv` say what the wait, the boundary, the cutoffs
and the seed have each established about the rows that did not come through the staged
view; `HistoryInv` collects them. In timestamp mode the cutoff is the boundary time, and a
row is below it unless it is `StampedAhead`. `Old`, the wait, `MaxSkew` and the bounds are
constants; nothing is assumed of the order in which rows land.

`SensorDispatchProofs`, for any dispatchers, stream, filter, retry policy and batch size:

* `DispatchInvariant`, with `DispatchTypeOK`, `NoEventLost` (`CheckpointCovers`) and
  `InOrder` (`DeliveredInOrder`), for any number of dispatchers that all believe they hold
  the lease. `PassInv` is what a pass may rely on between two queries: its position is
  settled, its batch has no gap, the tick it waits for is open and is that of the batch's
  first event. It lasts because rows are only appended: resolutions are final
  (`TicksKept`) and an event that becomes owed lies behind all visible ones (`StreamKept`).
* `CalledOnce`: `RepeatsExplained` under the hypothesis that there is one dispatcher,
  which is what the run checks; with two it is false, since both may start a tick of one
  event. It needs that a live thread nobody abandoned is the one its dispatcher waits for
  (`AttendedInv`) and that the marker precedes the call (`MarkerInv`).

`DestructionProofs`, for any project, warehouse, dependency relation and any servers,
shells, plans, interferences:

* `DestructionInvariant`. Of a process that works under the lock, the part of the plan it
  has not carried out is what the catalog holds, and nothing outside the plan depends on
  it (`Stands`). The locked replan establishes that, the lock keeps builds and other
  executions away, and a `DROP` keeps it because dependants come first: `KahnOrdered`,
  an induction over the recursive function of the order. `NothingDangles` and
  `DropsReviewed` follow, `OthersSpared` (`SparesOthers`) from what the planner's
  ownership rules give.
* `AdminExecutes` (`ExecutedByAdmin`), `RecordsTrue` (the action property
  `RecordedTruth`), `DestructionTypeOK`.
* `Recoverable`, in two directions, both for definitions that do not use each other in a
  circle (`UsesAcyclic`): then Kahn's order is complete (`KahnComplete`) and no plan is
  refused for a cycle.
  `FailedRunsRecover` and `RecoverableWithoutHistory`: a run that did not consult old
  manifests can be planned again whatever was dropped, built or published since, because
  what such a request owns depends on the project and on the recorded deployments only
  (`OwnedSame`); the invariant `Repeats` says that every stored plan could be made again
  and that terminal records repeat its selection.
  `RecoverableUntilBuilt`: as long as nothing is built, this is true of all runs, those for
  pipelines that are no longer in the project included. A relation held on the evidence of
  an old manifest is held again while it exists (`HistoricalStill`). It assumes that a
  published name belongs to the model it was recorded for (`NamesKept`): otherwise the
  name a binding is attributed to changes when its view is dropped. The worlds of `destroy_plans`
  satisfy `NamesKept`; those of `destroy_reuse`, where a name changed hands, do not.
* `ImplementsOnceOnly`: the refinement of `OnceOnly`, step by step.

`ControlPlaneProofs`, for any accounts, tokens, threads, commands, processes and time to
live: `ControlInvariant`, with `ControlTypeOK`, `AnAdminRemains`, `AsAsked`,
`CredentialsEnd` and `StalenessBounded`. Each property needs what a worker between two of
its steps may rely on: a guarded change that was not overtaken, or holds the lock, leaves
another administrator (`LockInv`, `AdminInv`); an edit holds the state of its account
unless an ask crossed it (`AskInv`); a verified login with a superseded password is late
(`CredInv`), and what a revocation leaves of an account's open sessions is
empty, so that it marks none (`Outlived(u, RevokedFor(u)) = RevokedFor(u)`); an answer on its way
into the cache is stale for at most the time of its fill (`StaleInv`).

`ServerBuildsProofs`, for any runs, models, users and projects: `BuildsInvariant`, with
`WritesAuthorized`, `LeftoversAccounted` and `CapabilitiesTrue`. What a route prepared
lies within what it granted, and a child's plan is that scope or the child leaves
(`AskedInv`); a model is queried once, so an ended query does not run again
(`QueriesInv`); a confirmed look of a cancellation found its query ended unless the
warehouse had not begun it (`CancelInv`).

`DirectBuildProofs`, for any project with one managed source, any builders and bounds:
`DirectInvariant`, with `DirectTypeOK`, `LandsOnce` (`LandedOnce`) and `SourceComesBack`
(`SourceRestored`); `AppliedHolds` and `AppliedStaysApplied` (`AppliedStands`).

* What `AssembleStatements` gives for any plan (`AssembledPlan`): the source is activated
  last and only there, a staged Kafka table is cleared before and retired after, a replay
  follows the capture of its boundary, tables are created and dropped of models only. Each
  part of a plan is shown to be such a list (`PreparationFragment` to `ReplayFragment`),
  and lists of this kind may be put after one another (`FragmentsJoin`).
* `Fresh`: while a running build has yet to create the landing table, the committed offset
  is 0. It lasts because nothing lands without the table and the lock keeps resets away;
  with it an insert into the landing table (`InsertedTyped`) keeps `LandedOnce`.
* `Restoring`: what a build has changed of the source it has a completed pause or clear to
  show for, a staged table has its retirement still ahead, and a recovery that is through
  has activated the source. That is what makes `PausedBy`, which looks at the attempted
  statements, enough to decide whether to recover.
* `AppliedStands` fails for a fan-in target (finding 2), so the theorem is in two parts.
  `AppliedHolds`, of every project: what a build reports as applied has its view and its
  fingerprint, and every table model that no plan can replay twice (`Singles`) has the rows
  of its driving input. `AppliedStaysApplied`: where the project has no fan-in target
  (`NoFanIn`, which the project of `direct_build` satisfies), that is `AppliedStands`.
  The inductive invariant `AppliedInv` adds `Going`, what a build at work relies on: no
  view outside its scope reads a table inside (`Sealed`, which `Begin` looks for once and
  the lock keeps), the source is still from the teardown to the activation, the created
  tables are empty until the replays, what a rebuilt table drives follows it, a root is
  empty until its one replay and has the rows of its input after it, but for those the
  window may leave out, and the captured boundary still covers the input but for those
  (`Covers`). That a boundary leaves out nothing else, whatever the lineage mode, start time
  and clock, is `BoundaryComplete`. It rests on where the statements of a plan stand
  (`PlanLaid`: teardown drops views before tables, realization creates every table and view
  of the scope, each root is replayed once) and on what an insert does below its table
  (`InsertedMatches`, `InsertedRoot`, `InsertedElsewhere`), an induction over the depth of
  the graph. A replay that fails half way may leave its root partly filled: the invariant
  says nothing of that root then, and the build does not report what it drives.

The assumptions are those named in the modules; TLC evaluates them in every run. They say
that constants have their types and that `None` is no value of a field it stands in for.
Beyond that: `ProjectsAssumption` of `Destruction` is what discovery rejects otherwise
(a model in two pipelines, a name that is both model and source); `WorldsAssumption` that
no view reads a relation that is already missing when a behaviour begins;
`RunsAssumption` of `ServerBuilds` that the server starts with a project that compiles;
`ProjectAssumption` of `DirectBuild` that its project compiles, has one source and drives
every table model by exactly one input.

Induction over numbers, where a proof needs it (the order of drops, the newest event, the
recursive functions of `ProjectGraph` and `DirectBuild`), is by the least counterexample:
`WFMin` of the library for the order of the naturals. `Iterated` shows that a recursive
function over `0..n` exists, `StaysIn` what it keeps.

Only model-checked: all liveness (`EventuallyFreed`, `EventuallyResolved`,
`CancelSettles`), since fairness and `ENABLED` are beyond the prover; `Recoverable` of
`Destruction` for runs that consulted old manifests when builds follow them, where it
depends on what is built (section 5); and `AppliedStands` of
`DirectBuild` where a project has a fan-in target, for which it is false (finding 2).

## 5. Findings

1. `destroy_reuse`: a destruction takes every recorded physical relation and stable name
   of an affected model, also a name that belongs to a model of another pipeline by now
   (`executor/destruction/_helpers/planning.py:903`); `src/README.md:316-317` says that
   historical metadata alone never authorizes the deletion of a live relation.
2. `direct_fan_in`: a table that joins a side table rebuilt with it is replayed once
   through its driving root and once by itself
   (`executor/population/_helpers/roots.py:39`), so that its rows are there twice;
   `src/README.md:95-96` says that replay columns "let a later build reconstruct the
   affected scope after SQL changes".

Other behaviours met while modelling are stated as exceptions in properties, or are
outside every property; they are listed here so that nobody takes them for ruled out.

Lock and deployments

* An interrupt or a lost connection releases the lock while the server still executes
  the statement. `OverlapExplained` shows that this and the operator are the only ways.
* The header that makes a deployment promotable is inserted before its replay; a build
  that fails afterwards leaves an incomplete deployment that promotion accepts.
* The check of the relation cleanup counts obsolete views that the same run would
  remove, so one leaked view makes the janitor refuse.
* After a torn rollback the janitor may remove the only, unrecorded, view of a model
  (`JanitorKeepsModelsBound` speaks of the recorded views, and `ModelsStayBound` shows
  that unrecorded ones are the only exception); two builds with different plans
  under one id, both aborted before the header, merge their object rows
  (`MergedPlans`); after the promotion of a part of the graph no single event has all
  live bindings, so that every rollback is refused until one deployment binds all views
  again (`IsCurrentEvent`).

Staged replay

* In the default mode for an added column, seed and replay each read the frontier of the
  active table. When a row lands in between, the row that was the frontier for the seed
  is neither kept nor replayed (`seam`); the plan says "keep older active rows and replay
  the recent tail" (`cli/plan/_helpers/plan_rendering.py:475`).
* An unpublished deployment can be cleaned up at once, and a build under the same id then
  reuses the old boundary and watermarks: rows beyond them that landed before the new
  view are missing.
* Inserts that outlast the stabilization wait are missing (`slow`).
* With timestamps as the lineage, the cutoff is the server's boundary time: a row that
  landed before the staged view with a timestamp ahead of it is not replayed
  (`StampedAhead`; `executor/backfill/_helpers/workflow.py:695`).
* In cursor mode with a lookback or a start time, the seed statement refers to
  `replay_cutoff`, which only the replay statement defines; it fails (`SeedResolves`).
* When the first row lands between boundary and watermark, every rerun of the id fails
  the assertion of qualifying input. A new table with a bounded rule fails for want of
  an active relation.
* Outside the module, for want of a run that could tell: a change of SQL alone makes the
  materialized view the root of the subtree, which `build_population_replay_requests`
  does not find among the tables; and a side reference whose table is outside the
  subtree ends `expand_fan_in_roots` with `StopIteration`.

Sensors

* A timed-out handler runs on beside its retry, and both may call an at-most-once step.
  `RepeatsExplained` shows that abandoned attempts are the only cause while one
  dispatcher is at work. An observation that becomes visible behind a later one is never
  delivered (`late`).

Destruction

* `src/README.md:277-278` says that pipelines are destroyed "while retaining their authored
  definitions, managed sources, and replay data"; `_affected_sources` selects every managed
  source above or declared by an affected pipeline
  (`executor/destruction/_helpers/planning.py:582-600`), with the pipelines that share it,
  and drops them. `Destruction` follows the code, and its properties take no side.
* The recovery of a run for a pipeline that is no longer in the project is refused, as an
  unknown selection, once a build has published a manifest in which other pipelines own
  all its relations, although the project has been changed back since. It takes two edits
  and a build; `destroy_plans` allows one interference and does not reach it, and
  `RecoverableUntilBuilt` excludes the build.
* A recovery plan leaves out orphans that the original request included; a failure of a
  plan without statements leaves no terminal record; a `DROP` that timed out may take
  effect later; relations of other people that appear during the execution are not
  looked for.

Control plane and server

* On SQLite two overlapping changes can remove the last administrator; on PostgreSQL only
  an edit that found its account disabled and writes that back (`raced`). A login past
  its verification writes its session, and its new hash of the old password, over a reset
  (`late`). `update_user` writes back the enabled flag it loaded (`crossed`). Nothing
  calls `prune_sessions`.
* A child that is interrupted in its handlers leaves a second `cancelled` row or none; a
  lost terminal row hides a run, and a terminal row hides `cancellation_failed`. A `KILL`
  of a query that has not begun counts as confirmed.

Direct builds

* `--changed` looks at fingerprints only, not at what exists; consumers outside the scope
  are looked for again only for models the plan added; a plan made before another build
  created the landing table has the consumer group deleted (`mishaps`), although
  `src/README.md:247-248` says that "an approved command never relies on a stale plan".
* With timestamps as the lineage, a replay ends with `now64` of the server
  (`adapters/clickhouse/_helpers/replay.py:532`, `:559`): a row stamped ahead of it is not in
  the rebuilt table. With a start time, earlier rows are left out of tables that had them
  (`history.left`).

## 6. Plan

Done: the lock with its refinement, deployments, staged replay, event sensor dispatch,
destruction with its refinement, control plane, authorization, server builds, direct
builds, the proofs of section 4.

Next modules: the dispatch lease with clocks and renewals, to replace the nondeterministic
grant of `SensorDispatch`; the planner's subtrees over the graph and the population roots
they collapse to; polling sensors and tick retention; the audit scheduler; reconcile and
the repair of views; migrations of the metadata; a composition of `TargetLock`'s
interrupted statements with `Deployments`.

## 7. Not modelled

The map covers about one line in seven of the implementation. Of the rest, by far the
largest part is sequential text processing: discovery and validation of project files
(`compiler/discovery`, `audit_discovery`, `test_discovery`), SQL analysis and rewriting
(`compiler/sql_analysis`, `compiler/compile`, `macros`, the crates), rendering of DDL and
metadata rows (`adapters`, `adapter/models.py`), arguments and output of commands (`cli`)
and read-only payloads for the browser (`dev_server/_helpers`). Its definitions would
have to repeat formats and error messages; it keeps no state and nothing interleaves with
it, so that its own unit tests reach what a model would.

What has behaviour and is still missing: the dispatch lease, polling sensors and tick
retention, the audit scheduler, reconcile and active-view repair, the in-memory plan
store, the login limiter, sequence numbers of run events, readiness checks and audits of
a build, several managed sources, and the shared sources of a staged build.
`PROJECT.json` gives the reason for each component.

## 8. Running it

In this directory: `tlc -workers 2 -config <cfg> <module>` for a run of
`PROJECT.json`, `tlapm <module>` for each module whose name ends in `Proofs`. The largest
runs take one to three minutes, the largest proofs about ten; runs marked as violations
end with a counterexample.
