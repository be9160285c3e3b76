---------------------------- MODULE DirectBuild -----------------------------
(***************************************************************************)
(* Direct builds: the plan over one catalog snapshot                       *)
(* (compiler/planner/classes/direct_plan_builder.py, cli/build/_helpers/   *)
(* preview.py), the statements it becomes (executor/direct/_helpers/       *)
(* workflow.py and sources.py, executor/population), their execution under *)
(* the target lock with the recovery of the paused source                  *)
(* (executor/direct/_helpers/runtime.py, cli/build/_helpers/execution.py), *)
(* and the recorded fingerprints that --changed compares with.             *)
(*                                                                         *)
(* A topic feeds the one managed source of the project: its Kafka table,   *)
(* its landing table and the landing view between them.  The source comes  *)
(* after the models in the numbering of ProjectGraph; a table holds how    *)
(* often it has the row of each event.  What a row says is left out, and   *)
(* so are waits, audits and the database statement, which change nothing.  *)
(* The lock's own steps are in TargetLock, a reset target's in             *)
(* Destruction.                                                            *)
(***************************************************************************)
EXTENDS Integers, Sequences, FiniteSets, SequencesExt, ProjectGraph

CONSTANTS
  Project,     \* of ProjectGraph: models, one source, references
  Builders,    \* shells and servers that build
  MaxEvents,   \* events published at most
  Stamp,       \* the time of each event in the column its lineage is read from
  Times,       \* what the server's clock may show when a replay's boundary is read
  None,
  Casts        \* the lineage mode of the source, and the bounds of a behaviour

VARIABLES
  version, declared,   \* the definition of each model and of the source, as authored
  topic, offset,       \* events published; events the consumer group has committed
  kafka, staged,       \* definition of the Kafka table and of a staged one, 0: absent
  flowing,             \* the landing view exists
  rows,                \* the tables of the models and the landing table, None: absent
  live,                \* definition of each materialized or plain view, 0: absent
  baseline,            \* the recorded fingerprint of each model, 0: none
  lock, build, spent,  \* the target lock; each builder; what is left of the cast
  history              \* fed, built, unrecorded, left, mishaps: see the properties

vars == <<version, declared, topic, offset, kafka, staged, flowing, rows, live,
          baseline, lock, build, spent, history>>
authored == <<version, declared>>
source == <<kafka, staged, flowing>>
target == <<source, rows, live>>

Source == CHOOSE s \in Project.sources : TRUE
Models == Project.models
Views == Project.views
TableModels == Models \ Views
Events == 1 .. MaxEvents

Drives(e, m) == e.down = m /\ e.type = "driving_input"

(* What discovery makes sure of, and one managed source; every table model *)
(* is driven by one model or by the source.                                *)
ASSUME ProjectAssumption ==
  /\ Compiles(Project)
  /\ Keys(Project) \subseteq Nat /\ IsFiniteSet(Models)
  /\ Models \cap Project.sources = {} /\ Views \subseteq Models
  /\ \A r \in Project.refs : r.down \in Models
  /\ \E s \in Project.sources : Project.sources = {s}
  /\ \A m \in TableModels :
        \E e \in Edges(Project) :
          Drives(e, m) /\ \A f \in Edges(Project) : Drives(f, m) => f = e

ASSUME BoundsAssumption ==
  /\ MaxEvents \in Nat
  /\ None \notin Builders /\ None \notin [Events -> Nat]
  /\ Stamp \in [Events -> Nat \ {0}] /\ Times \subseteq Nat
  /\ Casts \subseteq [builds : Nat, faults : Nat, crashes : Nat, edits : Nat,
                      resets : Nat, selects : SUBSET Models, starts : SUBSET Nat,
                      lineage : {"offsets", "cursor", "timestamp"}]

DrivingParents ==
  [m \in TableModels |-> (CHOOSE e \in Edges(Project) : Drives(e, m)).up]

References == [m \in Models |-> {e.up : e \in {f \in Edges(Project) : f.down = m}}]

Order == OrderedKeys(Project)

Driving(m) == DrivingParents[m]

Inputs(m) == References[m]

Sides(m) == Inputs(m) \ {Driving(m)}

Idle ==
  [pc |-> "idle", plan |-> None, steps |-> <<>>, at |-> 1, fix |-> 1, captured |-> None]

Init ==
  /\ version = [m \in Models |-> 1] /\ declared = 1
  /\ topic = 0 /\ offset = 0
  /\ kafka = 0 /\ staged = 0 /\ flowing = FALSE
  /\ rows = [x \in TableModels \cup {Source} |-> None]
  /\ live = [m \in Models |-> 0]
  /\ baseline = [m \in Models |-> 0]
  /\ lock = None
  /\ build = [b \in Builders |-> Idle]
  /\ spent \in Casts
  /\ history = [fed |-> FALSE, built |-> {}, unrecorded |-> {}, mishaps |-> {},
                left |-> [m \in TableModels |-> {}]]

Spend(what) ==
  /\ spent[what] > 0
  /\ spent' = [spent EXCEPT ![what] = @ - 1]

-----------------------------------------------------------------------------
(* The world around the builds.                                            *)

NoRows == [e \in Events |-> 0]

Present(m) == m \in DOMAIN rows /\ rows[m] # None

(* The rows an insert into table x adds everywhere: a materialized view    *)
(* runs on every insert into its driving table, and joins the side tables  *)
(* as they were before, one view after the other (external: ClickHouse).   *)
Joined(m, new) ==
  [e \in Events |-> IF \A s \in Sides(m) : Present(s) /\ rows[s][e] > 0
                    THEN new[e] ELSE 0]

Pushed(x, new) ==
  LET delta[n \in 0 .. Cardinality(TableModels)] ==
        [y \in TableModels \cup {Source} |->
           IF y = x THEN new
           ELSE IF n > 0 /\ y # Source /\ live[y] # 0
           THEN Joined(y, delta[n - 1][Driving(y)])
           ELSE NoRows]
  IN  delta[Cardinality(TableModels)]

Inserted(x, new) ==
  [y \in DOMAIN rows |-> IF rows[y] = None THEN None
                         ELSE [e \in Events |-> rows[y][e] + Pushed(x, new)[y][e]]]

OnlyEvent(e) == [f \in Events |-> IF f = e THEN 1 ELSE 0]

Publish ==
  /\ topic < MaxEvents
  /\ topic' = topic + 1
  /\ UNCHANGED <<authored, offset, target, baseline, lock, build, spent, history>>

(* External: the Kafka engine hands the next event to the landing view.    *)
Land ==
  /\ flowing /\ kafka # 0 /\ Present(Source)
  /\ offset < topic
  /\ offset' = offset + 1
  /\ rows' = Inserted(Source, OnlyEvent(offset + 1))
  /\ UNCHANGED <<authored, topic, source, live, baseline, lock, build, spent, history>>

(* A developer edits a model, or the settings of the source.               *)
Edit ==
  /\ Spend("edits")
  /\ \/ /\ \E m \in Models : version' = [version EXCEPT ![m] = 3 - @]
        /\ UNCHANGED declared
     \/ declared' = 3 - declared /\ UNCHANGED version
  /\ UNCHANGED <<topic, offset, target, baseline, lock, build, history>>

(* sqt reset-target removes every relation, and neither the fingerprints   *)
(* nor the offsets.                                                        *)
ResetTarget ==
  /\ Spend("resets")
  /\ lock = None
  /\ kafka' = 0 /\ flowing' = FALSE /\ UNCHANGED staged
  /\ rows' = [x \in DOMAIN rows |-> None]
  /\ live' = [m \in Models |-> 0]
  /\ history' = [history EXCEPT !.fed = FALSE, !.built = {}]
  /\ UNCHANGED <<authored, topic, offset, baseline, lock, build>>

-----------------------------------------------------------------------------
(* The plan.                                                               *)

Exists(m) == IF m \in Views THEN live[m] # 0 ELSE Present(m)

Drifted == kafka \notin {0, declared}

(* The pipelines whose models read the source itself.                      *)
ReaderPipelines ==
  {Project.pipelineOf[m] : m \in {n \in TableModels : Driving(n) = Source}}

(* --changed selects by the fingerprints alone, and one pipeline of        *)
(* readers when the source has drifted and none of them is rebuilt.        *)
Changed == {m \in Models : baseline[m] # version[m]}

DriftSelects ==
  /\ Drifted
  /\ PipelinesOf(Project, Downstream(Project, Changed, AllEdgeTypes)) \cap ReaderPipelines = {}

ChangedModels ==
  IF DriftSelects THEN Changed \cup ModelsOf(Project, {Min(ReaderPipelines)}) ELSE Changed

(* Absent upstream models are added until none is missing.                 *)
MissingUpstream(scope) ==
  LET missing(s) == {m \in Models : /\ ~Exists(m)
                                    /\ \E n \in s : m \in Inputs(n)}
      grown[n \in 0 .. Cardinality(Models)] ==
        IF n = 0 THEN scope ELSE grown[n - 1] \cup missing(grown[n - 1])
  IN  grown[Cardinality(Models)] \ scope

(* find_direct_out_of_scope_consumers.                                     *)
OutOfScopeConsumers(added, scope) ==
  {m \in TableModels \ scope : live[m] # 0 /\ Inputs(m) \cap added # {}}

(* The managed source is prepared when some model it drives is built, and  *)
(* recreated when it has drifted, which takes a pipeline of readers.       *)
PlanAccepted(added, scope) ==
  /\ scope # {}
  /\ OutOfScopeConsumers(added, scope) = {}
  /\ \A m \in scope : \A x \in Inputs(m) \ scope : x = Source \/ Exists(x)
  /\ Drifted => PipelinesOf(Project, scope) \cap ReaderPipelines # {}

(* A plan; start is the time --start-time names, 0: none.                  *)
NewPlan(added, scope, start) ==
  [scope |-> scope, added |-> added, start |-> start,
   kafka |-> kafka # 0, landing |-> Present(Source), view |-> flowing,
   recreate |-> Drifted, version |-> version, declared |-> declared]

-----------------------------------------------------------------------------
(* The statements of a plan.                                               *)

Statement(op, x) == [op |-> op, on |-> x]

InOrder(scope) == Selected(Order, scope)

(* By name alone: the order without any edge.                              *)
ByName(scope) == KahnOrder(scope, {})

Each(op, models) == [i \in 1 .. Len(models) |-> Statement(op, models[i])]

If(condition, statements) == IF condition THEN statements ELSE <<>>

(* A drifted Kafka table is exchanged for a staged one behind a detached   *)
(* landing view; a landing view that was absent runs once before it is     *)
(* paused with the others.                                                 *)
PreparationStatements(p) ==
  If(~p.kafka, <<Statement("prepare kafka", Source)>>)
  \o If(~p.landing, <<Statement("prepare landing", Source)>>)
  \o If(p.recreate /\ p.view, <<Statement("pause", Source)>>)
  \o If(p.recreate, <<Statement("clear", Source), Statement("stage", Source),
                      Statement("swap", Source), Statement("retire", Source)>>)
  \o If(~p.view, <<Statement("bootstrap", Source)>>)
  \o If(~(p.recreate /\ p.view), <<Statement("pause", Source)>>)

(* Plain views, then materialized views, then tables, each in reverse.     *)
TeardownStatements(p) ==
  Each("drop view", Reverse(InOrder(p.scope \cap Views)))
  \o Each("drop view", Reverse(InOrder(p.scope \ Views)))
  \o Each("drop table", Reverse(InOrder(p.scope \ Views)))

(* The materialized views by name, each after the tables it reads and its  *)
(* own, as far as they are rebuilt and not created yet; then plain views.  *)
RealizationStatements(p) ==
  LET tables(m) == {m} \cup Inputs(m) \cup Upstream(Project, Inputs(m), {"driving_input"})
      created(done) == {s.on : s \in Range(done)}
      views == ByName(p.scope \ Views)
      done[n \in 0 .. Len(views)] ==
        IF n = 0 THEN <<>>
        ELSE done[n - 1]
             \o Each("create table", InOrder((tables(views[n]) \cap p.scope)
                                               \ (Views \cup created(done[n - 1]))))
             \o <<Statement("create view", views[n])>>
  IN  done[Len(views)]
      \o Each("create view", InOrder(p.scope \cap Views))

(* The table models whose driving input is not rebuilt with them.          *)
ReplayRoots(p) == {m \in p.scope \ Views : Driving(m) \notin p.scope}

RootOf(p, m) ==
  LET root[n \in p.scope \ Views] == IF n \in ReplayRoots(p) THEN n ELSE root[Driving(n)]
  IN  root[m]

Propagated(p, root) == {m \in p.scope \ Views : RootOf(p, m) = root}

(* A target that joins a table rebuilt with it is replayed once more.      *)
FanInTargets(p) ==
  {m \in p.scope \ (Views \cup ReplayRoots(p)) : Sides(m) \cap p.scope # {}}

ReplayModels(p) == InOrder(ReplayRoots(p)) \o ByName(FanInTargets(p))

ReplayStatements(p) ==
  [i \in 1 .. 2 * Len(ReplayModels(p)) |->
     Statement(IF i % 2 = 1 THEN "capture" ELSE "replay", ReplayModels(p)[(i + 1) \div 2])]

\* Mutant: the landing view is back before the replay.
StatementsActivatedEarly(p) ==
  PreparationStatements(p) \o TeardownStatements(p) \o RealizationStatements(p)
  \o <<Statement("activate", Source)>> \o ReplayStatements(p)

AssembleStatements(p) ==
  PreparationStatements(p) \o TeardownStatements(p) \o RealizationStatements(p)
  \o ReplayStatements(p) \o <<Statement("activate", Source)>>

(* A start time takes replay inputs that exist.                            *)
BoundedInputsExist(p) ==
  p.start # 0 => \A m \in Range(ReplayModels(p)) : Present(Driving(m))

(* The snapshot is read and the statements are put together in one go.     *)
Plan(b, selected, includeMissing, start) ==
  LET normal == Downstream(Project, selected, AllEdgeTypes)
      added == IF includeMissing THEN MissingUpstream(normal) ELSE {}
      new == NewPlan(added, normal \cup added, start)
  IN  /\ build[b].pc = "idle"
      /\ Spend("builds")
      /\ PlanAccepted(added, normal \cup added)
      /\ BoundedInputsExist(new)
      /\ build' = [build EXCEPT ![b] =
                     [Idle EXCEPT !.pc = "planned", !.plan = new,
                                  !.steps = AssembleStatements(new)]]
      /\ UNCHANGED <<authored, topic, offset, target, baseline, lock, history>>

(* All models, the changed ones or one by name; only a selection may ask   *)
(* for what is missing above it, or name a start time, which is refused    *)
(* where drift alone selects.                                              *)
PlanBuild(b) ==
  \/ Plan(b, Models, FALSE, 0)
  \/ \E missing \in BOOLEAN, start \in spent.starts \cup {0} :
        \/ (DriftSelects => start = 0) /\ Plan(b, ChangedModels, missing, start)
        \/ \E m \in spent.selects : Plan(b, {m}, missing, start)

-----------------------------------------------------------------------------
(* The execution.                                                          *)

Running(b) == lock = b /\ build[b].pc = "run"

Current(b) == build[b].steps[build[b].at]

Completed(b) ==
  {build[b].steps[i] : i \in 1 .. build[b].at - 1}

Go(b, pc) == build' = [build EXCEPT ![b].pc = pc]

(* Takes the lock and looks once more for consumers of what is rebuilt     *)
(* above the selection; nothing else of the plan is looked at again.       *)
Begin(b) ==
  LET p == build[b].plan
  IN  /\ build[b].pc = "planned" /\ lock = None
      /\ \/ /\ OutOfScopeConsumers(p.added, p.scope) # {}
            /\ build' = [build EXCEPT ![b] = Idle]
            /\ UNCHANGED lock
         \/ /\ OutOfScopeConsumers(p.added, p.scope) = {}
            /\ lock' = b
            /\ Go(b, IF p.landing THEN "run" ELSE "reset")
      /\ UNCHANGED <<authored, topic, offset, target, baseline, spent, history>>

Mishap(what) == history' = [history EXCEPT !.mishaps = @ \cup {what}]

(* The broker refuses to delete a group that consumes, and may not answer; *)
(* both are only noted.                                                    *)
DeleteGroup ==
  \/ /\ ~flowing
     /\ offset' = 0
     /\ IF Present(Source) THEN Mishap("stale reset") ELSE UNCHANGED history
     /\ UNCHANGED spent
  \/ /\ flowing
     /\ UNCHANGED <<offset, spent, history>>
  \/ /\ Spend("faults")
     /\ UNCHANGED offset
     /\ IF offset > 0 /\ ~Present(Source) THEN Mishap("not reset") ELSE UNCHANGED history

\* Mutant: committed offsets are left alone.
KeepOffsets(b) ==
  /\ lock = b /\ build[b].pc = "reset"
  /\ Go(b, "run")
  /\ UNCHANGED <<authored, topic, offset, target, baseline, lock, spent, history>>

(* A landing table that was absent when the plan was made starts from the  *)
(* earliest event.                                                         *)
ResetFreshLandingOffsets(b) ==
  /\ lock = b /\ build[b].pc = "reset"
  /\ DeleteGroup
  /\ Go(b, "run")
  /\ UNCHANGED <<authored, topic, target, baseline, lock>>

(* What the warehouse requires of a statement.                             *)
Works(b, s) ==
  CASE s.op = "create table"  -> ~Present(s.on)
    [] s.op = "create view"   -> /\ \A x \in Inputs(s.on) : Present(x)
                                 /\ s.on \notin Views => live[s.on] = 0 /\ Present(s.on)
    [] s.op = "stage"         -> staged = 0
    [] s.op = "swap"          -> kafka # 0 /\ staged # 0
    [] s.op = "capture"       -> Present(Driving(s.on))
    [] s.op = "replay"        -> Present(s.on) /\ Present(Driving(s.on))
    [] s.op \in {"bootstrap", "activate"} -> kafka # 0 /\ Present(Source)
    [] OTHER                  -> TRUE

(* An insert that fails may have added any part of its rows.               *)
Part(captured, whole) ==
  IF whole THEN {captured}
  ELSE {[e \in Events |-> IF e \in es THEN captured[e] ELSE 0] : es \in SUBSET Events}

(* The part of a driving input that a replay reads.  Offsets begin with    *)
(* the last one of a time up to the start time, a cursor with the first    *)
(* one of a time from it on; both end with the last that is there.         *)
(* Timestamps end with the time of the server.                             *)
Read(m) == {e \in Events : rows[Driving(m)][e] > 0}

InWindow(e, m, start, now) ==
  /\ spent.lineage = "offsets" => \A f \in Read(m) : Stamp[f] <= start => f <= e
  /\ spent.lineage = "cursor" => \E f \in Read(m) : f <= e /\ Stamp[f] >= start
  /\ spent.lineage = "timestamp" => start <= Stamp[e] /\ Stamp[e] <= now

Boundary(m, start, now) ==
  [e \in Events |-> IF InWindow(e, m, start, now) THEN rows[Driving(m)][e] ELSE 0]

(* The rows a replay may leave out: older than the start time asked for    *)
(* (for offsets: before one that is), or stamped ahead of the server.      *)
MayLeave(m, start, now) ==
  {e \in Read(m) :
     \/ spent.lineage = "offsets" /\ \E f \in Read(m) : e < f /\ Stamp[f] <= start
     \/ spent.lineage # "offsets" /\ Stamp[e] < start
     \/ spent.lineage = "timestamp" /\ now < Stamp[e]}

(* What the replays of a table may have left out since it was created.     *)
Left(b, s, now) ==
  CASE s.op = "create table" -> [history.left EXCEPT ![s.on] = {}]
    [] s.op = "capture" ->
         [history.left EXCEPT ![s.on] = @ \cup MayLeave(s.on, build[b].plan.start, now)]
    [] OTHER -> history.left

(* What it changes of the source, of the tables and of the views.          *)
ChangeSource(b, s, now) ==
  LET p == build[b].plan
  IN  /\ kafka' = CASE s.op = "prepare kafka" /\ kafka = 0 -> p.declared
                    [] s.op = "swap" -> staged
                    [] OTHER -> kafka
      /\ staged' = CASE s.op \in {"clear", "retire", "recover staged"} -> 0
                     [] s.op = "stage" -> p.declared
                     [] s.op = "swap" -> kafka
                     [] OTHER -> staged
      /\ flowing' = CASE s.op = "pause" -> FALSE
                      [] s.op \in {"bootstrap", "activate"} -> TRUE
                      [] OTHER -> flowing
      /\ history' = [history EXCEPT !.fed = @ \/ flowing',
                                    !.built = @ \ ({s.on} \cap Models),
                                    !.left = Left(b, s, now)]

ChangeTables(b, s, whole) ==
  CASE s.op = "prepare landing" /\ ~Present(Source) ->
         rows' = [rows EXCEPT ![Source] = NoRows]
    [] s.op = "create table" -> rows' = [rows EXCEPT ![s.on] = NoRows]
    [] s.op = "drop table"   -> rows' = [rows EXCEPT ![s.on] = None]
    [] s.op = "replay"       -> \E new \in Part(build[b].captured, whole) :
                                  rows' = Inserted(s.on, Joined(s.on, new))
    [] OTHER                 -> UNCHANGED rows

ChangeViews(b, s) ==
  live' = CASE s.op = "drop view"   -> [live EXCEPT ![s.on] = 0]
            [] s.op = "create view" -> [live EXCEPT ![s.on] = build[b].plan.version[s.on]]
            [] OTHER                -> live

Apply(b, s, whole, now) ==
  ChangeSource(b, s, now) /\ ChangeTables(b, s, whole) /\ ChangeViews(b, s)

(* The boundary of a replay is read from its driving input, once, at a     *)
(* time of the server's clock.                                             *)
RunStatement(b) ==
  /\ Running(b)
  /\ build[b].at <= Len(build[b].steps)
  /\ Works(b, Current(b))
  /\ \E now \in Times :
        /\ Apply(b, Current(b), TRUE, now)
        /\ build' = [build EXCEPT
                       ![b].at = @ + 1,
                       ![b].captured =
                          IF Current(b).op = "capture"
                          THEN Boundary(Current(b).on, build[b].plan.start, now) ELSE None]
  /\ UNCHANGED <<authored, topic, offset, baseline, lock, spent>>

\* Mutant: a pause that failed counts as one that did nothing.
PausedByCompleted(b) == \E s \in Completed(b) : s.op \in {"pause", "clear"}

(* A source counts as paused when a pause or a clear was attempted.        *)
PausedBy(b) ==
  \E s \in Completed(b) \cup {Current(b)} : s.op \in {"pause", "clear"}

(* An error, or an interrupt: the statement took effect, in part, or not.  *)
FailStatement(b) ==
  /\ Running(b)
  /\ build[b].at <= Len(build[b].steps)
  /\ \/ ~Works(b, Current(b)) /\ UNCHANGED <<target, spent, history>>
     \/ /\ Works(b, Current(b)) /\ Spend("faults")
        /\ (\E now \in Times : Apply(b, Current(b), FALSE, now)) \/ UNCHANGED <<target, history>>
  /\ Go(b, IF PausedBy(b) THEN "recover" ELSE "failed")
  /\ UNCHANGED <<authored, topic, offset, baseline, lock>>

RecoveryStatements(b) ==
  If(build[b].plan.recreate, <<Statement("recover staged", Source)>>)
  \o If(Statement("activate", Source) \notin Completed(b), <<Statement("activate", Source)>>)

(* Every recovery statement is attempted, whatever became of the others.   *)
Recover(b) ==
  LET s == RecoveryStatements(b)[build[b].fix]
  IN  /\ lock = b /\ build[b].pc = "recover"
      /\ build[b].fix <= Len(RecoveryStatements(b))
      /\ \/ Works(b, s) /\ (\E now \in Times : Apply(b, s, TRUE, now)) /\ UNCHANGED spent
         \/ /\ (~Works(b, s) /\ UNCHANGED spent) \/ Spend("faults")
            /\ Mishap("not recovered")
            /\ UNCHANGED target
      /\ build' = [build EXCEPT ![b].fix = @ + 1]
      /\ UNCHANGED <<authored, topic, offset, baseline, lock>>

Recovered(b) ==
  /\ build[b].pc = "recover"
  /\ build[b].fix > Len(RecoveryStatements(b))
  /\ Go(b, "failed")
  /\ UNCHANGED <<authored, topic, offset, target, baseline, lock, spent, history>>

-----------------------------------------------------------------------------
(* The outcome.                                                            *)

(* What a failed build still applied: the models that completed replays    *)
(* propagated to, but for those whose own replay is missing.               *)
AppliedModels(b) ==
  LET p == build[b].plan
      replayed == {m \in Models : Statement("replay", m) \in Completed(b)}
  IN  (UNION {Propagated(p, r) : r \in ReplayRoots(p) \cap replayed})
        \ {m \in Models : \E i \in DOMAIN ReplayModels(p) :
                            m = ReplayModels(p)[i] /\ m \notin replayed}

(* persist_direct_fingerprints is best effort; then the lock is released.  *)
Conclude(b, applied) ==
  /\ \/ /\ baseline' = [m \in Models |-> IF m \in applied THEN build[b].plan.version[m]
                                         ELSE baseline[m]]
        /\ history' = [history EXCEPT !.built = @ \cup applied, !.unrecorded = @ \ applied]
        /\ UNCHANGED spent
     \/ /\ Spend("faults")
        /\ history' = [history EXCEPT !.built = @ \cup applied, !.unrecorded = @ \cup applied]
        /\ UNCHANGED baseline
  /\ lock' = None
  /\ build' = [build EXCEPT ![b] = Idle]
  /\ UNCHANGED <<authored, topic, offset, target>>

Succeed(b) ==
  /\ Running(b)
  /\ build[b].at > Len(build[b].steps)
  /\ Conclude(b, build[b].plan.scope)

Fail(b) ==
  /\ build[b].pc = "failed"
  /\ Conclude(b, AppliedModels(b))

(* The process dies; its lock stays until somebody removes it.             *)
Crash(b) ==
  /\ lock = b /\ build[b].pc \in {"reset", "run", "recover", "failed"}
  /\ Spend("crashes")
  /\ Mishap("crash")
  /\ build' = [build EXCEPT ![b] = Idle]
  /\ UNCHANGED <<authored, topic, offset, target, baseline, lock>>

\* Mutant: the lock of a build that runs is removed.
ReleaseAnyLock ==
  /\ lock # None
  /\ lock' = None
  /\ UNCHANGED <<authored, topic, offset, target, baseline, build, spent, history>>

ReleaseByHand ==
  /\ lock # None
  /\ build[lock].pc \in {"idle", "planned"}
  /\ lock' = None
  /\ UNCHANGED <<authored, topic, offset, target, baseline, build, spent, history>>

-----------------------------------------------------------------------------

Builder(b) ==
  \/ PlanBuild(b)
  \/ Begin(b)
  \/ ResetFreshLandingOffsets(b)
  \/ RunStatement(b)
  \/ FailStatement(b)
  \/ Recover(b)
  \/ Recovered(b)
  \/ Succeed(b)
  \/ Fail(b)
  \/ Crash(b)

Next ==
  \/ \E b \in Builders : Builder(b)
  \/ Publish
  \/ Land
  \/ Edit
  \/ ResetTarget
  \/ ReleaseByHand

Spec == Init /\ [][Next]_vars

-----------------------------------------------------------------------------
(* Properties.                                                             *)

Versions == 0 .. 2

TypeOK ==
  /\ version \in [Models -> 1 .. 2] /\ declared \in 1 .. 2
  /\ topic \in 0 .. MaxEvents /\ offset \in 0 .. topic
  /\ kafka \in Versions /\ staged \in Versions /\ flowing \in BOOLEAN
  /\ \A x \in DOMAIN rows : rows[x] = None \/ rows[x] \in [Events -> Nat]
  /\ live \in [Models -> Versions] /\ baseline \in [Models -> Versions]
  /\ lock \in Builders \cup {None}
  /\ \A b \in Builders :
       /\ build[b].pc \in {"idle", "planned", "reset", "run", "recover", "failed"}
       /\ build[b].pc \in {"reset", "run", "recover", "failed"} => lock = b
       /\ build[b].pc = "run" /\ build[b].at <= Len(build[b].steps)
             /\ Current(b).op = "replay" => build[b].captured # None
  /\ history.built \subseteq Models /\ history.unrecorded \subseteq Models

(* README: "retained replay columns let a later build reconstruct the      *)
(* affected scope".  A table that a build reports as applied has the rows  *)
(* of its driving input, each as often as that has it, whatever was        *)
(* published while the source was paused, replayed and activated.  A join  *)
(* may lack some of them, and so may a replay: what it was to leave out    *)
(* of its start time, and rows that were stamped ahead of the server's     *)
(* clock when timestamps are the lineage (history.left).                   *)
RowsOnce ==
  \A m \in history.built \ Views :
    /\ Present(m) /\ Present(Driving(m))
    /\ \A e \in Events : IF Sides(m) = {} /\ e \notin history.left[m]
                         THEN rows[m][e] = rows[Driving(m)][e]
                         ELSE rows[m][e] <= rows[Driving(m)][e]

(* What a build, failed ones included, reports as applied stands: its      *)
(* relations exist, its rows are those of its input, and the fingerprint   *)
(* --changed will read names the definition that is deployed, unless the   *)
(* fingerprint's own write was lost.                                       *)
AppliedStands ==
  /\ \A m \in history.built : live[m] # 0
  /\ RowsOnce
  /\ \A m \in history.built \ history.unrecorded : baseline[m] = live[m]

(* "Fresh landing tables consume from earliest": the landing table has     *)
(* every event the consumer group has committed, once, across resets of    *)
(* the target and crashed builds, unless the broker did not delete the     *)
(* group, or a plan older than the landing table had it deleted.           *)
LandedOnce ==
  Present(Source) /\ history.mishaps \cap {"not reset", "stale reset"} = {} =>
    rows[Source] = [e \in Events |-> IF e <= offset THEN 1 ELSE 0]

(* A build does not leave the source paused, nor a staged Kafka table      *)
(* behind, wherever it fails or is interrupted, unless it was killed or a  *)
(* statement of its recovery failed too.                                   *)
SourceRestored ==
  lock = None /\ history.fed /\ history.mishaps \cap {"crash", "not recovered"} = {} =>
    flowing /\ staged = 0
=============================================================================
