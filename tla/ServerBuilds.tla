---------------------------- MODULE ServerBuilds ----------------------------
(***************************************************************************)
(* Builds started from the browser: the start, cancel and kill routes      *)
(* (dev_server/_helpers/server/api_routes.py), the manager of the one      *)
(* child process (dev_server/classes/build_process.py), the child itself   *)
(* (cli/build) with its event stream (run_event_sink.py), the warehouse    *)
(* queries it sends, the cancellation coordinator, the durable rows and    *)
(* events from which a run's status is derived (runs_query.py), and the    *)
(* compile the server holds beside the project on disk                     *)
(* (dev_server_state.py).                                                  *)
(*                                                                         *)
(* The child compiles the disk again, not what the server authorised.  Its *)
(* statements reach the manager through its standard output; a cancel      *)
(* signals the process and kills the query it last heard of, in a thread   *)
(* of its own.  Event and row writes are best effort.  Runs are started in *)
(* order, from the browser or from a shell.  A project is                  *)
(* [owner, upstream, roles, graph], graph saying that all but its access   *)
(* policy compiles; a query is <<run, model>>.  The builds are direct;     *)
(* what a statement does to the warehouse is in DirectBuild, the lock's    *)
(* own steps in TargetLock.                                                *)
(***************************************************************************)
EXTENDS Integers, Sequences, FiniteSets, FiniteSetsExt

CONSTANTS
  Runs,        \* 1..n, started in this order
  Models,      \* numbers, in execution order
  Pipelines,   \* numbers too, others
  Users, Admins,
  Projects, FirstProject,
  Target, AllMemberships, FirstMemberships,
  None,
  Casts        \* bounds of a behaviour: who starts each run, what is asked for, ...

Auth == INSTANCE Authorization

(* analyze_project succeeds.                                               *)
Compiles(p) == p.graph /\ Auth!BuildCompiledRoles(p.roles)

(* The next run is the lowest one not started, the next statement that of  *)
(* the lowest model left, and one project compiles.                        *)
ASSUME RunsAssumption ==
  /\ Runs \subseteq Nat /\ Runs = 1..Cardinality(Runs)
  /\ Models \subseteq Nat
  /\ "shell" \notin Users
  /\ FirstProject \in Projects /\ Compiles(FirstProject)
  /\ \A c \in Casts : DOMAIN c.by \subseteq Runs /\ c.selectors \subseteq Models \cup Pipelines

VARIABLES
  disk, held,   \* the project on disk; the compile the server holds
  members,      \* project role assignments in the control store
  cast, changes,   \* the bounds of this behaviour; changes so far
  asked,        \* how a run was asked for, None before; allowed: what the route granted
  child,        \* the run's process
  output,       \* its standard output, not read yet: a query id, None for its completion
  queries,      \* the warehouse's view of every query
  lock,         \* holder of the target mutation lock
  rows, events, age,   \* durable invocation rows and events; age of the last event
  manager,      \* BuildProcessManager
  cancels       \* one cancellation per run: its caller and then its thread

project == <<disk, held, members, cast, changes>>
durable == <<rows, events, age>>
vars == <<project, asked, child, output, queries, lock, durable, manager, cancels>>

Queries == Runs \X Models
NoPlan == [writes |-> {}, reads |-> {}, pipelines |-> {}]
Gone == {"off", "exited", "killed"}
Alive(r) == child[r].phase \notin Gone

Init ==
  /\ disk = FirstProject /\ held = FirstProject /\ members = FirstMemberships
  /\ cast \in Casts /\ changes = 0
  /\ asked = [r \in Runs |-> None]
  /\ child = [r \in Runs |-> [phase |-> "off", plan |-> NoPlan, todo |-> {}, query |-> None,
                              outcome |-> None, signals |-> 0]]
  /\ output = [r \in Runs |-> <<>>]
  /\ queries = [q \in Queries |-> "none"]
  /\ lock = None
  /\ rows = [r \in Runs |-> {}] /\ events = [r \in Runs |-> {}] /\ age = [r \in Runs |-> 0]
  /\ manager = [run |-> None, active |-> None, cancelling |-> None, status |-> None,
                force |-> FALSE, thread |-> None]
  /\ cancels = [r \in Runs |-> [stage |-> "none", query |-> None, confirmed |-> FALSE,
                                early |-> FALSE]]

-----------------------------------------------------------------------------
(* The project on disk, the held compile and the project roles.            *)

(* Somebody edits the project or its access policy.                        *)
Edit(p) ==
  /\ changes < cast.changes /\ p # disk
  /\ disk' = p /\ changes' = changes + 1
  /\ UNCHANGED <<held, members, cast, asked, child, output, queries, lock, durable, manager, cancels>>

(* grant_project_role, revoke_project_role: read at the next decision.     *)
ChangeMembership(m) ==
  /\ changes < cast.changes
  /\ members' = IF m \in members THEN members \ {m} ELSE members \cup {m}
  /\ changes' = changes + 1
  /\ UNCHANGED <<disk, held, cast, asked, child, output, queries, lock, durable, manager, cancels>>

Allowed(u, permission, scope, pipelines) ==
  Auth!Decide(u \in Admins, held.roles, members, u, Target, permission, scope, pipelines)

(* reload_guarded: the guard reads the held policy; a compile that fails   *)
(* keeps the held one.                                                     *)
Reload(u) ==
  /\ Allowed(u, "project.reload", "project", {})
  /\ Compiles(disk) /\ held # disk
  /\ held' = disk
  /\ UNCHANGED <<disk, members, cast, changes, asked, child, output, queries, lock, durable,
                 manager, cancels>>

(* What a build of this selector writes and reads, and the pipeline each   *)
(* of these models belongs to (PreparedBuildScope.resolve, pipeline_scope).*)
PreparedScope(p, s) ==
  LET writes == IF s \in Models THEN {s} ELSE {m \in Models : p.owner[m] = s}
      reads == (UNION {p.upstream[m] : m \in writes}) \ writes
  IN  [writes |-> writes, reads |-> reads,
       pipelines |-> {<<m, p.owner[m]>> : m \in writes \cup reads}]

PipelinesOf(p, models) == {p.owner[m] : m \in models}

(* None is told apart from what a variable may hold beside it.             *)
ASSUME NoneAssumption ==
  /\ None \notin {"project", "target"}
  /\ None \notin [active : BOOLEAN, admin : BOOLEAN]
  /\ None \notin Queries
  /\ \A p \in Projects, s \in Models \cup Pipelines, u \in Users \cup {"shell"} :
       LET scope == PreparedScope(p, s)
       IN  /\ scope # None
           /\ \A expected \in {scope, None}, allowed \in {PipelinesOf(p, scope.writes), {}} :
                [by |-> u, selector |-> s, expected |-> expected, allowed |-> allowed] # None

-----------------------------------------------------------------------------
(* The status of a run.                                                    *)

(* derive_run_status for a stream without a terminal fact, and the         *)
(* cancellation events that override it.                                   *)
DerivedStatus(r) ==
  IF "cancellation_failed" \in events[r] THEN "cancellation_failed"
  ELSE IF "cancellation_completed" \in events[r] THEN "cancelled"
  ELSE <<"running", "unresponsive", "presumed_failed">>[age[r] + 1]

(* read_active_runs: a start, no completion, no terminal row.              *)
ActiveRuns ==
  {r \in Runs : "run_started" \in events[r] /\ "run_completed" \notin events[r] /\ rows[r] = {}}

(* The runs a new build is held against, and the conflict with one.        *)
BlockingRuns == {r \in ActiveRuns : DerivedStatus(r) \in {"running", "unresponsive"}}

OverlapsScope(r, scope) ==
  LET active == child[r].plan
  IN  \/ active.writes \cap (scope.writes \cup scope.reads) # {}
      \/ active.reads \cap scope.writes # {}

-----------------------------------------------------------------------------
(* Starting a build.                                                       *)

NextRun == LET free == {r \in DOMAIN cast.by : asked[r] = None}
           IN  IF free = {} THEN None ELSE Min(free)

Launch(r, request) ==
  /\ asked' = [asked EXCEPT ![r] = request]
  /\ child' = [child EXCEPT ![r].phase = "launched"]

ThreadAlive ==
  manager.thread # None
    /\ cancels[manager.thread].stage \in {"query", "grace", "terminate", "wait"}

(* The start_build route, under the query lock, with BuildProcessManager.  *)
(* start: the scope is prepared from the held compile for anyone but an    *)
(* admin, and for an admin when some run is active.                        *)
StartBuild(u, s) ==
  LET r == NextRun
      scope == PreparedScope(held, s)
      prepared == u \notin Admins \/ BlockingRuns # {}
  IN  /\ r # None /\ u \in cast.by[r] /\ scope.writes # {}
      /\ Allowed(u, "build.direct.run", None, PipelinesOf(held, scope.writes))
      /\ ~\E b \in BlockingRuns : OverlapsScope(b, scope)
      /\ ~ThreadAlive
      /\ manager.run # None => ~Alive(manager.run)
      /\ Launch(r, [by |-> u, selector |-> s, expected |-> IF prepared THEN scope ELSE None,
                    allowed |-> PipelinesOf(held, scope.writes)])
      /\ manager' = [manager EXCEPT !.run = r, !.active = None, !.cancelling = None,
                                    !.status = None, !.force = FALSE]
      /\ UNCHANGED <<project, output, queries, lock, durable, cancels>>

(* sqltide build in a shell: no expected scope, no manager.                *)
ShellBuild(s) ==
  /\ NextRun # None /\ "shell" \in cast.by[NextRun]
  /\ Launch(NextRun, [by |-> "shell", selector |-> s, expected |-> None, allowed |-> {}])
  /\ UNCHANGED <<project, output, queries, lock, durable, manager, cancels>>

-----------------------------------------------------------------------------
(* The child process.                                                      *)

Phase(r, phase) == child' = [child EXCEPT ![r].phase = phase]

\* Mutant: the models are compared, the pipelines they belong to are not.
ValidateModelsOnly(expected, scope) ==
  expected = None \/ (expected.writes = scope.writes /\ expected.reads = scope.reads)

(* PreparedBuildScope.validate_expected.                                   *)
ValidateExpected(expected, scope) == expected = None \/ expected = scope

(* Whether a best-effort write is kept.                                    *)
Kept == IF cast.losses THEN BOOLEAN ELSE {TRUE}

(* run_build up to the preparation: the disk is compiled as it is now.  A  *)
(* refusal writes a failed row and exits.                                  *)
Prepare(r) ==
  LET scope == PreparedScope(disk, asked[r].selector)
      accepted == Compiles(disk) /\ scope.writes # {} /\ ValidateExpected(asked[r].expected, scope)
  IN  /\ child[r].phase = "launched"
      /\ IF accepted
         THEN /\ child' = [child EXCEPT ![r].phase = "prepared", ![r].plan = scope,
                                        ![r].todo = scope.writes]
              /\ rows' = rows
         ELSE /\ Phase(r, "exited")
              /\ \E kept \in Kept :
                   rows' = [rows EXCEPT ![r] = IF kept THEN {"failed"} ELSE {}]
      /\ UNCHANGED <<project, asked, output, queries, lock, events, age, manager, cancels>>

(* _emit: an event that cannot be stored is dropped.                       *)
Emit(r, kind) ==
  \/ events' = [events EXCEPT ![r] = @ \cup {kind}] /\ age' = [age EXCEPT ![r] = 0]
  \/ cast.losses /\ UNCHANGED <<events, age>>

RunStarted(r) ==
  /\ child[r].phase = "prepared"
  /\ Phase(r, "started") /\ Emit(r, "run_started")
  /\ UNCHANGED <<project, asked, output, queries, lock, rows, manager, cancels>>

(* A heartbeat, or any event of a statement, renews the last signal; the   *)
(* warehouse's clock moves on.                                             *)
Heartbeat(r) ==
  /\ age[r] > 0 /\ "run_started" \in events[r]
  /\ child[r].phase \in {"started", "building", "announced", "waiting", "leaving", "closing"}
  /\ age' = [age EXCEPT ![r] = 0]
  /\ UNCHANGED <<project, asked, child, output, queries, lock, rows, events, manager, cancels>>

SignalAges(r) ==
  /\ cast.ages /\ age[r] < 2 /\ r \in ActiveRuns
  /\ age' = [age EXCEPT ![r] = @ + 1]
  /\ UNCHANGED <<project, asked, child, output, queries, lock, rows, events, manager, cancels>>

(* execute_confirmed_direct_build: the lock is free, or the build fails.   *)
AcquireLock(r) ==
  /\ child[r].phase = "started"
  /\ IF lock = None THEN lock' = r /\ Phase(r, "building")
     ELSE /\ child' = [child EXCEPT ![r].phase = "closing", ![r].outcome = "failed"]
          /\ lock' = lock
  /\ UNCHANGED <<project, asked, output, queries, durable, manager, cancels>>

(* execute_warehouse_workflow for one statement: its id is printed, then   *)
(* the query is sent.                                                      *)
StatementStarted(r) ==
  LET q == <<r, Min(child[r].todo)>>
  IN  /\ child[r].phase = "building" /\ child[r].todo # {}
      /\ child' = [child EXCEPT ![r].phase = "announced", ![r].query = q]
      /\ output' = [output EXCEPT ![r] = Append(@, q)]
      /\ UNCHANGED <<project, asked, queries, lock, durable, manager, cancels>>

SendQuery(r) ==
  /\ child[r].phase = "announced"
  /\ Phase(r, "waiting")
  /\ queries' = [queries EXCEPT ![child[r].query] = "sent"]
  /\ UNCHANGED <<project, asked, output, lock, durable, manager, cancels>>

(* The warehouse begins and ends a query; it does not need the client.     *)
QueryBegins(q) ==
  /\ queries[q] = "sent"
  /\ queries' = [queries EXCEPT ![q] = "running"]
  /\ UNCHANGED <<project, asked, child, output, lock, durable, manager, cancels>>

QueryEnds(q) ==
  /\ queries[q] = "running"
  /\ \E result \in {"done", "failed"} : queries' = [queries EXCEPT ![q] = result]
  /\ UNCHANGED <<project, asked, child, output, lock, durable, manager, cancels>>

StatementCompleted(r) ==
  /\ child[r].phase = "waiting"
  /\ LET q == child[r].query
     IN  \/ /\ queries[q] = "done"
            /\ child' = [child EXCEPT ![r].phase = "building", ![r].todo = @ \ {q[2]}]
         \/ /\ queries[q] \in {"failed", "killed"}
            /\ child' = [child EXCEPT ![r].phase = "leaving", ![r].outcome = "failed"]
  /\ output' = [output EXCEPT ![r] = Append(@, None)]
  /\ UNCHANGED <<project, asked, queries, lock, durable, manager, cancels>>

AllBuilt(r) ==
  /\ child[r].phase = "building" /\ child[r].todo = {}
  /\ child' = [child EXCEPT ![r].phase = "leaving", ![r].outcome = "succeeded"]
  /\ UNCHANGED <<project, asked, output, queries, lock, durable, manager, cancels>>

(* The lock is released whatever happened, then the terminal row is        *)
(* written, then run_completed.                                            *)
ReleaseLock(r) ==
  /\ child[r].phase = "leaving"
  /\ Phase(r, "closing")
  /\ lock' = IF lock = r THEN None ELSE lock
  /\ UNCHANGED <<project, asked, output, queries, durable, manager, cancels>>

PersistTerminal(r) ==
  /\ child[r].phase = "closing"
  /\ Phase(r, "completing")
  /\ \E kept \in Kept : rows' = IF kept THEN [rows EXCEPT ![r] = @ \cup {child[r].outcome}]
                                   ELSE rows
  /\ UNCHANGED <<project, asked, output, queries, lock, events, age, manager, cancels>>

RunCompleted(r) ==
  /\ child[r].phase = "completing"
  /\ Phase(r, "exited") /\ Emit(r, "run_completed")
  /\ UNCHANGED <<project, asked, output, queries, lock, rows, manager, cancels>>

(* A SIGINT or SIGTERM raises KeyboardInterrupt wherever the child is.     *)
(* Inside the command it is a cancelled build that still releases the lock *)
(* and closes its stream; outside, and in a handler of the first one,      *)
(* run_build's own handler is left; inside that one, nothing is.           *)
Interrupt(r) ==
  LET phase == child[r].phase
  IN  /\ Alive(r) /\ child[r].signals > 0
      /\ child' = [child EXCEPT
           ![r].signals = @ - 1,
           ![r].outcome = IF phase \in {"started", "building", "announced", "waiting"}
                          THEN "cancelled" ELSE @,
           ![r].phase = CASE phase = "started" -> "closing"
                          [] phase \in {"building", "announced", "waiting"} -> "leaving"
                          [] phase = "unwinding" -> "exited"
                          [] OTHER -> "unwinding"]
      /\ UNCHANGED <<project, asked, output, queries, lock, durable, manager, cancels>>

(* _persist_cancelled_build: a row of its own, beside the one that may be  *)
(* there already.                                                          *)
Unwind(r) ==
  /\ child[r].phase = "unwinding"
  /\ Phase(r, "exited")
  /\ \E kept \in Kept : rows' = IF kept THEN [rows EXCEPT ![r] = @ \cup {"cancelled"}] ELSE rows
  /\ UNCHANGED <<project, asked, output, queries, lock, events, age, manager, cancels>>

(* Ctrl-C in the shell.                                                    *)
ShellInterrupt(r) ==
  /\ asked[r] # None /\ asked[r].by = "shell" /\ Alive(r) /\ child[r].signals = 0
  /\ child[r].outcome = None /\ child[r].phase # "unwinding"
  /\ child' = [child EXCEPT ![r].signals = 1]
  /\ UNCHANGED <<project, asked, output, queries, lock, durable, manager, cancels>>

(* The lock row of a dead run is removed by hand (TargetLock).             *)
ReleaseByHand ==
  /\ lock # None /\ ~Alive(lock)
  /\ lock' = None
  /\ UNCHANGED <<project, asked, child, output, queries, durable, manager, cancels>>

-----------------------------------------------------------------------------
(* Cancelling a build.                                                     *)

(* _consume_stdout: a line of the process the manager owns moves the       *)
(* active query.                                                           *)
ConsumeOutput(r) ==
  /\ output[r] # <<>>
  /\ output' = [output EXCEPT ![r] = Tail(@)]
  /\ manager' = IF manager.run = r THEN [manager EXCEPT !.active = Head(output[r])] ELSE manager
  /\ UNCHANGED <<project, asked, child, queries, lock, durable, cancels>>

(* cancel_build and cancel: the active query is read under the manager's   *)
(* lock; the signal and the thread come after it is given up.              *)
CancelBuild(u, r) ==
  /\ r \in cast.stops
  /\ manager.run = r /\ Alive(r) /\ manager.cancelling # r
  /\ u \in Admins \/ (r \in ActiveRuns
       /\ Allowed(u, "build.cancel", None, PipelinesOf(held, child[r].plan.writes)))
  /\ manager' = [manager EXCEPT !.cancelling = r, !.status = "cancelling"]
  /\ cancels' = [cancels EXCEPT ![r].stage = "signal", ![r].query = manager.active]
  /\ UNCHANGED <<project, asked, child, output, queries, lock, durable>>

Signalled(r) == [child EXCEPT ![r].signals = IF Alive(r) THEN @ + 1 ELSE @]
Stage(r, stage) == cancels' = [cancels EXCEPT ![r].stage = stage]

CancelSignal(r) ==
  /\ cancels[r].stage = "signal"
  /\ Stage(r, "assign") /\ child' = Signalled(r)
  /\ UNCHANGED <<project, asked, output, queries, lock, durable, manager>>

CancelThread(r) ==
  /\ cancels[r].stage = "assign"
  /\ Stage(r, "query") /\ manager' = [manager EXCEPT !.thread = r]
  /\ UNCHANGED <<project, asked, child, output, queries, lock, durable>>

(* cancel_workflow_query: KILL QUERY, and then the query is or is not seen *)
(* to be gone; the connection may fail before or after the kill.  A query  *)
(* the warehouse has not begun is not there to be killed.                  *)
CancelQuery(r) ==
  LET q == cancels[r].query
      Looked(confirmed, early) ==
        cancels' = [cancels EXCEPT ![r].stage = "grace", ![r].confirmed = confirmed,
                                   ![r].early = early]
  IN  /\ cancels[r].stage = "query"
      /\ \/ /\ q = None
            /\ Looked(TRUE, FALSE) /\ queries' = queries
         \/ /\ q # None /\ queries[q] = "running"
            /\ \E killed, confirmed \in BOOLEAN :
                 /\ confirmed => killed
                 /\ queries' = [queries EXCEPT ![q] = IF killed THEN "killed" ELSE @]
                 /\ Looked(confirmed, FALSE)
         \/ /\ q # None /\ queries[q] # "running"
            /\ \E confirmed \in BOOLEAN : Looked(confirmed, queries[q] \in {"none", "sent"})
            /\ queries' = queries
      /\ UNCHANGED <<project, asked, child, output, lock, durable, manager>>

(* The child outlives the grace period: SIGTERM.                           *)
GraceEnds(r) ==
  /\ cancels[r].stage = "grace" /\ Alive(r)
  /\ Stage(r, "terminate") /\ child' = Signalled(r)
  /\ UNCHANGED <<project, asked, output, queries, lock, durable, manager>>

\* Mutant: a child that outlives SIGTERM is waited for and nothing is offered.
WaitOnly(r) ==
  /\ cancels[r].stage = "terminate" /\ Alive(r)
  /\ Stage(r, "wait")
  /\ UNCHANGED <<project, asked, child, output, queries, lock, durable, manager>>

(* It outlives that too: the browser may kill it.                          *)
TerminateEnds(r) ==
  /\ cancels[r].stage = "terminate" /\ Alive(r)
  /\ Stage(r, "wait")
  /\ manager' = [manager EXCEPT !.force = TRUE,
       !.status = IF cancels[r].confirmed THEN "cancelling" ELSE "cancellation_failed"]
  /\ UNCHANGED <<project, asked, child, output, queries, lock, durable>>

\* Mutant: the process is gone, so the build counts as cancelled.
CancelledAnyway(r) == "cancellation_completed"

(* The outcome of a cancellation is that of the warehouse query.           *)
CancellationOutcome(r) ==
  IF cancels[r].confirmed THEN "cancellation_completed" ELSE "cancellation_failed"

(* The process has exited.  A manager that owns another process by now     *)
(* reports nothing; record_outcome may fail.                               *)
RecordOutcome(r) ==
  LET outcome == CancellationOutcome(r)
      failed == outcome = "cancellation_failed"
      Settled(status) == manager' = [manager EXCEPT !.force = FALSE, !.status = status]
  IN  /\ cancels[r].stage \in {"grace", "terminate", "wait"} /\ ~Alive(r)
      /\ Stage(r, "done")
      /\ IF manager.run # r THEN UNCHANGED <<manager, events, age>>
         ELSE \/ /\ Settled(IF failed THEN "cancellation_failed" ELSE "cancelled")
                 /\ events' = [events EXCEPT ![r] = @ \cup {outcome}]
                 /\ age' = [age EXCEPT ![r] = 0]
              \/ cast.losses /\ Settled("cancellation_failed") /\ UNCHANGED <<events, age>>
      /\ UNCHANGED <<project, asked, child, output, queries, lock, rows>>

(* kill_build: no handler runs, the lock row and the query stay.           *)
KillBuild(u, r) ==
  /\ Allowed(u, "build.kill", "target", {})
  /\ r \in cast.stops
  /\ manager.run = r /\ Alive(r)
  /\ Phase(r, "killed") /\ manager' = [manager EXCEPT !.force = FALSE]
  /\ UNCHANGED <<project, asked, output, queries, lock, durable, cancels>>

ChildStep(r) ==
  \/ Prepare(r) \/ RunStarted(r) \/ AcquireLock(r)
  \/ StatementStarted(r) \/ SendQuery(r) \/ StatementCompleted(r) \/ AllBuilt(r)
  \/ ReleaseLock(r) \/ PersistTerminal(r) \/ RunCompleted(r) \/ Interrupt(r) \/ Unwind(r)

CancelStep(r) ==
  \/ CancelSignal(r) \/ CancelThread(r) \/ CancelQuery(r)
  \/ GraceEnds(r) \/ TerminateEnds(r) \/ RecordOutcome(r)

Next ==
  \/ \E p \in Projects : Edit(p)
  \/ \E m \in AllMemberships : ChangeMembership(m)
  \/ \E u \in Users : Reload(u)
  \/ \E u \in Users, s \in cast.selectors : StartBuild(u, s)
  \/ \E s \in cast.selectors : ShellBuild(s)
  \/ \E u \in Users, r \in Runs : CancelBuild(u, r) \/ KillBuild(u, r)
  \/ \E r \in Runs : \/ ChildStep(r) \/ CancelStep(r) \/ ConsumeOutput(r)
                     \/ Heartbeat(r) \/ SignalAges(r) \/ ShellInterrupt(r)
  \/ \E q \in Queries : QueryBegins(q) \/ QueryEnds(q)
  \/ ReleaseByHand

(* The server's threads run; nothing is assumed of the child.              *)
Spec == Init /\ [][Next]_vars /\ \A r \in Runs : WF_vars(CancelStep(r))

-----------------------------------------------------------------------------
(* A build asked for by somebody who is not an admin writes only models    *)
(* that belong, in the project it compiled, to pipelines the server had    *)
(* found permitted when it started the child (validate_expected), however  *)
(* the disk, the policy and the assignments changed in between.            *)
AuthorizedWrites ==
  \A r \in Runs :
    asked[r] # None /\ asked[r].by \in Users \ Admins =>
      \A m \in Models : queries[<<r, m>>] # "none" =>
        \E pair \in child[r].plan.pipelines : pair[1] = m /\ pair[2] \in asked[r].allowed

(* A query that runs on although its run has given it up was missed by the *)
(* run's cancellation for a reason: it had not been heard of when the      *)
(* cancel was asked for, had not begun when it was looked for, its end was *)
(* not confirmed, or nobody cancelled it there yet.  A cancellation that   *)
(* is recorded as completed left no query it knew running                  *)
(* (_complete_cancellation, cancel_workflow_query).                        *)
LeftoversExplained ==
  \A r \in Runs, m \in Models :
    LET q == <<r, m>>
        c == cancels[r]
    IN  queries[q] \in {"sent", "running"} /\ child[r].phase # "waiting" =>
          \/ c.stage \in {"none", "signal", "assign", "query"}
          \/ c.query # q
          \/ c.early
          \/ ~c.confirmed /\ "cancellation_completed" \notin events[r]

(* The capabilities shown to a user are what the routes enforce for the    *)
(* same policy and assignments: a permission is shown exactly when its     *)
(* route allows it, and the pipelines of a permission are exactly those    *)
(* whose every nonempty set the routes allow                               *)
(* (ProjectAuthorizer.capabilities and decide).                            *)
CapabilitiesMatch ==
  \A u \in Users :
    LET admin == u \in Admins
        account == [active |-> TRUE, admin |-> admin]
        shown == Auth!CapabilitiesPayload(admin, held.roles, members, u, Target)
    IN  /\ \A p \in Auth!ScopedPermissions :
             p \in shown.permissions <=>
               Auth!RequireScoped(admin, account, held.roles, members, u, Target, p)
        /\ \A p \in Auth!PipelinePermissions, set \in (SUBSET Pipelines) \ {{}} :
             set \subseteq shown.pipelines[p] <=>
               Auth!RequirePipelines(admin, account, held.roles, members, u, Target, p, set)

(* A cancellation that was asked for ends, or the browser is offered to    *)
(* kill the process, even when the child never reacts to a signal          *)
(* (_complete_cancellation).                                               *)
CancelSettles ==
  \A r \in Runs : cancels[r].stage # "none" ~> (cancels[r].stage = "done" \/ manager.force)
=============================================================================
