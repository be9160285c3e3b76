----------------------------- MODULE Destruction -----------------------------
(***************************************************************************)
(* Destructive operations from the first plan to the last record: plans    *)
(* frozen in the relational plan store, reviewed and dispatched by the     *)
(* development server's routes or by the command line, and executed under  *)
(* the target lock while projects are edited, targets rebuilt, accounts    *)
(* revoked and processes killed.                                           *)
(***************************************************************************)
EXTENDS DestructionPlanning

CONSTANTS Servers,      \* development servers, each with its dispatch registry
          Shells,       \* command-line processes
          Foreign,      \* relations that other people may create
          Heavy,        \* relations that may outgrow the DROP size limit
          Users,        \* accounts that may be administrators
          PlanIds,      \* identities of stored plans, a bound on their number
          Projects,     \* the projects the files may hold
          Worlds,       \* initial [project, warehouse, requests] records
          MaxGeneration,\* bound on the rebuilds of one relation
          MaxUpsets,    \* bound on the edits, builds, crashes, deadlines ...
          None          \* no process, no plan

Procs == Servers \cup Shells

ASSUME ProcsAssumption ==
    /\ Servers \cap Shells = {}
    /\ None \notin Procs \cup Users \cup PlanIds
    /\ Foreign \cup Heavy \subseteq Relations
    /\ \A q \in Projects : Foreign \cap CurrentRelations(q) = {}
    /\ MaxGeneration \in Nat \ {0} /\ MaxUpsets \in Nat

\* What discovery makes sure of in any project it loads.
ASSUME ProjectsAssumption ==
    \A q \in Projects :
        /\ q.models \cap q.sources = {}
        /\ q.pipelineOf \in [q.models -> q.pipelines]
        /\ q.declares \in [q.pipelines -> SUBSET q.sources]
        /\ IsFiniteSet(q.pipelines)

\* What the initial worlds name: pipelines that are asked for, projects that
\* were built.
Named == UNION {req.pipelines \cup req.included : req \in UNION {w.requests : w \in Worlds}}

Builds == Projects \cup UNION {Range(w.warehouse.built) : w \in Worlds}

Requests == [op : {DestroyPipelines, ResetTarget}, pipelines : SUBSET Named,
             included : SUBSET Named, orphans : BOOLEAN]

Warehouses == [catalog : [Relations -> 0..MaxGeneration], large : SUBSET Relations,
               built : Seq(Builds), mappings : {w.warehouse.mappings : w \in Worlds},
               bindings : {w.warehouse.bindings : w \in Worlds}]

\* Deployment metadata names relations, and nothing dangles at first.
ASSUME WorldsAssumption ==
    \A w \in Worlds :
        /\ w.project \in Projects /\ w.warehouse \in Warehouses /\ w.requests \subseteq Requests
        /\ \A m \in w.warehouse.mappings : m.physical \in Relations
        /\ \A b \in w.warehouse.bindings : {b.logical, b.physical} \subseteq Relations
        /\ \A r \in Relations :
              Exists(w.warehouse, r) => \A u \in Uses[r] : Exists(w.warehouse, u)

VARIABLES project,     \* the project files
          warehouse,   \* catalog, sizes, manifests and deployment inventory
          admins,      \* the active administrators
          plans,       \* the plan store
          lock,        \* the holder of the target mutation lock
          exec,        \* what each process is executing
          runs,        \* the last terminal record of a run of each plan
          dropped,     \* history: <<relation, generation>> dropped for each plan
          started,     \* history: the processes that got to execute each plan
          vetted,      \* history: what the locked replan of each plan saw
          wanted,      \* the requests that are made in this behaviour
          upsets       \* how often the surroundings have interfered

vars == <<project, warehouse, admins, plans, lock, exec, runs, dropped,
          started, vetted, wanted, upsets>>

store == <<plans, admins>>
world == <<project, warehouse, wanted, upsets>>
history == <<dropped, started, vetted>>

Idle == [pc |-> "idle", id |-> None, orphans |-> FALSE, done |-> 0]

NoPlan == [status |-> "none", actor |-> None, late |-> FALSE, plan |-> None]

PhasesBefore == {"dispatched", "locked", "verified", "checked"}

Phases == {"idle", "prompt", "dropping", "stopped", "dead"} \cup PhasesBefore

TypeOK ==
    /\ project \in Projects
    /\ warehouse.catalog \in [Relations -> 0..MaxGeneration]
    /\ warehouse.large \subseteq Relations
    /\ admins \subseteq Users
    /\ \A i \in PlanIds :
          /\ plans[i].status \in {"none", "pending", "reviewed", "consumed", "expired"}
          /\ plans[i].status = "none" <=> plans[i].actor = None
    /\ lock \in Procs \cup {None}
    /\ \A p \in Procs : exec[p].pc \in Phases /\ exec[p].id \in PlanIds \cup {None}
    /\ upsets \in 0..MaxUpsets

Init ==
    /\ \E w \in Worlds :
          project = w.project /\ warehouse = w.warehouse /\ wanted = w.requests
    /\ admins = Users
    /\ plans = [i \in PlanIds |-> NoPlan]
    /\ lock = None
    /\ exec = [p \in Procs |-> Idle]
    /\ runs = [i \in PlanIds |-> None]
    /\ dropped = [i \in PlanIds |-> {}]
    /\ started = [i \in PlanIds |-> {}]
    /\ vetted = [i \in PlanIds |-> None]
    /\ upsets = 0

-----------------------------------------------------------------------------
(***************************************************************************)
(* The plan store.  A plan is read with its actor; one that is past its    *)
(* time is marked expired by whoever touches it.                           *)
(***************************************************************************)

Current(i, u) ==
    /\ plans[i].actor = u
    /\ plans[i].status \in {"pending", "reviewed"}
    /\ ~plans[i].late

\* A fresh identity.
Free(i) ==
    /\ plans[i].status = "none"
    /\ \A j \in PlanIds : j < i => plans[j].status # "none"

Save(i, u, plan) ==
    plans' = [plans EXCEPT ![i] = [status |-> "pending", actor |-> u,
                                   late |-> FALSE, plan |-> plan]]

\* Mutant: an expired row is blanked but keeps its actor.
BlankExpired(i) ==
    /\ plans[i].status \in {"pending", "reviewed"}
    /\ plans[i].late
    /\ plans' = [plans EXCEPT ![i].status = "none"]
    /\ UNCHANGED <<world, admins, lock, exec, runs, history>>

\* Any route that reads a plan past its time leaves it expired.
TouchExpired(i) ==
    /\ plans[i].status \in {"pending", "reviewed"}
    /\ plans[i].late
    /\ plans' = [plans EXCEPT ![i].status = "expired"]
    /\ UNCHANGED <<world, admins, lock, exec, runs, history>>

\* The guarded update of mark_reviewed.
MarkReviewed(i, u) ==
    /\ Current(i, u)
    /\ plans' = [plans EXCEPT ![i].status = "reviewed"]

-----------------------------------------------------------------------------
(***************************************************************************)
(* The routes.  Every one reads the account afresh from the control store. *)
(***************************************************************************)

Planned(req) == PlanError(req, project, warehouse) = "none"

\* create_plan: planned, authorized and saved; a refused request saves
\* nothing, and neither does the preview of a blocked one.
CreatePlan(u, req, i) ==
    /\ u \in admins
    /\ ~req.orphans
    /\ Free(i)
    /\ Planned(req)
    /\ Save(i, u, BuildPlan(req, project, warehouse))
    /\ UNCHANGED <<world, admins, lock, exec, runs, history>>

\* Mutant: the included pipelines of the failed run are forgotten.
RecoveryWithoutIncluded(run) ==
    [op |-> run.op, pipelines |-> run.requested, included |-> {},
     orphans |-> FALSE]

\* Requests of servers never ask for orphans, and a recovery repeats the
\* recorded selection only.
RecoveryRequest(run) ==
    [op |-> run.op, pipelines |-> run.requested, included |-> run.included,
     orphans |-> FALSE]

CreateRecoveryPlan(u, run, i) ==
    /\ u \in admins
    /\ run # None
    /\ run.outcome = "failed"
    /\ run.target = project.target
    /\ Free(i)
    /\ Planned(RecoveryRequest(run))
    /\ Save(i, u, BuildPlan(RecoveryRequest(run), project, warehouse))
    /\ UNCHANGED <<world, admins, lock, exec, runs, history>>

\* _authorize_plan: an active administrator, and the target of the plan.
Authorized(u, plan) ==
    /\ u \in admins
    /\ Compiles(project)
    /\ plan.target = project.target

ReviewPlan(u, i) ==
    /\ Current(i, u)
    /\ Authorized(u, plans[i].plan)
    /\ MarkReviewed(i, u)
    /\ UNCHANGED <<world, admins, lock, exec, runs, history>>

Reserved(s, i) == exec[s].id = i /\ exec[s].pc \notin {"idle", "dead"}

\* execute_plan: the plan, its review and the typed challenges are checked
\* and the plan reserved in this server; a background thread executes it,
\* one at a time under the query lock.
ExecutePlan(s, u, i) ==
    /\ exec[s].pc = "idle"
    /\ Current(i, u)
    /\ Authorized(u, plans[i].plan)
    /\ plans[i].status = "reviewed"
    /\ ~Reserved(s, i)
    /\ exec' = [exec EXCEPT ![s] = [Idle EXCEPT !.pc = "dispatched", !.id = i]]
    /\ UNCHANGED <<world, store, lock, runs, history>>

-----------------------------------------------------------------------------
(***************************************************************************)
(* The command line plans, prompts and executes in one process.            *)
(***************************************************************************)

ShellPlan(c, u, req, i) ==
    /\ exec[c].pc = "idle"
    /\ u \in admins
    /\ req.included = {}
    /\ Free(i)
    /\ Planned(req)
    /\ Save(i, u, BuildPlan(req, project, warehouse))
    /\ exec' = [exec EXCEPT ![c] = [Idle EXCEPT !.pc = "prompt", !.id = i,
                                                !.orphans = req.orphans]]
    /\ UNCHANGED <<world, admins, lock, runs, history>>

ShellCancel(c) ==
    /\ exec[c].pc = "prompt"
    /\ exec' = [exec EXCEPT ![c] = Idle]
    /\ UNCHANGED <<world, store, lock, runs, history>>

\* Confirmed and challenged; the same administrator is required again.
ShellConfirm(c) ==
    LET i == exec[c].id
    IN  /\ exec[c].pc = "prompt"
        /\ MarkReviewed(i, plans[i].actor)
        /\ exec' = [exec EXCEPT ![c] = IF plans[i].actor \in admins
                                       THEN [@ EXCEPT !.pc = "dispatched"] ELSE Idle]
        /\ UNCHANGED <<world, admins, lock, runs, history>>

-----------------------------------------------------------------------------
(***************************************************************************)
(* execute_destruction.                                                    *)
(***************************************************************************)

Frozen(p) == plans[exec[p].id].plan

Terminal(p, outcome, remaining, observed) ==
    [id |-> exec[p].id, op |-> Frozen(p).op, target |-> Frozen(p).target,
     requested |-> Frozen(p).requested, included |-> Frozen(p).included,
     orphans |-> Frozen(p).orphans, project |-> Frozen(p).project,
     outcome |-> outcome, completed |-> exec[p].done,
     remaining |-> remaining, observed |-> observed]

Unlock(p) == lock' = IF lock = p THEN None ELSE lock

\* The run cannot even be announced: nothing is recorded.
BeginFails(p) ==
    /\ exec[p].pc = "dispatched"
    /\ exec' = [exec EXCEPT ![p] = Idle]
    /\ UNCHANGED <<world, store, lock, runs, history>>

\* Whatever fails between the announcement and the first statement: the
\* failure is recorded, with nothing mutated, if there was anything to drop.
FailBefore(p) ==
    /\ exec[p].pc \in PhasesBefore
    /\ runs' = IF Statements(Frozen(p)) = <<>> THEN runs
               ELSE [runs EXCEPT ![exec[p].id] =
                        Terminal(p, "failed",
                            {e.name : e \in {f \in Frozen(p).relations : f.exists}},
                            FALSE)]
    /\ Unlock(p)
    /\ exec' = [exec EXCEPT ![p] = Idle]
    /\ UNCHANGED <<world, store, history>>

\* The run is announced with its evidence, strictly persisted, and the lock
\* of the target taken.
AcquireLock(p) ==
    /\ exec[p].pc = "dispatched"
    /\ lock = None
    /\ lock' = p
    /\ exec' = [exec EXCEPT ![p].pc = "locked"]
    /\ UNCHANGED <<world, store, runs, history>>

LockedRequest(p) ==
    [op |-> Frozen(p).op, pipelines |-> Frozen(p).requested,
     included |-> Frozen(p).included, orphans |-> exec[p].orphans]

\* Mutant: the impact is planned again but only the manifests are compared.
ReplanManifestOnly(p) ==
    /\ exec[p].pc = "locked"
    /\ Authorized(plans[exec[p].id].actor, Frozen(p))
    /\ Planned(LockedRequest(p))
    /\ project = Frozen(p).project
    /\ exec' = [exec EXCEPT ![p].pc = "verified"]
    /\ vetted' = [vetted EXCEPT ![exec[p].id] = [project |-> project, admins |-> admins]]
    /\ UNCHANGED <<world, store, lock, runs, dropped, started>>

\* Mutant: the administrator is not looked up again.
ReplanUnauthorized(p) ==
    /\ exec[p].pc = "locked"
    /\ Planned(LockedRequest(p))
    /\ BuildPlan(LockedRequest(p), project, warehouse) = Frozen(p)
    /\ exec' = [exec EXCEPT ![p].pc = "verified"]
    /\ vetted' = [vetted EXCEPT ![exec[p].id] = [project |-> project, admins |-> admins]]
    /\ UNCHANGED <<world, store, lock, runs, dropped, started>>

\* verify_destruction_drift: reauthorized and planned afresh from the files,
\* under the lock.  A plan that is equal but for sizes passes.
Replan(p) ==
    /\ exec[p].pc = "locked"
    /\ Authorized(plans[exec[p].id].actor, Frozen(p))
    /\ Planned(LockedRequest(p))
    /\ BuildPlan(LockedRequest(p), project, warehouse) = Frozen(p)
    /\ exec' = [exec EXCEPT ![p].pc = "verified"]
    /\ vetted' = [vetted EXCEPT ![exec[p].id] = [project |-> project, admins |-> admins]]
    /\ UNCHANGED <<world, store, lock, runs, dropped, started>>

\* consume reads and checks the row ...
ConsumeRead(p) ==
    /\ exec[p].pc = "verified"
    /\ Current(exec[p].id, plans[exec[p].id].actor)
    /\ plans[exec[p].id].status = "reviewed"
    /\ exec' = [exec EXCEPT ![p].pc = "checked"]
    /\ UNCHANGED <<world, store, lock, runs, history>>

\* Mutant: the update trusts the row that was read.
ConsumeUnguarded(p) ==
    LET i == exec[p].id
    IN  /\ exec[p].pc = "checked"
        /\ plans' = [plans EXCEPT ![i].status = "consumed"]
        /\ started' = [started EXCEPT ![i] = @ \cup {p}]
        /\ exec' = [exec EXCEPT ![p].pc = "dropping"]
        /\ UNCHANGED <<world, admins, lock, runs, dropped, vetted>>

\* ... and updates it only if it is still reviewed, unconsumed and in time.
ConsumeWrite(p) ==
    LET i == exec[p].id
    IN  /\ exec[p].pc = "checked"
        /\ plans[i].status = "reviewed"
        /\ ~plans[i].late
        /\ plans' = [plans EXCEPT ![i].status = "consumed"]
        /\ started' = [started EXCEPT ![i] = @ \cup {p}]
        /\ exec' = [exec EXCEPT ![p].pc = "dropping"]
        /\ UNCHANGED <<world, admins, lock, runs, dropped, vetted>>

-----------------------------------------------------------------------------
(***************************************************************************)
(* The drops, one statement at a time.                                     *)
(***************************************************************************)

NextRelation(p) == Statements(Frozen(p))[exec[p].done + 1]

MoreToDrop(p) == exec[p].pc = "dropping" /\ exec[p].done < Len(Statements(Frozen(p)))

DropNext(p) ==
    LET r == NextRelation(p)
    IN  /\ warehouse' = [warehouse EXCEPT !.catalog[r] = 0]
        /\ dropped' = [dropped EXCEPT ![exec[p].id] =
                          @ \cup {<<r, warehouse.catalog[r]>>}]

DropStatement(p) ==
    /\ MoreToDrop(p)
    /\ DropNext(p)
    /\ exec' = [exec EXCEPT ![p].done = @ + 1]
    /\ UNCHANGED <<project, wanted, upsets, store, lock, runs, started, vetted>>

\* The statement fails, whether or not the warehouse carried it out.
DropFails(p) ==
    /\ MoreToDrop(p)
    /\ \/ DropNext(p)
       \/ UNCHANGED <<warehouse, dropped>>
    /\ exec' = [exec EXCEPT ![p].pc = "stopped"]
    /\ UNCHANGED <<project, wanted, upsets, store, lock, runs, started, vetted>>

\* The statement completes and the event that says so is not persisted.
DropUnannounced(p) ==
    /\ MoreToDrop(p)
    /\ DropNext(p)
    /\ exec' = [exec EXCEPT ![p].pc = "stopped", ![p].done = @ + 1]
    /\ UNCHANGED <<project, wanted, upsets, store, lock, runs, started, vetted>>

\* Mutant: an interrupted statement counts as completed without a look.
InterruptAssumed(p) ==
    /\ p \in Shells
    /\ MoreToDrop(p)
    /\ \/ DropNext(p)
       \/ UNCHANGED <<warehouse, dropped>>
    /\ exec' = [exec EXCEPT ![p].pc = "stopped", ![p].done = @ + 1]
    /\ UNCHANGED <<project, wanted, upsets, store, lock, runs, started, vetted>>

\* Interrupted from the keyboard: the catalog tells whether the statement
\* was carried out, when it can be read.
Interrupt(p) ==
    /\ p \in Shells
    /\ MoreToDrop(p)
    /\ \/ DropNext(p)
       \/ UNCHANGED <<warehouse, dropped>>
    /\ \E readable \in BOOLEAN :
          exec' = [exec EXCEPT ![p].pc = "stopped",
                      ![p].done = IF readable /\ warehouse'.catalog[NextRelation(p)] = 0
                                  THEN @ + 1 ELSE @]
    /\ UNCHANGED <<project, wanted, upsets, store, lock, runs, started, vetted>>

RemainingRelations(plan) ==
    {r \in {e.name : e \in plan.relations} : warehouse.catalog[r] > 0}

Succeeded(p, remaining, observed) ==
    /\ exec[p].pc = "dropping"
    /\ observed
    /\ remaining = {}
    /\ exec[p].done = Len(Statements(Frozen(p)))

\* The catalog is read once more - a read that fails is not an empty target
\* - and the end recorded.  The completion event or the record may fail to
\* be persisted; with neither the run has no terminal record.
Conclude(p, observed, event, persisted) ==
    LET remaining == IF observed THEN RemainingRelations(Frozen(p)) ELSE {}
    IN  /\ \/ exec[p].pc = "stopped"
           \/ exec[p].pc = "dropping" /\ ~MoreToDrop(p)
        /\ runs' = IF ~event /\ ~persisted THEN runs
                   ELSE [runs EXCEPT ![exec[p].id] =
                            Terminal(p, IF Succeeded(p, remaining, observed) /\ event
                                        THEN "succeeded" ELSE "failed",
                                     remaining, observed)]
        /\ Unlock(p)
        /\ exec' = [exec EXCEPT ![p] = Idle]
        /\ UNCHANGED <<world, store, history>>

\* The process is killed.  The lock stays: it is released by hand.
Crash(p) ==
    /\ upsets < MaxUpsets
    /\ exec[p].pc \notin {"idle", "dead"}
    /\ exec' = [exec EXCEPT ![p] = [Idle EXCEPT !.pc = "dead"]]
    /\ upsets' = upsets + 1
    /\ UNCHANGED <<project, warehouse, wanted, store, lock, runs, history>>

ReleaseByHand(p) ==
    /\ exec[p].pc = "dead"
    /\ Unlock(p)
    /\ exec' = [exec EXCEPT ![p] = Idle]
    /\ UNCHANGED <<world, store, runs, history>>

-----------------------------------------------------------------------------
(***************************************************************************)
(* What happens around: project edits, builds under the target lock,       *)
(* growth, views of other people, time and revocations.                    *)
(***************************************************************************)

Edit(p) ==
    /\ upsets < MaxUpsets
    /\ p.name = project.name
    /\ upsets' = upsets + 1
    /\ project' = p
    /\ UNCHANGED <<warehouse, wanted, store, lock, exec, runs, history>>

BuiltDirectly(q) ==
    UNION {q.resources[k] : k \in {l \in Keys(q) :
               \E pipe \in LogicalPipelines(q, l) : q.mode[pipe] = "direct"}}

\* A direct build publishes the manifest of the project and creates the
\* relations of its direct pipelines anew, over relations that are there.
Rebuild ==
    /\ upsets < MaxUpsets
    /\ lock = None
    /\ Compiles(project)
    /\ \A r \in BuiltDirectly(project) :
          /\ warehouse.catalog[r] < MaxGeneration
          /\ \A u \in Uses[r] : u \in BuiltDirectly(project) \/ Exists(warehouse, u)
    /\ warehouse' = [warehouse EXCEPT
           !.catalog = [r \in Relations |-> IF r \in BuiltDirectly(project)
                                            THEN @[r] + 1 ELSE @[r]],
           !.built = <<project>> \o @]
    /\ upsets' = upsets + 1
    /\ UNCHANGED <<project, wanted, store, lock, exec, runs, history>>

\* Rows arrive: a relation outgrows the limit.
Grow(r) ==
    /\ upsets < MaxUpsets
    /\ Exists(warehouse, r)
    /\ warehouse' = [warehouse EXCEPT !.large = @ \cup {r}]
    /\ upsets' = upsets + 1
    /\ UNCHANGED <<project, wanted, store, lock, exec, runs, history>>

Executing == {p \in Procs : exec[p].pc \in {"verified", "checked", "dropping"}}

\* Somebody creates a view over a relation of the target, not during a
\* destruction that has already looked for one.
CreateForeignView(r) ==
    /\ upsets < MaxUpsets
    /\ Executing = {}
    /\ ~Exists(warehouse, r)
    /\ \A u \in Uses[r] : Exists(warehouse, u)
    /\ warehouse' = [warehouse EXCEPT !.catalog[r] = 1]
    /\ upsets' = upsets + 1
    /\ UNCHANGED <<project, wanted, store, lock, exec, runs, history>>

PassDeadline(i) ==
    /\ upsets < MaxUpsets
    /\ plans[i].status \in {"pending", "reviewed"}
    /\ ~plans[i].late
    /\ plans' = [plans EXCEPT ![i].late = TRUE]
    /\ upsets' = upsets + 1
    /\ UNCHANGED <<project, warehouse, wanted, admins, lock, exec, runs, history>>

RevokeAdmin(u) ==
    /\ upsets < MaxUpsets
    /\ u \in admins
    /\ admins' = admins \ {u}
    /\ upsets' = upsets + 1
    /\ UNCHANGED <<project, warehouse, wanted, plans, lock, exec, runs, history>>

-----------------------------------------------------------------------------
Execution(p) ==
    \/ BeginFails(p) \/ FailBefore(p)
    \/ AcquireLock(p) \/ Replan(p) \/ ConsumeRead(p) \/ ConsumeWrite(p)
    \/ DropStatement(p) \/ DropFails(p) \/ DropUnannounced(p) \/ Interrupt(p)
    \/ \E observed, event, persisted \in BOOLEAN : Conclude(p, observed, event, persisted)
    \/ Crash(p) \/ ReleaseByHand(p)

Next ==
    \/ \E u \in Users, i \in PlanIds :
          \/ \E req \in wanted : CreatePlan(u, req, i)
          \/ \E j \in PlanIds : CreateRecoveryPlan(u, runs[j], i)
          \/ ReviewPlan(u, i)
          \/ \E s \in Servers : ExecutePlan(s, u, i)
          \/ \E c \in Shells, req \in wanted : ShellPlan(c, u, req, i)
    \/ \E c \in Shells : ShellCancel(c) \/ ShellConfirm(c)
    \/ \E p \in Procs : Execution(p)
    \/ \E i \in PlanIds : TouchExpired(i) \/ PassDeadline(i)
    \/ \E p \in Projects : Edit(p)
    \/ \E r \in Heavy : Grow(r)
    \/ \E r \in Foreign : CreateForeignView(r)
    \/ \E u \in Users : RevokeAdmin(u)
    \/ Rebuild

Spec == Init /\ [][Next]_vars

-----------------------------------------------------------------------------
DroppedNames(i) == {x[1] : x \in dropped[i]}

\* The evidence on which a plan holds a relation.
EvidenceFor(i, r) ==
    {x[4] : x \in UNION {e.associations : e \in {f \in plans[i].plan.relations :
                                                     f.name = r}}}

OwnersAtReplan(i, r) ==
    UNION {LogicalPipelines(vetted[i].project, k) :
              k \in {l \in Keys(vetted[i].project) : r \in vetted[i].project.resources[l]}}

\* No relation is dropped that, in the project as it stands when the plan is
\* looked at under the lock, also belongs to a pipeline outside the plan:
\* planning, review and execution may lie hours and edits apart
\* (_resolve_pipeline_selection, _eligible_historical_resources and the drift
\* check together).  Recorded deployments are the exception: a name that
\* only they tie to the plan is looked at in SparesLiveNames.
SparesOthers ==
    \A i \in PlanIds : \A r \in DroppedNames(i) :
        \/ OwnersAtReplan(i, r) \subseteq plans[i].plan.affected
        \/ EvidenceFor(i, r) \cap {"current_manifest", "historical_manifest"} = {}

\* "Historical deployment metadata alone never authorizes deletion of a live
\* same-name relation" (README.md): what _add_virtual_inventory_relations
\* adds is never a relation of a pipeline the plan does not affect.
SparesLiveNames ==
    \A i \in PlanIds : \A r \in DroppedNames(i) :
        OwnersAtReplan(i, r) \subseteq plans[i].plan.affected

\* What is dropped is what was reviewed: the very generation of the relation
\* that the frozen plan shows, although a build may have replaced it between
\* the review and the lock (verify_destruction_drift, consume).
DroppedAsReviewed ==
    \A i \in PlanIds : \A x \in dropped[i] :
        \E e \in plans[i].plan.relations :
            e.exists /\ e.name = x[1] /\ e.generation = x[2]

\* Wherever a destruction stops - a failed statement, an interrupt, a crash,
\* a successful end - no relation is left whose definition reads or feeds one
\* that is gone (reverse_topologically_order_relations with the check for
\* external dependants).
NoDangling ==
    \A r \in Relations :
        Exists(warehouse, r) => \A u \in Uses[r] : Exists(warehouse, u)

\* A plan is executed only for an account that was still an administrator
\* under the lock, however long after the dispatch that was (_fresh_plan,
\* require_same_destruction_admin).
ExecutedByAdmin ==
    \A i \in PlanIds : started[i] # {} => plans[i].actor \in vetted[i].admins

\* A failed run can be taken up again: with the project unchanged, a recovery
\* plan from its recorded selection is refused only for reasons outside
\* (size, foreign views) and holds every relation the run left behind.  Runs
\* of the command line that asked for orphans are recovered without them.
Recoverable ==
    \A run \in {runs[i] : i \in PlanIds} \ {None} :
        LET req == RecoveryRequest(run)
            error == PlanError(req, project, warehouse)
        IN  run.outcome = "failed" /\ run.project = project
            /\ run.orphans = HistoryRequested(req, project)
                => \/ error \in {"size", "external"}
                   \/ /\ error = "none"
                      /\ {r \in run.remaining : Exists(warehouse, r)}
                           \subseteq OwnedNames(Owned(req, project, warehouse))

RecordedStep ==
    \A i \in PlanIds : runs'[i] # runs[i] =>
        LET run  == runs'[i]
            plan == plans[i].plan
            gone == {Statements(plan)[k] : k \in 1..run.completed}
        IN  /\ gone \subseteq DroppedNames(i)
            /\ run.observed => run.remaining = RemainingRelations(plan)
            /\ run.outcome = "succeeded" => RemainingRelations(plan) = {}

\* The terminal record tells the truth (_record_terminal): what it calls
\* completed was dropped, what it calls remaining is what an observed
\* catalog held, and it says succeeded only when nothing planned exists.
RecordedTruth == [][RecordedStep]_vars

Stage(i) ==
    CASE plans[i].status \in {"none", "pending"} ->
             IF plans[i].late THEN "over" ELSE "open"
      [] plans[i].status = "reviewed" -> IF plans[i].late THEN "over" ELSE "reviewed"
      [] plans[i].status = "expired" -> "over"
      [] plans[i].status = "consumed" ->
             IF \E p \in Procs : exec[p].id = i
                                 /\ exec[p].pc \in {"dropping", "stopped"}
             THEN "running" ELSE "over"

Once == INSTANCE OnceOnly WITH
            Plans <- PlanIds, Actors <- Procs,
            stage <- [i \in PlanIds |-> Stage(i)], actor <- started

\* The plan store, the routes, the shells and the executor implement
\* OnceOnly: one execution of a reviewed, unexpired plan by one process.
OncePerPlan == Once!Spec
=============================================================================
