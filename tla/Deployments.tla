---------------------------- MODULE Deployments ----------------------------
(***************************************************************************)
(* The life of virtual deployments: build, promotion, rollback, janitor.   *)
(*                                                                         *)
(* A virtual build realizes deployment-specific relations o__d beside the  *)
(* live ones and fills them from retained history; promotion and rollback  *)
(* point the stable views at a deployment's relations, one view at a time, *)
(* and then record the publication; the janitor removes obsolete views and *)
(* drops the relations of deployments nobody needs.  Metadata is           *)
(* append-only: object rows, deployment headers, publication events.       *)
(*                                                                         *)
(* Every one of these operations runs under the target mutation lock, so   *)
(* one is in progress at a time (TargetLock!ExclusiveOwnership; the        *)
(* interrupted statements of TargetLock!OverlapExplained are not modelled  *)
(* here).  Each statement is a step, and an operation can stop after any   *)
(* of them: a failed statement, an interrupt, a crash.  A build's plan and *)
(* a rollback's target are made before the lock is taken.                  *)
(*                                                                         *)
(* The physical relation of object o in deployment d is the pair <<o, d>>, *)
(* and a stable view v is bound to <<v, d>> for some d, as the physical    *)
(* name is always derived from the logical one.  Statements of one phase   *)
(* run here in any order: the code's order is that of the names.           *)
(***************************************************************************)
EXTENDS Naturals, Sequences, FiniteSets

CONSTANTS
  DeploymentIds,    \* deployment ids
  Objects,          \* logical object names, numbered in the order of the names
  Views,            \* the objects of type table or view: those that are published
  ModelOf,          \* ModelOf[o]: the model object o belongs to
  Plans,            \* the sets of objects a virtual build may plan to rebuild
  Unbound,          \* no deployment
  MinimumRollback,  \* minimum_rollback_deployments of the janitor
  MaxEvents,        \* bound: recorded publications
  MaxAttempts       \* bound: builds started for one deployment id

ASSUME DeploymentAssumption ==
  /\ Unbound \notin DeploymentIds
  /\ Objects \subseteq Nat
  /\ Views \subseteq Objects
  /\ Plans \subseteq SUBSET Objects
  /\ MinimumRollback \in Nat
  /\ MaxEvents \in Nat
  /\ MaxAttempts \in Nat

Relations == Objects \X DeploymentIds

VARIABLES
  mappings,    \* mappings[d]: objects with an object-state row of deployment d
  headers,     \* headers[d]: the set of plans with a header row of d: {} or one
  relations,   \* the physical relations in the catalog
  copies,      \* copies[x]: times the captured history was inserted into x
  attempts,    \* attempts[d]: builds of d started so far
  active,      \* active[v]: the deployment view v is bound to, or Unbound
  history,     \* publication events, in rank order
  expired,     \* events 1..expired were published before the retention window
  plan,        \* target of a rollback resolved and not executed yet, or Unbound
  op,          \* the operation in progress: its phase and remaining statements
  unrecorded   \* history variable: views bound by a publication not recorded

metadata == <<mappings, headers, attempts, history, expired>>
vars == <<mappings, headers, relations, copies, attempts, active, history,
          expired, plan, op, unrecorded>>

-----------------------------------------------------------------------------
\* What the code reads: the inventory and the live bindings.

\* The relations that the metadata of d names.
RelationsOf(d) == mappings[d] \X {d}

\* The mappings that a publication of d binds.
PublishMappings(d) == mappings[d] \cap Views

\* The stable views that exist.
Bound == {v \in Views : active[v] # Unbound}

ActiveRelations == {<<v, active[v]>> : v \in Bound}

\* Every view name under which deployment d was ever published.
PublishedNames(d) == UNION {history[i].views : i \in {j \in DOMAIN history :
                                                         history[j].dep = d}}

\* Event i is the last publication of d.
IsLastEvent(i, d) == /\ i \in DOMAIN history
                     /\ history[i].dep = d
                     /\ \A j \in DOMAIN history : history[j].dep = d => j <= i

IsPublished(d) == \E i \in DOMAIN history : history[i].dep = d

\* The inventory reports d as staged or published, not as incomplete.
HasHeader(d) == headers[d] # {}

\* Deployment e was last published after d was.
PublishedLater(e, d) == \E i, j \in DOMAIN history :
                           IsLastEvent(i, e) /\ IsLastEvent(j, d) /\ i > j

-----------------------------------------------------------------------------

NoOp == [phase |-> "idle", dep |-> Unbound, scope |-> {}, todo |-> {},
         unbind |-> {}, drop |-> {}, operation |-> "none"]

Init == /\ mappings = [d \in DeploymentIds |-> {}]
        /\ headers = [d \in DeploymentIds |-> {}]
        /\ relations = {}
        /\ copies = [x \in Relations |-> 0]
        /\ attempts = [d \in DeploymentIds |-> 0]
        /\ active = [v \in Views |-> Unbound]
        /\ history = <<>>
        /\ expired = 0
        /\ plan = Unbound
        /\ op = NoOp
        /\ unrecorded = {}

\* The operation took the target mutation lock, and releases it.
Begin(operation) == op.phase = "idle" /\ op' = operation
End == op' = NoOp

\* A failed statement, an interrupt or a crash: the operation stops where it is.
Abort ==
  /\ op.phase # "idle"
  /\ End
  /\ UNCHANGED <<metadata, relations, copies, active, plan, unrecorded>>

-----------------------------------------------------------------------------
\* The virtual build of the objects of a plan (op.scope) as deployment d.

\* A header of d carries the fingerprint of the same workflow.
CandidateAssertion(d, objects) == headers[d] \subseteq {objects}

\* d was never published.
PublishAssertion(d) == ~IsPublished(d)

\* Mutant: a published deployment may be built again.
StartBuildOfPublished(d, objects) ==
  /\ attempts[d] < MaxAttempts
  /\ CandidateAssertion(d, objects)
  /\ Begin([NoOp EXCEPT !.phase = "prepare", !.dep = d, !.scope = objects])
  /\ attempts' = [attempts EXCEPT ![d] = @ + 1]
  /\ UNCHANGED <<mappings, headers, history, expired, relations, copies, active,
                 plan, unrecorded>>

\* The preflight assertions hold.
StartBuild(d, objects) ==
  /\ attempts[d] < MaxAttempts
  /\ CandidateAssertion(d, objects)
  /\ PublishAssertion(d)
  /\ Begin([NoOp EXCEPT !.phase = "prepare", !.dep = d, !.scope = objects])
  /\ attempts' = [attempts EXCEPT ![d] = @ + 1]
  /\ UNCHANGED <<mappings, headers, history, expired, relations, copies, active,
                 plan, unrecorded>>

\* INSERT of the object-state rows.
PersistCandidateMetadata ==
  /\ op.phase = "prepare"
  /\ mappings' = [mappings EXCEPT ![op.dep] = @ \union op.scope]
  /\ op' = [op EXCEPT !.phase = "realize", !.todo = op.scope]
  /\ UNCHANGED <<headers, attempts, history, expired, relations, copies, active,
                 plan, unrecorded>>

\* CREATE IF NOT EXISTS of one relation: an existing one keeps its rows.
Realize(o) ==
  /\ op.phase = "realize"
  /\ o \in op.todo
  /\ relations' = relations \union {<<o, op.dep>>}
  /\ op' = [op EXCEPT !.todo = @ \ {o}]
  /\ UNCHANGED <<metadata, copies, active, plan, unrecorded>>

\* Mutant: the fingerprint is that of the published objects.
InsertHeaderOfViews(d, objects) ==
  IF headers[d] = {} THEN {objects \cap Views} ELSE headers[d]

\* INSERT of the header WHERE NOT EXISTS.
InsertHeader(d, objects) == IF headers[d] = {} THEN {objects} ELSE headers[d]

\* From here on the inventory reports the deployment as staged.
CaptureBoundary ==
  /\ op.phase = "realize"
  /\ op.todo = {}
  /\ headers' = [headers EXCEPT ![op.dep] = InsertHeader(op.dep, op.scope)]
  /\ op' = [op EXCEPT !.phase = "replay", !.todo = op.scope \cap Views]
  /\ UNCHANGED <<mappings, attempts, history, expired, relations, copies, active,
                 plan, unrecorded>>

\* INSERT ... SELECT of the captured history of one root; every published object
\* is a root here.
Replay(v) ==
  /\ op.phase = "replay"
  /\ v \in op.todo
  /\ copies' = [copies EXCEPT ![<<v, op.dep>>] = @ + 1]
  /\ op' = [op EXCEPT !.todo = @ \ {v}]
  /\ UNCHANGED <<metadata, relations, active, plan, unrecorded>>

\* The readiness assertions hold and the build ends.
FinishBuild ==
  /\ op.phase = "replay"
  /\ op.todo = {}
  /\ op.scope \X {op.dep} \subseteq relations
  /\ End
  /\ UNCHANGED <<metadata, relations, copies, active, plan, unrecorded>>

-----------------------------------------------------------------------------
\* Promotion and rollback: execute_publish.

\* Views of the published models of d that d itself does not bind, and that a
\* recorded publication of another deployment bound to what they are bound to.
ObsoleteBindings(d) ==
  {v \in Bound \ PublishMappings(d) :
     /\ ModelOf[v] \in {ModelOf[w] : w \in PublishMappings(d)}
     /\ v \in mappings[active[v]] \cap PublishedNames(active[v])}

\* Mutant: the catalog is not looked at.
PublishUnchecked(d, operation) ==
  /\ Len(history) < MaxEvents
  /\ HasHeader(d)
  /\ PublishMappings(d) # {}
  /\ Begin([NoOp EXCEPT !.phase = "publish", !.dep = d,
                        !.scope = PublishMappings(d), !.todo = PublishMappings(d),
                        !.unbind = ObsoleteBindings(d), !.operation = operation])
  /\ UNCHANGED <<metadata, relations, copies, active, unrecorded>>

\* The binding request is built: d has a header, all its relations exist, and
\* some of them are published ones.
Publish(d, operation) ==
  /\ Len(history) < MaxEvents
  /\ HasHeader(d)
  /\ RelationsOf(d) \subseteq relations
  /\ PublishMappings(d) # {}
  /\ Begin([NoOp EXCEPT !.phase = "publish", !.dep = d,
                        !.scope = PublishMappings(d), !.todo = PublishMappings(d),
                        !.unbind = ObsoleteBindings(d), !.operation = operation])
  /\ UNCHANGED <<metadata, relations, copies, active, unrecorded>>

Promote(d) == Publish(d, "promote") /\ UNCHANGED plan

\* CREATE OR REPLACE of one stable view.
BindView(v) ==
  /\ op.phase = "publish"
  /\ v \in op.todo
  /\ active' = [active EXCEPT ![v] = op.dep]
  /\ op' = [op EXCEPT !.todo = @ \ {v}]
  /\ unrecorded' = unrecorded \union {v}
  /\ UNCHANGED <<metadata, relations, copies, plan>>

\* DROP VIEW IF EXISTS of one stable view, after the replacements.
RemoveView(v) ==
  /\ op.phase \in {"publish", "clean"}
  /\ op.todo = {}
  /\ v \in op.unbind
  /\ active' = [active EXCEPT ![v] = Unbound]
  /\ op' = [op EXCEPT !.unbind = @ \ {v}]
  /\ unrecorded' = unrecorded \ {v}
  /\ UNCHANGED <<metadata, relations, copies, plan>>

\* Mutant: the publication is recorded before the views are bound.
PersistEventEarly ==
  /\ op.phase = "publish"
  /\ history' = Append(history, [dep |-> op.dep, views |-> op.scope,
                                 operation |-> op.operation])
  /\ End
  /\ unrecorded' = unrecorded \ op.scope
  /\ UNCHANGED <<mappings, headers, attempts, expired, relations, copies, active,
                 plan>>

\* INSERT of the publication event, the last statement.
PersistPublishEvent ==
  /\ op.phase = "publish"
  /\ op.todo = {}
  /\ op.unbind = {}
  /\ history' = Append(history, [dep |-> op.dep, views |-> op.scope,
                                 operation |-> op.operation])
  /\ End
  /\ unrecorded' = unrecorded \ op.scope
  /\ UNCHANGED <<mappings, headers, attempts, expired, relations, copies, active,
                 plan>>

-----------------------------------------------------------------------------
\* Rollback: the target is resolved from metadata and live bindings, shown for
\* confirmation, and published later, under the lock.

\* The bindings event i recorded.
BindingsOf(i) == history[i].views \X {history[i].dep}

\* Event i is the newest whose bindings are exactly the live ones.
IsCurrentEvent(i) ==
  /\ i \in DOMAIN history
  /\ Bound # {}
  /\ BindingsOf(i) = ActiveRelations
  /\ \A j \in DOMAIN history : BindingsOf(j) = ActiveRelations => j <= i

\* Event i is the newest before the current one with other bindings.
IsPreviousEvent(i, current) ==
  /\ i \in 1 .. (current - 1)
  /\ BindingsOf(i) # BindingsOf(current)
  /\ \A j \in 1 .. (current - 1) : BindingsOf(j) # BindingsOf(current) => j <= i

\* Event i is the newest of an explicitly chosen deployment, not the current one.
IsExplicitEvent(i, current) ==
  /\ history[i].dep # history[current].dep
  /\ IsLastEvent(i, history[i].dep)

\* Event i can be rolled back to: it bound what the metadata of its deployment
\* says, and every relation of the deployment is retained.
IsRetained(i) ==
  LET d == history[i].dep
  IN  /\ mappings[d] # {} \/ HasHeader(d)
      /\ history[i].views = PublishMappings(d)
      /\ RelationsOf(d) \subseteq relations

\* Mutant: any staged deployment may be named, published or not.
ResolveStaged ==
  /\ \E current \in DOMAIN history, d \in DeploymentIds :
       /\ IsCurrentEvent(current)
       /\ HasHeader(d)
       /\ RelationsOf(d) \subseteq relations
       /\ plan' = d
  /\ UNCHANGED <<metadata, relations, copies, active, op, unrecorded>>

\* The target is resolved, with its checks, from the previous or a chosen event.
ResolveRollback ==
  /\ \E current, i \in DOMAIN history :
       /\ IsCurrentEvent(current)
       /\ IsPreviousEvent(i, current) \/ IsExplicitEvent(i, current)
       /\ IsRetained(i)
       /\ plan' = history[i].dep
  /\ UNCHANGED <<metadata, relations, copies, active, op, unrecorded>>

\* Confirmed.
Rollback ==
  /\ plan # Unbound
  /\ Publish(plan, "rollback")
  /\ plan' = Unbound

-----------------------------------------------------------------------------
\* The janitor.

\* The relations that recorded publications bound.
KnownRelations ==
  UNION {(mappings[d] \cap PublishedNames(d)) \X {d} : d \in DeploymentIds}

\* Mutant: of two publications of a model the older one counts.
IsOldest(x) ==
  /\ x \in KnownRelations
  /\ \A y \in KnownRelations : ModelOf[y[1]] = ModelOf[x[1]] /\ y # x =>
        PublishedLater(y[2], x[2]) \/ (x[2] = y[2] /\ y[1] < x[1])

\* The known relation of a model that was published last; of two objects of one
\* deployment the one with the greater name.
IsLatest(x) ==
  /\ x \in KnownRelations
  /\ \A y \in KnownRelations : ModelOf[y[1]] = ModelOf[x[1]] /\ y # x =>
        PublishedLater(x[2], y[2]) \/ (x[2] = y[2] /\ y[1] < x[1])

\* Views bound to a known relation that is not the latest of its model.
ObsoleteViews == {v \in Bound : /\ <<v, active[v]>> \in KnownRelations
                                /\ ~IsLatest(<<v, active[v]>>)}

ActiveDeployments == {active[v] : v \in Bound \ ObsoleteViews}

\* Deployments a rollback could go back to.
RollbackPoints ==
  {d \in DeploymentIds \ ActiveDeployments :
     /\ IsPublished(d)
     /\ HasHeader(d)
     /\ mappings[d] # {} /\ RelationsOf(d) \subseteq relations
     /\ PublishMappings(d) # {}
     /\ \E i \in DOMAIN history : /\ history[i].dep = d
                                  /\ history[i].views = PublishMappings(d)}

\* Mutant: one rollback point too few.
OneRollbackLess ==
  {d \in RollbackPoints :
     Cardinality({e \in RollbackPoints : PublishedLater(e, d)}) + 1 < MinimumRollback}

\* The last MinimumRollback of them.
RollbackDeployments ==
  {d \in RollbackPoints :
     Cardinality({e \in RollbackPoints : PublishedLater(e, d)}) < MinimumRollback}

PublishedInRetention(d) == \E i \in DOMAIN history : history[i].dep = d /\ i > expired

Deletable(d) ==
  /\ d \notin ActiveDeployments
  /\ d \notin RollbackDeployments
  /\ ~PublishedInRetention(d)

CleanupRelations == UNION {RelationsOf(d) : d \in {e \in DeploymentIds : Deletable(e)}}

\* The cleanup is refused when one of its relations is bound, even by a view
\* that the same workflow is about to remove.
StartJanitor ==
  /\ CleanupRelations \cap ActiveRelations = {}
  /\ Begin([NoOp EXCEPT !.phase = "clean", !.unbind = ObsoleteViews,
                        !.drop = CleanupRelations])
  /\ UNCHANGED <<metadata, relations, copies, active, plan, unrecorded>>

\* DROP IF EXISTS of one relation, after the removals.
DropRelation(x) ==
  /\ op.phase = "clean"
  /\ op.unbind = {}
  /\ x \in op.drop
  /\ relations' = relations \ {x}
  /\ copies' = [copies EXCEPT ![x] = 0]
  /\ op' = [op EXCEPT !.drop = @ \ {x}]
  /\ UNCHANGED <<metadata, active, plan, unrecorded>>

FinishJanitor ==
  /\ op.phase = "clean"
  /\ op.unbind = {}
  /\ op.drop = {}
  /\ End
  /\ UNCHANGED <<metadata, relations, copies, active, plan, unrecorded>>

\* Days go by: older publications leave the retention window.
TimePasses ==
  /\ expired' \in (expired + 1) .. Len(history)
  /\ UNCHANGED <<mappings, headers, attempts, history, relations, copies, active,
                 plan, op, unrecorded>>

-----------------------------------------------------------------------------

Build ==
  \/ \E d \in DeploymentIds, objects \in Plans : StartBuild(d, objects)
  \/ PersistCandidateMetadata
  \/ \E o \in Objects : Realize(o)
  \/ CaptureBoundary
  \/ \E v \in Views : Replay(v)
  \/ FinishBuild

Publication ==
  \/ \E d \in DeploymentIds : Promote(d)
  \/ \E v \in Views : BindView(v) \/ RemoveView(v)
  \/ PersistPublishEvent
  \/ ResolveRollback
  \/ Rollback

Janitor ==
  \/ StartJanitor
  \/ \E x \in Relations : DropRelation(x)
  \/ FinishJanitor

Next == Build \/ Publication \/ Janitor \/ TimePasses \/ Abort

Spec == Init /\ [][Next]_vars

-----------------------------------------------------------------------------
\* Properties.

Events == [dep : DeploymentIds, views : SUBSET Views,
           operation : {"promote", "rollback"}]

Operations ==
  [phase : {"idle", "prepare", "realize", "replay", "publish", "clean"},
   dep : DeploymentIds \union {Unbound}, scope : SUBSET Objects,
   todo : SUBSET Objects, unbind : SUBSET Views, drop : SUBSET Relations,
   operation : {"none", "promote", "rollback"}]

TypeOK ==
  /\ mappings \in [DeploymentIds -> SUBSET Objects]
  /\ headers \in [DeploymentIds -> SUBSET Plans]
  /\ relations \in SUBSET Relations
  /\ copies \in [Relations -> Nat]
  /\ attempts \in [DeploymentIds -> Nat]
  /\ active \in [Views -> DeploymentIds \union {Unbound}]
  /\ history \in Seq(Events)
  /\ expired \in Nat
  /\ plan \in DeploymentIds \union {Unbound}
  /\ op \in Operations
  /\ unrecorded \in SUBSET Views

\* A stable view always reads from a relation that exists: no promotion or
\* rollback, however stale its resolution, points a view at a relation the
\* janitor dropped, and the janitor drops no relation under a view.
ActiveRelationsExist == ActiveRelations \subseteq relations

\* A view whose publication ran to its end is bound as the newest event naming
\* it says: metadata and live bindings can differ only through an aborted
\* publication.
RecordedBindings ==
  \A v \in Bound \ unrecorded :
    \E i \in DOMAIN history :
      /\ v \in history[i].views
      /\ history[i].dep = active[v]
      /\ \A j \in DOMAIN history : v \in history[j].views => j <= i

\* "Rollback restores a retained publication's bindings": what a rollback
\* recorded is what an earlier event of the same deployment recorded, although
\* builds and the janitor may run between its resolution and its execution.
RollbackRestores ==
  \A i \in DOMAIN history : history[i].operation = "rollback" =>
    \E j \in 1 .. (i - 1) : BindingsOf(j) = BindingsOf(i)

\* The janitor keeps at least MinimumRollback rollback points, if there are that
\* many: no step of a cleanup, even one that is aborted half-way, leaves fewer.
JanitorKeepsRollbackPoints ==
  [][relations' # relations /\ op.phase = "clean" =>
       \/ RollbackPoints \subseteq RollbackPoints'
       \/ Cardinality(RollbackPoints') >= MinimumRollback]_vars

\* The deployments that two builds with different plans wrote object rows for
\* before either reached its header, and that hold two views of one model.
MergedPlans ==
  {d \in DeploymentIds : \E v, w \in PublishMappings(d) :
                           v # w /\ ModelOf[v] = ModelOf[w]}

\* The janitor takes no model offline: it removes no view that a completed
\* publication bound, only what an aborted one left behind, unless a deployment
\* merges two plans.
JanitorKeepsModelsBound ==
  [][op.phase = "clean" /\ MergedPlans = {} =>
       \A v \in Bound \ unrecorded : active'[v] # Unbound]_vars

\* Deployments that were published are frozen: no build touches their metadata
\* or adds rows to their relations.
PublishedFrozen ==
  [][\A d \in DeploymentIds : IsPublished(d) =>
       /\ mappings'[d] = mappings[d]
       /\ \A x \in Objects \X {d} : copies'[x] <= copies[x]]_vars
=============================================================================
