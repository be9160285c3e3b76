------------------------- MODULE DeploymentsProofs -------------------------
(***************************************************************************)
(* Proofs about Deployments, for any deployments, objects, plans and       *)
(* bounds.  The properties are not inductive: what an operation decided    *)
(* when it started (the views to bind, the relations to drop, the          *)
(* deployment to build) has to stay true until its last statement.  OpInv  *)
(* says what stays true, phase by phase.  EventInv adds what the recorded  *)
(* publications say of metadata and views, and KeptInv what a cleanup      *)
(* leaves to roll back to.                                                 *)
(***************************************************************************)
EXTENDS Deployments, FiniteSetTheorems, NaturalsInduction, WellFoundedInduction, TLAPS

BuildPhases == {"prepare", "realize", "replay"}

\* A build works on a deployment that was never published.
BuildInv ==
  op.phase \in BuildPhases => /\ op.dep \in DeploymentIds
                              /\ op.scope \in Plans
                              /\ ~IsPublished(op.dep)

\* A publication binds relations that exist; the views it has bound are bound to
\* its deployment and unrecorded, and it removes none of them.
PublishInv ==
  op.phase = "publish" =>
    /\ op.dep \in DeploymentIds
    /\ op.scope \subseteq Views
    /\ op.todo \subseteq op.scope
    /\ op.unbind \cap op.scope = {}
    /\ op.operation \in {"promote", "rollback"}
    /\ \A v \in op.scope : <<v, op.dep>> \in relations
    /\ \A v \in op.scope \ op.todo : active[v] = op.dep /\ v \in unrecorded

\* A cleanup drops no relation under a view.
CleanInv ==
  op.phase = "clean" => \A v \in Bound : <<v, active[v]>> \notin op.drop

OpInv == BuildInv /\ PublishInv /\ CleanInv

DeploymentInv == TypeOK /\ OpInv /\ ActiveRelationsExist /\ RecordedBindings

-----------------------------------------------------------------------------

\* A physical relation is the pair of its object and its deployment.
LEMMA RelationPairs ==
  /\ \A o \in Objects, d \in DeploymentIds : <<o, d>> \in Relations
  /\ \A x \in Relations : /\ x[1] \in Objects
                          /\ x[2] \in DeploymentIds
                          /\ x = <<x[1], x[2]>>
  BY DEF Relations

\* What the janitor means to remove and to drop has the right type.
LEMMA JanitorTypes == TypeOK => /\ ObsoleteViews \subseteq Views
                                /\ CleanupRelations \subseteq Relations
  BY DEF TypeOK, ObsoleteViews, Bound, CleanupRelations, RelationsOf, Relations

\* The publication events, as a function of their rank.
LEMMA EventsTyped ==
  TypeOK => /\ Len(history) \in Nat
            /\ DOMAIN history = 1 .. Len(history)
            /\ \A i \in DOMAIN history : /\ history[i].dep \in DeploymentIds
                                         /\ history[i].views \subseteq Views
  <1> SUFFICES ASSUME TypeOK
               PROVE  /\ Len(history) \in Nat
                      /\ DOMAIN history = 1 .. Len(history)
                      /\ \A i \in 1 .. Len(history) : history[i] \in Events
    BY DEF Events
  <1> QED
    BY DEF TypeOK

\* Recording a publication adds one event and changes no earlier one.
LEMMA EventAppended ==
  TypeOK /\ PersistPublishEvent =>
    /\ DOMAIN history' = DOMAIN history \union {Len(history) + 1}
    /\ \A i \in DOMAIN history : history'[i] = history[i] /\ i < Len(history) + 1
    /\ history'[Len(history) + 1].dep = op.dep
    /\ history'[Len(history) + 1].views = op.scope
    /\ Len(history) + 1 \in Nat
  <1> SUFFICES ASSUME TypeOK, PersistPublishEvent
               PROVE  /\ DOMAIN history' = DOMAIN history \union {Len(history) + 1}
                      /\ \A i \in DOMAIN history : /\ history'[i] = history[i]
                                                   /\ i < Len(history) + 1
                      /\ history'[Len(history) + 1].dep = op.dep
                      /\ history'[Len(history) + 1].views = op.scope
                      /\ Len(history) + 1 \in Nat
    OBVIOUS
  <1> DEFINE event == [dep |-> op.dep, views |-> op.scope, operation |-> op.operation]
  <1>1. history' = Append(history, event)
    BY DEF PersistPublishEvent
  <1>2. /\ Len(history') = Len(history) + 1
        /\ DOMAIN history' = 1 .. Len(history')
        /\ \A i \in 1 .. Len(history) : history'[i] = history[i]
        /\ history'[Len(history) + 1] = event
    BY <1>1 DEF TypeOK
  <1> QED
    BY <1>2, EventsTyped

\* An empty target satisfies the inductive invariant.
LEMMA InitInv == Init => DeploymentInv
  BY DeploymentAssumption
     DEF Init, DeploymentInv, TypeOK, OpInv, BuildInv, PublishInv, CleanInv,
         BuildPhases, ActiveRelationsExist, ActiveRelations, RecordedBindings,
         Bound, NoOp, Operations, Relations, Events

\* Every statement of every operation keeps the state well typed.
LEMMA NextTypeOK == TypeOK /\ OpInv /\ [Next]_vars => TypeOK'
  <1> SUFFICES ASSUME TypeOK /\ OpInv, [Next]_vars PROVE TypeOK'
    OBVIOUS
  <1> USE DeploymentAssumption DEF TypeOK, OpInv, BuildInv, PublishInv,
        BuildPhases, NoOp, metadata
  <1>1. ASSUME NEW d \in DeploymentIds, NEW objects \in Plans, StartBuild(d, objects)
        PROVE  TypeOK'
    <2>1. op' \in Operations
      BY <1>1 DEF StartBuild, CandidateAssertion, PublishAssertion, Begin, Operations
    <2>2. attempts' \in [DeploymentIds -> Nat]
      BY <1>1 DEF StartBuild
    <2> QED
      BY <1>1, <2>1, <2>2 DEF StartBuild
  <1>2. ASSUME PersistCandidateMetadata
        PROVE  TypeOK'
    BY <1>2 DEF PersistCandidateMetadata, Operations, Events
  <1>3. ASSUME NEW o \in Objects, Realize(o)
        PROVE  TypeOK'
    <2>1. op' \in Operations
      BY <1>3 DEF Realize, Operations
    <2>2. relations' \in SUBSET Relations
      BY <1>3, RelationPairs DEF Realize
    <2> QED
      BY <1>3, <2>1, <2>2 DEF Realize
  <1>4. ASSUME CaptureBoundary
        PROVE  TypeOK'
    BY <1>4 DEF CaptureBoundary, InsertHeader, Operations, Events
  <1>5. ASSUME NEW v \in Views, Replay(v)
        PROVE  TypeOK'
    <2>1. op' \in Operations
      BY <1>5 DEF Replay, Operations
    <2>2. copies' \in [Relations -> Nat]
      BY <1>5, RelationPairs DEF Replay
    <2> QED
      BY <1>5, <2>1, <2>2 DEF Replay
  <1>6. ASSUME FinishBuild
        PROVE  TypeOK'
    BY <1>6 DEF FinishBuild, End, Operations, Events
  <1>7. ASSUME NEW d \in DeploymentIds, Promote(d)
        PROVE  TypeOK'
    BY <1>7 DEF Promote, Publish, Begin, PublishMappings, ObsoleteBindings, Bound, Operations
  <1>8. ASSUME NEW v \in Views, BindView(v)
        PROVE  TypeOK'
    BY <1>8 DEF BindView, Operations, Events
  <1>9. ASSUME NEW v \in Views, RemoveView(v)
        PROVE  TypeOK'
    BY <1>9 DEF RemoveView, Operations, Events
  <1>10. ASSUME PersistPublishEvent
        PROVE  TypeOK'
    <2>1. op' \in Operations
      BY <1>10 DEF PersistPublishEvent, End, Operations
    <2>2. [dep |-> op.dep, views |-> op.scope, operation |-> op.operation] \in Events
      BY <1>10 DEF PersistPublishEvent, Events
    <2>3. history' \in Seq(Events)
      BY <1>10, <2>2 DEF PersistPublishEvent
    <2> QED
      BY <1>10, <2>1, <2>3 DEF PersistPublishEvent
  <1>11. ASSUME ResolveRollback
        PROVE  TypeOK'
    BY <1>11, EventsTyped DEF ResolveRollback
  <1>12. ASSUME Rollback
        PROVE  TypeOK'
    BY <1>12 DEF Rollback, Publish, Begin, PublishMappings, ObsoleteBindings, Bound, Operations
  <1>13. ASSUME StartJanitor
        PROVE  TypeOK'
    <2>1. op' \in Operations
      BY <1>13, JanitorTypes DEF StartJanitor, Begin, Operations
    <2> QED
      BY <1>13, <2>1 DEF StartJanitor
  <1>14. ASSUME NEW x \in Relations, DropRelation(x)
        PROVE  TypeOK'
    BY <1>14 DEF DropRelation, Operations, Events
  <1>15. ASSUME FinishJanitor
        PROVE  TypeOK'
    BY <1>15 DEF FinishJanitor, End, Operations, Events
  <1>16. ASSUME TimePasses
        PROVE  TypeOK'
    BY <1>16 DEF TimePasses, Operations, Events
  <1>17. ASSUME Abort
        PROVE  TypeOK'
    BY <1>17 DEF Abort, End, Operations, Events
  <1>18. ASSUME UNCHANGED vars
        PROVE  TypeOK'
    BY <1>18 DEF vars, Operations, Events
  <1> QED
    BY <1>1, <1>2, <1>3, <1>4, <1>5, <1>6, <1>7, <1>8, <1>9, <1>10, <1>11,
       <1>12, <1>13, <1>14, <1>15, <1>16, <1>17, <1>18
    DEF Next, Build, Publication, Janitor

\* What an operation decided under the lock stays true at each of its statements:
\* only the operation itself, a rollback's resolution and time take steps.
LEMMA NextOpInv == TypeOK /\ OpInv /\ [Next]_vars => OpInv'
  <1> SUFFICES ASSUME TypeOK /\ OpInv, [Next]_vars PROVE OpInv'
    OBVIOUS
  <1> USE DeploymentAssumption DEF TypeOK, OpInv, BuildInv, PublishInv, CleanInv,
        BuildPhases, IsPublished, Bound, NoOp, metadata
  <1>1. ASSUME NEW d \in DeploymentIds, NEW objects \in Plans, StartBuild(d, objects)
        PROVE  OpInv'
    BY <1>1 DEF StartBuild, CandidateAssertion, PublishAssertion, Begin
  <1>2. ASSUME PersistCandidateMetadata
        PROVE  OpInv'
    BY <1>2 DEF PersistCandidateMetadata
  <1>3. ASSUME NEW o \in Objects, Realize(o)
        PROVE  OpInv'
    BY <1>3 DEF Realize
  <1>4. ASSUME CaptureBoundary
        PROVE  OpInv'
    BY <1>4 DEF CaptureBoundary
  <1>5. ASSUME NEW v \in Views, Replay(v)
        PROVE  OpInv'
    BY <1>5 DEF Replay
  <1>6. ASSUME FinishBuild
        PROVE  OpInv'
    BY <1>6 DEF FinishBuild, End
  <1>7. ASSUME NEW d \in DeploymentIds, Promote(d)
        PROVE  OpInv'
    BY <1>7 DEF Promote, Publish, Begin, PublishMappings, ObsoleteBindings, RelationsOf, Bound
  <1>8. ASSUME NEW v \in Views, BindView(v)
        PROVE  OpInv'
    BY <1>8 DEF BindView
  <1>9. ASSUME NEW v \in Views, RemoveView(v)
        PROVE  OpInv'
    BY <1>9 DEF RemoveView
  <1>10. ASSUME PersistPublishEvent
        PROVE  OpInv'
    BY <1>10 DEF PersistPublishEvent, End
  <1>11. ASSUME ResolveRollback
        PROVE  OpInv'
    BY <1>11 DEF ResolveRollback
  <1>12. ASSUME Rollback
        PROVE  OpInv'
    BY <1>12 DEF Rollback, Publish, Begin, PublishMappings, ObsoleteBindings, RelationsOf, Bound
  <1>13. ASSUME StartJanitor
        PROVE  OpInv'
    BY <1>13 DEF StartJanitor, Begin, ActiveRelations
  <1>14. ASSUME NEW x \in Relations, DropRelation(x)
        PROVE  OpInv'
    BY <1>14 DEF DropRelation
  <1>15. ASSUME FinishJanitor
        PROVE  OpInv'
    BY <1>15 DEF FinishJanitor, End
  <1>16. ASSUME TimePasses
        PROVE  OpInv'
    BY <1>16 DEF TimePasses
  <1>17. ASSUME Abort
        PROVE  OpInv'
    BY <1>17 DEF Abort, End
  <1>18. ASSUME UNCHANGED vars
        PROVE  OpInv'
    BY <1>18 DEF vars
  <1> QED
    BY <1>1, <1>2, <1>3, <1>4, <1>5, <1>6, <1>7, <1>8, <1>9, <1>10, <1>11,
       <1>12, <1>13, <1>14, <1>15, <1>16, <1>17, <1>18
    DEF Next, Build, Publication, Janitor

\* No statement leaves a view without its relation: BindView binds what the
\* publication saw in the catalog, DropRelation drops what no view reads.
LEMMA NextActiveRelationsExist ==
  TypeOK /\ OpInv /\ ActiveRelationsExist /\ [Next]_vars => ActiveRelationsExist'
  <1> SUFFICES ASSUME TypeOK /\ OpInv /\ ActiveRelationsExist, [Next]_vars PROVE ActiveRelationsExist'
    OBVIOUS
  <1> USE DeploymentAssumption DEF TypeOK, OpInv, PublishInv, CleanInv,
        ActiveRelationsExist, ActiveRelations, Bound, metadata
  <1>1. ASSUME NEW d \in DeploymentIds, NEW objects \in Plans, StartBuild(d, objects)
        PROVE  ActiveRelationsExist'
    BY <1>1 DEF StartBuild, CandidateAssertion, PublishAssertion, Begin
  <1>2. ASSUME PersistCandidateMetadata
        PROVE  ActiveRelationsExist'
    BY <1>2 DEF PersistCandidateMetadata
  <1>3. ASSUME NEW o \in Objects, Realize(o)
        PROVE  ActiveRelationsExist'
    BY <1>3 DEF Realize
  <1>4. ASSUME CaptureBoundary
        PROVE  ActiveRelationsExist'
    BY <1>4 DEF CaptureBoundary
  <1>5. ASSUME NEW v \in Views, Replay(v)
        PROVE  ActiveRelationsExist'
    BY <1>5 DEF Replay
  <1>6. ASSUME FinishBuild
        PROVE  ActiveRelationsExist'
    BY <1>6 DEF FinishBuild, End
  <1>7. ASSUME NEW d \in DeploymentIds, Promote(d)
        PROVE  ActiveRelationsExist'
    BY <1>7 DEF Promote, Publish, Begin
  <1>8. ASSUME NEW v \in Views, BindView(v)
        PROVE  ActiveRelationsExist'
    <2>1. op.dep \in DeploymentIds /\ <<v, op.dep>> \in relations
      BY <1>8 DEF BindView
    <2>2. \A w \in Views : active'[w] = IF w = v THEN op.dep ELSE active[w]
      BY <1>8 DEF BindView
    <2>3. ASSUME NEW w \in Views, active'[w] # Unbound
          PROVE  <<w, active'[w]>> \in relations
      <3>1. CASE w = v
        BY <2>1, <2>2, <3>1
      <3>2. CASE w # v
        <4>1. active[w] # Unbound /\ active'[w] = active[w]
          BY <2>2, <2>3, <3>2
        <4> QED
          BY <4>1
      <3> QED
        BY <3>1, <3>2
    <2> QED
      BY <1>8, <2>3 DEF BindView
  <1>9. ASSUME NEW v \in Views, RemoveView(v)
        PROVE  ActiveRelationsExist'
    BY <1>9 DEF RemoveView
  <1>10. ASSUME PersistPublishEvent
        PROVE  ActiveRelationsExist'
    BY <1>10 DEF PersistPublishEvent, End
  <1>11. ASSUME ResolveRollback
        PROVE  ActiveRelationsExist'
    BY <1>11 DEF ResolveRollback
  <1>12. ASSUME Rollback
        PROVE  ActiveRelationsExist'
    BY <1>12 DEF Rollback, Publish, Begin
  <1>13. ASSUME StartJanitor
        PROVE  ActiveRelationsExist'
    BY <1>13 DEF StartJanitor, Begin
  <1>14. ASSUME NEW x \in Relations, DropRelation(x)
        PROVE  ActiveRelationsExist'
    BY <1>14 DEF DropRelation
  <1>15. ASSUME FinishJanitor
        PROVE  ActiveRelationsExist'
    BY <1>15 DEF FinishJanitor, End
  <1>16. ASSUME TimePasses
        PROVE  ActiveRelationsExist'
    BY <1>16 DEF TimePasses
  <1>17. ASSUME Abort
        PROVE  ActiveRelationsExist'
    BY <1>17 DEF Abort, End
  <1>18. ASSUME UNCHANGED vars
        PROVE  ActiveRelationsExist'
    BY <1>18 DEF vars
  <1> QED
    BY <1>1, <1>2, <1>3, <1>4, <1>5, <1>6, <1>7, <1>8, <1>9, <1>10, <1>11,
       <1>12, <1>13, <1>14, <1>15, <1>16, <1>17, <1>18
    DEF Next, Build, Publication, Janitor

\* Only BindView changes what a view is bound to, and it makes the view
\* unrecorded until PersistPublishEvent appends the event that names it.
LEMMA NextRecordedBindings ==
  TypeOK /\ OpInv /\ RecordedBindings /\ [Next]_vars => RecordedBindings'
  <1> SUFFICES ASSUME TypeOK /\ OpInv /\ RecordedBindings, [Next]_vars PROVE RecordedBindings'
    OBVIOUS
  <1> USE DeploymentAssumption DEF TypeOK, OpInv, PublishInv, RecordedBindings, Bound, metadata
  <1>1. ASSUME NEW d \in DeploymentIds, NEW objects \in Plans, StartBuild(d, objects)
        PROVE  RecordedBindings'
    BY <1>1 DEF StartBuild, CandidateAssertion, PublishAssertion, Begin
  <1>2. ASSUME PersistCandidateMetadata
        PROVE  RecordedBindings'
    BY <1>2 DEF PersistCandidateMetadata
  <1>3. ASSUME NEW o \in Objects, Realize(o)
        PROVE  RecordedBindings'
    BY <1>3 DEF Realize
  <1>4. ASSUME CaptureBoundary
        PROVE  RecordedBindings'
    BY <1>4 DEF CaptureBoundary
  <1>5. ASSUME NEW v \in Views, Replay(v)
        PROVE  RecordedBindings'
    BY <1>5 DEF Replay
  <1>6. ASSUME FinishBuild
        PROVE  RecordedBindings'
    BY <1>6 DEF FinishBuild, End
  <1>7. ASSUME NEW d \in DeploymentIds, Promote(d)
        PROVE  RecordedBindings'
    BY <1>7 DEF Promote, Publish, Begin
  <1>8. ASSUME NEW v \in Views, BindView(v)
        PROVE  RecordedBindings'
    BY <1>8 DEF BindView
  <1>9. ASSUME NEW v \in Views, RemoveView(v)
        PROVE  RecordedBindings'
    BY <1>9 DEF RemoveView
  <1>10. ASSUME PersistPublishEvent
        PROVE  RecordedBindings'
    <2> DEFINE n == Len(history) + 1
    <2>1. /\ active' = active
          /\ unrecorded' = unrecorded \ op.scope
          /\ \A v \in op.scope : active[v] = op.dep
      BY <1>10 DEF PersistPublishEvent
    <2>2. SUFFICES ASSUME NEW v \in Bound', v \notin unrecorded'
                   PROVE  \E i \in DOMAIN history' :
                            /\ v \in history'[i].views
                            /\ history'[i].dep = active'[v]
                            /\ \A j \in DOMAIN history' : v \in history'[j].views => j <= i
      OBVIOUS
    <2>3. CASE v \in op.scope
      <3> HIDE DEF TypeOK
      <3>0. \A j \in DOMAIN history : j \in Nat
        BY EventsTyped
      <3>1. \A j \in DOMAIN history' : j <= n
        BY <1>10, <3>0, EventAppended
      <3> QED
        BY <1>10, <2>1, <2>3, <3>1, EventAppended
    <2>4. CASE v \notin op.scope
      <3>1. PICK i \in DOMAIN history :
              /\ v \in history[i].views
              /\ history[i].dep = active[v]
              /\ \A j \in DOMAIN history : v \in history[j].views => j <= i
        BY <2>1, <2>2, <2>4
      <3>2. i \in DOMAIN history' /\ history'[i] = history[i]
        BY <1>10, EventAppended
      <3>3. \A j \in DOMAIN history' : v \in history'[j].views => j <= i
        BY <1>10, <2>4, <3>1, EventAppended
      <3> QED
        BY <2>1, <3>1, <3>2, <3>3
    <2> QED
      BY <2>3, <2>4
  <1>11. ASSUME ResolveRollback
        PROVE  RecordedBindings'
    BY <1>11 DEF ResolveRollback
  <1>12. ASSUME Rollback
        PROVE  RecordedBindings'
    BY <1>12 DEF Rollback, Publish, Begin
  <1>13. ASSUME StartJanitor
        PROVE  RecordedBindings'
    BY <1>13 DEF StartJanitor, Begin
  <1>14. ASSUME NEW x \in Relations, DropRelation(x)
        PROVE  RecordedBindings'
    BY <1>14 DEF DropRelation
  <1>15. ASSUME FinishJanitor
        PROVE  RecordedBindings'
    BY <1>15 DEF FinishJanitor, End
  <1>16. ASSUME TimePasses
        PROVE  RecordedBindings'
    BY <1>16 DEF TimePasses
  <1>17. ASSUME Abort
        PROVE  RecordedBindings'
    BY <1>17 DEF Abort, End
  <1>18. ASSUME UNCHANGED vars
        PROVE  RecordedBindings'
    BY <1>18 DEF vars
  <1> QED
    BY <1>1, <1>2, <1>3, <1>4, <1>5, <1>6, <1>7, <1>8, <1>9, <1>10, <1>11,
       <1>12, <1>13, <1>14, <1>15, <1>16, <1>17, <1>18
    DEF Next, Build, Publication, Janitor

-----------------------------------------------------------------------------

\* DeploymentInv is an inductive invariant of the operations on a target.
THEOREM DeploymentInvariant == Spec => []DeploymentInv
  <1>1. Init => DeploymentInv
    BY InitInv
  <1>2. DeploymentInv /\ [Next]_vars => DeploymentInv'
    BY NextTypeOK, NextOpInv, NextActiveRelationsExist, NextRecordedBindings
       DEF DeploymentInv
  <1> QED
    BY <1>1, <1>2, PTL DEF Spec

\* Type correctness of metadata, catalog, bindings and the operation in progress.
THEOREM DeploymentTypeOK == Spec => []TypeOK
  BY DeploymentInvariant, PTL DEF DeploymentInv

\* No promotion, rollback or cleanup, wherever it is aborted, leaves a stable
\* view without its relation.
THEOREM ViewsReadable == Spec => []ActiveRelationsExist
  BY DeploymentInvariant, PTL DEF DeploymentInv

\* Live bindings and recorded publications differ only through an aborted
\* publication.
THEOREM BindingsRecorded == Spec => []RecordedBindings
  BY DeploymentInvariant, PTL DEF DeploymentInv

\* What a step leaves alone of a published deployment.
Frozen == \A d \in DeploymentIds : IsPublished(d) =>
            /\ mappings'[d] = mappings[d]
            /\ \A x \in Objects \X {d} : copies'[x] <= copies[x]

\* Builds, the only ones to write object rows and to replay, work on others.
LEMMA FrozenStep == DeploymentInv /\ [Next]_vars => Frozen
  <1> SUFFICES ASSUME DeploymentInv, [Next]_vars PROVE Frozen
    OBVIOUS
  <1> USE DEF DeploymentInv, TypeOK, OpInv, BuildInv, BuildPhases, Frozen
  <1>1. \A d \in DeploymentIds : \A x \in Objects \X {d} :
          x \in Relations /\ x[2] = d /\ copies[x] \in Nat
    BY DEF Relations
  <1>2. CASE PersistCandidateMetadata
    BY <1>1, <1>2 DEF PersistCandidateMetadata
  <1>3. ASSUME NEW v \in Views, Replay(v) PROVE Frozen
    <2>1. \A x \in Relations : x # <<v, op.dep>> => copies'[x] = copies[x]
      BY <1>3 DEF Replay
    <2>2. \A d \in DeploymentIds : IsPublished(d) => d # op.dep
      BY <1>3 DEF Replay
    <2> QED
      BY <1>1, <1>3, <2>1, <2>2 DEF Replay, metadata
  <1>4. ASSUME NEW x \in Relations, DropRelation(x) PROVE Frozen
    BY <1>1, <1>4 DEF DropRelation, metadata
  <1>5. CASE mappings' = mappings /\ copies' = copies
    BY <1>1, <1>5
  <1> QED
    BY <1>2, <1>3, <1>4, <1>5 DEF Next, Build, Publication, Janitor, vars,
       metadata, Abort, StartBuild, Realize, CaptureBoundary, FinishBuild,
       Promote, Publish, BindView, RemoveView,
       PersistPublishEvent, ResolveRollback, Rollback, StartJanitor,
       FinishJanitor, TimePasses

\* No build changes a published deployment.
THEOREM PublishedStaysFrozen == Spec => PublishedFrozen
  <1>1. DeploymentInv /\ [Next]_vars => Frozen
    BY FrozenStep
  <1> QED
    BY <1>1, DeploymentInvariant, PTL DEF Spec, PublishedFrozen, Frozen

-----------------------------------------------------------------------------
\* What the recorded publications say.

\* Every publication of a deployment recorded the views its metadata names: they
\* are the same for all of them.
EventViews ==
  \A i \in DOMAIN history : history[i].views = PublishMappings(history[i].dep)

\* A rollback that is resolved or under way is one to a published deployment.
RollbackInv ==
  /\ plan # Unbound => IsPublished(plan)
  /\ op.phase = "publish" /\ op.operation = "rollback" => IsPublished(op.dep)

\* A recorded view is bound as the newest event says that names a view of its
\* model.
SoleInv ==
  \A v \in Bound \ unrecorded :
    \E i \in DOMAIN history :
      /\ v \in history[i].views
      /\ history[i].dep = active[v]
      /\ \A k \in DOMAIN history :
           (\E w \in history[k].views : ModelOf[w] = ModelOf[v]) => k <= i

\* A publication has yet to remove every other recorded view of its models.
ScopeInv ==
  op.phase = "publish" =>
    /\ op.scope = PublishMappings(op.dep)
    /\ \A v \in Bound \ (unrecorded \cup op.scope), w \in op.scope :
         ModelOf[v] = ModelOf[w] => v \in op.unbind

\* A cleanup means to remove no recorded view.
SparedInv ==
  op.phase = "clean" /\ MergedPlans = {} => op.unbind \cap Bound \subseteq unrecorded

EventInv ==
  EventViews /\ RollbackInv /\ SoleInv /\ ScopeInv /\ SparedInv /\ RollbackRestores

\* A set of numbers has a least member.
LEMMA LeastNumber ==
  ASSUME NEW S \in SUBSET Nat, S # {}
  PROVE  \E m \in S : \A n \in S : m <= n
  <1> DEFINE R == OpToRel(<, Nat)
  <1>1. IsWellFoundedOn(R, Nat)
    BY NatLessThanWellFounded
  <1>2. \E x \in S : \A y \in S : ~(<<y, x>> \in R)
    <2> HIDE DEF R
    <2> QED
      BY <1>1, WFMin, Zenon
  <1>3. \A x, y \in Nat : ~(<<y, x>> \in R) => x <= y
    BY DEF OpToRel
  <1> QED
    BY <1>2, <1>3

\* A non-empty set of ranks has a newest one.
LEMMA NewestOf ==
  ASSUME TypeOK, NEW S \in SUBSET DOMAIN history, S # {}
  PROVE  \E i \in S : \A j \in S : j <= i
  <1> DEFINE n == Len(history)
             T == {n - i : i \in S}
  <1>1. n \in Nat /\ \A i \in S : i \in 1 .. n
    BY EventsTyped
  <1> HIDE DEF n
  <1>2. T \in SUBSET Nat /\ T # {}
    BY <1>1
  <1>3. PICK m \in T : \A t \in T : m <= t
    <2> HIDE DEF T
    <2> QED
      BY <1>2, LeastNumber
  <1>4. PICK i \in S : m = n - i
    OBVIOUS
  <1>5. ASSUME NEW j \in S PROVE j <= i
    <2>1. m <= n - j
      BY <1>3
    <2> QED
      BY <1>1, <1>4, <2>1
  <1> QED
    BY <1>5

\* A published deployment has a last publication.
LEMMA LastEvent ==
  ASSUME TypeOK, NEW d, IsPublished(d)
  PROVE  \E i \in DOMAIN history : IsLastEvent(i, d)
  <1> DEFINE S == {i \in DOMAIN history : history[i].dep = d}
  <1>1. S \in SUBSET DOMAIN history /\ S # {}
    BY DEF IsPublished
  <1>2. PICK i \in S : \A j \in S : j <= i
    <2> HIDE DEF S
    <2> QED
      BY <1>1, NewestOf
  <1> QED
    BY <1>2 DEF IsLastEvent

\* What a step that publishes nothing leaves alone.
LEMMA QuietEvents ==
  ASSUME DeploymentInv, EventInv, UNCHANGED <<mappings, history, active, unrecorded>>,
         plan' \in {plan, Unbound},
         op'.phase \notin {"publish", "clean"} \/ op' = op
  PROVE  EventInv'
  <1>1. EventViews' /\ SoleInv' /\ RollbackRestores'
    BY DEF EventInv, EventViews, SoleInv, RollbackRestores, PublishMappings, Bound, BindingsOf
  <1>2. RollbackInv'
    BY DEF EventInv, RollbackInv, IsPublished
  <1>3. ScopeInv'
    BY DEF EventInv, ScopeInv, PublishMappings, Bound
  <1>4. SparedInv'
    BY DEF EventInv, SparedInv, MergedPlans, PublishMappings, Bound
  <1> QED
    BY <1>1, <1>2, <1>3, <1>4 DEF EventInv

\* The object rows of a build.
LEMMA PersistEvents ==
  ASSUME DeploymentInv, EventInv, PersistCandidateMetadata PROVE EventInv'
  <1>0. [Next]_vars
    BY DEF Next, Build
  <1>1. \A d \in DeploymentIds : IsPublished(d) => mappings'[d] = mappings[d]
    BY <1>0, FrozenStep DEF Frozen
  <1>2. \A i \in DOMAIN history : history[i].dep \in DeploymentIds /\ IsPublished(history[i].dep)
    BY EventsTyped DEF DeploymentInv, IsPublished
  <1>3. /\ history' = history /\ active' = active /\ unrecorded' = unrecorded /\ plan' = plan
        /\ op'.phase = "realize"
    <2>1. op' = [op EXCEPT !.phase = "realize", !.todo = op.scope]
      BY DEF PersistCandidateMetadata
    <2>2. op'.phase = "realize"
      BY <2>1 DEF DeploymentInv, TypeOK, Operations
    <2> QED
      BY <2>2 DEF PersistCandidateMetadata
  <1>4. EventViews'
    BY <1>1, <1>2, <1>3 DEF EventInv, EventViews, PublishMappings
  <1>5. SoleInv' /\ RollbackRestores'
    BY <1>3 DEF EventInv, SoleInv, RollbackRestores, Bound, BindingsOf
  <1>6. RollbackInv' /\ ScopeInv' /\ SparedInv'
    BY <1>3 DEF EventInv, RollbackInv, ScopeInv, SparedInv, IsPublished
  <1> QED
    BY <1>4, <1>5, <1>6 DEF EventInv

\* A publication starts.
LEMMA PublishEvents ==
  ASSUME DeploymentInv, EventInv, NEW d \in DeploymentIds,
         NEW operation \in {"promote", "rollback"}, Publish(d, operation),
         plan' \in {plan, Unbound}, operation = "rollback" => IsPublished(d)
  PROVE  EventInv'
  <1>1. /\ UNCHANGED <<mappings, history, active, unrecorded>>
        /\ op'.phase = "publish" /\ op'.dep = d /\ op'.scope = PublishMappings(d)
        /\ op'.unbind = ObsoleteBindings(d) /\ op'.operation = operation
    BY DEF Publish, Begin, NoOp, metadata
  <1>2. EventViews' /\ SoleInv' /\ RollbackRestores'
    BY <1>1 DEF EventInv, EventViews, SoleInv, RollbackRestores, PublishMappings, Bound, BindingsOf
  <1>3. RollbackInv'
    BY <1>1 DEF EventInv, RollbackInv, IsPublished
  <1>4. ASSUME NEW v \in Bound \ (unrecorded \cup PublishMappings(d)),
               NEW w \in PublishMappings(d), ModelOf[v] = ModelOf[w]
        PROVE  v \in ObsoleteBindings(d)
    <2>1. PICK i \in DOMAIN history : v \in history[i].views /\ history[i].dep = active[v]
      BY DEF EventInv, SoleInv
    <2>2. v \in mappings[active[v]]
      BY <2>1 DEF EventInv, EventViews, PublishMappings
    <2>3. v \in PublishedNames(active[v])
      BY <2>1 DEF PublishedNames
    <2> QED
      BY <1>4, <2>2, <2>3 DEF ObsoleteBindings
  <1>5. ScopeInv'
    BY <1>1, <1>4 DEF ScopeInv, PublishMappings, Bound
  <1>6. SparedInv'
    BY <1>1 DEF SparedInv
  <1> QED
    BY <1>2, <1>3, <1>5, <1>6 DEF EventInv

\* A rollback is resolved.
LEMMA ResolveEvents ==
  ASSUME DeploymentInv, EventInv, ResolveRollback PROVE EventInv'
  <1>1. /\ UNCHANGED <<mappings, history, active, unrecorded, op>>
        /\ \E i \in DOMAIN history : plan' = history[i].dep
    BY DEF ResolveRollback, metadata
  <1>2. EventViews' /\ SoleInv' /\ RollbackRestores' /\ ScopeInv' /\ SparedInv'
    BY <1>1 DEF EventInv, EventViews, SoleInv, RollbackRestores, ScopeInv, SparedInv,
                PublishMappings, Bound, BindingsOf, MergedPlans
  <1>3. RollbackInv'
    BY <1>1 DEF EventInv, RollbackInv, IsPublished
  <1> QED
    BY <1>2, <1>3 DEF EventInv

\* A view is bound.
LEMMA BindEvents ==
  ASSUME DeploymentInv, EventInv, NEW v \in Views, BindView(v) PROVE EventInv'
  <1> USE DEF DeploymentInv
  <1>1. /\ UNCHANGED <<mappings, history, plan>>
        /\ op.phase = "publish" /\ v \in op.todo
        /\ unrecorded' = unrecorded \union {v}
        /\ \A w \in Views \ {v} : active'[w] = active[w]
    BY DEF BindView, metadata, TypeOK
  <1>2. /\ op'.phase = "publish" /\ op'.dep = op.dep /\ op'.scope = op.scope
        /\ op'.unbind = op.unbind /\ op'.operation = op.operation
    <2>1. op' = [op EXCEPT !.todo = @ \ {v}]
      BY DEF BindView
    <2> QED
      BY <1>1, <2>1 DEF TypeOK, Operations
  <1>3. v \in op.scope
    BY <1>1 DEF OpInv, PublishInv
  <1>4. Bound' \ unrecorded' \subseteq Bound \ unrecorded
    BY <1>1 DEF Bound
  <1>5. \A w \in Bound' \ unrecorded' : w \in Views /\ active'[w] = active[w]
    BY <1>1 DEF Bound
  <1>6. EventViews' /\ RollbackRestores'
    BY <1>1 DEF EventInv, EventViews, RollbackRestores, PublishMappings, BindingsOf
  <1>7. SoleInv'
    BY <1>1, <1>4, <1>5 DEF EventInv, SoleInv
  <1>8. RollbackInv'
    BY <1>1, <1>2 DEF EventInv, RollbackInv, IsPublished
  <1>9. ScopeInv'
    BY <1>1, <1>2, <1>4 DEF EventInv, ScopeInv, PublishMappings
  <1>10. SparedInv'
    BY <1>2 DEF SparedInv
  <1> QED
    BY <1>6, <1>7, <1>8, <1>9, <1>10 DEF EventInv

\* A view is removed.
LEMMA RemoveEvents ==
  ASSUME DeploymentInv, EventInv, NEW v \in Views, RemoveView(v) PROVE EventInv'
  <1> USE DEF DeploymentInv
  <1>1. /\ UNCHANGED <<mappings, history, plan>>
        /\ unrecorded' = unrecorded \ {v}
        /\ \A w \in Views \ {v} : active'[w] = active[w]
        /\ active'[v] = Unbound
    BY DEF RemoveView, metadata, TypeOK
  <1>2. /\ op'.phase = op.phase /\ op'.dep = op.dep /\ op'.scope = op.scope
        /\ op'.unbind = op.unbind \ {v} /\ op'.operation = op.operation
    <2>1. op' = [op EXCEPT !.unbind = @ \ {v}]
      BY DEF RemoveView
    <2> QED
      BY <1>1, <2>1 DEF TypeOK, Operations
  <1>3. Bound' = Bound \ {v}
    BY <1>1 DEF Bound
  <1>4. \A w \in Bound' : w \in Views /\ active'[w] = active[w]
    BY <1>1, <1>3 DEF Bound
  <1>5. EventViews' /\ RollbackRestores'
    BY <1>1 DEF EventInv, EventViews, RollbackRestores, PublishMappings, BindingsOf
  <1>6. SoleInv'
    BY <1>1, <1>3, <1>4 DEF EventInv, SoleInv
  <1>7. RollbackInv'
    BY <1>1, <1>2 DEF EventInv, RollbackInv, IsPublished
  <1>8. ScopeInv'
    BY <1>1, <1>2, <1>3 DEF EventInv, ScopeInv, PublishMappings
  <1>9. SparedInv'
    BY <1>1, <1>2, <1>3 DEF EventInv, SparedInv, MergedPlans, PublishMappings
  <1> QED
    BY <1>5, <1>6, <1>7, <1>8, <1>9 DEF EventInv

\* The publication is recorded.
LEMMA RecordEvents ==
  ASSUME DeploymentInv, EventInv, PersistPublishEvent PROVE EventInv'
  <1> USE DEF DeploymentInv
  <1>1. PICK n : n = Len(history) + 1
    OBVIOUS
  <1>2. /\ DOMAIN history' = DOMAIN history \union {n}
        /\ \A i \in DOMAIN history : history'[i] = history[i] /\ i < n
        /\ history'[n].dep = op.dep /\ history'[n].views = op.scope
        /\ n \in Nat /\ \A i \in DOMAIN history : i \in 1 .. (n - 1)
    BY <1>1, EventAppended, EventsTyped
  <1>3. history'[n].operation = op.operation
    BY <1>1 DEF PersistPublishEvent, TypeOK
  <1>4. /\ UNCHANGED <<mappings, active, plan>> /\ unrecorded' = unrecorded \ op.scope
        /\ op'.phase = "idle"
        /\ op.phase = "publish" /\ op.todo = {} /\ op.unbind = {}
    BY DEF PersistPublishEvent, End, NoOp
  <1>5. op.scope = PublishMappings(op.dep)
    BY <1>4 DEF EventInv, ScopeInv
  <1>6. EventViews'
    BY <1>2, <1>4, <1>5 DEF EventInv, EventViews, PublishMappings
  <1>7. RollbackInv'
    <2>1. \A d : IsPublished(d) => IsPublished(d)'
      BY <1>2 DEF IsPublished
    <2>2. plan' # Unbound => IsPublished(plan)
      BY <1>4 DEF EventInv, RollbackInv
    <2>3. plan' # Unbound => \E i \in DOMAIN history' : history'[i].dep = plan'
      BY <2>2, <1>2, <1>4 DEF IsPublished
    <2> QED
      BY <2>3, <1>4 DEF RollbackInv, IsPublished
  <1>8. SoleInv'
    <2> SUFFICES ASSUME NEW v \in Bound \ (unrecorded \ op.scope)
                 PROVE  \E i \in DOMAIN history' :
                          /\ v \in history'[i].views
                          /\ history'[i].dep = active[v]
                          /\ \A k \in DOMAIN history' :
                               (\E w \in history'[k].views : ModelOf[w] = ModelOf[v]) => k <= i
      BY <1>4 DEF SoleInv, Bound
    <2>1. CASE v \in op.scope
      <3>1. active[v] = op.dep
        BY <2>1, <1>4 DEF OpInv, PublishInv
      <3>2. \A k \in DOMAIN history' : k <= n
        BY <1>2
      <3> QED
        BY <1>2, <2>1, <3>1, <3>2
    <2>2. CASE v \notin op.scope
      <3>1. PICK i \in DOMAIN history :
              /\ v \in history[i].views
              /\ history[i].dep = active[v]
              /\ \A k \in DOMAIN history :
                   (\E w \in history[k].views : ModelOf[w] = ModelOf[v]) => k <= i
        BY <2>2 DEF EventInv, SoleInv
      <3>2. \A w \in op.scope : ModelOf[w] # ModelOf[v]
        BY <2>2, <1>4 DEF EventInv, ScopeInv
      <3>3. ASSUME NEW k \in DOMAIN history',
                   \E w \in history'[k].views : ModelOf[w] = ModelOf[v]
            PROVE  k <= i
        <4>1. k # n
          BY <3>2, <3>3, <1>2
        <4> QED
          BY <4>1, <3>1, <3>3, <1>2
      <3> QED
        BY <1>2, <3>1, <3>3
    <2> QED
      BY <2>1, <2>2
  <1>9. RollbackRestores'
    <2> SUFFICES ASSUME NEW i \in DOMAIN history', history'[i].operation = "rollback"
                 PROVE  \E j \in 1 .. (i - 1) :
                          history'[j].views \X {history'[j].dep} =
                          history'[i].views \X {history'[i].dep}
      BY DEF RollbackRestores, BindingsOf
    <2>1. CASE i = n
      <3>1. PICK j \in DOMAIN history : history[j].dep = op.dep
        BY <2>1, <1>3, <1>4 DEF EventInv, RollbackInv, IsPublished
      <3>2. history[j].views = op.scope
        BY <3>1, <1>5 DEF EventInv, EventViews
      <3>3. history'[j].views = history'[i].views /\ history'[j].dep = history'[i].dep
        BY <2>1, <3>1, <3>2, <1>2
      <3> QED
        BY <2>1, <3>3, <1>2
    <2>2. CASE i # n
      <3>1. i \in DOMAIN history /\ history'[i] = history[i]
        BY <2>2, <1>2
      <3>2. PICK j \in 1 .. (i - 1) :
              history[j].views \X {history[j].dep} = history[i].views \X {history[i].dep}
        BY <3>1 DEF EventInv, RollbackRestores, BindingsOf
      <3>3. j \in DOMAIN history
        BY <3>1, EventsTyped
      <3> QED
        BY <3>1, <3>2, <3>3, <1>2
    <2> QED
      BY <2>1, <2>2
  <1>10. ScopeInv' /\ SparedInv'
    BY <1>4 DEF ScopeInv, SparedInv
  <1> QED
    BY <1>6, <1>7, <1>8, <1>9, <1>10 DEF EventInv

\* A recorded view of a target without merged plans is the latest of its model.
LEMMA RecordedIsLatest ==
  ASSUME DeploymentInv, EventInv, MergedPlans = {}, NEW v \in Bound \ unrecorded
  PROVE  IsLatest(<<v, active[v]>>)
  <1> USE DEF DeploymentInv
  <1>1. PICK i \in DOMAIN history :
          /\ v \in history[i].views
          /\ history[i].dep = active[v]
          /\ \A k \in DOMAIN history :
               (\E w \in history[k].views : ModelOf[w] = ModelOf[v]) => k <= i
    BY DEF EventInv, SoleInv
  <1>2. v \in PublishMappings(active[v]) /\ active[v] \in DeploymentIds
    BY <1>1, EventsTyped DEF EventInv, EventViews
  <1>3. v \in PublishedNames(active[v])
    BY <1>1 DEF PublishedNames
  <1>4. <<v, active[v]>> \in KnownRelations
    BY <1>2, <1>3 DEF KnownRelations, PublishMappings
  <1>5. IsLastEvent(i, active[v])
    <2>1. ASSUME NEW k \in DOMAIN history, history[k].dep = active[v] PROVE k <= i
      <3>1. v \in history[k].views
        BY <1>2, <2>1 DEF EventInv, EventViews
      <3> QED
        BY <1>1, <3>1
    <2> QED
      BY <1>1, <2>1 DEF IsLastEvent
  <1>6. ASSUME NEW y \in KnownRelations, ModelOf[y[1]] = ModelOf[v], y # <<v, active[v]>>
        PROVE  PublishedLater(active[v], y[2])
    <2>0. PICK e \in DeploymentIds : y \in (mappings[e] \cap PublishedNames(e)) \X {e}
      BY DEF KnownRelations
    <2>1. PICK w \in mappings[e] \cap PublishedNames(e) : y = <<w, e>>
      BY <2>0
    <2>2. PICK k \in DOMAIN history : history[k].dep = e /\ w \in history[k].views
      BY <2>1 DEF PublishedNames
    <2>3. w \in PublishMappings(e)
      BY <2>2 DEF EventInv, EventViews
    <2>4. e # active[v]
      BY <1>2, <1>6, <2>1, <2>3 DEF MergedPlans
    <2>5. PICK j \in DOMAIN history : IsLastEvent(j, e)
      BY <2>2, LastEvent DEF IsPublished
    <2>6. history[j].dep = e /\ w \in history[j].views
      BY <2>3, <2>5 DEF IsLastEvent, EventInv, EventViews
    <2>7. j <= i /\ j # i
      BY <1>1, <1>6, <2>1, <2>4, <2>6
    <2>8. i > j
      BY <2>7, EventsTyped
    <2> QED
      BY <1>5, <2>1, <2>5, <2>8 DEF PublishedLater
  <1> QED
    BY <1>4, <1>6 DEF IsLatest

\* The cleanup is planned.
LEMMA CleanEvents ==
  ASSUME DeploymentInv, EventInv, StartJanitor PROVE EventInv'
  <1>1. /\ UNCHANGED <<mappings, history, active, unrecorded, plan>>
        /\ op'.phase = "clean" /\ op'.unbind = ObsoleteViews
    BY DEF StartJanitor, Begin, NoOp, metadata
  <1>2. EventViews' /\ SoleInv' /\ RollbackRestores'
    BY <1>1 DEF EventInv, EventViews, SoleInv, RollbackRestores, PublishMappings, Bound, BindingsOf
  <1>3. RollbackInv' /\ ScopeInv'
    BY <1>1 DEF EventInv, RollbackInv, ScopeInv, IsPublished
  <1>4. MergedPlans = {} => ObsoleteViews \cap Bound \subseteq unrecorded
    BY RecordedIsLatest DEF ObsoleteViews
  <1>5. SparedInv'
    BY <1>1, <1>4 DEF SparedInv, MergedPlans, PublishMappings, Bound
  <1> QED
    BY <1>2, <1>3, <1>5 DEF EventInv

\* A relation is dropped.
LEMMA DropEvents ==
  ASSUME DeploymentInv, EventInv, NEW x \in Relations, DropRelation(x) PROVE EventInv'
  <1>1. /\ UNCHANGED <<mappings, history, active, unrecorded, plan>>
        /\ op.phase = "clean"
        /\ op' = [op EXCEPT !.drop = @ \ {x}]
    BY DEF DropRelation, metadata
  <1>2. op'.phase = "clean" /\ op'.unbind = op.unbind
    BY <1>1 DEF DeploymentInv, TypeOK, Operations
  <1>3. EventViews' /\ SoleInv' /\ RollbackRestores'
    BY <1>1 DEF EventInv, EventViews, SoleInv, RollbackRestores, PublishMappings, Bound, BindingsOf
  <1>4. RollbackInv' /\ ScopeInv'
    BY <1>1, <1>2 DEF EventInv, RollbackInv, ScopeInv, IsPublished
  <1>5. SparedInv'
    BY <1>1, <1>2 DEF EventInv, SparedInv, MergedPlans, PublishMappings, Bound
  <1> QED
    BY <1>3, <1>4, <1>5 DEF EventInv

\* Nothing is recorded in an empty target.
LEMMA InitEvents == Init => EventInv
  BY DEF Init, EventInv, EventViews, RollbackInv, SoleInv, ScopeInv, SparedInv,
         RollbackRestores, Bound, NoOp

\* Every statement keeps what the recorded publications say.
LEMMA NextEvents == DeploymentInv /\ EventInv /\ [Next]_vars => EventInv'
  <1> SUFFICES ASSUME DeploymentInv, EventInv, [Next]_vars PROVE EventInv'
    OBVIOUS
  <1> USE DEF metadata
  <1>0. op \in Operations
    BY DEF DeploymentInv, TypeOK
  <1>1. ASSUME NEW d \in DeploymentIds, NEW objects \in Plans, StartBuild(d, objects)
        PROVE  EventInv'
    <2>1. op'.phase = "prepare"
      BY <1>1 DEF StartBuild, Begin, NoOp
    <2>2. UNCHANGED <<mappings, history, active, unrecorded, plan>>
      BY <1>1 DEF StartBuild
    <2> QED
      BY <2>1, <2>2, QuietEvents
  <1>2. ASSUME PersistCandidateMetadata PROVE EventInv'
    BY <1>2, PersistEvents
  <1>3. ASSUME NEW o \in Objects, Realize(o) PROVE EventInv'
    <2>1. op'.phase = "realize"
      BY <1>0, <1>3 DEF Realize, Operations
    <2>2. UNCHANGED <<mappings, history, active, unrecorded, plan>>
      BY <1>3 DEF Realize
    <2> QED
      BY <2>1, <2>2, QuietEvents
  <1>4. ASSUME CaptureBoundary PROVE EventInv'
    <2>1. op'.phase = "replay"
      BY <1>0, <1>4 DEF CaptureBoundary, Operations
    <2>2. UNCHANGED <<mappings, history, active, unrecorded, plan>>
      BY <1>4 DEF CaptureBoundary
    <2> QED
      BY <2>1, <2>2, QuietEvents
  <1>5. ASSUME NEW v \in Views, Replay(v) PROVE EventInv'
    <2>1. op'.phase = "replay"
      BY <1>0, <1>5 DEF Replay, Operations
    <2>2. UNCHANGED <<mappings, history, active, unrecorded, plan>>
      BY <1>5 DEF Replay
    <2> QED
      BY <2>1, <2>2, QuietEvents
  <1>6. ASSUME FinishBuild \/ FinishJanitor \/ Abort PROVE EventInv'
    <2>1. op'.phase = "idle"
      BY <1>6 DEF FinishBuild, FinishJanitor, Abort, End, NoOp
    <2>2. UNCHANGED <<mappings, history, active, unrecorded, plan>>
      BY <1>6 DEF FinishBuild, FinishJanitor, Abort
    <2> QED
      BY <2>1, <2>2, QuietEvents
  <1>7. ASSUME NEW d \in DeploymentIds, Promote(d) PROVE EventInv'
    <2>1. Publish(d, "promote") /\ plan' = plan
      BY <1>7 DEF Promote
    <2> QED
      BY <2>1, PublishEvents
  <1>8. ASSUME NEW v \in Views, BindView(v) PROVE EventInv'
    BY <1>8, BindEvents
  <1>9. ASSUME NEW v \in Views, RemoveView(v) PROVE EventInv'
    BY <1>9, RemoveEvents
  <1>10. ASSUME PersistPublishEvent PROVE EventInv'
    BY <1>10, RecordEvents
  <1>11. ASSUME ResolveRollback PROVE EventInv'
    BY <1>11, ResolveEvents
  <1>12. ASSUME Rollback PROVE EventInv'
    <2>1. Publish(plan, "rollback") /\ plan' = Unbound /\ plan # Unbound
      BY <1>12 DEF Rollback
    <2>2. plan \in DeploymentIds /\ IsPublished(plan)
      BY <2>1 DEF DeploymentInv, TypeOK, EventInv, RollbackInv
    <2> QED
      BY <2>1, <2>2, PublishEvents
  <1>13. ASSUME StartJanitor PROVE EventInv'
    BY <1>13, CleanEvents
  <1>14. ASSUME NEW x \in Relations, DropRelation(x) PROVE EventInv'
    BY <1>14, DropEvents
  <1>15. ASSUME TimePasses \/ UNCHANGED vars PROVE EventInv'
    <2>1. UNCHANGED <<mappings, history, active, unrecorded, plan, op>>
      BY <1>15 DEF TimePasses, vars
    <2> QED
      BY <2>1, QuietEvents
  <1> QED
    BY <1>1, <1>2, <1>3, <1>4, <1>5, <1>6, <1>7, <1>8, <1>9, <1>10, <1>11,
       <1>12, <1>13, <1>14, <1>15
    DEF Next, Build, Publication, Janitor

\* What the recorded publications say of the metadata, of the live views and of
\* the operation in progress.
THEOREM EventInvariant == Spec => []EventInv
  <1> QED
    BY InitEvents, NextEvents, DeploymentInvariant, PTL DEF Spec

\* A rollback records the bindings of an earlier publication, whatever ran
\* between its resolution and its execution.
THEOREM RollbackRestored == Spec => []RollbackRestores
  <1>1. EventInv => RollbackRestores
    BY DEF EventInv
  <1> QED
    BY <1>1, EventInvariant, PTL

\* A cleanup removes no view that a completed publication bound.
THEOREM ModelsStayBound == Spec => JanitorKeepsModelsBound
  <1> DEFINE Kept == op.phase = "clean" /\ MergedPlans = {} =>
                       \A v \in Bound \ unrecorded : active'[v] # Unbound
  <1>1. DeploymentInv /\ EventInv /\ [Next]_vars => Kept
    <2> SUFFICES ASSUME DeploymentInv, EventInv, [Next]_vars, op.phase = "clean",
                        MergedPlans = {}, NEW v \in Bound \ unrecorded
                 PROVE  active'[v] # Unbound
      OBVIOUS
    <2>1. v \in Views /\ active[v] # Unbound
      BY DEF Bound
    <2>2. ASSUME NEW w \in Views, BindView(w) PROVE FALSE
      BY <2>2 DEF BindView
    <2>3. ASSUME NEW w \in Views, RemoveView(w) PROVE active'[v] # Unbound
      <3>1. w # v
        BY <2>3 DEF RemoveView, EventInv, SparedInv
      <3> QED
        BY <2>1, <2>3, <3>1 DEF RemoveView, DeploymentInv, TypeOK
    <2>4. ASSUME active' = active PROVE active'[v] # Unbound
      BY <2>1, <2>4
    <2>5. \/ active' = active
          \/ \E w \in Views : BindView(w) \/ RemoveView(w)
      <3>1. Build \/ Janitor \/ TimePasses \/ Abort \/ UNCHANGED vars => active' = active
        BY DEF Build, Janitor, vars, Abort, StartBuild, PersistCandidateMetadata,
           Realize, CaptureBoundary, Replay, FinishBuild, StartJanitor,
           DropRelation, FinishJanitor, TimePasses
      <3>2. Publication => \/ active' = active
                           \/ \E w \in Views : BindView(w) \/ RemoveView(w)
        BY DEF Publication, Promote, Publish, PersistPublishEvent, ResolveRollback, Rollback
      <3> QED
        BY <3>1, <3>2 DEF Next
    <2> QED
      BY <2>2, <2>3, <2>4, <2>5
  <1> QED
    BY <1>1, EventInvariant, DeploymentInvariant, PTL DEF Spec, JanitorKeepsModelsBound

-----------------------------------------------------------------------------
\* What a cleanup leaves to roll back to.

\* The views a cleanup has yet to remove are obsolete, and either it touches no
\* rollback point or it spares at least MinimumRollback of them.
KeptInv ==
  op.phase = "clean" =>
    /\ op.unbind \cap Bound \subseteq ObsoleteViews
    /\ \/ \A x \in op.drop : x[2] \notin RollbackPoints
       \/ \E K \in SUBSET RollbackPoints : /\ Cardinality(K) >= MinimumRollback
                                           /\ \A x \in op.drop : x[2] \notin K

\* Only published deployments are rollback points, so they are finitely many.
LEMMA PointsFinite == ASSUME TypeOK PROVE IsFiniteSet(RollbackPoints)
  <1> DEFINE f == [i \in DOMAIN history |-> history[i].dep]
             D == {f[i] : i \in DOMAIN history}
  <1>1. IsFiniteSet(DOMAIN history)
    BY EventsTyped, FS_Interval
  <1>2. IsFiniteSet(D)
    <2>1. f \in Surjection(DOMAIN history, D)
      BY DEF Surjection
    <2> QED
      BY <1>1, <2>1, FS_Surjection
  <1>3. RollbackPoints \subseteq D
    BY DEF RollbackPoints, IsPublished
  <1> QED
    BY <1>2, <1>3, FS_Subset

\* If the cleanup does not spare every rollback point, it spares as many as it
\* must: the newest one that it does not spare has that many newer ones.
LEMMA EnoughSpared ==
  ASSUME TypeOK, NEW d \in RollbackPoints, d \notin RollbackDeployments
  PROVE  Cardinality(RollbackDeployments) >= MinimumRollback
  <1> DEFINE S == {i \in DOMAIN history :
                     \E e \in RollbackPoints \ RollbackDeployments : IsLastEvent(i, e)}
  <1>1. S # {} /\ S \in SUBSET DOMAIN history
    <2>1. IsPublished(d)
      BY DEF RollbackPoints
    <2> QED
      BY <2>1, LastEvent
  <1>2. PICK n \in S : \A j \in S : j <= n
    <2> HIDE DEF S
    <2> QED
      BY <1>1, NewestOf
  <1>3. PICK d0 \in RollbackPoints \ RollbackDeployments : IsLastEvent(n, d0)
    OBVIOUS
  <1> DEFINE Newer == {e \in RollbackPoints : PublishedLater(e, d0)}
  <1>4. Newer \subseteq RollbackDeployments
    <2> SUFFICES ASSUME NEW e \in RollbackPoints, PublishedLater(e, d0),
                        e \notin RollbackDeployments
                 PROVE  FALSE
      OBVIOUS
    <2>1. PICK i, j \in DOMAIN history : IsLastEvent(i, e) /\ IsLastEvent(j, d0) /\ i > j
      BY DEF PublishedLater
    <2>2. i \in S
      BY <2>1
    <2>3. i <= n /\ j = n
      <3>1. i <= n
        BY <1>2, <2>2
      <3>2. j <= n /\ n <= j
        BY <1>3, <2>1 DEF IsLastEvent
      <3> QED
        BY <3>1, <3>2, EventsTyped
    <2> QED
      BY <2>1, <2>3, EventsTyped
  <1>5. IsFiniteSet(RollbackDeployments)
    BY PointsFinite, FS_Subset DEF RollbackDeployments
  <1>6. /\ IsFiniteSet(Newer)
        /\ Cardinality(Newer) <= Cardinality(RollbackDeployments)
    <2> HIDE DEF Newer
    <2> QED
      BY <1>4, <1>5, FS_Subset
  <1>7. ~(Cardinality(Newer) < MinimumRollback)
    BY <1>3 DEF RollbackDeployments
  <1>8. Cardinality(Newer) \in Nat /\ Cardinality(RollbackDeployments) \in Nat
    BY <1>5, <1>6, FS_CardinalityType
  <1> HIDE DEF Newer
  <1> QED
    BY <1>6, <1>7, <1>8, DeploymentAssumption

\* The cleanup is planned.
LEMMA CleanKept ==
  ASSUME DeploymentInv, StartJanitor PROVE KeptInv'
  <1>1. /\ UNCHANGED <<mappings, headers, history, active, relations>>
        /\ op'.phase = "clean" /\ op'.unbind = ObsoleteViews /\ op'.drop = CleanupRelations
    BY DEF StartJanitor, Begin, NoOp, metadata
  <1>2. RollbackPoints' = RollbackPoints /\ ObsoleteViews' = ObsoleteViews
    BY <1>1 DEF RollbackPoints, ActiveDeployments, ObsoleteViews, KnownRelations, IsLatest,
                PublishedLater, IsLastEvent, PublishedNames, Bound, IsPublished,
                HasHeader, RelationsOf, PublishMappings
  <1>3. \A x \in CleanupRelations : x[2] \notin RollbackDeployments
    BY DEF CleanupRelations, Deletable, RelationsOf
  <1>4. RollbackDeployments \subseteq RollbackPoints
    BY DEF RollbackDeployments
  <1>5. CASE RollbackPoints \subseteq RollbackDeployments
    BY <1>1, <1>2, <1>3, <1>5 DEF KeptInv
  <1>6. CASE ~(RollbackPoints \subseteq RollbackDeployments)
    <2>1. Cardinality(RollbackDeployments) >= MinimumRollback
      BY <1>6, EnoughSpared DEF DeploymentInv
    <2> QED
      BY <1>1, <1>2, <1>3, <1>4, <2>1 DEF KeptInv
  <1> QED
    BY <1>5, <1>6

\* A view is removed: the deployments of the others are the same.
LEMMA RemoveKept ==
  ASSUME DeploymentInv, KeptInv, NEW v \in Views, RemoveView(v), op.phase = "clean"
  PROVE  KeptInv'
  <1> USE DEF DeploymentInv
  <1>1. /\ UNCHANGED <<mappings, headers, history, relations>>
        /\ v \in op.unbind
        /\ \A w \in Views \ {v} : active'[w] = active[w]
        /\ active'[v] = Unbound
    BY DEF RemoveView, metadata, TypeOK
  <1>2. op'.phase = "clean" /\ op'.unbind = op.unbind \ {v} /\ op'.drop = op.drop
    <2>1. op' = [op EXCEPT !.unbind = @ \ {v}]
      BY DEF RemoveView
    <2> QED
      BY <2>1 DEF TypeOK, Operations
  <1>3. Bound' = Bound \ {v}
    BY <1>1 DEF Bound
  <1>4. KnownRelations' = KnownRelations /\ \A x : IsLatest(x)' = IsLatest(x)
    BY <1>1 DEF KnownRelations, IsLatest, PublishedLater, IsLastEvent, PublishedNames
  <1>5. \A w \in Bound \ {v} : <<w, active'[w]>> = <<w, active[w]>>
    BY <1>1 DEF Bound
  <1>6. ObsoleteViews' = ObsoleteViews \ {v}
    <2>1. \A x : (x \in KnownRelations' /\ ~IsLatest(x)') = (x \in KnownRelations /\ ~IsLatest(x))
      BY <1>4
    <2> QED
      BY <1>3, <1>4, <1>5, <2>1 DEF ObsoleteViews
  <1>7. Bound' \ ObsoleteViews' = Bound \ ObsoleteViews
    BY <1>1, <1>3, <1>6 DEF KeptInv
  <1>8. v \notin Bound \ ObsoleteViews
    BY <1>1 DEF KeptInv
  <1>9. ActiveDeployments' = ActiveDeployments
    BY <1>5, <1>7, <1>8 DEF ActiveDeployments
  <1>10. RollbackPoints' = RollbackPoints
    BY <1>1, <1>9 DEF RollbackPoints, IsPublished, HasHeader, RelationsOf, PublishMappings
  <1>11. op'.unbind \cap Bound' \subseteq ObsoleteViews'
    BY <1>2, <1>3, <1>6 DEF KeptInv
  <1> QED
    BY <1>2, <1>10, <1>11 DEF KeptInv

\* What a dropped relation takes from the rollback points: at most its own
\* deployment.
LEMMA DropPoints ==
  ASSUME DeploymentInv, NEW x \in Relations, DropRelation(x)
  PROVE  /\ RollbackPoints' \subseteq RollbackPoints
         /\ RollbackPoints \ {x[2]} \subseteq RollbackPoints'
         /\ ObsoleteViews' = ObsoleteViews /\ Bound' = Bound
  <1>1. /\ UNCHANGED <<mappings, headers, history, active>>
        /\ relations' = relations \ {x}
    BY DEF DropRelation, metadata
  <1>2. ObsoleteViews' = ObsoleteViews /\ Bound' = Bound /\ ActiveDeployments' = ActiveDeployments
    BY <1>1 DEF ActiveDeployments, ObsoleteViews, KnownRelations, IsLatest,
                PublishedLater, IsLastEvent, PublishedNames, Bound
  <1>3. \A d : RelationsOf(d)' = RelationsOf(d) /\ (x \in RelationsOf(d) => d = x[2])
    BY <1>1 DEF RelationsOf
  <1>4. \A d : /\ RelationsOf(d) \subseteq relations' => RelationsOf(d) \subseteq relations
               /\ d # x[2] /\ RelationsOf(d) \subseteq relations => RelationsOf(d) \subseteq relations'
    BY <1>1, <1>3
  <1>5. \A d : /\ IsPublished(d)' = IsPublished(d) /\ HasHeader(d)' = HasHeader(d)
               /\ PublishMappings(d)' = PublishMappings(d)
    BY <1>1 DEF IsPublished, HasHeader, PublishMappings
  <1>6. RollbackPoints' \subseteq RollbackPoints
    BY <1>1, <1>2, <1>3, <1>4, <1>5 DEF RollbackPoints
  <1>7. RollbackPoints \ {x[2]} \subseteq RollbackPoints'
    BY <1>1, <1>2, <1>3, <1>4, <1>5 DEF RollbackPoints
  <1> QED
    BY <1>2, <1>6, <1>7

\* A relation is dropped.
LEMMA DropKept ==
  ASSUME DeploymentInv, KeptInv, NEW x \in Relations, DropRelation(x)
  PROVE  /\ KeptInv'
         /\ \/ RollbackPoints \subseteq RollbackPoints'
            \/ Cardinality(RollbackPoints') >= MinimumRollback
  <1>1. op.phase = "clean" /\ x \in op.drop
    BY DEF DropRelation
  <1>2. op'.phase = "clean" /\ op'.unbind = op.unbind /\ op'.drop = op.drop \ {x}
    <2>1. op' = [op EXCEPT !.drop = @ \ {x}]
      BY DEF DropRelation
    <2> QED
      BY <1>1, <2>1 DEF DeploymentInv, TypeOK, Operations
  <1>3. op'.unbind \cap Bound' \subseteq ObsoleteViews'
    BY <1>1, <1>2, DropPoints DEF KeptInv
  <1>4. ASSUME \A y \in op.drop : y[2] \notin RollbackPoints
        PROVE  /\ \A y \in op'.drop : y[2] \notin RollbackPoints'
               /\ RollbackPoints \subseteq RollbackPoints'
    BY <1>1, <1>2, <1>4, DropPoints
  <1>5. ASSUME NEW K \in SUBSET RollbackPoints, Cardinality(K) >= MinimumRollback,
               \A y \in op.drop : y[2] \notin K
        PROVE  /\ K \in SUBSET RollbackPoints'
               /\ \A y \in op'.drop : y[2] \notin K
               /\ Cardinality(RollbackPoints') >= MinimumRollback
    <2>1. K \subseteq RollbackPoints' /\ \A y \in op'.drop : y[2] \notin K
      BY <1>1, <1>2, <1>5, DropPoints
    <2>2. IsFiniteSet(RollbackPoints')
      BY PointsFinite, DropPoints, FS_Subset DEF DeploymentInv
    <2>3. IsFiniteSet(K) /\ Cardinality(K) <= Cardinality(RollbackPoints')
      BY <2>1, <2>2, FS_Subset
    <2>4. Cardinality(K) \in Nat /\ Cardinality(RollbackPoints') \in Nat
      BY <2>2, <2>3, FS_CardinalityType
    <2>5. Cardinality(RollbackPoints') >= MinimumRollback
      BY <1>5, <2>3, <2>4, DeploymentAssumption
    <2> QED
      BY <2>1, <2>5
  <1>6. KeptInv'
    BY <1>1, <1>2, <1>3, <1>4, <1>5 DEF KeptInv
  <1> QED
    BY <1>1, <1>4, <1>5, <1>6 DEF KeptInv

\* A step that changes nothing a cleanup depends on.
LEMMA QuietKept ==
  ASSUME KeptInv,
         \/ op'.phase # "clean"
         \/ UNCHANGED <<mappings, headers, history, active, relations, op>>
  PROVE  KeptInv'
  <1>1. CASE op'.phase # "clean"
    BY <1>1 DEF KeptInv
  <1>2. CASE UNCHANGED <<mappings, headers, history, active, relations, op>>
    <2>1. RollbackPoints' = RollbackPoints /\ ObsoleteViews' = ObsoleteViews /\ Bound' = Bound
      BY <1>2 DEF RollbackPoints, ActiveDeployments, ObsoleteViews, KnownRelations, IsLatest,
                  PublishedLater, IsLastEvent, PublishedNames, Bound, IsPublished,
                  HasHeader, RelationsOf, PublishMappings
    <2> QED
      BY <1>2, <2>1 DEF KeptInv
  <1> QED
    BY <1>1, <1>2

\* Every statement keeps what the cleanup decided.
LEMMA NextKept == DeploymentInv /\ KeptInv /\ [Next]_vars => KeptInv'
  <1> SUFFICES ASSUME DeploymentInv, KeptInv, [Next]_vars PROVE KeptInv'
    OBVIOUS
  <1>0. op \in Operations
    BY DEF DeploymentInv, TypeOK
  <1>1. ASSUME Build PROVE op'.phase # "clean"
    <2>1. CASE \E d \in DeploymentIds, objects \in Plans : StartBuild(d, objects)
      BY <2>1 DEF StartBuild, Begin, NoOp
    <2>2. CASE PersistCandidateMetadata
      BY <1>0, <2>2 DEF PersistCandidateMetadata, Operations
    <2>3. CASE \E o \in Objects : Realize(o)
      BY <1>0, <2>3 DEF Realize, Operations
    <2>4. CASE CaptureBoundary
      BY <1>0, <2>4 DEF CaptureBoundary, Operations
    <2>5. CASE \E v \in Views : Replay(v)
      BY <1>0, <2>5 DEF Replay, Operations
    <2>6. CASE FinishBuild
      BY <2>6 DEF FinishBuild, End, NoOp
    <2> QED
      BY <1>1, <2>1, <2>2, <2>3, <2>4, <2>5, <2>6 DEF Build
  <1>2. ASSUME (\E d \in DeploymentIds : Promote(d)) \/ Rollback PROVE op'.phase # "clean"
    BY <1>2 DEF Promote, Rollback, Publish, Begin, NoOp
  <1>3. ASSUME PersistPublishEvent \/ FinishJanitor \/ Abort PROVE op'.phase # "clean"
    BY <1>3 DEF PersistPublishEvent, FinishJanitor, Abort, End, NoOp
  <1>4. ASSUME NEW v \in Views, BindView(v) PROVE op'.phase # "clean"
    BY <1>0, <1>4 DEF BindView, Operations
  <1>5. ASSUME NEW v \in Views, RemoveView(v) PROVE KeptInv'
    <2>1. ASSUME op.phase # "clean" PROVE op'.phase # "clean"
      BY <1>0, <1>5, <2>1 DEF RemoveView, Operations
    <2> QED
      BY <1>5, <2>1, RemoveKept, QuietKept
  <1>6. ASSUME ResolveRollback \/ TimePasses \/ UNCHANGED vars
        PROVE  UNCHANGED <<mappings, headers, history, active, relations, op>>
    BY <1>6 DEF ResolveRollback, TimePasses, vars, metadata
  <1>7. ASSUME StartJanitor PROVE KeptInv'
    BY <1>7, CleanKept
  <1>8. ASSUME NEW x \in Relations, DropRelation(x) PROVE KeptInv'
    BY <1>8, DropKept
  <1> QED
    BY <1>1, <1>2, <1>3, <1>4, <1>5, <1>6, <1>7, <1>8, QuietKept
    DEF Next, Publication, Janitor

\* No statement of a cleanup leaves fewer rollback points than
\* minimum_rollback_deployments, if there were that many.
THEOREM RollbackPointsKept == Spec => JanitorKeepsRollbackPoints
  <1> DEFINE Kept == relations' # relations /\ op.phase = "clean" =>
                       \/ RollbackPoints \subseteq RollbackPoints'
                       \/ Cardinality(RollbackPoints') >= MinimumRollback
  <1>1. Init => KeptInv
    BY DEF Init, KeptInv, NoOp
  <1>2. DeploymentInv /\ KeptInv /\ [Next]_vars => Kept
    <2> SUFFICES ASSUME DeploymentInv, KeptInv, [Next]_vars, relations' # relations,
                        op.phase = "clean"
                 PROVE  \/ RollbackPoints \subseteq RollbackPoints'
                        \/ Cardinality(RollbackPoints') >= MinimumRollback
      OBVIOUS
    <2>1. \E x \in Relations : DropRelation(x)
      BY DEF Next, Build, Publication, Janitor, vars, metadata,
         Abort, StartBuild, PersistCandidateMetadata, Realize, CaptureBoundary,
         Replay, FinishBuild, Promote, Publish, BindView, RemoveView,
         PersistPublishEvent, ResolveRollback, Rollback, StartJanitor,
         FinishJanitor, TimePasses
    <2> QED
      BY <2>1, DropKept
  <1> QED
    BY <1>1, <1>2, NextKept, DeploymentInvariant, PTL DEF Spec, JanitorKeepsRollbackPoints
=============================================================================
