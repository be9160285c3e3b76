------------------------- MODULE DestructionPlanning -------------------------
(***************************************************************************)
(* The planner of destructive operations (executor/destruction): what      *)
(* destroying pipelines, or resetting a target, would drop, from the       *)
(* compiled project and what the warehouse says.  Pure operators; the      *)
(* state machine is module Destruction.                                    *)
(*                                                                         *)
(* A request is [op, pipelines, included, orphans].  The warehouse is a    *)
(* record                                                                  *)
(*   catalog   : the generation of each relation, 0 when it is absent      *)
(*   large     : the relations larger than the DROP size limit             *)
(*   built     : the projects whose manifests were published, newest first *)
(*   mappings  : recorded virtual objects [deployment, key, model,         *)
(*               physical]                                                 *)
(*   bindings  : published bindings [logical, physical]                    *)
(* One target database is modelled; names of relations are numbers.        *)
(***************************************************************************)
EXTENDS ProjectGraph

CONSTANTS Relations,    \* every relation name of the target database
          Metadata,     \* the framework's own relations
          Uses          \* what the definition of each relation reads or feeds

ASSUME RelationsAssumption ==
    /\ Metadata \subseteq Relations
    /\ Uses \in [Relations -> SUBSET Relations]
    /\ Relations \subseteq Nat /\ IsFiniteSet(Relations)

\* Unattributed stands for a relation that no pipeline is known to own.
Unattributed == 0

Production == 0

MaxNamedChallenges == 3

DestroyPipelines == "destroy_pipelines"
ResetTarget      == "reset_target"

Exists(w, r) == w.catalog[r] > 0

-----------------------------------------------------------------------------
(***************************************************************************)
(* Who owns a logical name.                                                *)
(***************************************************************************)

ManagedSources(p) == {s \in p.sources : p.resources[s] # {}}

LogicalPipelines(p, name) ==
    {p.pipelineOf[m] : m \in p.models \cap {name}}
    \cup {q \in p.pipelines : name \in p.declares[q]}
    \cup (IF name \in p.sources
          THEN PipelinesOf(p, Downstream(p, {name}, AllEdgeTypes))
          ELSE {})

\* _affected_sources of a selection, before the managed ones are taken.
SourcesOf(p, pipelines) ==
    Upstream(p, ModelsOf(p, pipelines), AllEdgeTypes)
    \cup UNION {p.declares[q] : q \in pipelines \cap p.pipelines}

AffectedSources(req, p, affected) ==
    IF req.op = ResetTarget THEN ManagedSources(p)
    ELSE ManagedSources(p) \cap SourcesOf(p, affected)

SharedSourcePipelines(p, pipelines) ==
    UNION {LogicalPipelines(p, s) :
              s \in ManagedSources(p) \cap SourcesOf(p, pipelines)}

\* The manifest a build publishes: who owned which relation.
ManifestResources(p) ==
    {[relation |-> x[2], logical |-> x[1], model |-> x[1] \in p.models,
      pipeline |-> x[3]] :
        x \in {y \in Keys(p) \X Relations \X p.pipelines :
                  y[2] \in p.resources[y[1]] /\ y[3] \in LogicalPipelines(p, y[1])}}

\* What the newest manifest that has any of them has of some entries.
Newest(found) ==
    LET having == {i \in DOMAIN found : found[i] # {}}
    IN  IF having = {} THEN {} ELSE found[Min(having)]

NewestOfRelation(built, r) ==
    Newest([i \in DOMAIN built |-> {x \in ManifestResources(built[i]) : x.relation = r}])

NewestOfName(built, name, kinds) ==
    Newest([i \in DOMAIN built |-> {x \in ManifestResources(built[i]) :
                                       x.logical = name /\ x.model \in kinds}])

HistoricalPipelines(p, built) ==
    UNION {LET owners == {x.pipeline : x \in NewestOfRelation(built, r)}
           IN  IF owners \cap p.pipelines = {} THEN owners ELSE {} : r \in Relations}

-----------------------------------------------------------------------------
(***************************************************************************)
(* The selection: every pipeline that reads what the selection drops has   *)
(* to be named.                                                            *)
(***************************************************************************)

Supplied(req) == req.pipelines \cup req.included

HistoryRequested(req, p) ==
    req.orphans \/ Supplied(req) \ p.pipelines # {}

Available(req, p, w) ==
    p.pipelines \cup (IF HistoryRequested(req, p)
                      THEN HistoricalPipelines(p, w.built) ELSE {})

\* The pipelines named with a logical name, its last owners when the
\* project has dropped the name and history is consulted.
RecordedPipelines(req, p, w, name) ==
    IF name \in Keys(p) THEN LogicalPipelines(p, name)
    ELSE IF HistoryRequested(req, p)
         THEN {x.pipeline : x \in NewestOfName(w.built, name, BOOLEAN)}
         ELSE {}

\* Mutant: pipelines that share a managed source are not looked for.
ExpandDownstream(p, required) ==
    required
    \cup PipelinesOf(p, Downstream(p, ModelsOf(p, required), AllEdgeTypes))

Expand(p, required) ==
    required
    \cup PipelinesOf(p, Downstream(p, ModelsOf(p, required), AllEdgeTypes))
    \cup SharedSourcePipelines(p, required)

RequiredPipelines(p, supplied) ==
    LET grown[n \in 0..Cardinality(p.pipelines)] ==
            IF n = 0 THEN supplied
            ELSE LET smaller == grown[n - 1] IN Expand(p, smaller)
    IN  grown[Cardinality(p.pipelines)]

MissingDependents(req, p) ==
    RequiredPipelines(p, Supplied(req)) \ Supplied(req)

SelectionError(req, p, w) ==
    IF req.op = ResetTarget THEN Supplied(req) # {}
    ELSE \/ req.pipelines = {}
         \/ ~(Supplied(req) \subseteq Available(req, p, w))

Affected(req, p, w) ==
    IF req.op = ResetTarget THEN Available(req, p, w) ELSE Supplied(req)

-----------------------------------------------------------------------------
(***************************************************************************)
(* The owned relations, as associations <<relation, logical name,          *)
(* pipeline, evidence>>.                                                   *)
(***************************************************************************)

Associate(r, name, pipelines, why) ==
    {<<r, name, q, why>> :
        q \in (IF pipelines = {} THEN {Unattributed} ELSE pipelines)}

ManifestOwned(p, names) ==
    UNION {Associate(x[2], x[1], LogicalPipelines(p, x[1]), "current_manifest") :
              x \in {y \in names \X (Relations \ Metadata) :
                        y[2] \in p.resources[y[1]]}}

CurrentRelations(p) == (UNION {p.resources[k] : k \in Keys(p)}) \ Metadata

EligibleHistorical(p, w, affected, inactive) ==
    IF w.built = <<>> THEN {}
    ELSE LET published(r) == {x.pipeline : x \in {y \in ManifestResources(w.built[1]) :
                                                     y.relation = r}}
             candidates == {r \in (Relations \ Metadata) \ CurrentRelations(p) :
                               Exists(w, r) /\ published(r) \subseteq inactive}
         IN  {x \in UNION {NewestOfRelation(w.built, r) : r \in candidates} :
                 x.pipeline \in affected}

\* Names of models or sources that only the affected pipelines last owned
\* and that the project no longer has.
HistoricalNames(p, w, affected, model) ==
    {name \in {x.logical : x \in UNION {ManifestResources(w.built[i]) :
                                           i \in DOMAIN w.built}} :
        LET last == NewestOfName(w.built, name, {model})
        IN  /\ last # {}
            /\ \A x \in last : x.pipeline \in affected
            /\ name \notin (IF model THEN p.models ELSE p.sources)}

\* The model a published or physical name was last recorded for.
PublishedName(w, name) ==
    LET recorded == {m \in w.mappings : m.key = name \/ m.physical = name}
    IN  IF recorded = {} THEN name
        ELSE (CHOOSE m \in recorded :
                 \A n \in recorded : n.deployment <= m.deployment).model

VirtualMappings(req, p, w, names) ==
    UNION {Associate(m.physical, m.model, RecordedPipelines(req, p, w, m.model),
                     "virtual_mapping") :
              m \in {n \in w.mappings : /\ req.op = ResetTarget \/ n.model \in names
                                        /\ n.physical \notin Metadata}}

VirtualBindings(req, p, w, owned, names) ==
    LET Owners(name) == RecordedPipelines(req, p, w, name)
        LogicalOf(b) ==
            LET known == {x[2] : x \in {y \in owned : y[1] = b.logical}}
            IN  IF known = {} THEN PublishedName(w, b.logical) ELSE Min(known)
        bound == {b \in w.bindings : b.logical \notin Metadata
                                     /\ (req.op = ResetTarget \/ LogicalOf(b) \in names)}
    IN  UNION {Associate(b.logical, LogicalOf(b), Owners(LogicalOf(b)), "stable_binding")
               \cup (IF b.physical \in Metadata THEN {}
                     ELSE Associate(b.physical,
                              IF \E m \in w.mappings : b.physical \in {m.key, m.physical}
                              THEN PublishedName(w, b.physical) ELSE LogicalOf(b),
                              Owners(LogicalOf(b)), "virtual_mapping")) : b \in bound}

AffectedModels(req, p, w, affected, history) ==
    ModelsOf(p, affected)
    \cup (IF req.op = ResetTarget
          THEN {m.model : m \in w.mappings} \ AffectedSources(req, p, affected)
          ELSE {})
    \cup (IF history THEN HistoricalNames(p, w, affected, TRUE) ELSE {})

Owned(req, p, w) ==
    LET affected == Affected(req, p, w)
        inactive == affected \ p.pipelines
        history  == req.orphans \/ inactive # {}
        sources  == AffectedSources(req, p, affected)
        names    == AffectedModels(req, p, w, affected, history) \cup sources
                    \cup (IF history THEN HistoricalNames(p, w, affected, FALSE) ELSE {})
        manifest == ManifestOwned(p, ModelsOf(p, affected) \cup sources)
                    \cup (IF history
                          THEN UNION {Associate(x.relation, x.logical, {x.pipeline},
                                                "historical_manifest") :
                                         x \in EligibleHistorical(p, w, affected, inactive)}
                          ELSE {})
        virtual  == manifest \cup VirtualMappings(req, p, w, names)
    IN  virtual \cup VirtualBindings(req, p, w, virtual, names)

OwnedNames(owned) == {x[1] : x \in owned}

-----------------------------------------------------------------------------
(***************************************************************************)
(* The evidence, the plan and the order of the drops.                      *)
(***************************************************************************)

Evidence(w, owned) ==
    {[name   |-> r,
      exists |-> Exists(w, r),
      generation   |-> w.catalog[r],
      associations |-> {x \in owned : x[1] = r},
      uses   |-> IF Exists(w, r) THEN Uses[r] \cap OwnedNames(owned) ELSE {}] :
        r \in OwnedNames(owned)}

\* Relations outside the plan that depend on one inside it.
ExternalDependants(w, names) ==
    {r \in Relations \ names : Exists(w, r) /\ Uses[r] \cap names # {}}

\* Mutant: prerequisites are dropped before what depends on them.
PrerequisitesFirst(relations) ==
    KahnOrder({e.name : e \in relations},
              UNION {{<<u, e.name>> : u \in e.uses} : e \in relations})

ReverseOrder(relations) ==
    KahnOrder({e.name : e \in relations},
              UNION {{<<e.name, u>> : u \in e.uses} : e \in relations})

\* assemble_destruction_workflow: one DROP for each relation that existed.
Statements(plan) ==
    LET present == {e.name : e \in {f \in plan.relations : f.exists}}
    IN  Selected(ReverseOrder(plan.relations), present)

Challenges(affected, production) ==
    LET names    == KahnOrder(affected, {})
        selected == IF Len(names) <= MaxNamedChallenges THEN names
                    ELSE <<names[1], names[(Len(names) \div 2) + 1], names[Len(names)]>>
    IN  IF production THEN Append(selected, Production) ELSE selected

\* The plan with everything its fingerprint covers: all but its sizes and
\* timestamps.  The project stands for the manifest fingerprint.
BuildPlan(req, p, w) ==
    LET affected == Affected(req, p, w)
    IN  [op         |-> req.op,
         target     |-> p.target,
         requested  |-> req.pipelines,
         included   |-> req.included,
         affected   |-> affected,
         models     |-> AffectedModels(req, p, w, affected,
                            req.orphans \/ ~(affected \subseteq p.pipelines)),
         relations  |-> Evidence(w, Owned(req, p, w)),
         challenges |-> Challenges(affected, req.op = ResetTarget /\ p.production),
         orphans    |-> HistoryRequested(req, p),
         project    |-> p]

\* Why a request is refused, in the order the planner looks.
PlanError(req, p, w) ==
    IF ~Compiles(p) THEN "compilation"
    ELSE IF SelectionError(req, p, w) THEN "selection"
    ELSE IF req.op = DestroyPipelines /\ MissingDependents(req, p) # {} THEN "dependency"
    ELSE LET owned == Owned(req, p, w)
             names == OwnedNames(owned)
         IN  IF \E r \in names : Exists(w, r) /\ r \in w.large THEN "size"
             ELSE IF ExternalDependants(w, names) # {} THEN "external"
             ELSE IF Len(ReverseOrder(Evidence(w, owned))) < Cardinality(names) THEN "cycle"
             ELSE IF Affected(req, p, w) = {} THEN "challenge"
             ELSE "none"
=============================================================================
