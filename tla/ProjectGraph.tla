---------------------------- MODULE ProjectGraph ----------------------------
(***************************************************************************)
(* The logical project graph (compiler/graph): typed dependency edges of   *)
(* the models, the rules a project has to satisfy, the stable topological  *)
(* order and the filtered traversals every planner is built on.            *)
(*                                                                         *)
(* A compiled project is a record                                          *)
(*   models, sources : disjoint sets of logical names, numbers in lexical  *)
(*                     order, the models first: keys sort by (type, name)  *)
(*   pipelines       : pipeline names                                      *)
(*   pipelineOf      : the pipeline of each model                          *)
(*   declares        : the source each pipeline declares, as a set         *)
(*   refs            : parsed references [down, up, ref], ref the part the *)
(*                     reference plays in the transform of a table model   *)
(*   views           : the models authored as terminal views               *)
(*   mode            : "direct" or "virtual" for each pipeline             *)
(*   isolated        : model_reference_scope is "pipeline"                 *)
(*   allowed         : allowed_cross_pipeline_references, <<up, down>>     *)
(*   resources       : the relations that realize each logical name        *)
(*   name, target, production : the identity of the project and its target *)
(***************************************************************************)
EXTENDS Integers, FiniteSets, Sequences, FiniteSetsExt, Functions

AllEdgeTypes == {"driving_input", "reference", "mutable_reference", "untyped"}

Keys(p) == p.models \cup p.sources

\* No relation name is claimed by two logical names of one project.
RelationsClaimedOnce(p) ==
    \A k, l \in Keys(p) : k # l => p.resources[k] \cap p.resources[l] = {}

\* A view only references; a table's reference to its source drives it.
EdgeType(p, r) == IF r.down \in p.views THEN "reference" ELSE r.ref

Edges(p) ==
    {[up |-> r.up, down |-> r.down, type |-> EdgeType(p, r)] : r \in p.refs}

\* What _model_upstream_edges refuses: unknown names, untyped side
\* references, and two references to one name that play different parts.
ReferencesResolve(p) ==
    /\ \A e \in Edges(p) : e.up \in Keys(p) /\ e.type # "untyped"
    /\ \A e, f \in Edges(p) :
          e.up = f.up /\ e.down = f.down => e.type = f.type

TerminalViews(p) == \A e \in Edges(p) : e.up \notin p.views

ModelEdges(p) == {e \in Edges(p) : e.up \in p.models}

ModesAgree(p) ==
    \A e \in ModelEdges(p) :
        p.mode[p.pipelineOf[e.up]] = p.mode[p.pipelineOf[e.down]]

ReferenceScope(p) ==
    p.isolated =>
        \A e \in ModelEdges(p) :
            \/ p.pipelineOf[e.up] = p.pipelineOf[e.down]
            \/ <<p.pipelineOf[e.up], p.pipelineOf[e.down]>> \in p.allowed

-----------------------------------------------------------------------------
(***************************************************************************)
(* Kahn's algorithm with the least ready key first.  The order is shorter  *)
(* than the set of keys exactly when a cycle leaves some of them over.     *)
(***************************************************************************)

Ready(keys, before, done) ==
    {k \in keys \ done : \A b \in before : b[2] = k => b[1] \in done}

AppendReady(keys, before, prefix) ==
    LET ready == Ready(keys, before, Range(prefix))
    IN  IF ready = {} THEN prefix ELSE Append(prefix, Min(ready))

KahnOrder(keys, before) ==
    LET order[n \in 0..Cardinality(keys)] ==
            IF n = 0 THEN <<>> ELSE AppendReady(keys, before, order[n - 1])
    IN  order[Cardinality(keys)]

\* The members of a sequence that are in a set, in order.
Selected(seq, set) ==
    LET kept[n \in 0..Len(seq)] ==
            IF n = 0 THEN <<>>
            ELSE IF seq[n] \in set THEN Append(kept[n - 1], seq[n]) ELSE kept[n - 1]
    IN  kept[Len(seq)]

OrderedKeys(p) == KahnOrder(Keys(p), {<<e.up, e.down>> : e \in Edges(p)})

Acyclic(p) == Len(OrderedKeys(p)) = Cardinality(Keys(p))

\* A project compiles when its relation names and its graph are accepted.
Compiles(p) ==
    /\ RelationsClaimedOnce(p)
    /\ ReferencesResolve(p)
    /\ ModesAgree(p)
    /\ ReferenceScope(p)
    /\ TerminalViews(p)
    /\ Acyclic(p)

-----------------------------------------------------------------------------
\* The roots and what one relation reaches from them.
Closure(pairs, roots) ==
    LET reach[n \in 0..Cardinality(pairs)] ==
            IF n = 0 THEN roots
            ELSE LET seen == reach[n - 1]
                 IN  seen \cup {x[2] : x \in {y \in pairs : y[1] \in seen}}
    IN  reach[Cardinality(pairs)]

\* collect_reachable_keys, downstream and upstream.
Downstream(p, roots, types) ==
    Closure({<<e.up, e.down>> : e \in {f \in Edges(p) : f.type \in types}}, roots)

Upstream(p, roots, types) ==
    Closure({<<e.down, e.up>> : e \in {f \in Edges(p) : f.type \in types}}, roots)

ModelsOf(p, pipelines) == {m \in p.models : p.pipelineOf[m] \in pipelines}

PipelinesOf(p, names) == {p.pipelineOf[m] : m \in names \cap p.models}
=============================================================================
