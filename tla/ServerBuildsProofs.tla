------------------------- MODULE ServerBuildsProofs -------------------------
(***************************************************************************)
(* Proofs about ServerBuilds, for any runs, models, users and projects.    *)
(*                                                                         *)
(* The invariant follows a run from its request to its last query.  What   *)
(* the route prepared from the held compile lies within the pipelines it   *)
(* granted; the plan of the child is that scope or the child has left; a   *)
(* query is only ever sent for a planned model, once.  A cancellation      *)
(* looks at one query, and a confirmed look finds it ended unless the      *)
(* warehouse had not begun it: an ended query never runs again because     *)
(* its model is not queried twice.                                         *)
(***************************************************************************)
EXTENDS ServerBuilds, WellFoundedInduction, TLAPS

(* The values of the variables.  A scope was prepared from some project.   *)
Scopes == {NoPlan} \cup {PreparedScope(p, s) : p \in Projects, s \in Models \cup Pipelines}

Requests ==
  [by : Users \cup {"shell"}, selector : Models \cup Pipelines, expected : Scopes \cup {None},
   allowed : {{}} \cup {PipelinesOf(p, scope.writes) : p \in Projects, scope \in Scopes}]

Phases == {"off", "launched", "prepared", "started", "building", "announced", "waiting",
           "leaving", "closing", "completing", "unwinding", "exited", "killed"}

Ended == {"done", "failed", "killed"}

Outcomes == {None, "failed", "succeeded", "cancelled"}

Processes ==
  [phase : Phases, plan : Scopes, todo : SUBSET Models, query : Queries \cup {None},
   outcome : Outcomes, signals : Nat]

Managers ==
  [run : Runs \cup {None}, active : Queries \cup {None}, cancelling : Runs \cup {None},
   status : {None, "cancelling", "cancelled", "cancellation_failed"}, force : BOOLEAN,
   thread : Runs \cup {None}]

Cancellations ==
  [stage : {"none", "signal", "assign", "query", "grace", "terminate", "wait", "done"},
   query : Queries \cup {None}, confirmed : BOOLEAN, early : BOOLEAN]

EventKinds == {"run_started", "run_completed", "cancellation_completed", "cancellation_failed"}

(* The types of the variables; the held project is one that compiles.      *)
TypeOK ==
  /\ disk \in Projects /\ held \in Projects /\ Compiles(held) /\ cast \in Casts
  /\ asked \in [Runs -> Requests \cup {None}]
  /\ child \in [Runs -> Processes]
  /\ output \in [Runs -> Seq(Queries \cup {None})]
  /\ queries \in [Queries -> {"none", "sent", "running"} \cup Ended]
  /\ events \in [Runs -> SUBSET EventKinds]
  /\ manager \in Managers
  /\ cancels \in [Runs -> Cancellations]

\* Every model the scope writes belongs to a pipeline of the set.
Within(scope, pipelines) ==
  \A m \in scope.writes : \E pair \in scope.pipelines : pair[1] = m /\ pair[2] \in pipelines

ByOperator(r) == asked[r] # None /\ asked[r].by \in Users \ Admins

\* Before a run is asked for it has no process and no cancellation, before it is
\* prepared no query; what an operator's run expects and plans is permitted.
AskedInv(r) ==
  /\ asked[r] = None <=> child[r].phase = "off"
  /\ asked[r] = None => cancels[r].stage = "none"
  /\ child[r].phase \in {"off", "launched"} => /\ child[r].plan.writes = {}
                                               /\ \A m \in Models : queries[<<r, m>>] = "none"
  /\ ByOperator(r) => /\ asked[r].expected # None
                      /\ Within(asked[r].expected, asked[r].allowed)
                      /\ Within(child[r].plan, asked[r].allowed)

\* A model is queried once, and only as planned.
QueriesInv(r) ==
  /\ child[r].todo \subseteq child[r].plan.writes
  /\ \A m \in Models : queries[<<r, m>>] # "none" => m \in child[r].plan.writes
  /\ child[r].phase \in {"announced", "waiting"} =>
       \E m \in child[r].todo : child[r].query = <<r, m>>
  /\ child[r].phase \in {"prepared", "started", "building", "announced"} =>
       \A m \in child[r].todo : queries[<<r, m>>] = "none"
  /\ child[r].phase = "waiting" =>
       \A m \in child[r].todo : child[r].query # <<r, m>> => queries[<<r, m>>] = "none"

Looked(r) == cancels[r].stage \in {"grace", "terminate", "wait", "done"}

\* A run is cancelled once; a confirmed look at its query found it ended.
CancelInv(r) ==
  /\ cancels[r].stage # "none" => manager.cancelling = r \/ manager.run # r
  /\ "cancellation_completed" \in events[r] =>
       cancels[r].stage = "done" /\ cancels[r].confirmed
  /\ Looked(r) /\ cancels[r].confirmed /\ ~cancels[r].early =>
       \A m \in Models : cancels[r].query = <<r, m>> => queries[<<r, m>>] \in Ended

ProcessInv == \A r \in Runs : AskedInv(r) /\ QueriesInv(r)

CancellationInv == \A r \in Runs : CancelInv(r)

BuildsInv == TypeOK /\ ProcessInv /\ CancellationInv

-----------------------------------------------------------------------------

(* The least element of a set of numbers is one of them.                   *)
LEMMA NatMin ==
  ASSUME NEW S \in SUBSET Nat, S # {}
  PROVE  Min(S) \in S
<1> DEFINE R == OpToRel(<, Nat)
<1>1. IsWellFoundedOn(R, Nat)
  BY NatLessThanWellFounded
<1>2. \E x \in S : \A y \in S : ~(<<y, x>> \in R)
  <2> HIDE DEF R
  <2> QED  BY <1>1, WFMin, Zenon
<1>3. \A x, y \in Nat : ~(<<y, x>> \in R) => x <= y
  BY DEF OpToRel
<1>4. \E x \in S : \A y \in S : x <= y
  BY <1>2, <1>3
<1> QED  BY <1>4 DEF Min

(* The run that is started next has not been asked for.                    *)
LEMMA NextRunFree ==
  ASSUME TypeOK, NextRun # None
  PROVE  NextRun \in Runs /\ asked[NextRun] = None
<1> DEFINE free == {r \in DOMAIN cast.by : asked[r] = None}
<1>1. free \in SUBSET Nat /\ free \subseteq Runs
  BY RunsAssumption DEF TypeOK
<1>2. NextRun = IF free = {} THEN None ELSE Min(free)
  BY DEF NextRun
<1>3. free # {} => Min(free) \in free
  <2> HIDE DEF free
  <2> QED  BY <1>1, NatMin
<1>4. NextRun \in free
  <2> HIDE DEF free
  <2> QED  BY <1>2, <1>3
<1> QED  BY <1>1, <1>4

(* A prepared scope writes models, each in a pipeline that its own         *)
(* project gives it (PreparedBuildScope.resolve and pipeline_scope).       *)
LEMMA ScopeWithin ==
  ASSUME NEW p, NEW s
  PROVE  /\ PreparedScope(p, s).writes \subseteq Models
         /\ Within(PreparedScope(p, s), PipelinesOf(p, PreparedScope(p, s).writes))
<1> DEFINE writes == IF s \in Models THEN {s} ELSE {m \in Models : p.owner[m] = s}
           reads == (UNION {p.upstream[m] : m \in writes}) \ writes
           scope == [writes |-> writes, reads |-> reads,
                     pipelines |-> {<<m, p.owner[m]>> : m \in writes \cup reads}]
<1>1. PreparedScope(p, s) = scope
  BY DEF PreparedScope
<1>2. writes \subseteq Models
  OBVIOUS
<1>3. ASSUME NEW m \in writes
      PROVE  <<m, p.owner[m]>> \in {<<k, p.owner[k]>> : k \in writes \cup reads}
  <2> HIDE DEF writes, reads
  <2> QED  OBVIOUS
<1>4. \A m \in writes : p.owner[m] \in PipelinesOf(p, writes)
  BY DEF PipelinesOf
<1> HIDE DEF writes, reads
<1>5. scope.writes = writes /\ \A m \in writes : <<m, p.owner[m]>> \in scope.pipelines
  BY <1>3
<1> HIDE DEF scope
<1>6. Within(scope, PipelinesOf(p, writes))
  BY <1>4, <1>5 DEF Within
<1> QED  BY <1>1, <1>2, <1>5, <1>6

(* A step that leaves the requests, the processes and the queries alone.   *)
LEMMA ProcessSame ==
  ASSUME ProcessInv, UNCHANGED <<asked, child, queries>>,
         \A x \in Runs : cancels[x].stage = "none" /\ asked[x] = None => cancels'[x].stage = "none"
  PROVE  ProcessInv'
  BY DEF ProcessInv, AskedInv, QueriesInv, ByOperator, Within

(* A process moves on without a new plan, or out of its statements.        *)
LEMMA ProcessOnward ==
  ASSUME ProcessInv, NEW r \in Runs, UNCHANGED <<asked, queries>>,
         \A x \in Runs : cancels[x].stage = "none" /\ asked[x] = None => cancels'[x].stage = "none",
         \A x \in Runs \ {r} : child'[x] = child[x],
         child[r].phase # "off",
         child'[r].plan = child[r].plan, child'[r].todo = child[r].todo,
         child'[r].query = child[r].query,
         \/ child'[r].phase = child[r].phase
         \/ child'[r].phase \notin {"off", "launched", "prepared", "started", "building",
                                    "announced", "waiting"}
         \/ /\ child[r].phase \in {"prepared", "started"}
            /\ child'[r].phase \in {"started", "building"}
  PROVE  ProcessInv'
<1> SUFFICES ASSUME NEW x \in Runs PROVE AskedInv(x)' /\ QueriesInv(x)'
  BY DEF ProcessInv
<1>1. AskedInv(x) /\ QueriesInv(x)
  BY DEF ProcessInv
<1>2. CASE x # r
  BY <1>1, <1>2 DEF AskedInv, QueriesInv, ByOperator, Within
<1>3. CASE x = r
  <2>1. AskedInv(x)'
    BY <1>1, <1>3 DEF AskedInv, ByOperator, Within
  <2>2. QueriesInv(x)'
    BY <1>1, <1>3 DEF QueriesInv
  <2> QED  BY <2>1, <2>2
<1> QED  BY <1>2, <1>3

(* A step that cancels nothing and completes no cancellation.              *)
LEMMA CancellationSame ==
  ASSUME CancellationInv, UNCHANGED <<queries, cancels>>,
         manager'.run = manager.run, manager'.cancelling = manager.cancelling,
         \A x \in Runs : "cancellation_completed" \in events'[x]
                           => "cancellation_completed" \in events[x]
  PROVE  CancellationInv'
  BY DEF CancellationInv, CancelInv, Looked

(* A cancellation moves on; it is completed only as confirmed.             *)
LEMMA CancellationOnward ==
  ASSUME CancellationInv, NEW r \in Runs, UNCHANGED queries,
         manager'.run = manager.run, manager'.cancelling = manager.cancelling,
         \A x \in Runs : "cancellation_completed" \in events'[x]
                           => \/ "cancellation_completed" \in events[x]
                              \/ x = r /\ cancels'[r].stage = "done" /\ cancels[r].confirmed,
         \A x \in Runs \ {r} : cancels'[x] = cancels[x],
         cancels[r].stage \notin {"none", "done"}, Looked(r)' => Looked(r),
         cancels'[r].query = cancels[r].query, cancels'[r].early = cancels[r].early,
         cancels'[r].confirmed = cancels[r].confirmed
  PROVE  CancellationInv'
<1> SUFFICES ASSUME NEW x \in Runs PROVE CancelInv(x)'
  BY DEF CancellationInv
<1>1. CancelInv(x)
  BY DEF CancellationInv
<1>2. CASE x # r
  BY <1>1, <1>2 DEF CancelInv, Looked
<1>3. CASE x = r
  BY <1>1, <1>3 DEF CancelInv
<1> QED  BY <1>2, <1>3

(* What Phase, Signalled and Stage change, and what they leave alone.      *)
LEMMA PhaseStep ==
  ASSUME TypeOK, NEW r \in Runs, NEW phase \in Phases, Phase(r, phase)
  PROVE  /\ child' \in [Runs -> Processes]
         /\ \A x \in Runs \ {r} : child'[x] = child[x]
         /\ child'[r].phase = phase /\ child'[r].plan = child[r].plan
         /\ child'[r].todo = child[r].todo /\ child'[r].query = child[r].query
  BY DEF TypeOK, Processes, Phase

(* A signal is delivered to a process that may be gone.                    *)
LEMMA SignalStep ==
  ASSUME TypeOK, NEW r \in Runs, child' = Signalled(r)
  PROVE  /\ child' \in [Runs -> Processes]
         /\ \A x \in Runs \ {r} : child'[x] = child[x]
         /\ child'[r].phase = child[r].phase /\ child'[r].plan = child[r].plan
         /\ child'[r].todo = child[r].todo /\ child'[r].query = child[r].query
<1> DEFINE n == IF Alive(r) THEN child[r].signals + 1 ELSE child[r].signals
<1>1. n \in Nat
  BY DEF TypeOK, Processes
<1>2. child' = [child EXCEPT ![r].signals = n]
  BY DEF Signalled
<1> HIDE DEF n
<1> QED  BY <1>1, <1>2 DEF TypeOK, Processes

(* A cancellation enters its next stage.                                   *)
LEMMA StageStep ==
  ASSUME TypeOK, NEW r \in Runs,
         NEW stage \in {"assign", "query", "terminate", "wait", "done"}, Stage(r, stage)
  PROVE  /\ cancels' \in [Runs -> Cancellations]
         /\ \A x \in Runs \ {r} : cancels'[x] = cancels[x]
         /\ cancels'[r].stage = stage
         /\ cancels'[r].query = cancels[r].query /\ cancels'[r].early = cancels[r].early
         /\ cancels'[r].confirmed = cancels[r].confirmed
  BY DEF TypeOK, Cancellations, Stage

(* A process fails or succeeds on its way out.                             *)
LEMMA OutcomeStep ==
  ASSUME TypeOK, NEW r \in Runs, NEW phase \in Phases, NEW outcome \in Outcomes,
         child' = [child EXCEPT ![r].phase = phase, ![r].outcome = outcome]
  PROVE  /\ child' \in [Runs -> Processes]
         /\ \A x \in Runs \ {r} : child'[x] = child[x]
         /\ child'[r].phase = phase /\ child'[r].plan = child[r].plan
         /\ child'[r].todo = child[r].todo /\ child'[r].query = child[r].query
<1>1. child \in [Runs -> Processes]
  BY DEF TypeOK
<1> QED  BY <1>1 DEF Processes

(* The child's own events never report a cancellation.                     *)
LEMMA EmitStep ==
  ASSUME TypeOK, NEW r \in Runs, NEW kind \in {"run_started", "run_completed"}, Emit(r, kind)
  PROVE  /\ events' \in [Runs -> SUBSET EventKinds]
         /\ \A x \in Runs : "cancellation_completed" \in events'[x]
                              => "cancellation_completed" \in events[x]
<1>1. events \in [Runs -> SUBSET EventKinds] /\ kind \in EventKinds
  BY DEF TypeOK, EventKinds
<1>2. events' = events \/ events' = [events EXCEPT ![r] = @ \cup {kind}]
  BY DEF Emit
<1>3. kind # "cancellation_completed"
  OBVIOUS
<1> HIDE DEF EventKinds
<1> QED  BY <1>1, <1>2, <1>3

(* A request that an operator's scope justifies launches a process.        *)
LEMMA LaunchStep ==
  ASSUME ProcessInv, NEW r \in Runs, asked[r] = None, NEW request, request # None,
         asked \in [Runs -> Requests \cup {None}], asked' = [asked EXCEPT ![r] = request],
         UNCHANGED <<queries, cancels>>,
         \A x \in Runs \ {r} : child'[x] = child[x],
         child'[r].phase = "launched", child'[r].plan = child[r].plan,
         child'[r].todo = child[r].todo,
         request.by \in Users \ Admins => /\ request.expected # None
                                          /\ Within(request.expected, request.allowed)
  PROVE  ProcessInv'
<1>1. \A x \in Runs \ {r} : AskedInv(x)' /\ QueriesInv(x)'
  BY DEF ProcessInv, AskedInv, QueriesInv, ByOperator, Within
<1>2. asked'[r] = request /\ AskedInv(r) /\ QueriesInv(r)
  BY DEF ProcessInv
<1>3. AskedInv(r)'
  BY <1>2 DEF AskedInv, ByOperator, Within
<1>4. QueriesInv(r)'
  BY <1>2 DEF QueriesInv, AskedInv
<1> QED  BY <1>1, <1>3, <1>4 DEF ProcessInv

(* Queries that were sent move on; none is sent.                           *)
LEMMA ProcessQueried ==
  ASSUME TypeOK, ProcessInv, UNCHANGED <<asked, child>>,
         \A x \in Runs : cancels[x].stage = "none" /\ asked[x] = None => cancels'[x].stage = "none",
         \A q \in Queries : queries[q] = "none" <=> queries'[q] = "none"
  PROVE  ProcessInv'
<1>1. \A x \in Runs : child[x].todo \subseteq Models
  BY DEF TypeOK, Processes
<1> QED  BY <1>1 DEF ProcessInv, AskedInv, QueriesInv, ByOperator, Within, Queries

(* The inductive invariant: Init establishes it and every step of a route, *)
(* a child, a cancellation thread, the warehouse or an editor keeps it.    *)
THEOREM BuildsInvariant == Spec => []BuildsInv
<1>1. Init => BuildsInv
  <2> SUFFICES ASSUME Init PROVE BuildsInv
    OBVIOUS
  <2>1. TypeOK
    BY RunsAssumption DEF Init, TypeOK, Processes, Phases, Outcomes, Scopes, Cancellations,
                          Managers, Ended, EventKinds
  <2>2. ProcessInv
    BY DEF Init, ProcessInv, AskedInv, QueriesInv, ByOperator, Within, Queries, NoPlan
  <2>3. CancellationInv
    BY DEF Init, CancellationInv, CancelInv, Looked
  <2> QED  BY <2>1, <2>2, <2>3 DEF BuildsInv
<1>2. BuildsInv /\ [Next]_vars => BuildsInv'
  <2> SUFFICES ASSUME BuildsInv, [Next]_vars PROVE BuildsInv'
    OBVIOUS
  <2> USE DEF BuildsInv
  <2>1. ASSUME NEW p \in Projects, Edit(p) PROVE BuildsInv'
    <3> USE <2>1 DEF Edit, project, durable
    <3>1. TypeOK'
      BY DEF TypeOK
    <3>2. ProcessInv'
      BY ProcessSame
    <3>3. CancellationInv'
      BY CancellationSame
    <3> QED  BY <3>1, <3>2, <3>3 DEF BuildsInv
  <2>2. ASSUME NEW m \in AllMemberships, ChangeMembership(m) PROVE BuildsInv'
    <3> USE <2>2 DEF ChangeMembership, project, durable
    <3>1. TypeOK'
      BY DEF TypeOK
    <3>2. ProcessInv'
      BY ProcessSame
    <3>3. CancellationInv'
      BY CancellationSame
    <3> QED  BY <3>1, <3>2, <3>3 DEF BuildsInv
  <2>3. ASSUME NEW u \in Users, Reload(u) PROVE BuildsInv'
    <3> USE <2>3 DEF Reload, project, durable
    <3>1. TypeOK'
      BY DEF TypeOK
    <3>2. ProcessInv'
      BY ProcessSame
    <3>3. CancellationInv'
      BY CancellationSame
    <3> QED  BY <3>1, <3>2, <3>3 DEF BuildsInv
  <2>4. ASSUME NEW u \in Users, NEW s \in cast.selectors, StartBuild(u, s) PROVE BuildsInv'
    <3> DEFINE r == NextRun
               scope == PreparedScope(held, s)
               request == [by |-> u, selector |-> s,
                           expected |-> IF u \notin Admins \/ BlockingRuns # {} THEN scope ELSE None,
                           allowed |-> PipelinesOf(held, scope.writes)]
    <3>a. r \in Runs /\ asked[r] = None
      BY <2>4, NextRunFree DEF StartBuild
    <3>b. scope \in Scopes /\ scope # None /\ request \in Requests /\ request # None
      <4>1. s \in Models \cup Pipelines
        BY RunsAssumption DEF TypeOK
      <4>2. scope \in Scopes /\ scope # None
        BY <4>1, NoneAssumption DEF Scopes, TypeOK
      <4>3. request # None
        BY <4>1, NoneAssumption DEF TypeOK
      <4> HIDE DEF scope
      <4> QED  BY <4>1, <4>2, <4>3 DEF TypeOK, Requests
    <3>c. /\ asked' = [asked EXCEPT ![r] = request]
          /\ child' = [child EXCEPT ![r].phase = "launched"]
          /\ manager' = [manager EXCEPT !.run = r, !.active = None, !.cancelling = None,
                                        !.status = None, !.force = FALSE]
          /\ UNCHANGED <<disk, held, cast, output, queries, events, cancels>>
      BY <2>4 DEF StartBuild, Launch, project, durable
    <3>d. u \notin Admins => /\ request.expected # None
                             /\ Within(request.expected, request.allowed)
      BY <3>b, ScopeWithin
    <3>e. request.by = u
      OBVIOUS
    <3> HIDE DEF r, scope, request
    <3>f. /\ child' \in [Runs -> Processes]
          /\ \A x \in Runs \ {r} : child'[x] = child[x]
          /\ child'[r].phase = "launched" /\ child'[r].plan = child[r].plan
          /\ child'[r].todo = child[r].todo
      BY <3>a, <3>c, PhaseStep DEF Phase, Phases
    <3>g. manager' \in Managers /\ manager'.run = r
      BY <3>a, <3>c DEF TypeOK, Managers
    <3>1. TypeOK'
      BY <3>a, <3>b, <3>c, <3>f, <3>g DEF TypeOK
    <3>2. ProcessInv'
      BY <3>a, <3>b, <3>c, <3>d, <3>e, <3>f, LaunchStep DEF TypeOK
    <3>3. CancellationInv'
      BY <3>a, <3>c, <3>g DEF ProcessInv, AskedInv, CancellationInv, CancelInv, Looked
    <3> QED  BY <3>1, <3>2, <3>3 DEF BuildsInv
  <2>5. ASSUME NEW s \in cast.selectors, ShellBuild(s) PROVE BuildsInv'
    <3> DEFINE r == NextRun
               request == [by |-> "shell", selector |-> s, expected |-> None, allowed |-> {}]
    <3>a. r \in Runs /\ asked[r] = None
      BY <2>5, NextRunFree DEF ShellBuild
    <3>b. request \in Requests /\ request.by \notin Users /\ request # None
      <4>1. s \in Models \cup Pipelines
        BY RunsAssumption DEF TypeOK
      <4>2. request # None
        BY <4>1, NoneAssumption DEF TypeOK
      <4> QED  BY <4>1, <4>2, RunsAssumption DEF Requests
    <3>c. /\ asked' = [asked EXCEPT ![r] = request]
          /\ child' = [child EXCEPT ![r].phase = "launched"]
          /\ UNCHANGED <<disk, held, cast, output, queries, events, manager, cancels>>
      BY <2>5 DEF ShellBuild, Launch, project, durable
    <3> HIDE DEF r, request
    <3>f. /\ child' \in [Runs -> Processes]
          /\ \A x \in Runs \ {r} : child'[x] = child[x]
          /\ child'[r].phase = "launched" /\ child'[r].plan = child[r].plan
          /\ child'[r].todo = child[r].todo
      BY <3>a, <3>c, PhaseStep DEF Phase, Phases
    <3>1. TypeOK'
      BY <3>a, <3>b, <3>c, <3>f DEF TypeOK
    <3>2. ProcessInv'
      BY <3>a, <3>b, <3>c, <3>f, LaunchStep DEF TypeOK
    <3>3. CancellationInv'
      BY <3>c, CancellationSame
    <3> QED  BY <3>1, <3>2, <3>3 DEF BuildsInv
  <2>6. ASSUME NEW u \in Users, NEW r \in Runs, CancelBuild(u, r) PROVE BuildsInv'
    <3> USE <2>6 DEF CancelBuild, project, durable
    <3>a. /\ cancels' \in [Runs -> Cancellations]
          /\ \A x \in Runs \ {r} : cancels'[x] = cancels[x]
          /\ cancels'[r].stage = "signal"
      <4>1. cancels \in [Runs -> Cancellations] /\ manager.active \in Queries \cup {None}
        BY DEF TypeOK, Managers
      <4>2. cancels' = [cancels EXCEPT ![r].stage = "signal", ![r].query = manager.active]
        OBVIOUS
      <4> QED  BY ONLY <4>1, <4>2, r \in Runs DEF Cancellations
    <3>b. manager' \in Managers /\ manager'.run = manager.run /\ manager'.cancelling = r
      BY DEF TypeOK, Managers
    <3>c. asked[r] # None
      BY DEF ProcessInv, AskedInv, Alive, Gone
    <3>1. TypeOK'
      BY <3>a, <3>b DEF TypeOK
    <3>2. ProcessInv'
      BY <3>a, <3>c, ProcessSame
    <3>3. CancellationInv'
      <4>1. cancels[r].stage = "none" /\ "cancellation_completed" \notin events[r]
        BY DEF CancellationInv, CancelInv
      <4> QED  BY <4>1, <3>a, <3>b DEF CancellationInv, CancelInv, Looked
    <3> QED  BY <3>1, <3>2, <3>3 DEF BuildsInv
  <2>7. ASSUME NEW u \in Users, NEW r \in Runs, KillBuild(u, r) PROVE BuildsInv'
    <3> USE <2>7 DEF KillBuild, project, durable
    <3>a. /\ child' \in [Runs -> Processes]
          /\ \A x \in Runs \ {r} : child'[x] = child[x]
          /\ child'[r].phase = "killed" /\ child'[r].plan = child[r].plan
          /\ child'[r].todo = child[r].todo /\ child'[r].query = child[r].query
      BY PhaseStep DEF Phases
    <3>b. /\ manager' \in Managers /\ manager'.run = manager.run
          /\ manager'.cancelling = manager.cancelling
      BY DEF TypeOK, Managers
    <3>1. TypeOK'
      BY <3>a, <3>b DEF TypeOK
    <3>2. ProcessInv'
      BY <3>a, ProcessOnward DEF Alive, Gone
    <3>3. CancellationInv'
      BY <3>b, CancellationSame
    <3> QED  BY <3>1, <3>2, <3>3 DEF BuildsInv
  <2>8. ASSUME NEW r \in Runs, Prepare(r) PROVE BuildsInv'
    <3> DEFINE scope == PreparedScope(disk, asked[r].selector)
    <3>a. child[r].phase = "launched" /\ asked[r] # None /\ asked[r] \in Requests
      BY <2>8 DEF Prepare, TypeOK, ProcessInv, AskedInv
    <3>b. UNCHANGED <<disk, held, cast, asked, output, queries, events, manager, cancels>>
      BY <2>8 DEF Prepare, project
    <3>c. scope \in Scopes /\ scope.writes \subseteq Models
      BY <3>a, ScopeWithin DEF TypeOK, Requests, Scopes
    <3>d. CancellationInv'
      BY <3>b, CancellationSame
    <3>1. CASE /\ child' = [child EXCEPT ![r].phase = "prepared", ![r].plan = scope,
                                         ![r].todo = scope.writes]
               /\ ValidateExpected(asked[r].expected, scope)
      <4> HIDE DEF scope
      <4>1. /\ child' \in [Runs -> Processes]
            /\ \A x \in Runs \ {r} : child'[x] = child[x]
            /\ child'[r].phase = "prepared" /\ child'[r].plan = scope
            /\ child'[r].todo = scope.writes
        <5>1. child \in [Runs -> Processes] /\ scope.writes \in SUBSET Models
          BY <3>c DEF TypeOK
        <5> QED  BY ONLY <5>1, <3>1, <3>c, r \in Runs DEF Processes, Phases
      <4>2. TypeOK'
        BY <4>1, <3>b DEF TypeOK
      <4>3. \A m \in Models : queries[<<r, m>>] = "none"
        BY <3>a DEF ProcessInv, AskedInv
      <4>4. AskedInv(r)'
        <5>1. ByOperator(r) => Within(scope, asked[r].allowed)
          BY <3>1 DEF ProcessInv, AskedInv, ValidateExpected
        <5> QED  BY <5>1, <4>1, <3>a, <3>b DEF ProcessInv, AskedInv, ByOperator, Within
      <4>5. QueriesInv(r)'
        BY <4>1, <4>3, <3>b, <3>c DEF QueriesInv
      <4>6. \A x \in Runs \ {r} : AskedInv(x)' /\ QueriesInv(x)'
        BY <4>1, <3>b DEF ProcessInv, AskedInv, QueriesInv, ByOperator, Within
      <4> QED  BY <4>2, <4>4, <4>5, <4>6, <3>d DEF BuildsInv, ProcessInv
    <3>2. CASE Phase(r, "exited")
      <4>1. /\ child' \in [Runs -> Processes]
            /\ \A x \in Runs \ {r} : child'[x] = child[x]
            /\ child'[r].phase = "exited" /\ child'[r].plan = child[r].plan
            /\ child'[r].todo = child[r].todo /\ child'[r].query = child[r].query
        BY <3>2, PhaseStep DEF Phases
      <4>2. TypeOK'
        BY <4>1, <3>b DEF TypeOK
      <4>3. ProcessInv'
        BY <4>1, <3>a, <3>b, ProcessOnward
      <4> QED  BY <4>2, <4>3, <3>d DEF BuildsInv
    <3> QED  BY <2>8, <3>1, <3>2 DEF Prepare
  <2>9. ASSUME NEW r \in Runs, RunStarted(r) PROVE BuildsInv'
    <3> USE <2>9 DEF RunStarted, project, durable
    <3>a. /\ child' \in [Runs -> Processes]
          /\ \A x \in Runs \ {r} : child'[x] = child[x]
          /\ child'[r].phase = "started" /\ child'[r].plan = child[r].plan
          /\ child'[r].todo = child[r].todo /\ child'[r].query = child[r].query
      BY PhaseStep DEF Phases
    <3>b. /\ events' \in [Runs -> SUBSET EventKinds]
          /\ \A x \in Runs : "cancellation_completed" \in events'[x]
                               => "cancellation_completed" \in events[x]
      BY EmitStep
    <3>1. TypeOK'
      BY <3>a, <3>b DEF TypeOK
    <3>2. ProcessInv'
      BY <3>a, ProcessOnward DEF Alive, Gone
    <3>3. CancellationInv'
      BY <3>b, CancellationSame
    <3> QED  BY <3>1, <3>2, <3>3 DEF BuildsInv
  <2>10. ASSUME NEW r \in Runs, AcquireLock(r) PROVE BuildsInv'
    <3> USE <2>10 DEF AcquireLock, project, durable
    <3>a. /\ child' \in [Runs -> Processes]
          /\ \A x \in Runs \ {r} : child'[x] = child[x]
          /\ child'[r].phase \in {"building", "closing"} /\ child'[r].plan = child[r].plan
          /\ child'[r].todo = child[r].todo /\ child'[r].query = child[r].query
      <4>1. CASE Phase(r, "building")
        BY <4>1, PhaseStep DEF Phases
      <4>2. CASE child' = [child EXCEPT ![r].phase = "closing", ![r].outcome = "failed"]
        BY <4>2, OutcomeStep DEF Phases, Outcomes
      <4> QED  BY <4>1, <4>2
    <3>1. TypeOK'
      BY <3>a DEF TypeOK
    <3>2. ProcessInv'
      BY <3>a, ProcessOnward
    <3>3. CancellationInv'
      BY CancellationSame
    <3> QED  BY <3>1, <3>2, <3>3 DEF BuildsInv
  <2>11. ASSUME NEW r \in Runs, StatementStarted(r) PROVE BuildsInv'
    <3> DEFINE m == Min(child[r].todo)
    <3>a. m \in child[r].todo /\ m \in Models
      BY <2>11, NatMin, RunsAssumption DEF StatementStarted, TypeOK, Processes
    <3>b. /\ child' = [child EXCEPT ![r].phase = "announced", ![r].query = <<r, m>>]
          /\ output' = [output EXCEPT ![r] = Append(@, <<r, m>>)]
          /\ child[r].phase = "building"
          /\ UNCHANGED <<disk, held, cast, asked, queries, events, manager, cancels>>
      BY <2>11 DEF StatementStarted, project, durable
    <3> HIDE DEF m
    <3>c. /\ child' \in [Runs -> Processes]
          /\ \A x \in Runs \ {r} : child'[x] = child[x]
          /\ child'[r].phase = "announced" /\ child'[r].plan = child[r].plan
          /\ child'[r].todo = child[r].todo /\ child'[r].query = <<r, m>>
      <4>1. child \in [Runs -> Processes] /\ <<r, m>> \in Queries
        BY <3>a DEF TypeOK, Queries
      <4> DEFINE q == <<r, m>>
      <4>2. child' = [child EXCEPT ![r].phase = "announced", ![r].query = q] /\ q \in Queries
        BY <3>b, <4>1
      <4>3. q = <<r, m>>
        OBVIOUS
      <4> HIDE DEF q
      <4> QED  BY ONLY <4>1, <4>2, <4>3, r \in Runs DEF Processes, Phases
    <3>d. output' \in [Runs -> Seq(Queries \cup {None})]
      BY <3>a, <3>b DEF TypeOK, Queries
    <3>1. TypeOK'
      BY <3>b, <3>c, <3>d DEF TypeOK
    <3>2. ProcessInv'
      <4>1. AskedInv(r)' /\ QueriesInv(r)'
        BY <3>a, <3>b, <3>c DEF ProcessInv, AskedInv, QueriesInv, ByOperator, Within
      <4>2. \A x \in Runs \ {r} : AskedInv(x)' /\ QueriesInv(x)'
        BY <3>b, <3>c DEF ProcessInv, AskedInv, QueriesInv, ByOperator, Within
      <4> QED  BY <4>1, <4>2 DEF ProcessInv
    <3>3. CancellationInv'
      BY <3>b, CancellationSame
    <3> QED  BY <3>1, <3>2, <3>3 DEF BuildsInv
  <2>12. ASSUME NEW r \in Runs, SendQuery(r) PROVE BuildsInv'
    <3>a. /\ child' \in [Runs -> Processes]
          /\ \A x \in Runs \ {r} : child'[x] = child[x]
          /\ child'[r].phase = "waiting" /\ child'[r].plan = child[r].plan
          /\ child'[r].todo = child[r].todo /\ child'[r].query = child[r].query
      BY <2>12, PhaseStep DEF SendQuery, Phases
    <3>b. PICK m \in child[r].todo : child[r].query = <<r, m>>
      BY <2>12 DEF SendQuery, ProcessInv, QueriesInv
    <3>c. /\ m \in Models /\ queries[<<r, m>>] = "none" /\ m \in child[r].plan.writes
          /\ <<r, m>> \in Queries
      BY <2>12, <3>b DEF SendQuery, ProcessInv, QueriesInv, TypeOK, Processes, Queries
    <3>d. /\ queries' = [queries EXCEPT ![<<r, m>>] = "sent"]
          /\ child[r].phase = "announced"
          /\ UNCHANGED <<disk, held, cast, asked, output, events, manager, cancels>>
      BY <2>12, <3>b DEF SendQuery, project, durable
    <3>e. \A x \in Runs, k \in Models : /\ <<x, k>> \in Queries
                                        /\ <<x, k>> # <<r, m>> => queries'[<<x, k>>] = queries[<<x, k>>]
      BY <3>c, <3>d DEF TypeOK, Queries
    <3>f. queries'[<<r, m>>] = "sent"
      BY <3>c, <3>d DEF TypeOK
    <3>1. TypeOK'
      BY <3>a, <3>c, <3>d DEF TypeOK
    <3>2. ProcessInv'
      <4>1. AskedInv(r)'
        BY <3>a, <3>d DEF ProcessInv, AskedInv, ByOperator, Within
      <4>2. QueriesInv(r)'
        BY <3>a, <3>b, <3>c, <3>d, <3>e DEF ProcessInv, QueriesInv, TypeOK, Processes
      <4>3. \A x \in Runs \ {r} : AskedInv(x)'
        BY <3>a, <3>d, <3>e DEF ProcessInv, AskedInv, ByOperator, Within
      <4>4. \A x \in Runs \ {r} : QueriesInv(x)'
        BY <3>a, <3>d, <3>e DEF ProcessInv, QueriesInv, TypeOK, Processes
      <4> QED  BY <4>1, <4>2, <4>3, <4>4 DEF ProcessInv
    <3>3. CancellationInv'
      BY <3>c, <3>d, <3>e DEF CancellationInv, CancelInv, Looked, Ended
    <3> QED  BY <3>1, <3>2, <3>3 DEF BuildsInv
  <2>13. ASSUME NEW r \in Runs, StatementCompleted(r) PROVE BuildsInv'
    <3> DEFINE q == child[r].query
    <3>a. /\ child[r].phase = "waiting"
          /\ output' = [output EXCEPT ![r] = Append(@, None)]
          /\ UNCHANGED <<disk, held, cast, asked, queries, events, manager, cancels>>
      BY <2>13 DEF StatementCompleted, project, durable
    <3>b. output' \in [Runs -> Seq(Queries \cup {None})]
      BY <3>a DEF TypeOK
    <3>c. CancellationInv'
      BY <3>a, CancellationSame
    <3>1. CASE child' = [child EXCEPT ![r].phase = "building", ![r].todo = @ \ {q[2]}]
      <4>1. PICK m \in child[r].todo : q = <<r, m>>
        BY <3>a DEF ProcessInv, QueriesInv
      <4>2. /\ child' \in [Runs -> Processes]
            /\ \A x \in Runs \ {r} : child'[x] = child[x]
            /\ child'[r].phase = "building" /\ child'[r].plan = child[r].plan
            /\ child'[r].todo = child[r].todo \ {m} /\ child'[r].query = child[r].query
        <5>1. q[2] = m
          BY <4>1
        <5> HIDE DEF q
        <5> QED  BY <3>1, <5>1 DEF TypeOK, Processes, Phases
      <4>3. TypeOK'
        BY <4>2, <3>a, <3>b DEF TypeOK
      <4>4. AskedInv(r)' /\ QueriesInv(r)'
        BY <4>1, <4>2, <3>a DEF ProcessInv, AskedInv, QueriesInv, ByOperator, Within
      <4>5. \A x \in Runs \ {r} : AskedInv(x)' /\ QueriesInv(x)'
        BY <4>2, <3>a DEF ProcessInv, AskedInv, QueriesInv, ByOperator, Within
      <4> QED  BY <4>3, <4>4, <4>5, <3>c DEF BuildsInv, ProcessInv
    <3>2. CASE child' = [child EXCEPT ![r].phase = "leaving", ![r].outcome = "failed"]
      <4>1. /\ child' \in [Runs -> Processes]
            /\ \A x \in Runs \ {r} : child'[x] = child[x]
            /\ child'[r].phase = "leaving" /\ child'[r].plan = child[r].plan
            /\ child'[r].todo = child[r].todo /\ child'[r].query = child[r].query
        BY <3>2, OutcomeStep DEF Phases, Outcomes
      <4>2. TypeOK'
        BY <4>1, <3>a, <3>b DEF TypeOK
      <4>3. ProcessInv'
        BY <4>1, <3>a, ProcessOnward
      <4> QED  BY <4>2, <4>3, <3>c DEF BuildsInv
    <3> QED  BY <2>13, <3>1, <3>2 DEF StatementCompleted
  <2>14. ASSUME NEW r \in Runs, AllBuilt(r) PROVE BuildsInv'
    <3> USE <2>14 DEF AllBuilt, project, durable
    <3>a. /\ child' \in [Runs -> Processes]
          /\ \A x \in Runs \ {r} : child'[x] = child[x]
          /\ child'[r].phase = "leaving" /\ child'[r].plan = child[r].plan
          /\ child'[r].todo = child[r].todo /\ child'[r].query = child[r].query
      BY OutcomeStep DEF Phases, Outcomes
    <3>1. TypeOK'
      BY <3>a DEF TypeOK
    <3>2. ProcessInv'
      BY <3>a, ProcessOnward
    <3>3. CancellationInv'
      BY CancellationSame
    <3> QED  BY <3>1, <3>2, <3>3 DEF BuildsInv
  <2>15. ASSUME NEW r \in Runs, ReleaseLock(r) PROVE BuildsInv'
    <3> USE <2>15 DEF ReleaseLock, project, durable
    <3>a. /\ child' \in [Runs -> Processes]
          /\ \A x \in Runs \ {r} : child'[x] = child[x]
          /\ child'[r].phase = "closing" /\ child'[r].plan = child[r].plan
          /\ child'[r].todo = child[r].todo /\ child'[r].query = child[r].query
      BY PhaseStep DEF Phases
    <3>1. TypeOK'
      BY <3>a DEF TypeOK
    <3>2. ProcessInv'
      BY <3>a, ProcessOnward DEF Alive, Gone
    <3>3. CancellationInv'
      BY CancellationSame
    <3> QED  BY <3>1, <3>2, <3>3 DEF BuildsInv
  <2>16. ASSUME NEW r \in Runs, PersistTerminal(r) PROVE BuildsInv'
    <3> USE <2>16 DEF PersistTerminal, project, durable
    <3>a. /\ child' \in [Runs -> Processes]
          /\ \A x \in Runs \ {r} : child'[x] = child[x]
          /\ child'[r].phase = "completing" /\ child'[r].plan = child[r].plan
          /\ child'[r].todo = child[r].todo /\ child'[r].query = child[r].query
      BY PhaseStep DEF Phases
    <3>1. TypeOK'
      BY <3>a DEF TypeOK
    <3>2. ProcessInv'
      BY <3>a, ProcessOnward DEF Alive, Gone
    <3>3. CancellationInv'
      BY CancellationSame
    <3> QED  BY <3>1, <3>2, <3>3 DEF BuildsInv
  <2>17. ASSUME NEW r \in Runs, RunCompleted(r) PROVE BuildsInv'
    <3> USE <2>17 DEF RunCompleted, project, durable
    <3>a. /\ child' \in [Runs -> Processes]
          /\ \A x \in Runs \ {r} : child'[x] = child[x]
          /\ child'[r].phase = "exited" /\ child'[r].plan = child[r].plan
          /\ child'[r].todo = child[r].todo /\ child'[r].query = child[r].query
      BY PhaseStep DEF Phases
    <3>b. /\ events' \in [Runs -> SUBSET EventKinds]
          /\ \A x \in Runs : "cancellation_completed" \in events'[x]
                               => "cancellation_completed" \in events[x]
      BY EmitStep
    <3>1. TypeOK'
      BY <3>a, <3>b DEF TypeOK
    <3>2. ProcessInv'
      BY <3>a, ProcessOnward DEF Alive, Gone
    <3>3. CancellationInv'
      BY <3>b, CancellationSame
    <3> QED  BY <3>1, <3>2, <3>3 DEF BuildsInv
  <2>18. ASSUME NEW r \in Runs, Interrupt(r) PROVE BuildsInv'
    <3> DEFINE n == child[r].signals - 1
               outcome == IF child[r].phase \in {"started", "building", "announced", "waiting"}
                          THEN "cancelled" ELSE child[r].outcome
               phase == CASE child[r].phase = "started" -> "closing"
                          [] child[r].phase \in {"building", "announced", "waiting"} -> "leaving"
                          [] child[r].phase = "unwinding" -> "exited"
                          [] OTHER -> "unwinding"
    <3>a. /\ Alive(r)
          /\ child' = [child EXCEPT ![r].signals = n, ![r].outcome = outcome, ![r].phase = phase]
          /\ UNCHANGED <<disk, held, cast, asked, output, queries, events, manager, cancels>>
      BY <2>18 DEF Interrupt, project, durable
    <3>b. n \in Nat
      BY <2>18 DEF Interrupt, TypeOK, Processes
    <3>c. phase \in {"closing", "leaving", "exited", "unwinding"}
      OBVIOUS
    <3>d. outcome \in Outcomes
      BY DEF TypeOK, Processes, Outcomes
    <3> HIDE DEF n, outcome, phase
    <3>e. /\ child' \in [Runs -> Processes]
          /\ \A x \in Runs \ {r} : child'[x] = child[x]
          /\ child'[r].phase = phase /\ child'[r].plan = child[r].plan
          /\ child'[r].todo = child[r].todo /\ child'[r].query = child[r].query
      <4>1. child \in [Runs -> Processes] /\ phase \in Phases
        BY <3>c DEF TypeOK, Phases
      <4> QED  BY ONLY <4>1, <3>a, <3>b, <3>d, r \in Runs DEF Processes, Outcomes
    <3>1. TypeOK'
      BY <3>a, <3>e DEF TypeOK
    <3>2. ProcessInv'
      BY <3>a, <3>c, <3>e, ProcessOnward DEF Alive, Gone
    <3>3. CancellationInv'
      BY <3>a, CancellationSame
    <3> QED  BY <3>1, <3>2, <3>3 DEF BuildsInv
  <2>19. ASSUME NEW r \in Runs, Unwind(r) PROVE BuildsInv'
    <3> USE <2>19 DEF Unwind, project, durable
    <3>a. /\ child' \in [Runs -> Processes]
          /\ \A x \in Runs \ {r} : child'[x] = child[x]
          /\ child'[r].phase = "exited" /\ child'[r].plan = child[r].plan
          /\ child'[r].todo = child[r].todo /\ child'[r].query = child[r].query
      BY PhaseStep DEF Phases
    <3>1. TypeOK'
      BY <3>a DEF TypeOK
    <3>2. ProcessInv'
      BY <3>a, ProcessOnward DEF Alive, Gone
    <3>3. CancellationInv'
      BY CancellationSame
    <3> QED  BY <3>1, <3>2, <3>3 DEF BuildsInv
  <2>20. ASSUME NEW r \in Runs, CancelSignal(r) PROVE BuildsInv'
    <3> USE <2>20 DEF CancelSignal, project, durable
    <3>a. /\ cancels' \in [Runs -> Cancellations]
          /\ \A x \in Runs \ {r} : cancels'[x] = cancels[x]
          /\ cancels'[r].stage = "assign"
          /\ cancels'[r].query = cancels[r].query /\ cancels'[r].early = cancels[r].early
          /\ cancels'[r].confirmed = cancels[r].confirmed
      BY StageStep
    <3>b. /\ child' \in [Runs -> Processes]
          /\ \A x \in Runs \ {r} : child'[x] = child[x]
          /\ child'[r].phase = child[r].phase /\ child'[r].plan = child[r].plan
          /\ child'[r].todo = child[r].todo /\ child'[r].query = child[r].query
      BY SignalStep
    <3>c. child[r].phase # "off"
      BY DEF ProcessInv, AskedInv
    <3>1. TypeOK'
      BY <3>a, <3>b DEF TypeOK
    <3>2. ProcessInv'
      BY <3>a, <3>b, <3>c, ProcessOnward
    <3>3. CancellationInv'
      BY <3>a, CancellationOnward DEF Looked
    <3> QED  BY <3>1, <3>2, <3>3 DEF BuildsInv
  <2>21. ASSUME NEW r \in Runs, CancelThread(r) PROVE BuildsInv'
    <3> USE <2>21 DEF CancelThread, project, durable
    <3>a. /\ cancels' \in [Runs -> Cancellations]
          /\ \A x \in Runs \ {r} : cancels'[x] = cancels[x]
          /\ cancels'[r].stage = "query"
          /\ cancels'[r].query = cancels[r].query /\ cancels'[r].early = cancels[r].early
          /\ cancels'[r].confirmed = cancels[r].confirmed
      BY StageStep
    <3>b. /\ manager' \in Managers /\ manager'.run = manager.run
          /\ manager'.cancelling = manager.cancelling
      BY DEF TypeOK, Managers
    <3>1. TypeOK'
      BY <3>a, <3>b DEF TypeOK
    <3>2. ProcessInv'
      BY <3>a, ProcessSame
    <3>3. CancellationInv'
      BY <3>a, <3>b, CancellationOnward DEF Looked
    <3> QED  BY <3>1, <3>2, <3>3 DEF BuildsInv
  <2>22. ASSUME NEW r \in Runs, CancelQuery(r) PROVE BuildsInv'
    <3> DEFINE q == cancels[r].query
    <3>a. /\ cancels[r].stage = "query"
          /\ UNCHANGED <<disk, held, cast, asked, child, output, events, manager>>
      BY <2>22 DEF CancelQuery, project, durable
    <3>b. PICK confirmed \in BOOLEAN, early \in BOOLEAN :
              /\ cancels' = [cancels EXCEPT ![r].stage = "grace", ![r].confirmed = confirmed,
                                            ![r].early = early]
              /\ queries' = queries \/ (q # None /\ queries[q] = "running"
                                         /\ queries' = [queries EXCEPT ![q] = "killed"])
              /\ confirmed /\ ~early /\ q # None => queries'[q] \in Ended
      <4>t. q \in Queries \cup {None}
        BY DEF TypeOK, Cancellations
      <4>1. CASE q = None /\ queries' = queries
                 /\ cancels' = [cancels EXCEPT ![r].stage = "grace", ![r].confirmed = TRUE,
                                               ![r].early = FALSE]
        BY <4>1
      <4>2. CASE q # None /\ queries[q] = "running"
                 /\ \E killed, confirmed \in BOOLEAN :
                      /\ confirmed => killed
                      /\ queries' = [queries EXCEPT ![q] = IF killed THEN "killed" ELSE @]
                      /\ cancels' = [cancels EXCEPT ![r].stage = "grace",
                                       ![r].confirmed = confirmed, ![r].early = FALSE]
        <5>1. PICK killed \in BOOLEAN, confirmed \in BOOLEAN :
                      /\ confirmed => killed
                      /\ queries' = [queries EXCEPT ![q] = IF killed THEN "killed" ELSE @]
                      /\ cancels' = [cancels EXCEPT ![r].stage = "grace",
                                       ![r].confirmed = confirmed, ![r].early = FALSE]
          BY <4>2
        <5>2. CASE killed = TRUE
          <6>1. queries' = [queries EXCEPT ![q] = "killed"]
            BY <5>1, <5>2
          <6>2. queries'[q] \in Ended
            BY <6>1, <4>t, <4>2 DEF TypeOK, Ended
          <6> QED  BY <6>1, <6>2, <5>1, <4>2
        <5>3. CASE killed = FALSE
          <6>1. queries' = queries
            BY <5>1, <5>3 DEF TypeOK
          <6> QED  BY <6>1, <5>1, <5>3
        <5> QED  BY <5>2, <5>3
      <4>3. CASE q # None /\ queries[q] # "running" /\ queries' = queries
                 /\ \E confirmed \in BOOLEAN :
                      cancels' = [cancels EXCEPT ![r].stage = "grace", ![r].confirmed = confirmed,
                                                 ![r].early = queries[q] \in {"none", "sent"}]
        <5>1. queries[q] \notin {"none", "sent"} => queries[q] \in Ended
          BY <4>t, <4>3 DEF TypeOK
        <5>2. (queries[q] \in {"none", "sent"}) \in BOOLEAN
          OBVIOUS
        <5> QED  BY <4>3, <5>1, <5>2
      <4> QED  BY <2>22, <4>1, <4>2, <4>3 DEF CancelQuery
    <3>c. /\ cancels' \in [Runs -> Cancellations]
          /\ \A x \in Runs \ {r} : cancels'[x] = cancels[x]
          /\ cancels'[r].stage = "grace" /\ cancels'[r].query = q
          /\ cancels'[r].confirmed = confirmed /\ cancels'[r].early = early
      <4>1. cancels \in [Runs -> Cancellations]
        BY DEF TypeOK
      <4> QED  BY ONLY <4>1, <3>b, r \in Runs DEF Cancellations
    <3>d. /\ queries' \in [Queries -> {"none", "sent", "running"} \cup Ended]
          /\ \A x \in Queries : /\ queries[x] = "none" <=> queries'[x] = "none"
                                /\ queries[x] \in Ended => queries'[x] \in Ended
      BY <3>b DEF TypeOK, Cancellations, Ended
    <3>1. TypeOK'
      BY <3>a, <3>c, <3>d DEF TypeOK
    <3>2. ProcessInv'
      BY <3>a, <3>c, <3>d, ProcessQueried
    <3>3. CancellationInv'
      <4>1. CancelInv(r)'
        <5>1. \A m \in Models : q = <<r, m>> => q # None
          BY NoneAssumption DEF Queries
        <5> QED  BY <5>1, <3>a, <3>b, <3>c DEF CancellationInv, CancelInv
      <4>2. \A x \in Runs \ {r} : CancelInv(x)'
        BY <3>a, <3>c, <3>d DEF CancellationInv, CancelInv, Looked, Queries
      <4> QED  BY <4>1, <4>2 DEF CancellationInv
    <3> QED  BY <3>1, <3>2, <3>3 DEF BuildsInv
  <2>23. ASSUME NEW r \in Runs, GraceEnds(r) PROVE BuildsInv'
    <3> USE <2>23 DEF GraceEnds, project, durable
    <3>a. /\ cancels' \in [Runs -> Cancellations]
          /\ \A x \in Runs \ {r} : cancels'[x] = cancels[x]
          /\ cancels'[r].stage = "terminate"
          /\ cancels'[r].query = cancels[r].query /\ cancels'[r].early = cancels[r].early
          /\ cancels'[r].confirmed = cancels[r].confirmed
      BY StageStep
    <3>b. /\ child' \in [Runs -> Processes]
          /\ \A x \in Runs \ {r} : child'[x] = child[x]
          /\ child'[r].phase = child[r].phase /\ child'[r].plan = child[r].plan
          /\ child'[r].todo = child[r].todo /\ child'[r].query = child[r].query
      BY SignalStep
    <3>c. child[r].phase # "off"
      BY DEF Alive, Gone
    <3>1. TypeOK'
      BY <3>a, <3>b DEF TypeOK
    <3>2. ProcessInv'
      BY <3>a, <3>b, <3>c, ProcessOnward
    <3>3. CancellationInv'
      BY <3>a, CancellationOnward DEF Looked
    <3> QED  BY <3>1, <3>2, <3>3 DEF BuildsInv
  <2>24. ASSUME NEW r \in Runs, TerminateEnds(r) PROVE BuildsInv'
    <3> USE <2>24 DEF TerminateEnds, project, durable
    <3>a. /\ cancels' \in [Runs -> Cancellations]
          /\ \A x \in Runs \ {r} : cancels'[x] = cancels[x]
          /\ cancels'[r].stage = "wait"
          /\ cancels'[r].query = cancels[r].query /\ cancels'[r].early = cancels[r].early
          /\ cancels'[r].confirmed = cancels[r].confirmed
      BY StageStep
    <3>b. /\ manager' \in Managers /\ manager'.run = manager.run
          /\ manager'.cancelling = manager.cancelling
      BY DEF TypeOK, Managers
    <3>1. TypeOK'
      BY <3>a, <3>b DEF TypeOK
    <3>2. ProcessInv'
      BY <3>a, ProcessSame
    <3>3. CancellationInv'
      BY <3>a, <3>b, CancellationOnward DEF Looked
    <3> QED  BY <3>1, <3>2, <3>3 DEF BuildsInv
  <2>25. ASSUME NEW r \in Runs, RecordOutcome(r) PROVE BuildsInv'
    <3>a. /\ cancels' \in [Runs -> Cancellations]
          /\ \A x \in Runs \ {r} : cancels'[x] = cancels[x]
          /\ cancels'[r].stage = "done"
          /\ cancels'[r].query = cancels[r].query /\ cancels'[r].early = cancels[r].early
          /\ cancels'[r].confirmed = cancels[r].confirmed
      BY <2>25, StageStep DEF RecordOutcome
    <3>b. /\ cancels[r].stage \in {"grace", "terminate", "wait"}
          /\ UNCHANGED <<disk, held, cast, asked, child, output, queries>>
      BY <2>25 DEF RecordOutcome, project
    <3>c. /\ manager' \in Managers /\ manager'.run = manager.run
          /\ manager'.cancelling = manager.cancelling
      <4>1. \/ manager' = manager
            \/ \E status \in {"cancelled", "cancellation_failed"} :
                  manager' = [manager EXCEPT !.force = FALSE, !.status = status]
        BY <2>25 DEF RecordOutcome
      <4> QED  BY <4>1 DEF TypeOK, Managers
    <3>d. events' = events \/ events' = [events EXCEPT ![r] = @ \cup {CancellationOutcome(r)}]
      BY <2>25 DEF RecordOutcome
    <3>e. /\ events' \in [Runs -> SUBSET EventKinds]
          /\ \A x \in Runs : "cancellation_completed" \in events'[x]
                               => \/ "cancellation_completed" \in events[x]
                                  \/ x = r /\ cancels[r].confirmed
      <4>1. /\ CancellationOutcome(r) \in EventKinds
            /\ CancellationOutcome(r) = "cancellation_completed" => cancels[r].confirmed
        BY DEF TypeOK, EventKinds, CancellationOutcome
      <4> HIDE DEF CancellationOutcome
      <4> QED  BY <3>d, <4>1 DEF TypeOK
    <3>1. TypeOK'
      BY <3>a, <3>b, <3>c, <3>e DEF TypeOK
    <3>2. ProcessInv'
      BY <3>a, <3>b, ProcessSame
    <3>3. CancellationInv'
      BY <3>a, <3>b, <3>c, <3>e, CancellationOnward DEF Looked
    <3> QED  BY <3>1, <3>2, <3>3 DEF BuildsInv
  <2>26. ASSUME NEW r \in Runs, ConsumeOutput(r) PROVE BuildsInv'
    <3>a. /\ output[r] # <<>>
          /\ output' = [output EXCEPT ![r] = Tail(@)]
          /\ manager' = IF manager.run = r THEN [manager EXCEPT !.active = Head(output[r])]
                                           ELSE manager
          /\ UNCHANGED <<disk, held, cast, asked, child, queries, events, cancels>>
      BY <2>26 DEF ConsumeOutput, project, durable
    <3>b. Head(output[r]) \in Queries \cup {None} /\ Tail(output[r]) \in Seq(Queries \cup {None})
      BY <3>a DEF TypeOK
    <3>c. /\ manager' \in Managers /\ manager'.run = manager.run
          /\ manager'.cancelling = manager.cancelling
      BY <3>a, <3>b DEF TypeOK, Managers
    <3>1. TypeOK'
      BY <3>a, <3>b, <3>c DEF TypeOK
    <3>2. ProcessInv'
      BY <3>a, ProcessSame
    <3>3. CancellationInv'
      BY <3>a, <3>c, CancellationSame
    <3> QED  BY <3>1, <3>2, <3>3 DEF BuildsInv
  <2>27. ASSUME NEW r \in Runs, Heartbeat(r) PROVE BuildsInv'
    <3> USE <2>27 DEF Heartbeat, project, durable
    <3>1. TypeOK'
      BY DEF TypeOK
    <3>2. ProcessInv'
      BY ProcessSame
    <3>3. CancellationInv'
      BY CancellationSame
    <3> QED  BY <3>1, <3>2, <3>3 DEF BuildsInv
  <2>28. ASSUME NEW r \in Runs, SignalAges(r) PROVE BuildsInv'
    <3> USE <2>28 DEF SignalAges, project, durable
    <3>1. TypeOK'
      BY DEF TypeOK
    <3>2. ProcessInv'
      BY ProcessSame
    <3>3. CancellationInv'
      BY CancellationSame
    <3> QED  BY <3>1, <3>2, <3>3 DEF BuildsInv
  <2>29. ASSUME NEW r \in Runs, ShellInterrupt(r) PROVE BuildsInv'
    <3> USE <2>29 DEF ShellInterrupt, project, durable
    <3>a. /\ child' \in [Runs -> Processes]
          /\ \A x \in Runs \ {r} : child'[x] = child[x]
          /\ child'[r].phase = child[r].phase /\ child'[r].plan = child[r].plan
          /\ child'[r].todo = child[r].todo /\ child'[r].query = child[r].query
      <4>1. child \in [Runs -> Processes] /\ child' = [child EXCEPT ![r].signals = 1]
        BY DEF TypeOK
      <4> QED  BY ONLY <4>1, r \in Runs DEF Processes
    <3>1. TypeOK'
      BY <3>a DEF TypeOK
    <3>2. ProcessInv'
      BY <3>a, ProcessOnward DEF Alive, Gone
    <3>3. CancellationInv'
      BY CancellationSame
    <3> QED  BY <3>1, <3>2, <3>3 DEF BuildsInv
  <2>30. ASSUME NEW q \in Queries, QueryBegins(q) PROVE BuildsInv'
    <3>a. UNCHANGED <<disk, held, cast, asked, child, output, events, manager, cancels>>
      BY <2>30 DEF QueryBegins, project, durable
    <3>b. /\ queries' \in [Queries -> {"none", "sent", "running"} \cup Ended]
          /\ \A x \in Queries : /\ queries[x] = "none" <=> queries'[x] = "none"
                                /\ queries[x] \in Ended => queries'[x] \in Ended
      BY <2>30 DEF QueryBegins, TypeOK, Ended
    <3>1. TypeOK'
      BY <3>a, <3>b DEF TypeOK
    <3>2. ProcessInv'
      BY <3>a, <3>b, ProcessQueried
    <3>3. CancellationInv'
      BY <3>a, <3>b DEF CancellationInv, CancelInv, Looked, Queries
    <3> QED  BY <3>1, <3>2, <3>3 DEF BuildsInv
  <2>31. ASSUME NEW q \in Queries, QueryEnds(q) PROVE BuildsInv'
    <3>a. UNCHANGED <<disk, held, cast, asked, child, output, events, manager, cancels>>
      BY <2>31 DEF QueryEnds, project, durable
    <3>b. /\ queries' \in [Queries -> {"none", "sent", "running"} \cup Ended]
          /\ \A x \in Queries : /\ queries[x] = "none" <=> queries'[x] = "none"
                                /\ queries[x] \in Ended => queries'[x] \in Ended
      BY <2>31 DEF QueryEnds, TypeOK, Ended
    <3>1. TypeOK'
      BY <3>a, <3>b DEF TypeOK
    <3>2. ProcessInv'
      BY <3>a, <3>b, ProcessQueried
    <3>3. CancellationInv'
      BY <3>a, <3>b DEF CancellationInv, CancelInv, Looked, Queries
    <3> QED  BY <3>1, <3>2, <3>3 DEF BuildsInv
  <2>32. CASE ReleaseByHand
    <3> USE <2>32 DEF ReleaseByHand, project, durable
    <3>1. TypeOK'
      BY DEF TypeOK
    <3>2. ProcessInv'
      BY ProcessSame
    <3>3. CancellationInv'
      BY CancellationSame
    <3> QED  BY <3>1, <3>2, <3>3 DEF BuildsInv
  <2>33. CASE UNCHANGED vars
    <3> USE <2>33 DEF vars, project, durable
    <3>1. TypeOK'
      BY DEF TypeOK
    <3>2. ProcessInv'
      BY ProcessSame
    <3>3. CancellationInv'
      BY CancellationSame
    <3> QED  BY <3>1, <3>2, <3>3 DEF BuildsInv
  <2> HIDE DEF BuildsInv
  <2> QED  BY <2>1, <2>2, <2>3, <2>4, <2>5, <2>6, <2>7, <2>8, <2>9, <2>10, <2>11, <2>12, <2>13,
              <2>14, <2>15, <2>16, <2>17, <2>18, <2>19, <2>20, <2>21, <2>22, <2>23, <2>24, <2>25,
              <2>26, <2>27, <2>28, <2>29, <2>30, <2>31, <2>32, <2>33 DEF Next, ChildStep,
              CancelStep
<1> QED  BY <1>1, <1>2, PTL DEF Spec

-----------------------------------------------------------------------------

(* The grants of a compiled policy compile, whatever the assignments.      *)
LEMMA GrantsCompiled ==
  ASSUME NEW policy, Auth!BuildCompiledRoles(policy), NEW assignments,
         NEW g \in Auth!GrantsOf(policy, assignments)
  PROVE  Auth!BuildGrant(g)
  BY DEF Auth!BuildCompiledRoles, Auth!GrantsOf, Auth!AssignedRoles

(* A permission of project or target scope is shown exactly when its route *)
(* allows it: no compiled target grant carries a permission that is asked  *)
(* for at project scope (_build_grant, decide and capabilities).           *)
LEMMA ScopedShown ==
  ASSUME NEW admin \in BOOLEAN, NEW policy, Auth!BuildCompiledRoles(policy), NEW memberships,
         NEW user, NEW p \in Auth!ScopedPermissions
  PROVE  p \in Auth!CapabilitiesPayload(admin, policy, memberships, user, Target).permissions
           <=> Auth!RequireScoped(admin, [active |-> TRUE, admin |-> admin], policy, memberships,
                                  user, Target, p)
<1> DEFINE all == Auth!GrantsOf(policy, Auth!Assignments(memberships, user, Target))
           grants == IF policy = None THEN {} ELSE all
           shown == Auth!CapabilitiesPayload(admin, policy, memberships, user, Target)
           decision == Auth!Decide(admin, policy, memberships, user, Target, p,
                                   Auth!RequiredScope(p), {})
           account == [active |-> TRUE, admin |-> admin]
<1>1. \A g \in grants : Auth!BuildGrant(g)
  BY GrantsCompiled
<1>2. p \in shown.permissions <=> 
        /\ admin \/ p \notin Auth!DestructivePermissions
        /\ admin \/ \E g \in grants : g.scope # "pipelines" /\ p \in g.permissions
  BY DEF Auth!CapabilitiesPayload
<1>3. decision <=> admin \/ \E g \in grants : Auth!MatchingScopedGrant(g, p, Auth!RequiredScope(p))
  BY NoneAssumption DEF Auth!Decide, Auth!RequiredScope
<1>4. Auth!RequireDestruction(account, decision) <=> admin /\ decision
  <2>1. account # None
    <3>1. account \in [active : BOOLEAN, admin : BOOLEAN]
      OBVIOUS
    <3> QED  BY <3>1, NoneAssumption
  <2>2. account.active = TRUE /\ account.admin = admin
    OBVIOUS
  <2> HIDE DEF account, decision
  <2> QED  BY <2>1, <2>2, Zenon DEF Auth!RequireDestruction
<1>5. Auth!RequireScoped(admin, account, policy, memberships, user, Target, p)
        <=> IF p \in Auth!DestructivePermissions THEN Auth!RequireDestruction(account, decision)
                                                 ELSE decision
  BY DEF Auth!RequireScoped
<1> HIDE DEF grants, shown, decision, account
<1>6. \A g \in grants : Auth!MatchingScopedGrant(g, p, Auth!RequiredScope(p))
                          <=> g.scope # "pipelines" /\ p \in g.permissions
  BY <1>1 DEF Auth!BuildGrant, Auth!MatchingScopedGrant, Auth!RequiredScope,
              Auth!ScopedPermissions, Auth!ProjectPermissions, Auth!TargetPermissions
<1>7. p \in shown.permissions
        <=> Auth!RequireScoped(admin, account, policy, memberships, user, Target, p)
  BY <1>2, <1>3, <1>4, <1>5, <1>6
<1> QED  BY <1>7 DEF shown, account

(* The pipelines shown for a permission are those whose sets are allowed.  *)
LEMMA PipelinesShown ==
  ASSUME NEW admin \in BOOLEAN, NEW policy, NEW memberships,
         NEW user, NEW p \in Auth!PipelinePermissions, NEW set \in SUBSET Pipelines, set # {}
  PROVE  set \subseteq Auth!CapabilitiesPayload(admin, policy, memberships, user, Target).pipelines[p]
           <=> Auth!RequirePipelines(admin, [active |-> TRUE, admin |-> admin], policy, memberships,
                                     user, Target, p, set)
<1> DEFINE all == Auth!GrantsOf(policy, Auth!Assignments(memberships, user, Target))
           grants == IF policy = None THEN {} ELSE all
           Of(g) == IF p \notin g.permissions THEN {}
                    ELSE CASE g.scope = "project" -> Pipelines
                           [] g.scope = "pipelines" -> g.pipelines
                           [] OTHER -> {}
           shown == Auth!CapabilitiesPayload(admin, policy, memberships, user, Target)
           decision == Auth!Decide(admin, policy, memberships, user, Target, p, None, set)
           account == [active |-> TRUE, admin |-> admin]
<1>1. \A g : Auth!Covers(g, p, set) = Of(g) \cap set
  BY DEF Auth!Covers
<1>2. shown.pipelines[p] = IF admin THEN Pipelines
                           ELSE IF p \in Auth!DestructivePermissions THEN {}
                           ELSE UNION {Of(g) : g \in grants}
  BY DEF Auth!CapabilitiesPayload
<1>3. decision <=> admin \/ set \subseteq UNION {Auth!Covers(g, p, set) : g \in grants}
  BY DEF Auth!Decide
<1>4. Auth!RequireDestruction(account, decision) <=> admin /\ decision
  <2>1. account # None
    <3>1. account \in [active : BOOLEAN, admin : BOOLEAN]
      OBVIOUS
    <3> QED  BY <3>1, NoneAssumption
  <2>2. account.active = TRUE /\ account.admin = admin
    OBVIOUS
  <2> HIDE DEF account, decision
  <2> QED  BY <2>1, <2>2, Zenon DEF Auth!RequireDestruction
<1>5. Auth!RequirePipelines(admin, account, policy, memberships, user, Target, p, set)
        <=> IF p \in Auth!DestructivePermissions THEN Auth!RequireDestruction(account, decision)
                                                 ELSE decision
  BY DEF Auth!RequirePipelines
<1> HIDE DEF grants, shown, decision, account, Of
<1>6. set \subseteq UNION {Auth!Covers(g, p, set) : g \in grants}
        <=> set \subseteq UNION {Of(g) : g \in grants}
  BY <1>1
<1>7. set \subseteq shown.pipelines[p]
        <=> Auth!RequirePipelines(admin, account, policy, memberships, user, Target, p, set)
  BY <1>2, <1>3, <1>4, <1>5, <1>6
<1> QED  BY <1>7 DEF shown, account

(* An operator's build queries only models that lie, in the project it     *)
(* compiled, in pipelines the route had granted: the child's comparison of *)
(* scopes (validate_expected) carries the grant over from the held compile *)
(* to the disk, whatever changes in between.                               *)
THEOREM WritesAuthorized == Spec => []AuthorizedWrites
<1>1. BuildsInv => AuthorizedWrites
  <2> SUFFICES ASSUME BuildsInv, NEW r \in Runs, asked[r] # None, asked[r].by \in Users \ Admins,
                      NEW m \in Models, queries[<<r, m>>] # "none"
               PROVE  \E pair \in child[r].plan.pipelines :
                        pair[1] = m /\ pair[2] \in asked[r].allowed
    BY DEF AuthorizedWrites
  <2>1. m \in child[r].plan.writes
    BY DEF BuildsInv, ProcessInv, QueriesInv
  <2>2. Within(child[r].plan, asked[r].allowed)
    BY DEF BuildsInv, ProcessInv, AskedInv, ByOperator
  <2> QED  BY <2>1, <2>2 DEF Within
<1> QED  BY <1>1, BuildsInvariant, PTL

(* A query left running was missed by the cancellation of its run for one  *)
(* of the reasons the code knows, and a cancellation recorded as completed *)
(* left none it had seen begin (_complete_cancellation).                   *)
THEOREM LeftoversAccounted == Spec => []LeftoversExplained
<1>1. BuildsInv => LeftoversExplained
  <2> SUFFICES ASSUME BuildsInv, NEW r \in Runs, NEW m \in Models,
                      queries[<<r, m>>] \in {"sent", "running"},
                      cancels[r].stage \notin {"none", "signal", "assign", "query"},
                      cancels[r].query = <<r, m>>, ~cancels[r].early
               PROVE  ~cancels[r].confirmed /\ "cancellation_completed" \notin events[r]
    BY DEF LeftoversExplained
  <2>1. Looked(r) /\ cancels[r].confirmed \in BOOLEAN
    BY DEF BuildsInv, TypeOK, Cancellations, Looked
  <2>2. ~cancels[r].confirmed
    BY <2>1 DEF BuildsInv, CancellationInv, CancelInv, Ended
  <2> QED  BY <2>2 DEF BuildsInv, CancellationInv, CancelInv
<1> QED  BY <1>1, BuildsInvariant, PTL

\* What a user who is an admin or not is shown and what the routes enforce agree.
ShownAsEnforced(admin, u) ==
  LET account == [active |-> TRUE, admin |-> admin]
      shown == Auth!CapabilitiesPayload(admin, held.roles, members, u, Target)
  IN  /\ \A p \in Auth!ScopedPermissions :
           p \in shown.permissions <=>
             Auth!RequireScoped(admin, account, held.roles, members, u, Target, p)
      /\ \A p \in Auth!PipelinePermissions, set \in (SUBSET Pipelines) \ {{}} :
           set \subseteq shown.pipelines[p] <=>
             Auth!RequirePipelines(admin, account, held.roles, members, u, Target, p, set)

(* The capabilities shown to a user are those the routes enforce, for any  *)
(* policy that compiles (ProjectAuthorizer.capabilities and decide).       *)
THEOREM CapabilitiesTrue == Spec => []CapabilitiesMatch
<1>1. TypeOK => CapabilitiesMatch
  <2> SUFFICES ASSUME TypeOK, NEW u \in Users
               PROVE  ShownAsEnforced(u \in Admins, u)
    BY DEF CapabilitiesMatch, ShownAsEnforced
  <2>1. Auth!BuildCompiledRoles(held.roles)
    BY DEF TypeOK, Compiles
  <2>2. ASSUME NEW admin \in BOOLEAN
        PROVE  ShownAsEnforced(admin, u)
    <3> DEFINE account == [active |-> TRUE, admin |-> admin]
               shown == Auth!CapabilitiesPayload(admin, held.roles, members, u, Target)
    <3>1. \A p \in Auth!ScopedPermissions :
            p \in shown.permissions <=>
              Auth!RequireScoped(admin, account, held.roles, members, u, Target, p)
      BY <2>1, ScopedShown
    <3>2. ASSUME NEW p \in Auth!PipelinePermissions, NEW set \in (SUBSET Pipelines) \ {{}}
          PROVE  set \subseteq shown.pipelines[p] <=>
                   Auth!RequirePipelines(admin, account, held.roles, members, u, Target, p, set)
      <4>1. set \in SUBSET Pipelines /\ set # {}
        OBVIOUS
      <4> QED  BY <4>1, PipelinesShown
    <3> QED  BY <3>1, <3>2, Zenon DEF ShownAsEnforced
  <2>3. (u \in Admins) \in BOOLEAN
    OBVIOUS
  <2> QED  BY <2>2, <2>3, Zenon
<1> QED  BY <1>1, BuildsInvariant, PTL DEF BuildsInv
=============================================================================
