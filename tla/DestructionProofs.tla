------------------------- MODULE DestructionProofs -------------------------
(***************************************************************************)
(* Theorems about Destruction, for every project, warehouse, dependency    *)
(* relation, number of servers, shells, plans and interferences.           *)
(*                                                                         *)
(* Inv says, of a process that works under the lock, that the part of its  *)
(* plan that is not carried out yet is what the catalog holds and that     *)
(* nothing outside the plan depends on it (Stands).  The locked replan     *)
(* establishes this, the lock keeps builds and other executions away, and  *)
(* every DROP keeps it, because Kahn's order puts dependants first.        *)
(***************************************************************************)
EXTENDS Destruction, FiniteSetTheorems, TLAPS

\* The plans the planner can build.
Plans == {BuildPlan(req, q, w) : req \in Requests, q \in Projects, w \in Warehouses}

\* The rows of the plan store.
Entries ==
  [status : {"none", "pending", "reviewed", "consumed", "expired"}, actor : Users \cup {None},
   late : BOOLEAN, plan : Plans \cup {None}]

\* The states of a process.
Executions == [pc : Phases, id : PlanIds \cup {None}, orphans : BOOLEAN, done : Nat]

\* The terminal records.
Terminals ==
  [id : PlanIds, op : {DestroyPipelines, ResetTarget}, target : {q.target : q \in Projects},
   requested : SUBSET Named, included : SUBSET Named, orphans : BOOLEAN, project : Projects,
   outcome : {"failed", "succeeded"}, completed : Nat, remaining : SUBSET Relations,
   observed : BOOLEAN]

\* What a locked replan saw.
Looks == [project : Projects, admins : SUBSET Users]

\* The type invariant, with the plans of the planner for the stored ones.
Types ==
  /\ project \in Projects /\ warehouse \in Warehouses /\ wanted \subseteq Requests
  /\ admins \subseteq Users /\ lock \in Procs \cup {None} /\ upsets \in 0..MaxUpsets
  /\ plans \in [PlanIds -> Entries]
  /\ exec \in [Procs -> Executions]
  /\ runs \in [PlanIds -> Terminals \cup {None}]
  /\ dropped \in [PlanIds -> SUBSET (Relations \X (0..MaxGeneration))]
  /\ started \in [PlanIds -> SUBSET Procs]
  /\ vetted \in [PlanIds -> Looks \cup {None}]

\* The relations a plan holds.
NamesIn(plan) == {e.name : e \in plan.relations}

\* The relations dropped by the first statements of a plan.
Gone(plan, done) == {Statements(plan)[k] : k \in 1..done}

\* The plan as far as it is not carried out yet is what the catalog holds, and
\* nothing outside it depends on it.
Stands(plan, done, catalog) ==
  /\ \A e \in plan.relations :
       e.name \notin Gone(plan, done) =>
         e.generation = catalog[e.name] /\ (e.exists <=> catalog[e.name] > 0)
  /\ \A r \in Gone(plan, done) : catalog[r] = 0
  /\ \A r \in Relations : catalog[r] > 0 /\ Uses[r] \cap NamesIn(plan) # {} => r \in NamesIn(plan)

\* Phases between the locked replan and the end of the drops, of whoever holds
\* the lock, and from the first statement on.
Working == {"verified", "checked", "dropping"}
Holding == {"locked", "stopped"} \cup Working
Acting == {"dropping", "stopped"}

\* What is true of a process in each phase.
ExecInv(p) ==
  LET i == exec[p].id
  IN  /\ exec[p].pc \notin {"idle", "dead"} => i \in PlanIds /\ plans[i].status # "none"
      /\ exec[p].pc \in {"prompt"} \cup PhasesBefore => exec[p].done = 0
      /\ exec[p].pc \in Holding => lock = p
      /\ exec[p].pc \in Working => plans[i].actor \in vetted[i].admins
      /\ exec[p].pc \in Working => Stands(plans[i].plan, exec[p].done, warehouse.catalog)
      /\ exec[p].pc \in Acting =>
           /\ plans[i].status = "consumed" /\ started[i] = {p}
           /\ exec[p].done <= Len(Statements(plans[i].plan))
           /\ Gone(plans[i].plan, exec[p].done) \subseteq DroppedNames(i)

\* What is true of a row of the plan store.
PlanInv(i) ==
  /\ plans[i].status = "none" <=> plans[i].actor = None
  /\ plans[i].status = "none" => ~plans[i].late
  /\ plans[i].status # "none" => plans[i].plan \in Plans
  /\ plans[i].status # "consumed" => started[i] = {} /\ dropped[i] = {}
  /\ started[i] # {} => plans[i].actor \in vetted[i].admins
  /\ \A x \in dropped[i] : \E e \in plans[i].plan.relations :
       e.exists /\ e.name = x[1] /\ e.generation = x[2]

Processes == \A p \in Procs : ExecInv(p)

Stored == \A i \in PlanIds : PlanInv(i)

\* The inductive invariant.
Inv == /\ Types /\ NoDangling
       /\ Processes /\ Stored

-----------------------------------------------------------------------------

\* A non-empty set of numbers has a least member, and Min is it.
LEMMA LeastOf ==
  ASSUME NEW S \in SUBSET Nat, S # {}
  PROVE  Min(S) \in S /\ \A n \in S : Min(S) <= n
<1> DEFINE R == OpToRel(<, Nat)
<1>1. IsWellFoundedOn(R, Nat)
  BY NatLessThanWellFounded
<1>2. \E x \in S : \A y \in S : ~(<<y, x>> \in R)
  <2> HIDE DEF R
  <2> QED  BY <1>1, WFMin, Zenon
<1>3. \A x, y \in Nat : ~(<<y, x>> \in R) => x <= y
  BY DEF OpToRel
<1>4. \E x \in S : \A y \in S : x <= y
  BY <1>2, <1>3
<1> QED  BY <1>4 DEF Min

\* Induction over numbers, by the least counterexample.
LEMMA Induction ==
  ASSUME NEW S \in SUBSET Nat, 0 \in S, \A n \in S : n + 1 \in S
  PROVE  S = Nat
<1> SUFFICES ASSUME Nat \ S # {} PROVE FALSE
  OBVIOUS
<1> DEFINE m == Min(Nat \ S)
<1>1. m \in Nat \ S /\ \A n \in Nat \ S : m <= n
  BY LeastOf
<1> HIDE DEF m
<1>2. m - 1 \in Nat /\ ~(m <= m - 1) /\ (m - 1) + 1 = m
  BY <1>1
<1> QED  BY <1>1, <1>2

\* g is step iterated N times from base.
Iterates(g, N, base, step) == g[0] = base /\ \A n \in 1..N : g[n] = step[<<g[n - 1], n>>]

\* A step iterated from a base is a function: what the recursive functions of
\* the model (KahnOrder, Selected, RequiredPipelines) rest on.
LEMMA Iterated ==
  ASSUME NEW N \in Nat, NEW X, NEW base \in X, NEW step \in [X \X Nat -> X]
  PROVE  \E g \in [0..N -> X] : Iterates(g, N, base, step)
<1> DEFINE Good(m) == \E g \in [0..m -> X] :
                        g[0] = base /\ \A n \in 1..m : g[n] = step[<<g[n - 1], n>>]
           S == {m \in Nat : Good(m)}
<1>1. 0 \in S
  <2> DEFINE g == [n \in 0..0 |-> base]
  <2>1. g \in [0..0 -> X] /\ g[0] = base /\ \A n \in 1..0 : g[n] = step[<<g[n - 1], n>>]
    OBVIOUS
  <2> QED  BY <2>1
<1>2. ASSUME NEW m \in S PROVE m + 1 \in S
  <2>1. PICK g \in [0..m -> X] : g[0] = base /\ \A n \in 1..m : g[n] = step[<<g[n - 1], n>>]
    OBVIOUS
  <2>2. m \in Nat /\ m \in 0..m /\ m + 1 \in Nat /\ step[<<g[m], m + 1>>] \in X
    OBVIOUS
  <2> DEFINE h == [n \in 0..(m + 1) |-> IF n <= m THEN g[n] ELSE step[<<g[m], n>>]]
  <2>3. h \in [0..(m + 1) -> X] /\ h[0] = base
    <3>1. ASSUME NEW n \in 0..(m + 1) PROVE h[n] \in X
      <4>1. CASE n <= m
        BY <2>2, <4>1
      <4>2. CASE n = m + 1
        BY <2>2, <4>2
      <4> QED  BY <2>2, <4>1, <4>2
    <3> QED  BY <2>1, <2>2, <3>1
  <2>4. ASSUME NEW n \in 1..(m + 1) PROVE h[n] = step[<<h[n - 1], n>>]
    <3>1. CASE n <= m
      <4>1. n \in 1..m /\ n - 1 \in 0..(m + 1) /\ n - 1 <= m /\ n \in 0..(m + 1)
        BY <2>2, <3>1
      <4> QED  BY <2>1, <3>1, <4>1
    <3>2. CASE n = m + 1
      <4>1. m \in 0..(m + 1) /\ n - 1 = m /\ ~(n <= m) /\ n \in 0..(m + 1) /\ m <= m
        BY <2>2, <3>2
      <4> QED  BY <4>1
    <3> QED  BY <2>2, <3>1, <3>2
  <2> HIDE DEF h
  <2>5. Good(m + 1)
    BY <2>3, <2>4
  <2> HIDE DEF Good
  <2> QED  BY <2>2, <2>5
<1> HIDE DEF Good
<1>3. S = Nat
  <2> HIDE DEF S
  <2>1. S \in SUBSET Nat
    BY DEF S
  <2> QED  BY <1>1, <1>2, <2>1, Induction
<1>4. Good(N)
  BY <1>3
<1> QED  BY <1>4 DEF Good, Iterates

\* No key twice, and prerequisites first.
Ordered(seq, keys, before) ==
  /\ seq \in Seq(keys)
  /\ \A i, j \in 1..Len(seq) : seq[i] = seq[j] => i = j
  /\ \A j \in 1..Len(seq) : \A b \in before :
       b[2] = seq[j] => \E i \in 1..(j - 1) : seq[i] = b[1]

\* The range of a sequence, by its positions.
LEMMA RangeOfSeq ==
  ASSUME NEW K, NEW s \in Seq(K)
  PROVE  Range(s) = {s[i] : i \in 1..Len(s)}
  BY DEF Range

\* Kahn's algorithm appends a key that is not there yet and whose
\* prerequisites are.
LEMMA AppendedInOrder ==
  ASSUME NEW keys \in SUBSET Nat, NEW before, NEW s, Ordered(s, keys, before)
  PROVE  Ordered(AppendReady(keys, before, s), keys, before)
<1> DEFINE ready == Ready(keys, before, Range(s))
           k == Min(ready)
           t == Append(s, k)
<1>0. s \in Seq(keys) /\ Len(s) \in Nat /\ Range(s) = {s[i] : i \in 1..Len(s)}
  BY RangeOfSeq DEF Ordered
<1>1. AppendReady(keys, before, s) = IF ready = {} THEN s ELSE t
  BY DEF AppendReady
<1>2. CASE ready = {}
  BY <1>1, <1>2
<1>3. CASE ready # {}
  <2>1. k \in ready
    <3>1. ready \in SUBSET Nat
      BY DEF Ready
    <3> HIDE DEF ready
    <3> QED  BY <1>3, <3>1, LeastOf
  <2>2. /\ k \in keys /\ \A i \in 1..Len(s) : s[i] # k
        /\ \A b \in before : b[2] = k => \E i \in 1..Len(s) : s[i] = b[1]
    BY <1>0, <2>1 DEF Ready
  <2> HIDE DEF k
  <2>3. /\ t \in Seq(keys) /\ Len(t) = Len(s) + 1 /\ t[Len(s) + 1] = k
        /\ \A i \in 1..Len(s) : t[i] = s[i]
    BY <1>0, <2>2
  <2> HIDE DEF t
  <2>4. \A i \in 1..Len(t) : i \in 1..Len(s) \/ i = Len(s) + 1
    BY <1>0, <2>3
  <2>5. ASSUME NEW i \in 1..Len(t), NEW j \in 1..Len(t), t[i] = t[j]
        PROVE  i = j
    BY <2>2, <2>3, <2>4, <2>5 DEF Ordered
  <2>6. ASSUME NEW j \in 1..Len(t), NEW b \in before, b[2] = t[j]
        PROVE  \E i \in 1..(j - 1) : t[i] = b[1]
    <3>1. CASE j \in 1..Len(s)
      <4>1. PICK i \in 1..(j - 1) : s[i] = b[1]
        BY <2>3, <2>6, <3>1 DEF Ordered
      <4>2. i \in 1..Len(s)
        BY <1>0, <3>1
      <4> QED  BY <2>3, <4>1, <4>2
    <3>2. CASE j = Len(s) + 1
      <4>1. PICK i \in 1..Len(s) : s[i] = b[1]
        BY <2>2, <2>3, <2>6, <3>2
      <4>2. i \in 1..(j - 1)
        BY <1>0, <3>2
      <4> QED  BY <2>3, <4>1, <4>2
    <3> QED  BY <2>4, <3>1, <3>2
  <2>7. Ordered(t, keys, before)
    BY <2>3, <2>5, <2>6 DEF Ordered
  <2> QED  BY <1>1, <1>3, <2>7
<1> QED  BY <1>2, <1>3

\* Kahn's algorithm, round by round.
LEMMA KahnRounds ==
  ASSUME NEW keys \in SUBSET Nat, IsFiniteSet(keys), NEW before
  PROVE  \E order : /\ order[0] = <<>> /\ KahnOrder(keys, before) = order[Cardinality(keys)]
                    /\ \A n \in Nat : n + 1 <= Cardinality(keys) =>
                         order[n + 1] = AppendReady(keys, before, order[n])
<1> DEFINE N == Cardinality(keys)
           X == {s \in Seq(keys) : Ordered(s, keys, before)}
           step == [x \in X \X Nat |-> AppendReady(keys, before, x[1])]
           Fits(g) == g = [n \in 0..N |-> IF n = 0 THEN <<>>
                                          ELSE AppendReady(keys, before, g[n - 1])]
           order == CHOOSE g : Fits(g)
<1>1. N \in Nat
  BY FS_CardinalityType
<1>2. <<>> \in X /\ step \in [X \X Nat -> X]
  <2>1. <<>> \in X
    BY DEF Ordered
  <2>2. ASSUME NEW s \in X PROVE AppendReady(keys, before, s) \in X
    BY AppendedInOrder DEF Ordered
  <2> HIDE DEF X
  <2> QED  BY <2>1, <2>2
<1>3. \E g : Fits(g)
  <2>1. PICK g \in [0..N -> X] : g[0] = <<>> /\ \A n \in 1..N : g[n] = step[<<g[n - 1], n>>]
    <3> HIDE DEF N, X, step
    <3>1. \E g \in [0..N -> X] : Iterates(g, N, <<>>, step)
      BY <1>1, <1>2, Iterated
    <3> QED  BY <3>1 DEF Iterates
  <2>2. ASSUME NEW n \in 1..N PROVE g[n] = AppendReady(keys, before, g[n - 1])
    <3>1. n - 1 \in 0..N /\ n \in Nat
      BY <1>1
    <3>2. <<g[n - 1], n>> \in X \X Nat
      <4> HIDE DEF X
      <4> QED  BY <3>1
    <3> HIDE DEF X
    <3> QED  BY <2>1, <3>2
  <2>3. \A n \in 0..N : n = 0 \/ n \in 1..N
    BY <1>1
  <2>4. Fits(g)
    <3> HIDE DEF N, X
    <3> QED  BY <2>1, <2>2, <2>3
  <2> QED  BY <2>4
<1>4. Fits(order)
  <2> HIDE DEF Fits
  <2> QED  BY <1>3
<1>5. KahnOrder(keys, before) = order[N]
  BY DEF KahnOrder
<1>6. order[0] = <<>>
  <2>1. 0 \in 0..N
    BY <1>1
  <2> HIDE DEF order, N
  <2> QED  BY <1>4, <2>1
<1>7. ASSUME NEW n \in Nat, n + 1 <= N
      PROVE  order[n + 1] = AppendReady(keys, before, order[n])
  <2>1. n + 1 \in 0..N /\ n + 1 # 0 /\ (n + 1) - 1 = n
    BY <1>1, <1>7
  <2> HIDE DEF order, N
  <2> QED  BY <1>4, <2>1
<1> HIDE DEF order
<1> QED  BY <1>5, <1>6, <1>7

\* The order of _topological_order and of
\* reverse_topologically_order_relations, for every finite set of keys and every
\* relation: no key twice, and every prerequisite before what needs it, even when
\* a cycle leaves keys over.
LEMMA KahnOrdered ==
  ASSUME NEW keys \in SUBSET Nat, IsFiniteSet(keys), NEW before
  PROVE  Ordered(KahnOrder(keys, before), keys, before)
<1> DEFINE N == Cardinality(keys)
<1>1. N \in Nat
  BY FS_CardinalityType
<1>2. PICK order : /\ order[0] = <<>> /\ KahnOrder(keys, before) = order[N]
                   /\ \A n \in Nat : n + 1 <= N =>
                        order[n + 1] = AppendReady(keys, before, order[n])
  BY KahnRounds
<1> DEFINE S == {n \in Nat : n <= N => Ordered(order[n], keys, before)}
<1>3. 0 \in S
  <2>1. Ordered(<<>>, keys, before)
    BY DEF Ordered
  <2> QED  BY <1>2, <2>1
<1>4. ASSUME NEW n \in S PROVE n + 1 \in S
  <2>1. CASE n + 1 <= N
    <3>1. n \in Nat /\ n <= N
      BY <1>1, <2>1
    <3>2. order[n + 1] = AppendReady(keys, before, order[n])
      BY <1>2, <2>1, <3>1
    <3> QED  BY <3>1, <3>2, AppendedInOrder
  <2>2. CASE ~(n + 1 <= N)
    BY <2>2
  <2> QED  BY <2>1, <2>2
<1>5. S = Nat
  <2>1. S \in SUBSET Nat
    OBVIOUS
  <2> HIDE DEF S
  <2> QED  BY <1>3, <1>4, <2>1, Induction
<1>6. N \in S /\ N <= N
  BY <1>1, <1>5
<1> QED  BY <1>2, <1>6

Picks(t, n, seq, set) ==
  /\ t \in Seq(Range(seq))
  /\ \A i, j \in 1..Len(t) : t[i] = t[j] => i = j
  /\ \A j \in 1..Len(t) :
       /\ t[j] \in set
       /\ \E m \in 1..n : /\ seq[m] = t[j]
                          /\ \A i \in 1..(m - 1) : seq[i] \in set => \E k \in 1..(j - 1) : t[k] = seq[i]
  /\ \A i \in 1..n : seq[i] \in set => \E k \in 1..Len(t) : t[k] = seq[i]

PickNext(t, n, seq, set) ==
  IF n \in 1..Len(seq) /\ seq[n] \in set THEN Append(t, seq[n]) ELSE t

\* One more member of the sequence is looked at.
LEMMA NextPicked ==
  ASSUME NEW K, NEW seq \in Seq(K), \A i, j \in 1..Len(seq) : seq[i] = seq[j] => i = j,
         NEW set, NEW n \in Nat, n + 1 <= Len(seq), NEW t, Picks(t, n, seq, set)
  PROVE  Picks(PickNext(t, n + 1, seq, set), n + 1, seq, set)
<1> DEFINE c == seq[n + 1]
           u == Append(t, c)
<1>0. /\ Len(seq) \in Nat /\ n + 1 \in 1..Len(seq) /\ n + 1 \in 1..(n + 1)
      /\ \A m \in 1..n : m \in 1..(n + 1) /\ m \in 1..Len(seq) /\ m # n + 1
      /\ \A m \in 1..(n + 1) : m \in 1..n \/ m = n + 1
      /\ (n + 1) - 1 = n
  OBVIOUS
<1>t. t \in Seq(Range(seq)) /\ Len(t) \in Nat
  BY DEF Picks
<1>1. CASE c \notin set
  <2>1. PickNext(t, n + 1, seq, set) = t
    BY <1>1 DEF PickNext
  <2>2. \A i \in 1..(n + 1) : seq[i] \in set => \E k \in 1..Len(t) : t[k] = seq[i]
    BY <1>0, <1>1 DEF Picks
  <2>3. \A j \in 1..Len(t) :
          /\ t[j] \in set
          /\ \E m \in 1..(n + 1) : 
                /\ seq[m] = t[j]
                /\ \A i \in 1..(m - 1) : seq[i] \in set => \E k \in 1..(j - 1) : t[k] = seq[i]
    BY <1>0 DEF Picks
  <2>4. Picks(t, n + 1, seq, set)
    BY <2>2, <2>3 DEF Picks
  <2> QED  BY <2>1, <2>4
<1>2. CASE c \in set
  <2>1. PickNext(t, n + 1, seq, set) = u
    BY <1>0, <1>2 DEF PickNext
  <2>2. c \in Range(seq)
    BY <1>0 DEF Range
  <2>3. \A j \in 1..Len(t) : t[j] # c
    BY <1>0 DEF Picks
  <2>c. c = seq[n + 1]
    OBVIOUS
  <2> HIDE DEF c
  <2>4. /\ u \in Seq(Range(seq)) /\ Len(u) = Len(t) + 1 /\ u[Len(t) + 1] = c
        /\ \A i \in 1..Len(t) : u[i] = t[i]
    BY <1>t, <2>2
  <2> HIDE DEF u
  <2>5. \A i \in 1..Len(u) : i \in 1..Len(t) \/ i = Len(t) + 1
    BY <1>t, <2>4
  <2>6. ASSUME NEW i \in 1..Len(u), NEW j \in 1..Len(u), u[i] = u[j] PROVE i = j
    <3>1. \A k, l \in 1..Len(t) : t[k] = t[l] => k = l
      BY DEF Picks
    <3>2. CASE i \in 1..Len(t) /\ j \in 1..Len(t)
      BY <2>4, <2>6, <3>1, <3>2
    <3>3. CASE i \in 1..Len(t) /\ j = Len(t) + 1
      BY <2>3, <2>4, <2>6, <3>3
    <3>4. CASE i = Len(t) + 1 /\ j \in 1..Len(t)
      BY <2>3, <2>4, <2>6, <3>4
    <3> QED  BY <2>5, <3>2, <3>3, <3>4
  <2>7. \A i \in 1..(n + 1) : seq[i] \in set => \E k \in 1..Len(u) : u[k] = seq[i]
    <3>1. ASSUME NEW i \in 1..n, seq[i] \in set
          PROVE  \E k \in 1..Len(u) : u[k] = seq[i]
      <4>1. PICK k \in 1..Len(t) : t[k] = seq[i]
        BY <3>1 DEF Picks
      <4>2. k \in 1..Len(u)
        BY <1>t, <2>4
      <4> QED  BY <2>4, <4>1, <4>2
    <3>2. Len(t) + 1 \in 1..Len(u)
      BY <1>t, <2>4
    <3> QED  BY <1>0, <2>c, <2>4, <3>1, <3>2
  <2>8. ASSUME NEW j \in 1..Len(u)
        PROVE  /\ u[j] \in set
               /\ \E m \in 1..(n + 1) :
                    /\ seq[m] = u[j]
                    /\ \A i \in 1..(m - 1) : seq[i] \in set => \E k \in 1..(j - 1) : u[k] = seq[i]
    <3>1. CASE j \in 1..Len(t)
      <4>1. PICK m \in 1..n :
                /\ seq[m] = t[j]
                /\ \A i \in 1..(m - 1) : seq[i] \in set => \E k \in 1..(j - 1) : t[k] = seq[i]
        BY <3>1 DEF Picks
      <4>2. \A k \in 1..(j - 1) : k \in 1..Len(t)
        BY <1>t, <3>1
      <4>3. t[j] \in set
        BY <3>1 DEF Picks
      <4> QED  BY <1>0, <2>4, <3>1, <4>1, <4>2, <4>3
    <3>2. CASE j = Len(t) + 1
      <4>1. \A i \in 1..n : seq[i] \in set => \E k \in 1..Len(t) : t[k] = seq[i]
        BY DEF Picks
      <4>2. j - 1 = Len(t)
        BY <1>t, <3>2
      <4>3. \A i \in 1..n : seq[i] \in set => \E k \in 1..(j - 1) : u[k] = seq[i]
        BY <2>4, <4>1, <4>2
      <4> QED  BY <1>0, <1>2, <2>c, <2>4, <3>2, <4>3
    <3> QED  BY <2>5, <3>1, <3>2
  <2>9. Picks(u, n + 1, seq, set)
    BY <2>4, <2>6, <2>7, <2>8 DEF Picks
  <2> QED  BY <2>1, <2>9
<1> QED  BY <1>1, <1>2

\* Selected keeps exactly the members in the set, in their order.
LEMMA SelectedPicks ==
  ASSUME NEW K, NEW seq \in Seq(K), \A i, j \in 1..Len(seq) : seq[i] = seq[j] => i = j, NEW set
  PROVE  Picks(Selected(seq, set), Len(seq), seq, set)
<1> DEFINE N == Len(seq)
           X == Seq(Range(seq))
           step == [x \in X \X Nat |-> PickNext(x[1], x[2], seq, set)]
           Fits(g) == g = [n \in 0..N |-> IF n = 0 THEN <<>>
                                          ELSE IF seq[n] \in set THEN Append(g[n - 1], seq[n])
                                                                 ELSE g[n - 1]]
           kept == CHOOSE g : Fits(g)
<1>1. N \in Nat
  OBVIOUS
<1>2. <<>> \in X /\ step \in [X \X Nat -> X]
  <2>1. ASSUME NEW t \in X, NEW n \in Nat PROVE PickNext(t, n, seq, set) \in X
    <3>1. CASE n \in 1..Len(seq)
      <4>1. seq[n] \in Range(seq)
        BY <3>1 DEF Range
      <4> QED  BY <4>1 DEF PickNext
    <3>2. CASE n \notin 1..Len(seq)
      BY <3>2 DEF PickNext
    <3> QED  BY <3>1, <3>2
  <2>2. <<>> \in X
    OBVIOUS
  <2> HIDE DEF X
  <2> QED  BY <2>1, <2>2
<1>n. \A n \in 0..N : n = 0 \/ (n \in 1..N /\ n # 0)
  BY <1>1
<1>3. \E g : Fits(g)
  <2>1. PICK g \in [0..N -> X] : g[0] = <<>> /\ \A n \in 1..N : g[n] = step[<<g[n - 1], n>>]
    <3> HIDE DEF N, X, step
    <3>1. \E g \in [0..N -> X] : Iterates(g, N, <<>>, step)
      BY <1>1, <1>2, Iterated
    <3> QED  BY <3>1 DEF Iterates
  <2>2. ASSUME NEW n \in 1..N
        PROVE  g[n] = IF seq[n] \in set THEN Append(g[n - 1], seq[n]) ELSE g[n - 1]
    <3>1. n - 1 \in 0..N /\ n \in Nat
      BY <1>1
    <3>2. <<g[n - 1], n>> \in X \X Nat
      <4> HIDE DEF X
      <4> QED  BY <3>1
    <3>3. g[n] = PickNext(g[n - 1], n, seq, set)
      <4> HIDE DEF X
      <4> QED  BY <2>1, <3>2
    <3> QED  BY <3>3 DEF PickNext
  <2>4. Fits(g)
    <3> HIDE DEF N, X
    <3> QED  BY <2>1, <2>2, <1>n
  <2> QED  BY <2>4
<1>4. Fits(kept)
  <2> HIDE DEF Fits
  <2> QED  BY <1>3
<1>5. Selected(seq, set) = kept[N]
  BY DEF Selected
<1> DEFINE S == {n \in Nat : n <= N => Picks(kept[n], n, seq, set)}
<1>6. 0 \in S
  <2>1. kept[0] = <<>>
    <3>1. 0 \in 0..N
      BY <1>1
    <3> HIDE DEF kept, N
    <3> QED  BY <1>4, <3>1
  <2>2. Picks(<<>>, 0, seq, set)
    BY DEF Picks
  <2> QED  BY <2>1, <2>2
<1>7. ASSUME NEW n \in S PROVE n + 1 \in S
  <2>1. CASE n + 1 <= N
    <3>1. /\ n \in Nat /\ n <= N /\ n + 1 \in 0..N /\ n + 1 # 0 /\ (n + 1) - 1 = n
          /\ n + 1 \in 1..Len(seq)
      BY <1>1, <2>1
    <3>2. kept[n + 1] = PickNext(kept[n], n + 1, seq, set)
      <4>1. kept[n + 1] = IF seq[n + 1] \in set THEN Append(kept[n], seq[n + 1]) ELSE kept[n]
        <5> HIDE DEF kept, N
        <5> QED  BY <1>4, <3>1
      <4> HIDE DEF kept
      <4> QED  BY <3>1, <4>1 DEF PickNext
    <3>3. Picks(kept[n], n, seq, set)
      BY <3>1
    <3> HIDE DEF kept
    <3> QED  BY <2>1, <3>1, <3>2, <3>3, NextPicked
  <2>2. CASE ~(n + 1 <= N)
    BY <2>2
  <2> QED  BY <2>1, <2>2
<1>8. S = Nat
  <2>1. S \in SUBSET Nat
    OBVIOUS
  <2> HIDE DEF S
  <2> QED  BY <1>6, <1>7, <2>1, Induction
<1>9. N \in S /\ N <= N
  BY <1>1, <1>8
<1> QED  BY <1>5, <1>9

-----------------------------------------------------------------------------

\* What the newest manifest says of a relation is about that relation.
LEMMA NewestRelation ==
  ASSUME NEW built \in Seq(Builds), NEW r, NEW x \in NewestOfRelation(built, r)
  PROVE  x.relation = r
<1> DEFINE found == [i \in DOMAIN built |-> {y \in ManifestResources(built[i]) : y.relation = r}]
           having == {i \in DOMAIN found : found[i] # {}}
<1>1. NewestOfRelation(built, r) = IF having = {} THEN {} ELSE found[Min(having)]
  BY DEF NewestOfRelation, Newest
<1>2. having # {} => Min(having) \in having
  <2>1. having \in SUBSET Nat
    OBVIOUS
  <2> HIDE DEF having
  <2> QED  BY <2>1, LeastOf
<1>3. \A i \in DOMAIN found : \A y \in found[i] : y.relation = r
  OBVIOUS
<1> HIDE DEF found
<1> QED  BY <1>1, <1>2, <1>3

\* An association is about the relation it is made for.
LEMMA AssociatedRelation ==
  ASSUME NEW r, NEW name, NEW pipelines, NEW why, NEW x \in Associate(r, name, pipelines, why)
  PROVE  x[1] = r
  BY DEF Associate

\* A plan names relations of the target only.
LEMMA OwnedRelations ==
  ASSUME NEW req, NEW q, NEW w \in Warehouses
  PROVE  OwnedNames(Owned(req, q, w)) \subseteq Relations
<1>w. /\ w.built \in Seq(Builds)
      /\ \A m \in w.mappings : m.physical \in Relations
      /\ \A b \in w.bindings : b.logical \in Relations /\ b.physical \in Relations
  BY WorldsAssumption DEF Warehouses
<1>1. \A names : \A x \in ManifestOwned(q, names) : x[1] \in Relations
  <2> SUFFICES ASSUME NEW names, NEW x \in ManifestOwned(q, names) PROVE x[1] \in Relations
    OBVIOUS
  <2>1. PICK y \in names \X (Relations \ Metadata) :
            x \in Associate(y[2], y[1], LogicalPipelines(q, y[1]), "current_manifest")
    BY DEF ManifestOwned
  <2> QED  BY <2>1, AssociatedRelation
<1>2. \A affected, inactive : \A x \in EligibleHistorical(q, w, affected, inactive) :
        x.relation \in Relations
  <2> SUFFICES ASSUME NEW affected, NEW inactive,
                      NEW x \in EligibleHistorical(q, w, affected, inactive)
               PROVE  x.relation \in Relations
    OBVIOUS
  <2>1. PICK r \in Relations : x \in NewestOfRelation(w.built, r)
    BY DEF EligibleHistorical
  <2> QED  BY <1>w, <2>1, NewestRelation
<1>3. \A names : \A x \in VirtualMappings(req, q, w, names) : x[1] \in Relations
  <2> SUFFICES ASSUME NEW names, NEW x \in VirtualMappings(req, q, w, names)
               PROVE  x[1] \in Relations
    OBVIOUS
  <2>1. PICK m \in w.mappings :
            x \in Associate(m.physical, m.model, RecordedPipelines(req, q, w, m.model),
                            "virtual_mapping")
    BY DEF VirtualMappings
  <2> QED  BY <1>w, <2>1, AssociatedRelation
<1>4. \A owned, names : \A x \in VirtualBindings(req, q, w, owned, names) : x[1] \in Relations
  <2> SUFFICES ASSUME NEW owned, NEW names, NEW x \in VirtualBindings(req, q, w, owned, names)
               PROVE  x[1] \in Relations
    OBVIOUS
  <2>1. PICK b \in w.bindings :
            \/ \E name, pipelines, why : x \in Associate(b.logical, name, pipelines, why)
            \/ \E name, pipelines, why : x \in Associate(b.physical, name, pipelines, why)
    BY DEF VirtualBindings
  <2> QED  BY <1>w, <2>1, AssociatedRelation
<1>5. \A x \in Owned(req, q, w) : x[1] \in Relations
  <2> SUFFICES ASSUME NEW x \in Owned(req, q, w) PROVE x[1] \in Relations
    OBVIOUS
  <2>1. \/ \E names : x \in ManifestOwned(q, names)
        \/ \E affected, inactive : \E y \in EligibleHistorical(q, w, affected, inactive) :
             x \in Associate(y.relation, y.logical, {y.pipeline}, "historical_manifest")
        \/ \E names : x \in VirtualMappings(req, q, w, names)
        \/ \E owned, names : x \in VirtualBindings(req, q, w, owned, names)
    BY DEF Owned
  <2>2. ASSUME NEW affected, NEW inactive, NEW y \in EligibleHistorical(q, w, affected, inactive),
               x \in Associate(y.relation, y.logical, {y.pipeline}, "historical_manifest")
        PROVE  x[1] \in Relations
    BY <1>2, <2>2, AssociatedRelation
  <2> QED  BY <1>1, <1>3, <1>4, <2>1, <2>2
<1> QED  BY <1>5 DEF OwnedNames

\* The evidence of a plan is the catalog as it was read.
LEMMA EvidenceFacts ==
  ASSUME NEW w, NEW owned
  PROVE  /\ {e.name : e \in Evidence(w, owned)} = OwnedNames(owned)
         /\ \A e \in Evidence(w, owned) :
              /\ e.exists <=> Exists(w, e.name)
              /\ e.generation = w.catalog[e.name]
              /\ e.exists => e.uses = Uses[e.name] \cap OwnedNames(owned)
              /\ e.associations = {x \in owned : x[1] = e.name}
<1> DEFINE names == OwnedNames(owned)
           Of(r) == [name   |-> r,
                     exists |-> Exists(w, r),
                     generation   |-> w.catalog[r],
                     associations |-> {x \in owned : x[1] = r},
                     uses   |-> IF Exists(w, r) THEN Uses[r] \cap names ELSE {}]
<1>1. Evidence(w, owned) = {Of(r) : r \in names}
  BY DEF Evidence
<1>2. \A r \in names : /\ Of(r).name = r /\ Of(r).exists = Exists(w, r)
                       /\ Of(r).generation = w.catalog[r]
                       /\ Exists(w, r) => Of(r).uses = Uses[r] \cap names
                       /\ Of(r).associations = {x \in owned : x[1] = r}
  OBVIOUS
<1> HIDE DEF names, Of
<1>3. {e.name : e \in {Of(r) : r \in names}} = names
  BY <1>2
<1>4. ASSUME NEW e \in {Of(r) : r \in names}
      PROVE  /\ e.exists <=> Exists(w, e.name)
             /\ e.generation = w.catalog[e.name]
             /\ e.exists => e.uses = Uses[e.name] \cap names
             /\ e.associations = {x \in owned : x[1] = e.name}
  BY <1>2, <1>4
<1> QED  BY <1>1, <1>3, <1>4 DEF names

\* What the executor needs to know of a plan.
PlanShape(plan) ==
  /\ plan.op \in {DestroyPipelines, ResetTarget} /\ plan.requested \subseteq Named
  /\ plan.included \subseteq Named /\ plan.orphans \in BOOLEAN /\ plan.project \in Projects
  /\ plan.target \in {q.target : q \in Projects}
  /\ NamesIn(plan) \subseteq Relations
  /\ \A e \in plan.relations : e.exists => e.uses = Uses[e.name] \cap NamesIn(plan)

\* What every plan that is built is like.
LEMMA PlanFacts ==
  ASSUME NEW req \in Requests, NEW q \in Projects, NEW w \in Warehouses
  PROVE  /\ BuildPlan(req, q, w) \in Plans
         /\ BuildPlan(req, q, w).relations = Evidence(w, Owned(req, q, w))
         /\ PlanShape(BuildPlan(req, q, w))
<1> DEFINE plan == BuildPlan(req, q, w)
<1>1. plan \in Plans
  BY DEF Plans
<1>2. /\ plan.op = req.op /\ plan.target = q.target /\ plan.requested = req.pipelines
      /\ plan.included = req.included /\ plan.relations = Evidence(w, Owned(req, q, w))
      /\ plan.orphans = HistoryRequested(req, q) /\ plan.project = q
  BY DEF BuildPlan
<1>3. HistoryRequested(req, q) \in BOOLEAN
  BY DEF HistoryRequested
<1> HIDE DEF plan
<1>4. /\ NamesIn(plan) = OwnedNames(Owned(req, q, w)) /\ NamesIn(plan) \subseteq Relations
  BY <1>2, EvidenceFacts, OwnedRelations DEF NamesIn
<1>5. \A e \in plan.relations : e.exists => e.uses = Uses[e.name] \cap NamesIn(plan)
  BY <1>2, <1>4, EvidenceFacts
<1>6. PlanShape(plan)
  BY <1>2, <1>3, <1>4, <1>5 DEF PlanShape, Requests
<1> QED  BY <1>1, <1>2, <1>6 DEF plan

\* The same of the stored plans.
LEMMA PlansShaped ==
  ASSUME NEW plan \in Plans
  PROVE  PlanShape(plan)
  BY PlanFacts DEF Plans

\* What makes the statements of a plan safe to carry out.
SafeStatements(plan) ==
  LET stmts == Statements(plan)
  IN  /\ stmts \in Seq(Relations)
      /\ \A j, k \in 1..Len(stmts) : stmts[j] = stmts[k] => j = k
      /\ \A j \in 1..Len(stmts) : \E e \in plan.relations : e.exists /\ e.name = stmts[j]
      /\ \A j \in 1..Len(stmts) : \A e \in plan.relations :
           e.exists /\ stmts[j] \in e.uses => \E k \in 1..(j - 1) : stmts[k] = e.name

\* The statements of a plan drop relations it holds, each once, and each after
\* whatever in the plan depends on it.
LEMMA StatementsSafe ==
  ASSUME NEW plan, NamesIn(plan) \subseteq Relations
  PROVE  SafeStatements(plan)
<1> DEFINE keys == NamesIn(plan)
           before == UNION {{<<e.name, u>> : u \in e.uses} : e \in plan.relations}
           order == KahnOrder(keys, before)
           present == {e.name : e \in {f \in plan.relations : f.exists}}
           stmts == Selected(order, present)
<1>1. keys \in SUBSET Nat /\ IsFiniteSet(keys)
  BY RelationsAssumption, FS_Subset
<1>2. Ordered(order, keys, before)
  <2> HIDE DEF keys, before
  <2> QED  BY <1>1, KahnOrdered
<1>3. Statements(plan) = stmts
  BY DEF Statements, ReverseOrder, NamesIn
<1>4. order \in Seq(keys) /\ Picks(stmts, Len(order), order, present)
  <2> HIDE DEF keys, before, order, present
  <2> QED  BY <1>2, SelectedPicks DEF Ordered
<1> HIDE DEF order
<1>5. Range(order) \subseteq Relations
  BY <1>4 DEF Range
<1>6. \A e \in plan.relations : \A u \in e.uses : <<e.name, u>> \in before
  OBVIOUS
<1> HIDE DEF keys, before, stmts
<1>7. stmts \in Seq(Relations)
  BY <1>4, <1>5 DEF Picks
<1>8. \A j \in 1..Len(stmts) : \E e \in plan.relations : e.exists /\ e.name = stmts[j]
  BY <1>4 DEF Picks
<1>9. ASSUME NEW j \in 1..Len(stmts), NEW e \in plan.relations, e.exists, stmts[j] \in e.uses
      PROVE  \E k \in 1..(j - 1) : stmts[k] = e.name
  <2>1. PICK m \in 1..Len(order) :
            /\ order[m] = stmts[j]
            /\ \A i \in 1..(m - 1) : order[i] \in present => \E k \in 1..(j - 1) : stmts[k] = order[i]
    BY <1>4 DEF Picks
  <2>2. PICK i \in 1..(m - 1) : order[i] = e.name
    <3>1. <<e.name, order[m]>> \in before
      BY <1>6, <1>9, <2>1
    <3> QED  BY <1>2, <3>1 DEF Ordered
  <2>3. e.name \in present
    BY <1>9
  <2> HIDE DEF present
  <2> QED  BY <2>1, <2>2, <2>3
<1> QED  BY <1>3, <1>4, <1>7, <1>8, <1>9 DEF SafeStatements, Picks

-----------------------------------------------------------------------------

\* Rows move on and keep their plan and actor.
PlansGrow ==
  \A i \in PlanIds : plans[i].status # "none" =>
    /\ plans'[i].status # "none" /\ plans'[i].actor = plans[i].actor
    /\ plans'[i].plan = plans[i].plan
    /\ plans[i].status = "consumed" => plans'[i].status = "consumed"

\* An administrator that was seen under the lock is not forgotten.
VettedGrow ==
  \A i \in PlanIds : plans[i].actor \in vetted[i].admins => plans[i].actor \in vetted'[i].admins

\* What is true of a process stays true while others move.
LEMMA ExecKept ==
  ASSUME NEW q \in Procs, ExecInv(q), exec'[q] = exec[q], PlansGrow, VettedGrow,
         lock = q => lock' = q,
         \A i \in PlanIds : started[i] = {q} => started'[i] = {q},
         \A i \in PlanIds : dropped[i] \subseteq dropped'[i],
         exec[q].pc \in Working => warehouse'.catalog = warehouse.catalog
  PROVE  ExecInv(q)'
<1> DEFINE i == exec[q].id
<1>1. CASE exec[q].pc \in {"idle", "dead"}
  BY <1>1 DEF ExecInv, PhasesBefore, Working, Holding, Acting
<1>2. CASE exec[q].pc \notin {"idle", "dead"}
  <2>1. i \in PlanIds /\ plans[i].status # "none"
    BY <1>2 DEF ExecInv
  <2>2. /\ plans'[i].status # "none" /\ plans'[i].actor = plans[i].actor
        /\ plans'[i].plan = plans[i].plan
        /\ plans[i].status = "consumed" => plans'[i].status = "consumed"
    BY <2>1 DEF PlansGrow
  <2>3. exec[q].pc \in Working => plans'[i].actor \in vetted'[i].admins
    BY <2>1, <2>2 DEF ExecInv, VettedGrow
  <2>4. exec[q].pc \in Working => Stands(plans'[i].plan, exec[q].done, warehouse'.catalog)
    BY <2>2 DEF ExecInv
  <2>5. DroppedNames(i) \subseteq DroppedNames(i)'
    BY <2>1 DEF DroppedNames
  <2>6. exec[q].pc \in Acting =>
           /\ plans'[i].status = "consumed" /\ started'[i] = {q}
           /\ exec[q].done <= Len(Statements(plans'[i].plan))
           /\ Gone(plans'[i].plan, exec[q].done) \subseteq DroppedNames(i)'
    BY <2>1, <2>2, <2>5 DEF ExecInv
  <2> QED  BY <2>1, <2>2, <2>3, <2>4, <2>6 DEF ExecInv
<1> QED  BY <1>1, <1>2

\* What is true of a stored plan stays true while its row only moves on.
LEMMA PlanKept ==
  ASSUME NEW i \in PlanIds, PlanInv(i), VettedGrow,
         started'[i] = started[i], dropped'[i] = dropped[i],
         \/ plans'[i] = plans[i]
         \/ /\ plans[i].status \in {"pending", "reviewed"}
            /\ plans'[i].status \in {"pending", "reviewed", "expired"}
            /\ plans'[i].actor = plans[i].actor /\ plans'[i].plan = plans[i].plan
  PROVE  PlanInv(i)'
  BY DEF PlanInv, VettedGrow

\* Steps that leave the store alone.
LEMMA StoredSame ==
  ASSUME Stored, UNCHANGED <<plans, started, dropped, vetted>>
  PROVE  Stored' /\ PlansGrow /\ VettedGrow
  BY PlanKept DEF Stored, PlansGrow, VettedGrow

\* Steps that leave the catalog alone.
LEMMA DanglingSame ==
  ASSUME NoDangling, warehouse'.catalog = warehouse.catalog
  PROVE  NoDangling'
  BY DEF NoDangling, Exists

\* Steps of the surroundings, which change the catalog only while nothing is
\* being executed.
LEMMA AroundKept ==
  ASSUME Processes, UNCHANGED exec, PlansGrow, VettedGrow, UNCHANGED <<started, dropped>>,
         lock' = lock,
         (\E q \in Procs : exec[q].pc \in Working) => warehouse'.catalog = warehouse.catalog
  PROVE  Processes'
<1> SUFFICES ASSUME NEW q \in Procs PROVE ExecInv(q)'
  BY DEF Processes
<1>1. ExecInv(q)
  BY DEF Processes
<1> QED  BY <1>1, ExecKept

\* A step of one process, for all the others.  The catalog changes only in the
\* hands of the holder of the lock.
LEMMA OthersKept ==
  ASSUME ProcsAssumption, Processes, NEW p \in Procs, \A q \in Procs \ {p} : exec'[q] = exec[q],
         PlansGrow, VettedGrow, lock' = lock \/ lock \in {p, None},
         \A i \in PlanIds : started[i] \subseteq started'[i] /\ started'[i] \subseteq started[i] \cup {p},
         \A i \in PlanIds : p \in started'[i] /\ p \notin started[i] => started[i] = {},
         \A i \in PlanIds : dropped[i] \subseteq dropped'[i],
         exec[p].pc \in Holding \/ warehouse'.catalog = warehouse.catalog
  PROVE  \A q \in Procs \ {p} : ExecInv(q)'
<1> SUFFICES ASSUME NEW q \in Procs \ {p} PROVE ExecInv(q)'
  OBVIOUS
<1>1. ExecInv(q) /\ ExecInv(p)
  BY DEF Processes
<1>2. q # None
  BY DEF ProcsAssumption
<1>3. lock = q => lock' = q
  BY <1>2
<1>4. exec[q].pc \in Working => warehouse'.catalog = warehouse.catalog
  BY <1>1 DEF ExecInv, Holding, Working
<1>5. ASSUME NEW i \in PlanIds, started[i] = {q} PROVE started'[i] = {q}
  BY <1>5
<1> QED  BY <1>1, <1>3, <1>4, <1>5, ExecKept

\* A process is given a new state.
LEMMA ExecUpdated ==
  ASSUME Types, NEW p \in Procs, NEW x \in Executions, exec' = [exec EXCEPT ![p] = x]
  PROVE  /\ exec' \in [Procs -> Executions] /\ exec'[p] = x
         /\ \A q \in Procs \ {p} : exec'[q] = exec[q]
  BY DEF Types

\* A process moves to another phase.
LEMMA PcStep ==
  ASSUME Types, NEW p \in Procs, NEW pc \in Phases, exec' = [exec EXCEPT ![p].pc = pc]
  PROVE  /\ exec' \in [Procs -> Executions]
         /\ exec'[p].pc = pc /\ exec'[p].id = exec[p].id /\ exec'[p].done = exec[p].done
         /\ \A q \in Procs \ {p} : exec'[q] = exec[q]
<1>1. exec \in [Procs -> Executions]
  BY DEF Types
<1> QED  BY <1>1 DEF Executions

\* A process moves to another phase and counts.
LEMMA PcDoneStep ==
  ASSUME Types, NEW p \in Procs, NEW pc \in Phases, NEW n \in Nat,
         exec' = [exec EXCEPT ![p].pc = pc, ![p].done = n]
  PROVE  /\ exec' \in [Procs -> Executions]
         /\ exec'[p].pc = pc /\ exec'[p].id = exec[p].id /\ exec'[p].done = n
         /\ \A q \in Procs \ {p} : exec'[q] = exec[q]
<1>1. exec \in [Procs -> Executions]
  BY DEF Types
<1> QED  BY <1>1 DEF Executions

\* The surroundings interfere once more, within their bound.
LEMMA UpsetStep ==
  ASSUME Types, upsets < MaxUpsets, upsets' = upsets + 1
  PROVE  upsets' \in 0..MaxUpsets
<1>1. upsets \in 0..MaxUpsets /\ MaxUpsets \in Nat
  BY ProcsAssumption DEF Types
<1> QED  BY <1>1

\* A process stops at some statement.
LEMMA StopStep ==
  ASSUME Types, NEW p \in Procs, NEW n \in Nat,
         exec' = [exec EXCEPT ![p].pc = "stopped", ![p].done = n]
  PROVE  /\ exec' \in [Procs -> Executions]
         /\ exec'[p].pc = "stopped" /\ exec'[p].id = exec[p].id /\ exec'[p].done = n
         /\ \A q \in Procs \ {p} : exec'[q] = exec[q]
<1>1. "stopped" \in Phases
  BY DEF Phases
<1> QED  BY <1>1, PcDoneStep

\* Nothing is asked of a process that is idle or dead.
LEMMA OutOfWork ==
  ASSUME NEW p \in Procs, exec'[p].pc \in {"idle", "dead"}
  PROVE  ExecInv(p)'
  BY DEF ExecInv, PhasesBefore, Working, Holding, Acting

\* The states a process starts and ends in.
LEMMA IdleTyped == Idle \in Executions /\ [Idle EXCEPT !.pc = "dead"] \in Executions
  BY DEF Idle, Executions, Phases

\* A row of the store is marked reviewed or expired.
LEMMA EntryStep ==
  ASSUME Types, Stored, NEW i \in PlanIds, NEW status \in {"reviewed", "expired"},
         plans[i].status \in {"pending", "reviewed"},
         plans' = [plans EXCEPT ![i].status = status]
  PROVE  /\ plans' \in [PlanIds -> Entries] /\ PlansGrow
         /\ UNCHANGED <<started, dropped, vetted>> => Stored' /\ VettedGrow
<1>1. plans \in [PlanIds -> Entries]
  BY DEF Types
<1>2. /\ plans' \in [PlanIds -> Entries]
      /\ plans'[i].status = status /\ plans'[i].actor = plans[i].actor
      /\ plans'[i].plan = plans[i].plan /\ \A j \in PlanIds \ {i} : plans'[j] = plans[j]
  BY <1>1 DEF Entries
<1>3. PlansGrow
  BY <1>2 DEF PlansGrow
<1>4. ASSUME UNCHANGED <<started, dropped, vetted>> PROVE Stored' /\ VettedGrow
  <2>1. VettedGrow
    BY <1>4 DEF VettedGrow
  <2> QED  BY <1>2, <1>4, <2>1, PlanKept DEF Stored
<1> QED  BY <1>2, <1>3, <1>4

\* A plan is saved under a fresh identity.
LEMMA SaveStep ==
  ASSUME Types, Stored, NEW i \in PlanIds, NEW u \in Users, NEW plan \in Plans, Free(i),
         Save(i, u, plan), UNCHANGED <<started, dropped, vetted>>
  PROVE  /\ plans' \in [PlanIds -> Entries] /\ PlansGrow /\ VettedGrow /\ Stored'
         /\ plans'[i].status # "none"
<1> DEFINE x == [status |-> "pending", actor |-> u, late |-> FALSE, plan |-> plan]
<1>1. /\ plans \in [PlanIds -> Entries] /\ plans' = [plans EXCEPT ![i] = x]
      /\ plans[i].status = "none"
  BY DEF Types, Save, Free
<1>2. /\ x \in Entries /\ x.status = "pending" /\ x.actor = u /\ x.late = FALSE /\ x.plan = plan
  BY DEF Entries
<1> HIDE DEF x
<1>3. /\ plans' \in [PlanIds -> Entries] /\ plans'[i] = x
      /\ \A j \in PlanIds \ {i} : plans'[j] = plans[j]
  BY <1>1, <1>2
<1>4. PlansGrow /\ VettedGrow
  BY <1>1, <1>3 DEF PlansGrow, VettedGrow
<1>5. u # None
  BY ProcsAssumption
<1>6. PlanInv(i)'
  BY <1>1, <1>2, <1>3, <1>5 DEF Stored, PlanInv
<1>7. \A j \in PlanIds \ {i} : PlanInv(j)'
  BY <1>3, <1>4, PlanKept DEF Stored
<1>8. Stored'
  BY <1>6, <1>7 DEF Stored
<1> QED  BY <1>2, <1>3, <1>4, <1>8

\* A process that works has a plan.
LEMMA FrozenTyped ==
  ASSUME Processes, Stored, NEW p \in Procs, exec[p].pc \notin {"idle", "dead"}
  PROVE  exec[p].id \in PlanIds /\ Frozen(p) \in Plans /\ PlanShape(Frozen(p))
<1>1. exec[p].id \in PlanIds /\ plans[exec[p].id].status # "none"
  BY DEF Processes, ExecInv
<1> QED  BY <1>1, PlansShaped DEF Stored, PlanInv, Frozen

\* The terminal record of a run.
LEMMA TerminalTyped ==
  ASSUME Types, Processes, Stored, NEW p \in Procs, exec[p].pc \notin {"idle", "dead"},
         NEW outcome \in {"failed", "succeeded"}, NEW remaining \in SUBSET Relations,
         NEW observed \in BOOLEAN
  PROVE  Terminal(p, outcome, remaining, observed) \in Terminals
<1>1. exec[p].id \in PlanIds /\ PlanShape(Frozen(p)) /\ exec[p].done \in Nat
  BY FrozenTyped DEF Types, Executions
<1> QED  BY <1>1 DEF Terminal, Terminals, PlanShape

\* The next statement drops a relation that is still there, in the generation
\* that was reviewed.
LEMMA NextStands ==
  ASSUME Types, Processes, Stored, NEW p \in Procs, MoreToDrop(p)
  PROVE  /\ exec[p].id \in PlanIds /\ exec[p].done + 1 \in 1..Len(Statements(Frozen(p)))
         /\ exec[p].done \in Nat /\ Len(Statements(Frozen(p))) \in Nat
         /\ NextRelation(p) \in Relations /\ NextRelation(p) \notin Gone(Frozen(p), exec[p].done)
         /\ warehouse.catalog[NextRelation(p)] > 0
         /\ \E e \in Frozen(p).relations :
              /\ e.exists /\ e.name = NextRelation(p)
              /\ e.generation = warehouse.catalog[NextRelation(p)]
         /\ Gone(Frozen(p), exec[p].done + 1) = Gone(Frozen(p), exec[p].done) \cup {NextRelation(p)}
<1> DEFINE plan == Frozen(p)
           stmts == Statements(plan)
           n == exec[p].done
           r == stmts[n + 1]
<1>1. exec[p].pc = "dropping" /\ n < Len(stmts) /\ n \in Nat
  BY DEF MoreToDrop, Types, Executions
<1>2. exec[p].id \in PlanIds /\ PlanShape(plan)
  BY <1>1, FrozenTyped
<1>3. SafeStatements(plan)
  BY <1>2, StatementsSafe DEF PlanShape
<1>4. Stands(plan, n, warehouse.catalog)
  BY <1>1 DEF Processes, ExecInv, Working, Frozen
<1>5. NextRelation(p) = r
  BY DEF NextRelation
<1> HIDE DEF plan, stmts, n
<1>6. stmts \in Seq(Relations) /\ Len(stmts) \in Nat
  BY <1>3 DEF SafeStatements, stmts
<1>7. /\ n + 1 \in 1..Len(stmts) /\ \A k \in 1..n : k \in 1..Len(stmts) /\ k # n + 1
      /\ \A k \in 1..(n + 1) : k \in 1..n \/ k = n + 1
      /\ \A k \in 1..n : k \in 1..(n + 1)
      /\ n + 1 \in 1..(n + 1)
  BY <1>1, <1>6
<1>8. r \in Relations
  BY <1>6, <1>7
<1>9. \A m : Gone(plan, m) = {stmts[k] : k \in 1..m}
  BY DEF Gone, stmts
<1>10. r \notin Gone(plan, n)
  BY <1>3, <1>7, <1>9 DEF SafeStatements, stmts
<1>11. Gone(plan, n + 1) = Gone(plan, n) \cup {r}
  <2>1. \A m : \A x : x \in Gone(plan, m) <=> \E k \in 1..m : x = stmts[k]
    BY <1>9
  <2>2. \A x : x \in Gone(plan, n + 1) <=> x \in Gone(plan, n) \/ x = r
    BY <1>7, <2>1
  <2> QED  BY <2>2
<1>12. PICK e \in plan.relations : e.exists /\ e.name = r
  BY <1>3, <1>7 DEF SafeStatements, stmts
<1>13. e.generation = warehouse.catalog[r] /\ warehouse.catalog[r] > 0
  BY <1>4, <1>10, <1>12 DEF Stands
<1> QED  BY <1>1, <1>2, <1>5, <1>6, <1>7, <1>8, <1>10, <1>11, <1>12, <1>13 DEF plan, stmts, n

\* What one DROP does: nothing is left dangling, because whatever depends on the
\* relation is in the plan and was dropped before.
LEMMA DropEffect ==
  ASSUME Inv, NEW p \in Procs, MoreToDrop(p), DropNext(p)
  PROVE  /\ warehouse' \in Warehouses /\ NoDangling'
         /\ dropped' \in [PlanIds -> SUBSET (Relations \X (0..MaxGeneration))]
         /\ \A j \in PlanIds \ {exec[p].id} : dropped'[j] = dropped[j]
         /\ \A j \in PlanIds : dropped[j] \subseteq dropped'[j]
         /\ \A x \in dropped'[exec[p].id] :
              \/ x \in dropped[exec[p].id]
              \/ \E e \in Frozen(p).relations : e.exists /\ e.name = x[1] /\ e.generation = x[2]
         /\ Stands(Frozen(p), exec[p].done + 1, warehouse'.catalog)
         /\ Gone(Frozen(p), exec[p].done + 1)
              \subseteq Gone(Frozen(p), exec[p].done) \cup {x[1] : x \in dropped'[exec[p].id]}
<1> USE DEF Inv
<1> DEFINE plan == Frozen(p)
           n == exec[p].done
           r == NextRelation(p)
           i == exec[p].id
           g == warehouse.catalog[r]
<1>1. /\ i \in PlanIds /\ r \in Relations /\ r \notin Gone(plan, n) /\ g > 0
      /\ \E e \in plan.relations : e.exists /\ e.name = r /\ e.generation = g
      /\ Gone(plan, n + 1) = Gone(plan, n) \cup {r}
      /\ n + 1 \in 1..Len(Statements(plan))
  BY NextStands DEF Processes, Stored
<1>2. /\ warehouse' = [warehouse EXCEPT !.catalog[r] = 0]
      /\ dropped' = [dropped EXCEPT ![i] = @ \cup {<<r, g>>}]
  BY DEF DropNext
<1>3. Stands(plan, n, warehouse.catalog) /\ SafeStatements(plan) /\ PlanShape(plan)
  <2>1. exec[p].pc = "dropping"
    BY DEF MoreToDrop
  <2>2. PlanShape(plan)
    BY <2>1, FrozenTyped DEF Processes, Stored
  <2>3. SafeStatements(plan)
    BY <2>2, StatementsSafe DEF PlanShape
  <2>4. Stands(plan, n, warehouse.catalog)
    BY <2>1 DEF Processes, ExecInv, Working, Frozen
  <2> QED  BY <2>2, <2>3, <2>4
<1>s. r = Statements(plan)[n + 1] /\ n \in Nat
  BY DEF NextRelation, Types, Executions
<1> HIDE DEF plan, n, r, i
<1>4. /\ warehouse' \in Warehouses
      /\ \A x \in Relations : warehouse'.catalog[x] = IF x = r THEN 0 ELSE warehouse.catalog[x]
  <2>1. warehouse \in Warehouses /\ 0 \in 0..MaxGeneration
    BY ProcsAssumption DEF Types
  <2> QED  BY <1>1, <1>2, <2>1 DEF Warehouses
<1>5. g \in 0..MaxGeneration
  BY <1>1 DEF Types, Warehouses
<1>6. /\ dropped' \in [PlanIds -> SUBSET (Relations \X (0..MaxGeneration))]
      /\ \A j \in PlanIds \ {i} : dropped'[j] = dropped[j]
      /\ dropped'[i] = dropped[i] \cup {<<r, g>>}
  <2> HIDE DEF g
  <2> QED  BY <1>1, <1>2, <1>5 DEF Types
<1>7. \A e \in plan.relations : e.name \in NamesIn(plan)
  BY DEF NamesIn
<1>8. NamesIn(plan) \subseteq Relations
  BY <1>3 DEF PlanShape
<1>9. Stands(plan, n + 1, warehouse'.catalog)
  <2>1. \A e \in plan.relations :
          e.name \notin Gone(plan, n + 1) =>
            /\ e.generation = warehouse'.catalog[e.name]
            /\ e.exists <=> warehouse'.catalog[e.name] > 0
    BY <1>1, <1>3, <1>4, <1>7, <1>8 DEF Stands
  <2>2. \A x \in Gone(plan, n) : x \in Relations
    <3>1. \A k \in 1..n : k \in 1..Len(Statements(plan))
      BY <1>1, <1>s
    <3>2. Statements(plan) \in Seq(Relations)
      BY <1>3 DEF SafeStatements
    <3> QED  BY <3>1, <3>2 DEF Gone
  <2>3. \A x \in Gone(plan, n + 1) : warehouse'.catalog[x] = 0
    BY <1>1, <1>3, <1>4, <2>2 DEF Stands
  <2>4. \A x \in Relations :
          warehouse'.catalog[x] > 0 /\ Uses[x] \cap NamesIn(plan) # {} => x \in NamesIn(plan)
    BY <1>3, <1>4 DEF Stands
  <2> QED  BY <2>1, <2>3, <2>4 DEF Stands
<1>10. NoDangling'
  <2> SUFFICES ASSUME NEW x \in Relations, warehouse'.catalog[x] > 0, NEW u \in Uses[x]
               PROVE  warehouse'.catalog[u] > 0
    BY DEF NoDangling, Exists
  <2>1. x # r /\ warehouse.catalog[x] > 0 /\ u \in Relations /\ warehouse.catalog[u] > 0
    BY <1>4, RelationsAssumption DEF NoDangling, Exists
  <2>2. CASE u # r
    BY <1>4, <2>1, <2>2
  <2>3. CASE u = r
    <3>1. r \in NamesIn(plan)
      BY <1>1, <1>7
    <3>2. x \in NamesIn(plan)
      BY <1>3, <2>1, <2>3, <3>1 DEF Stands
    <3>3. PICK e \in plan.relations : e.name = x
      BY <3>2 DEF NamesIn
    <3>4. x \notin Gone(plan, n)
      BY <1>3, <2>1 DEF Stands
    <3>5. e.exists
      BY <1>3, <2>1, <3>3, <3>4 DEF Stands
    <3>6. r \in e.uses
      BY <1>3, <2>3, <3>1, <3>3, <3>5 DEF PlanShape
    <3>7. PICK k \in 1..((n + 1) - 1) : Statements(plan)[k] = x
      BY <1>1, <1>3, <1>s, <3>3, <3>5, <3>6 DEF SafeStatements
    <3>8. k \in 1..n
      BY <1>s, <3>7
    <3> QED  BY <3>4, <3>7, <3>8 DEF Gone
  <2> QED  BY <2>2, <2>3
<1>11. \A x \in dropped'[i] :
         \/ x \in dropped[i]
         \/ \E e \in plan.relations : e.exists /\ e.name = x[1] /\ e.generation = x[2]
  BY <1>1, <1>6
<1>12. Gone(plan, n + 1) \subseteq Gone(plan, n) \cup {x[1] : x \in dropped'[i]}
  <2>1. <<r, g>> \in dropped'[i] /\ <<r, g>>[1] = r
    BY <1>6
  <2>2. r \in {x[1] : x \in dropped'[i]}
    BY <2>1
  <2> QED  BY <1>1, <2>2
<1> QED  BY <1>1, <1>4, <1>6, <1>9, <1>10, <1>11, <1>12 DEF plan, n, i

\* One DROP, answered or not, announced or not, keeps the invariant.
LEMMA DropStep ==
  ASSUME Inv, NEW p \in Procs, MoreToDrop(p), NEW n \in Nat, NEW pc \in Acting,
         UNCHANGED <<project, wanted, upsets, plans, admins, lock, runs, started, vetted>>,
         exec' \in [Procs -> Executions],
         exec'[p].pc = pc, exec'[p].id = exec[p].id, exec'[p].done = n,
         \A q \in Procs \ {p} : exec'[q] = exec[q],
         \/ DropNext(p) /\ n = exec[p].done + 1
         \/ DropNext(p) /\ n = exec[p].done /\ pc = "stopped"
         \/ UNCHANGED <<warehouse, dropped>> /\ n = exec[p].done /\ pc = "stopped"
  PROVE  Inv'
<1> USE DEF Inv
<1> DEFINE i == exec[p].id
           plan == Frozen(p)
           d == exec[p].done
<1>1. /\ exec[p].pc = "dropping" /\ i \in PlanIds /\ d \in Nat
      /\ d + 1 \in 1..Len(Statements(plan))
      /\ Len(Statements(plan)) \in Nat /\ plan = plans[i].plan
  BY NextStands DEF MoreToDrop, Frozen
<1>2. /\ plans[i].status = "consumed" /\ started[i] = {p} /\ lock = p
      /\ plans[i].actor \in vetted[i].admins
      /\ Stands(plan, d, warehouse.catalog) /\ Gone(plan, d) \subseteq DroppedNames(i)
  BY <1>1 DEF Processes, ExecInv, Acting, Holding, Working
<1>3. PlansGrow /\ VettedGrow
  BY DEF PlansGrow, VettedGrow
<1>4. /\ warehouse' \in Warehouses /\ NoDangling'
      /\ dropped' \in [PlanIds -> SUBSET (Relations \X (0..MaxGeneration))]
      /\ \A j \in PlanIds \ {i} : dropped'[j] = dropped[j]
      /\ \A j \in PlanIds : dropped[j] \subseteq dropped'[j]
      /\ \A x \in dropped'[i] :
           \/ x \in dropped[i]
           \/ \E e \in plan.relations : e.exists /\ e.name = x[1] /\ e.generation = x[2]
      /\ pc = "dropping" => Stands(plan, n, warehouse'.catalog)
      /\ Gone(plan, n) \subseteq {x[1] : x \in dropped'[i]}
      /\ n <= Len(Statements(plan))
  <2>1. CASE DropNext(p)
    <3>1. /\ warehouse' \in Warehouses /\ NoDangling'
          /\ dropped' \in [PlanIds -> SUBSET (Relations \X (0..MaxGeneration))]
          /\ \A j \in PlanIds \ {i} : dropped'[j] = dropped[j]
          /\ \A j \in PlanIds : dropped[j] \subseteq dropped'[j]
          /\ \A x \in dropped'[i] :
               \/ x \in dropped[i]
               \/ \E e \in plan.relations : e.exists /\ e.name = x[1] /\ e.generation = x[2]
          /\ Stands(plan, d + 1, warehouse'.catalog)
          /\ Gone(plan, d + 1) \subseteq Gone(plan, d) \cup {x[1] : x \in dropped'[i]}
      BY <2>1, DropEffect
    <3>2. Gone(plan, d) \subseteq {x[1] : x \in dropped'[i]}
      BY <1>1, <1>2, <3>1 DEF DroppedNames
    <3>3. d <= Len(Statements(plan)) /\ d + 1 <= Len(Statements(plan))
      BY <1>1
    <3> HIDE DEF i, plan, d
    <3>4. n = d + 1 \/ (n = d /\ pc = "stopped")
      BY DEF d
    <3> QED  BY <3>1, <3>2, <3>3, <3>4
  <2>2. CASE UNCHANGED <<warehouse, dropped>> /\ n = d /\ pc = "stopped"
    <3>1. d <= Len(Statements(plan))
      BY <1>1
    <3>2. NoDangling'
      BY <2>2, DanglingSame
    <3> QED  BY <1>2, <2>2, <3>1, <3>2 DEF Types, DroppedNames
  <2> QED  BY <2>1, <2>2
<1> HIDE DEF i, plan, d
<1>5. Types'
  BY <1>4 DEF Types
<1>6. Processes'
  <2>1. \A q \in Procs \ {p} : ExecInv(q)'
    <3>1. exec[p].pc \in Holding
      BY <1>1 DEF Holding, Working
    <3> QED  BY <1>3, <1>4, <3>1, OthersKept, ProcsAssumption
  <2>2. ExecInv(p)'
    <3>1. exec'[p].id = i /\ DroppedNames(i)' = {x[1] : x \in dropped'[i]}
      BY DEF i, DroppedNames
    <3>2. pc \in {"dropping", "stopped"} /\ plans'[i].plan = plan
      BY <1>1 DEF Acting
    <3>3. /\ plans'[i].status = "consumed" /\ started'[i] = {p} /\ lock' = p
          /\ plans'[i].actor \in vetted'[i].admins
      BY <1>2
    <3>4. Gone(plan, n) \subseteq DroppedNames(i)'
      BY <1>4, <3>1
    <3>5. pc \in Working => pc = "dropping"
      BY <3>2 DEF Working
    <3>6. pc \notin {"prompt"} \cup PhasesBefore
      BY <3>2 DEF PhasesBefore
    <3> QED  BY <1>1, <1>4, <3>1, <3>2, <3>3, <3>4, <3>5, <3>6 DEF ExecInv, DroppedNames
  <2> QED  BY <2>1, <2>2 DEF Processes
<1>7. Stored'
  <2>1. ASSUME NEW j \in PlanIds, j = i PROVE PlanInv(j)'
    <3>1. PlanInv(j) /\ plans[j].status = "consumed"
      BY <1>2, <2>1 DEF Stored
    <3>2. \A x \in dropped'[j] : \E e \in plans'[j].plan.relations :
            e.exists /\ e.name = x[1] /\ e.generation = x[2]
      BY <1>1, <1>4, <2>1, <3>1 DEF PlanInv
    <3> QED  BY <3>1, <3>2 DEF PlanInv
  <2>2. \A j \in PlanIds \ {i} : PlanInv(j)'
    BY <1>3, <1>4, PlanKept DEF Stored
  <2> QED  BY <2>1, <2>2 DEF Stored
<1> QED  BY <1>4, <1>5, <1>6, <1>7

\* The inductive invariant of planning, storing, dispatching and executing
\* destructive plans.
THEOREM DestructionInvariant == Spec => []Inv
<1>1. Init => Inv
  <2> SUFFICES ASSUME Init PROVE Inv
    OBVIOUS
  <2>1. PICK w \in Worlds : project = w.project /\ warehouse = w.warehouse /\ wanted = w.requests
    BY DEF Init
  <2>2. Types
    <3>1. NoPlan \in Entries /\ Idle \in Executions
      BY IdleTyped DEF NoPlan, Entries
    <3>2. project \in Projects /\ warehouse \in Warehouses /\ wanted \subseteq Requests
      BY <2>1, WorldsAssumption
    <3>3. upsets \in 0..MaxUpsets
      BY ProcsAssumption DEF Init
    <3> QED  BY <3>1, <3>2, <3>3 DEF Init, Types
  <2>3. NoDangling
    BY <2>1, WorldsAssumption DEF NoDangling
  <2>4. Processes
    BY DEF Init, Processes, ExecInv, Idle, PhasesBefore, Working, Holding, Acting
  <2>5. Stored
    BY DEF Init, Stored, PlanInv, NoPlan
  <2> QED  BY <2>2, <2>3, <2>4, <2>5 DEF Inv
<1>2. Inv /\ [Next]_vars => Inv'
  <2> SUFFICES ASSUME Inv, [Next]_vars PROVE Inv'
    OBVIOUS
  <2> USE DEF Inv
  <2>1. ASSUME NEW q \in Projects, Edit(q) PROVE Inv'
    <3> USE <2>1 DEF Edit, world, store, history, vars
    <3>0. Stored' /\ PlansGrow /\ VettedGrow
      BY StoredSame
    <3>x. upsets' \in 0..MaxUpsets
      BY UpsetStep
    <3>1. Types'
      BY <3>x DEF Types
    <3>2. NoDangling'
      BY DanglingSame
    <3>3. Processes'
      BY <3>0, AroundKept
    <3>4. Stored'
      BY <3>0
    <3> QED  BY <3>1, <3>2, <3>3, <3>4 DEF Inv
  <2>2. ASSUME NEW u \in Users, RevokeAdmin(u) PROVE Inv'
    <3> USE <2>2 DEF RevokeAdmin, world, store, history, vars
    <3>0. Stored' /\ PlansGrow /\ VettedGrow
      BY StoredSame
    <3>x. upsets' \in 0..MaxUpsets
      BY UpsetStep
    <3>1. Types'
      BY <3>x DEF Types
    <3>2. NoDangling'
      BY DanglingSame
    <3>3. Processes'
      BY <3>0, AroundKept
    <3>4. Stored'
      BY <3>0
    <3> QED  BY <3>1, <3>2, <3>3, <3>4 DEF Inv
  <2>3. ASSUME NEW r \in Heavy, Grow(r) PROVE Inv'
    <3> USE <2>3 DEF Grow, world, store, history, vars
    <3>0. Stored' /\ PlansGrow /\ VettedGrow
      BY StoredSame
    <3>a. warehouse' \in Warehouses /\ warehouse'.catalog = warehouse.catalog
      <4>1. warehouse \in Warehouses /\ r \in Relations
        BY ProcsAssumption DEF Types
      <4>2. warehouse' = [warehouse EXCEPT !.large = @ \cup {r}]
        OBVIOUS
      <4> QED  BY ONLY <4>1, <4>2 DEF Warehouses
    <3>x. upsets' \in 0..MaxUpsets
      BY UpsetStep
    <3>1. Types'
      BY <3>a, <3>x DEF Types
    <3>2. NoDangling'
      BY <3>a, DanglingSame
    <3>3. Processes'
      BY <3>0, <3>a, AroundKept
    <3>4. Stored'
      BY <3>0
    <3> QED  BY <3>1, <3>2, <3>3, <3>4 DEF Inv
  <2>4. ASSUME NEW r \in Foreign, CreateForeignView(r) PROVE Inv'
    <3> USE <2>4 DEF CreateForeignView, world, store, history, vars
    <3>0. Stored' /\ PlansGrow /\ VettedGrow
      BY StoredSame
    <3>a. /\ warehouse' \in Warehouses
          /\ \A x \in Relations : warehouse'.catalog[x] = IF x = r THEN 1 ELSE warehouse.catalog[x]
      <4>1. warehouse \in Warehouses /\ r \in Relations /\ 1 \in 0..MaxGeneration
        BY ProcsAssumption DEF Types
      <4>2. warehouse' = [warehouse EXCEPT !.catalog[r] = 1]
        OBVIOUS
      <4> QED  BY ONLY <4>1, <4>2 DEF Warehouses
    <3>x. upsets' \in 0..MaxUpsets
      BY UpsetStep
    <3>1. Types'
      BY <3>a, <3>x DEF Types
    <3>2. NoDangling'
      <4>1. \A x \in Relations : Uses[x] \subseteq Relations
        BY RelationsAssumption
      <4> QED  BY <3>a, <4>1 DEF NoDangling, Exists
    <3>3. Processes'
      <4>1. ~\E q \in Procs : exec[q].pc \in Working
        BY DEF Executing, Working
      <4> QED  BY <3>0, <4>1, AroundKept
    <3>4. Stored'
      BY <3>0
    <3> QED  BY <3>1, <3>2, <3>3, <3>4 DEF Inv
  <2>5. CASE Rebuild
    <3> USE <2>5 DEF Rebuild, world, store, history, vars
    <3>0. Stored' /\ PlansGrow /\ VettedGrow
      BY StoredSame
    <3>a. /\ warehouse' \in Warehouses
          /\ \A x \in Relations : x \in BuiltDirectly(project) =>
               /\ warehouse'.catalog[x] > 0
               /\ \A u \in Uses[x] : u \in BuiltDirectly(project) \/ warehouse.catalog[u] > 0
          /\ \A x \in Relations : x \notin BuiltDirectly(project) =>
               warehouse'.catalog[x] = warehouse.catalog[x]
      <4> DEFINE built == BuiltDirectly(project)
                 old == warehouse.catalog
                 catalog == [x \in Relations |-> IF x \in built THEN old[x] + 1 ELSE old[x]]
      <4>1. warehouse \in Warehouses /\ old \in [Relations -> 0..MaxGeneration]
        BY DEF Types, Warehouses
      <4>2. warehouse' = [warehouse EXCEPT !.catalog = catalog, !.built = <<project>> \o @]
        OBVIOUS
      <4>3. /\ \A x \in built : old[x] < MaxGeneration
            /\ \A x \in built : \A u \in Uses[x] : u \in built \/ old[u] > 0
        BY DEF Exists
      <4>4. <<project>> \o warehouse.built \in Seq(Builds)
        BY <4>1 DEF Types, Warehouses, Builds
      <4> HIDE DEF built, old
      <4>5. /\ catalog \in [Relations -> 0..MaxGeneration]
            /\ \A x \in Relations : x \in built => catalog[x] > 0
            /\ \A x \in Relations : x \notin built => catalog[x] = old[x]
        <5>1. \A m \in 0..MaxGeneration : m < MaxGeneration => m + 1 \in 0..MaxGeneration /\ m + 1 > 0
          BY ProcsAssumption
        <5> QED  BY <4>1, <4>3, <5>1
      <4> HIDE DEF catalog
      <4>6. warehouse' \in Warehouses /\ warehouse'.catalog = catalog
        BY ONLY <4>1, <4>2, <4>4, <4>5 DEF Warehouses
      <4> QED  BY <4>3, <4>5, <4>6 DEF built, old
    <3>x. upsets' \in 0..MaxUpsets
      BY UpsetStep
    <3>1. Types'
      BY <3>a, <3>x DEF Types
    <3>2. NoDangling'
      <4>1. \A x \in Relations : Uses[x] \subseteq Relations
        BY RelationsAssumption
      <4> HIDE DEF Rebuild
      <4> QED  BY <3>a, <4>1 DEF NoDangling, Exists
    <3>3. Processes'
      <4>1. ~\E q \in Procs : exec[q].pc \in Working
        BY ProcsAssumption DEF Processes, ExecInv, Working, Holding
      <4> HIDE DEF Rebuild
      <4>2. UNCHANGED <<exec, started, dropped, lock>>
        BY DEF Rebuild
      <4> QED  BY <3>0, <4>1, <4>2, AroundKept
    <3>4. Stored'
      BY <3>0
    <3> QED  BY <3>1, <3>2, <3>3, <3>4 DEF Inv
  <2>6. ASSUME NEW i \in PlanIds, TouchExpired(i) PROVE Inv'
    <3> USE <2>6 DEF TouchExpired, world, store, history, vars
    <3>0. plans' \in [PlanIds -> Entries] /\ PlansGrow /\ Stored' /\ VettedGrow
      <4>1. plans[i].status \in {"pending", "reviewed"}
        BY DEF Current
      <4>2. plans' = [plans EXCEPT ![i].status = "expired"]
        BY DEF MarkReviewed
      <4> QED  BY <4>1, <4>2, EntryStep
    <3>1. Types'
      BY <3>0 DEF Types
    <3>2. NoDangling'
      BY DanglingSame
    <3>3. Processes'
      BY <3>0, AroundKept
    <3>4. Stored'
      BY <3>0
    <3> QED  BY <3>1, <3>2, <3>3, <3>4 DEF Inv
  <2>7. ASSUME NEW u \in Users, NEW i \in PlanIds, ReviewPlan(u, i) PROVE Inv'
    <3> USE <2>7 DEF ReviewPlan, world, store, history, vars
    <3>0. plans' \in [PlanIds -> Entries] /\ PlansGrow /\ Stored' /\ VettedGrow
      <4>1. plans[i].status \in {"pending", "reviewed"}
        BY DEF Current
      <4>2. plans' = [plans EXCEPT ![i].status = "reviewed"]
        BY DEF MarkReviewed
      <4> QED  BY <4>1, <4>2, EntryStep
    <3>1. Types'
      BY <3>0 DEF Types
    <3>2. NoDangling'
      BY DanglingSame
    <3>3. Processes'
      BY <3>0, AroundKept
    <3>4. Stored'
      BY <3>0
    <3> QED  BY <3>1, <3>2, <3>3, <3>4 DEF Inv
  <2>8. ASSUME NEW i \in PlanIds, PassDeadline(i) PROVE Inv'
    <3> USE <2>8 DEF PassDeadline, world, store, history, vars
    <3>0. /\ plans' \in [PlanIds -> Entries] /\ plans'[i].status = plans[i].status
          /\ plans'[i].actor = plans[i].actor /\ plans'[i].plan = plans[i].plan
          /\ \A j \in PlanIds \ {i} : plans'[j] = plans[j]
      <4>1. plans \in [PlanIds -> Entries] /\ plans' = [plans EXCEPT ![i].late = TRUE]
        BY DEF Types
      <4> QED  BY ONLY <4>1, i \in PlanIds DEF Entries
    <3>a. PlansGrow /\ VettedGrow
      BY <3>0 DEF PlansGrow, VettedGrow
    <3>x. upsets' \in 0..MaxUpsets
      BY UpsetStep
    <3>1. Types'
      BY <3>0, <3>x DEF Types
    <3>2. NoDangling'
      BY DanglingSame
    <3>3. Processes'
      BY <3>a, AroundKept
    <3>4. Stored'
      BY <3>0, <3>a, PlanKept DEF Stored
    <3> QED  BY <3>1, <3>2, <3>3, <3>4 DEF Inv
  <2>9. ASSUME NEW u \in Users, NEW i \in PlanIds, NEW req \in wanted, CreatePlan(u, req, i)
        PROVE  Inv'
    <3> USE <2>9 DEF CreatePlan, world, store, history, vars
    <3>a. req \in Requests
      BY DEF Types
    <3>b. BuildPlan(req, project, warehouse) \in Plans
      BY <3>a, PlanFacts DEF Types
    <3>0. plans' \in [PlanIds -> Entries] /\ PlansGrow /\ Stored' /\ VettedGrow
      BY <3>b, SaveStep
    <3>1. Types'
      BY <3>0 DEF Types
    <3>2. NoDangling'
      BY DanglingSame
    <3>3. Processes'
      BY <3>0, AroundKept
    <3>4. Stored'
      BY <3>0
    <3> QED  BY <3>1, <3>2, <3>3, <3>4 DEF Inv
  <2>10. ASSUME NEW u \in Users, NEW i \in PlanIds, NEW j \in PlanIds, CreateRecoveryPlan(u,
                runs[j], i)
         PROVE  Inv'
    <3> USE <2>10 DEF CreateRecoveryPlan, world, store, history, vars
    <3>a. RecoveryRequest(runs[j]) \in Requests
      BY DEF RecoveryRequest, Requests, Types, Terminals
    <3>b. BuildPlan(RecoveryRequest(runs[j]), project, warehouse) \in Plans
      BY <3>a, PlanFacts DEF Types
    <3>0. plans' \in [PlanIds -> Entries] /\ PlansGrow /\ Stored' /\ VettedGrow
      BY <3>b, SaveStep
    <3>1. Types'
      BY <3>0 DEF Types
    <3>2. NoDangling'
      BY DanglingSame
    <3>3. Processes'
      BY <3>0, AroundKept
    <3>4. Stored'
      BY <3>0
    <3> QED  BY <3>1, <3>2, <3>3, <3>4 DEF Inv
  <2>11. ASSUME NEW u \in Users, NEW i \in PlanIds, NEW c \in Shells, NEW req \in wanted,
                ShellPlan(c, u, req, i)
         PROVE  Inv'
    <3> USE <2>11 DEF ShellPlan, world, store, history, vars
    <3> DEFINE x == [Idle EXCEPT !.pc = "prompt", !.id = i, !.orphans = req.orphans]
    <3>a. req \in Requests /\ c \in Procs
      BY DEF Types, Procs
    <3>b. BuildPlan(req, project, warehouse) \in Plans
      BY <3>a, PlanFacts DEF Types
    <3>0. /\ plans' \in [PlanIds -> Entries] /\ PlansGrow /\ Stored' /\ VettedGrow
          /\ plans'[i].status # "none"
      BY <3>b, SaveStep
    <3>c. x \in Executions /\ x.pc = "prompt" /\ x.id = i /\ x.done = 0
      BY <3>a DEF Idle, Executions, Phases, Requests
    <3> HIDE DEF x
    <3>d. /\ exec' \in [Procs -> Executions] /\ exec'[c] = x
          /\ \A q \in Procs \ {c} : exec'[q] = exec[q]
      BY <3>a, <3>c, ExecUpdated DEF x
    <3>1. Types'
      BY <3>0, <3>d DEF Types
    <3>2. NoDangling'
      BY DanglingSame
    <3>3. Processes'
      <4>1. \A q \in Procs \ {c} : ExecInv(q)'
        BY <3>0, <3>a, <3>d, OthersKept, ProcsAssumption
      <4>2. ExecInv(c)'
        BY <3>0, <3>c, <3>d DEF ExecInv, Working, Holding, Acting
      <4> QED  BY <4>1, <4>2 DEF Processes
    <3>4. Stored'
      BY <3>0
    <3> QED  BY <3>1, <3>2, <3>3, <3>4 DEF Inv
  <2>12. ASSUME NEW c \in Shells, ShellCancel(c) PROVE Inv'
    <3> USE <2>12 DEF ShellCancel, world, store, history, vars
    <3>0. Stored' /\ PlansGrow /\ VettedGrow
      BY StoredSame
    <3>p. c \in Procs
      BY DEF Procs
    <3>d. /\ exec' \in [Procs -> Executions] /\ exec'[c].pc = "idle"
          /\ \A q \in Procs \ {c} : exec'[q] = exec[q]
      <4>1. Idle \in Executions /\ Idle.pc = "idle"
        BY IdleTyped DEF Idle
      <4> HIDE DEF Idle
      <4> QED  BY <4>1, ExecUpdated, <3>p
    <3>1. Types'
      BY <3>d DEF Types
    <3>2. NoDangling'
      BY DanglingSame
    <3>3. Processes'
      <4>1. \A q \in Procs \ {c} : ExecInv(q)'
        BY <3>0, <3>d, <3>p, OthersKept, ProcsAssumption
      <4>2. ExecInv(c)'
        BY <3>p, <3>d, OutOfWork
      <4> QED  BY <4>1, <4>2 DEF Processes
    <3>4. Stored'
      BY <3>0
    <3> QED  BY <3>1, <3>2, <3>3, <3>4 DEF Inv
  <2>13. ASSUME NEW u \in Users, NEW i \in PlanIds, NEW s \in Servers, ExecutePlan(s, u, i)
         PROVE  Inv'
    <3> USE <2>13 DEF ExecutePlan, world, store, history, vars
    <3>0. Stored' /\ PlansGrow /\ VettedGrow
      BY StoredSame
    <3>p. s \in Procs
      BY DEF Procs
    <3>d. /\ exec' \in [Procs -> Executions] /\ exec'[s].pc = "dispatched" /\ exec'[s].id = i
          /\ exec'[s].done = 0 /\ \A q \in Procs \ {s} : exec'[q] = exec[q]
      <4> DEFINE x == [Idle EXCEPT !.pc = "dispatched", !.id = i]
      <4>1. x \in Executions /\ x.pc = "dispatched" /\ x.id = i /\ x.done = 0
        BY DEF Idle, Executions, Phases, PhasesBefore
      <4> HIDE DEF x
      <4>2. exec' = [exec EXCEPT ![s] = x]
        BY DEF x
      <4> QED  BY <3>p, <4>1, <4>2, ExecUpdated
    <3>1. Types'
      BY <3>d DEF Types
    <3>2. NoDangling'
      BY DanglingSame
    <3>3. Processes'
      <4>1. \A q \in Procs \ {s} : ExecInv(q)'
        BY <3>0, <3>d, <3>p, OthersKept, ProcsAssumption
      <4>2. ExecInv(s)'
        BY <3>d DEF ExecInv, Working, Holding, Acting
      <4> QED  BY <4>1, <4>2 DEF Processes
    <3>4. Stored'
      BY <3>0
    <3> QED  BY <3>1, <3>2, <3>3, <3>4 DEF Inv
  <2>14. ASSUME NEW p \in Procs, BeginFails(p) PROVE Inv'
    <3> USE <2>14 DEF BeginFails, world, store, history, vars
    <3>0. Stored' /\ PlansGrow /\ VettedGrow
      BY StoredSame
    <3>d. /\ exec' \in [Procs -> Executions] /\ exec'[p].pc = "idle"
          /\ \A q \in Procs \ {p} : exec'[q] = exec[q]
      <4>1. Idle \in Executions /\ Idle.pc = "idle"
        BY IdleTyped DEF Idle
      <4> HIDE DEF Idle
      <4> QED  BY <4>1, ExecUpdated
    <3>1. Types'
      BY <3>d DEF Types
    <3>2. NoDangling'
      BY DanglingSame
    <3>3. Processes'
      <4>1. \A q \in Procs \ {p} : ExecInv(q)'
        BY <3>0, <3>d, OthersKept, ProcsAssumption
      <4>2. ExecInv(p)'
        BY <3>d, OutOfWork
      <4> QED  BY <4>1, <4>2 DEF Processes
    <3>4. Stored'
      BY <3>0
    <3> QED  BY <3>1, <3>2, <3>3, <3>4 DEF Inv
  <2>15. ASSUME NEW p \in Procs, Crash(p) PROVE Inv'
    <3> USE <2>15 DEF Crash, world, store, history, vars
    <3>0. Stored' /\ PlansGrow /\ VettedGrow
      BY StoredSame
    <3>d. /\ exec' \in [Procs -> Executions] /\ exec'[p].pc = "dead"
          /\ \A q \in Procs \ {p} : exec'[q] = exec[q]
      <4>1. /\ [Idle EXCEPT !.pc = "dead"] \in Executions
            /\ ([Idle EXCEPT !.pc = "dead"]).pc = "dead"
        BY IdleTyped DEF Idle
      <4> HIDE DEF Idle
      <4> QED  BY <4>1, ExecUpdated
    <3>x. upsets' \in 0..MaxUpsets
      BY UpsetStep
    <3>1. Types'
      BY <3>d, <3>x DEF Types
    <3>2. NoDangling'
      BY DanglingSame
    <3>3. Processes'
      <4>1. \A q \in Procs \ {p} : ExecInv(q)'
        BY <3>0, <3>d, OthersKept, ProcsAssumption
      <4>2. ExecInv(p)'
        BY <3>d, OutOfWork
      <4> QED  BY <4>1, <4>2 DEF Processes
    <3>4. Stored'
      BY <3>0
    <3> QED  BY <3>1, <3>2, <3>3, <3>4 DEF Inv
  <2>16. ASSUME NEW p \in Procs, ReleaseByHand(p) PROVE Inv'
    <3> USE <2>16 DEF ReleaseByHand, world, store, history, vars
    <3>0. Stored' /\ PlansGrow /\ VettedGrow
      BY StoredSame
    <3>d. /\ exec' \in [Procs -> Executions] /\ exec'[p].pc = "idle"
          /\ \A q \in Procs \ {p} : exec'[q] = exec[q]
      <4>1. Idle \in Executions /\ Idle.pc = "idle"
        BY IdleTyped DEF Idle
      <4> HIDE DEF Idle
      <4> QED  BY <4>1, ExecUpdated
    <3>1. Types'
      BY <3>d DEF Types, Unlock
    <3>2. NoDangling'
      BY DanglingSame
    <3>3. Processes'
      <4>1. \A q \in Procs \ {p} : ExecInv(q)'
        BY <3>0, <3>d, OthersKept, ProcsAssumption DEF Unlock
      <4>2. ExecInv(p)'
        BY <3>d, OutOfWork
      <4> QED  BY <4>1, <4>2 DEF Processes
    <3>4. Stored'
      BY <3>0
    <3> QED  BY <3>1, <3>2, <3>3, <3>4 DEF Inv
  <2>17. ASSUME NEW p \in Procs, FailBefore(p) PROVE Inv'
    <3> USE <2>17 DEF FailBefore, world, store, history, vars
    <3>0. Stored' /\ PlansGrow /\ VettedGrow
      BY StoredSame
    <3>d. /\ exec' \in [Procs -> Executions] /\ exec'[p].pc = "idle"
          /\ \A q \in Procs \ {p} : exec'[q] = exec[q]
      <4>1. Idle \in Executions /\ Idle.pc = "idle"
        BY IdleTyped DEF Idle
      <4> HIDE DEF Idle
      <4> QED  BY <4>1, ExecUpdated
    <3>r. runs' \in [PlanIds -> Terminals \cup {None}]
      <4>1. exec[p].pc \notin {"idle", "dead"}
        BY DEF PhasesBefore
      <4>2. PICK outcome \in {"failed", "succeeded"}, remaining \in SUBSET Relations,
                 observe \in BOOLEAN :
              runs' = runs \/ runs' = [runs EXCEPT ![exec[p].id] =
                                         Terminal(p, outcome, remaining, observe)]
        <5> DEFINE names == {e.name : e \in {f \in Frozen(p).relations : f.exists}}
        <5>1. names \subseteq Relations
          BY <4>1, FrozenTyped DEF PlanShape, NamesIn
        <5>2. runs' = runs \/ runs' = [runs EXCEPT ![exec[p].id] = Terminal(p, "failed", names, FALSE)]
          OBVIOUS
        <5> HIDE DEF names
        <5> QED  BY <5>1, <5>2
      <4>3. Terminal(p, outcome, remaining, observe) \in Terminals
        BY <4>1, TerminalTyped
      <4> QED  BY <4>2, <4>3 DEF Types
    <3>1. Types'
      BY <3>d, <3>r DEF Types, Unlock
    <3>2. NoDangling'
      BY DanglingSame
    <3>3. Processes'
      <4>1. \A q \in Procs \ {p} : ExecInv(q)'
        BY <3>0, <3>d, OthersKept, ProcsAssumption DEF Unlock
      <4>2. ExecInv(p)'
        BY <3>d, OutOfWork
      <4> QED  BY <4>1, <4>2 DEF Processes
    <3>4. Stored'
      BY <3>0
    <3> QED  BY <3>1, <3>2, <3>3, <3>4 DEF Inv
  <2>18. ASSUME NEW p \in Procs, NEW observed \in BOOLEAN, NEW event \in BOOLEAN,
                NEW persisted \in BOOLEAN, Conclude(p, observed, event, persisted)
         PROVE  Inv'
    <3> USE <2>18 DEF Conclude, world, store, history, vars
    <3>0. Stored' /\ PlansGrow /\ VettedGrow
      BY StoredSame
    <3>d. /\ exec' \in [Procs -> Executions] /\ exec'[p].pc = "idle"
          /\ \A q \in Procs \ {p} : exec'[q] = exec[q]
      <4>1. Idle \in Executions /\ Idle.pc = "idle"
        BY IdleTyped DEF Idle
      <4> HIDE DEF Idle
      <4> QED  BY <4>1, ExecUpdated
    <3>r. runs' \in [PlanIds -> Terminals \cup {None}]
      <4>1. exec[p].pc \notin {"idle", "dead"}
        BY DEF PhasesBefore
      <4>2. PICK outcome \in {"failed", "succeeded"}, remaining \in SUBSET Relations,
                 observe \in BOOLEAN :
              runs' = runs \/ runs' = [runs EXCEPT ![exec[p].id] =
                                         Terminal(p, outcome, remaining, observe)]
        <5> DEFINE remaining == IF observed THEN RemainingRelations(Frozen(p)) ELSE {}
                   outcome == IF Succeeded(p, remaining, observed) /\ event
                              THEN "succeeded" ELSE "failed"
        <5>1. remaining \subseteq Relations
          BY <4>1, FrozenTyped DEF RemainingRelations, PlanShape, NamesIn
        <5>2. outcome \in {"failed", "succeeded"}
          OBVIOUS
        <5>3. \/ runs' = runs
              \/ runs' = [runs EXCEPT ![exec[p].id] = Terminal(p, outcome, remaining, observed)]
          OBVIOUS
        <5> HIDE DEF remaining, outcome
        <5> QED  BY <5>1, <5>2, <5>3
      <4>3. Terminal(p, outcome, remaining, observe) \in Terminals
        BY <4>1, TerminalTyped
      <4> QED  BY <4>2, <4>3 DEF Types
    <3>1. Types'
      BY <3>d, <3>r DEF Types, Unlock
    <3>2. NoDangling'
      BY DanglingSame
    <3>3. Processes'
      <4>1. \A q \in Procs \ {p} : ExecInv(q)'
        BY <3>0, <3>d, OthersKept, ProcsAssumption DEF Unlock
      <4>2. ExecInv(p)'
        BY <3>d, OutOfWork
      <4> QED  BY <4>1, <4>2 DEF Processes
    <3>4. Stored'
      BY <3>0
    <3> QED  BY <3>1, <3>2, <3>3, <3>4 DEF Inv
  <2>19. ASSUME NEW p \in Procs, AcquireLock(p) PROVE Inv'
    <3> USE <2>19 DEF AcquireLock, world, store, history, vars
    <3>0. Stored' /\ PlansGrow /\ VettedGrow
      BY StoredSame
    <3>d. /\ exec' \in [Procs -> Executions]
          /\ exec'[p].pc = "locked" /\ exec'[p].id = exec[p].id /\ exec'[p].done = exec[p].done
          /\ \A q \in Procs \ {p} : exec'[q] = exec[q]
      BY PcStep DEF Phases, PhasesBefore
    <3>1. Types'
      BY <3>d DEF Types
    <3>2. NoDangling'
      BY DanglingSame
    <3>3. Processes'
      <4>1. \A q \in Procs \ {p} : ExecInv(q)'
        BY <3>0, <3>d, OthersKept, ProcsAssumption
      <4>2. ExecInv(p)'
        BY <3>d DEF Processes, ExecInv, PhasesBefore, Working, Holding, Acting
      <4> QED  BY <4>1, <4>2 DEF Processes
    <3>4. Stored'
      BY <3>0
    <3> QED  BY <3>1, <3>2, <3>3, <3>4 DEF Inv
  <2>20. ASSUME NEW p \in Procs, ConsumeRead(p) PROVE Inv'
    <3> USE <2>20 DEF ConsumeRead, world, store, history, vars
    <3>0. Stored' /\ PlansGrow /\ VettedGrow
      BY StoredSame
    <3>d. /\ exec' \in [Procs -> Executions]
          /\ exec'[p].pc = "checked" /\ exec'[p].id = exec[p].id /\ exec'[p].done = exec[p].done
          /\ \A q \in Procs \ {p} : exec'[q] = exec[q]
      BY PcStep DEF Phases, PhasesBefore
    <3>1. Types'
      BY <3>d DEF Types
    <3>2. NoDangling'
      BY DanglingSame
    <3>3. Processes'
      <4>1. \A q \in Procs \ {p} : ExecInv(q)'
        BY <3>0, <3>d, OthersKept, ProcsAssumption
      <4>2. ExecInv(p)'
        BY <3>d DEF Processes, ExecInv, PhasesBefore, Working, Holding, Acting
      <4> QED  BY <4>1, <4>2 DEF Processes
    <3>4. Stored'
      BY <3>0
    <3> QED  BY <3>1, <3>2, <3>3, <3>4 DEF Inv
  <2>21. ASSUME NEW c \in Shells, ShellConfirm(c) PROVE Inv'
    <3> USE <2>21 DEF world, store, history, vars
    <3> DEFINE i == exec[c].id
    <3>p. c \in Procs /\ i \in PlanIds /\ exec[c].pc = "prompt" /\ exec[c].done = 0
      BY DEF ShellConfirm, Procs, Processes, ExecInv
    <3>0. plans' \in [PlanIds -> Entries] /\ PlansGrow /\ Stored' /\ VettedGrow
      <4>1. /\ plans[i].status \in {"pending", "reviewed"}
            /\ plans' = [plans EXCEPT ![i].status = "reviewed"]
            /\ UNCHANGED <<started, dropped, vetted>>
        BY DEF ShellConfirm, MarkReviewed, Current
      <4> HIDE DEF i
      <4> QED  BY <3>p, <4>1, EntryStep
    <3>d. /\ exec' \in [Procs -> Executions]
          /\ \/ exec'[c].pc = "idle"
             \/ exec'[c].pc = "dispatched" /\ exec'[c].id = i /\ exec'[c].done = 0
          /\ \A q \in Procs \ {c} : exec'[q] = exec[q]
      <4>1. CASE exec' = [exec EXCEPT ![c] = Idle]
        <5>1. Idle \in Executions /\ Idle.pc = "idle"
          BY IdleTyped DEF Idle
        <5> HIDE DEF Idle
        <5> QED  BY <3>p, <4>1, <5>1, ExecUpdated
      <4>2. CASE exec' = [exec EXCEPT ![c] = [exec[c] EXCEPT !.pc = "dispatched"]]
        <5> DEFINE x == [exec[c] EXCEPT !.pc = "dispatched"]
        <5>1. x \in Executions /\ x.pc = "dispatched" /\ x.id = i /\ x.done = 0
          BY <3>p DEF Types, Executions, Phases, PhasesBefore
        <5> HIDE DEF x
        <5>2. exec' = [exec EXCEPT ![c] = x]
          BY <4>2 DEF x
        <5> QED  BY <3>p, <5>1, <5>2, ExecUpdated
      <4> QED  BY <4>1, <4>2 DEF ShellConfirm
    <3>1. Types'
      BY <3>0, <3>d DEF ShellConfirm, Types
    <3>2. NoDangling'
      BY DanglingSame DEF ShellConfirm
    <3>3. Processes'
      <4>1. \A q \in Procs \ {c} : ExecInv(q)'
        BY <3>0, <3>d, <3>p, OthersKept, ProcsAssumption DEF ShellConfirm
      <4>2. ExecInv(c)'
        <5>1. plans'[i].status # "none"
          BY <3>0, <3>p DEF PlansGrow, Processes, ExecInv
        <5> QED  BY <3>d, <3>p, <5>1 DEF ExecInv, PhasesBefore, Working, Holding, Acting
      <4> QED  BY <4>1, <4>2 DEF Processes
    <3>4. Stored'
      BY <3>0
    <3> QED  BY <3>1, <3>2, <3>3, <3>4 DEF Inv
  <2>22. ASSUME NEW p \in Procs, Replan(p) PROVE Inv'
    <3> USE <2>22 DEF Replan, world, store, history, vars
    <3> DEFINE i == exec[p].id
               look == [project |-> project, admins |-> admins]
    <3>a. i \in PlanIds /\ exec[p].done = 0 /\ lock = p /\ plans[i].actor \in admins
      BY DEF Processes, ExecInv, PhasesBefore, Holding, Authorized
    <3>b. /\ vetted' \in [PlanIds -> Looks \cup {None}] /\ vetted'[i].admins = admins
          /\ \A j \in PlanIds \ {i} : vetted'[j] = vetted[j]
      <4>1. look \in Looks /\ look.admins = admins /\ vetted' = [vetted EXCEPT ![i] = look]
        BY DEF Types, Looks
      <4> HIDE DEF look
      <4> QED  BY <3>a, <4>1 DEF Types
    <3>c. VettedGrow /\ PlansGrow
      BY <3>a, <3>b DEF VettedGrow, PlansGrow
    <3>d. /\ exec' \in [Procs -> Executions]
          /\ exec'[p].pc = "verified" /\ exec'[p].id = exec[p].id /\ exec'[p].done = exec[p].done
          /\ \A q \in Procs \ {p} : exec'[q] = exec[q]
      BY PcStep DEF Phases, PhasesBefore
    <3>1. Types'
      BY <3>b, <3>d DEF Types
    <3>2. NoDangling'
      BY DanglingSame
    <3>3. Processes'
      <4>1. \A q \in Procs \ {p} : ExecInv(q)'
        BY <3>a, <3>c, <3>d, OthersKept, ProcsAssumption
      <4>2. Stands(plans[i].plan, 0, warehouse.catalog)
        <5> DEFINE req == LockedRequest(p)
                   owned == Owned(req, project, warehouse)
                   plan == plans[i].plan
        <5>1. /\ plan = BuildPlan(req, project, warehouse)
              /\ plan.relations = Evidence(warehouse, owned)
          BY DEF Frozen, BuildPlan
        <5>2. ExternalDependants(warehouse, OwnedNames(owned)) = {}
          BY DEF Planned, PlanError
        <5>3. NamesIn(plan) = OwnedNames(owned)
          BY <5>1, EvidenceFacts DEF NamesIn
        <5>4. Gone(plan, 0) = {}
          BY DEF Gone
        <5> HIDE DEF plan, owned
        <5>5. \A e \in plan.relations : e.generation = warehouse.catalog[e.name]
                                        /\ (e.exists <=> warehouse.catalog[e.name] > 0)
          BY <5>1, EvidenceFacts DEF Exists
        <5>6. \A r \in Relations :
                warehouse.catalog[r] > 0 /\ Uses[r] \cap NamesIn(plan) # {} => r \in NamesIn(plan)
          BY <5>2, <5>3 DEF ExternalDependants, Exists
        <5> QED  BY <5>4, <5>5, <5>6 DEF Stands, plan
      <4>3. ExecInv(p)'
        <5>1. plans'[i].actor \in vetted'[i].admins
          BY <3>a, <3>b
        <5> QED  BY <3>a, <3>d, <4>2, <5>1 DEF Processes, ExecInv, Holding, Working, Acting
      <4> QED  BY <4>1, <4>3 DEF Processes
    <3>4. Stored'
      BY <3>c, PlanKept DEF Stored
    <3> QED  BY <3>1, <3>2, <3>3, <3>4 DEF Inv
  <2>23. ASSUME NEW p \in Procs, ConsumeWrite(p) PROVE Inv'
    <3> USE DEF world, store, history, vars
    <3> DEFINE i == exec[p].id
    <3>a. /\ i \in PlanIds /\ exec[p].done = 0 /\ exec[p].pc = "checked"
          /\ plans[i].status = "reviewed" /\ started[i] = {} /\ dropped[i] = {}
          /\ plans[i].actor \in vetted[i].admins
      BY <2>23 DEF ConsumeWrite, Processes, ExecInv, PhasesBefore, Working, Stored, PlanInv
    <3>u. /\ plans' = [plans EXCEPT ![i].status = "consumed"]
          /\ started' = [started EXCEPT ![i] = @ \cup {p}]
          /\ exec' = [exec EXCEPT ![p].pc = "dropping"]
          /\ UNCHANGED <<project, warehouse, wanted, upsets, admins, lock, runs, dropped, vetted>>
      BY <2>23 DEF ConsumeWrite
    <3> HIDE DEF i
    <3>b. /\ plans' \in [PlanIds -> Entries] /\ plans'[i].status = "consumed"
          /\ plans'[i].actor = plans[i].actor /\ plans'[i].plan = plans[i].plan
          /\ \A j \in PlanIds \ {i} : plans'[j] = plans[j]
      <4>1. plans \in [PlanIds -> Entries]
        BY DEF Types
      <4> QED  BY ONLY <4>1, <3>u, <3>a DEF Entries
    <3>c. /\ started' \in [PlanIds -> SUBSET Procs] /\ started'[i] = {p}
          /\ \A j \in PlanIds \ {i} : started'[j] = started[j]
      BY <3>a, <3>u DEF Types
    <3>e. VettedGrow /\ PlansGrow
      BY <3>a, <3>b, <3>u DEF VettedGrow, PlansGrow
    <3>d. /\ exec' \in [Procs -> Executions]
          /\ exec'[p].pc = "dropping" /\ exec'[p].id = exec[p].id /\ exec'[p].done = exec[p].done
          /\ \A q \in Procs \ {p} : exec'[q] = exec[q]
      BY <3>u, PcStep DEF Phases
    <3>1. Types'
      BY <3>b, <3>c, <3>d, <3>u DEF Types
    <3>2. NoDangling'
      BY <3>u, DanglingSame
    <3>3. Processes'
      <4>1. \A q \in Procs \ {p} : ExecInv(q)'
        <5>1. \A j \in PlanIds : /\ started[j] \subseteq started'[j]
                                 /\ started'[j] \subseteq started[j] \cup {p}
                                 /\ p \in started'[j] /\ p \notin started[j] => started[j] = {}
          BY <3>a, <3>c
        <5> QED  BY <3>d, <3>e, <3>u, <5>1, OthersKept, ProcsAssumption
      <4>2. Len(Statements(plans[i].plan)) \in Nat /\ Gone(plans[i].plan, 0) = {}
        <5>1. PlanShape(plans[i].plan)
          BY <3>a, PlansShaped DEF Stored, PlanInv
        <5>2. SafeStatements(plans[i].plan)
          BY <5>1, StatementsSafe DEF PlanShape
        <5>3. \A x : x \in Seq(Relations) => Len(x) \in Nat
          OBVIOUS
        <5> QED  BY <5>2, <5>3 DEF SafeStatements, Gone
      <4>3. ExecInv(p)
        BY DEF Processes
      <4>4. lock = p /\ Stands(plans[i].plan, 0, warehouse.catalog)
        BY <3>a, <4>3 DEF ExecInv, Holding, Working, i
      <4>5. 0 <= Len(Statements(plans[i].plan))
        BY <4>2
      <4>6. ExecInv(p)'
        BY <3>a, <3>b, <3>c, <3>d, <3>u, <4>2, <4>4, <4>5
           DEF ExecInv, PhasesBefore, Holding, Working, Acting, i
      <4> QED  BY <4>1, <4>6 DEF Processes
    <3>4. Stored'
      <4>1. ASSUME NEW j \in PlanIds, j = i PROVE PlanInv(j)'
        <5>1. PlanInv(j)
          BY DEF Stored
        <5> QED  BY <3>a, <3>b, <3>c, <3>u, <4>1, <5>1 DEF PlanInv
      <4>2. \A j \in PlanIds \ {i} : PlanInv(j)'
        BY <3>b, <3>c, <3>e, <3>u, PlanKept DEF Stored
      <4> QED  BY <4>1, <4>2 DEF Stored
    <3> QED  BY <3>1, <3>2, <3>3, <3>4 DEF Inv
  <2>24. ASSUME NEW p \in Procs, DropStatement(p) PROVE Inv'
    <3> USE DEF world, store, history, vars
    <3>u. /\ MoreToDrop(p) /\ exec[p].pc = "dropping"
          /\ UNCHANGED <<project, wanted, upsets, plans, admins, lock, runs, started, vetted>>
      BY <2>24 DEF DropStatement, MoreToDrop
    <3>n. /\ exec[p].id \in PlanIds /\ exec[p].done + 1 \in 1..Len(Statements(Frozen(p)))
          /\ exec[p].done \in Nat /\ Len(Statements(Frozen(p))) \in Nat
      BY <3>u, NextStands
    <3>d. /\ exec' \in [Procs -> Executions] /\ exec'[p].pc = "dropping"
          /\ exec'[p].id = exec[p].id
          /\ exec'[p].done = exec[p].done + 1 /\ \A q \in Procs \ {p} : exec'[q] = exec[q]
      <4>1. exec \in [Procs -> Executions] /\ exec[p].done + 1 \in Nat
        BY <3>n DEF Types
      <4> DEFINE k == exec[p].done + 1
      <4>2. exec' = [exec EXCEPT ![p].done = k] /\ k \in Nat
        BY <2>24, <4>1 DEF DropStatement
      <4>3. exec[p] \in Executions
        BY <4>1
      <4> HIDE DEF k
      <4>4. /\ exec' \in [Procs -> Executions] /\ exec'[p].pc = exec[p].pc
            /\ exec'[p].id = exec[p].id /\ exec'[p].done = k
            /\ \A q \in Procs \ {p} : exec'[q] = exec[q]
        BY ONLY <4>1, <4>2, p \in Procs DEF Executions
      <4> QED  BY <4>4, <3>u DEF k
    <3>m. DropNext(p) /\ "dropping" \in Acting /\ exec[p].done + 1 \in Nat
      BY <2>24, <3>n DEF DropStatement, Acting
    <3> QED  BY <3>u, <3>d, <3>m, DropStep
  <2>25. ASSUME NEW p \in Procs, DropFails(p) PROVE Inv'
    <3> USE DEF world, store, history, vars
    <3>u. /\ MoreToDrop(p) /\ exec[p].pc = "dropping"
          /\ UNCHANGED <<project, wanted, upsets, plans, admins, lock, runs, started, vetted>>
      BY <2>25 DEF DropFails, MoreToDrop
    <3>n. /\ exec[p].id \in PlanIds /\ exec[p].done + 1 \in 1..Len(Statements(Frozen(p)))
          /\ exec[p].done \in Nat /\ Len(Statements(Frozen(p))) \in Nat
      BY <3>u, NextStands
    <3>d. /\ exec' \in [Procs -> Executions] /\ exec'[p].pc = "stopped"
          /\ exec'[p].id = exec[p].id
          /\ exec'[p].done = exec[p].done /\ \A q \in Procs \ {p} : exec'[q] = exec[q]
      BY <2>25, PcStep DEF DropFails, Phases
    <3>m. (DropNext(p) \/ UNCHANGED <<warehouse, dropped>>) /\ "stopped" \in Acting
      BY <2>25 DEF DropFails, Acting
    <3>1. CASE DropNext(p)
      BY <3>1, <3>u, <3>d, <3>m, <3>n, DropStep
    <3>2. CASE UNCHANGED <<warehouse, dropped>>
      BY <3>2, <3>u, <3>d, <3>m, <3>n, DropStep
    <3> QED  BY <3>1, <3>2, <3>m
  <2>26. ASSUME NEW p \in Procs, DropUnannounced(p) PROVE Inv'
    <3> USE DEF world, store, history, vars
    <3>u. /\ MoreToDrop(p) /\ exec[p].pc = "dropping"
          /\ UNCHANGED <<project, wanted, upsets, plans, admins, lock, runs, started, vetted>>
      BY <2>26 DEF DropUnannounced, MoreToDrop
    <3>n. /\ exec[p].id \in PlanIds /\ exec[p].done + 1 \in 1..Len(Statements(Frozen(p)))
          /\ exec[p].done \in Nat /\ Len(Statements(Frozen(p))) \in Nat
      BY <3>u, NextStands
    <3>d. /\ exec' \in [Procs -> Executions] /\ exec'[p].pc = "stopped"
          /\ exec'[p].id = exec[p].id
          /\ exec'[p].done = exec[p].done + 1 /\ \A q \in Procs \ {p} : exec'[q] = exec[q]
      <4> DEFINE k == exec[p].done + 1
      <4>1. exec' = [exec EXCEPT ![p].pc = "stopped", ![p].done = k] /\ k \in Nat
        BY <2>26, <3>n DEF DropUnannounced
      <4>2. k = exec[p].done + 1 /\ "stopped" \in Phases
        BY DEF Phases
      <4> HIDE DEF k
      <4> QED  BY <4>1, <4>2, PcDoneStep
    <3>m. DropNext(p) /\ "stopped" \in Acting /\ exec[p].done + 1 \in Nat
      BY <2>26, <3>n DEF DropUnannounced, Acting
    <3> QED  BY <3>u, <3>d, <3>m, DropStep
  <2>27. ASSUME NEW p \in Procs, Interrupt(p) PROVE Inv'
    <3> USE DEF world, store, history, vars
    <3>u. /\ MoreToDrop(p) /\ exec[p].pc = "dropping" /\ "stopped" \in Acting
          /\ UNCHANGED <<project, wanted, upsets, plans, admins, lock, runs, started, vetted>>
      BY <2>27 DEF Interrupt, MoreToDrop, Acting
    <3>n. exec[p].done \in Nat /\ warehouse.catalog[NextRelation(p)] > 0
      BY <3>u, NextStands
    <3>g. ~(0 > 0)
      OBVIOUS
    <3>d. PICK readable \in BOOLEAN :
            exec' = [exec EXCEPT ![p].pc = "stopped",
                       ![p].done = IF readable /\ warehouse'.catalog[NextRelation(p)] = 0
                                   THEN @ + 1 ELSE @]
      BY <2>27 DEF Interrupt
    <3> DEFINE k == IF readable /\ warehouse'.catalog[NextRelation(p)] = 0
                    THEN exec[p].done + 1 ELSE exec[p].done
    <3>k. k \in Nat /\ (k = exec[p].done \/ (k = exec[p].done + 1 /\ warehouse'.catalog[NextRelation(p)] = 0))
      BY <3>n
    <3>e. exec' = [exec EXCEPT ![p].pc = "stopped", ![p].done = k] /\ "stopped" \in Phases
      BY <3>d DEF Phases
    <3> HIDE DEF k
    <3>f. /\ exec' \in [Procs -> Executions] /\ exec'[p].pc = "stopped"
          /\ exec'[p].id = exec[p].id
          /\ exec'[p].done = k /\ \A q \in Procs \ {p} : exec'[q] = exec[q]
      BY <3>e, <3>k, StopStep
    <3>m. DropNext(p) \/ UNCHANGED <<warehouse, dropped>>
      BY <2>27 DEF Interrupt
    <3>h. UNCHANGED warehouse => warehouse'.catalog[NextRelation(p)] # 0
      BY <3>n, <3>g
    <3>1. CASE DropNext(p)
      BY <3>1, <3>u, <3>k, <3>f, DropStep
    <3>2. CASE UNCHANGED <<warehouse, dropped>>
      BY <3>2, <3>u, <3>k, <3>f, <3>h, DropStep
    <3> QED  BY <3>1, <3>2, <3>m
  <2>28. CASE UNCHANGED vars
    <3> USE <2>28 DEF world, store, history, vars
    <3>0. Stored' /\ PlansGrow /\ VettedGrow
      BY StoredSame
    <3>1. Types'
      BY DEF Types
    <3>2. NoDangling'
      BY DanglingSame
    <3>3. Processes'
      BY <3>0, AroundKept
    <3>4. Stored'
      BY <3>0
    <3> QED  BY <3>1, <3>2, <3>3, <3>4 DEF Inv
  <2> HIDE DEF Inv
  <2> QED  BY <2>1, <2>2, <2>3, <2>4, <2>5, <2>6, <2>7, <2>8, <2>9, <2>10, <2>11, <2>12, <2>13,
              <2>14, <2>15, <2>16, <2>17, <2>18, <2>19, <2>20, <2>21, <2>22, <2>23, <2>24, <2>25,
              <2>26, <2>27, <2>28 DEF Next, Execution
<1> QED  BY <1>1, <1>2, PTL DEF Spec

\* Type correctness.
THEOREM DestructionTypeOK == Spec => []TypeOK
<1>1. Inv => TypeOK
  <2> SUFFICES ASSUME Inv PROVE TypeOK
    OBVIOUS
  <2>1. /\ warehouse.catalog \in [Relations -> 0..MaxGeneration]
        /\ warehouse.large \subseteq Relations
    BY DEF Inv, Types, Warehouses
  <2>2. ASSUME NEW i \in PlanIds
        PROVE  /\ plans[i].status \in {"none", "pending", "reviewed", "consumed", "expired"}
               /\ plans[i].status = "none" <=> plans[i].actor = None
    BY DEF Inv, Types, Entries, Stored, PlanInv
  <2>3. ASSUME NEW p \in Procs PROVE exec[p].pc \in Phases /\ exec[p].id \in PlanIds \cup {None}
    BY DEF Inv, Types, Executions
  <2>4. /\ project \in Projects /\ admins \subseteq Users /\ lock \in Procs \cup {None}
        /\ upsets \in 0..MaxUpsets
    BY DEF Inv, Types
  <2> QED  BY <2>1, <2>2, <2>3, <2>4 DEF TypeOK
<1> QED  BY <1>1, DestructionInvariant, PTL

\* Wherever a destruction stops, no relation is left whose definition reads or
\* feeds one that is gone (reverse_topologically_order_relations and the check
\* for external dependants), for every dependency relation of the target.
THEOREM NothingDangles == Spec => []NoDangling
<1>1. Inv => NoDangling
  BY DEF Inv
<1> QED  BY <1>1, DestructionInvariant, PTL

\* What is dropped is the generation that was reviewed
\* (verify_destruction_drift under the lock).
THEOREM DropsReviewed == Spec => []DroppedAsReviewed
<1>1. Inv => DroppedAsReviewed
  BY DEF Inv, Stored, PlanInv, DroppedAsReviewed
<1> QED  BY <1>1, DestructionInvariant, PTL

\* A plan is executed only for an account that was an administrator under the
\* lock (_fresh_plan, require_same_destruction_admin).
THEOREM AdminExecutes == Spec => []ExecutedByAdmin
<1>1. Inv => ExecutedByAdmin
  BY DEF Inv, Stored, PlanInv, ExecutedByAdmin
<1> QED  BY <1>1, DestructionInvariant, PTL

\* Records are written by the failure before the first statement and by the end.
LEMMA OnlyEndsRecord ==
  ASSUME Inv, [Next]_vars
  PROVE  \/ UNCHANGED runs
         \/ \E p \in Procs : FailBefore(p)
         \/ \E p \in Procs : \E observed, event, persisted \in BOOLEAN :
              Conclude(p, observed, event, persisted)
  BY DEF Next, Execution, vars, world, store, history, CreatePlan, CreateRecoveryPlan, ReviewPlan,
     ExecutePlan, ShellPlan, ShellCancel, ShellConfirm, BeginFails, AcquireLock, Replan,
     ConsumeRead, ConsumeWrite, DropStatement, DropFails, DropUnannounced, Interrupt, Crash,
     ReleaseByHand, TouchExpired, PassDeadline, Edit, Grow, CreateForeignView, RevokeAdmin, Rebuild

\* What the terminal record of a process says.
LEMMA RecordIs ==
  ASSUME NEW p \in Procs, NEW i \in PlanIds, NEW outcome, NEW remaining, NEW observed,
         Types, exec[p].id \in PlanIds, runs'[i] # runs[i],
         \/ runs' = runs
         \/ runs' = [runs EXCEPT ![exec[p].id] = Terminal(p, outcome, remaining, observed)]
  PROVE  /\ i = exec[p].id /\ runs'[i].completed = exec[p].done /\ runs'[i].outcome = outcome
         /\ runs'[i].remaining = remaining /\ runs'[i].observed = observed
<1> DEFINE x == Terminal(p, outcome, remaining, observed)
<1>1. /\ x.completed = exec[p].done /\ x.outcome = outcome
      /\ x.remaining = remaining /\ x.observed = observed
  BY DEF Terminal
<1>2. runs' = [runs EXCEPT ![exec[p].id] = x] /\ DOMAIN runs = PlanIds
  BY DEF Types
<1> HIDE DEF x
<1>3. i = exec[p].id /\ runs'[i] = x
  BY <1>2
<1> QED  BY <1>1, <1>3

\* The terminal record tells the truth (_record_terminal).
THEOREM RecordsTrue == Spec => RecordedTruth
<1>1. Inv /\ [Next]_vars => RecordedStep
  <2> SUFFICES ASSUME Inv, [Next]_vars, NEW i \in PlanIds, runs'[i] # runs[i]
               PROVE  LET run  == runs'[i]
                          plan == plans[i].plan
                          gone == {Statements(plan)[k] : k \in 1..run.completed}
                      IN  /\ gone \subseteq DroppedNames(i)
                          /\ run.observed => run.remaining = RemainingRelations(plan)
                          /\ run.outcome = "succeeded" => RemainingRelations(plan) = {}
    BY DEF RecordedStep
  <2>t. Types /\ Processes /\ Stored
    BY DEF Inv
  <2>1. ASSUME NEW p \in Procs, FailBefore(p)
        PROVE  /\ runs'[i].completed = 0 /\ runs'[i].observed = FALSE
               /\ runs'[i].outcome = "failed"
    <3>1. exec[p].id \in PlanIds /\ exec[p].done = 0
      BY <2>t, <2>1 DEF FailBefore, Processes, ExecInv, PhasesBefore
    <3> DEFINE left == {e.name : e \in {f \in Frozen(p).relations : f.exists}}
               unseen == FALSE
    <3>2. \/ runs' = runs
          \/ runs' = [runs EXCEPT ![exec[p].id] = Terminal(p, "failed", left, unseen)]
      BY <2>1 DEF FailBefore
    <3> HIDE DEF left, unseen
    <3>3. /\ runs'[i].completed = 0 /\ runs'[i].observed = unseen
          /\ runs'[i].outcome = "failed"
      BY <2>t, <3>1, <3>2, RecordIs
    <3> QED  BY <3>3, Zenon DEF unseen
  <2>2. ASSUME NEW p \in Procs, NEW observed \in BOOLEAN, NEW event \in BOOLEAN,
               NEW persisted \in BOOLEAN, Conclude(p, observed, event, persisted)
        PROVE  /\ Gone(plans[i].plan, runs'[i].completed) \subseteq DroppedNames(i)
               /\ runs'[i].observed => runs'[i].remaining = RemainingRelations(plans[i].plan)
               /\ runs'[i].outcome = "succeeded" => RemainingRelations(plans[i].plan) = {}
    <3> DEFINE remaining == IF observed THEN RemainingRelations(Frozen(p)) ELSE {}
               outcome == IF Succeeded(p, remaining, observed) /\ event
                          THEN "succeeded" ELSE "failed"
    <3>1. exec[p].pc \in Acting
      BY <2>2 DEF Conclude, Acting
    <3>2. /\ exec[p].id \in PlanIds
          /\ Gone(plans[exec[p].id].plan, exec[p].done) \subseteq DroppedNames(exec[p].id)
      BY <2>t, <3>1 DEF Processes, ExecInv, Acting
    <3>3. \/ runs' = runs
          \/ runs' = [runs EXCEPT ![exec[p].id] = Terminal(p, outcome, remaining, observed)]
      BY <2>2 DEF Conclude
    <3>4. outcome = "succeeded" => observed /\ remaining = {}
      BY DEF Succeeded
    <3>5. observed => remaining = RemainingRelations(Frozen(p))
      OBVIOUS
    <3> HIDE DEF remaining, outcome
    <3>6. /\ i = exec[p].id /\ runs'[i].completed = exec[p].done /\ runs'[i].outcome = outcome
          /\ runs'[i].remaining = remaining /\ runs'[i].observed = observed
      BY <2>t, <3>2, <3>3, RecordIs
    <3> QED  BY <3>2, <3>4, <3>5, <3>6 DEF Frozen
  <2>3. CASE \E p \in Procs : FailBefore(p)
    <3>1. runs'[i].completed = 0 /\ ~runs'[i].observed /\ runs'[i].outcome # "succeeded"
      <4>1. PICK p \in Procs : FailBefore(p)
        BY <2>3
      <4> QED  BY <2>1, <4>1
    <3> QED  BY <3>1
  <2>4. CASE \E p \in Procs : \E observed, event, persisted \in BOOLEAN :
               Conclude(p, observed, event, persisted)
    BY <2>2, <2>4 DEF Gone
  <2> QED  BY <2>3, <2>4, OnlyEndsRecord
<1> QED  BY <1>1, DestructionInvariant, PTL DEF Spec, RecordedTruth
-----------------------------------------------------------------------------
\* Some process executes the plan.
Active(i) == \E p \in Procs : exec[p].id = i /\ exec[p].pc \in {"dropping", "stopped"}

\* The row of a plan as OnceOnly sees it.
Row(i) ==
  IF plans[i].status = "consumed" THEN "consumed"
  ELSE IF plans[i].late \/ plans[i].status = "expired" THEN "over"
  ELSE IF plans[i].status = "reviewed" THEN "reviewed" ELSE "open"

\* The refinement mapping, by row and activity.
StageShape ==
  \A i \in PlanIds :
    Stage(i) = IF Row(i) = "consumed" THEN (IF Active(i) THEN "running" ELSE "over") ELSE Row(i)

\* The stage of a plan, by its row and by who is active on it.
LEMMA Staged == Types => StageShape
<1> SUFFICES ASSUME Types, NEW i \in PlanIds
             PROVE  Stage(i) = IF Row(i) = "consumed"
                               THEN (IF Active(i) THEN "running" ELSE "over") ELSE Row(i)
  BY DEF StageShape
<1>1. /\ plans[i].status \in {"none", "pending", "reviewed", "consumed", "expired"}
      /\ plans[i].late \in BOOLEAN
  BY DEF Types, Entries
<1>2. CASE plans[i].status \in {"none", "pending"}
  BY <1>1, <1>2 DEF Stage, Row
<1>3. CASE plans[i].status = "reviewed"
  BY <1>1, <1>3 DEF Stage, Row
<1>4. CASE plans[i].status = "expired"
  BY <1>1, <1>4 DEF Stage, Row
<1>5. CASE plans[i].status = "consumed"
  BY <1>1, <1>5 DEF Stage, Row, Active
<1> QED  BY <1>1, <1>2, <1>3, <1>4, <1>5

\* A process moves without starting or ending an execution.
LEMMA ActiveSame ==
  ASSUME NEW p \in Procs, \A q \in Procs \ {p} : exec'[q] = exec[q],
         \/ exec[p].pc \notin Acting /\ exec'[p].pc \notin Acting
         \/ exec[p].pc \in Acting /\ exec'[p].pc \in Acting /\ exec'[p].id = exec[p].id
  PROVE  \A i : Active(i)' <=> Active(i)
  BY DEF Active, Acting

\* The only process that executes a plan ends.
LEMMA ActiveGone ==
  ASSUME Processes, NEW p \in Procs, exec[p].pc \in Acting, exec'[p].pc \notin Acting,
         \A q \in Procs \ {p} : exec'[q] = exec[q], NEW i, i = exec[p].id
  PROVE  /\ ~Active(i)' /\ Active(i)
         /\ \A j : j # i => (Active(j)' <=> Active(j))
<1>1. started[i] = {p} /\ \A q \in Procs : exec[q].id = i /\ exec[q].pc \in Acting => started[i] = {q}
  BY DEF Processes, ExecInv
<1>2. \A q \in Procs \ {p} : ~(exec[q].id = i /\ exec[q].pc \in Acting)
  BY <1>1
<1>3. \A j : j # i => (Active(j)' <=> Active(j))
  BY DEF Active, Acting
<1> QED  BY <1>2, <1>3 DEF Active, Acting

\* A step OnceOnly does not see.
Steady ==
  /\ UNCHANGED started
  /\ \A i \in PlanIds : Row(i)' = Row(i) /\ (Active(i)' <=> Active(i))

\* Steps that OnceOnly does not see.
LEMMA SteadyStutters ==
  ASSUME StageShape, StageShape', Steady
  PROVE  \A i \in PlanIds : Stage(i)' = Stage(i)
  BY DEF StageShape, Steady

\* Steps that leave the store alone.
LEMMA RowsSame ==
  ASSUME UNCHANGED plans
  PROVE  \A i \in PlanIds : Row(i)' = Row(i)
  BY DEF Row

\* How one row and what is active on it map to the steps of OnceOnly.
OthersSteady(i) ==
  \A j \in PlanIds \ {i} : Row(j)' = Row(j) /\ (Active(j)' <=> Active(j))

\* A review is a step of OnceOnly.
LEMMA ReviewMaps ==
  ASSUME StageShape, StageShape', NEW i \in PlanIds, OthersSteady(i), UNCHANGED started,
         Row(i) = "open", Row(i)' = "reviewed"
  PROVE  Once!Next
<1>1. Stage(i) = "open" /\ Stage(i)' = "reviewed" /\ \A j \in PlanIds \ {i} : Stage(j)' = Stage(j)
  BY DEF StageShape, OthersSteady
<1>2. Once!Review(i)
  BY <1>1 DEF Once!Review
<1> QED  BY <1>2 DEF Once!Next

\* So is the end of an execution, or of the time of a plan.
LEMMA EndMaps ==
  ASSUME StageShape, StageShape', NEW i \in PlanIds, OthersSteady(i), UNCHANGED started,
         \/ Row(i) \in {"open", "reviewed"} /\ Row(i)' = "over"
         \/ Row(i) = "consumed" /\ Row(i)' = "consumed" /\ Active(i) /\ ~Active(i)'
  PROVE  Once!Next
<1>1. Stage(i) # "over" /\ Stage(i)' = "over" /\ \A j \in PlanIds \ {i} : Stage(j)' = Stage(j)
  BY DEF StageShape, OthersSteady
<1>2. Once!End(i)
  BY <1>1 DEF Once!End
<1> QED  BY <1>2 DEF Once!Next

\* So is the guarded update of consume.
LEMMA StartMaps ==
  ASSUME Types, StageShape, StageShape', NEW i \in PlanIds, NEW p \in Procs, OthersSteady(i),
         started' = [started EXCEPT ![i] = {p}],
         Row(i) = "reviewed", Row(i)' = "consumed", Active(i)'
  PROVE  Once!Next
<1>1. /\ Stage(i) = "reviewed" /\ Stage(i)' = "running"
      /\ \A j \in PlanIds \ {i} : Stage(j)' = Stage(j)
  BY DEF StageShape, OthersSteady
<1>2. Once!Start(i, p)
  BY <1>1 DEF Once!Start
<1> QED  BY <1>2 DEF Once!Next

\* A row that may be reviewed is, once or again.
LEMMA ReviewedMaps ==
  ASSUME Types, StageShape, StageShape', NEW i \in PlanIds, NEW u, MarkReviewed(i, u),
         UNCHANGED started, \A j \in PlanIds : Active(j)' <=> Active(j)
  PROVE  Steady \/ Once!Next
<1>1. plans \in [PlanIds -> Entries] /\ plans' = [plans EXCEPT ![i].status = "reviewed"]
  BY DEF Types, MarkReviewed
<1>2. /\ plans'[i].status = "reviewed" /\ plans'[i].late = plans[i].late
      /\ \A j \in PlanIds \ {i} : plans'[j] = plans[j]
  BY ONLY <1>1, i \in PlanIds DEF Entries
<1>3. plans[i].status \in {"pending", "reviewed"} /\ ~plans[i].late
  BY DEF MarkReviewed, Current
<1>4. Row(i)' = "reviewed" /\ Row(i) \in {"open", "reviewed"}
  BY <1>2, <1>3 DEF Row
<1>5. OthersSteady(i)
  BY <1>2 DEF OthersSteady, Row
<1>6. CASE Row(i) = "open"
  BY <1>4, <1>5, <1>6, ReviewMaps
<1>7. CASE Row(i) = "reviewed"
  BY <1>4, <1>5, <1>7 DEF Steady, OthersSteady
<1> QED  BY <1>4, <1>6, <1>7

\* A plan that is saved is open as its unused identity was.
LEMMA SavedSteady ==
  ASSUME Types, Stored, NEW i \in PlanIds, NEW u, NEW plan, Free(i), Save(i, u, plan)
  PROVE  \A j \in PlanIds : Row(j)' = Row(j)
<1>1. plans \in [PlanIds -> Entries]
  BY DEF Types
<1>2. /\ plans'[i].status = "pending" /\ ~plans'[i].late
      /\ \A j \in PlanIds \ {i} : plans'[j] = plans[j]
  BY <1>1 DEF Save
<1>3. plans[i].status = "none" /\ ~plans[i].late
  BY DEF Free, Stored, PlanInv
<1> QED  BY <1>2, <1>3 DEF Row

\* The plan store, the routes, the shells and the executor implement OnceOnly:
\* one execution of a reviewed, unexpired plan by one process.
THEOREM ImplementsOnceOnly == Spec => OncePerPlan
<1>1. Init => Once!Init
  <2> SUFFICES ASSUME Init PROVE Once!Init
    OBVIOUS
  <2>1. ASSUME NEW i \in PlanIds PROVE Stage(i) = "open"
    BY DEF Init, NoPlan, Stage
  <2> QED  BY <2>1 DEF Init, Once!Init
<1>2. Inv /\ Inv' /\ StageShape /\ StageShape' /\ [Next]_vars
        => [Once!Next]_<<[i \in PlanIds |-> Stage(i)], started>>
  <2> SUFFICES ASSUME Inv, Inv', StageShape, StageShape', [Next]_vars
               PROVE  [Once!Next]_<<[i \in PlanIds |-> Stage(i)], started>>
    OBVIOUS
  <2>t. Types /\ Processes /\ Stored /\ exec \in [Procs -> Executions] /\ DOMAIN exec = Procs
    BY DEF Inv, Types
  <2>s. \A p \in Procs : \A x : exec' = [exec EXCEPT ![p] = x]
          => exec'[p] = x /\ \A q \in Procs \ {p} : exec'[q] = exec[q]
    BY <2>t
  <2>p. \A p \in Procs : \A pc : exec' = [exec EXCEPT ![p].pc = pc]
          => exec'[p].pc = pc /\ exec'[p].id = exec[p].id /\ \A q \in Procs \ {p} : exec'[q] = exec[q]
    BY <2>t DEF Executions
  <2> USE DEF world, store, history, vars
  <2>1. ASSUME UNCHANGED <<plans, exec, started>> PROVE Steady
    BY <2>1 DEF Steady, Row, Active
  <2>2. ASSUME NEW u \in Users, NEW i \in PlanIds, ReviewPlan(u, i) PROVE Steady \/ Once!Next
    <3>1. \A j \in PlanIds : Active(j)' <=> Active(j)
      BY <2>2 DEF ReviewPlan, Active
    <3> QED  BY <2>t, <2>2, <3>1, ReviewedMaps DEF ReviewPlan
  <2>3. ASSUME NEW i \in PlanIds, TouchExpired(i) PROVE Steady
    <3>1. /\ plans'[i].status = "expired" /\ plans[i].late
          /\ plans[i].status \in {"pending", "reviewed"}
          /\ \A j \in PlanIds \ {i} : plans'[j] = plans[j]
      BY <2>t, <2>3 DEF TouchExpired, Types, Entries
    <3> QED  BY <2>3, <3>1 DEF Steady, Row, Active, TouchExpired
  <2>4. ASSUME NEW i \in PlanIds, PassDeadline(i) PROVE Once!Next
    <3>1. /\ plans'[i].status = plans[i].status /\ plans'[i].late /\ ~plans[i].late
          /\ plans[i].status \in {"pending", "reviewed"}
          /\ \A j \in PlanIds \ {i} : plans'[j] = plans[j]
      BY <2>t, <2>4 DEF PassDeadline, Types, Entries
    <3>2. Row(i) \in {"open", "reviewed"} /\ Row(i)' = "over"
      BY <3>1 DEF Row
    <3>3. OthersSteady(i) /\ UNCHANGED started
      BY <2>4, <3>1 DEF OthersSteady, Row, Active, PassDeadline
    <3> QED  BY <3>2, <3>3, EndMaps
  <2>5. ASSUME NEW u \in Users, NEW i \in PlanIds,
               \/ \E req \in wanted : CreatePlan(u, req, i)
               \/ \E j \in PlanIds : CreateRecoveryPlan(u, runs[j], i)
        PROVE  Steady
    <3>1. (\E plan : Save(i, u, plan)) /\ Free(i) /\ UNCHANGED <<exec, started>>
      BY <2>5 DEF CreatePlan, CreateRecoveryPlan
    <3>2. \A j \in PlanIds : Row(j)' = Row(j)
      BY <2>t, <3>1, SavedSteady
    <3> QED  BY <3>1, <3>2 DEF Steady, Active
  <2>6. ASSUME NEW u \in Users, NEW i \in PlanIds, NEW c \in Shells, NEW req \in wanted,
               ShellPlan(c, u, req, i)
        PROVE  Steady
    <3>1. Save(i, u, BuildPlan(req, project, warehouse)) /\ Free(i) /\ UNCHANGED started
      BY <2>6 DEF ShellPlan
    <3>2. \A j \in PlanIds : Row(j)' = Row(j)
      BY <2>t, <3>1, SavedSteady
    <3>3. /\ c \in Procs /\ exec[c].pc = "idle" /\ exec'[c].pc = "prompt"
          /\ \A q \in Procs \ {c} : exec'[q] = exec[q]
      BY <2>t, <2>6 DEF ShellPlan, Procs, Idle
    <3>4. \A j : Active(j)' <=> Active(j)
      BY <3>3, ActiveSame DEF Acting
    <3> QED  BY <3>1, <3>2, <3>4 DEF Steady
  <2>7. ASSUME NEW c \in Shells, ShellConfirm(c) PROVE Steady \/ Once!Next
    <3>1. /\ c \in Procs /\ exec[c].pc = "prompt" /\ exec'[c].pc \in {"dispatched", "idle"}
          /\ \A q \in Procs \ {c} : exec'[q] = exec[q]
      BY <2>t, <2>7 DEF ShellConfirm, Procs, Idle, Executions
    <3>2. \A j : Active(j)' <=> Active(j)
      BY <3>1, ActiveSame DEF Acting
    <3>3. PICK i \in PlanIds : i = exec[c].id
      BY <2>t, <3>1 DEF Processes, ExecInv
    <3>4. MarkReviewed(i, plans[i].actor) /\ UNCHANGED started
      BY <2>7, <3>3 DEF ShellConfirm
    <3> QED  BY <2>t, <3>2, <3>4, ReviewedMaps
  <2>8. ASSUME NEW p \in Procs,
               \/ p \in Shells /\ ShellCancel(p)
               \/ \E u \in Users, i \in PlanIds : p \in Servers /\ ExecutePlan(p, u, i)
               \/ BeginFails(p) \/ FailBefore(p) \/ AcquireLock(p) \/ Replan(p) \/ ConsumeRead(p)
               \/ ReleaseByHand(p) \/ (Crash(p) /\ exec[p].pc \notin Acting)
        PROVE  Steady
    <3>1. /\ exec[p].pc \notin Acting /\ exec'[p].pc \notin Acting
          /\ \A q \in Procs \ {p} : exec'[q] = exec[q]
      <4>1. CASE \/ p \in Shells /\ ShellCancel(p)
                 \/ BeginFails(p) \/ FailBefore(p) \/ ReleaseByHand(p)
        <5>1. /\ exec[p].pc \in {"prompt", "dead"} \cup PhasesBefore
              /\ exec' = [exec EXCEPT ![p] = Idle]
          BY <4>1 DEF ShellCancel, BeginFails, FailBefore, ReleaseByHand, PhasesBefore
        <5>2. exec'[p] = Idle /\ \A q \in Procs \ {p} : exec'[q] = exec[q]
          BY <2>s, <5>1
        <5> QED  BY <5>1, <5>2 DEF Idle, Acting, PhasesBefore
      <4>2. CASE AcquireLock(p) \/ Replan(p) \/ ConsumeRead(p)
        BY <2>p, <4>2 DEF AcquireLock, Replan, ConsumeRead, Acting
      <4>3. CASE Crash(p) /\ exec[p].pc \notin Acting
        BY <2>s, <4>3 DEF Crash, Idle, Acting
      <4>4. CASE \E u \in Users, i \in PlanIds : p \in Servers /\ ExecutePlan(p, u, i)
        BY <2>s, <4>4 DEF ExecutePlan, Idle, Acting
      <4> QED  BY <2>8, <4>1, <4>2, <4>3, <4>4
    <3>2. UNCHANGED <<plans, started>>
      BY <2>8 DEF ShellCancel, BeginFails, FailBefore, ReleaseByHand, AcquireLock, Replan,
         ConsumeRead, Crash, ExecutePlan
    <3>3. \A j : Active(j)' <=> Active(j)
      BY <3>1, ActiveSame
    <3> QED  BY <3>2, <3>3, RowsSame DEF Steady
  <2>9. ASSUME NEW p \in Procs,
               DropStatement(p) \/ DropFails(p) \/ DropUnannounced(p) \/ Interrupt(p)
        PROVE  Steady
    <3>1. /\ exec[p].pc = "dropping" /\ UNCHANGED <<plans, started>>
      BY <2>9 DEF DropStatement, DropFails, DropUnannounced, Interrupt, MoreToDrop
    <3>2. /\ exec'[p].pc \in Acting /\ exec'[p].id = exec[p].id
          /\ \A q \in Procs \ {p} : exec'[q] = exec[q]
      <4>1. CASE DropStatement(p)
        <5>1. exec' = [exec EXCEPT ![p].done = @ + 1]
          BY <4>1 DEF DropStatement
        <5> QED  BY <2>t, <3>1, <5>1 DEF Executions, Acting
      <4>2. CASE DropFails(p)
        BY <2>p, <4>2 DEF DropFails, Acting
      <4>3. CASE DropUnannounced(p)
        <5>1. exec' = [exec EXCEPT ![p].pc = "stopped", ![p].done = @ + 1]
          BY <4>3 DEF DropUnannounced
        <5> QED  BY <2>t, <5>1 DEF Executions, Acting
      <4>4. CASE Interrupt(p)
        <5>1. \E k : exec' = [exec EXCEPT ![p].pc = "stopped", ![p].done = k]
          BY <2>t, <4>4 DEF Interrupt, Executions
        <5> QED  BY <2>t, <5>1 DEF Executions, Acting
      <4> QED  BY <2>9, <4>1, <4>2, <4>3, <4>4
    <3>3. \A j : Active(j)' <=> Active(j)
      BY <3>1, <3>2, ActiveSame DEF Acting
    <3> QED  BY <3>1, <3>3, RowsSame DEF Steady
  <2>10. ASSUME NEW p \in Procs,
                \/ \E observed, event, persisted \in BOOLEAN :
                     Conclude(p, observed, event, persisted)
                \/ Crash(p) /\ exec[p].pc \in Acting
         PROVE  Once!Next
    <3>1. exec[p].pc \in Acting /\ UNCHANGED <<plans, started>>
      BY <2>10 DEF Conclude, Crash, Acting
    <3>2. exec'[p].pc \notin Acting /\ \A q \in Procs \ {p} : exec'[q] = exec[q]
      BY <2>s, <2>10 DEF Conclude, Crash, Idle, Acting
    <3>3. PICK i \in PlanIds : i = exec[p].id /\ plans[i].status = "consumed"
      BY <2>t, <3>1 DEF Processes, ExecInv, Acting
    <3>4. Active(i) /\ ~Active(i)' /\ \A j : j # i => (Active(j)' <=> Active(j))
      BY <2>t, <3>1, <3>2, <3>3, ActiveGone
    <3>5. \A j \in PlanIds : Row(j)' = Row(j)
      BY <3>1, RowsSame
    <3>6. Row(i) = "consumed"
      BY <3>3 DEF Row
    <3>7. OthersSteady(i)
      BY <3>4, <3>5 DEF OthersSteady
    <3> QED  BY <3>1, <3>4, <3>5, <3>6, <3>7, EndMaps
  <2>11. ASSUME NEW p \in Procs, ConsumeWrite(p) PROVE Once!Next
    <3>1. exec[p].pc = "checked"
      BY <2>11 DEF ConsumeWrite
    <3>2. PICK i \in PlanIds : i = exec[p].id
      BY <2>t, <3>1 DEF Processes, ExecInv
    <3>3. /\ plans[i].status = "reviewed" /\ ~plans[i].late
          /\ plans' = [plans EXCEPT ![i].status = "consumed"]
          /\ started' = [started EXCEPT ![i] = @ \cup {p}]
          /\ exec' = [exec EXCEPT ![p].pc = "dropping"]
      BY <2>11, <3>2 DEF ConsumeWrite
    <3>4. plans'[i].status = "consumed" /\ \A j \in PlanIds \ {i} : plans'[j] = plans[j]
      BY <2>t, <3>3 DEF Types, Entries
    <3>5. started' = [started EXCEPT ![i] = {p}]
      <4>1. started[i] = {}
        BY <2>t, <3>3 DEF Stored, PlanInv
      <4> QED  BY <3>3, <4>1
    <3>6. /\ exec'[p].pc = "dropping" /\ exec'[p].id = i
          /\ \A q \in Procs \ {p} : exec'[q] = exec[q]
      BY <2>p, <3>2, <3>3
    <3>7. Active(i)' /\ \A j : j # i => (Active(j)' <=> Active(j))
      BY <3>1, <3>2, <3>6 DEF Active
    <3>8. Row(i) = "reviewed" /\ Row(i)' = "consumed" /\ OthersSteady(i)
      BY <3>3, <3>4, <3>7 DEF Row, OthersSteady
    <3> QED  BY <2>t, <3>5, <3>7, <3>8, StartMaps
  <2>12. ASSUME NEW p \in Procs, Execution(p) PROVE Steady \/ Once!Next
    BY <2>8, <2>9, <2>10, <2>11, <2>12 DEF Execution
  <2>13. ASSUME \/ \E p \in Projects : Edit(p)
                \/ \E r \in Heavy : Grow(r)
                \/ \E r \in Foreign : CreateForeignView(r)
                \/ \E u \in Users : RevokeAdmin(u)
                \/ Rebuild
                \/ UNCHANGED vars
         PROVE  Steady
    <3>1. UNCHANGED <<plans, exec, started>>
      BY <2>13 DEF Edit, Grow, CreateForeignView, RevokeAdmin, Rebuild
    <3> QED  BY <2>1, <3>1
  <2>14. Servers \subseteq Procs /\ Shells \subseteq Procs
    BY DEF Procs
  <2>15. Steady \/ Once!Next
    BY <2>2, <2>3, <2>4, <2>5, <2>6, <2>7, <2>8, <2>12, <2>13, <2>14 DEF Next
  <2>16. Steady => UNCHANGED <<[i \in PlanIds |-> Stage(i)], started>>
    BY SteadyStutters DEF Steady
  <2> QED  BY <2>15, <2>16
<1>3. Inv => StageShape
  BY Staged DEF Inv
<1> QED  BY <1>1, <1>2, <1>3, DestructionInvariant, PTL DEF Spec, OncePerPlan, Once!Spec
-----------------------------------------------------------------------------
\* The pipelines a relation belongs to.
Owners(q, r) == UNION {LogicalPipelines(q, k) : k \in {l \in Keys(q) : r \in q.resources[l]}}

\* The evidence on which a plan holds a relation.
Grounds(plan, r) ==
  {x[4] : x \in UNION {e.associations : e \in {f \in plan.relations : f.name = r}}}

\* Evidence from manifests.
Manifests == {"current_manifest", "historical_manifest"}

\* A plan takes nothing of other pipelines on the evidence of manifests.
SparedBy(plan, q) ==
  \A r \in NamesIn(plan) :
    Owners(q, r) \subseteq plan.affected \/ Grounds(plan, r) \cap Manifests = {}

\* The owners of a name are pipelines of the project.
LEMMA OwnersInProject ==
  ASSUME NEW q \in Projects
  PROVE  /\ \A names : PipelinesOf(q, names) \subseteq q.pipelines
         /\ \A name : LogicalPipelines(q, name) \subseteq q.pipelines
<1>1. q.pipelineOf \in [q.models -> q.pipelines]
  BY ProjectsAssumption
<1>2. \A names : PipelinesOf(q, names) \subseteq q.pipelines
  BY <1>1 DEF PipelinesOf
<1> QED  BY <1>1, <1>2 DEF LogicalPipelines

\* One round of the dependants adds pipelines of the project.
LEMMA ExpandBounded ==
  ASSUME NEW q \in Projects, NEW S
  PROVE  S \subseteq Expand(q, S) /\ Expand(q, S) \subseteq S \cup q.pipelines
  BY OwnersInProject DEF Expand, SharedSourcePipelines

\* A selection from which no dependant is missing is closed under one round:
\* the rounds only grow, so the last one holds the first.
LEMMA ClosedSelection ==
  ASSUME NEW q \in Projects, NEW supplied, RequiredPipelines(q, supplied) \subseteq supplied
  PROVE  Expand(q, supplied) \subseteq supplied
<1> DEFINE N == Cardinality(q.pipelines)
           X == SUBSET (supplied \cup q.pipelines)
           step == [x \in X \X Nat |-> Expand(q, x[1])]
           Fits(g) == g = [n \in 0..N |-> IF n = 0 THEN supplied
                                          ELSE LET smaller == g[n - 1] IN Expand(q, smaller)]
           grown == CHOOSE g : Fits(g)
<1>1. N \in Nat /\ (N = 0 => q.pipelines = {})
  BY ProjectsAssumption, FS_CardinalityType, FS_EmptySet
<1>2. supplied \in X /\ step \in [X \X Nat -> X]
  <2>1. ASSUME NEW x \in X PROVE Expand(q, x) \in X
    BY ExpandBounded
  <2>2. supplied \in X
    OBVIOUS
  <2> HIDE DEF X
  <2> QED  BY <2>1, <2>2
<1>n. \A n \in 0..N : n = 0 \/ (n \in 1..N /\ n # 0)
  BY <1>1
<1>3. \E g : Fits(g)
  <2>1. PICK g \in [0..N -> X] : g[0] = supplied /\ \A n \in 1..N : g[n] = step[<<g[n - 1], n>>]
    <3> HIDE DEF N, X, step
    <3>1. \E g \in [0..N -> X] : Iterates(g, N, supplied, step)
      BY <1>1, <1>2, Iterated
    <3> QED  BY <3>1 DEF Iterates
  <2>2. ASSUME NEW n \in 1..N PROVE g[n] = Expand(q, g[n - 1])
    <3>1. n - 1 \in 0..N /\ n \in Nat
      BY <1>1
    <3>2. <<g[n - 1], n>> \in X \X Nat
      <4> HIDE DEF X
      <4> QED  BY <3>1
    <3> HIDE DEF X
    <3> QED  BY <2>1, <3>2
  <2>3. Fits(g)
    <3> HIDE DEF N, X
    <3> QED  BY <2>1, <2>2, <1>n
  <2> QED  BY <2>3
<1>4. Fits(grown)
  <2> HIDE DEF Fits
  <2> QED  BY <1>3
<1>5. RequiredPipelines(q, supplied) = grown[N]
  BY DEF RequiredPipelines
<1>6. /\ grown[0] = supplied
      /\ \A n \in 0..N : n # 0 => grown[n] = Expand(q, grown[n - 1])
  <2>1. 0 \in 0..N
    BY <1>1
  <2> HIDE DEF grown, N
  <2> QED  BY <1>4, <2>1
<1> HIDE DEF grown
<1> DEFINE S == {n \in Nat : n + 1 <= N => Expand(q, supplied) \subseteq grown[n + 1]}
<1>7. 0 \in S
  <2>1. 1 <= N => 1 \in 0..N /\ 1 # 0 /\ 1 - 1 = 0
    BY <1>1
  <2>2. 1 <= N => grown[1] = Expand(q, supplied)
    <3> HIDE DEF N
    <3> QED  BY <1>6, <2>1
  <2>3. 0 + 1 = 1
    OBVIOUS
  <2> QED  BY <2>2, <2>3
<1>8. ASSUME NEW n \in S PROVE n + 1 \in S
  <2>1. CASE (n + 1) + 1 <= N
    <3>1. /\ n \in Nat /\ n + 1 <= N /\ (n + 1) + 1 \in 0..N /\ (n + 1) + 1 # 0
          /\ ((n + 1) + 1) - 1 = n + 1 /\ n + 1 \in Nat
      BY <1>1, <2>1
    <3>2. grown[(n + 1) + 1] = Expand(q, grown[n + 1])
      <4> HIDE DEF N
      <4> QED  BY <1>6, <3>1
    <3>3. Expand(q, supplied) \subseteq grown[n + 1]
      BY <3>1
    <3> QED  BY <3>1, <3>2, <3>3, ExpandBounded
  <2>2. CASE ~((n + 1) + 1 <= N)
    BY <2>2
  <2> QED  BY <2>1, <2>2
<1>9. S = Nat
  <2>1. S \in SUBSET Nat
    OBVIOUS
  <2> HIDE DEF S
  <2> QED  BY <1>7, <1>8, <2>1, Induction
<1>10. CASE N = 0
  BY <1>1, <1>10, ExpandBounded
<1>11. CASE N # 0
  <2>1. N - 1 \in Nat /\ (N - 1) + 1 = N /\ N <= N
    BY <1>1, <1>11
  <2>2. N - 1 \in S
    BY <1>9, <2>1
  <2>3. Expand(q, supplied) \subseteq grown[N]
    <3> HIDE DEF N
    <3> QED  BY <2>1, <2>2
  <2> QED  BY <1>5, <2>3
<1> QED  BY <1>10, <1>11

\* What an association is made of.
LEMMA AssociatedGrounds ==
  ASSUME NEW r, NEW name, NEW pipelines, NEW why, NEW x \in Associate(r, name, pipelines, why)
  PROVE  x[1] = r /\ x[2] = name /\ x[4] = why
  BY DEF Associate

\* Evidence from a manifest is about a relation of an affected name, or about
\* one the project no longer has.
LEMMA ManifestGrounds ==
  ASSUME NEW req, NEW q, NEW w \in Warehouses, NEW x \in Owned(req, q, w), x[4] \in Manifests
  PROVE  \/ \E k \in ModelsOf(q, Affected(req, q, w)) \cup AffectedSources(req, q, Affected(req, q, w)) :
              x[1] \in q.resources[k]
         \/ x[1] \notin CurrentRelations(q) \cup Metadata
<1> DEFINE affected == Affected(req, q, w)
           names == ModelsOf(q, affected) \cup AffectedSources(req, q, affected)
<1>1. \/ x \in ManifestOwned(q, names)
      \/ \E inactive : \E y \in EligibleHistorical(q, w, affected, inactive) :
           x \in Associate(y.relation, y.logical, {y.pipeline}, "historical_manifest")
      \/ \E some : x \in VirtualMappings(req, q, w, some)
      \/ \E owned, some : x \in VirtualBindings(req, q, w, owned, some)
  BY DEF Owned
<1>2. ASSUME NEW some, x \in VirtualMappings(req, q, w, some) PROVE FALSE
  <2>1. PICK m \in w.mappings :
            x \in Associate(m.physical, m.model, RecordedPipelines(req, q, w, m.model),
                            "virtual_mapping")
    BY <1>2 DEF VirtualMappings
  <2> QED  BY <2>1, AssociatedGrounds DEF Manifests
<1>3. ASSUME NEW owned, NEW some, x \in VirtualBindings(req, q, w, owned, some) PROVE FALSE
  <2>1. \/ \E r, name, pipelines : x \in Associate(r, name, pipelines, "stable_binding")
        \/ \E r, name, pipelines : x \in Associate(r, name, pipelines, "virtual_mapping")
    BY <1>3 DEF VirtualBindings
  <2> QED  BY <2>1, AssociatedGrounds DEF Manifests
<1>4. CASE x \in ManifestOwned(q, names)
  <2> HIDE DEF names
  <2>1. PICK y \in names \X (Relations \ Metadata) :
            /\ y[2] \in q.resources[y[1]]
            /\ x \in Associate(y[2], y[1], LogicalPipelines(q, y[1]), "current_manifest")
    BY <1>4 DEF ManifestOwned
  <2>2. x[1] = y[2] /\ y[1] \in names
    BY <2>1, AssociatedGrounds
  <2>3. \E k \in names : x[1] \in q.resources[k]
    BY <2>1, <2>2
  <2> QED  BY <2>3 DEF names
<1>5. ASSUME NEW inactive, NEW y \in EligibleHistorical(q, w, affected, inactive),
             x \in Associate(y.relation, y.logical, {y.pipeline}, "historical_manifest")
      PROVE  x[1] \notin CurrentRelations(q) \cup Metadata
  <2>1. PICK r \in (Relations \ Metadata) \ CurrentRelations(q) : y \in NewestOfRelation(w.built, r)
    BY DEF EligibleHistorical
  <2>2. y.relation = r
    <3>1. w.built \in Seq(Builds)
      BY DEF Warehouses
    <3> QED  BY <2>1, <3>1, NewestRelation
  <2>3. x[1] = y.relation
    BY <1>5, AssociatedGrounds
  <2> QED  BY <2>1, <2>2, <2>3
<1> QED  BY <1>1, <1>2, <1>3, <1>4, <1>5

\* A plan that is accepted takes, on the evidence of manifests, no relation that
\* also belongs to a pipeline outside it.  Rests on the compiler's refusal of
\* two names for one relation (validate_compiled_project_relation_names).
LEMMA PlannedSpares ==
  ASSUME NEW req \in Requests, NEW q \in Projects, NEW w \in Warehouses, PlanError(req, q, w) = "none"
  PROVE  SparedBy(BuildPlan(req, q, w), q)
<1> DEFINE plan == BuildPlan(req, q, w)
           affected == Affected(req, q, w)
           owned == Owned(req, q, w)
<1>1. plan.affected = affected /\ plan.relations = Evidence(w, owned)
  BY DEF BuildPlan
<1>2. /\ RelationsClaimedOnce(q)
      /\ req.op = DestroyPipelines => MissingDependents(req, q) = {}
  BY DEF PlanError, Compiles
<1>3. req.op \in {DestroyPipelines, ResetTarget}
  BY DEF Requests
<1>4. /\ q.models \cap q.sources = {} /\ q.declares \in [q.pipelines -> SUBSET q.sources]
  BY ProjectsAssumption
<1> SUFFICES ASSUME NEW r \in NamesIn(plan), Grounds(plan, r) \cap Manifests # {}
             PROVE  Owners(q, r) \subseteq affected
  BY <1>1 DEF SparedBy
<1>5. PICK x \in owned : x[1] = r /\ x[4] \in Manifests
  <2> HIDE DEF plan, owned
  <2>1. PICK e \in plan.relations : e.name = r /\ \E x \in e.associations : x[4] \in Manifests
    BY DEF Grounds
  <2>2. e.associations = {x \in owned : x[1] = e.name}
    BY <1>1, <2>1, EvidenceFacts
  <2> QED  BY <2>1, <2>2
<1>6. CASE r \notin CurrentRelations(q) \cup Metadata
  BY <1>6 DEF Owners, CurrentRelations
<1>7. ASSUME NEW k \in ModelsOf(q, affected) \cup AffectedSources(req, q, affected),
             r \in q.resources[k]
      PROVE  Owners(q, r) \subseteq affected
  <2>1. k \in Keys(q)
    BY DEF Keys, ModelsOf, AffectedSources, ManagedSources
  <2>2. \A l \in Keys(q) : r \in q.resources[l] => l = k
    BY <1>2, <1>7, <2>1 DEF RelationsClaimedOnce
  <2>3. Owners(q, r) \subseteq LogicalPipelines(q, k)
    BY <2>2 DEF Owners
  <2>4. CASE k \in ModelsOf(q, affected)
    <3>1. k \in q.models /\ q.pipelineOf[k] \in affected /\ k \notin q.sources
      BY <1>4, <2>4 DEF ModelsOf
    <3>2. LogicalPipelines(q, k) \subseteq {q.pipelineOf[k]}
      BY <1>4, <3>1 DEF LogicalPipelines
    <3> QED  BY <2>3, <3>1, <3>2
  <2>5. CASE k \in AffectedSources(req, q, affected) /\ req.op = ResetTarget
    <3>1. q.pipelines \subseteq affected
      BY <2>5 DEF Affected, Available
    <3> QED  BY <2>3, <3>1, OwnersInProject
  <2>6. CASE k \in AffectedSources(req, q, affected) /\ req.op = DestroyPipelines
    <3>1. affected = Supplied(req) /\ k \in ManagedSources(q) \cap SourcesOf(q, affected)
      BY <2>6 DEF Affected, AffectedSources, DestroyPipelines, ResetTarget
    <3>2. LogicalPipelines(q, k) \subseteq Expand(q, affected)
      BY <3>1 DEF Expand, SharedSourcePipelines
    <3>3. RequiredPipelines(q, affected) \subseteq affected
      BY <1>2, <2>6, <3>1 DEF MissingDependents
    <3>4. Expand(q, affected) \subseteq affected
      <4> HIDE DEF affected
      <4> QED  BY <3>3, ClosedSelection
    <3> QED  BY <2>3, <3>2, <3>4
  <2> QED  BY <1>3, <2>4, <2>5, <2>6
<1> QED  BY <1>5, <1>6, <1>7, ManifestGrounds

\* What the locked replan established stays true of what is executed and of what
\* was dropped.
Spared ==
  /\ \A i \in PlanIds : dropped[i] # {} => SparedBy(plans[i].plan, vetted[i].project)
  /\ \A p \in Procs : exec[p].pc \in Working =>
       SparedBy(plans[exec[p].id].plan, vetted[exec[p].id].project)

\* The store never changes a plan that it holds.
LEMMA RowsGrow ==
  ASSUME Types, NEW i \in PlanIds,
         \/ \E status \in {"reviewed", "expired", "consumed"} :
              plans' = [plans EXCEPT ![i].status = status] /\ plans[i].status # "consumed"
         \/ plans' = [plans EXCEPT ![i].late = TRUE]
         \/ Free(i) /\ \E x : plans' = [plans EXCEPT ![i] = x]
  PROVE  PlansGrow
<1>1. plans \in [PlanIds -> Entries]
  BY DEF Types
<1>2. CASE \E status \in {"reviewed", "expired", "consumed"} :
             plans' = [plans EXCEPT ![i].status = status] /\ plans[i].status # "consumed"
  BY <1>1, <1>2 DEF Entries, PlansGrow
<1>3. CASE plans' = [plans EXCEPT ![i].late = TRUE]
  BY <1>1, <1>3 DEF Entries, PlansGrow
<1>4. CASE Free(i) /\ \E x : plans' = [plans EXCEPT ![i] = x]
  BY <1>1, <1>4 DEF Free, PlansGrow
<1> QED  BY <1>2, <1>3, <1>4

\* Steps other than the locked replan.
LEMMA SparedKept ==
  ASSUME Inv, Spared, PlansGrow, UNCHANGED vetted,
         \A i \in PlanIds : dropped'[i] = dropped[i] \/ \E p \in Procs :
           exec[p].pc \in Working /\ exec[p].id = i,
         \A p \in Procs : exec'[p].pc \in Working =>
           exec[p].pc \in Working /\ exec'[p].id = exec[p].id
  PROVE  Spared'
<1>0. Processes /\ Stored
  BY DEF Inv
<1>1. ASSUME NEW p \in Procs, exec[p].pc \in Working
      PROVE  /\ exec[p].id \in PlanIds
             /\ plans'[exec[p].id].plan = plans[exec[p].id].plan
             /\ SparedBy(plans[exec[p].id].plan, vetted[exec[p].id].project)
  <2>1. exec[p].id \in PlanIds /\ plans[exec[p].id].status # "none"
    BY <1>0, <1>1 DEF Processes, ExecInv, Working
  <2> QED  BY <1>1, <2>1 DEF PlansGrow, Spared
<1>2. ASSUME NEW i \in PlanIds, dropped[i] # {}
      PROVE  plans'[i].plan = plans[i].plan /\ SparedBy(plans[i].plan, vetted[i].project)
  <2>1. plans[i].status # "none"
    BY <1>0, <1>2 DEF Stored, PlanInv
  <2> QED  BY <1>2, <2>1 DEF PlansGrow, Spared
<1>3. ASSUME NEW i \in PlanIds, dropped'[i] # {}
      PROVE  SparedBy(plans'[i].plan, vetted'[i].project)
  BY <1>1, <1>2, <1>3
<1>4. ASSUME NEW p \in Procs, exec'[p].pc \in Working
      PROVE  SparedBy(plans'[exec'[p].id].plan, vetted'[exec'[p].id].project)
  BY <1>1, <1>4
<1> QED  BY <1>3, <1>4 DEF Spared

\* No relation is dropped, on the evidence of manifests, that belongs to a
\* pipeline outside the plan in the project as the locked replan saw it
\* (_resolve_pipeline_selection, _eligible_historical_resources, the drift check).
THEOREM OthersSpared == Spec => []SparesOthers
<1>1. Init => Spared
  BY DEF Init, Spared, Idle, Working
<1>2. Inv /\ Spared /\ [Next]_vars => Spared'
  <2> SUFFICES ASSUME Inv, Spared, [Next]_vars PROVE Spared'
    OBVIOUS
  <2>t. /\ Types /\ Processes /\ Stored /\ exec \in [Procs -> Executions] /\ DOMAIN exec = Procs
        /\ Servers \subseteq Procs /\ Shells \subseteq Procs
    BY DEF Inv, Types, Procs
  <2>s. \A p \in Procs : \A x : exec' = [exec EXCEPT ![p] = x]
          => exec'[p] = x /\ \A q \in Procs \ {p} : exec'[q] = exec[q]
    BY <2>t
  <2>p. \A p \in Procs : \A pc : exec' = [exec EXCEPT ![p].pc = pc]
          => exec'[p].pc = pc /\ exec'[p].id = exec[p].id /\ \A q \in Procs \ {p} : exec'[q] = exec[q]
    BY <2>t DEF Executions
  <2>o. \A p \in Procs : exec[p].pc \in Working => exec[p].id \in PlanIds
    BY <2>t DEF Processes, ExecInv, Working
  <2> USE DEF world, store, history, vars
  <2>1. ASSUME UNCHANGED <<plans, exec, dropped, vetted>> PROVE Spared'
    BY <2>1 DEF Spared
  <2>2. ASSUME NEW i \in PlanIds,
               \/ \E u \in Users : ReviewPlan(u, i)
               \/ \E u \in Users : \E req \in wanted : CreatePlan(u, req, i)
               \/ \E u \in Users : \E j \in PlanIds : CreateRecoveryPlan(u, runs[j], i)
               \/ TouchExpired(i) \/ PassDeadline(i)
        PROVE  Spared'
    <3>1. UNCHANGED <<exec, dropped, vetted>>
      BY <2>2 DEF ReviewPlan, CreatePlan, CreateRecoveryPlan, TouchExpired, PassDeadline
    <3>2. \/ \E status \in {"reviewed", "expired", "consumed"} :
               plans' = [plans EXCEPT ![i].status = status] /\ plans[i].status # "consumed"
          \/ plans' = [plans EXCEPT ![i].late = TRUE]
          \/ Free(i) /\ \E x : plans' = [plans EXCEPT ![i] = x]
      BY <2>2 DEF ReviewPlan, CreatePlan, CreateRecoveryPlan, TouchExpired, PassDeadline,
         MarkReviewed, Current, Save
    <3>3. PlansGrow
      BY <2>t, <3>2, RowsGrow
    <3> QED  BY <3>1, <3>3, SparedKept
  <2>3. ASSUME NEW p \in Procs,
               \/ p \in Shells /\ ShellCancel(p)
               \/ \E u \in Users, i \in PlanIds : p \in Servers /\ ExecutePlan(p, u, i)
               \/ BeginFails(p) \/ FailBefore(p) \/ AcquireLock(p)
               \/ \E observed, event, persisted \in BOOLEAN : Conclude(p, observed, event, persisted)
               \/ ReleaseByHand(p) \/ Crash(p)
        PROVE  Spared'
    <3>1. exec'[p].pc \notin Working /\ \A q \in Procs \ {p} : exec'[q] = exec[q]
      <4>1. CASE \/ p \in Shells /\ ShellCancel(p)
                 \/ BeginFails(p) \/ FailBefore(p) \/ ReleaseByHand(p)
                 \/ \E observed, event, persisted \in BOOLEAN :
                      Conclude(p, observed, event, persisted)
        <5>1. exec' = [exec EXCEPT ![p] = Idle]
          BY <4>1 DEF ShellCancel, BeginFails, FailBefore, ReleaseByHand, Conclude
        <5>2. exec'[p] = Idle /\ \A q \in Procs \ {p} : exec'[q] = exec[q]
          BY <2>s, <5>1
        <5> QED  BY <5>2 DEF Idle, Working
      <4>2. CASE AcquireLock(p)
        BY <2>p, <4>2 DEF AcquireLock, Working
      <4>3. CASE Crash(p)
        <5>1. exec' = [exec EXCEPT ![p] = [Idle EXCEPT !.pc = "dead"]]
          BY <4>3 DEF Crash
        <5>2. /\ exec'[p] = [Idle EXCEPT !.pc = "dead"]
              /\ \A q \in Procs \ {p} : exec'[q] = exec[q]
          BY <2>s, <5>1
        <5> QED  BY <5>2 DEF Idle, Working
      <4>4. CASE \E u \in Users, i \in PlanIds : p \in Servers /\ ExecutePlan(p, u, i)
        BY <2>s, <4>4 DEF ExecutePlan, Idle, Working
      <4> QED  BY <2>3, <4>1, <4>2, <4>3, <4>4
    <3>2. UNCHANGED <<plans, dropped, vetted>>
      BY <2>3 DEF ShellCancel, BeginFails, FailBefore, ReleaseByHand, AcquireLock, Conclude,
         Crash, ExecutePlan
    <3> QED  BY <3>1, <3>2, SparedKept DEF PlansGrow
  <2>4. ASSUME NEW c \in Shells, NEW i \in PlanIds,
               \E u \in Users, req \in wanted : ShellPlan(c, u, req, i)
        PROVE  Spared'
    <3>1. exec'[c].pc \notin Working /\ \A q \in Procs \ {c} : exec'[q] = exec[q]
      BY <2>t, <2>s, <2>4 DEF ShellPlan, Idle, Working
    <3>2. Free(i) /\ (\E x : plans' = [plans EXCEPT ![i] = x]) /\ UNCHANGED <<dropped, vetted>>
      BY <2>4 DEF ShellPlan, Save
    <3>3. PlansGrow
      BY <2>t, <3>2, RowsGrow
    <3> QED  BY <2>t, <3>1, <3>2, <3>3, SparedKept
  <2>5. ASSUME NEW c \in Shells, ShellConfirm(c) PROVE Spared'
    <3>1. exec'[c].pc \notin Working /\ \A q \in Procs \ {c} : exec'[q] = exec[q]
      <4>1. c \in Procs /\ exec[c] \in Executions
        BY <2>t
      <4> QED  BY <2>t, <2>s, <2>5, <4>1 DEF ShellConfirm, Idle, Working, Executions
    <3>2. PICK i \in PlanIds : i = exec[c].id
      BY <2>t, <2>5 DEF ShellConfirm, Processes, ExecInv
    <3>3. /\ plans' = [plans EXCEPT ![i].status = "reviewed"] /\ plans[i].status # "consumed"
          /\ UNCHANGED <<dropped, vetted>>
      BY <2>5, <3>2 DEF ShellConfirm, MarkReviewed, Current
    <3>4. PlansGrow
      BY <2>t, <3>3, RowsGrow
    <3> QED  BY <2>t, <3>1, <3>3, <3>4, SparedKept
  <2>6. ASSUME NEW p \in Procs, ConsumeRead(p) PROVE Spared'
    <3>1. exec[p].pc \in Working /\ UNCHANGED <<plans, dropped, vetted>>
      BY <2>6 DEF ConsumeRead, Working
    <3>2. exec'[p].id = exec[p].id /\ \A q \in Procs \ {p} : exec'[q] = exec[q]
      BY <2>p, <2>6 DEF ConsumeRead
    <3> QED  BY <3>1, <3>2, SparedKept DEF PlansGrow
  <2>7. ASSUME NEW p \in Procs, ConsumeWrite(p) PROVE Spared'
    <3>1. exec[p].pc \in Working /\ UNCHANGED <<dropped, vetted>>
      BY <2>7 DEF ConsumeWrite, Working
    <3>2. exec'[p].id = exec[p].id /\ \A q \in Procs \ {p} : exec'[q] = exec[q]
      BY <2>p, <2>7 DEF ConsumeWrite
    <3>3. PlansGrow
      <4>1. PICK i \in PlanIds : i = exec[p].id
        BY <2>o, <3>1
      <4>2. plans' = [plans EXCEPT ![i].status = "consumed"] /\ plans[i].status # "consumed"
        BY <2>7, <4>1 DEF ConsumeWrite
      <4> QED  BY <2>t, <4>2, RowsGrow
    <3> QED  BY <3>1, <3>2, <3>3, SparedKept
  <2>8. ASSUME NEW p \in Procs,
               DropStatement(p) \/ DropFails(p) \/ DropUnannounced(p) \/ Interrupt(p)
        PROVE  Spared'
    <3>1. exec[p].pc \in Working /\ UNCHANGED <<plans, vetted>>
      BY <2>8 DEF DropStatement, DropFails, DropUnannounced, Interrupt, MoreToDrop, Working
    <3>2. exec'[p].id = exec[p].id /\ \A q \in Procs \ {p} : exec'[q] = exec[q]
      <4>1. CASE DropStatement(p)
        <5>1. exec' = [exec EXCEPT ![p].done = @ + 1]
          BY <4>1 DEF DropStatement
        <5> QED  BY <2>t, <5>1 DEF Executions
      <4>2. CASE DropFails(p)
        BY <2>p, <4>2 DEF DropFails
      <4>3. CASE DropUnannounced(p)
        <5>1. exec' = [exec EXCEPT ![p].pc = "stopped", ![p].done = @ + 1]
          BY <4>3 DEF DropUnannounced
        <5> QED  BY <2>t, <5>1 DEF Executions
      <4>4. CASE Interrupt(p)
        <5>1. \E k : exec' = [exec EXCEPT ![p].pc = "stopped", ![p].done = k]
          BY <2>t, <4>4 DEF Interrupt, Executions
        <5> QED  BY <2>t, <5>1 DEF Executions
      <4> QED  BY <2>8, <4>1, <4>2, <4>3, <4>4
    <3>3. \A i \in PlanIds : dropped'[i] = dropped[i] \/ exec[p].id = i
      <4>1. UNCHANGED dropped \/ \E x : dropped' = [dropped EXCEPT ![exec[p].id] = x]
        BY <2>8 DEF DropStatement, DropFails, DropUnannounced, Interrupt, DropNext
      <4> QED  BY <2>t, <4>1 DEF Types
    <3> QED  BY <3>1, <3>2, <3>3, SparedKept DEF PlansGrow
  <2>9. ASSUME NEW p \in Procs, Replan(p) PROVE Spared'
    <3>1. PICK i \in PlanIds : i = exec[p].id /\ plans[i].plan \in Plans
      BY <2>t, <2>9, FrozenTyped DEF Replan, Frozen
    <3>2. /\ UNCHANGED <<plans, dropped>>
          /\ vetted' = [vetted EXCEPT ![i] = [project |-> project, admins |-> admins]]
      BY <2>9, <3>1 DEF Replan
    <3>3. /\ vetted'[i].project = project
          /\ \A j \in PlanIds \ {i} : vetted'[j] = vetted[j]
      BY <2>t, <3>2 DEF Types
    <3>4. SparedBy(plans[i].plan, project)
      <4> DEFINE req == LockedRequest(p)
      <4>1. req \in Requests /\ project \in Projects /\ warehouse \in Warehouses
        <5>1. PlanShape(Frozen(p)) /\ exec[p].orphans \in BOOLEAN
          BY <2>t, <3>1, PlansShaped DEF Frozen, Executions
        <5> QED  BY <2>t, <5>1 DEF PlanShape, LockedRequest, Requests, Types
      <4>2. /\ PlanError(req, project, warehouse) = "none"
            /\ BuildPlan(req, project, warehouse) = plans[i].plan
        BY <2>9, <3>1 DEF Replan, Planned, Frozen
      <4> HIDE DEF req
      <4>3. SparedBy(BuildPlan(req, project, warehouse), project)
        BY <4>1, <4>2, PlannedSpares
      <4> QED  BY <4>2, <4>3
    <3>5. exec'[p].id = exec[p].id /\ \A q \in Procs \ {p} : exec'[q] = exec[q]
      BY <2>p, <2>9 DEF Replan
    <3>6. \A j \in PlanIds : dropped'[j] # {} => SparedBy(plans'[j].plan, vetted'[j].project)
      BY <3>2, <3>3, <3>4 DEF Spared
    <3>7. ASSUME NEW q \in Procs, exec'[q].pc \in Working
          PROVE  SparedBy(plans'[exec'[q].id].plan, vetted'[exec'[q].id].project)
      <4>1. CASE exec'[q].id = i
        BY <3>2, <3>3, <3>4, <4>1
      <4>2. CASE exec'[q].id # i
        <5>1. q # p /\ exec'[q] = exec[q]
          BY <3>1, <3>5, <4>2
        <5> QED  BY <2>o, <3>2, <3>3, <3>7, <4>2, <5>1 DEF Spared
      <4> QED  BY <4>1, <4>2
    <3> QED  BY <3>6, <3>7 DEF Spared
  <2>10. ASSUME NEW p \in Procs, Execution(p) PROVE Spared'
    BY <2>3, <2>6, <2>7, <2>8, <2>9, <2>10 DEF Execution
  <2>11. ASSUME \/ \E p \in Projects : Edit(p)
                \/ \E r \in Heavy : Grow(r)
                \/ \E r \in Foreign : CreateForeignView(r)
                \/ \E u \in Users : RevokeAdmin(u)
                \/ Rebuild
                \/ UNCHANGED vars
         PROVE  Spared'
    <3>1. UNCHANGED <<plans, exec, dropped, vetted>>
      BY <2>11 DEF Edit, Grow, CreateForeignView, RevokeAdmin, Rebuild
    <3> QED  BY <2>1, <3>1
  <2> QED  BY <2>t, <2>2, <2>3, <2>4, <2>5, <2>10, <2>11 DEF Next
<1>3. Inv /\ Spared => SparesOthers
  <2> SUFFICES ASSUME Inv, Spared, NEW i \in PlanIds, NEW r \in DroppedNames(i)
               PROVE  \/ OwnersAtReplan(i, r) \subseteq plans[i].plan.affected
                      \/ EvidenceFor(i, r) \cap {"current_manifest", "historical_manifest"} = {}
    BY DEF SparesOthers
  <2>1. PICK x \in dropped[i] : x[1] = r
    BY DEF DroppedNames
  <2>2. r \in NamesIn(plans[i].plan)
    BY <2>1 DEF Inv, Stored, PlanInv, NamesIn
  <2>3. SparedBy(plans[i].plan, vetted[i].project)
    BY <2>1 DEF Spared
  <2>4. /\ OwnersAtReplan(i, r) = Owners(vetted[i].project, r)
        /\ EvidenceFor(i, r) = Grounds(plans[i].plan, r)
    BY DEF OwnersAtReplan, Owners, EvidenceFor, Grounds
  <2> QED  BY <2>2, <2>3, <2>4 DEF SparedBy, Manifests
<1> QED  BY <1>1, <1>2, <1>3, DestructionInvariant, PTL DEF Spec

-----------------------------------------------------------------------------

\* A number for every key that is smaller before: there is no cycle.
Ranks(rank, keys, before) ==
  /\ rank \in [keys -> Nat]
  /\ \A b \in before : b[1] \in keys /\ (b[2] \in keys => rank[b[1]] < rank[b[2]])

\* While keys are left over and there is no cycle, one of them is ready.
LEMMA SomeReady ==
  ASSUME NEW keys \in SUBSET Nat, IsFiniteSet(keys), NEW before, NEW rank,
         Ranks(rank, keys, before), NEW s \in Seq(keys), Len(s) < Cardinality(keys)
  PROVE  Ready(keys, before, Range(s)) # {}
<1>0. Len(s) \in Nat /\ Cardinality(keys) \in Nat /\ Range(s) = {s[i] : i \in 1..Len(s)}
  BY RangeOfSeq, FS_CardinalityType
<1>1. keys \ Range(s) # {}
  <2> SUFFICES ASSUME keys \subseteq Range(s) PROVE FALSE
    OBVIOUS
  <2>1. s \in [1..Len(s) -> keys] /\ \A k \in keys : \E i \in 1..Len(s) : s[i] = k
    BY <1>0
  <2>2. s \in Surjection(1..Len(s), keys)
    BY <2>1 DEF Surjection
  <2>3. IsFiniteSet(1..Len(s)) /\ Cardinality(1..Len(s)) = Len(s)
    <3>1. 1 \in Int /\ Len(s) \in Int
      BY <1>0
    <3>2. /\ IsFiniteSet(1..Len(s))
          /\ Cardinality(1..Len(s)) = IF 1 > Len(s) THEN 0 ELSE Len(s) - 1 + 1
      BY <3>1, FS_Interval
    <3> QED  BY <1>0, <3>2
  <2>4. Cardinality(keys) <= Cardinality(1..Len(s))
    BY <2>2, <2>3, FS_Surjection
  <2> QED  BY <1>0, <2>3, <2>4
<1> DEFINE left == keys \ Range(s)
           ranks == {rank[k] : k \in left}
<1>2. ranks \in SUBSET Nat /\ ranks # {}
  BY <1>1 DEF Ranks
<1>3. Min(ranks) \in ranks /\ \A n \in ranks : Min(ranks) <= n
  <2> HIDE DEF ranks
  <2> QED  BY <1>2, LeastOf
<1>4. PICK k \in left : \A l \in left : rank[k] <= rank[l]
  BY <1>3
<1>5. ASSUME NEW b \in before, b[2] = k PROVE b[1] \in Range(s)
  <2>1. b[1] \in keys /\ rank[b[1]] < rank[k] /\ rank[b[1]] \in Nat /\ rank[k] \in Nat
    BY <1>5 DEF Ranks
  <2>2. ~(rank[k] <= rank[b[1]])
    BY <2>1
  <2>3. b[1] \notin left
    BY <1>4, <2>2
  <2> QED  BY <2>1, <2>3
<1> QED  BY <1>5 DEF Ready

\* Without a cycle the order has every key: reverse_topologically_order_relations
\* refuses nothing.
LEMMA KahnComplete ==
  ASSUME NEW keys \in SUBSET Nat, IsFiniteSet(keys), NEW before, NEW rank,
         Ranks(rank, keys, before)
  PROVE  Len(KahnOrder(keys, before)) = Cardinality(keys)
<1> DEFINE N == Cardinality(keys)
<1>1. N \in Nat
  BY FS_CardinalityType
<1>2. PICK order : /\ order[0] = <<>> /\ KahnOrder(keys, before) = order[N]
                   /\ \A n \in Nat : n + 1 <= N =>
                        order[n + 1] = AppendReady(keys, before, order[n])
  BY KahnRounds
<1> DEFINE S == {n \in Nat : n <= N => Ordered(order[n], keys, before) /\ Len(order[n]) = n}
<1>3. 0 \in S
  <2>1. Ordered(<<>>, keys, before) /\ Len(<<>>) = 0
    BY DEF Ordered
  <2> QED  BY <1>2, <2>1
<1>4. ASSUME NEW n \in S PROVE n + 1 \in S
  <2>1. CASE n + 1 <= N
    <3>1. n \in Nat /\ n <= N /\ Ordered(order[n], keys, before) /\ Len(order[n]) = n /\ n < N
      BY <1>1, <2>1
    <3>2. order[n + 1] = AppendReady(keys, before, order[n])
      BY <1>2, <2>1, <3>1
    <3>3. Ordered(order[n + 1], keys, before)
      BY <3>1, <3>2, AppendedInOrder
    <3>4. order[n] \in Seq(keys)
      BY <3>1 DEF Ordered
    <3>5. Ready(keys, before, Range(order[n])) # {}
      <4> HIDE DEF S
      <4> QED  BY <3>1, <3>4, SomeReady
    <3>6. order[n + 1] = Append(order[n], Min(Ready(keys, before, Range(order[n]))))
      BY <3>2, <3>5 DEF AppendReady
    <3>7. Len(order[n + 1]) = n + 1
      BY <3>1, <3>4, <3>6
    <3> QED  BY <3>1, <3>3, <3>7
  <2>2. CASE ~(n + 1 <= N)
    BY <2>2
  <2> QED  BY <2>1, <2>2
<1>5. S = Nat
  <2>1. S \in SUBSET Nat
    OBVIOUS
  <2> HIDE DEF S
  <2> QED  BY <1>3, <1>4, <2>1, Induction
<1>6. N \in S /\ N <= N
  BY <1>1, <1>5
<1> QED  BY <1>2, <1>6

\* Two warehouses with the same recorded deployments.
SameInventory(v, w) == v.mappings = w.mappings /\ v.bindings = w.bindings

\* A request that consults no history is about the project alone.
LEMMA SelectionNow ==
  ASSUME NEW req, NEW q, NEW w, ~HistoryRequested(req, q)
  PROVE  /\ Affected(req, q, w) = (IF req.op = ResetTarget THEN q.pipelines ELSE Supplied(req))
         /\ Affected(req, q, w) \subseteq q.pipelines
         /\ SelectionError(req, q, w) <=>
              IF req.op = ResetTarget THEN Supplied(req) # {} ELSE req.pipelines = {}
<1>1. Available(req, q, w) = q.pipelines /\ Supplied(req) \subseteq q.pipelines
  BY DEF Available, HistoryRequested
<1> QED  BY <1>1 DEF Affected, SelectionError

\* Without history the owners of a name are those of the project.
LEMMA OwnersNow ==
  ASSUME NEW req, NEW q, NEW v, NEW w, NEW name, ~HistoryRequested(req, q)
  PROVE  RecordedPipelines(req, q, v, name) = RecordedPipelines(req, q, w, name)
  BY DEF RecordedPipelines

\* The recorded model of a name is in the inventory.
LEMMA PublishedSame ==
  ASSUME NEW v, NEW w, NEW name, SameInventory(v, w)
  PROVE  PublishedName(v, name) = PublishedName(w, name)
  BY DEF PublishedName, SameInventory

\* Neither what the catalog holds nor which manifests were published since
\* matters for what a request without history owns: its plan can be made again.
LEMMA OwnedSame ==
  ASSUME NEW req, NEW q, NEW v, NEW w, ~HistoryRequested(req, q), SameInventory(v, w)
  PROVE  Owned(req, q, v) = Owned(req, q, w)
<1> DEFINE affected == Affected(req, q, v)
           sources == AffectedSources(req, q, affected)
           names == AffectedModels(req, q, v, affected, FALSE) \cup sources \cup {}
           manifest == ManifestOwned(q, ModelsOf(q, affected) \cup sources) \cup {}
           virtual == manifest \cup VirtualMappings(req, q, v, names)
<1>1. /\ Affected(req, q, w) = affected /\ affected \subseteq q.pipelines /\ ~req.orphans
  BY SelectionNow DEF HistoryRequested
<1>2. AffectedModels(req, q, w, affected, FALSE) = AffectedModels(req, q, v, affected, FALSE)
  BY DEF AffectedModels, SameInventory
<1>3. VirtualMappings(req, q, w, names) = VirtualMappings(req, q, v, names)
  BY OwnersNow, Zenon DEF VirtualMappings, SameInventory
<1>4. VirtualBindings(req, q, w, virtual, names) = VirtualBindings(req, q, v, virtual, names)
  <2> HIDE DEF affected, sources, names, manifest, virtual
  <2> DEFINE Known(b) == {x[2] : x \in {y \in virtual : y[1] = b.logical}}
             Of(x, b) == IF Known(b) = {} THEN PublishedName(x, b.logical) ELSE Min(Known(b))
             Bound(x) == {b \in x.bindings : b.logical \notin Metadata
                                            /\ (req.op = ResetTarget \/ Of(x, b) \in names)}
             Physical(x, b) ==
               IF \E m \in x.mappings : b.physical \in {m.key, m.physical}
               THEN PublishedName(x, b.physical) ELSE Of(x, b)
             Item(x, b) ==
               Associate(b.logical, Of(x, b), RecordedPipelines(req, q, x, Of(x, b)), "stable_binding")
               \cup (IF b.physical \in Metadata THEN {}
                     ELSE Associate(b.physical, Physical(x, b),
                              RecordedPipelines(req, q, x, Of(x, b)), "virtual_mapping"))
             All(x) == UNION {Item(x, b) : b \in Bound(x)}
  <2>1. /\ VirtualBindings(req, q, v, virtual, names) = All(v)
        /\ VirtualBindings(req, q, w, virtual, names) = All(w)
    BY Zenon DEF VirtualBindings
  <2> HIDE DEF Known
  <2>2. \A b : Of(v, b) = Of(w, b)
    BY PublishedSame
  <2>3. Bound(v) = Bound(w)
    BY <2>2, Zenon DEF SameInventory
  <2>4. \A b : Physical(v, b) = Physical(w, b)
    BY <2>2, PublishedSame DEF SameInventory
  <2> HIDE DEF Of, Physical
  <2>5. \A b : Item(v, b) = Item(w, b)
    BY <2>2, <2>4, OwnersNow
  <2> HIDE DEF Item, Bound
  <2>6. All(v) = All(w)
    BY <2>3, <2>5, Zenon
  <2> QED  BY <2>1, <2>6
<1> HIDE DEF affected, sources
<1>5. Owned(req, q, v) = virtual \cup VirtualBindings(req, q, v, virtual, names)
  BY <1>1 DEF Owned, affected, sources
<1>6. Owned(req, q, w) = virtual \cup VirtualBindings(req, q, w, virtual, names)
  BY <1>1, <1>2, <1>3 DEF Owned, affected, sources
<1> QED  BY <1>4, <1>5, <1>6

\* Some numbering puts every relation before what its definition uses: views and
\* tables are created over what is there, so no definition uses itself in the end.
UsesAcyclic ==
  \E rank \in [Relations -> Nat] : \A r \in Relations : \A u \in Uses[r] : rank[r] < rank[u]

\* The request a plan was made for, as the recovery of its run repeats it.
AskedOf(plan) ==
  [op |-> plan.op, pipelines |-> plan.requested, included |-> plan.included, orphans |-> FALSE]

\* The plan consulted no history and could be made again in this warehouse.
Repeatable(plan, w) ==
  LET req == AskedOf(plan)
      q   == plan.project
  IN  /\ ~HistoryRequested(req, q) /\ Compiles(q) /\ ~SelectionError(req, q, w)
      /\ req.op = DestroyPipelines => MissingDependents(req, q) = {}
      /\ Affected(req, q, w) # {}
      /\ NamesIn(plan) = OwnedNames(Owned(req, q, w))

\* A plan that is accepted without history can be made again at once.
LEMMA AcceptedRepeatable ==
  ASSUME NEW req \in Requests, NEW q \in Projects, NEW w \in Warehouses,
         PlanError(req, q, w) = "none", ~HistoryRequested(req, q)
  PROVE  Repeatable(BuildPlan(req, q, w), w)
<1> DEFINE plan == BuildPlan(req, q, w)
<1>1. /\ Compiles(q) /\ ~SelectionError(req, q, w) /\ Affected(req, q, w) # {}
      /\ req.op = DestroyPipelines => MissingDependents(req, q) = {}
  BY DEF PlanError
<1>2. /\ plan.op = req.op /\ plan.requested = req.pipelines /\ plan.included = req.included
      /\ plan.project = q /\ plan.relations = Evidence(w, Owned(req, q, w))
  BY DEF BuildPlan
<1> HIDE DEF plan
<1>3. req = [op |-> req.op, pipelines |-> req.pipelines, included |-> req.included,
             orphans |-> req.orphans] /\ req.orphans = FALSE
  BY DEF Requests, HistoryRequested
<1>4. AskedOf(plan) = req
  BY <1>2, <1>3 DEF AskedOf
<1>5. NamesIn(plan) = OwnedNames(Owned(req, q, w))
  BY <1>2, EvidenceFacts DEF NamesIn
<1>6. Repeatable(plan, w)
  BY <1>1, <1>2, <1>4, <1>5 DEF Repeatable
<1> QED  BY <1>6 DEF plan

\* ... and later, whatever was dropped, built or published since.
LEMMA RepeatableLater ==
  ASSUME NEW plan, NEW v, NEW w, Repeatable(plan, v), SameInventory(v, w)
  PROVE  Repeatable(plan, w)
<1> DEFINE req == AskedOf(plan)
           q == plan.project
<1>1. /\ ~HistoryRequested(req, q) /\ Compiles(q) /\ ~SelectionError(req, q, v)
      /\ req.op = DestroyPipelines => MissingDependents(req, q) = {}
      /\ Affected(req, q, v) # {}
      /\ NamesIn(plan) = OwnedNames(Owned(req, q, v))
  BY DEF Repeatable
<1> HIDE DEF req, q
<1>2. Affected(req, q, w) = Affected(req, q, v) /\ ~SelectionError(req, q, w)
  BY <1>1, SelectionNow
<1>3. Owned(req, q, w) = Owned(req, q, v)
  BY <1>1, OwnedSame
<1> QED  BY <1>1, <1>2, <1>3 DEF Repeatable, req, q

\* Without a cycle of definitions the drops of any plan can be ordered.
LEMMA OrderComplete ==
  ASSUME UsesAcyclic, NEW req, NEW q, NEW w \in Warehouses
  PROVE  Len(ReverseOrder(Evidence(w, Owned(req, q, w)))) = Cardinality(OwnedNames(Owned(req, q, w)))
<1> DEFINE owned == Owned(req, q, w)
           relations == Evidence(w, owned)
           keys == OwnedNames(owned)
           before == UNION {{<<e.name, u>> : u \in e.uses} : e \in relations}
<1>1. keys \subseteq Relations
  BY OwnedRelations
<1>2. {e.name : e \in relations} = keys
  BY EvidenceFacts
<1>3. \A e \in relations : e.uses \subseteq Uses[e.name]
  <2> DEFINE Of(r) == [name   |-> r,
                       exists |-> Exists(w, r),
                       generation   |-> w.catalog[r],
                       associations |-> {x \in owned : x[1] = r},
                       uses   |-> IF Exists(w, r) THEN Uses[r] \cap keys ELSE {}]
  <2> HIDE DEF owned
  <2>1. relations = {Of(r) : r \in keys}
    BY DEF Evidence
  <2>2. \A r : Of(r).name = r /\ Of(r).uses \subseteq Uses[r]
    OBVIOUS
  <2> HIDE DEF Of, relations
  <2> QED  BY <2>1, <2>2
<1> HIDE DEF owned, relations, keys
<1>4. PICK rank \in [Relations -> Nat] :
        \A r \in Relations : \A u \in Uses[r] : rank[r] < rank[u]
  BY DEF UsesAcyclic
<1> DEFINE low == [k \in keys |-> rank[k]]
<1>5. low \in [keys -> Nat]
  BY <1>1, <1>4
<1>6. ASSUME NEW b \in before
      PROVE  b[1] \in keys /\ (b[2] \in keys => low[b[1]] < low[b[2]])
  <2>1. PICK e \in relations : \E u \in e.uses : b = <<e.name, u>>
    OBVIOUS
  <2>2. PICK u \in e.uses : b = <<e.name, u>>
    BY <2>1
  <2>3. e.name \in keys /\ e.name \in Relations /\ u \in Uses[e.name]
    BY <1>1, <1>2, <1>3
  <2>4. rank[e.name] < rank[u]
    BY <1>4, <2>3
  <2> QED  BY <2>2, <2>3, <2>4
<1>7. keys \in SUBSET Nat /\ IsFiniteSet(keys)
  BY <1>1, RelationsAssumption, FS_Subset
<1>8. Ranks(low, keys, before)
  <2> HIDE DEF low, before
  <2> QED  BY <1>5, <1>6 DEF Ranks
<1>9. Len(KahnOrder(keys, before)) = Cardinality(keys)
  <2> HIDE DEF low, before
  <2> QED  BY <1>7, <1>8, KahnComplete
<1>10. ReverseOrder(relations) = KahnOrder(keys, before)
  BY <1>2 DEF ReverseOrder
<1> QED  BY <1>9, <1>10 DEF owned, relations, keys

\* A plan that can be made again is refused only for reasons outside.
LEMMA RepeatedAccepted ==
  ASSUME UsesAcyclic, NEW plan, NEW w \in Warehouses, Repeatable(plan, w)
  PROVE  PlanError(AskedOf(plan), plan.project, w) \in {"size", "external", "none"}
<1> DEFINE req == AskedOf(plan)
           q == plan.project
           order == Len(ReverseOrder(Evidence(w, Owned(req, q, w))))
           count == Cardinality(OwnedNames(Owned(req, q, w)))
<1>1. /\ Compiles(q) /\ ~SelectionError(req, q, w)
      /\ req.op = DestroyPipelines => MissingDependents(req, q) = {}
      /\ Affected(req, q, w) # {}
  BY DEF Repeatable
<1> HIDE DEF req, q
<1>2. order = count
  BY OrderComplete
<1>3. count \in Nat
  <2>1. IsFiniteSet(OwnedNames(Owned(req, q, w)))
    BY OwnedRelations, RelationsAssumption, FS_Subset
  <2> QED  BY <2>1, FS_CardinalityType
<1>4. ~(order < count)
  <2> HIDE DEF order, count
  <2> QED  BY <1>2, <1>3
<1>5. PlanError(req, q, w) \in {"size", "external", "none"}
  BY <1>1, <1>4 DEF PlanError
<1> QED  BY <1>5 DEF req, q

\* A row that gets a plan gets one that the planner just accepted.
RowsSaved ==
  \A i \in PlanIds : plans[i].status = "none" /\ plans'[i].status # "none" =>
    \E req \in Requests : /\ PlanError(req, project, warehouse) = "none"
                          /\ plans'[i].plan = BuildPlan(req, project, warehouse)

\* Saving an accepted plan under a fresh identity.
LEMMA SavedAccepted ==
  ASSUME Types, NEW i \in PlanIds, NEW u, NEW req \in Requests, Planned(req),
         Save(i, u, BuildPlan(req, project, warehouse)), Free(i)
  PROVE  PlansGrow /\ RowsSaved
<1> DEFINE plan == BuildPlan(req, project, warehouse)
<1>1. plans \in [PlanIds -> Entries] /\ plans[i].status = "none"
  BY DEF Types, Free
<1>2. plans' = [plans EXCEPT ![i] = [status |-> "pending", actor |-> u,
                                     late |-> FALSE, plan |-> plan]]
  BY DEF Save
<1>3. PlanError(req, project, warehouse) = "none"
  BY DEF Planned
<1> HIDE DEF plan
<1>4. plans'[i].plan = plan /\ \A j \in PlanIds \ {i} : plans'[j] = plans[j]
  BY <1>1, <1>2
<1>5. PlansGrow
  BY <1>1, <1>4 DEF PlansGrow
<1>6. RowsSaved
  BY <1>3, <1>4 DEF RowsSaved, plan
<1> QED  BY <1>5, <1>6

\* Only the status or the deadline of a row that is there changes.
LEMMA MovedOn ==
  ASSUME Types, NEW i \in PlanIds, plans[i].status # "none",
         \/ \E status \in {"reviewed", "expired", "consumed"} :
              plans' = [plans EXCEPT ![i].status = status] /\ plans[i].status # "consumed"
         \/ plans' = [plans EXCEPT ![i].late = TRUE]
  PROVE  PlansGrow /\ RowsSaved
<1>1. PlansGrow
  BY RowsGrow
<1>2. \A j \in PlanIds \ {i} : plans'[j] = plans[j]
  BY DEF Types
<1> QED  BY <1>1, <1>2 DEF RowsSaved

\* What the steps do to the store and to the deployment inventory.
LEMMA StoreStep ==
  ASSUME Inv, [Next]_vars
  PROVE  PlansGrow /\ RowsSaved /\ SameInventory(warehouse, warehouse')
<1>t. /\ Types /\ Processes /\ Stored /\ Servers \subseteq Procs /\ Shells \subseteq Procs
  BY DEF Inv, Procs
<1>w. warehouse \in Warehouses /\ wanted \subseteq Requests
  BY <1>t DEF Types
<1> USE DEF world, store, history, vars
<1>s. ASSUME UNCHANGED plans PROVE PlansGrow /\ RowsSaved
  BY <1>s DEF PlansGrow, RowsSaved
<1>1. PlansGrow /\ RowsSaved
  <2>1. ASSUME NEW u \in Users, NEW i \in PlanIds, NEW req \in wanted,
               CreatePlan(u, req, i) \/ \E c \in Shells : ShellPlan(c, u, req, i)
        PROVE  PlansGrow /\ RowsSaved
    <3>1. req \in Requests
      BY <1>w
    <3> QED  BY <1>t, <2>1, <3>1, SavedAccepted DEF CreatePlan, ShellPlan
  <2>2. ASSUME NEW u \in Users, NEW i \in PlanIds, NEW j \in PlanIds,
               CreateRecoveryPlan(u, runs[j], i)
        PROVE  PlansGrow /\ RowsSaved
    <3>1. runs[j] \in Terminals
      BY <1>t, <2>2 DEF CreateRecoveryPlan, Types
    <3>2. RecoveryRequest(runs[j]) \in Requests
      BY <3>1 DEF RecoveryRequest, Requests, Terminals
    <3> QED  BY <1>t, <2>2, <3>2, SavedAccepted DEF CreateRecoveryPlan
  <2>3. ASSUME NEW i \in PlanIds,
               \/ \E u \in Users : ReviewPlan(u, i)
               \/ TouchExpired(i) \/ PassDeadline(i)
        PROVE  PlansGrow /\ RowsSaved
    <3>1. plans[i].status \in {"pending", "reviewed"}
      BY <2>3 DEF ReviewPlan, Current, TouchExpired, PassDeadline
    <3>2. \/ \E status \in {"reviewed", "expired", "consumed"} :
               plans' = [plans EXCEPT ![i].status = status] /\ plans[i].status # "consumed"
          \/ plans' = [plans EXCEPT ![i].late = TRUE]
      BY <2>3, <3>1 DEF ReviewPlan, TouchExpired, PassDeadline, MarkReviewed
    <3> QED  BY <1>t, <3>1, <3>2, MovedOn
  <2>4. ASSUME NEW c \in Shells, ShellConfirm(c) PROVE PlansGrow /\ RowsSaved
    <3>1. PICK i \in PlanIds : i = exec[c].id /\ plans[i].status # "none"
      BY <1>t, <2>4 DEF ShellConfirm, Processes, ExecInv
    <3>2. plans' = [plans EXCEPT ![i].status = "reviewed"] /\ plans[i].status # "consumed"
      BY <2>4, <3>1 DEF ShellConfirm, MarkReviewed, Current
    <3> QED  BY <1>t, <3>1, <3>2, MovedOn
  <2>5. ASSUME NEW p \in Procs, ConsumeWrite(p) PROVE PlansGrow /\ RowsSaved
    <3>1. PICK i \in PlanIds : i = exec[p].id /\ plans[i].status # "none"
      BY <1>t, <2>5 DEF ConsumeWrite, Processes, ExecInv
    <3>2. plans' = [plans EXCEPT ![i].status = "consumed"] /\ plans[i].status # "consumed"
      BY <2>5, <3>1 DEF ConsumeWrite
    <3> QED  BY <1>t, <3>1, <3>2, MovedOn
  <2>6. ASSUME NEW p \in Procs, Execution(p), ~ConsumeWrite(p) PROVE PlansGrow /\ RowsSaved
    BY <1>s, <2>6 DEF Execution, BeginFails, FailBefore, AcquireLock, Replan, ConsumeRead,
       DropStatement, DropFails, DropUnannounced, Interrupt, Conclude, Crash, ReleaseByHand
  <2>7. ASSUME \/ \E u \in Users, i \in PlanIds, s \in Servers : ExecutePlan(s, u, i)
               \/ \E c \in Shells : ShellCancel(c)
               \/ \E p \in Projects : Edit(p)
               \/ \E r \in Heavy : Grow(r)
               \/ \E r \in Foreign : CreateForeignView(r)
               \/ \E u \in Users : RevokeAdmin(u)
               \/ Rebuild
               \/ UNCHANGED vars
        PROVE  PlansGrow /\ RowsSaved
    BY <1>s, <2>7 DEF ExecutePlan, ShellCancel, Edit, Grow, CreateForeignView, RevokeAdmin, Rebuild
  <2> QED  BY <2>1, <2>2, <2>3, <2>4, <2>5, <2>6, <2>7 DEF Next
<1>2. SameInventory(warehouse, warehouse')
  <2>1. \/ UNCHANGED warehouse
        \/ \E x : warehouse' = [warehouse EXCEPT !.large = x]
        \/ \E x : warehouse' = [warehouse EXCEPT !.catalog = x]
        \/ \E r, x : warehouse' = [warehouse EXCEPT !.catalog[r] = x]
        \/ \E x, y : warehouse' = [warehouse EXCEPT !.catalog = x, !.built = y]
    <3>1. ASSUME NEW p \in Procs, Execution(p)
          PROVE  \/ UNCHANGED warehouse
                 \/ \E r, x : warehouse' = [warehouse EXCEPT !.catalog[r] = x]
      <4>1. UNCHANGED warehouse \/ DropNext(p)
        BY <3>1 DEF Execution, BeginFails, FailBefore, AcquireLock, Replan, ConsumeRead,
           ConsumeWrite, DropStatement, DropFails, DropUnannounced, Interrupt, Conclude, Crash,
           ReleaseByHand
      <4> QED  BY <4>1 DEF DropNext
    <3>2. ASSUME \/ \E u \in Users, i \in PlanIds :
                      \/ \E req \in wanted : CreatePlan(u, req, i)
                      \/ \E j \in PlanIds : CreateRecoveryPlan(u, runs[j], i)
                      \/ ReviewPlan(u, i)
                      \/ \E s \in Servers : ExecutePlan(s, u, i)
                      \/ \E c \in Shells, req \in wanted : ShellPlan(c, u, req, i)
                 \/ \E c \in Shells : ShellCancel(c) \/ ShellConfirm(c)
                 \/ \E i \in PlanIds : TouchExpired(i) \/ PassDeadline(i)
                 \/ \E p \in Projects : Edit(p)
                 \/ \E u \in Users : RevokeAdmin(u)
                 \/ UNCHANGED vars
          PROVE  UNCHANGED warehouse
      BY <3>2 DEF CreatePlan, CreateRecoveryPlan, ReviewPlan, ExecutePlan, ShellPlan, ShellCancel,
         ShellConfirm, TouchExpired, PassDeadline, Edit, RevokeAdmin
    <3>3. ASSUME Rebuild
          PROVE  \E x, y : warehouse' = [warehouse EXCEPT !.catalog = x, !.built = y]
      BY <3>3 DEF Rebuild
    <3>4. ASSUME NEW r \in Heavy, Grow(r)
          PROVE  \E x : warehouse' = [warehouse EXCEPT !.large = x]
      BY <3>4 DEF Grow
    <3>5. ASSUME NEW r \in Foreign, CreateForeignView(r)
          PROVE  \E s, x : warehouse' = [warehouse EXCEPT !.catalog[s] = x]
      BY <3>5 DEF CreateForeignView
    <3> QED  BY <3>1, <3>2, <3>3, <3>4, <3>5 DEF Next
  <2> QED  BY <1>w, <2>1 DEF SameInventory, Warehouses
<1> QED  BY <1>1, <1>2

\* A record is about the plan of its row and leaves over relations of it.
Records(run, plan) ==
  /\ run.op = plan.op /\ run.requested = plan.requested /\ run.included = plan.included
  /\ run.orphans = plan.orphans /\ run.project = plan.project
  /\ run.remaining \subseteq NamesIn(plan)

\* Stored plans that consulted no history can be made again at any time, and
\* terminal records repeat the selection of theirs.
Repeats ==
  /\ \A i \in PlanIds : plans[i].status # "none" /\ ~plans[i].plan.orphans
       => Repeatable(plans[i].plan, warehouse)
  /\ \A i \in PlanIds : runs[i] # None
       => plans[i].status # "none" /\ Records(runs[i], plans[i].plan)

\* The terminal record of a process is about the plan it holds.
LEMMA RecordsFrozen ==
  ASSUME NEW p, NEW outcome, NEW remaining, NEW observed, remaining \subseteq NamesIn(Frozen(p))
  PROVE  Records(Terminal(p, outcome, remaining, observed), Frozen(p))
  BY DEF Records, Terminal

\* A failed run that consulted no history can be taken up again: with the project
\* unchanged, a recovery plan is refused only for reasons outside and holds every
\* relation the run left behind.
RecoverableNow ==
  \A run \in {runs[i] : i \in PlanIds} \ {None} :
    LET req == RecoveryRequest(run)
        error == PlanError(req, project, warehouse)
    IN  run.outcome = "failed" /\ run.project = project /\ ~run.orphans
          => \/ error \in {"size", "external"}
             \/ /\ error = "none"
                /\ {r \in run.remaining : Exists(warehouse, r)}
                     \subseteq OwnedNames(Owned(req, project, warehouse))

\* No recorded run consulted the published manifests.
NoHistoricRun == \A i \in PlanIds : runs[i] # None => ~runs[i].orphans

\* The selections of runs and the inventory never change under a plan.
LEMMA RepeatsKept == Inv /\ Repeats /\ [Next]_vars => Repeats'
<1> SUFFICES ASSUME Inv, Repeats, [Next]_vars PROVE Repeats'
  OBVIOUS
<1>t. /\ Types /\ Processes /\ Stored /\ DOMAIN runs = PlanIds
      /\ project \in Projects /\ warehouse \in Warehouses
  BY DEF Inv, Types
<1>s. PlansGrow /\ RowsSaved /\ SameInventory(warehouse, warehouse')
  BY StoreStep
<1>1. ASSUME NEW i \in PlanIds, plans'[i].status # "none", ~plans'[i].plan.orphans
      PROVE  Repeatable(plans'[i].plan, warehouse')
  <2>1. Repeatable(plans'[i].plan, warehouse)
    <3>1. CASE plans[i].status # "none"
      BY <1>s, <1>1, <3>1 DEF PlansGrow, Repeats
    <3>2. CASE plans[i].status = "none"
      <4>1. PICK req \in Requests : /\ PlanError(req, project, warehouse) = "none"
                                    /\ plans'[i].plan = BuildPlan(req, project, warehouse)
        BY <1>s, <1>1, <3>2 DEF RowsSaved
      <4>2. ~HistoryRequested(req, project)
        BY <1>1, <4>1 DEF BuildPlan
      <4>3. Repeatable(BuildPlan(req, project, warehouse), warehouse)
        BY <1>t, <4>1, <4>2, AcceptedRepeatable
      <4> QED  BY <4>1, <4>3
    <3> QED  BY <3>1, <3>2
  <2> QED  BY <1>s, <2>1, RepeatableLater
<1>2. ASSUME NEW i \in PlanIds, runs'[i] # None
      PROVE  plans'[i].status # "none" /\ Records(runs'[i], plans'[i].plan)
  <2>k. ASSUME plans[i].status # "none", Records(runs'[i], plans[i].plan)
        PROVE  plans'[i].status # "none" /\ Records(runs'[i], plans'[i].plan)
    BY <1>s, <2>k DEF PlansGrow
  <2>1. CASE runs'[i] = runs[i]
    BY <1>2, <2>1, <2>k DEF Repeats
  <2>2. CASE runs'[i] # runs[i]
    <3>r. ASSUME NEW p \in Procs, NEW outcome, NEW remaining, NEW observed,
                 exec[p].pc \notin {"idle", "dead"}, remaining \subseteq NamesIn(Frozen(p)),
                 \/ runs' = runs
                 \/ runs' = [runs EXCEPT ![exec[p].id] = Terminal(p, outcome, remaining, observed)]
          PROVE  plans'[i].status # "none" /\ Records(runs'[i], plans'[i].plan)
      <4>1. exec[p].id \in PlanIds /\ plans[exec[p].id].status # "none"
        BY <1>t, <3>r DEF Processes, ExecInv
      <4>2. i = exec[p].id /\ runs'[i] = Terminal(p, outcome, remaining, observed)
        BY <1>t, <2>2, <3>r, <4>1
      <4>3. Records(runs'[i], plans[i].plan)
        BY <3>r, <4>2, RecordsFrozen DEF Frozen
      <4> QED  BY <2>k, <4>1, <4>2, <4>3
    <3>1. CASE \E p \in Procs : FailBefore(p)
      <4>1. PICK p \in Procs : FailBefore(p)
        BY <3>1
      <4> DEFINE remaining == {e.name : e \in {f \in Frozen(p).relations : f.exists}}
      <4>2. exec[p].pc \notin {"idle", "dead"} /\ remaining \subseteq NamesIn(Frozen(p))
        BY <4>1 DEF FailBefore, PhasesBefore, NamesIn
      <4>3. \/ runs' = runs
            \/ runs' = [runs EXCEPT ![exec[p].id] = Terminal(p, "failed", remaining, FALSE)]
        BY <4>1 DEF FailBefore
      <4> HIDE DEF remaining
      <4> QED  BY <3>r, <4>2, <4>3
    <3>2. CASE \E p \in Procs : \E observed, event, persisted \in BOOLEAN :
                 Conclude(p, observed, event, persisted)
      <4>1. PICK p \in Procs : \E observed, event, persisted \in BOOLEAN :
                 Conclude(p, observed, event, persisted)
        BY <3>2
      <4>2. PICK observed \in BOOLEAN, event \in BOOLEAN, persisted \in BOOLEAN :
                 Conclude(p, observed, event, persisted)
        BY <4>1
      <4> DEFINE remaining == IF observed THEN RemainingRelations(Frozen(p)) ELSE {}
                 outcome == IF Succeeded(p, remaining, observed) /\ event
                            THEN "succeeded" ELSE "failed"
      <4>3. exec[p].pc \notin {"idle", "dead"} /\ remaining \subseteq NamesIn(Frozen(p))
        BY <4>2 DEF Conclude, RemainingRelations, NamesIn
      <4>4. \/ runs' = runs
            \/ runs' = [runs EXCEPT ![exec[p].id] = Terminal(p, outcome, remaining, observed)]
        BY <4>2 DEF Conclude
      <4> HIDE DEF remaining, outcome
      <4> QED  BY <3>r, <4>3, <4>4
    <3> QED  BY <2>2, <3>1, <3>2, OnlyEndsRecord
  <2> QED  BY <2>1, <2>2
<1> QED  BY <1>1, <1>2 DEF Repeats

\* What the invariant says of a failed run.
LEMMA RecoveryAccepted ==
  ASSUME UsesAcyclic, Inv, Repeats, NEW i \in PlanIds, runs[i] # None,
         runs[i].project = project, ~runs[i].orphans
  PROVE  LET req == RecoveryRequest(runs[i])
             error == PlanError(req, project, warehouse)
         IN  /\ error \in {"size", "external", "none"}
             /\ {r \in runs[i].remaining : Exists(warehouse, r)}
                  \subseteq OwnedNames(Owned(req, project, warehouse))
<1> DEFINE plan == plans[i].plan
           req == RecoveryRequest(runs[i])
<1>1. plans[i].status # "none" /\ Records(runs[i], plan)
  BY DEF Repeats
<1>2. plan.project = project /\ ~plan.orphans /\ runs[i].remaining \subseteq NamesIn(plan)
  BY <1>1 DEF Records
<1>3. req = AskedOf(plan)
  BY <1>1 DEF Records, RecoveryRequest, AskedOf
<1>4. Repeatable(plan, warehouse) /\ warehouse \in Warehouses
  BY <1>1, <1>2 DEF Repeats, Inv, Types
<1> HIDE DEF plan, req
<1>5. PlanError(req, project, warehouse) \in {"size", "external", "none"}
  BY <1>2, <1>3, <1>4, RepeatedAccepted
<1>6. NamesIn(plan) = OwnedNames(Owned(req, project, warehouse))
  BY <1>2, <1>3, <1>4 DEF Repeatable
<1> QED  BY <1>2, <1>5, <1>6 DEF req

\* Whatever was dropped, built, edited back or published since, a failed run that
\* consulted no history can be planned again, and the recovery plan holds all it
\* left behind (create_recovery_plan).
THEOREM FailedRunsRecover ==
  ASSUME UsesAcyclic
  PROVE  Spec => []RecoverableNow
<1>1. Init => Repeats
  BY DEF Init, Repeats, NoPlan
<1>2. Inv /\ Repeats => RecoverableNow
  <2> SUFFICES ASSUME Inv, Repeats, NEW i \in PlanIds, runs[i] # None,
                      runs[i].project = project, ~runs[i].orphans
               PROVE  LET req == RecoveryRequest(runs[i])
                          error == PlanError(req, project, warehouse)
                      IN  \/ error \in {"size", "external"}
                          \/ /\ error = "none"
                             /\ {r \in runs[i].remaining : Exists(warehouse, r)}
                                  \subseteq OwnedNames(Owned(req, project, warehouse))
    BY DEF RecoverableNow
  <2> QED  BY RecoveryAccepted
<1> QED  BY <1>1, <1>2, RepeatsKept, DestructionInvariant, PTL DEF Spec

\* Recoverable, as the run checks it, wherever no recorded run consulted history.
THEOREM RecoverableWithoutHistory ==
  ASSUME UsesAcyclic
  PROVE  Spec => [](NoHistoricRun => Recoverable)
<1>1. RecoverableNow /\ NoHistoricRun => Recoverable
  BY DEF RecoverableNow, NoHistoricRun, Recoverable
<1> QED  BY <1>1, FailedRunsRecover, PTL

\* Two warehouses with the same recorded deployments and published manifests.
SameRecord(v, w) == SameInventory(v, w) /\ v.built = w.built

\* The parts of what a request owns.
ConsultsHistory(req, q, w) == req.orphans \/ Affected(req, q, w) \ q.pipelines # {}

NamesOf(req, q, w) ==
  LET affected == Affected(req, q, w)
      past  == ConsultsHistory(req, q, w)
  IN  AffectedModels(req, q, w, affected, past) \cup AffectedSources(req, q, affected)
      \cup (IF past THEN HistoricalNames(q, w, affected, FALSE) ELSE {})

CurrentPart(req, q, w) ==
  LET affected == Affected(req, q, w)
  IN  ManifestOwned(q, ModelsOf(q, affected) \cup AffectedSources(req, q, affected))

HistoricalPart(req, q, w) ==
  LET affected == Affected(req, q, w)
  IN  IF ConsultsHistory(req, q, w)
      THEN UNION {Associate(x.relation, x.logical, {x.pipeline}, "historical_manifest") :
                     x \in EligibleHistorical(q, w, affected, affected \ q.pipelines)}
      ELSE {}

VirtualPart(req, q, w) ==
  (CurrentPart(req, q, w) \cup HistoricalPart(req, q, w))
  \cup VirtualMappings(req, q, w, NamesOf(req, q, w))

\* What a request owns is made of these parts and of the bindings of its names.
LEMMA OwnedParts ==
  ASSUME NEW req, NEW q, NEW w
  PROVE  Owned(req, q, w) = VirtualPart(req, q, w)
           \cup VirtualBindings(req, q, w, VirtualPart(req, q, w), NamesOf(req, q, w))
  BY Zenon DEF Owned, VirtualPart, NamesOf, CurrentPart, HistoricalPart, ConsultsHistory

\* The name a binding publishes belongs to the model it was recorded for, in every
\* project and manifest that has it.
NameKept(w, b) ==
  LET name == PublishedName(w, b.logical)
  IN  /\ name \in Int
      /\ \A q \in Builds : \A k \in Keys(q) : b.logical \in q.resources[k] => k = name
      /\ \A m \in w.mappings : m.physical = b.logical => m.model = name

\* What is found in a manifest is a relation of a logical name of its project.
LEMMA NewestIn ==
  ASSUME NEW built \in Seq(Builds), NEW r, NEW x \in NewestOfRelation(built, r)
  PROVE  \E q \in Builds : x.logical \in Keys(q) /\ x.relation \in q.resources[x.logical]
<1> DEFINE found == [i \in DOMAIN built |-> {y \in ManifestResources(built[i]) : y.relation = r}]
           having == {i \in DOMAIN found : found[i] # {}}
<1>1. x \in Newest(found)
  BY DEF NewestOfRelation
<1>2. having # {} /\ x \in found[Min(having)]
  BY <1>1 DEF Newest
<1>3. Min(having) \in having
  <2>1. having \in SUBSET Nat
    BY DEF Builds
  <2> HIDE DEF having
  <2> QED  BY <1>2, <2>1, LeastOf
<1> DEFINE q == built[Min(having)]
<1>4. Min(having) \in DOMAIN built /\ x \in ManifestResources(q)
  BY <1>2, <1>3
<1> HIDE DEF having
<1>5. q \in Builds
  BY <1>4
<1> HIDE DEF q
<1>6. PICK y \in Keys(q) \X Relations \X q.pipelines :
        /\ y[2] \in q.resources[y[1]]
        /\ x = [relation |-> y[2], logical |-> y[1], model |-> y[1] \in q.models,
                pipeline |-> y[3]]
  BY <1>4 DEF ManifestResources
<1>7. x.logical = y[1] /\ x.relation = y[2] /\ y[1] \in Keys(q)
  BY <1>6
<1> QED  BY <1>5, <1>6, <1>7

\* Every ground on which a request holds a relation names a logical name.
LEMMA AssociatedName ==
  ASSUME NEW r, NEW name, NEW pipelines, NEW why, NEW x \in Associate(r, name, pipelines, why)
  PROVE  x[1] = r /\ x[2] = name
  BY DEF Associate

\* A bound name is associated with the model it was recorded for only.
LEMMA BoundName ==
  ASSUME NEW req, NEW q \in Builds, NEW w, w.built \in Seq(Builds), NEW b, NameKept(w, b),
         NEW x \in VirtualPart(req, q, w), x[1] = b.logical
  PROVE  x[2] = PublishedName(w, b.logical)
<1> DEFINE affected == Affected(req, q, w)
           names == ModelsOf(q, affected) \cup AffectedSources(req, q, affected)
<1>1. CASE x \in CurrentPart(req, q, w)
  <2>1. x \in ManifestOwned(q, names)
    BY <1>1 DEF CurrentPart
  <2>2. PICK y \in names \X (Relations \ Metadata) :
          /\ y[2] \in q.resources[y[1]]
          /\ x \in Associate(y[2], y[1], LogicalPipelines(q, y[1]), "current_manifest")
    BY <2>1 DEF ManifestOwned
  <2>3. x[1] = y[2] /\ x[2] = y[1]
    BY <2>2, AssociatedName
  <2>4. y[1] \in Keys(q)
    BY DEF ModelsOf, AffectedSources, ManagedSources, Keys
  <2> QED  BY <2>2, <2>3, <2>4 DEF NameKept
<1>2. CASE x \in HistoricalPart(req, q, w)
  <2>1. PICK y \in EligibleHistorical(q, w, affected, affected \ q.pipelines) :
          x \in Associate(y.relation, y.logical, {y.pipeline}, "historical_manifest")
    BY <1>2 DEF HistoricalPart
  <2>2. PICK r : y \in NewestOfRelation(w.built, r)
    BY DEF EligibleHistorical
  <2>3. x[1] = y.relation /\ x[2] = y.logical
    BY <2>1, AssociatedName
  <2>4. PICK p \in Builds : y.logical \in Keys(p) /\ y.relation \in p.resources[y.logical]
    BY <2>2, NewestIn
  <2> QED  BY <2>3, <2>4 DEF NameKept
<1>3. CASE x \in VirtualMappings(req, q, w, NamesOf(req, q, w))
  <2>1. PICK m \in w.mappings :
          x \in Associate(m.physical, m.model, RecordedPipelines(req, q, w, m.model),
                          "virtual_mapping")
    BY <1>3 DEF VirtualMappings
  <2>2. x[1] = m.physical /\ x[2] = m.model
    BY <2>1, AssociatedName
  <2> QED  BY <2>2 DEF NameKept
<1> QED  BY <1>1, <1>2, <1>3 DEF VirtualPart

\* The bindings of the names of a request, and what they hold.
BoundTo(req, w, names) ==
  {b \in w.bindings : b.logical \notin Metadata
                      /\ (req.op = ResetTarget \/ PublishedName(w, b.logical) \in names)}

BoundRelations(req, w, names) ==
  {b.logical : b \in BoundTo(req, w, names)}
  \cup ({b.physical : b \in BoundTo(req, w, names)} \ Metadata)

\* The relations of the recorded objects of the names of a request.
MappedRelations(req, w, names) ==
  {m.physical : m \in {n \in w.mappings : /\ req.op = ResetTarget \/ n.model \in names
                                          /\ n.physical \notin Metadata}}

\* A relation is associated with a name even when no pipeline is known.
LEMMA AssociatesSome ==
  ASSUME NEW r, NEW name, NEW pipelines, NEW why
  PROVE  \E x \in Associate(r, name, pipelines, why) : x[1] = r
<1> DEFINE Q == IF pipelines = {} THEN {Unattributed} ELSE pipelines
<1>1. PICK p : p \in Q
  OBVIOUS
<1>2. <<r, name, p, why>> \in Associate(r, name, pipelines, why)
  BY <1>1 DEF Associate
<1> QED  BY <1>2

\* The recorded objects of a request hold the relations they were recorded with.
LEMMA MappingNames ==
  ASSUME NEW req, NEW q, NEW w, NEW names
  PROVE  OwnedNames(VirtualMappings(req, q, w, names)) = MappedRelations(req, w, names)
<1> DEFINE M == {n \in w.mappings : /\ req.op = ResetTarget \/ n.model \in names
                                    /\ n.physical \notin Metadata}
           Item(m) == Associate(m.physical, m.model, RecordedPipelines(req, q, w, m.model),
                                "virtual_mapping")
<1>1. VirtualMappings(req, q, w, names) = UNION {Item(m) : m \in M}
  BY DEF VirtualMappings
<1>2. \A m : (\A x \in Item(m) : x[1] = m.physical) /\ \E x \in Item(m) : x[1] = m.physical
  BY AssociatedName, AssociatesSome
<1>3. MappedRelations(req, w, names) = {m.physical : m \in M}
  BY DEF MappedRelations
<1> HIDE DEF Item, M
<1>4. \A x \in UNION {Item(m) : m \in M} : \E m \in M : x[1] = m.physical
  BY <1>2
<1>5. \A m \in M : \E x \in UNION {Item(n) : n \in M} : x[1] = m.physical
  BY <1>2
<1> QED  BY <1>1, <1>3, <1>4, <1>5 DEF OwnedNames

\* With published names kept, the bindings of a request do not depend on which
\* relations are still there.
LEMMA BindingNames ==
  ASSUME NEW req, NEW q \in Builds, NEW w, w.built \in Seq(Builds), NEW names,
         \A b \in w.bindings : NameKept(w, b)
  PROVE  OwnedNames(VirtualBindings(req, q, w, VirtualPart(req, q, w), names))
           = BoundRelations(req, w, names)
<1> DEFINE virtual == VirtualPart(req, q, w)
           Known(b) == {x[2] : x \in {y \in virtual : y[1] = b.logical}}
           Of(b) == IF Known(b) = {} THEN PublishedName(w, b.logical) ELSE Min(Known(b))
           Bound == {b \in w.bindings : b.logical \notin Metadata
                                        /\ (req.op = ResetTarget \/ Of(b) \in names)}
           Stable(b) ==
             Associate(b.logical, Of(b), RecordedPipelines(req, q, w, Of(b)), "stable_binding")
           Physical(b) ==
             IF b.physical \in Metadata THEN {}
             ELSE Associate(b.physical,
                    IF \E m \in w.mappings : b.physical \in {m.key, m.physical}
                    THEN PublishedName(w, b.physical) ELSE Of(b),
                    RecordedPipelines(req, q, w, Of(b)), "virtual_mapping")
           All == UNION {Stable(b) \cup Physical(b) : b \in Bound}
<1>1. VirtualBindings(req, q, w, virtual, names) = All
  BY Zenon DEF VirtualBindings
<1>2. ASSUME NEW b \in w.bindings PROVE Of(b) = PublishedName(w, b.logical)
  <2> DEFINE name == PublishedName(w, b.logical)
  <2>1. NameKept(w, b) /\ name \in Int
    BY DEF NameKept
  <2>2. \A k \in Known(b) : k = name
    BY <2>1, BoundName
  <2> HIDE DEF Known, name
  <2>3. CASE Known(b) = {}
    BY <2>3 DEF name
  <2>4. CASE Known(b) # {}
    <3>1. Known(b) = {name}
      BY <2>2, <2>4
    <3>2. Min({name}) = name
      BY <2>1 DEF Min
    <3> QED  BY <3>1, <3>2 DEF name
  <2> QED  BY <2>3, <2>4
<1>3. Bound = BoundTo(req, w, names)
  <2> HIDE DEF Of
  <2> QED  BY <1>2, Zenon DEF BoundTo
<1>4. \A b : (\A x \in Stable(b) : x[1] = b.logical) /\ \E x \in Stable(b) : x[1] = b.logical
  <2> HIDE DEF Of
  <2> SUFFICES ASSUME NEW b
               PROVE  (\A x \in Stable(b) : x[1] = b.logical) /\ \E x \in Stable(b) : x[1] = b.logical
    OBVIOUS
  <2>1. \A x \in Stable(b) : x[1] = b.logical
    BY AssociatedName
  <2>2. \E x \in Stable(b) : x[1] = b.logical
    BY AssociatesSome
  <2> QED  BY <2>1, <2>2
<1>5. \A b : b.physical \in Metadata => Physical(b) = {}
  OBVIOUS
<1>6. \A b : b.physical \notin Metadata =>
        (\A x \in Physical(b) : x[1] = b.physical) /\ \E x \in Physical(b) : x[1] = b.physical
  <2> SUFFICES ASSUME NEW b, b.physical \notin Metadata
               PROVE  /\ \A x \in Physical(b) : x[1] = b.physical
                      /\ \E x \in Physical(b) : x[1] = b.physical
    BY Zenon
  <2>1. PICK name, pipelines : Physical(b) = Associate(b.physical, name, pipelines, "virtual_mapping")
    <3> HIDE DEF Of
    <3> QED  OBVIOUS
  <2> HIDE DEF Physical
  <2>2. \A x \in Physical(b) : x[1] = b.physical
    BY <2>1, AssociatedName
  <2>3. \E x \in Physical(b) : x[1] = b.physical
    BY <2>1, AssociatesSome
  <2> QED  BY <2>2, <2>3
<1> HIDE DEF Stable, Physical, Bound, Known, Of, virtual
<1>7. ASSUME NEW x \in All PROVE x[1] \in BoundRelations(req, w, names)
  <2>1. PICK b \in Bound : x \in Stable(b) \cup Physical(b)
    OBVIOUS
  <2> QED  BY <1>3, <1>4, <1>5, <1>6, <2>1 DEF BoundRelations
<1>8. ASSUME NEW r \in BoundRelations(req, w, names) PROVE \E x \in All : x[1] = r
  <2>1. PICK b \in Bound : r = b.logical \/ (r = b.physical /\ b.physical \notin Metadata)
    BY <1>3 DEF BoundRelations
  <2>2. Stable(b) \subseteq All /\ Physical(b) \subseteq All
    OBVIOUS
  <2> HIDE DEF All
  <2> QED  BY <1>4, <1>6, <2>1, <2>2
<1> HIDE DEF All
<1>9. OwnedNames(All) = BoundRelations(req, w, names)
  BY <1>7, <1>8 DEF OwnedNames
<1> QED  BY <1>1, <1>9 DEF virtual

\* A relation that was held on the evidence of old manifests is held again while
\* it is there and nothing was published.
LEMMA HistoricalStill ==
  ASSUME NEW q, NEW v, NEW w, SameRecord(v, w), w.built \in Seq(Builds), NEW affected, NEW inactive,
         NEW x \in EligibleHistorical(q, v, affected, inactive), Exists(w, x.relation)
  PROVE  x \in EligibleHistorical(q, w, affected, inactive)
<1> DEFINE Published(built, r) == {y.pipeline : y \in {z \in ManifestResources(built[1]) :
                                                         z.relation = r}}
           Candidates(u) == {r \in (Relations \ Metadata) \ CurrentRelations(q) :
                               Exists(u, r) /\ Published(u.built, r) \subseteq inactive}
           Found(u) == {y \in UNION {NewestOfRelation(u.built, r) : r \in Candidates(u)} :
                          y.pipeline \in affected}
<1>1. v.built = w.built
  BY DEF SameRecord
<1>2. \A u : EligibleHistorical(q, u, affected, inactive) = IF u.built = <<>> THEN {} ELSE Found(u)
  BY Zenon DEF EligibleHistorical
<1>3. w.built # <<>> /\ x \in Found(v)
  <2> HIDE DEF Found
  <2> QED  BY <1>1, <1>2
<1> HIDE DEF Published
<1>4. PICK r \in Candidates(v) : x \in NewestOfRelation(v.built, r)
  BY <1>3
<1>5. x.relation = r
  BY <1>1, <1>4, NewestRelation
<1>6. r \in Candidates(w)
  BY <1>1, <1>4, <1>5
<1> HIDE DEF Candidates
<1>7. x \in Found(w)
  BY <1>1, <1>3, <1>4, <1>6
<1> HIDE DEF Found
<1> QED  BY <1>2, <1>3, <1>7

\* A request that selects the same holds again what is still there.
LEMMA OwnedStill ==
  ASSUME NEW req, NEW ask, NEW q \in Builds, NEW v, NEW w, SameRecord(v, w),
         w.built \in Seq(Builds), \A b \in w.bindings : NameKept(w, b), ask.op = req.op,
         Affected(ask, q, w) = Affected(req, q, v),
         ConsultsHistory(ask, q, w) = ConsultsHistory(req, q, v),
         NEW r \in OwnedNames(Owned(req, q, v)), Exists(w, r)
  PROVE  r \in OwnedNames(Owned(ask, q, w))
<1> DEFINE affected == Affected(req, q, v)
           past == ConsultsHistory(req, q, v)
           names == NamesOf(req, q, v)
<1>0. v.built = w.built /\ v.mappings = w.mappings /\ v.bindings = w.bindings
  BY DEF SameRecord, SameInventory
<1>1. \A b \in v.bindings : NameKept(v, b)
  BY <1>0, PublishedSame DEF NameKept, SameRecord
<1>2. /\ AffectedSources(ask, q, affected) = AffectedSources(req, q, affected)
      /\ \A kind : HistoricalNames(q, w, affected, kind) = HistoricalNames(q, v, affected, kind)
  BY <1>0 DEF AffectedSources, HistoricalNames
<1>3. AffectedModels(ask, q, w, affected, past) = AffectedModels(req, q, v, affected, past)
  BY <1>0, <1>2 DEF AffectedModels
<1>4. NamesOf(ask, q, w) = names
  BY <1>2, <1>3 DEF NamesOf
<1>5. CurrentPart(ask, q, w) = CurrentPart(req, q, v)
  BY <1>2 DEF CurrentPart
<1>6. ASSUME r \in OwnedNames(HistoricalPart(req, q, v))
      PROVE  r \in OwnedNames(HistoricalPart(ask, q, w))
  <2>1. PICK y \in HistoricalPart(req, q, v) : y[1] = r
    BY <1>6 DEF OwnedNames
  <2>2. PICK x \in EligibleHistorical(q, v, affected, affected \ q.pipelines) :
          y \in Associate(x.relation, x.logical, {x.pipeline}, "historical_manifest")
    BY <2>1 DEF HistoricalPart
  <2>3. x.relation = r
    BY <2>1, <2>2, AssociatedName
  <2>4. x \in EligibleHistorical(q, w, affected, affected \ q.pipelines)
    BY <2>3, HistoricalStill
  <2>5. past
    BY <2>1 DEF HistoricalPart
  <2>6. y \in HistoricalPart(ask, q, w)
    BY <2>2, <2>4, <2>5 DEF HistoricalPart
  <2> QED  BY <2>1, <2>6 DEF OwnedNames
<1>7. /\ OwnedNames(VirtualMappings(req, q, v, names)) = MappedRelations(req, v, names)
      /\ OwnedNames(VirtualMappings(ask, q, w, names)) = MappedRelations(ask, w, names)
  BY MappingNames
<1>8. MappedRelations(ask, w, names) = MappedRelations(req, v, names)
  BY <1>0 DEF MappedRelations
<1>9. /\ OwnedNames(VirtualBindings(req, q, v, VirtualPart(req, q, v), names))
           = BoundRelations(req, v, names)
      /\ OwnedNames(VirtualBindings(ask, q, w, VirtualPart(ask, q, w), names))
           = BoundRelations(ask, w, names)
  BY <1>0, <1>1, BindingNames
<1>10. BoundRelations(ask, w, names) = BoundRelations(req, v, names)
  <2>1. \A name : PublishedName(w, name) = PublishedName(v, name)
    BY PublishedSame DEF SameRecord
  <2>2. BoundTo(ask, w, names) = BoundTo(req, v, names)
    BY <1>0, <2>1 DEF BoundTo
  <2> QED  BY <2>2 DEF BoundRelations
<1> HIDE DEF names
<1>11. \A A, B : OwnedNames(A \cup B) = OwnedNames(A) \cup OwnedNames(B)
  BY DEF OwnedNames
<1>12. /\ OwnedNames(Owned(req, q, v)) =
            OwnedNames(CurrentPart(req, q, v)) \cup OwnedNames(HistoricalPart(req, q, v))
            \cup MappedRelations(req, v, names) \cup BoundRelations(req, v, names)
       /\ OwnedNames(Owned(ask, q, w)) =
            OwnedNames(CurrentPart(ask, q, w)) \cup OwnedNames(HistoricalPart(ask, q, w))
            \cup MappedRelations(ask, w, names) \cup BoundRelations(ask, w, names)
  <2>1. \A a, u :
          OwnedNames(Owned(a, q, u)) =
            OwnedNames(CurrentPart(a, q, u)) \cup OwnedNames(HistoricalPart(a, q, u))
            \cup OwnedNames(VirtualMappings(a, q, u, NamesOf(a, q, u)))
            \cup OwnedNames(VirtualBindings(a, q, u, VirtualPart(a, q, u), NamesOf(a, q, u)))
    <3> SUFFICES ASSUME NEW a, NEW u
                 PROVE  OwnedNames(Owned(a, q, u)) =
                          OwnedNames(CurrentPart(a, q, u)) \cup OwnedNames(HistoricalPart(a, q, u))
                          \cup OwnedNames(VirtualMappings(a, q, u, NamesOf(a, q, u)))
                          \cup OwnedNames(VirtualBindings(a, q, u, VirtualPart(a, q, u),
                                                          NamesOf(a, q, u)))
      BY Zenon
    <3> DEFINE virtual == VirtualPart(a, q, u)
    <3>1. Owned(a, q, u) = virtual \cup VirtualBindings(a, q, u, virtual, NamesOf(a, q, u))
      BY OwnedParts
    <3>2. OwnedNames(virtual) =
            OwnedNames(CurrentPart(a, q, u)) \cup OwnedNames(HistoricalPart(a, q, u))
            \cup OwnedNames(VirtualMappings(a, q, u, NamesOf(a, q, u)))
      <4> DEFINE A == CurrentPart(a, q, u)
                 B == HistoricalPart(a, q, u)
                 C == VirtualMappings(a, q, u, NamesOf(a, q, u))
      <4>1. virtual = (A \cup B) \cup C
        BY DEF VirtualPart
      <4> HIDE DEF A, B, C, virtual
      <4>2. OwnedNames(virtual) = OwnedNames(A \cup B) \cup OwnedNames(C)
        BY <1>11, <4>1
      <4>3. OwnedNames(A \cup B) = OwnedNames(A) \cup OwnedNames(B)
        BY <1>11
      <4> QED  BY <4>2, <4>3 DEF A, B, C
    <3> HIDE DEF virtual
    <3>3. OwnedNames(Owned(a, q, u)) =
            OwnedNames(virtual) \cup OwnedNames(VirtualBindings(a, q, u, virtual, NamesOf(a, q, u)))
      BY <1>11, <3>1
    <3> QED  BY <3>2, <3>3 DEF virtual
  <2> QED  BY <1>4, <1>7, <1>9, <2>1 DEF names
<1> QED  BY <1>5, <1>6, <1>8, <1>10, <1>12

\* The plan was accepted over the manifests and deployments that are still recorded.
AcceptedOver(plan, w) ==
  \E req \in Requests, v \in Warehouses :
    /\ SameRecord(v, w) /\ plan.project \in Projects
    /\ PlanError(req, plan.project, v) = "none" /\ plan = BuildPlan(req, plan.project, v)

\* The recovery of a plan selects what the plan selected, with or without history.
LEMMA AskedAgain ==
  ASSUME UsesAcyclic, NEW plan, NEW w \in Warehouses, AcceptedOver(plan, w),
         \A b \in w.bindings : NameKept(w, b),
         plan.orphans = HistoryRequested(AskedOf(plan), plan.project)
  PROVE  /\ PlanError(AskedOf(plan), plan.project, w) \in {"size", "external", "none"}
         /\ \A r \in NamesIn(plan) :
              Exists(w, r) => r \in OwnedNames(Owned(AskedOf(plan), plan.project, w))
<1> DEFINE q == plan.project
           ask == AskedOf(plan)
<1>1. PICK req \in Requests, v \in Warehouses :
        /\ SameRecord(v, w) /\ q \in Projects
        /\ PlanError(req, q, v) = "none" /\ plan = BuildPlan(req, q, v)
  BY DEF AcceptedOver
<1>2. /\ plan.op = req.op /\ plan.requested = req.pipelines /\ plan.included = req.included
      /\ plan.relations = Evidence(v, Owned(req, q, v)) /\ plan.orphans = HistoryRequested(req, q)
  BY <1>1 DEF BuildPlan
<1>3. /\ ask.op = req.op /\ ask.pipelines = req.pipelines /\ ask.included = req.included
      /\ ask.orphans = FALSE
  BY <1>2 DEF AskedOf
<1>4. /\ Compiles(q) /\ ~SelectionError(req, q, v) /\ Affected(req, q, v) # {}
      /\ req.op = DestroyPipelines => MissingDependents(req, q) = {}
  BY <1>1 DEF PlanError
<1>5. HistoryRequested(ask, q) = HistoryRequested(req, q)
  BY <1>2
<1> HIDE DEF q, ask
<1>6. Supplied(ask) = Supplied(req) /\ v.built = w.built
  BY <1>1, <1>3 DEF Supplied, SameRecord
<1>7. Available(ask, q, w) = Available(req, q, v)
  BY <1>5, <1>6 DEF Available
<1>8. Affected(ask, q, w) = Affected(req, q, v) /\ ~SelectionError(ask, q, w)
  BY <1>3, <1>4, <1>6, <1>7 DEF Affected, SelectionError
<1>9. ask.op = DestroyPipelines => MissingDependents(ask, q) = {}
  BY <1>3, <1>4, <1>6 DEF MissingDependents
<1>10. ConsultsHistory(ask, q, w) = ConsultsHistory(req, q, v)
  <2>1. CASE ~req.orphans
    BY <1>3, <1>8, <2>1 DEF ConsultsHistory
  <2>2. CASE req.orphans
    <3>1. Supplied(req) \ q.pipelines # {}
      BY <1>3, <1>5, <1>6, <2>2 DEF HistoryRequested
    <3>2. Affected(req, q, v) = Supplied(req)
      BY <1>4, <3>1 DEF SelectionError, Affected
    <3> QED  BY <1>8, <3>1, <3>2 DEF ConsultsHistory
  <2> QED  BY <2>1, <2>2
<1>11. NamesIn(plan) = OwnedNames(Owned(req, q, v))
  BY <1>2, EvidenceFacts DEF NamesIn
<1>12. ASSUME NEW r \in NamesIn(plan), Exists(w, r) PROVE r \in OwnedNames(Owned(ask, q, w))
  <2>1. q \in Builds /\ w.built \in Seq(Builds)
    BY <1>1 DEF Builds, Warehouses
  <2> QED  BY <1>1, <1>3, <1>8, <1>10, <1>11, <1>12, <2>1, OwnedStill
<1> DEFINE order == Len(ReverseOrder(Evidence(w, Owned(ask, q, w))))
           count == Cardinality(OwnedNames(Owned(ask, q, w)))
<1>13. ~(order < count)
  <2>1. order = count
    BY OrderComplete
  <2>2. IsFiniteSet(OwnedNames(Owned(ask, q, w)))
    BY OwnedRelations, RelationsAssumption, FS_Subset
  <2>3. count \in Nat
    BY <2>2, FS_CardinalityType
  <2> HIDE DEF order, count
  <2> QED  BY <2>1, <2>3
<1>14. PlanError(ask, q, w) \in {"size", "external", "none"}
  BY <1>4, <1>8, <1>9, <1>13 DEF PlanError
<1> QED  BY <1>12, <1>14 DEF q, ask

\* A published name belongs to the model it was recorded for: nothing else in any
\* project, or in any manifest of the target, has it.
NamesKept == \A w \in Worlds : \A b \in w.warehouse.bindings : NameKept(w.warehouse, b)

\* Nothing is built, so that no manifest is published.
KeepsManifests == warehouse'.built = warehouse.built

\* The deployments are those of the initial world, and every stored plan was
\* accepted over the manifests that are there.
Grounded ==
  /\ \E w \in Worlds : SameInventory(w.warehouse, warehouse)
  /\ \A i \in PlanIds : plans[i].status # "none" => AcceptedOver(plans[i].plan, warehouse)

\* No step but a build takes the record from under a stored plan.
LEMMA GroundedKept == Inv /\ Grounded /\ [Next]_vars /\ [KeepsManifests]_vars => Grounded'
<1> SUFFICES ASSUME Inv, Grounded, [Next]_vars, [KeepsManifests]_vars PROVE Grounded'
  OBVIOUS
<1>1. project \in Projects /\ warehouse \in Warehouses
  BY DEF Inv, Types
<1>2. PlansGrow /\ RowsSaved /\ SameInventory(warehouse, warehouse')
  BY StoreStep
<1>3. SameRecord(warehouse, warehouse')
  BY <1>2 DEF SameRecord, KeepsManifests, vars
<1>4. \E w \in Worlds : SameInventory(w.warehouse, warehouse')
  BY <1>2 DEF Grounded, SameInventory
<1>5. ASSUME NEW i \in PlanIds, plans'[i].status # "none"
      PROVE  AcceptedOver(plans'[i].plan, warehouse')
  <2>1. AcceptedOver(plans'[i].plan, warehouse)
    <3>1. CASE plans[i].status # "none"
      BY <1>2, <3>1 DEF PlansGrow, Grounded
    <3>2. CASE plans[i].status = "none"
      <4>1. PICK req \in Requests : /\ PlanError(req, project, warehouse) = "none"
                                    /\ plans'[i].plan = BuildPlan(req, project, warehouse)
        BY <1>2, <1>5, <3>2 DEF RowsSaved
      <4>2. plans'[i].plan.project = project
        BY <4>1 DEF BuildPlan
      <4>3. SameRecord(warehouse, warehouse)
        BY DEF SameRecord, SameInventory
      <4> QED  BY <1>1, <4>1, <4>2, <4>3 DEF AcceptedOver
    <3> QED  BY <3>1, <3>2
  <2>2. \A v : SameRecord(v, warehouse) => SameRecord(v, warehouse')
    BY <1>3 DEF SameRecord, SameInventory
  <2> QED  BY <2>1, <2>2 DEF AcceptedOver
<1> QED  BY <1>4, <1>5 DEF Grounded

\* As long as nothing is built, every failed run can be taken up again, the runs
\* for pipelines the project no longer has included (create_recovery_plan,
\* _eligible_historical_resources).
THEOREM RecoverableUntilBuilt ==
  ASSUME UsesAcyclic, NamesKept
  PROVE  Spec /\ [][KeepsManifests]_vars => []Recoverable
<1>1. Init => Repeats /\ Grounded
  <2> SUFFICES ASSUME Init PROVE Repeats /\ Grounded
    OBVIOUS
  <2>1. Repeats
    BY DEF Init, Repeats, NoPlan
  <2>2. \E w \in Worlds : SameInventory(w.warehouse, warehouse)
    BY DEF Init, SameInventory
  <2>3. \A i \in PlanIds : plans[i].status = "none"
    BY DEF Init, NoPlan
  <2> QED  BY <2>1, <2>2, <2>3 DEF Grounded
<1>2. Inv /\ Repeats /\ Grounded => Recoverable
  <2> SUFFICES ASSUME Inv, Repeats, Grounded, NEW i \in PlanIds, runs[i] # None,
                      runs[i].project = project,
                      runs[i].orphans = HistoryRequested(RecoveryRequest(runs[i]), project)
               PROVE  LET req == RecoveryRequest(runs[i])
                          error == PlanError(req, project, warehouse)
                      IN  \/ error \in {"size", "external"}
                          \/ /\ error = "none"
                             /\ {r \in runs[i].remaining : Exists(warehouse, r)}
                                  \subseteq OwnedNames(Owned(req, project, warehouse))
    BY DEF Recoverable
  <2> DEFINE plan == plans[i].plan
             req == RecoveryRequest(runs[i])
  <2>1. plans[i].status # "none" /\ Records(runs[i], plan)
    BY DEF Repeats
  <2>2. AcceptedOver(plan, warehouse) /\ warehouse \in Warehouses
    BY <2>1 DEF Grounded, Inv, Types
  <2>3. \A b \in warehouse.bindings : NameKept(warehouse, b)
    <3>1. PICK w \in Worlds : SameInventory(w.warehouse, warehouse)
      BY DEF Grounded
    <3>2. \A name : PublishedName(w.warehouse, name) = PublishedName(warehouse, name)
      BY <3>1, PublishedSame
    <3> QED  BY <3>1, <3>2 DEF NamesKept, NameKept, SameInventory
  <2>4. /\ plan.project = project /\ plan.orphans = runs[i].orphans
        /\ runs[i].remaining \subseteq NamesIn(plan)
    BY <2>1 DEF Records
  <2>5. req = AskedOf(plan)
    BY <2>1 DEF Records, RecoveryRequest, AskedOf
  <2>6. plan.orphans = HistoryRequested(req, project)
    BY <2>4
  <2> HIDE DEF plan, req
  <2>7. /\ PlanError(req, project, warehouse) \in {"size", "external", "none"}
        /\ \A r \in NamesIn(plan) :
             Exists(warehouse, r) => r \in OwnedNames(Owned(req, project, warehouse))
    BY <2>2, <2>3, <2>4, <2>5, <2>6, AskedAgain
  <2> QED  BY <2>4, <2>7 DEF req
<1> QED  BY <1>1, <1>2, RepeatsKept, GroundedKept, DestructionInvariant, PTL DEF Spec
=============================================================================
