------------------------- MODULE DirectBuildProofs -------------------------
(***************************************************************************)
(* Proofs about DirectBuild, for any project, any builders and any bounds. *)
(***************************************************************************)
EXTENDS DirectBuild, FiniteSetTheorems, NaturalsInduction, WellFoundedInduction, TLAPS

\* A non-empty set of numbers has a least member, and Min is it.
LEMMA LeastOf ==
  ASSUME NEW S \in SUBSET Nat, S # {}
  PROVE  Min(S) \in S /\ \A n \in S : Min(S) <= n
<1> DEFINE R == OpToRel(<, Nat)
<1>1. IsWellFoundedOn(R, Nat)
  BY NatLessThanWellFounded
<1>2. \E x \in S : \A y \in S : ~(<<y, x>> \in R)
  <2> HIDE DEF R
  <2> QED  BY <1>1, WFMin, Zenon
<1>3. \A x, y \in Nat : ~(<<y, x>> \in R) => x <= y
  BY DEF OpToRel
<1>4. \E x \in S : \A y \in S : x <= y
  BY <1>2, <1>3
<1> QED  BY <1>4 DEF Min

\* Induction over numbers, by the least counterexample.
LEMMA Induction ==
  ASSUME NEW S \in SUBSET Nat, 0 \in S, \A n \in S : n + 1 \in S
  PROVE  S = Nat
<1> SUFFICES ASSUME Nat \ S # {} PROVE FALSE
  OBVIOUS
<1> DEFINE m == Min(Nat \ S)
<1>1. m \in Nat \ S /\ \A n \in Nat \ S : m <= n
  BY LeastOf
<1> HIDE DEF m
<1>2. m - 1 \in Nat /\ ~(m <= m - 1) /\ (m - 1) + 1 = m
  BY <1>1
<1> QED  BY <1>1, <1>2

\* g is step iterated N times from base.
Iterates(g, N, base, step) == g[0] = base /\ \A n \in 1..N : g[n] = step[<<g[n - 1], n>>]

\* A step iterated from a base is a function: what the recursive functions of
\* the model (the orders, the closures, a push through the views) rest on.
LEMMA Iterated ==
  ASSUME NEW N \in Nat, NEW X, NEW base \in X, NEW step \in [X \X Nat -> X]
  PROVE  \E g \in [0..N -> X] : Iterates(g, N, base, step)
<1> DEFINE Good(m) == \E g \in [0..m -> X] :
                        g[0] = base /\ \A n \in 1..m : g[n] = step[<<g[n - 1], n>>]
           S == {m \in Nat : Good(m)}
<1>1. 0 \in S
  <2> DEFINE g == [n \in 0..0 |-> base]
  <2>1. g \in [0..0 -> X] /\ g[0] = base /\ \A n \in 1..0 : g[n] = step[<<g[n - 1], n>>]
    OBVIOUS
  <2> QED  BY <2>1
<1>2. ASSUME NEW m \in S PROVE m + 1 \in S
  <2>1. PICK g \in [0..m -> X] : g[0] = base /\ \A n \in 1..m : g[n] = step[<<g[n - 1], n>>]
    OBVIOUS
  <2>2. m \in Nat /\ m \in 0..m /\ m + 1 \in Nat /\ step[<<g[m], m + 1>>] \in X
    OBVIOUS
  <2> DEFINE h == [n \in 0..(m + 1) |-> IF n <= m THEN g[n] ELSE step[<<g[m], n>>]]
  <2>3. h \in [0..(m + 1) -> X] /\ h[0] = base
    <3>1. ASSUME NEW n \in 0..(m + 1) PROVE h[n] \in X
      <4>1. CASE n <= m
        BY <2>2, <4>1
      <4>2. CASE n = m + 1
        BY <2>2, <4>2
      <4> QED  BY <2>2, <4>1, <4>2
    <3> QED  BY <2>1, <2>2, <3>1
  <2>4. ASSUME NEW n \in 1..(m + 1) PROVE h[n] = step[<<h[n - 1], n>>]
    <3>1. CASE n <= m
      <4>1. n \in 1..m /\ n - 1 \in 0..(m + 1) /\ n - 1 <= m /\ n \in 0..(m + 1)
        BY <2>2, <3>1
      <4> QED  BY <2>1, <3>1, <4>1
    <3>2. CASE n = m + 1
      <4>1. m \in 0..(m + 1) /\ n - 1 = m /\ ~(n <= m) /\ n \in 0..(m + 1) /\ m <= m
        BY <2>2, <3>2
      <4> QED  BY <4>1
    <3> QED  BY <2>2, <3>1, <3>2
  <2> HIDE DEF h
  <2>5. Good(m + 1)
    BY <2>3, <2>4
  <2> HIDE DEF Good
  <2> QED  BY <2>2, <2>5
<1> HIDE DEF Good
<1>3. S = Nat
  <2> HIDE DEF S
  <2>1. S \in SUBSET Nat
    BY DEF S
  <2> QED  BY <1>1, <1>2, <2>1, Induction
<1>4. Good(N)
  BY <1>3
<1> QED  BY <1>4 DEF Good, Iterates

\* What a recursive function keeps, by induction over its argument.
LEMMA StaysIn ==
  ASSUME NEW N \in Nat, NEW X, NEW f, f[0] \in X, \A n \in 1..N : f[n - 1] \in X => f[n] \in X
  PROVE  \A n \in 0..N : f[n] \in X
<1> DEFINE S == {n \in Nat : n <= N => f[n] \in X}
<1>1. 0 \in S
  OBVIOUS
<1>2. ASSUME NEW n \in S PROVE n + 1 \in S
  <2>1. CASE n + 1 <= N
    <3>1. n \in Nat /\ n <= N /\ n + 1 \in 1..N /\ (n + 1) - 1 = n
      BY <2>1
    <3> QED  BY <3>1
  <2>2. CASE ~(n + 1 <= N)
    BY <2>2
  <2> QED  BY <2>1, <2>2
<1>3. S = Nat
  <2>1. S \in SUBSET Nat
    OBVIOUS
  <2> HIDE DEF S
  <2> QED  BY <1>1, <1>2, <2>1, Induction
<1> QED  BY <1>3
-----------------------------------------------------------------------------
\* The orders of the project.

\* Kahn's algorithm lists keys.
LEMMA KahnTyped ==
  ASSUME NEW keys \in SUBSET Nat, IsFiniteSet(keys), NEW before
  PROVE  KahnOrder(keys, before) \in Seq(keys)
<1> DEFINE N == Cardinality(keys)
           X == Seq(keys)
           step == [x \in X \X Nat |-> AppendReady(keys, before, x[1])]
           Fits(g) == g = [n \in 0..N |-> IF n = 0 THEN <<>>
                                          ELSE AppendReady(keys, before, g[n - 1])]
           order == CHOOSE g : Fits(g)
<1>1. N \in Nat
  BY FS_CardinalityType
<1>2. ASSUME NEW s \in X PROVE AppendReady(keys, before, s) \in X
  <2> DEFINE ready == Ready(keys, before, Range(s))
  <2>1. ready \in SUBSET keys
    BY DEF Ready
  <2>2. AppendReady(keys, before, s) = IF ready = {} THEN s ELSE Append(s, Min(ready))
    BY DEF AppendReady
  <2> HIDE DEF ready
  <2>3. CASE ready # {}
    <3>1. Min(ready) \in keys
      BY <2>1, <2>3, LeastOf
    <3> QED  BY <2>2, <2>3, <3>1
  <2> QED  BY <2>2, <2>3
<1>3. <<>> \in X /\ step \in [X \X Nat -> X]
  <2>1. <<>> \in X
    OBVIOUS
  <2> HIDE DEF X
  <2> QED  BY <1>2, <2>1
<1>n. \A n \in 0..N : n = 0 \/ (n \in 1..N /\ n # 0)
  BY <1>1
<1>4. \E g : Fits(g)
  <2>1. PICK g \in [0..N -> X] : g[0] = <<>> /\ \A n \in 1..N : g[n] = step[<<g[n - 1], n>>]
    <3> HIDE DEF N, X, step
    <3>1. \E g \in [0..N -> X] : Iterates(g, N, <<>>, step)
      BY <1>1, <1>3, Iterated
    <3> QED  BY <3>1 DEF Iterates
  <2>2. ASSUME NEW n \in 1..N PROVE g[n] = AppendReady(keys, before, g[n - 1])
    <3>1. n - 1 \in 0..N /\ n \in Nat
      BY <1>1
    <3> HIDE DEF X
    <3>2. <<g[n - 1], n>> \in X \X Nat
      BY <3>1
    <3> QED  BY <2>1, <3>2
  <2> HIDE DEF N, X
  <2> QED  BY <2>1, <2>2, <1>n
<1>5. Fits(order)
  <2> HIDE DEF Fits
  <2> QED  BY <1>4
<1>6. KahnOrder(keys, before) = order[N]
  BY DEF KahnOrder
<1> HIDE DEF order
<1>7. order[0] \in X /\ \A n \in 1..N : order[n] = AppendReady(keys, before, order[n - 1])
  <2>1. 0 \in 0..N /\ \A n \in 1..N : n \in 0..N /\ n # 0
    BY <1>1
  <2> HIDE DEF N
  <2> QED  BY <1>3, <1>5, <2>1
<1>8. \A n \in 0..N : order[n] \in X
  <2> HIDE DEF N, X, Fits
  <2> QED  BY <1>1, <1>2, <1>7, StaysIn
<1> QED  BY <1>1, <1>6, <1>8

\* What is selected from a sequence is in the set.
LEMMA SelectedTyped ==
  ASSUME NEW K, NEW seq \in Seq(K), NEW set
  PROVE  Selected(seq, set) \in Seq(K \cap set)
<1> DEFINE N == Len(seq)
           X == Seq(K \cap set)
           Next1(t, n) == IF n \in 1..N /\ seq[n] \in set THEN Append(t, seq[n]) ELSE t
           step == [x \in X \X Nat |-> Next1(x[1], x[2])]
           Fits(g) == g = [n \in 0..N |-> IF n = 0 THEN <<>>
                                          ELSE IF seq[n] \in set THEN Append(g[n - 1], seq[n])
                                                                 ELSE g[n - 1]]
           kept == CHOOSE g : Fits(g)
<1>1. N \in Nat /\ \A n \in 1..N : seq[n] \in K
  OBVIOUS
<1>2. ASSUME NEW t \in X, NEW n \in Nat PROVE Next1(t, n) \in X
  BY <1>1
<1>3. <<>> \in X /\ step \in [X \X Nat -> X]
  <2>1. <<>> \in X
    OBVIOUS
  <2> HIDE DEF X, Next1
  <2> QED  BY <1>2, <2>1
<1>n. \A n \in 0..N : n = 0 \/ (n \in 1..N /\ n # 0)
  BY <1>1
<1>4. \E g : Fits(g)
  <2>1. PICK g \in [0..N -> X] : g[0] = <<>> /\ \A n \in 1..N : g[n] = step[<<g[n - 1], n>>]
    <3> HIDE DEF N, X, step
    <3>1. \E g \in [0..N -> X] : Iterates(g, N, <<>>, step)
      BY <1>1, <1>3, Iterated
    <3> QED  BY <3>1 DEF Iterates
  <2>2. ASSUME NEW n \in 1..N
        PROVE  g[n] = IF seq[n] \in set THEN Append(g[n - 1], seq[n]) ELSE g[n - 1]
    <3>1. n - 1 \in 0..N /\ n \in Nat
      BY <1>1
    <3> HIDE DEF X
    <3>2. <<g[n - 1], n>> \in X \X Nat
      BY <3>1
    <3> QED  BY <2>1, <3>2
  <2> HIDE DEF N, X
  <2> QED  BY <2>1, <2>2, <1>n
<1>5. Fits(kept)
  <2> HIDE DEF Fits
  <2> QED  BY <1>4
<1>6. Selected(seq, set) = kept[N]
  BY DEF Selected
<1> HIDE DEF kept
<1>7. kept[0] \in X /\ \A n \in 1..N : kept[n] = Next1(kept[n - 1], n)
  <2>1. 0 \in 0..N /\ \A n \in 1..N : n \in 0..N /\ n # 0
    BY <1>1
  <2> HIDE DEF N, X
  <2> QED  BY <1>3, <1>5, <2>1
<1>8. \A n \in 1..N : n \in Nat
  BY <1>1
<1>9. \A n \in 0..N : kept[n] \in X
  <2> HIDE DEF N, X, Fits, Next1
  <2> QED  BY <1>1, <1>2, <1>7, <1>8, StaysIn
<1> QED  BY <1>1, <1>6, <1>9

\* What is reached from a set along pairs within it stays within it.
LEMMA ClosureWithin ==
  ASSUME NEW pairs, IsFiniteSet(pairs), NEW S, NEW roots \in SUBSET S, \A x \in pairs : x[2] \in S
  PROVE  Closure(pairs, roots) \subseteq S
<1> DEFINE N == Cardinality(pairs)
           X == SUBSET S
           Grown(seen) == seen \cup {x[2] : x \in {y \in pairs : y[1] \in seen}}
           step == [x \in X \X Nat |-> Grown(x[1])]
           Fits(g) == g = [n \in 0..N |-> IF n = 0 THEN roots ELSE Grown(g[n - 1])]
           reach == CHOOSE g : Fits(g)
<1>1. N \in Nat
  BY FS_CardinalityType
<1>2. ASSUME NEW s \in X PROVE Grown(s) \in X
  OBVIOUS
<1>3. roots \in X /\ step \in [X \X Nat -> X]
  <2>1. roots \in X
    OBVIOUS
  <2> HIDE DEF X, Grown
  <2> QED  BY <1>2, <2>1
<1>n. \A n \in 0..N : n = 0 \/ (n \in 1..N /\ n # 0)
  BY <1>1
<1>4. \E g : Fits(g)
  <2>1. PICK g \in [0..N -> X] : g[0] = roots /\ \A n \in 1..N : g[n] = step[<<g[n - 1], n>>]
    <3> HIDE DEF N, X, step
    <3>1. \E g \in [0..N -> X] : Iterates(g, N, roots, step)
      BY <1>1, <1>3, Iterated
    <3> QED  BY <3>1 DEF Iterates
  <2>2. ASSUME NEW n \in 1..N PROVE g[n] = Grown(g[n - 1])
    <3>1. n - 1 \in 0..N /\ n \in Nat
      BY <1>1
    <3> HIDE DEF X, Grown
    <3>2. <<g[n - 1], n>> \in X \X Nat
      BY <3>1
    <3> QED  BY <2>1, <3>2
  <2> HIDE DEF N, X, Grown
  <2> QED  BY <2>1, <2>2, <1>n
<1>5. Fits(reach)
  <2> HIDE DEF Fits
  <2> QED  BY <1>4
<1>6. Closure(pairs, roots) = reach[N]
  BY DEF Closure
<1> HIDE DEF reach
<1>7. reach[0] \in X /\ \A n \in 1..N : reach[n] = Grown(reach[n - 1])
  <2>1. 0 \in 0..N /\ \A n \in 1..N : n \in 0..N /\ n # 0
    BY <1>1
  <2> HIDE DEF N, X, Grown
  <2> QED  BY <1>3, <1>5, <2>1
<1>8. \A n \in 0..N : reach[n] \in X
  <2> HIDE DEF N, X, Fits, Grown
  <2> QED  BY <1>1, <1>2, <1>7, StaysIn
<1> QED  BY <1>1, <1>6, <1>8
-----------------------------------------------------------------------------
\* The project.

Tables == TableModels \cup {Source}

\* What the assumption says of the source, the tables and the edges.
LEMMA ProjectFacts ==
  /\ Project.sources = {Source} /\ Source \notin Models /\ Source \in Nat
  /\ Keys(Project) = Models \cup {Source} /\ IsFiniteSet(Keys(Project))
  /\ IsFiniteSet(TableModels) /\ TableModels \subseteq Models /\ Views \subseteq Models
  /\ Models \subseteq Nat /\ Source \in Tables
  /\ \A e \in Edges(Project) : e.down \in Models /\ e.up \in Keys(Project) \ Views
  <1>1. Project.sources = {Source}
    <2>1. PICK s \in Project.sources : Project.sources = {s}
      BY ProjectAssumption
    <2>2. Source \in Project.sources
      BY <2>1 DEF Source
    <2> QED  BY <2>1, <2>2
  <1>2. Keys(Project) = Models \cup {Source}
    BY <1>1 DEF Keys, Models
  <1>3. Source \notin Models
    BY <1>1, ProjectAssumption
  <1>4. IsFiniteSet({Source})
    BY FS_Singleton
  <1>5. IsFiniteSet(Models)
    BY ProjectAssumption
  <1>6. IsFiniteSet(Models \cup {Source})
    BY <1>4, <1>5, FS_Union
  <1>7. IsFiniteSet(TableModels)
    BY <1>5, FS_Subset DEF TableModels
  <1>8. \A e \in Edges(Project) : e.down \in Models /\ e.up \in Keys(Project) \ Views
    <2> TAKE e \in Edges(Project)
    <2>1. e.up \in Keys(Project) \ Views
      BY ProjectAssumption DEF Compiles, ReferencesResolve, TerminalViews, Views
    <2>2. e.down \in Models
      BY ProjectAssumption DEF Edges
    <2> QED  BY <2>1, <2>2
  <1> QED  BY <1>1, <1>2, <1>3, <1>6, <1>7, <1>8, ProjectAssumption DEF TableModels, Tables

\* A table model is driven by a table.
LEMMA DrivingTable == \A m \in TableModels : Driving(m) \in Tables
  <1> TAKE m \in TableModels
  <1>1. PICK e \in Edges(Project) : Drives(e, m)
    BY ProjectAssumption
  <1>2. (CHOOSE f \in Edges(Project) : Drives(f, m)) \in Edges(Project)
    BY <1>1
  <1>3. Driving(m) = (CHOOSE f \in Edges(Project) : Drives(f, m)).up
    BY DEF Driving, DrivingParents
  <1> QED  BY <1>2, <1>3, ProjectFacts DEF Tables, TableModels

\* The order of the project lists its keys; so does any part of it.
LEMMA OrderTyped ==
  /\ Order \in Seq(Keys(Project))
  /\ \A scope : InOrder(scope) \in Seq(Keys(Project) \cap scope)
  /\ \A scope \in SUBSET Models : ByName(scope) \in Seq(scope)
  <1>1. Order \in Seq(Keys(Project))
    BY ProjectFacts, KahnTyped DEF Order, OrderedKeys
  <1>2. \A scope : InOrder(scope) \in Seq(Keys(Project) \cap scope)
    BY <1>1, SelectedTyped DEF InOrder
  <1>3. ASSUME NEW scope \in SUBSET Models PROVE ByName(scope) \in Seq(scope)
    <2>1. scope \in SUBSET Nat /\ IsFiniteSet(scope)
      BY ProjectFacts, ProjectAssumption, FS_Subset
    <2> QED  BY <2>1, KahnTyped DEF ByName
  <1> QED  BY <1>1, <1>2, <1>3

\* The models below a selection are models.
LEMMA DownstreamModels ==
  ASSUME NEW roots \in SUBSET Models, NEW types
  PROVE  Downstream(Project, roots, types) \subseteq Models
  <1> DEFINE pairs == {<<e.up, e.down>> : e \in {f \in Edges(Project) : f.type \in types}}
             K == Keys(Project)
  <1>1. pairs \subseteq K \X K /\ \A x \in pairs : x[2] \in Models
    BY ProjectFacts
  <1>2. IsFiniteSet(K \X K)
    BY ProjectFacts, FS_Product
  <1>3. IsFiniteSet(pairs)
    <2> HIDE DEF pairs, K
    <2> QED  BY <1>1, <1>2, FS_Subset
  <1>4. Downstream(Project, roots, types) = Closure(pairs, roots)
    BY DEF Downstream
  <1> HIDE DEF pairs
  <1> QED  BY <1>1, <1>3, <1>4, ClosureWithin

\* What is missing above a selection are models.
LEMMA MissingModels ==
  ASSUME NEW scope \in SUBSET Models PROVE MissingUpstream(scope) \subseteq Models
<1> DEFINE N == Cardinality(Models)
           X == SUBSET Models
           missing(s) == {m \in Models : /\ ~Exists(m)
                                         /\ \E n \in s : m \in Inputs(n)}
           Grown(s) == s \cup missing(s)
           step == [x \in X \X Nat |-> Grown(x[1])]
           Fits(g) == g = [n \in 0..N |-> IF n = 0 THEN scope ELSE Grown(g[n - 1])]
           grown == CHOOSE g : Fits(g)
<1>1. N \in Nat
  BY ProjectAssumption, FS_CardinalityType
<1>2. ASSUME NEW s \in X PROVE Grown(s) \in X
  OBVIOUS
<1> HIDE DEF missing
<1>3. scope \in X /\ step \in [X \X Nat -> X]
  <2>1. scope \in X
    OBVIOUS
  <2> HIDE DEF X, Grown
  <2> QED  BY <1>2, <2>1
<1>n. \A n \in 0..N : n = 0 \/ (n \in 1..N /\ n # 0)
  BY <1>1
<1>4. \E g : Fits(g)
  <2>1. PICK g \in [0..N -> X] : g[0] = scope /\ \A n \in 1..N : g[n] = step[<<g[n - 1], n>>]
    <3> HIDE DEF N, X, step
    <3>1. \E g \in [0..N -> X] : Iterates(g, N, scope, step)
      BY <1>1, <1>3, Iterated
    <3> QED  BY <3>1 DEF Iterates
  <2>2. ASSUME NEW n \in 1..N PROVE g[n] = Grown(g[n - 1])
    <3>1. n - 1 \in 0..N /\ n \in Nat
      BY <1>1
    <3> HIDE DEF X, Grown
    <3>2. <<g[n - 1], n>> \in X \X Nat
      BY <3>1
    <3> QED  BY <2>1, <3>2
  <2> HIDE DEF N, X, Grown
  <2> QED  BY <2>1, <2>2, <1>n
<1>5. Fits(grown)
  <2> HIDE DEF Fits
  <2> QED  BY <1>4
<1>6. MissingUpstream(scope) = grown[N] \ scope
  BY DEF MissingUpstream, missing
<1> HIDE DEF grown
<1>7. grown[0] \in X /\ \A n \in 1..N : grown[n] = Grown(grown[n - 1])
  <2>1. 0 \in 0..N /\ \A n \in 1..N : n \in 0..N /\ n # 0
    BY <1>1
  <2> HIDE DEF N, X, Grown
  <2> QED  BY <1>3, <1>5, <2>1
<1>8. \A n \in 0..N : grown[n] \in X
  <2> HIDE DEF N, X, Fits, Grown
  <2> QED  BY <1>1, <1>2, <1>7, StaysIn
<1> QED  BY <1>1, <1>6, <1>8
-----------------------------------------------------------------------------
\* The statements of a plan.

Ops == {"prepare kafka", "prepare landing", "pause", "clear", "stage", "swap", "retire",
        "bootstrap", "drop view", "drop table", "create table", "create view",
        "capture", "replay", "activate", "recover staged"}

Statements == [op : Ops, on : Keys(Project)]

\* What holds of statement i of a part of a plan.
Placed(p, s, i) ==
  /\ s[i].op # "activate"
  /\ s[i].op = "prepare landing" => ~p.landing
  /\ s[i].op \in {"create table", "drop table", "capture", "replay"} => s[i].on \in TableModels
  /\ s[i].op \in {"create view", "drop view"} => s[i].on \in Models
  /\ s[i].op \in {"stage", "swap"} => /\ p.recreate
                                      /\ \E j \in 1..(i - 1) : s[j].op = "clear"
                                      /\ \E j \in (i + 1)..Len(s) : s[j].op = "retire"
  /\ s[i].op = "replay" => i > 1 /\ s[i - 1] = Statement("capture", s[i].on)

\* A part of a plan: a staged Kafka table is cleared before and retired after,
\* a replay follows the capture of its boundary.
Fragments(p) == {s \in Seq(Statements) : \A i \in 1..Len(s) : Placed(p, s, i)}

\* A whole plan activates the source last.
Assembled(p, s) ==
  /\ s \in Seq(Statements) /\ Len(s) > 0
  /\ \A i \in 1..Len(s) : IF i = Len(s) THEN s[i] = Statement("activate", Source)
                          ELSE Placed(p, s, i)

\* A part after a part is a part.
LEMMA FragmentsJoin ==
  ASSUME NEW p, NEW s \in Fragments(p), NEW t \in Fragments(p)
  PROVE  s \o t \in Fragments(p)
  <1> DEFINE u == s \o t
  <1>1. s \in Seq(Statements) /\ t \in Seq(Statements) /\ Len(s) \in Nat /\ Len(t) \in Nat
    BY DEF Fragments
  <1>2. /\ u \in Seq(Statements) /\ Len(u) = Len(s) + Len(t)
        /\ \A i \in 1..Len(s) : u[i] = s[i]
        /\ \A i \in 1..Len(t) : u[Len(s) + i] = t[i]
    BY <1>1
  <1> HIDE DEF u
  <1>3. ASSUME NEW i \in 1..Len(s) PROVE Placed(p, u, i)
    <2>1. Placed(p, s, i) /\ u[i] = s[i] /\ i \in 1..Len(u)
      BY <1>1, <1>2 DEF Fragments
    <2>2. \A j \in 1..(i - 1) : u[j] = s[j]
      BY <1>1, <1>2
    <2>3. \A j \in (i + 1)..Len(s) : u[j] = s[j] /\ j \in (i + 1)..Len(u)
      BY <1>1, <1>2
    <2>4. i > 1 => u[i - 1] = s[i - 1]
      BY <1>1, <1>2
    <2> QED  BY <2>1, <2>2, <2>3, <2>4 DEF Placed
  <1>4. ASSUME NEW k \in 1..Len(t) PROVE Placed(p, u, Len(s) + k)
    <2> DEFINE i == Len(s) + k
    <2>1. Placed(p, t, k) /\ u[i] = t[k]
      BY <1>1, <1>2 DEF Fragments
    <2>2. \A j \in 1..(k - 1) : u[Len(s) + j] = t[j] /\ Len(s) + j \in 1..(i - 1)
      BY <1>1, <1>2
    <2>3. \A j \in (k + 1)..Len(t) : u[Len(s) + j] = t[j] /\ Len(s) + j \in (i + 1)..Len(u)
      BY <1>1, <1>2
    <2>4. k > 1 => i > 1 /\ u[i - 1] = t[k - 1]
      <3> SUFFICES ASSUME k > 1 PROVE i > 1 /\ u[i - 1] = t[k - 1]
        OBVIOUS
      <3>1. k - 1 \in 1..Len(t) /\ i - 1 = Len(s) + (k - 1) /\ i > 1
        BY <1>1
      <3> QED  BY <3>1, <1>2
    <2> HIDE DEF i
    <2>5. Placed(p, u, i)
      BY <2>1, <2>2, <2>3, <2>4 DEF Placed
    <2> QED  BY <2>5 DEF i
  <1>5. ASSUME NEW i \in 1..Len(u) PROVE Placed(p, u, i)
    <2>1. CASE i <= Len(s)
      BY <1>1, <1>3, <2>1
    <2>2. CASE i > Len(s)
      <3>1. i - Len(s) \in 1..Len(t) /\ Len(s) + (i - Len(s)) = i
        BY <1>1, <1>2, <2>2
      <3> QED  BY <1>4, <3>1
    <2> QED  BY <1>1, <2>1, <2>2
  <1>6. u \in Fragments(p)
    BY <1>2, <1>5 DEF Fragments
  <1> QED  BY <1>6 DEF u

\* A sequence with one member, and the members of a sequence.
LEMMA OneMember ==
  ASSUME NEW K, NEW x \in K PROVE <<x>> \in Seq(K) /\ Len(<<x>>) = 1 /\ <<x>>[1] = x
  OBVIOUS

LEMMA Members ==
  ASSUME NEW K, NEW s \in Seq(K)
  PROVE  Len(s) \in Nat /\ DOMAIN s = 1..Len(s) /\ \A i \in 1..Len(s) : s[i] \in K
  OBVIOUS

\* A function of the first numbers is a sequence.
LEMMA FunctionSeq ==
  ASSUME NEW K, NEW n \in Nat, NEW s \in [1..n -> K] PROVE s \in Seq(K) /\ Len(s) = n
  OBVIOUS

\* No statement is a part, and a single one that needs no other.
LEMMA EmptyFragment == ASSUME NEW p PROVE <<>> \in Fragments(p)
  BY DEF Fragments

LEMMA OneIndex == \A i \in 1..1 : i = 1
  OBVIOUS

LEMMA SingleFragment ==
  ASSUME NEW p, NEW x \in Statements,
         x.op \in {"prepare kafka", "pause", "bootstrap", "prepare landing", "create view"},
         x.op = "prepare landing" => ~p.landing,
         x.op = "create view" => x.on \in Models
  PROVE  <<x>> \in Fragments(p)
  <1> DEFINE s == <<x>>
  <1>1. s \in Seq(Statements) /\ Len(s) = 1 /\ s[1] = x
    BY OneMember
  <1> HIDE DEF s
  <1>2. Placed(p, s, 1)
    BY <1>1 DEF Placed
  <1>3. \A i \in 1..Len(s) : i = 1
    BY <1>1, OneIndex, Zenon
  <1>4. \A i \in 1..Len(s) : Placed(p, s, i)
    BY <1>2, <1>3, Zenon
  <1>5. s \in Fragments(p)
    BY <1>1, <1>4, Zenon DEF Fragments
  <1> QED  BY <1>5 DEF s

\* The exchange of a drifted Kafka table.
LEMMA ExchangeFragment ==
  ASSUME NEW p
  PROVE  If(p.recreate, <<Statement("clear", Source), Statement("stage", Source),
                          Statement("swap", Source), Statement("retire", Source)>>)
           \in Fragments(p)
  <1>1. <<>> \in Fragments(p)
    BY DEF Fragments
  <1> DEFINE s == <<Statement("clear", Source), Statement("stage", Source),
                    Statement("swap", Source), Statement("retire", Source)>>
  <1>2. /\ s \in Seq(Statements) /\ Len(s) = 4
        /\ s[1].op = "clear" /\ s[2].op = "stage" /\ s[3].op = "swap" /\ s[4].op = "retire"
    BY ProjectFacts DEF Statement, Statements, Ops
  <1> HIDE DEF s
  <1>3. ASSUME p.recreate, NEW i \in 1..4 PROVE Placed(p, s, i)
    <2>1. /\ 1 \in 1..(2 - 1) /\ 1 \in 1..(3 - 1) /\ 4 \in (2 + 1)..4 /\ 4 \in (3 + 1)..4
          /\ i \in {1, 2, 3, 4}
      OBVIOUS
    <2> QED  BY <1>2, <1>3, <2>1 DEF Placed
  <1>4. p.recreate => s \in Fragments(p)
    BY <1>2, <1>3 DEF Fragments
  <1> QED  BY <1>1, <1>4 DEF If, s

\* One statement for each model of a list.
LEMMA EachFragment ==
  ASSUME NEW p, NEW what, NEW K, NEW ms \in Seq(K),
         \/ what \in {"drop view", "create view"} /\ K \subseteq Models
         \/ what \in {"drop table", "create table"} /\ K \subseteq TableModels
  PROVE  Each(what, ms) \in Fragments(p)
  <1> DEFINE s == Each(what, ms)
  <1>1. Len(ms) \in Nat /\ \A i \in 1..Len(ms) : ms[i] \in K
    BY Members
  <1>2. K \subseteq Models /\ Models \subseteq Keys(Project)
    BY ProjectFacts
  <1>3. s = [i \in 1..Len(ms) |-> [op |-> what, on |-> ms[i]]]
    BY DEF Each, Statement
  <1> HIDE DEF s
  <1>4. what \in Ops
    BY DEF Ops
  <1>5. /\ s \in Seq(Statements) /\ Len(s) = Len(ms)
        /\ \A i \in 1..Len(s) : s[i].op = what /\ s[i].on \in K
    <2>1. s \in [1..Len(ms) -> Statements]
      BY <1>1, <1>2, <1>3, <1>4 DEF Statements
    <2>2. s \in Seq(Statements) /\ Len(s) = Len(ms)
      BY <1>1, <2>1, FunctionSeq
    <2> QED  BY <1>1, <1>3, <2>2
  <1>6. \A i \in 1..Len(s) : Placed(p, s, i)
    BY <1>2, <1>5 DEF Placed
  <1>7. s \in Fragments(p)
    BY <1>5, <1>6 DEF Fragments
  <1> QED  BY <1>7 DEF s

\* A reversed list has the same members.
LEMMA ReverseTyped ==
  ASSUME NEW K, NEW s \in Seq(K) PROVE Reverse(s) \in Seq(K)
  <1>1. Len(s) \in Nat /\ \A i \in 1..Len(s) : s[i] \in K /\ (Len(s) - i) + 1 \in 1..Len(s)
    OBVIOUS
  <1> QED  BY <1>1 DEF Reverse

\* The parts of a plan.
LEMMA PreparationFragment == ASSUME NEW p PROVE PreparationStatements(p) \in Fragments(p)
  <1>1. \A c : If(c, <<Statement("prepare kafka", Source)>>) \in Fragments(p)
    <2>1. <<Statement("prepare kafka", Source)>> \in Fragments(p)
      BY SingleFragment, ProjectFacts DEF Statement, Statements, Ops
    <2> QED  BY <2>1, EmptyFragment DEF If
  <1>2. If(~p.landing, <<Statement("prepare landing", Source)>>) \in Fragments(p)
    <2>1. ~p.landing => <<Statement("prepare landing", Source)>> \in Fragments(p)
      BY SingleFragment, ProjectFacts DEF Statement, Statements, Ops
    <2> QED  BY <2>1, EmptyFragment DEF If
  <1>3. \A c : If(c, <<Statement("pause", Source)>>) \in Fragments(p)
    <2>1. <<Statement("pause", Source)>> \in Fragments(p)
      BY SingleFragment, ProjectFacts DEF Statement, Statements, Ops
    <2> QED  BY <2>1, EmptyFragment DEF If
  <1>4. \A c : If(c, <<Statement("bootstrap", Source)>>) \in Fragments(p)
    <2>1. <<Statement("bootstrap", Source)>> \in Fragments(p)
      BY SingleFragment, ProjectFacts DEF Statement, Statements, Ops
    <2> QED  BY <2>1, EmptyFragment DEF If
  <1> QED  BY <1>1, <1>2, <1>3, <1>4, ExchangeFragment, FragmentsJoin
           DEF PreparationStatements

LEMMA TeardownFragment ==
  ASSUME NEW p, p.scope \subseteq Models PROVE TeardownStatements(p) \in Fragments(p)
  <1> DEFINE views == InOrder(p.scope \cap Views)
             tables == InOrder(p.scope \ Views)
             K == Keys(Project)
  <1>1. views \in Seq(K \cap (p.scope \cap Views)) /\ tables \in Seq(K \cap (p.scope \ Views))
    BY OrderTyped
  <1>2. /\ Reverse(views) \in Seq(K \cap (p.scope \cap Views))
        /\ Reverse(tables) \in Seq(K \cap (p.scope \ Views))
    BY <1>1, ReverseTyped
  <1>3. K \cap (p.scope \cap Views) \subseteq Models
    OBVIOUS
  <1>4. K \cap (p.scope \ Views) \subseteq TableModels /\ K \cap (p.scope \ Views) \subseteq Models
    BY DEF TableModels
  <1> HIDE DEF views, tables, K
  <1>5. Each("drop view", Reverse(views)) \in Fragments(p)
    BY <1>2, <1>3, EachFragment
  <1>6. Each("drop view", Reverse(tables)) \in Fragments(p)
    BY <1>2, <1>4, EachFragment
  <1>7. Each("drop table", Reverse(tables)) \in Fragments(p)
    BY <1>2, <1>4, EachFragment
  <1> QED  BY <1>5, <1>6, <1>7, FragmentsJoin DEF TeardownStatements, views, tables

LEMMA RealizationFragment ==
  ASSUME NEW p, p.scope \subseteq Models PROVE RealizationStatements(p) \in Fragments(p)
<1> DEFINE X == Fragments(p)
           tables(m) == {m} \cup Inputs(m) \cup Upstream(Project, Inputs(m), {"driving_input"})
           created(d) == {s.on : s \in Range(d)}
           views == ByName(p.scope \ Views)
           N == Len(views)
           Grown(d, v) == d \o Each("create table", InOrder((tables(v) \cap p.scope)
                                                        \ (Views \cup created(d))))
                            \o <<Statement("create view", v)>>
           Next1(d, n) == IF n \in 1..N THEN Grown(d, views[n]) ELSE d
           step == [x \in X \X Nat |-> Next1(x[1], x[2])]
           Fits(g) == g = [n \in 0..N |-> IF n = 0 THEN <<>> ELSE Grown(g[n - 1], views[n])]
           done == CHOOSE g : Fits(g)
<1>1. views \in Seq(p.scope \ Views)
  BY OrderTyped
<1>2. N \in Nat /\ \A n \in 1..N : views[n] \in p.scope \ Views
  <2> HIDE DEF views
  <2> QED  BY <1>1, Members
<1> HIDE DEF views
<1>3. ASSUME NEW d \in X, NEW v \in p.scope \ Views PROVE Grown(d, v) \in X
  <2> DEFINE new == (tables(v) \cap p.scope) \ (Views \cup created(d))
             K == Keys(Project) \cap new
  <2>1. InOrder(new) \in Seq(K)
    BY OrderTyped
  <2>2. K \subseteq TableModels
    BY DEF TableModels
  <2> HIDE DEF new, K
  <2>3. Each("create table", InOrder(new)) \in X
    BY <2>1, <2>2, EachFragment
  <2>4. Statement("create view", v) \in Statements /\ v \in Models
    BY ProjectFacts DEF Statement, Statements, Ops
  <2>5. Statement("create view", v).op = "create view" /\ Statement("create view", v).on = v
    BY DEF Statement
  <2>6. <<Statement("create view", v)>> \in X
    BY <2>4, <2>5, SingleFragment
  <2>7. d \o Each("create table", InOrder(new)) \in X
    BY <2>3, FragmentsJoin
  <2>8. d \o Each("create table", InOrder(new)) \o <<Statement("create view", v)>> \in X
    BY <2>6, <2>7, FragmentsJoin
  <2> QED  BY <2>8 DEF new
<1> HIDE DEF Grown, tables, created
<1>4. <<>> \in X /\ step \in [X \X Nat -> X]
  <2>1. <<>> \in X
    BY EmptyFragment
  <2>2. ASSUME NEW d \in X, NEW n \in Nat PROVE Next1(d, n) \in X
    BY <1>2, <1>3
  <2> HIDE DEF X, Next1
  <2> QED  BY <2>1, <2>2
<1>n. \A n \in 0..N : n = 0 \/ (n \in 1..N /\ n # 0)
  BY <1>2
<1>5. \E g : Fits(g)
  <2>1. PICK g \in [0..N -> X] : g[0] = <<>> /\ \A n \in 1..N : g[n] = step[<<g[n - 1], n>>]
    <3> HIDE DEF N, X, step
    <3>1. \E g \in [0..N -> X] : Iterates(g, N, <<>>, step)
      BY <1>2, <1>4, Iterated
    <3> QED  BY <3>1 DEF Iterates
  <2>2. ASSUME NEW n \in 1..N PROVE g[n] = Grown(g[n - 1], views[n])
    <3>1. n - 1 \in 0..N /\ n \in Nat
      BY <1>2
    <3> HIDE DEF X, N
    <3>2. <<g[n - 1], n>> \in X \X Nat
      BY <3>1
    <3> QED  BY <2>1, <3>2
  <2> HIDE DEF N, X
  <2>3. ASSUME NEW n \in 0..N
        PROVE  g[n] = IF n = 0 THEN <<>> ELSE Grown(g[n - 1], views[n])
    BY <2>1, <2>2, <1>n
  <2>4. g = [n \in 0..N |-> g[n]]
    BY <2>1
  <2>5. Fits(g)
    BY <2>3, <2>4, Zenon
  <2> QED  BY <2>5
<1>6. Fits(done)
  <2> HIDE DEF Fits
  <2> QED  BY <1>5
<1>7. RealizationStatements(p) = done[N] \o Each("create view", InOrder(p.scope \cap Views))
  BY DEF RealizationStatements, Grown, tables, created, views
<1> HIDE DEF done
<1>8. done[0] \in X /\ \A n \in 1..N : done[n] = Grown(done[n - 1], views[n])
  <2>1. 0 \in 0..N /\ \A n \in 1..N : n \in 0..N /\ n # 0
    BY <1>2
  <2> HIDE DEF N, X
  <2> QED  BY <1>4, <1>6, <2>1
<1>9. \A n \in 0..N : done[n] \in X
  <2>1. \A n \in 1..N : done[n - 1] \in X => done[n] \in X
    BY <1>2, <1>3, <1>8
  <2> HIDE DEF N, X, Fits
  <2> QED  BY <1>2, <1>8, <2>1, StaysIn
<1>10. done[N] \in X
  <2> HIDE DEF X
  <2> QED  BY <1>2, <1>9
<1>11. Each("create view", InOrder(p.scope \cap Views)) \in X
  <2>1. InOrder(p.scope \cap Views) \in Seq(Keys(Project) \cap (p.scope \cap Views))
    BY OrderTyped
  <2>2. Keys(Project) \cap (p.scope \cap Views) \subseteq Models
    OBVIOUS
  <2> QED  BY <2>1, <2>2, EachFragment
<1> HIDE DEF N
<1> QED  BY <1>7, <1>10, <1>11, FragmentsJoin

\* The two statements of each replay.
LEMMA Halves ==
  ASSUME NEW n \in Nat, NEW i \in 1..(2 * n)
  PROVE  /\ (i + 1) \div 2 \in 1..n
         /\ i % 2 # 1 => i > 1 /\ (i - 1) % 2 = 1 /\ ((i - 1) + 1) \div 2 = (i + 1) \div 2
  OBVIOUS

LEMMA ReplayFragment ==
  ASSUME NEW p, p.scope \subseteq Models PROVE ReplayStatements(p) \in Fragments(p)
  <1> DEFINE ms == ReplayModels(p)
             n == Len(ms)
             s == ReplayStatements(p)
             what(i) == IF i % 2 = 1 THEN "capture" ELSE "replay"
             on(i) == ms[(i + 1) \div 2]
  <1>1. ms \in Seq(TableModels)
    <2>1. ReplayRoots(p) \in SUBSET TableModels
      BY DEF ReplayRoots, TableModels
    <2>2. FanInTargets(p) \in SUBSET TableModels
      BY DEF FanInTargets, TableModels
    <2>3. InOrder(ReplayRoots(p)) \in Seq(Keys(Project) \cap ReplayRoots(p))
      BY OrderTyped
    <2>4. ByName(FanInTargets(p)) \in Seq(FanInTargets(p))
      BY <2>2, ProjectFacts, OrderTyped
    <2>5. InOrder(ReplayRoots(p)) \in Seq(TableModels) /\ ByName(FanInTargets(p)) \in Seq(TableModels)
      <3> HIDE DEF ms
      <3> QED  BY <2>1, <2>2, <2>3, <2>4
    <2> QED  BY <2>5 DEF ReplayModels
  <1>2. s = [i \in 1..(2 * n) |-> [op |-> what(i), on |-> on(i)]]
    BY DEF ReplayStatements, Statement
  <1> HIDE DEF ms, s
  <1>3. n \in Nat /\ \A i \in 1..n : ms[i] \in TableModels
    BY <1>1, Members
  <1>4. \A i \in 1..(2 * n) : on(i) \in TableModels
    BY <1>3, Halves
  <1>5. \A i : what(i) \in {"capture", "replay"} /\ what(i) \in Ops
    BY DEF Ops
  <1>6. TableModels \subseteq Keys(Project)
    BY ProjectFacts
  <1>7. ASSUME NEW i \in 1..(2 * n), what(i) = "replay"
        PROVE  i > 1 /\ i - 1 \in 1..(2 * n) /\ what(i - 1) = "capture" /\ on(i - 1) = on(i)
    <2>1. i % 2 # 1
      BY <1>7
    <2>2. i > 1 /\ (i - 1) % 2 = 1 /\ ((i - 1) + 1) \div 2 = (i + 1) \div 2
      BY <1>3, <2>1, Halves
    <2> QED  BY <1>3, <2>2
  <1>8. s \in [1..(2 * n) -> Statements]
    <2> HIDE DEF what, on, n
    <2> QED  BY <1>2, <1>4, <1>5, <1>6 DEF Statements
  <1>9. s \in Seq(Statements) /\ Len(s) = 2 * n
    <2>1. 2 * n \in Nat
      BY <1>3
    <2> HIDE DEF n
    <2> QED  BY <1>8, <2>1, FunctionSeq
  <1>10. ASSUME NEW i \in 1..(2 * n) PROVE Placed(p, s, i)
    <2>1. s[i].op = what(i) /\ s[i].on = on(i)
      <3> HIDE DEF what, on, n
      <3> QED  BY <1>2
    <2>2. what(i) = "replay" => i > 1 /\ s[i - 1] = [op |-> "capture", on |-> on(i)]
      <3> SUFFICES ASSUME what(i) = "replay" PROVE i > 1 /\ s[i - 1] = [op |-> "capture", on |-> on(i)]
        OBVIOUS
      <3>1. i > 1 /\ i - 1 \in 1..(2 * n) /\ what(i - 1) = "capture" /\ on(i - 1) = on(i)
        BY <1>7
      <3> HIDE DEF what, on, n
      <3> QED  BY <1>2, <3>1
    <2>3. on(i) \in TableModels
      BY <1>4
    <2>4. what(i) \in {"capture", "replay"}
      BY <1>5
    <2> HIDE DEF what, on, n
    <2> QED  BY <2>1, <2>2, <2>3, <2>4 DEF Placed, Statement
  <1> HIDE DEF n
  <1>11. s \in Fragments(p)
    BY <1>9, <1>10 DEF Fragments
  <1> QED  BY <1>11 DEF s

\* The statements of a plan over models are those of a whole plan.
LEMMA AssembledPlan ==
  ASSUME NEW p, p.scope \subseteq Models PROVE Assembled(p, AssembleStatements(p))
  <1> DEFINE body == PreparationStatements(p) \o TeardownStatements(p) \o RealizationStatements(p)
                       \o ReplayStatements(p)
             last == Statement("activate", Source)
             s == body \o <<last>>
  <1>1. body \in Fragments(p)
    BY PreparationFragment, TeardownFragment, RealizationFragment, ReplayFragment, FragmentsJoin
  <1>2. AssembleStatements(p) = s
    BY DEF AssembleStatements
  <1>3. last \in Statements
    BY ProjectFacts DEF Statement, Statements, Ops
  <1> HIDE DEF body, last
  <1>4. body \in Seq(Statements) /\ \A i \in 1..Len(body) : Placed(p, body, i)
    BY <1>1 DEF Fragments
  <1>5. /\ s \in Seq(Statements) /\ Len(body) \in Nat /\ Len(s) = Len(body) + 1
        /\ s[Len(s)] = last /\ \A i \in 1..Len(body) : s[i] = body[i]
    <2> HIDE DEF Statements
    <2> QED  BY <1>3, <1>4
  <1> HIDE DEF s
  <1>6. ASSUME NEW i \in 1..Len(body) PROVE Placed(p, s, i)
    <2>1. Placed(p, body, i) /\ s[i] = body[i]
      BY <1>4, <1>5
    <2>2. \A j \in 1..(i - 1) : s[j] = body[j]
      BY <1>5
    <2>3. \A j \in (i + 1)..Len(body) : s[j] = body[j] /\ j \in (i + 1)..Len(s)
      BY <1>5
    <2>4. i > 1 => s[i - 1] = body[i - 1]
      BY <1>5
    <2> QED  BY <2>1, <2>2, <2>3, <2>4 DEF Placed
  <1>7. \A i \in 1..Len(s) : i = Len(s) \/ i \in 1..Len(body)
    BY <1>5
  <1>8. Assembled(p, s)
    <2>1. Len(s) > 0
      BY <1>5
    <2> QED  BY <1>5, <1>6, <1>7, <2>1 DEF Assembled, last
  <1> QED  BY <1>2, <1>8
-----------------------------------------------------------------------------
\* The inductive invariant.

Row == [Events -> Nat]

Rows == [Tables -> Row \cup {None}]

Plans == [scope : SUBSET Models, added : SUBSET Models, start : Nat, kafka : BOOLEAN,
          landing : BOOLEAN, view : BOOLEAN, recreate : BOOLEAN, version : [Models -> 1..2],
          declared : 1..2]

Phases == {"idle", "planned", "reset", "run", "recover", "failed"}

Busy == {"reset", "run", "recover", "failed"}

Mishaps == {"crash", "not recovered", "not reset", "stale reset"}

Purses == [builds : Nat, faults : Nat, crashes : Nat, edits : Nat, resets : Nat,
           selects : SUBSET Models, starts : SUBSET Nat,
           lineage : {"offsets", "cursor", "timestamp"}]

Histories == [fed : BOOLEAN, built : SUBSET Models, unrecorded : SUBSET Models,
              mishaps : SUBSET Mishaps, left : [TableModels -> SUBSET Events]]

Records == [pc : Phases, plan : Plans \cup {None}, steps : Seq(Statements), at : Nat,
            fix : Nat, captured : Row \cup {None}]

\* The types of what is deployed.
TargetTyped ==
  /\ kafka \in Versions /\ staged \in Versions /\ flowing \in BOOLEAN
  /\ rows \in Rows /\ live \in [Models -> Versions]
  /\ history \in Histories

Typed ==
  /\ version \in [Models -> 1..2] /\ declared \in 1..2
  /\ topic \in 0..MaxEvents /\ offset \in 0..topic
  /\ TargetTyped
  /\ baseline \in [Models -> Versions] /\ lock \in Builders \cup {None}
  /\ spent \in Purses

\* A builder's plan, and how far it is: a replay has its boundary.
Shaped(r) ==
  r.pc # "idle" =>
    /\ r.plan \in Plans /\ Assembled(r.plan, r.steps)
    /\ r.at \in 1..(Len(r.steps) + 1) /\ r.fix > 0
    /\ r.pc \in {"planned", "reset"} => r.at = 1
    /\ r.pc \in {"planned", "reset", "run"} => r.fix = 1
    /\ r.pc = "recover" => r.at <= Len(r.steps)
    /\ (r.pc = "run" /\ r.at <= Len(r.steps) /\ r.steps[r.at].op = "replay") => r.captured # None

Shapes == {r \in Records : Shaped(r)}

\* One builder at work, and a lock without one is that of a killed build.
Locked ==
  /\ \A b \in Builders : build[b].pc \in Busy => lock = b
  /\ lock # None /\ build[lock].pc \notin Busy => "crash" \in history.mishaps

\* The landing view has what it reads and writes.
Fed == flowing => kafka # 0 /\ Present(Source)

OffsetsTrue == history.mishaps \cap {"not reset", "stale reset"} = {}

\* A landing table that a running build has to create starts at the beginning.
Fresh(r) ==
  r.pc = "run" /\ ~r.plan.landing /\ ~Present(Source) /\ OffsetsTrue => offset = 0

Clean == history.mishaps \cap {"crash", "not recovered"} = {}

Restored == staged = 0 /\ (history.fed => flowing)

\* What a build has disturbed of the source it will have noticed, and restores.
Restoring(r) ==
  /\ r.pc \in {"reset", "failed"} => Restored
  /\ r.pc = "run" =>
       /\ ~Restored => \E i \in 1..(r.at - 1) : r.steps[i].op \in {"pause", "clear"}
       /\ staged # 0 => /\ r.plan.recreate
                        /\ \E i \in r.at..Len(r.steps) : r.steps[i].op = "retire"
       /\ r.at > Len(r.steps) => flowing
  /\ r.pc = "recover" =>
       /\ staged # 0 => r.plan.recreate /\ r.fix = 1
       /\ r.fix > (IF r.plan.recreate THEN 2 ELSE 1) => flowing

SourceKept ==
  Clean => /\ lock = None => Restored
           /\ \A b \in Builders : Restoring(build[b])

DirectInv ==
  /\ Typed
  /\ build \in [Builders -> Shapes]
  /\ Locked /\ Fed
  /\ LandedOnce /\ \A b \in Builders : Fresh(build[b])
  /\ SourceKept
-----------------------------------------------------------------------------
\* An insert.

LEMMA RowFacts ==
  /\ NoRows \in Row /\ None \notin Row
  /\ \A e \in Nat : OnlyEvent(e) \in Row
  /\ \A r \in Row, e \in Events : r[e] \in Nat
  BY BoundsAssumption DEF NoRows, Row, OnlyEvent

LEMMA EventsNumbered == Events \subseteq Nat
  BY BoundsAssumption DEF Events

\* No event has landed.
LEMMA NothingLanded == NoRows = [e \in Events |-> IF e <= 0 THEN 1 ELSE 0]
  <1>1. \A e \in Events : ~(e <= 0)
    BY BoundsAssumption DEF Events
  <1> QED  BY <1>1 DEF NoRows

\* One more event has landed.
LEMMA OneMore ==
  ASSUME NEW n \in Nat, NEW r, r = [e \in Events |-> IF e <= n THEN 1 ELSE 0]
  PROVE  [e \in Events |-> r[e] + OnlyEvent(n + 1)[e]]
           = [e \in Events |-> IF e <= n + 1 THEN 1 ELSE 0]
  <1>1. ASSUME NEW e \in Events
        PROVE  r[e] + OnlyEvent(n + 1)[e] = IF e <= n + 1 THEN 1 ELSE 0
    <2>1. e \in Nat
      BY EventsNumbered
    <2> DEFINE was == r[e]
               now == OnlyEvent(n + 1)[e]
    <2>2. was = IF e <= n THEN 1 ELSE 0
      OBVIOUS
    <2>3. now = IF e = n + 1 THEN 1 ELSE 0
      BY DEF OnlyEvent
    <2> HIDE DEF was, now
    <2>4. was + now = IF e <= n + 1 THEN 1 ELSE 0
      BY <2>1, <2>2, <2>3
    <2> QED  BY <2>4 DEF was, now
  <1> QED  BY <1>1

LEMMA JoinedTyped ==
  ASSUME NEW m, NEW new \in Row PROVE Joined(m, new) \in Row
  BY DEF Joined, Row

\* What an insert adds are rows; to the landing table it adds what is inserted
\* there, and an insert into a model adds nothing.
LEMMA PushedTyped ==
  ASSUME NEW x \in Tables, NEW new \in Row
  PROVE  /\ Pushed(x, new) \in [Tables -> Row]
         /\ Pushed(x, new)[Source] = IF x = Source THEN new ELSE NoRows
<1> DEFINE N == Cardinality(TableModels)
           X == {d \in [Tables -> Row] : d[Source] = IF x = Source THEN new ELSE NoRows}
           base == [y \in Tables |-> IF y = x THEN new ELSE NoRows]
           Grown(d) == [y \in Tables |-> IF y = x THEN new
                                         ELSE IF y # Source /\ live[y] # 0
                                         THEN Joined(y, d[Driving(y)]) ELSE NoRows]
           step == [z \in X \X Nat |-> Grown(z[1])]
           Fits(g) == g = [n \in 0..N |->
                             [y \in Tables |-> IF y = x THEN new
                                               ELSE IF n > 0 /\ y # Source /\ live[y] # 0
                                               THEN Joined(y, g[n - 1][Driving(y)]) ELSE NoRows]]
           delta == CHOOSE g : Fits(g)
<1>1. N \in Nat
  BY ProjectFacts, FS_CardinalityType
<1>2. ASSUME NEW d \in X PROVE Grown(d) \in X
  <2>1. ASSUME NEW y \in Tables PROVE Grown(d)[y] \in Row
    <3>1. CASE y \in TableModels
      <4>1. d[Driving(y)] \in Row
        BY <3>1, DrivingTable
      <4>2. Joined(y, d[Driving(y)]) \in Row
        BY <4>1, JoinedTyped
      <4> QED  BY <4>2, RowFacts
    <3>2. CASE y = Source
      BY <3>2, RowFacts
    <3> QED  BY <3>1, <3>2 DEF Tables
  <2>2. Grown(d)[Source] = IF x = Source THEN new ELSE NoRows
    BY ProjectFacts
  <2>3. Grown(d) \in [Tables -> Row]
    <3>1. Grown(d) = [y \in Tables |-> Grown(d)[y]]
      OBVIOUS
    <3> HIDE DEF Grown
    <3> QED  BY <2>1, <3>1
  <2> HIDE DEF Grown
  <2> QED  BY <2>2, <2>3
<1>3. base \in X /\ step \in [X \X Nat -> X]
  <2>1. base \in X
    BY RowFacts, ProjectFacts
  <2> HIDE DEF X, Grown, base
  <2> QED  BY <1>2, <2>1
<1>n. \A n \in 0..N : n = 0 \/ (n \in 1..N /\ n # 0 /\ n > 0)
  BY <1>1
<1>4. \E g : Fits(g)
  <2>1. PICK g \in [0..N -> X] : g[0] = base /\ \A n \in 1..N : g[n] = step[<<g[n - 1], n>>]
    <3> HIDE DEF N, X, step, base
    <3>1. \E g \in [0..N -> X] : Iterates(g, N, base, step)
      BY <1>1, <1>3, Iterated
    <3> QED  BY <3>1 DEF Iterates
  <2>2. ASSUME NEW n \in 1..N PROVE g[n] = Grown(g[n - 1])
    <3>1. n - 1 \in 0..N /\ n \in Nat
      BY <1>1
    <3> HIDE DEF X, Grown
    <3>2. <<g[n - 1], n>> \in X \X Nat
      BY <3>1
    <3> QED  BY <2>1, <3>2
  <2> HIDE DEF N, X
  <2>3. ASSUME NEW n \in 0..N
        PROVE  g[n] = [y \in Tables |-> IF y = x THEN new
                                        ELSE IF n > 0 /\ y # Source /\ live[y] # 0
                                        THEN Joined(y, g[n - 1][Driving(y)]) ELSE NoRows]
    <3>1. CASE n = 0
      BY <2>1, <3>1
    <3>2. CASE n \in 1..N /\ n > 0
      BY <2>2, <3>2
    <3> QED  BY <1>n, <3>1, <3>2
  <2>4. g = [n \in 0..N |-> g[n]]
    BY <2>1
  <2>5. Fits(g)
    BY <2>3, <2>4, Zenon
  <2> QED  BY <2>5
<1>5. Fits(delta)
  <2> HIDE DEF Fits
  <2> QED  BY <1>4
<1>6. Pushed(x, new) = delta[N]
  BY DEF Pushed, Tables
<1> HIDE DEF delta
<1>7. delta[0] = base /\ \A n \in 1..N : delta[n] = Grown(delta[n - 1])
  <2>1. 0 \in 0..N /\ ~(0 > 0) /\ \A n \in 1..N : n \in 0..N /\ n > 0
    BY <1>1
  <2> HIDE DEF N, X
  <2>2. delta[0] = base
    BY <1>5, <2>1
  <2>3. ASSUME NEW n \in 1..N PROVE delta[n] = Grown(delta[n - 1])
    BY <1>5, <2>1
  <2> QED  BY <2>2, <2>3
<1>8. \A n \in 0..N : delta[n] \in X
  <2> HIDE DEF N, X, Fits, Grown, base
  <2> QED  BY <1>1, <1>2, <1>3, <1>7, StaysIn
<1>9. delta[N] \in X
  <2> HIDE DEF X, N
  <2> QED  BY <1>1, <1>8
<1> QED  BY <1>6, <1>9

LEMMA InsertedTyped ==
  ASSUME rows \in Rows, NEW x \in Tables, NEW new \in Row
  PROVE  /\ Inserted(x, new) \in Rows
         /\ \A y \in Tables : (Inserted(x, new)[y] = None) <=> (rows[y] = None)
         /\ x # Source => Inserted(x, new)[Source] = rows[Source]
         /\ (x = Source /\ rows[Source] # None)
               => Inserted(x, new)[Source] = [e \in Events |-> rows[Source][e] + new[e]]
  <1> DEFINE d == Pushed(x, new)
             r == Inserted(x, new)
             sum(y) == [e \in Events |-> rows[y][e] + d[y][e]]
  <1>1. d \in [Tables -> Row] /\ d[Source] = IF x = Source THEN new ELSE NoRows
    BY PushedTyped
  <1>2. r = [y \in Tables |-> IF rows[y] = None THEN None ELSE sum(y)]
    BY DEF Inserted, Rows
  <1> HIDE DEF d, r
  <1>3. ASSUME NEW y \in Tables, rows[y] # None PROVE sum(y) \in Row /\ sum(y) # None
    <2>1. rows[y] \in Row /\ d[y] \in Row
      BY <1>1, <1>3 DEF Rows
    <2>2. sum(y) \in Row
      BY <2>1 DEF Row
    <2> QED  BY <2>2, RowFacts
  <1>4. r \in Rows /\ \A y \in Tables : (r[y] = None) <=> (rows[y] = None)
    <2> HIDE DEF sum
    <2> QED  BY <1>2, <1>3 DEF Rows
  <1>5. x # Source => r[Source] = rows[Source]
    <2> SUFFICES ASSUME x # Source, rows[Source] # None PROVE r[Source] = rows[Source]
      BY <1>2, ProjectFacts
    <2>1. r[Source] = sum(Source) /\ rows[Source] \in Row /\ d[Source] = NoRows
      BY <1>1, <1>2, ProjectFacts DEF Rows
    <2>2. \A e \in Events : rows[Source][e] + NoRows[e] = rows[Source][e]
      BY <2>1 DEF Row, NoRows
    <2> QED  BY <2>1, <2>2 DEF Row
  <1>6. (x = Source /\ rows[Source] # None) => r[Source] = [e \in Events |-> rows[Source][e] + new[e]]
    BY <1>1, <1>2, ProjectFacts
  <1> QED  BY <1>4, <1>5, <1>6 DEF r
-----------------------------------------------------------------------------
\* What a statement does.

\* What the execution knows of a statement before it runs it.
Runnable(b, s) ==
  /\ s \in Statements
  /\ s.op \in {"create table", "drop table", "capture", "replay"} => s.on \in TableModels
  /\ s.op = "replay" => build[b].captured \in Row

FlowingAfter(op) ==
  IF op = "pause" THEN FALSE ELSE IF op \in {"bootstrap", "activate"} THEN TRUE ELSE flowing

\* A statement that works changes the source as its name says, and the landing
\* table only by creating it.
Effect(s) ==
  /\ history'.mishaps = history.mishaps
  /\ history'.fed = (history.fed \/ flowing')
  /\ flowing' = FlowingAfter(s.op)
  /\ s.op \in {"clear", "retire", "recover staged"} => staged' = 0
  /\ s.op \notin {"clear", "retire", "recover staged", "stage", "swap"} => staged' = staged
  /\ rows'[Source] # rows[Source] =>
       s.op = "prepare landing" /\ rows[Source] = None /\ rows'[Source] = NoRows

\* A boundary holds rows of the driving input, and all but those it may leave out.
LEMMA BoundaryFacts ==
  ASSUME NEW m \in TableModels, NEW start, NEW now, rows[Driving(m)] \in Row
  PROVE  /\ Boundary(m, start, now) \in Row
         /\ \A e \in Events : Boundary(m, start, now)[e] <= rows[Driving(m)][e]
  <1> DEFINE r == rows[Driving(m)]
             In(e) == InWindow(e, m, start, now)
  <1>1. Boundary(m, start, now) = [e \in Events |-> IF In(e) THEN r[e] ELSE 0]
    BY DEF Boundary
  <1> HIDE DEF r, In
  <1>2. r \in [Events -> Nat]
    BY DEF r, Row
  <1>3. [e \in Events |-> IF In(e) THEN r[e] ELSE 0] \in [Events -> Nat]
    BY <1>2
  <1>4. \A e \in Events : (IF In(e) THEN r[e] ELSE 0) <= r[e]
    BY <1>2
  <1> QED  BY <1>1, <1>3, <1>4 DEF r, Row

LEMMA WindowFacts ==
  ASSUME NEW m \in TableModels, NEW start \in Nat, NEW now \in Nat, spent \in Purses,
         NEW e \in Read(m), e \notin MayLeave(m, start, now)
  PROVE  InWindow(e, m, start, now)
  <1> DEFINE t == Stamp[e]
  <1>1. Read(m) \subseteq Events /\ Read(m) \subseteq Nat
    BY EventsNumbered DEF Read
  <1>2. \A f \in Read(m) : f \in Nat /\ Stamp[f] \in Nat
    BY <1>1, BoundsAssumption
  <1>3. CASE spent.lineage = "offsets"
    <2>1. \A f \in Read(m) : ~(e < f /\ Stamp[f] <= start)
      BY <1>3 DEF MayLeave
    <2>2. \A f \in Read(m) : Stamp[f] <= start => f <= e
      BY <1>2, <2>1
    <2> QED  BY <1>3, <2>2 DEF InWindow
  <1>4. CASE spent.lineage = "cursor"
    <2>1. ~(t < start)
      BY <1>4 DEF MayLeave
    <2>2. e <= e /\ t >= start
      BY <1>2, <2>1
    <2> QED  BY <1>4, <2>2 DEF InWindow
  <1>5. CASE spent.lineage = "timestamp"
    <2>1. ~(t < start) /\ ~(now < t)
      BY <1>5 DEF MayLeave
    <2>2. start <= t /\ t <= now
      BY <1>2, <2>1
    <2> QED  BY <1>5, <2>2 DEF InWindow
  <1>6. spent.lineage \in {"offsets", "cursor", "timestamp"}
    BY DEF Purses
  <1> QED  BY <1>3, <1>4, <1>5, <1>6

LEMMA BoundaryComplete ==
  ASSUME NEW m \in TableModels, NEW start \in Nat, NEW now \in Nat, spent \in Purses,
         rows[Driving(m)] \in Row, NEW e \in Events, e \notin MayLeave(m, start, now)
  PROVE  Boundary(m, start, now)[e] = rows[Driving(m)][e]
  <1>1. Boundary(m, start, now)[e] = IF InWindow(e, m, start, now) THEN rows[Driving(m)][e] ELSE 0
    BY DEF Boundary
  <1>2. CASE e \in Read(m)
    BY <1>1, <1>2, WindowFacts
  <1>3. CASE e \notin Read(m)
    <2>1. rows[Driving(m)][e] = 0
      <3>1. rows[Driving(m)][e] \in Nat /\ ~(rows[Driving(m)][e] > 0)
        BY <1>3 DEF Row, Read
      <3> QED  BY <3>1
    <2> QED  BY <1>1, <2>1
  <1> QED  BY <1>2, <1>3

\* What the replays of a table may have left out.
LEMMA LeftFacts ==
  ASSUME history \in Histories, NEW b \in Builders, NEW s, NEW now,
         s.op \in {"create table", "capture"} => s.on \in TableModels
  PROVE  /\ Left(b, s, now) \in [TableModels -> SUBSET Events]
         /\ \A m \in TableModels \ {s.on} : Left(b, s, now)[m] = history.left[m]
         /\ s.op # "create table" =>
              \A m \in TableModels : history.left[m] \subseteq Left(b, s, now)[m]
         /\ s.op \notin {"create table", "capture"} => Left(b, s, now) = history.left
         /\ s.op = "capture" =>
              MayLeave(s.on, build[b].plan.start, now) \subseteq Left(b, s, now)[s.on]
  <1> DEFINE left == history.left
             may == MayLeave(s.on, build[b].plan.start, now)
  <1>1. left \in [TableModels -> SUBSET Events] /\ may \subseteq Events
    BY DEF Histories, MayLeave, Read
  <1>2. CASE s.op = "create table"
    <2>1. s.on \in TableModels /\ Left(b, s, now) = [left EXCEPT ![s.on] = {}]
      BY <1>2 DEF Left
    <2> HIDE DEF left, may
    <2> QED  BY <1>1, <1>2, <2>1 DEF left
  <1>3. CASE s.op = "capture"
    <2>1. s.on \in TableModels /\ Left(b, s, now) = [left EXCEPT ![s.on] = @ \cup may]
      BY <1>3 DEF Left
    <2> HIDE DEF left, may
    <2> QED  BY <1>1, <1>3, <2>1 DEF left, may
  <1>4. CASE s.op \notin {"create table", "capture"}
    <2>1. Left(b, s, now) = left
      BY <1>4 DEF Left
    <2> HIDE DEF left, may
    <2> QED  BY <1>1, <1>4, <2>1 DEF left
  <1> QED  BY <1>2, <1>3, <1>4

LEMMA SourceChanged ==
  ASSUME TargetTyped, Fed, NEW b \in Builders, NEW s, Runnable(b, s), build[b].plan \in Plans,
         Works(b, s), NEW now, ChangeSource(b, s, now)
  PROVE  /\ kafka' \in Versions /\ staged' \in Versions /\ flowing' \in BOOLEAN
         /\ history' \in Histories
         /\ history'.mishaps = history.mishaps /\ history'.fed = (history.fed \/ flowing')
         /\ flowing' = FlowingAfter(s.op)
         /\ s.op \in {"clear", "retire", "recover staged"} => staged' = 0
         /\ s.op \notin {"clear", "retire", "recover staged", "stage", "swap"} => staged' = staged
         /\ kafka # 0 => kafka' # 0
         /\ flowing' => kafka' # 0 /\ Present(Source)
  <1> DEFINE p == build[b].plan
  <1>1. p.declared \in Versions /\ 0 \in Versions
    BY DEF Plans, Versions
  <1>2. flowing' = FlowingAfter(s.op) /\ flowing' \in BOOLEAN
    BY DEF ChangeSource, FlowingAfter, TargetTyped
  <1>3. /\ kafka' \in Versions /\ staged' \in Versions
        /\ s.op \in {"clear", "retire", "recover staged"} => staged' = 0
        /\ s.op \notin {"clear", "retire", "recover staged", "stage", "swap"} => staged' = staged
    <2>1. kafka \in Versions /\ staged \in Versions
      BY DEF TargetTyped
    <2>2. kafka' \in Versions
      BY <1>1, <2>1 DEF ChangeSource
    <2>3. /\ staged' \in Versions
          /\ s.op \in {"clear", "retire", "recover staged"} => staged' = 0
          /\ s.op \notin {"clear", "retire", "recover staged", "stage", "swap"} => staged' = staged
      BY <1>1, <2>1 DEF ChangeSource
    <2> QED  BY <2>2, <2>3
  <1>4. s.op = "swap" => kafka # 0 /\ staged # 0
    BY DEF Works
  <1>5. s.op \in {"bootstrap", "activate"} => kafka # 0 /\ Present(Source)
    BY DEF Works
  <1>6. kafka # 0 => kafka' # 0
    BY <1>4 DEF ChangeSource
  <1>7. flowing' => kafka' # 0 /\ Present(Source)
    BY <1>2, <1>5, <1>6 DEF FlowingAfter, Fed
  <1>8. /\ history' \in Histories
        /\ history'.mishaps = history.mishaps /\ history'.fed = (history.fed \/ flowing')
    <2> DEFINE new == Left(b, s, now)
    <2>1. history' = [history EXCEPT !.fed = @ \/ flowing', !.built = @ \ ({s.on} \cap Models),
                                     !.left = new]
      BY DEF ChangeSource
    <2>2. history \in Histories
      BY DEF TargetTyped
    <2>3. new \in [TableModels -> SUBSET Events]
      <3>1. s.op \in {"create table", "capture"} => s.on \in TableModels
        BY DEF Runnable
      <3> QED  BY <2>2, <3>1, LeftFacts
    <2> HIDE DEF new
    <2> QED  BY <1>2, <2>1, <2>2, <2>3 DEF Histories
  <1> QED  BY <1>2, <1>3, <1>6, <1>7, <1>8

LEMMA TablesChanged ==
  ASSUME TargetTyped, NEW b \in Builders, NEW s, Runnable(b, s), NEW whole \in BOOLEAN,
         Works(b, s), ChangeTables(b, s, whole)
  PROVE  /\ rows' \in Rows
         /\ rows'[Source] # rows[Source] =>
              s.op = "prepare landing" /\ rows[Source] = None /\ rows'[Source] = NoRows
  <1>1. rows \in Rows /\ NoRows \in Row /\ Source \in Tables /\ DOMAIN rows = Tables
    BY RowFacts, ProjectFacts DEF TargetTyped, Rows
  <1>2. \A m \in TableModels : m \in Tables /\ m # Source
    BY ProjectFacts DEF Tables
  <1>3. CASE s.op = "replay"
    <2>1. PICK new \in Part(build[b].captured, whole) : rows' = Inserted(s.on, Joined(s.on, new))
      BY <1>3 DEF ChangeTables
    <2>2. new \in Row
      BY <1>3 DEF Runnable, Part, Row
    <2>3. Joined(s.on, new) \in Row /\ s.on \in TableModels
      BY <1>3, <2>2, JoinedTyped DEF Runnable
    <2> QED  BY <1>1, <1>2, <2>1, <2>3, InsertedTyped
  <1>4. CASE s.op = "prepare landing" /\ ~Present(Source)
    <2>1. rows' = [rows EXCEPT ![Source] = NoRows] /\ rows[Source] = None
      BY <1>1, <1>4 DEF ChangeTables, Present
    <2> QED  BY <1>1, <1>4, <2>1 DEF Rows
  <1>5. CASE s.op = "create table"
    <2>1. rows' = [rows EXCEPT ![s.on] = NoRows] /\ s.on \in TableModels
      BY <1>5 DEF ChangeTables, Runnable
    <2> QED  BY <1>1, <1>2, <2>1 DEF Rows
  <1>6. CASE s.op = "drop table"
    <2>1. rows' = [rows EXCEPT ![s.on] = None] /\ s.on \in TableModels
      BY <1>6 DEF ChangeTables, Runnable
    <2> QED  BY <1>1, <1>2, <2>1 DEF Rows
  <1>7. CASE /\ s.op \notin {"replay", "create table", "drop table"}
             /\ ~(s.op = "prepare landing" /\ ~Present(Source))
    BY <1>1, <1>7 DEF ChangeTables
  <1> QED  BY <1>3, <1>4, <1>5, <1>6, <1>7

LEMMA Applied ==
  ASSUME TargetTyped, Fed, NEW b \in Builders, NEW s, Runnable(b, s), build[b].plan \in Plans,
         NEW whole \in BOOLEAN, Works(b, s), NEW now, Apply(b, s, whole, now)
  PROVE  TargetTyped' /\ Fed' /\ Effect(s)
  <1>1. rows' \in Rows /\ (rows'[Source] # rows[Source] =>
              s.op = "prepare landing" /\ rows[Source] = None /\ rows'[Source] = NoRows)
    BY TablesChanged DEF Apply
  <1>2. live' \in [Models -> Versions]
    <2>1. live \in [Models -> Versions] /\ 0 \in Versions
      BY DEF TargetTyped, Versions
    <2>2. \A m \in Models : build[b].plan.version[m] \in Versions
      BY DEF Plans, Versions
    <2>3. ChangeViews(b, s)
      BY DEF Apply
    <2>4. CASE s.op = "drop view"
      BY <2>1, <2>3, <2>4 DEF ChangeViews
    <2>5. CASE s.op = "create view"
      BY <2>1, <2>2, <2>3, <2>5 DEF ChangeViews
    <2>6. CASE s.op \notin {"drop view", "create view"}
      BY <2>1, <2>3, <2>6 DEF ChangeViews
    <2> QED  BY <2>4, <2>5, <2>6
  <1>3. /\ kafka' \in Versions /\ staged' \in Versions /\ flowing' \in BOOLEAN
        /\ history' \in Histories
        /\ history'.mishaps = history.mishaps /\ history'.fed = (history.fed \/ flowing')
        /\ flowing' = FlowingAfter(s.op)
        /\ s.op \in {"clear", "retire", "recover staged"} => staged' = 0
        /\ s.op \notin {"clear", "retire", "recover staged", "stage", "swap"} => staged' = staged
        /\ flowing' => kafka' # 0 /\ Present(Source)
    BY SourceChanged DEF Apply
  <1>4. TargetTyped'
    BY <1>1, <1>2, <1>3 DEF TargetTyped
  <1>5. Effect(s)
    BY <1>1, <1>3 DEF Effect
  <1>6. Present(Source) => Present(Source)'
    <2>1. DOMAIN rows = Tables /\ DOMAIN rows' = Tables /\ NoRows # None
      BY <1>1, RowFacts DEF TargetTyped, Rows
    <2> QED  BY <1>1, <2>1 DEF Present
  <1>7. Fed'
    BY <1>3, <1>6 DEF Fed
  <1> QED  BY <1>4, <1>5, <1>7
-----------------------------------------------------------------------------
\* The initial state, and the steps that are no builder's.

LEMMA IdleShape == Idle \in Shapes
  <1>1. <<>> \in Seq(Statements)
    OBVIOUS
  <1>2. Idle \in Records
    <2> HIDE DEF Statements
    <2> QED  BY <1>1 DEF Idle, Records, Phases
  <1>3. Shaped(Idle)
    BY DEF Shaped, Idle
  <1> QED  BY <1>2, <1>3 DEF Shapes

LEMMA InitDirect == Init => DirectInv
  <1> SUFFICES ASSUME Init PROVE DirectInv
    OBVIOUS
  <1> USE DEF Init
  <1>1. Typed
    <2>1. TargetTyped
      <3>1. rows \in Rows
        BY DEF Rows, Tables
      <3>2. history \in Histories
        BY DEF Histories
      <3>3. 0 \in Versions
        BY DEF Versions
      <3> QED  BY <3>1, <3>2, <3>3 DEF TargetTyped
    <2>3. spent \in Purses
      BY BoundsAssumption DEF Purses
    <2>4. topic \in 0..MaxEvents /\ offset \in 0..topic
      BY BoundsAssumption
    <2>5. baseline \in [Models -> Versions]
      BY DEF Versions
    <2> QED  BY <2>1, <2>3, <2>4, <2>5 DEF Typed
  <1>2. \A b \in Builders : build[b].pc = "idle"
    BY DEF Idle
  <1>3. \A b \in Builders : Fresh(build[b])
    BY <1>2 DEF Fresh
  <1>7. build \in [Builders -> Shapes]
    BY IdleShape
  <1>4. Locked /\ Fed
    BY <1>2 DEF Locked, Fed, Busy
  <1>5. LandedOnce
    BY ProjectFacts DEF LandedOnce, Present, Tables
  <1>6. SourceKept
    <2>1. Restored
      BY DEF Restored
    <2> QED  BY <1>2, <2>1 DEF SourceKept, Restoring
  <1> QED  BY <1>1, <1>3, <1>4, <1>5, <1>6, <1>7 DEF DirectInv

\* A step that leaves the deployment, the lock and the builders alone.
LEMMA Quiet ==
  ASSUME DirectInv, UNCHANGED <<offset, target, lock, build, history>>, Typed'
  PROVE  DirectInv'
  <1>1. UNCHANGED <<offset, kafka, staged, flowing, rows, live, lock, build, history>>
    BY DEF target, source
  <1>2. build' \in [Builders -> Shapes]
    BY <1>1 DEF DirectInv
  <1>3. Locked' /\ Fed' /\ LandedOnce'
    BY <1>1 DEF DirectInv, Locked, Fed, LandedOnce, Present
  <1>4. (\A b \in Builders : Fresh(build[b]))'
    BY <1>1 DEF DirectInv, Fresh, Present, OffsetsTrue
  <1>5. SourceKept'
    BY <1>1 DEF DirectInv, SourceKept, Clean, Restored, Restoring
  <1> QED  BY <1>2, <1>3, <1>4, <1>5 DEF DirectInv

LEMMA PublishDirect == ASSUME DirectInv, Publish PROVE DirectInv'
  <1>1. Typed
    BY DEF DirectInv
  <1>2. topic' \in 0..MaxEvents /\ offset' \in 0..topic'
    BY <1>1, BoundsAssumption DEF Publish, Typed
  <1>3. UNCHANGED <<version, declared, offset, kafka, staged, flowing, rows, live, history,
                    baseline, lock, build, spent>>
    BY DEF Publish, authored, target, source
  <1>4. TargetTyped'
    BY <1>1, <1>3 DEF Typed, TargetTyped
  <1>5. Typed'
    BY <1>1, <1>2, <1>3, <1>4 DEF Typed
  <1> QED  BY <1>3, <1>5, Quiet DEF target, source

\* What is left of the cast, after something of it was spent.
LEMMA SpendTyped ==
  ASSUME spent \in Purses, NEW what \in {"builds", "faults", "crashes", "edits", "resets"},
         Spend(what)
  PROVE  spent' \in Purses
  BY DEF Spend, Purses

LEMMA EditDirect == ASSUME DirectInv, Edit PROVE DirectInv'
  <1>1. Typed
    BY DEF DirectInv
  <1>2. version' \in [Models -> 1..2] /\ declared' \in 1..2
    <2>1. \A d \in 1..2 : 3 - d \in 1..2
      OBVIOUS
    <2>2. version \in [Models -> 1..2] /\ declared \in 1..2
      BY <1>1 DEF Typed
    <2>3. CASE \E m \in Models : version' = [version EXCEPT ![m] = 3 - @] /\ UNCHANGED declared
      BY <2>1, <2>2, <2>3
    <2>4. CASE declared' = 3 - declared /\ UNCHANGED version
      BY <2>1, <2>2, <2>4
    <2> QED  BY <2>3, <2>4 DEF Edit
  <1>3. UNCHANGED <<topic, offset, kafka, staged, flowing, rows, live, history, baseline, lock, build>>
    BY DEF Edit, target, source
  <1>4. spent' \in Purses
    BY <1>1, SpendTyped DEF Edit, Typed
  <1>5. TargetTyped'
    BY <1>1, <1>3 DEF Typed, TargetTyped
  <1>6. Typed'
    BY <1>1, <1>2, <1>3, <1>4, <1>5 DEF Typed
  <1> QED  BY <1>3, <1>6, Quiet DEF target, source

LEMMA LandDirect == ASSUME DirectInv, Land PROVE DirectInv'
  <1>1. Typed /\ TargetTyped
    BY DEF DirectInv, Typed
  <1>2. UNCHANGED <<version, declared, topic, kafka, staged, flowing, live, history,
                    baseline, lock, build, spent>>
    BY DEF Land, authored, source
  <1>3. offset' = offset + 1 /\ offset' \in 0..topic' /\ offset \in Nat /\ offset + 1 \in Nat
    BY <1>1, BoundsAssumption DEF Land, Typed
  <1> DEFINE new == OnlyEvent(offset + 1)
  <1>4. new \in Row /\ rows \in Rows /\ Source \in Tables /\ rows[Source] # None
    BY <1>1, <1>3, RowFacts, ProjectFacts DEF Land, TargetTyped, Present
  <1>5. /\ rows' \in Rows /\ rows'[Source] # None
        /\ rows'[Source] = [e \in Events |-> rows[Source][e] + new[e]]
    <2>1. rows' = Inserted(Source, new)
      BY DEF Land
    <2> HIDE DEF new
    <2> QED  BY <1>4, <2>1, InsertedTyped
  <1>6. Present(Source) /\ Present(Source)'
    BY <1>4, <1>5 DEF Present, Rows
  <1>7. TargetTyped'
    BY <1>1, <1>2, <1>5 DEF TargetTyped
  <1>8. Typed'
    BY <1>1, <1>2, <1>3, <1>7 DEF Typed
  <1>9. build' \in [Builders -> Shapes]
    BY <1>2 DEF DirectInv
  <1>10. Locked' /\ Fed'
    BY <1>2, <1>6 DEF DirectInv, Locked, Fed
  <1>11. LandedOnce'
    <2> SUFFICES ASSUME history.mishaps \cap {"not reset", "stale reset"} = {}
                 PROVE  rows'[Source] = [e \in Events |-> IF e <= offset' THEN 1 ELSE 0]
      BY <1>2 DEF LandedOnce
    <2>1. rows[Source] = [e \in Events |-> IF e <= offset THEN 1 ELSE 0]
      BY <1>6 DEF DirectInv, LandedOnce
    <2>2. [e \in Events |-> rows[Source][e] + new[e]] = [e \in Events |-> IF e <= offset + 1 THEN 1 ELSE 0]
      <3>1. offset \in Nat
        BY <1>3
      <3> QED  BY <2>1, <3>1, OneMore
    <2>3. offset' = offset + 1
      BY <1>3
    <2> HIDE DEF new
    <2> QED  BY <1>5, <2>2, <2>3, Zenon
  <1>12. (\A b \in Builders : Fresh(build[b]))'
    BY <1>6 DEF Fresh
  <1>13. SourceKept'
    BY <1>2 DEF DirectInv, SourceKept, Clean, Restored, Restoring
  <1> QED  BY <1>8, <1>9, <1>10, <1>11, <1>12, <1>13 DEF DirectInv

LEMMA ResetDirect == ASSUME DirectInv, ResetTarget PROVE DirectInv'
  <1>1. Typed /\ TargetTyped
    BY DEF DirectInv, Typed
  <1>2. /\ UNCHANGED <<version, declared, topic, offset, staged, baseline, lock, build>>
        /\ kafka' = 0 /\ flowing' = FALSE /\ lock = None
        /\ rows' = [x \in Tables |-> None] /\ live' = [m \in Models |-> 0]
    BY <1>1 DEF ResetTarget, authored, TargetTyped, Rows
  <1>3. history' \in Histories /\ history'.mishaps = history.mishaps /\ history'.fed = FALSE
    BY <1>1 DEF ResetTarget, TargetTyped, Histories
  <1>4. spent' \in Purses
    BY <1>1, SpendTyped DEF ResetTarget, Typed
  <1>5. TargetTyped'
    <2>1. rows' \in Rows
      BY <1>2 DEF Rows
    <2>2. live' \in [Models -> Versions] /\ kafka' \in Versions
      BY <1>2 DEF Versions
    <2> QED  BY <1>1, <1>2, <1>3, <2>1, <2>2 DEF TargetTyped
  <1>6. Typed'
    BY <1>1, <1>2, <1>4, <1>5 DEF Typed
  <1>7. \A b \in Builders : build[b].pc \notin Busy
    BY <1>2, BoundsAssumption DEF DirectInv, Locked
  <1>8. ~Present(Source)'
    BY <1>2, ProjectFacts DEF Present
  <1>9. build' \in [Builders -> Shapes]
    BY <1>2 DEF DirectInv
  <1>10. Locked' /\ Fed' /\ LandedOnce'
    BY <1>2, <1>7, <1>8 DEF Locked, Fed, LandedOnce
  <1>11. (\A b \in Builders : Fresh(build[b]))'
    BY <1>2, <1>7 DEF Fresh, Busy
  <1>12. SourceKept'
    <2>1. Clean' => Restored'
      BY <1>2, <1>3 DEF DirectInv, SourceKept, Clean, Restored
    <2> QED  BY <1>2, <1>7, <2>1 DEF SourceKept, Restoring, Busy
  <1> QED  BY <1>6, <1>9, <1>10, <1>11, <1>12 DEF DirectInv

LEMMA ReleaseDirect == ASSUME DirectInv, ReleaseByHand PROVE DirectInv'
  <1>1. Typed /\ TargetTyped
    BY DEF DirectInv, Typed
  <1>2. /\ UNCHANGED <<version, declared, topic, offset, kafka, staged, flowing, rows, live,
                       history, baseline, build, spent>>
        /\ lock' = None /\ lock # None /\ build[lock].pc \notin Busy
    BY DEF ReleaseByHand, authored, target, source, Busy
  <1>3. "crash" \in history.mishaps
    BY <1>2 DEF DirectInv, Locked
  <1>4. \A b \in Builders : build[b].pc \notin Busy
    BY <1>2 DEF DirectInv, Locked
  <1>5. TargetTyped'
    BY <1>1, <1>2 DEF TargetTyped
  <1>6. Typed'
    BY <1>1, <1>2, <1>5 DEF Typed
  <1>7. build' \in [Builders -> Shapes]
    BY <1>2 DEF DirectInv
  <1>8. Locked' /\ Fed' /\ LandedOnce'
    BY <1>2, <1>4 DEF DirectInv, Locked, Fed, LandedOnce, Present
  <1>9. (\A b \in Builders : Fresh(build[b]))'
    BY <1>2, <1>4 DEF Fresh, Busy
  <1>10. SourceKept'
    BY <1>2, <1>3 DEF SourceKept, Clean
  <1> QED  BY <1>6, <1>7, <1>8, <1>9, <1>10 DEF DirectInv
-----------------------------------------------------------------------------
\* The steps of a builder.

LEMMA PlannedRecord ==
  ASSUME NEW p, NEW s
  PROVE  [Idle EXCEPT !.pc = "planned", !.plan = p, !.steps = s]
           = [pc |-> "planned", plan |-> p, steps |-> s, at |-> 1, fix |-> 1, captured |-> None]
  <1> DEFINE r1 == [Idle EXCEPT !.pc = "planned"]
             r2 == [r1 EXCEPT !.plan = p]
             r3 == [r2 EXCEPT !.steps = s]
  <1>1. r1 = [pc |-> "planned", plan |-> None, steps |-> <<>>, at |-> 1, fix |-> 1, captured |-> None]
    BY DEF Idle
  <1> HIDE DEF r1
  <1>2. r2 = [pc |-> "planned", plan |-> p, steps |-> <<>>, at |-> 1, fix |-> 1, captured |-> None]
    BY <1>1
  <1> HIDE DEF r2
  <1>3. r3 = [pc |-> "planned", plan |-> p, steps |-> s, at |-> 1, fix |-> 1, captured |-> None]
    BY <1>2
  <1> QED  BY <1>3 DEF r1, r2

LEMMA PlanFacts ==
  ASSUME Typed, NEW b \in Builders, PlanBuild(b)
  PROVE  \E selected \in SUBSET Models, missing \in BOOLEAN, start \in Nat :
           Plan(b, selected, missing, start)
  <1>1. ChangedModels \in SUBSET Models
    BY DEF ChangedModels, Changed, ModelsOf, Models
  <1>2. \A m \in spent.selects : {m} \in SUBSET Models
    BY DEF Typed, Purses
  <1>3. \A start \in spent.starts \cup {0} : start \in Nat
    BY DEF Typed, Purses
  <1> QED  BY <1>1, <1>2, <1>3 DEF PlanBuild

LEMMA PlanDirect == ASSUME DirectInv, NEW b \in Builders, PlanBuild(b) PROVE DirectInv'
  <1>1. Typed /\ TargetTyped
    BY DEF DirectInv, Typed
  <1>3. PICK selected \in SUBSET Models, missing \in BOOLEAN, start \in Nat :
           Plan(b, selected, missing, start)
    BY <1>1, PlanFacts
  <1> DEFINE normal == Downstream(Project, selected, AllEdgeTypes)
             added == IF missing THEN MissingUpstream(normal) ELSE {}
             new == NewPlan(added, normal \cup added, start)
             r == [Idle EXCEPT !.pc = "planned", !.plan = new, !.steps = AssembleStatements(new)]
  <1>4. /\ build[b].pc = "idle" /\ Spend("builds")
        /\ build' = [build EXCEPT ![b] = r]
        /\ UNCHANGED <<version, declared, topic, offset, kafka, staged, flowing, rows, live,
                       baseline, lock, history>>
    BY <1>3 DEF Plan, authored, target, source
  <1>5. new \in Plans /\ new.scope \subseteq Models
    <2>1. normal \in SUBSET Models
      BY DownstreamModels
    <2> HIDE DEF normal
    <2>2. added \in SUBSET Models
      BY <2>1, MissingModels
    <2> HIDE DEF added
    <2> QED  BY <1>1, <2>1, <2>2 DEF NewPlan, Plans, Typed, TargetTyped, Present, Drifted
  <1>6. Assembled(new, AssembleStatements(new))
    BY <1>5, AssembledPlan
  <1> DEFINE st == AssembleStatements(new)
  <1> HIDE DEF new, st
  <1>7. r \in Shapes /\ r.pc = "planned"
    <2>0. r = [pc |-> "planned", plan |-> new, steps |-> st, at |-> 1, fix |-> 1,
               captured |-> None]
      BY PlannedRecord DEF st
    <2> HIDE DEF r
    <2>1. /\ r.pc = "planned" /\ r.plan = new /\ r.steps = st /\ r.at = 1 /\ r.fix = 1
          /\ r.captured = None
      BY <2>0
    <2>2. st \in Seq(Statements) /\ Assembled(new, st)
      BY <1>6 DEF Assembled, st
    <2>3. 1 \in 1..(Len(st) + 1)
      <3>1. Len(st) \in Nat
        BY <2>2, Members
      <3> QED  BY <3>1
    <2>4. r \in Records
      BY <1>5, <2>0, <2>2 DEF Records, Phases
    <2>5. Shaped(r)
      BY <1>5, <2>1, <2>2, <2>3 DEF Shaped
    <2> QED  BY <2>1, <2>4, <2>5 DEF Shapes
  <1> HIDE DEF r
  <1>8. spent' \in Purses
    BY <1>1, <1>4, SpendTyped DEF Typed
  <1>9. TargetTyped'
    BY <1>1, <1>4 DEF TargetTyped
  <1>10. Typed'
    BY <1>1, <1>4, <1>8, <1>9 DEF Typed
  <1>11. /\ build' \in [Builders -> Shapes] /\ build'[b].pc = "planned"
         /\ \A c \in Builders \ {b} : build'[c] = build[c]
    BY <1>4, <1>7 DEF DirectInv
  <1>12. Locked' /\ Fed' /\ LandedOnce'
    <2>1. Fed' /\ LandedOnce'
      BY <1>4 DEF DirectInv, Fed, LandedOnce, Present
    <2>2. Locked'
      <3>1. \A c \in Builders : (build'[c].pc \in Busy) <=> (build[c].pc \in Busy)
        BY <1>4, <1>11 DEF Busy
      <3>2. lock \in Builders \cup {None}
        BY <1>1 DEF Typed
      <3> QED  BY <1>4, <3>1, <3>2 DEF DirectInv, Locked
    <2> QED  BY <2>1, <2>2
  <1>13. (\A c \in Builders : Fresh(build[c]))'
    <2> SUFFICES ASSUME NEW c \in Builders PROVE Fresh(build[c])'
      OBVIOUS
    <2>1. CASE c = b
      BY <1>11, <2>1 DEF Fresh
    <2>2. CASE c # b
      BY <1>4, <1>11, <2>2 DEF DirectInv, Fresh, Present, OffsetsTrue
    <2> QED  BY <2>1, <2>2
  <1>14. SourceKept'
    <2> SUFFICES ASSUME Clean' PROVE (lock = None => Restored)' /\ (\A c \in Builders : Restoring(build[c]))'
      BY DEF SourceKept
    <2>1. Clean
      BY <1>4 DEF Clean
    <2>2. (lock = None => Restored)'
      BY <1>4, <2>1 DEF DirectInv, SourceKept, Restored
    <2> SUFFICES ASSUME NEW c \in Builders PROVE Restoring(build[c])'
      BY <2>2
    <2>3. CASE c = b
      BY <1>11, <2>3 DEF Restoring
    <2>4. CASE c # b
      BY <1>4, <1>11, <2>1, <2>4 DEF DirectInv, SourceKept, Restoring, Restored
    <2> QED  BY <2>3, <2>4
  <1> QED  BY <1>10, <1>11, <1>12, <1>13, <1>14 DEF DirectInv

\* What a step of the builder that has the lock, or takes it, must see to.
LEMMA Alone ==
  ASSUME DirectInv, NEW b \in Builders, lock \in {b, None},
         Typed', NEW r \in Shapes, build' = [build EXCEPT ![b] = r],
         lock' \in {b, None}, r.pc \in Busy => lock' = b,
         (lock' = b /\ r.pc \notin Busy) => "crash" \in history'.mishaps,
         Fed', LandedOnce',
         (r.pc = "run" /\ ~r.plan.landing /\ ~Present(Source)' /\ OffsetsTrue') => offset' = 0,
         Clean' => (lock' = None => Restored') /\ Restoring(r)'
  PROVE  DirectInv'
  <1>1. /\ build' \in [Builders -> Shapes] /\ build'[b] = r
        /\ \A c \in Builders \ {b} : build'[c] = build[c]
    BY DEF DirectInv
  <1>2. \A c \in Builders \ {b} : build'[c].pc \notin Busy
    BY <1>1, BoundsAssumption DEF DirectInv, Locked
  <1>3. Locked'
    BY <1>1, <1>2, BoundsAssumption DEF Locked
  <1>4. (\A c \in Builders : Fresh(build[c]))'
    BY <1>1, <1>2 DEF Fresh, Busy
  <1>5. SourceKept'
    <2> SUFFICES ASSUME Clean', NEW c \in Builders PROVE Restoring(build[c])'
      BY DEF SourceKept
    <2>1. CASE c = b
      BY <1>1, <2>1 DEF Restoring
    <2>2. CASE c # b
      BY <1>2, <2>2 DEF Restoring, Busy
    <2> QED  BY <2>1, <2>2
  <1> QED  BY <1>1, <1>3, <1>4, <1>5 DEF DirectInv

\* A builder that only moves on: its phase changes, its plan does not.
LEMMA Moved ==
  ASSUME DirectInv, NEW b \in Builders, NEW pc \in Phases, Go(b, pc)
  PROVE  \E r \in Records : /\ build' = [build EXCEPT ![b] = r]
                            /\ r = [build[b] EXCEPT !.pc = pc]
                            /\ r.pc = pc /\ r.plan = build[b].plan /\ r.steps = build[b].steps
                            /\ r.at = build[b].at /\ r.fix = build[b].fix
                            /\ r.captured = build[b].captured
  <1> DEFINE r == [build[b] EXCEPT !.pc = pc]
  <1>1. build[b] \in Records /\ build \in [Builders -> Shapes]
    BY DEF DirectInv, Shapes
  <1>2. r \in Records
    BY <1>1 DEF Records
  <1>3. build' = [build EXCEPT ![b] = r]
    BY <1>1 DEF Go
  <1>4. /\ r.pc = pc /\ r.plan = build[b].plan /\ r.steps = build[b].steps
        /\ r.at = build[b].at /\ r.fix = build[b].fix /\ r.captured = build[b].captured
    BY <1>1 DEF Records
  <1> QED  BY <1>2, <1>3, <1>4

\* The facts of a builder at work.
LEMMA AtWork ==
  ASSUME DirectInv, NEW b \in Builders, build[b].pc \in Busy \cup {"planned"}
  PROVE  /\ build[b] \in Records /\ Shaped(build[b])
         /\ build[b].plan \in Plans /\ Assembled(build[b].plan, build[b].steps)
         /\ build[b].at \in 1..(Len(build[b].steps) + 1) /\ Len(build[b].steps) \in Nat
         /\ Len(build[b].steps) > 0
         /\ build[b].pc \in Busy => lock = b
  <1>1. build[b] \in Records /\ Shaped(build[b])
    BY DEF DirectInv, Shapes
  <1>2. build[b].pc # "idle"
    BY DEF Busy
  <1>3. /\ build[b].plan \in Plans /\ Assembled(build[b].plan, build[b].steps)
        /\ build[b].at \in 1..(Len(build[b].steps) + 1)
    BY <1>1, <1>2 DEF Shaped
  <1>4. build[b].steps \in Seq(Statements) /\ Len(build[b].steps) > 0
    BY <1>3 DEF Assembled
  <1>5. Len(build[b].steps) \in Nat
    BY <1>4, Members
  <1>6. build[b].pc \in Busy => lock = b
    BY DEF DirectInv, Locked
  <1> QED  BY <1>1, <1>3, <1>4, <1>5, <1>6

\* The first statement is no replay.
LEMMA FirstStatement ==
  ASSUME NEW p, NEW s, Assembled(p, s) PROVE Len(s) >= 1 => s[1].op # "replay"
  <1> SUFFICES ASSUME Len(s) >= 1 PROVE s[1].op # "replay"
    OBVIOUS
  <1>1. Len(s) \in Nat
    BY Members DEF Assembled
  <1>2. 1 \in 1..Len(s)
    BY <1>1
  <1>3. CASE 1 = Len(s)
    BY <1>2, <1>3 DEF Assembled, Statement
  <1>4. CASE 1 # Len(s)
    <2>1. Placed(p, s, 1)
      BY <1>2, <1>4 DEF Assembled
    <2>2. ~(1 > 1)
      OBVIOUS
    <2> QED  BY <2>1, <2>2 DEF Placed
  <1> QED  BY <1>3, <1>4

LEMMA BeginDirect == ASSUME DirectInv, NEW b \in Builders, Begin(b) PROVE DirectInv'
  <1> DEFINE p == build[b].plan
  <1>1. Typed /\ TargetTyped
    BY DEF DirectInv, Typed
  <1>2. /\ build[b].pc = "planned" /\ lock = None
        /\ UNCHANGED <<version, declared, topic, offset, kafka, staged, flowing, rows, live,
                       baseline, spent, history>>
    BY DEF Begin, authored, target, source
  <1>3. TargetTyped'
    BY <1>1, <1>2 DEF TargetTyped
  <1>4. Fed' /\ LandedOnce'
    BY <1>2 DEF DirectInv, Fed, LandedOnce, Present
  <1>5. Clean' => Restored'
    BY <1>2 DEF DirectInv, SourceKept, Clean, Restored
  <1>6. CASE build' = [build EXCEPT ![b] = Idle] /\ UNCHANGED lock
    <2>1. Typed'
      BY <1>1, <1>2, <1>3, <1>6 DEF Typed
    <2>2. Idle.pc = "idle" /\ Restoring(Idle)'
      BY DEF Idle, Restoring
    <2> QED  BY <1>2, <1>4, <1>5, <1>6, <2>1, <2>2, IdleShape, Alone, BoundsAssumption DEF Busy
  <1>7. CASE lock' = b /\ Go(b, IF p.landing THEN "run" ELSE "reset")
    <2> DEFINE pc == IF p.landing THEN "run" ELSE "reset"
    <2>1. pc \in {"run", "reset"} /\ pc \in Phases /\ pc \in Busy /\ (pc = "run" => p.landing)
      BY DEF Phases, Busy
    <2>2. PICK r \in Records : /\ build' = [build EXCEPT ![b] = r]
                               /\ r.pc = pc /\ r.plan = p /\ r.steps = build[b].steps
                               /\ r.at = build[b].at /\ r.fix = build[b].fix
                               /\ r.captured = build[b].captured
      BY <1>7, <2>1, Moved
    <2> HIDE DEF pc
    <2>3. Typed'
      BY <1>1, <1>2, <1>3, <1>7 DEF Typed
    <2>4. /\ p \in Plans /\ Assembled(p, build[b].steps) /\ build[b].at = 1 /\ build[b].fix = 1
          /\ build[b].at \in 1..(Len(build[b].steps) + 1) /\ Len(build[b].steps) > 0
          /\ Len(build[b].steps) \in Nat
      BY <1>2, AtWork DEF Shaped
    <2>5. r \in Shapes
      <3>1. Len(r.steps) >= 1 => r.steps[1].op # "replay"
        BY <2>2, <2>4, FirstStatement
      <3>2. Shaped(r)
        BY <2>1, <2>2, <2>4, <3>1 DEF Shaped
      <3> QED  BY <3>2 DEF Shapes
    <2>6. Clean' => Restoring(r)'
      <3> SUFFICES ASSUME Restored' PROVE Restoring(r)'
        BY <1>5
      <3>1. staged' = 0
        BY DEF Restored
      <3>2. ~(r.at > Len(r.steps))
        BY <2>2, <2>4
      <3> QED  BY <2>1, <2>2, <3>1, <3>2 DEF Restoring
    <2>7. lock' # None /\ lock' = b
      BY <1>7, BoundsAssumption
    <2> QED  BY <1>2, <1>4, <2>1, <2>2, <2>3, <2>5, <2>6, <2>7, Alone
  <1> QED  BY <1>6, <1>7 DEF Begin

\* A mishap is only noted.
LEMMA Noted ==
  ASSUME history \in Histories, NEW what \in Mishaps, Mishap(what)
  PROVE  /\ history' \in Histories /\ history'.mishaps = history.mishaps \cup {what}
         /\ history'.fed = history.fed /\ history'.left = history.left
  BY DEF Mishap, Histories

LEMMA ResetOffsetsDirect ==
  ASSUME DirectInv, NEW b \in Builders, ResetFreshLandingOffsets(b) PROVE DirectInv'
  <1>1. Typed /\ TargetTyped
    BY DEF DirectInv, Typed
  <1>2. /\ lock = b /\ build[b].pc = "reset" /\ DeleteGroup /\ Go(b, "run")
        /\ UNCHANGED <<version, declared, topic, kafka, staged, flowing, rows, live,
                       baseline, lock>>
    BY DEF ResetFreshLandingOffsets, authored, target, source
  <1>3. /\ history' \in Histories /\ history'.fed = history.fed
        /\ history.mishaps \subseteq history'.mishaps
        /\ history'.mishaps \subseteq history.mishaps \cup {"not reset", "stale reset"}
    <2>1. history \in Histories
      BY <1>1 DEF TargetTyped
    <2>2. UNCHANGED history \/ Mishap("not reset") \/ Mishap("stale reset")
      BY <1>2 DEF DeleteGroup
    <2>3. CASE UNCHANGED history
      BY <2>1, <2>3
    <2>4. CASE Mishap("not reset")
      <3>1. "not reset" \in Mishaps
        BY DEF Mishaps
      <3> QED  BY <2>1, <2>4, <3>1, Noted
    <2>5. CASE Mishap("stale reset")
      <3>1. "stale reset" \in Mishaps
        BY DEF Mishaps
      <3> QED  BY <2>1, <2>5, <3>1, Noted
    <2> QED  BY <2>2, <2>3, <2>4, <2>5
  <1>4. spent' \in Purses
    BY <1>1, <1>2, SpendTyped DEF DeleteGroup, Typed
  <1>5. offset' \in 0..topic' /\ (offset' = offset \/ offset' = 0)
    <2>1. offset' = offset \/ offset' = 0
      BY <1>2 DEF DeleteGroup
    <2>2. offset \in 0..topic /\ 0 \in 0..topic
      BY <1>1, BoundsAssumption DEF Typed
    <2> QED  BY <1>2, <2>1, <2>2
  <1>6. TargetTyped'
    BY <1>1, <1>2, <1>3 DEF TargetTyped
  <1>7. Typed'
    BY <1>1, <1>2, <1>4, <1>5, <1>6 DEF Typed
  <1>8. Fed'
    BY <1>2 DEF DirectInv, Fed, Present
  <1>9. OffsetsTrue' => OffsetsTrue
    BY <1>3 DEF OffsetsTrue
  <1>10. (Present(Source) /\ OffsetsTrue') => offset' = offset
    <2> SUFFICES ASSUME Present(Source), OffsetsTrue' PROVE offset' = offset
      OBVIOUS
    <2>1. ~Mishap("stale reset")
      <3>1. history \in Histories /\ "stale reset" \in Mishaps
        BY <1>1 DEF TargetTyped, Mishaps
      <3> QED  BY <3>1, Noted DEF OffsetsTrue
    <2> QED  BY <1>2, <2>1 DEF DeleteGroup
  <1>11. LandedOnce'
    BY <1>2, <1>9, <1>10 DEF DirectInv, LandedOnce, OffsetsTrue, Present
  <1>12. (~Present(Source) /\ OffsetsTrue') => offset' = 0
    <2> SUFFICES ASSUME ~Present(Source), OffsetsTrue', offset' # 0 PROVE FALSE
      OBVIOUS
    <2>1. ~flowing
      BY DEF DirectInv, Fed
    <2>2. offset' = offset /\ (offset > 0 => Mishap("not reset"))
      BY <1>2, <2>1 DEF DeleteGroup
    <2>3. offset > 0
      <3>1. offset \in Nat
        BY <1>1, BoundsAssumption DEF Typed
      <3>2. offset # 0
        BY <2>2
      <3> QED  BY <3>1, <3>2
    <2>4. history \in Histories /\ "not reset" \in Mishaps
      BY <1>1 DEF TargetTyped, Mishaps
    <2>5. "not reset" \in history'.mishaps
      BY <2>2, <2>3, <2>4, Noted
    <2> QED  BY <2>5 DEF OffsetsTrue
  <1>13. PICK r \in Records : /\ build' = [build EXCEPT ![b] = r]
                              /\ r.pc = "run" /\ r.plan = build[b].plan
                              /\ r.steps = build[b].steps /\ r.at = build[b].at
                              /\ r.fix = build[b].fix /\ r.captured = build[b].captured
    <2>1. "run" \in Phases
      BY DEF Phases
    <2> QED  BY <1>2, <2>1, Moved
  <1>14. /\ build[b].plan \in Plans /\ Assembled(build[b].plan, build[b].steps)
         /\ build[b].at = 1 /\ build[b].fix = 1
         /\ build[b].at \in 1..(Len(build[b].steps) + 1) /\ Len(build[b].steps) > 0
         /\ Len(build[b].steps) \in Nat
    BY <1>2, AtWork DEF Shaped, Busy
  <1>15. r \in Shapes
    <2>1. Len(r.steps) >= 1 => r.steps[1].op # "replay"
      BY <1>13, <1>14, FirstStatement
    <2>2. Shaped(r)
      BY <1>13, <1>14, <2>1 DEF Shaped
    <2> QED  BY <2>2 DEF Shapes
  <1>16. Clean' => Restoring(r)'
    <2> SUFFICES ASSUME Clean' PROVE Restoring(r)'
      OBVIOUS
    <2>1. Clean
      BY <1>3 DEF Clean
    <2>2. Restored
      BY <1>2, <2>1 DEF DirectInv, SourceKept, Restoring
    <2>3. staged' = 0 /\ Restored'
      BY <1>2, <1>3, <2>2 DEF Restored
    <2>4. ~(r.at > Len(r.steps))
      BY <1>13, <1>14
    <2> QED  BY <1>13, <2>3, <2>4 DEF Restoring
  <1>17. (~Present(Source)' /\ OffsetsTrue') => offset' = 0
    BY <1>2, <1>12 DEF Present
  <1>18. lock' = b /\ b # None
    BY <1>2, BoundsAssumption
  <1>19. r.pc \in Busy
    BY <1>13 DEF Busy
  <1> QED  BY <1>2, <1>7, <1>8, <1>11, <1>13, <1>15, <1>16, <1>17, <1>18, <1>19, Alone

LEMMA CrashDirect == ASSUME DirectInv, NEW b \in Builders, Crash(b) PROVE DirectInv'
  <1>1. Typed /\ TargetTyped
    BY DEF DirectInv, Typed
  <1>2. /\ lock = b /\ Mishap("crash") /\ Spend("crashes")
        /\ build' = [build EXCEPT ![b] = Idle]
        /\ UNCHANGED <<version, declared, topic, offset, kafka, staged, flowing, rows, live,
                       baseline, lock>>
    BY DEF Crash, authored, target, source
  <1>3. history' \in Histories /\ history'.mishaps = history.mishaps \cup {"crash"}
    <2>1. history \in Histories /\ "crash" \in Mishaps
      BY <1>1 DEF TargetTyped, Mishaps
    <2> QED  BY <1>2, <2>1, Noted
  <1>4. spent' \in Purses
    BY <1>1, <1>2, SpendTyped DEF Typed
  <1>5. TargetTyped'
    BY <1>1, <1>2, <1>3 DEF TargetTyped
  <1>6. Typed'
    BY <1>1, <1>2, <1>4, <1>5 DEF Typed
  <1>7. Fed' /\ LandedOnce'
    BY <1>2, <1>3 DEF DirectInv, Fed, LandedOnce, Present
  <1>8. Idle.pc = "idle"
    BY DEF Idle
  <1>9. ~Clean'
    BY <1>3 DEF Clean
  <1>10. "crash" \in history'.mishaps /\ lock' = b
    BY <1>2, <1>3
  <1> QED  BY <1>2, <1>6, <1>7, <1>8, <1>9, <1>10, IdleShape, Alone DEF Busy

\* The lock is released by a builder that leaves the source in order.
LEMMA ConcludeDirect ==
  ASSUME DirectInv, NEW b \in Builders, lock = b, build[b].plan \in Plans, Clean => Restored,
         NEW applied \in SUBSET Models, Conclude(b, applied)
  PROVE  DirectInv'
  <1>1. Typed /\ TargetTyped
    BY DEF DirectInv, Typed
  <1>2. /\ lock' = None /\ build' = [build EXCEPT ![b] = Idle]
        /\ UNCHANGED <<version, declared, topic, offset, kafka, staged, flowing, rows, live>>
    BY DEF Conclude, authored, target, source
  <1>3. baseline' \in [Models -> Versions]
    <2>1. \A m \in Models : build[b].plan.version[m] \in Versions
      BY DEF Plans, Versions
    <2> QED  BY <1>1, <2>1 DEF Conclude, Typed
  <1>4. /\ history' \in Histories /\ history'.mishaps = history.mishaps
        /\ history'.fed = history.fed
    BY <1>1 DEF Conclude, TargetTyped, Histories
  <1>5. spent' \in Purses
    BY <1>1, SpendTyped DEF Conclude, Typed
  <1>6. TargetTyped'
    BY <1>1, <1>2, <1>4 DEF TargetTyped
  <1>7. Typed'
    BY <1>1, <1>2, <1>3, <1>5, <1>6 DEF Typed
  <1>8. Fed' /\ LandedOnce'
    BY <1>2, <1>4 DEF DirectInv, Fed, LandedOnce, Present
  <1>9. Idle.pc = "idle" /\ Restoring(Idle)'
    BY DEF Idle, Restoring
  <1>10. Clean' => Restored'
    BY <1>2, <1>4 DEF Clean, Restored
  <1>11. lock' # b
    BY <1>2, BoundsAssumption
  <1> QED  BY <1>2, <1>7, <1>8, <1>9, <1>10, <1>11, IdleShape, Alone DEF Busy

LEMMA SucceedDirect == ASSUME DirectInv, NEW b \in Builders, Succeed(b) PROVE DirectInv'
  <1>1. /\ lock = b /\ build[b].pc = "run" /\ build[b].at > Len(build[b].steps)
        /\ Conclude(b, build[b].plan.scope)
    BY DEF Succeed, Running
  <1>2. /\ build[b].plan \in Plans /\ build[b].at \in Nat /\ Len(build[b].steps) \in Nat
    BY <1>1, AtWork DEF Busy
  <1>3. build[b].plan.scope \in SUBSET Models
    BY <1>2 DEF Plans
  <1>4. Clean => Restored
    <2> SUFFICES ASSUME Clean PROVE Restored
      OBVIOUS
    <2>1. Restoring(build[b])
      BY DEF DirectInv, SourceKept
    <2>2. ~ \E i \in build[b].at..Len(build[b].steps) : TRUE
      BY <1>1, <1>2
    <2> QED  BY <1>1, <2>1, <2>2 DEF Restoring, Restored
  <1> QED  BY <1>1, <1>2, <1>3, <1>4, ConcludeDirect

LEMMA FailDirect == ASSUME DirectInv, NEW b \in Builders, Fail(b) PROVE DirectInv'
  <1>1. build[b].pc = "failed" /\ Conclude(b, AppliedModels(b))
    BY DEF Fail
  <1>2. lock = b /\ build[b].plan \in Plans
    BY <1>1, AtWork DEF Busy
  <1>3. AppliedModels(b) \in SUBSET Models
    <2>1. build[b].plan.scope \in SUBSET Models
      BY <1>2 DEF Plans
    <2>2. \A r : Propagated(build[b].plan, r) \subseteq Models
      BY <2>1 DEF Propagated
    <2> QED  BY <2>2 DEF AppliedModels
  <1>4. Clean => Restored
    BY <1>1 DEF DirectInv, SourceKept, Restoring
  <1> QED  BY <1>1, <1>2, <1>3, <1>4, ConcludeDirect
-----------------------------------------------------------------------------
\* The statements of a build, one after the other.

LEMMA CurrentStatement ==
  ASSUME DirectInv, NEW b \in Builders, build[b].pc = "run", build[b].at <= Len(build[b].steps)
  PROVE  /\ Runnable(b, Current(b))
         /\ build[b].at \in 1..Len(build[b].steps) /\ Len(build[b].steps) \in Nat
         /\ build[b].at = Len(build[b].steps) => Current(b).op = "activate"
         /\ Current(b).op = "prepare landing" => ~build[b].plan.landing
         /\ Current(b).op \in {"stage", "swap"} =>
              /\ build[b].plan.recreate
              /\ \E j \in 1..(build[b].at - 1) : build[b].steps[j].op = "clear"
              /\ \E j \in (build[b].at + 1)..Len(build[b].steps) : build[b].steps[j].op = "retire"
         /\ (build[b].at + 1 <= Len(build[b].steps) /\ build[b].steps[build[b].at + 1].op = "replay")
              => Current(b).op = "capture"
  <1> DEFINE st == build[b].steps
             p == build[b].plan
             i == build[b].at
             n == Len(st)
             s == st[i]
  <1>1. Assembled(p, st) /\ i \in 1..(n + 1) /\ n \in Nat /\ Shaped(build[b]) /\ build[b] \in Records
    BY AtWork DEF Busy
  <1>2. i \in 1..n /\ i \in Nat
    BY <1>1
  <1>3. s = Current(b)
    BY DEF Current
  <1>4. s \in Statements
    <2> HIDE DEF st, i
    <2> QED  BY <1>1, <1>2, Members DEF Assembled
  <1>5. IF i = n THEN s = Statement("activate", Source) ELSE Placed(p, st, i)
    <2> HIDE DEF st, i, p
    <2> QED  BY <1>1, <1>2 DEF Assembled
  <1>6. s.op = "replay" => build[b].captured \in Row
    BY <1>1 DEF Shaped, Records
  <1>7. i = n => s.op = "activate"
    BY <1>5 DEF Statement
  <1>8. s.op # "activate" => Placed(p, st, i)
    BY <1>5, <1>7
  <1> HIDE DEF st, p, i, n
  <1>9. Runnable(b, s)
    BY <1>4, <1>6, <1>8 DEF Runnable, Placed
  <1>10. /\ s.op = "prepare landing" => ~p.landing
         /\ s.op \in {"stage", "swap"} => /\ p.recreate
                                          /\ \E j \in 1..(i - 1) : st[j].op = "clear"
                                          /\ \E j \in (i + 1)..n : st[j].op = "retire"
    BY <1>8 DEF Placed, n
  <1>11. (i + 1 <= n /\ st[i + 1].op = "replay") => s.op = "capture"
    <2> SUFFICES ASSUME i + 1 <= n, st[i + 1].op = "replay" PROVE s.op = "capture"
      OBVIOUS
    <2>1. i + 1 \in 1..n /\ (i + 1) - 1 = i
      BY <1>1, <1>2
    <2>2. st[i + 1] # Statement("activate", Source)
      BY DEF Statement
    <2>3. Placed(p, st, i + 1)
      BY <1>1, <2>1, <2>2 DEF Assembled, n
    <2>4. st[(i + 1) - 1] = Statement("capture", st[i + 1].on)
      BY <2>3 DEF Placed
    <2> QED  BY <2>1, <2>4 DEF Statement
  <1> QED  BY <1>1, <1>2, <1>3, <1>7, <1>9, <1>10, <1>11 DEF st, p, i, n

\* What a statement leaves of the source that has to be restored.
LEMMA Disturbed ==
  ASSUME DirectInv, NEW b \in Builders, build[b].pc = "run", build[b].at <= Len(build[b].steps),
         Clean, Effect(Current(b)), TargetTyped'
  PROVE  /\ ~Restored' => \E i \in 1..build[b].at : build[b].steps[i].op \in {"pause", "clear"}
         /\ staged' # 0 => /\ build[b].plan.recreate
                           /\ \E i \in (build[b].at + 1)..Len(build[b].steps) : build[b].steps[i].op = "retire"
         /\ build[b].at = Len(build[b].steps) => flowing'
  <1> DEFINE st == build[b].steps
             p == build[b].plan
             k == build[b].at
             n == Len(st)
             op == Current(b).op
             paused == \E i \in 1..(k - 1) : st[i].op \in {"pause", "clear"}
             willRetire == \E i \in (k + 1)..n : st[i].op = "retire"
  <1>1. /\ k \in 1..n /\ n \in Nat
        /\ k = n => op = "activate"
        /\ op \in {"stage", "swap"} =>
             p.recreate /\ (\E j \in 1..(k - 1) : st[j].op = "clear") /\ willRetire
    BY CurrentStatement
  <1>2. op = st[k].op
    BY DEF Current
  <1>3. Restoring(build[b])
    BY DEF DirectInv, SourceKept
  <1>4. /\ ~Restored => paused
        /\ staged # 0 => p.recreate /\ \E i \in k..n : st[i].op = "retire"
    BY <1>3 DEF Restoring
  <1>5. /\ history'.fed = (history.fed \/ flowing') /\ flowing' = FlowingAfter(op)
        /\ op \in {"clear", "retire", "recover staged"} => staged' = 0
        /\ op \notin {"clear", "retire", "recover staged", "stage", "swap"} => staged' = staged
    BY DEF Effect
  <1> HIDE DEF st, p, k, n, op
  <1>6. op \in {"stage", "swap"} => paused
    BY <1>1
  <1>7. ~Restored' => paused \/ op \in {"pause", "clear"}
    <2> SUFFICES ASSUME ~paused, op \notin {"pause", "clear"} PROVE Restored'
      OBVIOUS
    <2> HIDE DEF paused
    <2>1. Restored /\ op \notin {"stage", "swap"}
      BY <1>4, <1>6
    <2>2. staged' = 0
      BY <1>5, <2>1 DEF Restored
    <2>3. history'.fed => flowing'
      <3>1. flowing => flowing'
        BY <1>5 DEF FlowingAfter
      <3> QED  BY <1>5, <2>1, <3>1 DEF Restored
    <2> QED  BY <2>2, <2>3 DEF Restored
  <1>8. (paused \/ op \in {"pause", "clear"}) => \E i \in 1..k : st[i].op \in {"pause", "clear"}
    <2>1. k \in 1..k /\ \A i \in 1..(k - 1) : i \in 1..k
      BY <1>1
    <2> QED  BY <1>2, <2>1
  <1>9. staged' # 0 => p.recreate /\ willRetire
    <2> SUFFICES ASSUME staged' # 0 PROVE p.recreate /\ willRetire
      OBVIOUS
    <2>1. CASE op \in {"stage", "swap"}
      BY <1>1, <2>1
    <2>2. CASE op \notin {"stage", "swap"}
      <3>1. staged # 0 /\ op # "retire"
        BY <1>5, <2>2
      <3>2. PICK i \in k..n : st[i].op = "retire"
        BY <1>4, <3>1
      <3>3. i # k
        BY <1>2, <3>1, <3>2
      <3>4. i \in (k + 1)..n
        BY <1>1, <3>3
      <3> QED  BY <1>4, <3>1, <3>2, <3>4
    <2> QED  BY <2>1, <2>2
  <1>10. k = n => flowing'
    BY <1>1, <1>5 DEF FlowingAfter
  <1> QED  BY <1>7, <1>8, <1>9, <1>10 DEF st, p, k, n

\* A landing table that did not exist has, once created, what was committed:
\* nothing.
LEMMA StillLanded ==
  ASSUME DirectInv, TargetTyped', NEW b \in Builders, NEW s, Effect(s), offset' = offset,
         s.op = "prepare landing" => build[b].pc = "run" /\ ~build[b].plan.landing
  PROVE  LandedOnce' /\ (Present(Source) => Present(Source)') /\ (OffsetsTrue' <=> OffsetsTrue)
  <1>1. /\ history'.mishaps = history.mishaps
        /\ rows'[Source] # rows[Source] =>
             s.op = "prepare landing" /\ rows[Source] = None /\ rows'[Source] = NoRows
    BY DEF Effect
  <1>2. DOMAIN rows = Tables /\ DOMAIN rows' = Tables /\ Source \in Tables /\ NoRows # None
    BY RowFacts, ProjectFacts DEF DirectInv, Typed, TargetTyped, Rows
  <1>3. Present(Source) => Present(Source)'
    BY <1>1, <1>2 DEF Present
  <1>4. OffsetsTrue' <=> OffsetsTrue
    BY <1>1 DEF OffsetsTrue
  <1>5. LandedOnce'
    <2>1. CASE rows'[Source] = rows[Source]
      BY <1>1, <1>2, <2>1 DEF DirectInv, LandedOnce, Present
    <2>2. CASE rows'[Source] # rows[Source]
      <3> SUFFICES ASSUME OffsetsTrue'
                   PROVE  rows'[Source] = [e \in Events |-> IF e <= offset' THEN 1 ELSE 0]
        BY DEF LandedOnce, OffsetsTrue
      <3>1. offset = 0
        BY <1>1, <1>4, <2>2 DEF DirectInv, Fresh, Present
      <3>2. rows'[Source] = NoRows
        BY <1>1, <2>2
      <3> QED  BY <3>1, <3>2, NothingLanded
    <2> QED  BY <2>1, <2>2
  <1> QED  BY <1>3, <1>4, <1>5

\* The place in a list of statements, and the next.
LEMMA Positions ==
  ASSUME NEW n \in Nat, NEW i \in 1..n
  PROVE  /\ i + 1 \in Nat /\ i \in 1..(n + 1) /\ i + 1 \in 1..(n + 1) /\ (i + 1) - 1 = i
         /\ i + 1 > n => i = n
         /\ \A j \in 1..(i - 1) : j \in 1..i
         /\ \A j \in 1..i : j = i \/ j \in 1..(i - 1)
  OBVIOUS

LEMMA OneIsFirst == 1 > 0 /\ ~(1 > 1) /\ ~(1 > 2)
  OBVIOUS

LEMMA RunDirect == ASSUME DirectInv, NEW b \in Builders, RunStatement(b) PROVE DirectInv'
  <1> DEFINE s == Current(b)
             q == build[b]
  <1>0. PICK now \in Times :
          /\ Apply(b, s, TRUE, now)
          /\ build' = [build EXCEPT
                         ![b].at = @ + 1,
                         ![b].captured = IF s.op = "capture"
                                         THEN Boundary(s.on, q.plan.start, now) ELSE None]
    BY DEF RunStatement
  <1> DEFINE c == IF s.op = "capture" THEN Boundary(s.on, q.plan.start, now) ELSE None
  <1>1. Typed /\ TargetTyped /\ Fed
    BY DEF DirectInv, Typed
  <1>2. /\ lock = b /\ q.pc = "run" /\ q.at <= Len(q.steps) /\ Works(b, s)
        /\ Apply(b, s, TRUE, now)
        /\ build' = [build EXCEPT ![b].at = @ + 1, ![b].captured = c]
        /\ UNCHANGED <<version, declared, topic, offset, baseline, lock, spent>>
    BY <1>0 DEF RunStatement, Running, authored
  <1>3. /\ q \in Records /\ Shaped(q) /\ q.plan \in Plans /\ Assembled(q.plan, q.steps)
        /\ q.fix = 1
    BY <1>2, AtWork DEF Busy, Shaped
  <1>4. /\ Runnable(b, s)
        /\ q.at \in 1..Len(q.steps) /\ Len(q.steps) \in Nat
        /\ s.op = "prepare landing" => ~q.plan.landing
        /\ (q.at + 1 <= Len(q.steps) /\ q.steps[q.at + 1].op = "replay") => s.op = "capture"
    BY <1>2, CurrentStatement
  <1>5. c \in Row \cup {None} /\ (s.op = "capture" => c # None)
    <2>1. CASE s.op = "capture"
      <3>1. s.on \in TableModels /\ Present(Driving(s.on))
        BY <1>2, <1>4, <2>1 DEF Runnable, Works
      <3>2. rows[Driving(s.on)] \in Row \cup {None} /\ rows[Driving(s.on)] # None
        BY <1>1, <3>1, DrivingTable DEF TargetTyped, Rows, Present
      <3>3. Boundary(s.on, q.plan.start, now) \in Row
        BY <3>1, <3>2, BoundaryFacts
      <3> QED  BY <2>1, <3>3, RowFacts
    <2>2. CASE s.op # "capture"
      BY <2>2
    <2> QED  BY <2>1, <2>2
  <1>6. TargetTyped' /\ Fed' /\ Effect(s)
    BY <1>1, <1>2, <1>3, <1>4, Applied
  <1>7. Typed'
    BY <1>1, <1>2, <1>6 DEF Typed
  <1>8. LandedOnce' /\ (Present(Source) => Present(Source)') /\ (OffsetsTrue' <=> OffsetsTrue)
    BY <1>2, <1>4, <1>6, StillLanded
  <1> HIDE DEF s, c
  <1>9. PICK r \in Records : /\ build' = [build EXCEPT ![b] = r]
                             /\ r.pc = "run" /\ r.plan = q.plan /\ r.steps = q.steps
                             /\ r.at = q.at + 1 /\ r.fix = 1 /\ r.captured = c
    <2> DEFINE r == [q EXCEPT !.at = @ + 1, !.captured = c]
    <2>1. q.at + 1 \in Nat
      BY <1>4, Positions
    <2>2. r \in Records
      BY <1>3, <1>5, <2>1 DEF Records
    <2>3. build' = [build EXCEPT ![b] = r]
      BY <1>2 DEF DirectInv
    <2>4. /\ r.pc = "run" /\ r.plan = q.plan /\ r.steps = q.steps
          /\ r.at = q.at + 1 /\ r.fix = 1 /\ r.captured = c
      BY <1>2, <1>3 DEF Records
    <2> QED  BY <2>2, <2>3, <2>4
  <1>10. r \in Shapes
    <2>1. r.at \in 1..(Len(r.steps) + 1)
      <3>1. q.at + 1 \in 1..(Len(q.steps) + 1)
        BY <1>4, Positions
      <3> QED  BY <1>9, <3>1
    <2>2. (r.at <= Len(r.steps) /\ r.steps[r.at].op = "replay") => r.captured # None
      BY <1>4, <1>5, <1>9
    <2>3. Shaped(r)
      BY <1>3, <1>9, <2>1, <2>2 DEF Shaped
    <2> QED  BY <2>3 DEF Shapes
  <1>11. (r.pc = "run" /\ ~r.plan.landing /\ ~Present(Source)' /\ OffsetsTrue') => offset' = 0
    BY <1>2, <1>8, <1>9 DEF DirectInv, Fresh
  <1>12. Clean' => Restoring(r)'
    <2> SUFFICES ASSUME Clean' PROVE Restoring(r)'
      OBVIOUS
    <2>1. Clean
      BY <1>6 DEF Clean, Effect
    <2>2. /\ ~Restored' => \E i \in 1..q.at : q.steps[i].op \in {"pause", "clear"}
          /\ staged' # 0 => /\ q.plan.recreate
                            /\ \E i \in (q.at + 1)..Len(q.steps) : q.steps[i].op = "retire"
          /\ q.at = Len(q.steps) => flowing'
      BY <1>2, <1>6, <2>1, Disturbed DEF s
    <2>3. (r.at - 1) = q.at /\ (r.at > Len(r.steps) => q.at = Len(q.steps))
      <3>1. (q.at + 1) - 1 = q.at /\ (q.at + 1 > Len(q.steps) => q.at = Len(q.steps))
        BY <1>4, Positions
      <3> QED  BY <1>9, <3>1
    <2> HIDE DEF q
    <2> QED  BY <1>9, <2>2, <2>3 DEF Restoring
  <1>13. lock' = b /\ b # None
    BY <1>2, BoundsAssumption
  <1>14. r.pc \in Busy
    BY <1>9 DEF Busy
  <1> QED  BY <1>2, <1>6, <1>7, <1>8, <1>9, <1>10, <1>11, <1>12, <1>13, <1>14, Alone

\* A statement that fails has its effect, or has none.
LEMMA FailStatementDirect ==
  ASSUME DirectInv, NEW b \in Builders, FailStatement(b) PROVE DirectInv'
  <1> DEFINE s == Current(b)
             q == build[b]
             pc == IF PausedBy(b) THEN "recover" ELSE "failed"
  <1>1. Typed /\ TargetTyped /\ Fed
    BY DEF DirectInv, Typed
  <1>2. /\ lock = b /\ q.pc = "run" /\ q.at <= Len(q.steps)
        /\ Go(b, pc)
        /\ UNCHANGED <<version, declared, topic, offset, baseline, lock>>
    BY DEF FailStatement, Running, authored
  <1>3. \/ UNCHANGED <<kafka, staged, flowing, rows, live, history>>
        \/ Works(b, s) /\ \E now \in Times : Apply(b, s, FALSE, now)
    BY DEF FailStatement, target, source
  <1>4. spent' \in Purses
    BY <1>1, SpendTyped DEF FailStatement, Typed
  <1>5. /\ q \in Records /\ Shaped(q) /\ q.plan \in Plans /\ Assembled(q.plan, q.steps)
        /\ q.fix = 1
    BY <1>2, AtWork DEF Busy, Shaped
  <1>6. /\ Runnable(b, s)
        /\ q.at \in 1..Len(q.steps) /\ Len(q.steps) \in Nat
        /\ s.op = "prepare landing" => ~q.plan.landing
    BY <1>2, CurrentStatement
  <1>7. \/ UNCHANGED <<kafka, staged, flowing, rows, live, history>>
        \/ TargetTyped' /\ Fed' /\ Effect(s)
    BY <1>1, <1>3, <1>5, <1>6, Applied
  <1>8. TargetTyped' /\ Fed' /\ LandedOnce' /\ (Clean' => Clean)
    <2>1. CASE UNCHANGED <<kafka, staged, flowing, rows, live, history>>
      BY <1>1, <1>2, <2>1 DEF DirectInv, TargetTyped, Fed, LandedOnce, Present, Clean
    <2>2. CASE TargetTyped' /\ Fed' /\ Effect(s)
      BY <1>2, <1>6, <2>2, StillLanded DEF Clean, Effect
    <2> QED  BY <1>7, <2>1, <2>2
  <1>9. Typed'
    BY <1>1, <1>2, <1>4, <1>8 DEF Typed
  <1>10. pc \in {"recover", "failed"} /\ pc \in Phases /\ pc \in Busy
    BY DEF Phases, Busy
  <1>11. PICK r \in Records : /\ build' = [build EXCEPT ![b] = r]
                              /\ r.pc = pc /\ r.plan = q.plan /\ r.steps = q.steps
                              /\ r.at = q.at /\ r.fix = q.fix /\ r.captured = q.captured
    BY <1>2, <1>10, Moved
  <1>12. r \in Shapes
    <2>1. r.at \in 1..(Len(r.steps) + 1) /\ r.fix > 0
      <3>1. q.at \in 1..(Len(q.steps) + 1)
        BY <1>6, Positions
      <3> QED  BY <1>5, <1>11, <3>1, OneIsFirst
    <2>2. Shaped(r)
      <3> HIDE DEF pc
      <3> QED  BY <1>2, <1>5, <1>10, <1>11, <2>1 DEF Shaped
    <2> QED  BY <2>2 DEF Shapes
  <1>13. Clean' => Restoring(r)'
    <2> SUFFICES ASSUME Clean' PROVE Restoring(r)'
      OBVIOUS
    <2>1. Clean
      BY <1>8
    <2>2. /\ ~Restored' => \E i \in 1..q.at : q.steps[i].op \in {"pause", "clear"}
          /\ staged' # 0 => q.plan.recreate
      <3>1. CASE UNCHANGED <<kafka, staged, flowing, rows, live, history>>
        <4>1. Restoring(q)
          BY <2>1 DEF DirectInv, SourceKept
        <4>2. \A i \in 1..(q.at - 1) : i \in 1..q.at
          BY <1>6, Positions
        <4> QED  BY <1>2, <3>1, <4>1, <4>2 DEF Restoring, Restored
      <3>2. CASE TargetTyped' /\ Fed' /\ Effect(s)
        BY <1>2, <2>1, <3>2, Disturbed
      <3> QED  BY <1>7, <3>1, <3>2
    <2>3. (\E i \in 1..q.at : q.steps[i].op \in {"pause", "clear"}) => PausedBy(b)
      <3> SUFFICES ASSUME NEW i \in 1..q.at, q.steps[i].op \in {"pause", "clear"} PROVE PausedBy(b)
        OBVIOUS
      <3>1. i = q.at \/ i \in 1..(q.at - 1)
        BY <1>6, Positions
      <3>2. q.steps[i] \in Completed(b) \cup {Current(b)}
        BY <3>1 DEF Completed, Current
      <3> QED  BY <3>2 DEF PausedBy
    <2>4. ~(r.fix > 1) /\ ~(r.fix > 2) /\ r.fix = 1
      BY <1>5, <1>11, OneIsFirst
    <2> HIDE DEF q
    <2>5. pc = "failed" => Restored'
      BY <2>2, <2>3
    <2> HIDE DEF pc
    <2> QED  BY <1>10, <1>11, <2>2, <2>4, <2>5 DEF Restoring
  <1>14. lock' = b /\ b # None
    BY <1>2, BoundsAssumption
  <1> HIDE DEF pc
  <1>15. r.pc # "run" /\ r.pc \in Busy
    BY <1>10, <1>11
  <1> QED  BY <1>2, <1>8, <1>9, <1>11, <1>12, <1>13, <1>14, <1>15, Alone

\* Lists of one and two.
LEMMA OfTwo ==
  ASSUME NEW x, NEW y
  PROVE  Len(<<x>> \o <<y>>) = 2 /\ (<<x>> \o <<y>>)[1] = x /\ (<<x>> \o <<y>>)[2] = y
  OBVIOUS

LEMMA OfOne == ASSUME NEW y PROVE Len(<<>> \o <<y>>) = 1 /\ (<<>> \o <<y>>)[1] = y
  OBVIOUS

LEMMA FirstNumbers ==
  \A n \in Nat : n > 0 => (n <= 1 => n = 1) /\ (n <= 2 => n = 1 \/ n = 2)
  OBVIOUS

\* A recovery clears what is staged, and activates the source last.
LEMMA RecoveryShape ==
  ASSUME DirectInv, NEW b \in Builders, build[b].pc = "recover"
  PROVE  LET list == RecoveryStatements(b)
         IN  IF build[b].plan.recreate
             THEN /\ Len(list) = 2 /\ list[1] = Statement("recover staged", Source)
                  /\ list[2] = Statement("activate", Source)
             ELSE Len(list) = 1 /\ list[1] = Statement("activate", Source)
  <1> DEFINE q == build[b]
             n == Len(q.steps)
             act == Statement("activate", Source)
             rec == Statement("recover staged", Source)
  <1>1. Assembled(q.plan, q.steps) /\ q.at \in 1..(n + 1) /\ n \in Nat /\ Shaped(q)
    BY AtWork DEF Busy
  <1>2. q.at <= n
    BY <1>1 DEF Shaped
  <1>3. \A i \in 1..(q.at - 1) : i \in 1..n /\ i # n
    BY <1>1, <1>2
  <1>4. \A i \in 1..(q.at - 1) : Placed(q.plan, q.steps, i)
    BY <1>1, <1>3 DEF Assembled
  <1>5. \A i \in 1..(q.at - 1) : q.steps[i] # act
    <2>1. act.op = "activate"
      BY DEF Statement
    <2>2. \A i \in 1..(q.at - 1) : q.steps[i].op # "activate"
      BY <1>4 DEF Placed
    <2> HIDE DEF act
    <2> QED  BY <2>1, <2>2, Zenon
  <1>6. act \notin Completed(b)
    BY <1>5 DEF Completed
  <1>7. RecoveryStatements(b) = (IF q.plan.recreate THEN <<rec>> ELSE <<>>) \o <<act>>
    BY <1>6 DEF RecoveryStatements, If
  <1> HIDE DEF act, rec
  <1> DEFINE list == RecoveryStatements(b)
  <1>8. CASE q.plan.recreate
    <2>1. list = <<rec>> \o <<act>>
      BY <1>7, <1>8, Zenon
    <2>2. Len(<<rec>> \o <<act>>) = 2 /\ (<<rec>> \o <<act>>)[1] = rec /\ (<<rec>> \o <<act>>)[2] = act
      BY OfTwo
    <2> QED  BY <1>8, <2>1, <2>2, Zenon DEF act, rec
  <1>9. CASE ~q.plan.recreate
    <2>1. list = <<>> \o <<act>>
      BY <1>7, <1>9, Zenon
    <2>2. Len(<<>> \o <<act>>) = 1 /\ (<<>> \o <<act>>)[1] = act
      BY OfOne
    <2> QED  BY <1>9, <2>1, <2>2, Zenon DEF act
  <1> QED  BY <1>8, <1>9

LEMMA RecoverDirect == ASSUME DirectInv, NEW b \in Builders, Recover(b) PROVE DirectInv'
  <1> DEFINE q == build[b]
             list == RecoveryStatements(b)
             s == list[q.fix]
             act == Statement("activate", Source)
             rec == Statement("recover staged", Source)
  <1>1. Typed /\ TargetTyped /\ Fed
    BY DEF DirectInv, Typed
  <1>2. /\ lock = b /\ q.pc = "recover" /\ q.fix <= Len(list)
        /\ build' = [build EXCEPT ![b].fix = @ + 1]
        /\ UNCHANGED <<version, declared, topic, offset, baseline, lock>>
    BY DEF Recover, authored
  <1>3. /\ q \in Records /\ Shaped(q) /\ q.plan \in Plans /\ Assembled(q.plan, q.steps)
        /\ q.at \in 1..(Len(q.steps) + 1) /\ q.at <= Len(q.steps) /\ q.fix > 0 /\ q.fix \in Nat
    BY <1>2, AtWork DEF Busy, Shaped, Records
  <1>4. IF q.plan.recreate THEN Len(list) = 2 /\ list[1] = rec /\ list[2] = act
                           ELSE Len(list) = 1 /\ list[1] = act
    BY <1>2, RecoveryShape
  <1>5. \/ q.plan.recreate /\ q.fix = 1 /\ s = rec
        \/ q.plan.recreate /\ q.fix = 2 /\ s = act
        \/ ~q.plan.recreate /\ q.fix = 1 /\ s = act
    <2> HIDE DEF list, act, rec
    <2>1. q.fix \in Nat /\ q.fix > 0 /\ q.fix <= Len(list)
      BY <1>2, <1>3
    <2> HIDE DEF q
    <2>2. CASE q.plan.recreate
      <3>1. q.fix = 1 \/ q.fix = 2
        BY <1>4, <2>1, <2>2, FirstNumbers
      <3> QED  BY <1>4, <2>2, <3>1
    <2>3. CASE ~q.plan.recreate
      <3>1. q.fix = 1
        BY <1>4, <2>1, <2>3, FirstNumbers
      <3> QED  BY <1>4, <2>3, <3>1
    <2> QED  BY <2>2, <2>3
  <1>6. Runnable(b, s) /\ s.op \in {"activate", "recover staged"}
    <2> HIDE DEF list
    <2>1. Runnable(b, act) /\ Runnable(b, rec)
      BY ProjectFacts DEF Runnable, Statement, Statements, Ops
    <2>2. act.op = "activate" /\ rec.op = "recover staged"
      BY DEF Statement
    <2> HIDE DEF act, rec, s
    <2> QED  BY <1>5, <2>1, <2>2
  <1>7. \/ Works(b, s) /\ \E now \in Times : Apply(b, s, TRUE, now)
        \/ Mishap("not recovered") /\ UNCHANGED <<kafka, staged, flowing, rows, live>>
    BY DEF Recover, target, source
  <1>8. spent' \in Purses
    BY <1>1, SpendTyped DEF Recover, Typed
  <1>m. PICK r \in Records : /\ build' = [build EXCEPT ![b] = r]
                             /\ r.pc = "recover" /\ r.plan = q.plan /\ r.steps = q.steps
                             /\ r.at = q.at /\ r.fix = q.fix + 1 /\ r.captured = q.captured
    <2> DEFINE r == [q EXCEPT !.fix = @ + 1]
    <2>1. q.fix + 1 \in Nat
      BY <1>3
    <2>2. r \in Records
      BY <1>3, <2>1 DEF Records
    <2>3. build' = [build EXCEPT ![b] = r]
      BY <1>2 DEF DirectInv
    <2>4. /\ r.pc = "recover" /\ r.plan = q.plan /\ r.steps = q.steps
          /\ r.at = q.at /\ r.fix = q.fix + 1 /\ r.captured = q.captured
      BY <1>2, <1>3 DEF Records
    <2> QED  BY <2>2, <2>3, <2>4
  <1>9. r \in Shapes
    <2>1. r.fix > 0
      BY <1>3, <1>m
    <2>2. Shaped(r)
      BY <1>3, <1>m, <2>1 DEF Shaped
    <2> QED  BY <2>2 DEF Shapes
  <1>10. lock' = b /\ b # None /\ r.pc \in Busy /\ r.pc # "run"
    BY <1>2, <1>m, BoundsAssumption DEF Busy
  <1>11. CASE Works(b, s) /\ \E now \in Times : Apply(b, s, TRUE, now)
    <2>1. TargetTyped' /\ Fed' /\ Effect(s)
      BY <1>1, <1>3, <1>6, <1>11, Applied
    <2>2. Typed'
      BY <1>1, <1>2, <1>8, <2>1 DEF Typed
    <2>3. LandedOnce'
      BY <1>2, <1>6, <2>1, StillLanded
    <2>4. Clean' => Restoring(r)'
      <3> SUFFICES ASSUME Clean' PROVE Restoring(r)'
        OBVIOUS
      <3>1. Restoring(q)
        <4>1. Clean
          BY <2>1 DEF Clean, Effect
        <4> QED  BY <4>1 DEF DirectInv, SourceKept
      <3>2. staged # 0 => q.plan.recreate /\ q.fix = 1
        BY <1>2, <3>1 DEF Restoring
      <3>3. rec.op = "recover staged" /\ act.op = "activate"
        BY DEF Statement
      <3> HIDE DEF rec, act, s
      <3>4. s = rec => staged' = 0
        BY <2>1, <3>3 DEF Effect
      <3>5. s = act => staged' = staged /\ flowing'
        BY <2>1, <3>3 DEF Effect, FlowingAfter
      <3> HIDE DEF q
      <3>6. staged' = 0
        <4>1. CASE s = rec
          BY <3>4, <4>1
        <4>2. CASE s = act /\ ~(q.plan.recreate /\ q.fix = 1)
          BY <3>2, <3>5, <4>2
        <4>3. s = rec \/ (s = act /\ ~(q.plan.recreate /\ q.fix = 1))
          BY <1>5
        <4> QED  BY <4>1, <4>2, <4>3
      <3>7. r.fix > (IF r.plan.recreate THEN 2 ELSE 1) => s = act
        BY <1>5, <1>m
      <3> QED  BY <1>m, <3>5, <3>6, <3>7 DEF Restoring
    <2> QED  BY <1>2, <1>m, <1>9, <1>10, <2>1, <2>2, <2>3, <2>4, Alone
  <1>12. CASE Mishap("not recovered") /\ UNCHANGED <<kafka, staged, flowing, rows, live>>
    <2>1. history' \in Histories /\ history'.mishaps = history.mishaps \cup {"not recovered"}
      <3>1. history \in Histories /\ "not recovered" \in Mishaps
        BY <1>1 DEF TargetTyped, Mishaps
      <3> QED  BY <1>12, <3>1, Noted
    <2>2. TargetTyped'
      BY <1>1, <1>12, <2>1 DEF TargetTyped
    <2>3. Typed'
      BY <1>1, <1>2, <1>8, <2>2 DEF Typed
    <2>4. Fed' /\ LandedOnce'
      BY <1>2, <1>12, <2>1 DEF DirectInv, Fed, LandedOnce, Present
    <2>5. ~Clean'
      BY <2>1 DEF Clean
    <2> QED  BY <1>2, <1>m, <1>9, <1>10, <2>3, <2>4, <2>5, Alone
  <1> QED  BY <1>7, <1>11, <1>12

LEMMA RecoveredDirect == ASSUME DirectInv, NEW b \in Builders, Recovered(b) PROVE DirectInv'
  <1> DEFINE q == build[b]
  <1>1. Typed /\ TargetTyped
    BY DEF DirectInv, Typed
  <1>2. /\ q.pc = "recover" /\ q.fix > Len(RecoveryStatements(b)) /\ Go(b, "failed")
        /\ UNCHANGED <<version, declared, topic, offset, kafka, staged, flowing, rows, live,
                       baseline, lock, spent, history>>
    BY DEF Recovered, authored, target, source
  <1>3. /\ q \in Records /\ Shaped(q) /\ q.plan \in Plans /\ Assembled(q.plan, q.steps)
        /\ q.at \in 1..(Len(q.steps) + 1) /\ q.fix > 0 /\ lock = b
    BY <1>2, AtWork DEF Busy, Shaped
  <1>4. Len(RecoveryStatements(b)) = IF q.plan.recreate THEN 2 ELSE 1
    BY <1>2, RecoveryShape
  <1>5. PICK r \in Records : /\ build' = [build EXCEPT ![b] = r]
                             /\ r.pc = "failed" /\ r.plan = q.plan /\ r.steps = q.steps
                             /\ r.at = q.at /\ r.fix = q.fix /\ r.captured = q.captured
    <2>1. "failed" \in Phases
      BY DEF Phases
    <2> QED  BY <1>2, <2>1, Moved
  <1>6. r \in Shapes
    <2>1. Shaped(r)
      BY <1>3, <1>5 DEF Shaped
    <2> QED  BY <2>1 DEF Shapes
  <1>7. TargetTyped'
    BY <1>1, <1>2 DEF TargetTyped
  <1>8. Typed'
    BY <1>1, <1>2, <1>7 DEF Typed
  <1>9. Fed' /\ LandedOnce'
    BY <1>2 DEF DirectInv, Fed, LandedOnce, Present
  <1>10. Clean' => Restoring(r)'
    <2> SUFFICES ASSUME Clean' PROVE Restoring(r)'
      OBVIOUS
    <2>1. Restoring(q)
      <3>1. Clean
        BY <1>2 DEF Clean
      <3> QED  BY <3>1 DEF DirectInv, SourceKept
    <2>2. q.fix > (IF q.plan.recreate THEN 2 ELSE 1)
      BY <1>2, <1>4
    <2>3. flowing /\ (staged # 0 => q.plan.recreate /\ q.fix = 1)
      BY <1>2, <2>1, <2>2 DEF Restoring
    <2>4. staged = 0
      <3>1. (q.plan.recreate /\ q.fix = 1) => FALSE
        BY <2>2, OneIsFirst
      <3> QED  BY <2>3, <3>1
    <2>5. Restored'
      BY <1>2, <2>3, <2>4 DEF Restored
    <2> QED  BY <1>5, <2>5 DEF Restoring
  <1>11. lock' = b /\ b # None /\ r.pc \in Busy /\ r.pc # "run"
    BY <1>2, <1>3, <1>5, BoundsAssumption DEF Busy
  <1> QED  BY <1>2, <1>3, <1>5, <1>6, <1>8, <1>9, <1>10, <1>11, Alone
-----------------------------------------------------------------------------
\* The theorems.

LEMMA NextDirect == DirectInv /\ [Next]_vars => DirectInv'
  <1> SUFFICES ASSUME DirectInv, [Next]_vars PROVE DirectInv'
    OBVIOUS
  <1>1. CASE UNCHANGED vars
    <2>1. UNCHANGED <<version, declared, topic, offset, kafka, staged, flowing, rows, live,
                      baseline, lock, build, spent, history>>
      BY <1>1 DEF vars
    <2>2. TargetTyped'
      BY <2>1 DEF DirectInv, Typed, TargetTyped
    <2>3. Typed'
      BY <2>1, <2>2 DEF DirectInv, Typed
    <2> QED  BY <2>1, <2>3, Quiet DEF target, source
  <1>2. ASSUME NEW b \in Builders, Builder(b) PROVE DirectInv'
    BY <1>2, PlanDirect, BeginDirect, ResetOffsetsDirect, RunDirect, FailStatementDirect,
       RecoverDirect, RecoveredDirect, SucceedDirect, FailDirect, CrashDirect DEF Builder
  <1> QED  BY <1>1, <1>2, PublishDirect, LandDirect, EditDirect, ResetDirect, ReleaseDirect DEF Next

\* The inductive invariant holds: the types of the deployment and of every plan
\* in progress, the lock's discipline, and what a build has to restore.
THEOREM DirectInvariant == Spec => []DirectInv
  BY InitDirect, NextDirect, PTL DEF Spec

\* Type correctness: every statement of a plan finds what it needs in the
\* builder's record; a replay never runs without its captured boundary, and
\* only the holder of the lock is at work.
THEOREM DirectTypeOK == Spec => []TypeOK
  <1>1. DirectInv => TypeOK
    <2> SUFFICES ASSUME DirectInv PROVE TypeOK
      OBVIOUS
    <2>1. Typed /\ TargetTyped
      BY DEF DirectInv, Typed
    <2>2. ASSUME NEW b \in Builders
          PROVE  /\ build[b].pc \in Phases
                 /\ build[b].pc \in Busy => lock = b
                 /\ (build[b].pc = "run" /\ build[b].at <= Len(build[b].steps)
                       /\ Current(b).op = "replay") => build[b].captured # None
      <3>1. build[b] \in Records /\ Shaped(build[b])
        BY DEF DirectInv, Shapes
      <3> QED  BY <3>1 DEF DirectInv, Locked, Records, Shaped, Current
    <2>3. \A x \in DOMAIN rows : rows[x] = None \/ rows[x] \in [Events -> Nat]
      BY <2>1 DEF TargetTyped, Rows, Row
    <2>4. history.built \subseteq Models /\ history.unrecorded \subseteq Models
      BY <2>1 DEF TargetTyped, Histories
    <2> QED  BY <2>1, <2>2, <2>3, <2>4 DEF TypeOK, Typed, TargetTyped, Phases, Busy
  <1> QED  BY <1>1, DirectInvariant, PTL

\* The landing table has every event the consumer group has committed, once,
\* across resets of the target and crashed builds: a fresh landing table starts
\* from the earliest event.
THEOREM LandsOnce == Spec => []LandedOnce
  <1>1. DirectInv => LandedOnce
    BY DEF DirectInv
  <1> QED  BY <1>1, DirectInvariant, PTL

\* A build that was not killed leaves the source flowing and no staged Kafka
\* table, wherever it failed.
THEOREM SourceComesBack == Spec => []SourceRestored
  <1>1. DirectInv => SourceRestored
    BY DEF DirectInv, SourceKept, Clean, Restored, SourceRestored
  <1> QED  BY <1>1, DirectInvariant, PTL
-----------------------------------------------------------------------------
\* The order of the models: what is selected from it, and what is driven.

\* No key twice, and prerequisites first.
Ordered(seq, keys, before) ==
  /\ seq \in Seq(keys)
  /\ \A i, j \in 1..Len(seq) : seq[i] = seq[j] => i = j
  /\ \A j \in 1..Len(seq) : \A b \in before :
       b[2] = seq[j] => \E i \in 1..(j - 1) : seq[i] = b[1]

\* The range of a sequence, by its positions.
LEMMA RangeIs ==
  ASSUME NEW K, NEW s \in Seq(K)
  PROVE  Range(s) = {s[i] : i \in 1..Len(s)}
<1>1. DOMAIN s = 1..Len(s)
  BY Members
<1>2. {s[x] : x \in DOMAIN s} = {s[i] : i \in 1..Len(s)}
  BY <1>1
<1>3. Range(s) = {s[x] : x \in DOMAIN s}
  BY DEF Range
<1> QED  BY <1>2, <1>3

\* Kahn's algorithm appends a key that is not there yet and whose
\* prerequisites are, unless there is none.
LEMMA AppendedInOrder ==
  ASSUME NEW keys \in SUBSET Nat, NEW before, NEW s, Ordered(s, keys, before)
  PROVE  /\ Ordered(AppendReady(keys, before, s), keys, before)
         /\ IF Ready(keys, before, Range(s)) = {} THEN AppendReady(keys, before, s) = s
            ELSE Len(AppendReady(keys, before, s)) = Len(s) + 1
<1> DEFINE ready == Ready(keys, before, Range(s))
           k == Min(ready)
           t == Append(s, k)
<1>0. s \in Seq(keys) /\ Len(s) \in Nat /\ Range(s) = {s[i] : i \in 1..Len(s)}
  <2>1. s \in Seq(keys)
    BY DEF Ordered
  <2>2. Len(s) \in Nat
    BY <2>1, Members
  <2> QED  BY <2>1, <2>2, RangeIs
<1>1. AppendReady(keys, before, s) = IF ready = {} THEN s ELSE t
  BY DEF AppendReady
<1>2. CASE ready = {}
  BY <1>1, <1>2
<1>3. CASE ready # {}
  <2>1. k \in ready
    <3>1. ready \in SUBSET Nat
      BY DEF Ready
    <3> HIDE DEF ready
    <3> QED  BY <1>3, <3>1, LeastOf
  <2>2. /\ k \in keys /\ \A i \in 1..Len(s) : s[i] # k
        /\ \A b \in before : b[2] = k => \E i \in 1..Len(s) : s[i] = b[1]
    BY <1>0, <2>1 DEF Ready
  <2> HIDE DEF k
  <2>3. /\ t \in Seq(keys) /\ Len(t) = Len(s) + 1 /\ t[Len(s) + 1] = k
        /\ \A i \in 1..Len(s) : t[i] = s[i]
    BY <1>0, <2>2
  <2> HIDE DEF t
  <2>4. \A i \in 1..Len(t) : i \in 1..Len(s) \/ i = Len(s) + 1
    BY <1>0, <2>3
  <2>5. ASSUME NEW i \in 1..Len(t), NEW j \in 1..Len(t), t[i] = t[j]
        PROVE  i = j
    BY <2>2, <2>3, <2>4, <2>5 DEF Ordered
  <2>6. ASSUME NEW j \in 1..Len(t), NEW b \in before, b[2] = t[j]
        PROVE  \E i \in 1..(j - 1) : t[i] = b[1]
    <3>1. CASE j \in 1..Len(s)
      <4>1. PICK i \in 1..(j - 1) : s[i] = b[1]
        BY <2>3, <2>6, <3>1 DEF Ordered
      <4>2. i \in 1..Len(s)
        BY <1>0, <3>1
      <4> QED  BY <2>3, <4>1, <4>2
    <3>2. CASE j = Len(s) + 1
      <4>1. PICK i \in 1..Len(s) : s[i] = b[1]
        BY <2>2, <2>3, <2>6, <3>2
      <4>2. i \in 1..(j - 1)
        BY <1>0, <3>2
      <4> QED  BY <2>3, <4>1, <4>2
    <3> QED  BY <2>4, <3>1, <3>2
  <2>7. Ordered(t, keys, before)
    BY <2>3, <2>5, <2>6 DEF Ordered
  <2> QED  BY <1>1, <1>3, <2>3, <2>7
<1> QED  BY <1>2, <1>3

\* Kahn's order: no key twice, every prerequisite before what needs it, and no
\* key left over that is ready.
LEMMA KahnOrdered ==
  ASSUME NEW keys \in SUBSET Nat, IsFiniteSet(keys), NEW before
  PROVE  LET s == KahnOrder(keys, before)
         IN  /\ Ordered(s, keys, before)
             /\ Len(s) = Cardinality(keys) \/ Ready(keys, before, Range(s)) = {}
<1> DEFINE N == Cardinality(keys)
           X == {s \in Seq(keys) : Ordered(s, keys, before)}
           step == [x \in X \X Nat |-> AppendReady(keys, before, x[1])]
           Fits(g) == g = [n \in 0..N |-> IF n = 0 THEN <<>>
                                          ELSE AppendReady(keys, before, g[n - 1])]
           order == CHOOSE g : Fits(g)
           Full(n) == Len(order[n]) = n \/ Ready(keys, before, Range(order[n])) = {}
<1>1. N \in Nat
  BY FS_CardinalityType
<1>2. ASSUME NEW s \in X PROVE AppendReady(keys, before, s) \in X
  BY AppendedInOrder DEF Ordered
<1>3. <<>> \in X /\ step \in [X \X Nat -> X]
  <2>1. <<>> \in X
    BY DEF Ordered
  <2> HIDE DEF X
  <2> QED  BY <1>2, <2>1
<1>n. \A n \in 0..N : n = 0 \/ (n \in 1..N /\ n # 0)
  BY <1>1
<1>4. \E g : Fits(g)
  <2>1. PICK g \in [0..N -> X] : g[0] = <<>> /\ \A n \in 1..N : g[n] = step[<<g[n - 1], n>>]
    <3> HIDE DEF N, X, step
    <3>1. \E g \in [0..N -> X] : Iterates(g, N, <<>>, step)
      BY <1>1, <1>3, Iterated
    <3> QED  BY <3>1 DEF Iterates
  <2>2. ASSUME NEW n \in 1..N PROVE g[n] = AppendReady(keys, before, g[n - 1])
    <3>1. n - 1 \in 0..N /\ n \in Nat
      BY <1>1
    <3> HIDE DEF X
    <3>2. <<g[n - 1], n>> \in X \X Nat
      BY <3>1
    <3> QED  BY <2>1, <3>2
  <2> HIDE DEF N, X
  <2> QED  BY <2>1, <2>2, <1>n
<1>5. Fits(order)
  <2> HIDE DEF Fits
  <2> QED  BY <1>4
<1>6. KahnOrder(keys, before) = order[N]
  BY DEF KahnOrder
<1> HIDE DEF order
<1>7. order[0] = <<>> /\ \A n \in 1..N : order[n] = AppendReady(keys, before, order[n - 1])
  <2>1. 0 \in 0..N /\ \A n \in 1..N : n \in 0..N /\ n # 0
    BY <1>1
  <2> HIDE DEF N
  <2> QED  BY <1>5, <2>1
<1>8. \A n \in 0..N : order[n] \in X
  <2>1. order[0] \in X
    BY <1>3, <1>7
  <2> HIDE DEF N, X, Fits
  <2> QED  BY <1>1, <1>2, <1>7, <2>1, StaysIn
<1> DEFINE S == {n \in Nat : n <= N => Full(n)}
<1>9. 0 \in S
  BY <1>7
<1>10. ASSUME NEW n \in S PROVE n + 1 \in S
  <2>1. CASE n + 1 <= N
    <3>1. n \in Nat /\ n <= N /\ n \in 0..N /\ n + 1 \in 1..N /\ (n + 1) - 1 = n
      BY <1>1, <2>1
    <3>2. order[n + 1] = AppendReady(keys, before, order[n]) /\ Full(n)
      BY <1>7, <3>1
    <3>3. Ordered(order[n], keys, before)
      BY <1>8, <3>1
    <3> DEFINE s == order[n]
               t == order[n + 1]
    <3> HIDE DEF s, t
    <3>4. IF Ready(keys, before, Range(s)) = {} THEN t = s ELSE Len(t) = Len(s) + 1
      <4>1. Ordered(s, keys, before) /\ t = AppendReady(keys, before, s)
        BY <3>2, <3>3 DEF s, t
      <4> QED  BY <4>1, AppendedInOrder
    <3>5. Full(n + 1)
      <4>1. Len(s) = n \/ Ready(keys, before, Range(s)) = {}
        BY <3>2 DEF s
      <4>2. Len(t) = n + 1 \/ Ready(keys, before, Range(t)) = {}
        BY <3>4, <4>1
      <4> QED  BY <4>2 DEF t
    <3> QED  BY <3>1, <3>5
  <2>2. CASE ~(n + 1 <= N)
    BY <2>2
  <2> QED  BY <2>1, <2>2
<1>11. S = Nat
  <2>1. S \in SUBSET Nat
    OBVIOUS
  <2> HIDE DEF S
  <2> QED  BY <1>9, <1>10, <2>1, Induction
<1>12. N \in S /\ N <= N /\ N \in 0..N
  BY <1>1, <1>11
<1> QED  BY <1>6, <1>8, <1>12

\* A list without repetition that is as long as the set of keys has them all.
LEMMA ListsAll ==
  ASSUME NEW keys, IsFiniteSet(keys), NEW s \in Seq(keys),
         \A i, j \in 1..Len(s) : s[i] = s[j] => i = j, Len(s) = Cardinality(keys)
  PROVE  \A k \in keys : \E i \in 1..Len(s) : s[i] = k
<1> DEFINE D == 1..Len(s)
<1>1. Len(s) \in Nat /\ s \in [D -> keys]
  OBVIOUS
<1>2. s \in Injection(D, keys)
  BY <1>1 DEF Injection, IsInjective
<1>3. Cardinality(D) = Len(s)
  BY <1>1, FS_Interval
<1> HIDE DEF D
<1>4. s \in Surjection(D, keys)
  BY <1>2, <1>3, FS_Injection
<1> QED  BY <1>4 DEF Surjection, D
\* What is selected of the first n members of a list: each of them once.
Picked(t, n, seq, K, set) ==
  /\ t \in Seq(K \cap set)
  /\ \A i, j \in 1..Len(t) : t[i] = t[j] => i = j
  /\ \A j \in 1..Len(t) : \E m \in 1..n : seq[m] = t[j]
  /\ \A i \in 1..n : seq[i] \in set => \E k \in 1..Len(t) : t[k] = seq[i]

LEMMA NextPicked ==
  ASSUME NEW K, NEW seq \in Seq(K), \A i, j \in 1..Len(seq) : seq[i] = seq[j] => i = j,
         NEW set, NEW n \in Nat, n + 1 <= Len(seq), NEW t, Picked(t, n, seq, K, set)
  PROVE  Picked(IF seq[n + 1] \in set THEN Append(t, seq[n + 1]) ELSE t, n + 1, seq, K, set)
<1> DEFINE c == seq[n + 1]
           u == Append(t, c)
<1>0. /\ Len(seq) \in Nat /\ n + 1 \in 1..Len(seq) /\ n + 1 \in 1..(n + 1)
      /\ \A m \in 1..n : m \in 1..(n + 1) /\ m \in 1..Len(seq) /\ m # n + 1
      /\ \A m \in 1..(n + 1) : m \in 1..n \/ m = n + 1
  OBVIOUS
<1>t. t \in Seq(K \cap set) /\ Len(t) \in Nat
  BY DEF Picked
<1>1. CASE c \notin set
  <2>1. \A i \in 1..(n + 1) : seq[i] \in set => \E k \in 1..Len(t) : t[k] = seq[i]
    BY <1>0, <1>1 DEF Picked
  <2>2. \A j \in 1..Len(t) : \E m \in 1..(n + 1) : seq[m] = t[j]
    BY <1>0 DEF Picked
  <2>3. Picked(t, n + 1, seq, K, set)
    BY <2>1, <2>2 DEF Picked
  <2> QED  BY <1>1, <2>3
<1>2. CASE c \in set
  <2>1. c \in K \cap set
    BY <1>0, <1>2, Members
  <2>2. \A j \in 1..Len(t) : t[j] # c
    BY <1>0 DEF Picked
  <2>c. c = seq[n + 1]
    OBVIOUS
  <2> HIDE DEF c
  <2>3. /\ u \in Seq(K \cap set) /\ Len(u) = Len(t) + 1 /\ u[Len(t) + 1] = c
        /\ \A i \in 1..Len(t) : u[i] = t[i]
    <3> DEFINE L == K \cap set
    <3> HIDE DEF L
    <3>1. t \in Seq(L) /\ c \in L
      BY <1>t, <2>1 DEF L
    <3>2. /\ u \in Seq(L) /\ Len(u) = Len(t) + 1 /\ u[Len(t) + 1] = c
          /\ \A i \in 1..Len(t) : u[i] = t[i]
      BY <3>1
    <3> QED  BY <3>2 DEF L
  <2> HIDE DEF u
  <2>4. /\ \A i \in 1..Len(u) : i \in 1..Len(t) \/ i = Len(t) + 1
        /\ \A i \in 1..Len(t) : i \in 1..Len(u)
        /\ Len(t) + 1 \in 1..Len(u)
    BY <1>t, <2>3
  <2>5. \A i, j \in 1..Len(u) : u[i] = u[j] => i = j
    BY <2>2, <2>3, <2>4 DEF Picked
  <2>6. \A j \in 1..Len(u) : \E m \in 1..(n + 1) : seq[m] = u[j]
    BY <1>0, <2>c, <2>3, <2>4 DEF Picked
  <2>7. \A i \in 1..(n + 1) : seq[i] \in set => \E k \in 1..Len(u) : u[k] = seq[i]
    <3>1. ASSUME NEW i \in 1..n, seq[i] \in set
          PROVE  \E k \in 1..Len(u) : u[k] = seq[i]
      <4>1. PICK k \in 1..Len(t) : t[k] = seq[i]
        BY <3>1 DEF Picked
      <4> QED  BY <2>3, <2>4, <4>1
    <3> QED  BY <1>0, <2>c, <2>3, <2>4, <3>1
  <2>8. Picked(u, n + 1, seq, K, set)
    BY <2>3, <2>5, <2>6, <2>7 DEF Picked
  <2> QED  BY <1>2, <2>8 DEF c, u
<1> QED  BY <1>1, <1>2

\* Selected keeps each member that is in the set, once.
LEMMA SelectedAll ==
  ASSUME NEW K, NEW seq \in Seq(K), \A i, j \in 1..Len(seq) : seq[i] = seq[j] => i = j, NEW set
  PROVE  Picked(Selected(seq, set), Len(seq), seq, K, set)
<1> DEFINE N == Len(seq)
           X == Seq(K \cap set)
           Next1(t, n) == IF n \in 1..N /\ seq[n] \in set THEN Append(t, seq[n]) ELSE t
           step == [x \in X \X Nat |-> Next1(x[1], x[2])]
           Fits(g) == g = [n \in 0..N |-> IF n = 0 THEN <<>>
                                          ELSE IF seq[n] \in set THEN Append(g[n - 1], seq[n])
                                                                 ELSE g[n - 1]]
           kept == CHOOSE g : Fits(g)
<1>1. N \in Nat /\ \A n \in 1..N : seq[n] \in K
  OBVIOUS
<1>2. ASSUME NEW t \in X, NEW n \in Nat PROVE Next1(t, n) \in X
  BY <1>1
<1>3. <<>> \in X /\ step \in [X \X Nat -> X]
  <2>1. <<>> \in X
    OBVIOUS
  <2> HIDE DEF X, Next1
  <2> QED  BY <1>2, <2>1
<1>n. \A n \in 0..N : n = 0 \/ (n \in 1..N /\ n # 0)
  BY <1>1
<1>4. \E g : Fits(g)
  <2>1. PICK g \in [0..N -> X] : g[0] = <<>> /\ \A n \in 1..N : g[n] = step[<<g[n - 1], n>>]
    <3> HIDE DEF N, X, step
    <3>1. \E g \in [0..N -> X] : Iterates(g, N, <<>>, step)
      BY <1>1, <1>3, Iterated
    <3> QED  BY <3>1 DEF Iterates
  <2>2. ASSUME NEW n \in 1..N
        PROVE  g[n] = IF seq[n] \in set THEN Append(g[n - 1], seq[n]) ELSE g[n - 1]
    <3>1. n - 1 \in 0..N /\ n \in Nat
      BY <1>1
    <3> HIDE DEF X
    <3>2. <<g[n - 1], n>> \in X \X Nat
      BY <3>1
    <3> QED  BY <2>1, <3>2
  <2> HIDE DEF N, X
  <2>3. ASSUME NEW n \in 0..N
        PROVE  g[n] = IF n = 0 THEN <<>> ELSE IF seq[n] \in set THEN Append(g[n - 1], seq[n])
                                                               ELSE g[n - 1]
    BY <2>1, <2>2, <1>n
  <2>4. g = [n \in 0..N |-> g[n]]
    BY <2>1
  <2>5. Fits(g)
    BY <2>3, <2>4, Zenon
  <2> QED  BY <2>5
<1>5. Fits(kept)
  <2> HIDE DEF Fits
  <2> QED  BY <1>4
<1>6. Selected(seq, set) = kept[N]
  BY DEF Selected
<1> HIDE DEF kept
<1>7. /\ kept[0] = <<>>
      /\ \A n \in 1..N : kept[n] = IF seq[n] \in set THEN Append(kept[n - 1], seq[n])
                                                     ELSE kept[n - 1]
  <2>1. 0 \in 0..N /\ \A n \in 1..N : n \in 0..N /\ n # 0
    BY <1>1
  <2> HIDE DEF N, X
  <2> QED  BY <1>5, <2>1
<1> DEFINE S == {n \in Nat : n <= N => Picked(kept[n], n, seq, K, set)}
<1>8. 0 \in S
  <2>1. Picked(<<>>, 0, seq, K, set)
    BY DEF Picked
  <2> QED  BY <1>7, <2>1
<1>9. ASSUME NEW n \in S PROVE n + 1 \in S
  <2>1. CASE n + 1 <= N
    <3>1. n \in Nat /\ n <= N /\ n + 1 \in 1..N /\ (n + 1) - 1 = n
      BY <1>1, <2>1
    <3>2. kept[n + 1] = IF seq[n + 1] \in set THEN Append(kept[n], seq[n + 1]) ELSE kept[n]
      BY <1>7, <3>1
    <3>3. Picked(kept[n], n, seq, K, set)
      BY <3>1
    <3>4. Picked(kept[n + 1], n + 1, seq, K, set)
      BY <2>1, <3>1, <3>2, <3>3, NextPicked
    <3> QED  BY <3>1, <3>4
  <2>2. CASE ~(n + 1 <= N)
    BY <2>2
  <2> QED  BY <2>1, <2>2
<1>10. S = Nat
  <2>1. S \in SUBSET Nat
    OBVIOUS
  <2> HIDE DEF S
  <2> QED  BY <1>8, <1>9, <2>1, Induction
<1>11. N \in S /\ N <= N
  BY <1>1, <1>10
<1> QED  BY <1>6, <1>11

\* What is reached is closed: after as many rounds as there are pairs, another
\* adds nothing.
LEMMA ClosureClosed ==
  ASSUME NEW pairs, IsFiniteSet(pairs), NEW roots
  PROVE  /\ roots \subseteq Closure(pairs, roots)
         /\ \A x \in pairs : x[1] \in Closure(pairs, roots) => x[2] \in Closure(pairs, roots)
<1> DEFINE N == Cardinality(pairs)
           T == roots \cup {x[2] : x \in pairs}
           X == SUBSET T
           Grown(seen) == seen \cup {x[2] : x \in {y \in pairs : y[1] \in seen}}
           step == [x \in X \X Nat |-> Grown(x[1])]
           Fits(g) == g = [n \in 0..N |-> IF n = 0 THEN roots ELSE Grown(g[n - 1])]
           reach == CHOOSE g : Fits(g)
           Closed(s) == \A x \in pairs : x[1] \in s => x[2] \in s
           hits(s) == {x \in pairs : x[2] \in s}
<1>1. N \in Nat
  BY FS_CardinalityType
<1>2. ASSUME NEW s \in X PROVE Grown(s) \in X
  OBVIOUS
<1>3. roots \in X /\ step \in [X \X Nat -> X]
  <2>1. roots \in X
    OBVIOUS
  <2> HIDE DEF X, Grown
  <2> QED  BY <1>2, <2>1
<1>n. \A n \in 0..N : n = 0 \/ (n \in 1..N /\ n # 0)
  BY <1>1
<1>4. \E g : Fits(g)
  <2>1. PICK g \in [0..N -> X] : g[0] = roots /\ \A n \in 1..N : g[n] = step[<<g[n - 1], n>>]
    <3> HIDE DEF N, X, step
    <3>1. \E g \in [0..N -> X] : Iterates(g, N, roots, step)
      BY <1>1, <1>3, Iterated
    <3> QED  BY <3>1 DEF Iterates
  <2>2. ASSUME NEW n \in 1..N PROVE g[n] = Grown(g[n - 1])
    <3>1. n - 1 \in 0..N /\ n \in Nat
      BY <1>1
    <3> HIDE DEF X, Grown
    <3>2. <<g[n - 1], n>> \in X \X Nat
      BY <3>1
    <3> QED  BY <2>1, <3>2
  <2> HIDE DEF N, X, Grown
  <2> QED  BY <2>1, <2>2, <1>n
<1>5. Fits(reach)
  <2> HIDE DEF Fits
  <2> QED  BY <1>4
<1>6. Closure(pairs, roots) = reach[N]
  BY DEF Closure
<1> HIDE DEF reach
<1>7. reach[0] = roots /\ \A n \in 1..N : reach[n] = Grown(reach[n - 1])
  <2>1. 0 \in 0..N /\ \A n \in 1..N : n \in 0..N /\ n # 0
    BY <1>1
  <2> HIDE DEF N, X, Grown
  <2> QED  BY <1>5, <2>1
<1>8. ASSUME NEW s PROVE IsFiniteSet(hits(s)) /\ Cardinality(hits(s)) \in Nat /\ Cardinality(hits(s)) <= N
  <2>1. hits(s) \in SUBSET pairs
    OBVIOUS
  <2> HIDE DEF hits
  <2> QED  BY <2>1, FS_Subset, FS_CardinalityType
\* A round that adds anything reaches the end of one more pair.
<1>9. ASSUME NEW s, ~Closed(s) PROVE Cardinality(hits(Grown(s))) >= Cardinality(hits(s)) + 1
  <2>1. PICK x \in pairs : x[1] \in s /\ x[2] \notin s
    BY <1>9
  <2>2. x \notin hits(s) /\ hits(s) \cup {x} \in SUBSET hits(Grown(s))
    BY <2>1
  <2> HIDE DEF hits, Grown
  <2>3. Cardinality(hits(s) \cup {x}) = Cardinality(hits(s)) + 1
    BY <1>8, <2>2, FS_AddElement
  <2>4. Cardinality(hits(s) \cup {x}) <= Cardinality(hits(Grown(s)))
    BY <1>8, <2>2, FS_Subset
  <2> QED  BY <1>8, <2>3, <2>4
<1>10. \A s : Closed(s) => Grown(s) = s
  OBVIOUS
<1> DEFINE Good(n) == roots \subseteq reach[n] /\ (Closed(reach[n]) \/ n <= Cardinality(hits(reach[n])))
           S == {n \in Nat : n <= N => Good(n)}
<1>11. 0 \in S
  <2>1. 0 <= Cardinality(hits(reach[0]))
    <3> HIDE DEF hits
    <3> QED  BY <1>8
  <2>2. Good(0)
    BY <1>7, <2>1
  <2> HIDE DEF Good
  <2> QED  BY <2>2
<1>12. ASSUME NEW n \in S PROVE n + 1 \in S
  <2>1. CASE n + 1 <= N
    <3>1. n \in Nat /\ n <= N /\ n + 1 \in 1..N /\ (n + 1) - 1 = n
      BY <1>1, <2>1
    <3>2. reach[n + 1] = Grown(reach[n]) /\ Good(n)
      BY <1>7, <3>1
    <3>3. roots \subseteq reach[n + 1]
      BY <3>2
    <3>4. Closed(reach[n + 1]) \/ n + 1 <= Cardinality(hits(reach[n + 1]))
      <4>1. CASE Closed(reach[n])
        BY <1>10, <3>2, <4>1
      <4>2. CASE ~Closed(reach[n])
        <5>1. n <= Cardinality(hits(reach[n]))
          BY <3>2, <4>2
        <5>2. Cardinality(hits(reach[n + 1])) >= Cardinality(hits(reach[n])) + 1
          BY <1>9, <3>2, <4>2
        <5> HIDE DEF hits, Grown, Closed
        <5> QED  BY <1>8, <3>1, <5>1, <5>2
      <4> QED  BY <4>1, <4>2
    <3> HIDE DEF Closed, hits
    <3> QED  BY <3>1, <3>3, <3>4
  <2>2. CASE ~(n + 1 <= N)
    BY <2>2
  <2> QED  BY <2>1, <2>2
<1>13. S = Nat
  <2>1. S \in SUBSET Nat
    OBVIOUS
  <2> HIDE DEF S
  <2> QED  BY <1>11, <1>12, <2>1, Induction
<1>14. Good(N)
  <2> HIDE DEF Good
  <2> QED  BY <1>1, <1>13
<1>15. Closed(reach[N])
  <2> SUFFICES ASSUME ~Closed(reach[N]) PROVE FALSE
    OBVIOUS
  <2>1. N <= Cardinality(hits(reach[N]))
    BY <1>14
  <2>2. Cardinality(hits(reach[N])) = N /\ hits(reach[N]) \in SUBSET pairs
    <3> HIDE DEF hits
    <3>1. hits(reach[N]) \in SUBSET pairs
      BY DEF hits
    <3> QED  BY <1>1, <1>8, <2>1, <3>1
  <2>3. hits(reach[N]) = pairs
    <3> HIDE DEF hits
    <3> QED  BY <2>2, FS_Subset
  <2> QED  BY <2>3
<1> QED  BY <1>6, <1>14, <1>15

\* The driving input of a table model is one of its inputs, by an edge.
LEMMA DrivingEdge ==
  \A m \in TableModels : /\ Driving(m) \in Inputs(m) /\ Sides(m) = Inputs(m) \ {Driving(m)}
                         /\ \E e \in Edges(Project) : e.up = Driving(m) /\ e.down = m
  <1> TAKE m \in TableModels
  <1>1. PICK e \in Edges(Project) : Drives(e, m)
    BY ProjectAssumption
  <1> DEFINE d == CHOOSE f \in Edges(Project) : Drives(f, m)
  <1>2. d \in Edges(Project) /\ Drives(d, m)
    BY <1>1
  <1>3. Driving(m) = d.up
    BY DEF Driving, DrivingParents
  <1> HIDE DEF d
  <1>4. m \in Models
    BY ProjectFacts
  <1>5. d.up \in Inputs(m) /\ d.down = m
    BY <1>2, <1>4 DEF Inputs, References, Drives
  <1> QED  BY <1>2, <1>3, <1>5 DEF Sides

\* The order of a project that compiles has every key once, inputs first, and
\* what is selected of it every key of the selection once; by name as well.
LEMMA OrderComplete ==
  /\ \A k \in Keys(Project) : \E i \in 1..Len(Order) : Order[i] = k
  /\ \A i, j \in 1..Len(Order) : Order[i] = Order[j] => i = j
  /\ \A j \in 1..Len(Order), m \in TableModels :
       Order[j] = m => \E i \in 1..(j - 1) : Order[i] = Driving(m)
  /\ \A scope : \A i, j \in 1..Len(InOrder(scope)) : InOrder(scope)[i] = InOrder(scope)[j] => i = j
  /\ \A scope : \A k \in Keys(Project) \cap scope : \E i \in 1..Len(InOrder(scope)) : InOrder(scope)[i] = k
  /\ \A scope \in SUBSET Models : \A k \in scope : \E i \in 1..Len(ByName(scope)) : ByName(scope)[i] = k
  <1> DEFINE K == Keys(Project)
             before == {<<e.up, e.down>> : e \in Edges(Project)}
  <1>1. K \in SUBSET Nat /\ IsFiniteSet(K)
    BY ProjectFacts, ProjectAssumption
  <1>2. Order = KahnOrder(K, before) /\ Len(Order) = Cardinality(K)
    BY ProjectAssumption DEF Order, OrderedKeys, Compiles, Acyclic
  <1>3. Ordered(Order, K, before)
    <2> HIDE DEF K, before
    <2> QED  BY <1>1, <1>2, KahnOrdered
  <1>4. Order \in Seq(K) /\ \A i, j \in 1..Len(Order) : Order[i] = Order[j] => i = j
    BY <1>3 DEF Ordered
  <1>5. \A k \in K : \E i \in 1..Len(Order) : Order[i] = k
    <2> HIDE DEF K
    <2> QED  BY <1>1, <1>2, <1>4, ListsAll
  <1>6. ASSUME NEW j \in 1..Len(Order), NEW m \in TableModels, Order[j] = m
        PROVE  \E i \in 1..(j - 1) : Order[i] = Driving(m)
    <2>1. PICK e \in Edges(Project) : e.up = Driving(m) /\ e.down = m
      BY DrivingEdge
    <2> DEFINE b == <<e.up, e.down>>
    <2>2. b \in before /\ b[1] = Driving(m) /\ b[2] = m
      BY <2>1
    <2> HIDE DEF b, before, K
    <2> QED  BY <1>3, <1>6, <2>2 DEF Ordered
  <1>7. ASSUME NEW scope
        PROVE  /\ \A i, j \in 1..Len(InOrder(scope)) : InOrder(scope)[i] = InOrder(scope)[j] => i = j
               /\ \A k \in K \cap scope : \E i \in 1..Len(InOrder(scope)) : InOrder(scope)[i] = k
    <2> HIDE DEF K
    <2>1. Picked(InOrder(scope), Len(Order), Order, K, scope)
      BY <1>4, SelectedAll DEF InOrder
    <2> QED  BY <1>5, <2>1 DEF Picked
  <1>8. ASSUME NEW scope \in SUBSET Models, NEW k \in scope
        PROVE  \E i \in 1..Len(ByName(scope)) : ByName(scope)[i] = k
    <2> DEFINE s == ByName(scope)
    <2>1. scope \in SUBSET Nat /\ IsFiniteSet(scope)
      BY ProjectFacts, ProjectAssumption, FS_Subset
    <2>2. /\ Ordered(s, scope, {})
          /\ Len(s) = Cardinality(scope) \/ Ready(scope, {}, Range(s)) = {}
      BY <2>1, KahnOrdered DEF ByName
    <2> HIDE DEF s
    <2>3. s \in Seq(scope) /\ \A i, j \in 1..Len(s) : s[i] = s[j] => i = j
      BY <2>2 DEF Ordered
    <2>4. CASE Len(s) = Cardinality(scope)
      <3>1. \A l \in scope : \E i \in 1..Len(s) : s[i] = l
        BY <2>1, <2>3, <2>4, ListsAll
      <3> QED  BY <3>1 DEF s
    <2>5. CASE Ready(scope, {}, Range(s)) = {}
      <3>1. k \in Range(s)
        BY <2>5 DEF Ready
      <3>2. Range(s) = {s[i] : i \in 1..Len(s)}
        BY <2>3, RangeIs
      <3> QED  BY <3>1, <3>2 DEF s
    <2> QED  BY <2>2, <2>4, <2>5
  <1> QED  BY <1>4, <1>5, <1>6, <1>7, <1>8

\* What drives a table comes before it.
Rank == [k \in Keys(Project) |-> CHOOSE i \in 1..Len(Order) : Order[i] = k]

LEMMA DrivingBefore ==
  /\ \A k \in Keys(Project) : Rank[k] \in Nat
  /\ \A m \in TableModels : Rank[Driving(m)] < Rank[m]
  <1>1. ASSUME NEW k \in Keys(Project) PROVE Rank[k] \in 1..Len(Order) /\ Order[Rank[k]] = k
    BY OrderComplete DEF Rank
  <1>2. Len(Order) \in Nat
    BY OrderTyped, Members
  <1>3. ASSUME NEW m \in TableModels PROVE Rank[Driving(m)] < Rank[m]
    <2>1. m \in Keys(Project) /\ Driving(m) \in Keys(Project)
      BY ProjectFacts, DrivingTable DEF Tables
    <2>2. PICK i \in 1..(Rank[m] - 1) : Order[i] = Driving(m)
      BY <1>1, <2>1, OrderComplete
    <2>3. i \in 1..Len(Order) /\ i < Rank[m]
      BY <1>1, <1>2, <2>1
    <2> DEFINE d == Rank[Driving(m)]
    <2>4. d \in 1..Len(Order) /\ Order[i] = Order[d]
      BY <1>1, <2>1, <2>2
    <2> HIDE DEF d
    <2>5. i = d
      BY <2>3, <2>4, OrderComplete
    <2> QED  BY <2>3, <2>5 DEF d
  <1> QED  BY <1>1, <1>2, <1>3
-----------------------------------------------------------------------------
\* One round of a push through the views.
PushRound(x, new, d) ==
  [y \in Tables |-> IF y = x THEN new
                    ELSE IF y # Source /\ live[y] # 0 THEN Joined(y, d[Driving(y)])
                    ELSE NoRows]

\* The push is made round by round.
LEMMA PushedSteps ==
  ASSUME NEW x \in Tables, NEW new \in Row
  PROVE  \E delta : LET N == Cardinality(TableModels)
                    IN  /\ \A n \in 0..N : delta[n] \in [Tables -> Row]
                        /\ delta[0] = [y \in Tables |-> IF y = x THEN new ELSE NoRows]
                        /\ \A n \in 1..N : delta[n] = PushRound(x, new, delta[n - 1])
                        /\ Pushed(x, new) = delta[N]
<1> DEFINE N == Cardinality(TableModels)
           X == [Tables -> Row]
           base == [y \in Tables |-> IF y = x THEN new ELSE NoRows]
           Grown(d) == PushRound(x, new, d)
           step == [z \in X \X Nat |-> Grown(z[1])]
           Fits(g) == g = [n \in 0..N |->
                             [y \in Tables |-> IF y = x THEN new
                                               ELSE IF n > 0 /\ y # Source /\ live[y] # 0
                                               THEN Joined(y, g[n - 1][Driving(y)]) ELSE NoRows]]
           delta == CHOOSE g : Fits(g)
<1>1. N \in Nat
  BY ProjectFacts, FS_CardinalityType
<1>2. ASSUME NEW d \in X PROVE Grown(d) \in X
  <2>1. ASSUME NEW y \in Tables PROVE Grown(d)[y] \in Row
    <3>1. CASE y \in TableModels
      <4>1. d[Driving(y)] \in Row
        BY <3>1, DrivingTable
      <4>2. Joined(y, d[Driving(y)]) \in Row
        BY <4>1, JoinedTyped
      <4> QED  BY <4>2, RowFacts DEF PushRound
    <3>2. CASE y = Source
      BY <3>2, RowFacts DEF PushRound
    <3> QED  BY <3>1, <3>2 DEF Tables
  <2>2. Grown(d) = [y \in Tables |-> Grown(d)[y]]
    BY DEF PushRound
  <2> HIDE DEF Grown
  <2> QED  BY <2>1, <2>2
<1>3. base \in X /\ step \in [X \X Nat -> X]
  <2>1. base \in X
    BY RowFacts
  <2> HIDE DEF X, Grown, base
  <2> QED  BY <1>2, <2>1
<1>n. \A n \in 0..N : n = 0 \/ (n \in 1..N /\ n # 0 /\ n > 0)
  BY <1>1
<1>4. \E g : Fits(g)
  <2>1. PICK g \in [0..N -> X] : g[0] = base /\ \A n \in 1..N : g[n] = step[<<g[n - 1], n>>]
    <3> HIDE DEF N, X, step, base
    <3>1. \E g \in [0..N -> X] : Iterates(g, N, base, step)
      BY <1>1, <1>3, Iterated
    <3> QED  BY <3>1 DEF Iterates
  <2>2. ASSUME NEW n \in 1..N PROVE g[n] = Grown(g[n - 1])
    <3>1. n - 1 \in 0..N /\ n \in Nat
      BY <1>1
    <3> HIDE DEF X, Grown
    <3>2. <<g[n - 1], n>> \in X \X Nat
      BY <3>1
    <3> QED  BY <2>1, <3>2
  <2> HIDE DEF N, X
  <2>3. ASSUME NEW n \in 0..N
        PROVE  g[n] = [y \in Tables |-> IF y = x THEN new
                                        ELSE IF n > 0 /\ y # Source /\ live[y] # 0
                                        THEN Joined(y, g[n - 1][Driving(y)]) ELSE NoRows]
    <3>1. CASE n = 0
      BY <2>1, <3>1
    <3>2. CASE n \in 1..N /\ n > 0
      BY <2>2, <3>2 DEF PushRound
    <3> QED  BY <1>n, <3>1, <3>2
  <2>4. g = [n \in 0..N |-> g[n]]
    BY <2>1
  <2>5. Fits(g)
    BY <2>3, <2>4, Zenon
  <2> QED  BY <2>5
<1>5. Fits(delta)
  <2> HIDE DEF Fits
  <2> QED  BY <1>4
<1>6. Pushed(x, new) = delta[N]
  BY DEF Pushed, Tables
<1> HIDE DEF delta
<1>7. delta[0] = base /\ \A n \in 1..N : delta[n] = Grown(delta[n - 1])
  <2>1. 0 \in 0..N /\ ~(0 > 0) /\ \A n \in 1..N : n \in 0..N /\ n > 0
    BY <1>1
  <2> HIDE DEF N, X
  <2>2. delta[0] = base
    BY <1>5, <2>1
  <2>3. ASSUME NEW n \in 1..N PROVE delta[n] = Grown(delta[n - 1])
    BY <1>5, <2>1 DEF PushRound
  <2> QED  BY <2>2, <2>3
<1>8. \A n \in 0..N : delta[n] \in X
  <2> HIDE DEF N, X, Fits, Grown, base
  <2> QED  BY <1>1, <1>2, <1>3, <1>7, StaysIn
<1> HIDE DEF N, X, Grown, base
<1>9. /\ \A n \in 0..N : delta[n] \in X
      /\ delta[0] = base
      /\ \A n \in 1..N : delta[n] = Grown(delta[n - 1])
      /\ Pushed(x, new) = delta[N]
  BY <1>6, <1>7, <1>8
<1> QED  BY <1>9 DEF N, X, Grown, base

\* A push is complete: whatever reaches a table reaches, through its view, the
\* tables it drives, for as long a chain as the project has; and where a table
\* has no view, the push ends.
LEMMA PushedThrough ==
  ASSUME NEW x \in Tables, NEW new \in Row
  PROVE  /\ Pushed(x, new) \in [Tables -> Row] /\ Pushed(x, new)[x] = new
         /\ \A y \in TableModels \ {x} :
              Pushed(x, new)[y] = IF live[y] # 0 THEN Joined(y, Pushed(x, new)[Driving(y)]) ELSE NoRows
         /\ x # Source => Pushed(x, new)[Source] = NoRows
<1> DEFINE N == Cardinality(TableModels)
           U(y) == {z \in TableModels : Rank[z] <= Rank[y]}
<1>1. N \in Nat /\ IsFiniteSet(TableModels)
  BY ProjectFacts, FS_CardinalityType
<1>2. PICK delta : /\ \A n \in 0..N : delta[n] \in [Tables -> Row]
                   /\ delta[0] = [y \in Tables |-> IF y = x THEN new ELSE NoRows]
                   /\ \A n \in 1..N : delta[n] = PushRound(x, new, delta[n - 1])
                   /\ Pushed(x, new) = delta[N]
  BY PushedSteps
<1>3. ASSUME NEW y \in TableModels
      PROVE  IsFiniteSet(U(y)) /\ Cardinality(U(y)) \in Nat /\ Cardinality(U(y)) <= N /\ y \in U(y)
  <2>1. U(y) \in SUBSET TableModels
    OBVIOUS
  <2>2. y \in U(y)
    BY ProjectFacts, DrivingBefore
  <2> HIDE DEF U
  <2> QED  BY <1>1, <2>1, <2>2, FS_Subset, FS_CardinalityType
<1>4. ASSUME NEW y \in TableModels, Driving(y) \in TableModels
      PROVE  Cardinality(U(Driving(y))) + 1 <= Cardinality(U(y))
  <2>1. U(Driving(y)) \cup {y} \in SUBSET U(y) /\ y \notin U(Driving(y))
    <3>1. /\ Rank[Driving(y)] < Rank[y] /\ Rank[Driving(y)] \in Nat /\ Rank[y] \in Nat
          /\ \A z \in TableModels : Rank[z] \in Nat
      BY <1>4, DrivingBefore, ProjectFacts
    <3>2. \A z \in TableModels : Rank[z] <= Rank[Driving(y)] => Rank[z] <= Rank[y]
      BY <3>1
    <3>3. Rank[y] <= Rank[y] /\ ~(Rank[y] <= Rank[Driving(y)])
      BY <3>1
    <3> QED  BY <3>2, <3>3
  <2> HIDE DEF U
  <2>2. Cardinality(U(Driving(y)) \cup {y}) = Cardinality(U(Driving(y))) + 1
    BY <1>3, <1>4, <2>1, FS_AddElement
  <2>3. Cardinality(U(Driving(y)) \cup {y}) <= Cardinality(U(y))
    BY <1>3, <2>1, FS_Subset
  <2> QED  BY <2>2, <2>3
<1> HIDE DEF U
\* What still changes in round n has n tables above it.
<1> DEFINE Deep(n) == \A y \in Tables : delta[n][y] # delta[n - 1][y] =>
                        y \in TableModels /\ n <= Cardinality(U(y))
           S == {n \in Nat : n + 1 <= N => Deep(n + 1)}
<1>5. ASSUME NEW n \in 1..N, NEW y \in Tables
      PROVE  delta[n][y] = IF y = x THEN new
                           ELSE IF y # Source /\ live[y] # 0 THEN Joined(y, delta[n - 1][Driving(y)])
                           ELSE NoRows
  <2> DEFINE d == delta[n - 1]
             f == delta[n]
  <2>1. f = PushRound(x, new, d)
    BY <1>2
  <2> HIDE DEF d, f
  <2>2. f[y] = IF y = x THEN new ELSE IF y # Source /\ live[y] # 0 THEN Joined(y, d[Driving(y)])
               ELSE NoRows
    BY <2>1 DEF PushRound
  <2> QED  BY <2>2 DEF d, f
<1>6. ASSUME NEW y \in Tables PROVE delta[0][y] = IF y = x THEN new ELSE NoRows
  BY <1>2
<1>7. 0 \in S
  <2> SUFFICES ASSUME 1 <= N, NEW y \in Tables, delta[1][y] # delta[0][y]
               PROVE  y \in TableModels /\ 1 <= Cardinality(U(y))
    OBVIOUS
  <2>1. y # x /\ y # Source
    BY <1>1, <1>5, <1>6
  <2>2. y \in TableModels
    BY <2>1 DEF Tables
  <2>3. Cardinality(U(y)) # 0
    BY <1>3, <2>2, FS_EmptySet
  <2> QED  BY <1>3, <2>2, <2>3
<1>8. ASSUME NEW n \in S PROVE n + 1 \in S
  <2> SUFFICES ASSUME (n + 1) + 1 <= N, NEW y \in Tables,
                      delta[(n + 1) + 1][y] # delta[((n + 1) + 1) - 1][y]
               PROVE  y \in TableModels /\ (n + 1) + 1 <= Cardinality(U(y))
    OBVIOUS
  <2>1. /\ n \in Nat /\ n + 1 \in 1..N /\ (n + 1) + 1 \in 1..N /\ ((n + 1) + 1) - 1 = n + 1
        /\ (n + 1) - 1 = n /\ n + 1 <= N
    BY <1>1
  <2>2. Deep(n + 1)
    BY <2>1
  <2>3. y # x /\ y # Source /\ live[y] # 0 /\ delta[n + 1][Driving(y)] # delta[n][Driving(y)]
    <3>1. delta[(n + 1) + 1][y] = IF y = x THEN new
                           ELSE IF y # Source /\ live[y] # 0 THEN Joined(y, delta[n + 1][Driving(y)])
                           ELSE NoRows
      BY <1>5, <2>1
    <3>2. delta[n + 1][y] = IF y = x THEN new
                           ELSE IF y # Source /\ live[y] # 0 THEN Joined(y, delta[n][Driving(y)])
                           ELSE NoRows
      BY <1>5, <2>1
    <3> QED  BY <2>1, <3>1, <3>2
  <2>4. y \in TableModels
    BY <2>3 DEF Tables
  <2>5. Driving(y) \in TableModels /\ n + 1 <= Cardinality(U(Driving(y)))
    BY <2>1, <2>2, <2>3, <2>4, DrivingTable
  <2> QED  BY <1>3, <1>4, <2>1, <2>4, <2>5
<1>9. S = Nat
  <2>1. S \in SUBSET Nat
    OBVIOUS
  <2> HIDE DEF S
  <2> QED  BY <1>7, <1>8, <2>1, Induction
<1>10. ASSUME NEW y \in TableModels \ {x}
       PROVE  delta[N][y] = IF live[y] # 0 THEN Joined(y, delta[N][Driving(y)]) ELSE NoRows
  <2>1. N >= 1 /\ N \in 1..N /\ N - 1 \in S /\ (N - 1) + 1 = N
    <3>1. N # 0
      BY <1>1, FS_EmptySet
    <3> HIDE DEF S
    <3> QED  BY <1>1, <1>9, <3>1
  <2>2. y # Source /\ y \in Tables
    BY ProjectFacts DEF Tables
  <2>3. Deep(N)
    BY <2>1
  <2>4. delta[N][y] = IF live[y] # 0 THEN Joined(y, delta[N - 1][Driving(y)]) ELSE NoRows
    BY <1>5, <2>1, <2>2
  <2>5. delta[N][Driving(y)] = delta[N - 1][Driving(y)]
    <3> SUFFICES ASSUME delta[N][Driving(y)] # delta[N - 1][Driving(y)] PROVE FALSE
      OBVIOUS
    <3>1. Driving(y) \in TableModels /\ N <= Cardinality(U(Driving(y)))
      BY <2>3, DrivingTable
    <3>2. Cardinality(U(Driving(y))) + 1 <= N
      BY <1>1, <1>3, <1>4, <3>1
    <3> QED  BY <1>1, <1>3, <3>1, <3>2
  <2> QED  BY <2>4, <2>5
<1>11. delta[N] \in [Tables -> Row] /\ delta[N][x] = new /\ (x # Source => delta[N][Source] = NoRows)
  <2>1. N \in 0..N /\ (N = 0 \/ N \in 1..N)
    BY <1>1
  <2>2. Source \in Tables
    BY ProjectFacts
  <2>3. CASE N = 0
    BY <1>2, <1>6, <2>1, <2>2, <2>3
  <2>4. CASE N \in 1..N
    BY <1>2, <1>5, <2>1, <2>2, <2>4
  <2> QED  BY <2>1, <2>3, <2>4
<1> QED  BY <1>2, <1>10, <1>11

\* A push from a table of a scope stays in it when no table outside that it
\* drives has a view.
LEMMA PushedWithin ==
  ASSUME NEW x \in Tables, NEW new \in Row, NEW scope, x \in scope,
         \A c \in TableModels \ scope : Driving(c) \in scope => live[c] = 0
  PROVE  \A y \in Tables \ scope : Pushed(x, new)[y] = NoRows
<1> DEFINE N == Cardinality(TableModels)
           X == {d \in [Tables -> Row] : \A y \in Tables \ scope : d[y] = NoRows}
<1>1. N \in Nat
  BY ProjectFacts, FS_CardinalityType
<1>2. PICK delta : /\ \A n \in 0..N : delta[n] \in [Tables -> Row]
                   /\ delta[0] = [y \in Tables |-> IF y = x THEN new ELSE NoRows]
                   /\ \A n \in 1..N : delta[n] = PushRound(x, new, delta[n - 1])
                   /\ Pushed(x, new) = delta[N]
  BY PushedSteps
<1>3. \A m : Joined(m, NoRows) = NoRows
  BY DEF Joined, NoRows
<1>4. delta[0] \in X
  BY <1>1, <1>2
<1>5. ASSUME NEW n \in 1..N, delta[n - 1] \in X PROVE delta[n] \in X
  <2>1. delta[n] \in [Tables -> Row] /\ delta[n] = PushRound(x, new, delta[n - 1])
    BY <1>1, <1>2
  <2>2. ASSUME NEW y \in Tables \ scope PROVE delta[n][y] = NoRows
    <3>1. delta[n][y] = IF y # Source /\ live[y] # 0 THEN Joined(y, delta[n - 1][Driving(y)]) ELSE NoRows
      BY <2>1 DEF PushRound
    <3>2. CASE y # Source /\ live[y] # 0
      <4>1. y \in TableModels
        BY <3>2 DEF Tables
      <4>2. Driving(y) \in Tables \ scope
        BY <3>2, <4>1, DrivingTable
      <4> QED  BY <1>3, <1>5, <3>1, <3>2, <4>2
    <3> QED  BY <3>1, <3>2
  <2> QED  BY <2>1, <2>2
<1>6. \A n \in 0..N : delta[n] \in X
  <2> HIDE DEF X, N
  <2> QED  BY <1>1, <1>4, <1>5, StaysIn
<1>7. delta[N] \in X
  <2> HIDE DEF X
  <2> QED  BY <1>1, <1>6
<1> QED  BY <1>2, <1>7
-----------------------------------------------------------------------------
\* Rows: a table follows its driving input through inserts.

\* A table has the rows of its driving input, each as often; a join may lack some,
\* and so may a table of those its replays may have left out.
Matches(m) ==
  /\ Present(m) /\ Present(Driving(m))
  /\ \A e \in Events : IF Sides(m) = {} /\ e \notin history.left[m]
                       THEN rows[m][e] = rows[Driving(m)][e]
                       ELSE rows[m][e] <= rows[Driving(m)][e]

\* Rows that cover the driving input of a table, but for what may be left out.
Covers(c, m) ==
  /\ Present(Driving(m))
  /\ \A e \in Events : /\ c[e] <= rows[Driving(m)][e]
                       /\ e \notin history.left[m] => c[e] = rows[Driving(m)][e]

\* A scope whose tables drive no view outside it.
Sealed(scope) == \A c \in TableModels \ scope : Driving(c) \in scope => live[c] = 0

\* A join passes on what it reads, or less; without side inputs just that.
LEMMA JoinedRows ==
  ASSUME NEW m, NEW new \in Row, NEW e \in Events
  PROVE  /\ Joined(m, new)[e] \in Nat /\ Joined(m, new)[e] <= new[e]
         /\ Sides(m) = {} => Joined(m, new)[e] = new[e]
  <1>1. new[e] \in Nat
    BY DEF Row
  <1>2. Joined(m, new)[e] = IF \A s \in Sides(m) : Present(s) /\ rows[s][e] > 0 THEN new[e] ELSE 0
    BY DEF Joined
  <1>3. CASE \A s \in Sides(m) : Present(s) /\ rows[s][e] > 0
    BY <1>1, <1>2, <1>3
  <1>4. CASE ~(\A s \in Sides(m) : Present(s) /\ rows[s][e] > 0)
    BY <1>1, <1>2, <1>4
  <1> QED  BY <1>3, <1>4

\* What an insert leaves in a table.
LEMMA InsertedRows ==
  ASSUME rows \in Rows, NEW x \in Tables, NEW new \in Row, rows' = Inserted(x, new),
         NEW y \in Tables
  PROVE  /\ rows[y] = None => rows'[y] = None
         /\ rows[y] # None => /\ rows'[y] # None /\ rows[y] \in Row
                              /\ rows'[y] = [e \in Events |-> rows[y][e] + Pushed(x, new)[y][e]]
         /\ rows' \in Rows
  <1>1. rows' = [z \in Tables |-> IF rows[z] = None THEN None
                                  ELSE [e \in Events |-> rows[z][e] + Pushed(x, new)[z][e]]]
    BY DEF Inserted, Rows
  <1>2. rows' \in Rows /\ ((rows'[y] = None) <=> (rows[y] = None))
    BY InsertedTyped
  <1>3. rows[y] # None => rows[y] \in Row
    BY DEF Rows
  <1>4. rows'[y] = IF rows[y] = None THEN None
                   ELSE [e \in Events |-> rows[y][e] + Pushed(x, new)[y][e]]
    BY <1>1
  <1> QED  BY <1>2, <1>3, <1>4

\* A table with a view follows its driving input through any insert elsewhere.
LEMMA InsertedMatches ==
  ASSUME rows \in Rows, NEW x \in Tables, NEW new \in Row, rows' = Inserted(x, new),
         NEW m \in TableModels, m # x, live[m] # 0, Matches(m),
         history.left[m] \subseteq history'.left[m]
  PROVE  Matches(m)'
  <1> DEFINE d == Driving(m)
             p == Pushed(x, new)
  <1>1. d \in Tables /\ m \in Tables /\ DOMAIN rows = Tables
    BY DrivingTable DEF Tables, Rows
  <1>2. rows[m] # None /\ rows[d] # None
    BY DEF Matches, Present
  <1>3. p[m] = Joined(m, p[d]) /\ p[d] \in Row /\ p[m] \in Row
    <2>1. p \in [Tables -> Row]
      BY PushedThrough
    <2>2. p[m] = Joined(m, p[d])
      BY PushedThrough
    <2> HIDE DEF p
    <2> QED  BY <1>1, <2>1, <2>2
  <1>4. /\ rows'[m] # None /\ rows[m] \in Row
        /\ rows'[m] = [e \in Events |-> rows[m][e] + p[m][e]]
        /\ rows'[d] # None /\ rows[d] \in Row
        /\ rows'[d] = [e \in Events |-> rows[d][e] + p[d][e]]
        /\ DOMAIN rows' = Tables
    <2>1. rows' \in Rows
      BY <1>1, InsertedRows
    <2>2. rows'[m] # None /\ rows[m] \in Row /\ rows'[m] = [e \in Events |-> rows[m][e] + p[m][e]]
      BY <1>1, <1>2, InsertedRows
    <2>3. rows'[d] # None /\ rows[d] \in Row /\ rows'[d] = [e \in Events |-> rows[d][e] + p[d][e]]
      BY <1>1, <1>2, InsertedRows
    <2> QED  BY <2>1, <2>2, <2>3 DEF Rows
  <1> HIDE DEF p
  <1>5. ASSUME NEW e \in Events
        PROVE  IF Sides(m) = {} /\ e \notin history'.left[m] THEN rows'[m][e] = rows'[d][e]
               ELSE rows'[m][e] <= rows'[d][e]
    <2> DEFINE a == rows[m][e]
               b == rows[d][e]
               u == p[m][e]
               v == p[d][e]
               all == Sides(m) = {} /\ e \notin history'.left[m]
    <2>0. IF Sides(m) = {} /\ e \notin history.left[m] THEN a = b ELSE a <= b
      BY DEF Matches
    <2>f. all => Sides(m) = {} /\ e \notin history.left[m]
      OBVIOUS
    <2>2. u <= v /\ (Sides(m) = {} => u = v)
      BY <1>3, JoinedRows
    <2>3. a \in Nat /\ b \in Nat /\ u \in Nat /\ v \in Nat
      BY <1>3, <1>4, RowFacts
    <2>4. rows'[m][e] = a + u /\ rows'[d][e] = b + v
      BY <1>4
    <2> HIDE DEF a, b, u, v
    <2>1. a <= b /\ (all => a = b)
      <3>1. a <= b
        BY <2>0, <2>3
      <3> QED  BY <2>0, <2>f, <3>1
    <2>g. all => u = v
      BY <2>2, <2>f
    <2> HIDE DEF all
    <2>5. IF all THEN a + u = b + v ELSE a + u <= b + v
      BY <2>1, <2>2, <2>3, <2>g
    <2> QED  BY <2>4, <2>5 DEF all
  <1>6. Present(m)' /\ Present(d)'
    BY <1>1, <1>4 DEF Present
  <1> QED  BY <1>5, <1>6 DEF Matches

\* The replay of a root fills its empty table from its driving input, which it
\* does not reach.
LEMMA InsertedRoot ==
  ASSUME rows \in Rows, NEW m \in TableModels, rows[m] = NoRows, NEW new \in Row,
         Covers(new, m), history.left[m] \subseteq history'.left[m],
         rows' = Inserted(m, Joined(m, new)),
         NEW scope, m \in scope, Driving(m) \notin scope, Sealed(scope)
  PROVE  Matches(m)'
  <1> DEFINE d == Driving(m)
             j == Joined(m, new)
             p == Pushed(m, j)
  <1>1. d \in Tables /\ m \in Tables
    BY DrivingTable DEF Tables
  <1>2. j \in Row /\ None \notin Row /\ NoRows \in Row
    BY JoinedTyped, RowFacts
  <1>3. p[m] = j
    BY <1>1, <1>2, PushedThrough
  <1>4. p[d] = NoRows
    BY <1>1, <1>2, PushedWithin DEF Sealed
  <1> HIDE DEF p, j
  <1>0. rows[d] # None /\ rows[d] \in Row
    BY <1>1 DEF Covers, Present, Rows
  <1>5. /\ rows'[m] # None /\ rows'[m] = [e \in Events |-> NoRows[e] + j[e]]
        /\ rows'[d] # None /\ rows'[d] = [e \in Events |-> rows[d][e] + NoRows[e]]
        /\ rows' \in Rows
    <2>1. rows'[m] # None /\ rows'[m] = [e \in Events |-> rows[m][e] + p[m][e]] /\ rows' \in Rows
      BY <1>1, <1>2, InsertedRows DEF p, j
    <2>2. rows'[d] # None /\ rows'[d] = [e \in Events |-> rows[d][e] + p[d][e]]
      BY <1>0, <1>1, <1>2, InsertedRows DEF p, j
    <2> QED  BY <1>3, <1>4, <2>1, <2>2
  <1>6. ASSUME NEW e \in Events
        PROVE  IF Sides(m) = {} /\ e \notin history'.left[m] THEN rows'[m][e] = rows'[d][e]
               ELSE rows'[m][e] <= rows'[d][e]
    <2> DEFINE u == j[e]
               v == new[e]
               w == rows[d][e]
               none == NoRows[e]
               all == Sides(m) = {} /\ e \notin history'.left[m]
    <2>1. u \in Nat /\ v \in Nat /\ u <= v /\ (Sides(m) = {} => u = v)
      BY JoinedRows, RowFacts DEF j
    <2>2. none = 0 /\ w \in Nat
      BY <1>0, RowFacts DEF NoRows
    <2>3. rows'[m][e] = none + u /\ rows'[d][e] = w + none
      BY <1>5
    <2>4. v <= w /\ (e \notin history.left[m] => v = w)
      BY DEF Covers
    <2>5. all => u = v /\ v = w
      BY <2>1, <2>4
    <2> HIDE DEF u, v, w, none, all
    <2>6. IF all THEN none + u = w + none ELSE none + u <= w + none
      BY <2>1, <2>2, <2>4, <2>5
    <2> QED  BY <2>3, <2>6 DEF all
  <1>7. Present(m)' /\ Present(d)'
    BY <1>1, <1>5 DEF Present, Rows
  <1> QED  BY <1>6, <1>7 DEF Matches

\* The replay of another table adds nothing to a root.
LEMMA InsertedElsewhere ==
  ASSUME rows \in Rows, NEW x \in Tables, NEW new \in Row, rows' = Inserted(x, new),
         NEW scope, x \in scope, Sealed(scope),
         NEW m \in TableModels, m # x, Driving(m) \notin scope, rows[m] = NoRows
  PROVE  rows'[m] = NoRows
  <1> DEFINE p == Pushed(x, new)
  <1>1. Driving(m) \in Tables /\ m \in Tables
    BY DrivingTable DEF Tables
  <1>2. p[Driving(m)] = NoRows
    BY <1>1, PushedWithin DEF Sealed
  <1>3. Joined(m, NoRows) = NoRows
    BY DEF Joined, NoRows
  <1>4. p[m] = NoRows
    BY <1>2, <1>3, PushedThrough
  <1>5. rows'[m] = [e \in Events |-> rows[m][e] + p[m][e]]
    BY <1>1, RowFacts, InsertedRows
  <1> HIDE DEF p
  <1>6. \A e \in Events : NoRows[e] + NoRows[e] = NoRows[e]
    BY DEF NoRows
  <1>7. rows'[m] = [e \in Events |-> NoRows[e]]
    BY <1>4, <1>5, <1>6
  <1> QED  BY <1>7 DEF NoRows
-----------------------------------------------------------------------------
\* The statements of a plan, part by part.

Has(s, x) == \E i \in 1..Len(s) : s[i] = x

\* One list after another.
LEMMA Concat ==
  ASSUME NEW K, NEW s \in Seq(K), NEW t \in Seq(K)
  PROVE  /\ s \o t \in Seq(K) /\ Len(s) \in Nat /\ Len(t) \in Nat
         /\ Len(s \o t) = Len(s) + Len(t)
         /\ \A i \in 1..Len(s) : (s \o t)[i] = s[i]
         /\ \A i \in 1..Len(t) : (s \o t)[Len(s) + i] = t[i]
  OBVIOUS

LEMMA Indices ==
  ASSUME NEW a \in Nat, NEW b \in Nat
  PROVE  /\ \A i \in 1..a : i \in 1..(a + b)
         /\ \A i \in 1..b : a + i \in 1..(a + b)
         /\ \A i \in 1..(a + b) : i \in 1..a \/ (i - a \in 1..b /\ a + (i - a) = i)
  OBVIOUS

LEMMA HasConcat ==
  ASSUME NEW K, NEW s \in Seq(K), NEW t \in Seq(K), NEW x
  PROVE  Has(s \o t, x) <=> Has(s, x) \/ Has(t, x)
  <1> DEFINE u == s \o t
             a == Len(s)
             b == Len(t)
  <1>1. /\ Len(u) = a + b /\ a \in Nat /\ b \in Nat
        /\ \A i \in 1..a : u[i] = s[i]
        /\ \A i \in 1..b : u[a + i] = t[i]
    BY Concat
  <1>2. Has(s, x) <=> \E i \in 1..a : s[i] = x
    BY DEF Has
  <1>3. Has(t, x) <=> \E i \in 1..b : t[i] = x
    BY DEF Has
  <1>4. Has(u, x) <=> \E i \in 1..(a + b) : u[i] = x
    BY <1>1 DEF Has
  <1> HIDE DEF u, a, b
  <1>5. ASSUME NEW i \in 1..a, s[i] = x PROVE Has(u, x)
    BY <1>1, <1>4, <1>5, Indices
  <1>6. ASSUME NEW i \in 1..b, t[i] = x PROVE Has(u, x)
    BY <1>1, <1>4, <1>6, Indices
  <1>7. ASSUME NEW i \in 1..(a + b), u[i] = x PROVE Has(s, x) \/ Has(t, x)
    <2>1. CASE i \in 1..a
      BY <1>1, <1>2, <1>7, <2>1
    <2>2. CASE i - a \in 1..b /\ a + (i - a) = i
      BY <1>1, <1>3, <1>7, <2>2
    <2> QED  BY <1>1, <2>1, <2>2, Indices
  <1>8. Has(u, x) <=> Has(s, x) \/ Has(t, x)
    BY <1>2, <1>3, <1>4, <1>5, <1>6, <1>7
  <1> QED  BY <1>8 DEF u

LEMMA HasOne ==
  ASSUME NEW K, NEW x \in K PROVE Has(<<x>>, x) /\ Len(<<x>>) = 1 /\ <<x>> \in Seq(K) /\ <<x>>[1] = x
  BY DEF Has

\* One statement for each model of a list: the members and their statements.
LEMMA EachMembers ==
  ASSUME NEW what, NEW K, NEW ms \in Seq(K)
  PROVE  /\ Each(what, ms) \in Seq([op : {what}, on : K]) /\ Len(Each(what, ms)) = Len(ms)
         /\ \A i \in 1..Len(ms) : Each(what, ms)[i] = Statement(what, ms[i])
  <1> DEFINE s == Each(what, ms)
             L == [op : {what}, on : K]
  <1>1. Len(ms) \in Nat /\ \A i \in 1..Len(ms) : ms[i] \in K
    BY Members
  <1>2. s = [i \in 1..Len(ms) |-> Statement(what, ms[i])]
    BY DEF Each
  <1>3. \A i \in 1..Len(ms) : Statement(what, ms[i]) \in L
    BY <1>1 DEF Statement
  <1> HIDE DEF s, L
  <1>4. s \in [1..Len(ms) -> L]
    BY <1>2, <1>3
  <1>5. s \in Seq(L) /\ Len(s) = Len(ms)
    BY <1>1, <1>4, FunctionSeq
  <1>6. \A i \in 1..Len(ms) : s[i] = Statement(what, ms[i])
    BY <1>2
  <1> QED  BY <1>5, <1>6 DEF s, L

LEMMA EachHas ==
  ASSUME NEW what, NEW K, NEW ms \in Seq(K), NEW m, Has(ms, m)
  PROVE  Has(Each(what, ms), Statement(what, m))
  <1>1. /\ Len(Each(what, ms)) = Len(ms)
        /\ \A i \in 1..Len(ms) : Each(what, ms)[i] = Statement(what, ms[i])
    BY EachMembers
  <1>2. PICK i \in 1..Len(ms) : ms[i] = m
    BY DEF Has
  <1>3. Each(what, ms)[i] = Statement(what, m)
    BY <1>1, <1>2
  <1> QED  BY <1>1, <1>3 DEF Has

LEMMA ReverseHas ==
  ASSUME NEW K, NEW s \in Seq(K), NEW x, Has(s, x) PROVE Has(Reverse(s), x)
  <1>1. PICK i \in 1..Len(s) : s[i] = x
    BY DEF Has
  <1>2. Len(s) \in Nat
    BY Members
  <1> DEFINE k == (Len(s) - i) + 1
  <1>3. k \in 1..Len(s) /\ (Len(s) - k) + 1 = i
    BY <1>2
  <1>4. Reverse(s) = [j \in 1..Len(s) |-> s[(Len(s) - j) + 1]]
    BY DEF Reverse
  <1>5. Len(Reverse(s)) = Len(s)
    <2>1. \A j \in 1..Len(s) : (Len(s) - j) + 1 \in 1..Len(s)
      BY <1>2
    <2>2. Reverse(s) \in [1..Len(s) -> K]
      BY <1>4, <2>1, Members
    <2> QED  BY <1>2, <2>2, FunctionSeq
  <1> HIDE DEF k
  <1>6. Reverse(s)[k] = x
    BY <1>1, <1>3, <1>4
  <1> QED  BY <1>3, <1>5, <1>6 DEF Has
-----------------------------------------------------------------------------
\* The preparation of the source ends with it paused.
PrepOps == {"prepare kafka", "prepare landing", "pause", "clear", "stage", "swap", "retire",
            "bootstrap"}

PrepStatements == [op : PrepOps, on : {Source}]

\* The source is paused and not bootstrapped after that.
Pauses(s) == \E i \in 1..Len(s) : s[i].op = "pause" /\ \A k \in (i + 1)..Len(s) : s[k].op # "bootstrap"

LEMMA PausesLast ==
  ASSUME NEW s \in Seq(PrepStatements) PROVE Pauses(s \o <<Statement("pause", Source)>>)
  <1> DEFINE x == Statement("pause", Source)
             u == s \o <<x>>
  <1>1. x \in PrepStatements /\ x.op = "pause"
    BY DEF Statement, PrepStatements, PrepOps
  <1> HIDE DEF x
  <1>2. Len(s) \in Nat /\ Len(u) = Len(s) + 1 /\ u[Len(s) + 1] = x
    <2> DEFINE K == PrepStatements
    <2>1. x \in K /\ s \in Seq(K)
      BY <1>1
    <2> HIDE DEF K
    <2> QED  BY <2>1
  <1> HIDE DEF u
  <1>3. Len(u) \in 1..Len(u) /\ ~ \E k \in (Len(u) + 1)..Len(u) : TRUE
    BY <1>2
  <1>4. u[Len(u)].op = "pause"
    BY <1>1, <1>2
  <1>5. Pauses(u)
    BY <1>3, <1>4 DEF Pauses
  <1> QED  BY <1>5 DEF u, x

LEMMA PausesStill ==
  ASSUME NEW s \in Seq(PrepStatements), Pauses(s), NEW t \in Seq(PrepStatements),
         \A i \in 1..Len(t) : t[i].op # "bootstrap"
  PROVE  Pauses(s \o t)
  <1> DEFINE u == s \o t
             a == Len(s)
             b == Len(t)
  <1>1. /\ Len(u) = a + b /\ a \in Nat /\ b \in Nat
        /\ \A i \in 1..a : u[i] = s[i]
        /\ \A i \in 1..b : u[a + i] = t[i]
    BY Concat
  <1>2. PICK i \in 1..a : s[i].op = "pause" /\ \A k \in (i + 1)..a : s[k].op # "bootstrap"
    BY DEF Pauses
  <1>3. \A j \in 1..b : t[j].op # "bootstrap"
    OBVIOUS
  <1> HIDE DEF u, a, b
  <1>4. ASSUME NEW k \in (i + 1)..(a + b) PROVE u[k].op # "bootstrap"
    <2>1. (k \in (i + 1)..a /\ k \in 1..a) \/ (k - a \in 1..b /\ a + (k - a) = k)
      BY <1>1
    <2> QED  BY <1>1, <1>2, <1>3, <2>1
  <1>5. u[i].op = "pause" /\ i \in 1..(a + b)
    BY <1>1, <1>2, Indices
  <1>6. Pauses(u)
    BY <1>1, <1>4, <1>5 DEF Pauses
  <1> QED  BY <1>6 DEF u

LEMMA PreparationPauses ==
  ASSUME NEW p
  PROVE  PreparationStatements(p) \in Seq(PrepStatements) /\ Pauses(PreparationStatements(p))
  <1> DEFINE K == PrepStatements
             a == If(~p.kafka, <<Statement("prepare kafka", Source)>>)
             b == If(~p.landing, <<Statement("prepare landing", Source)>>)
             c == If(p.recreate /\ p.view, <<Statement("pause", Source)>>)
             d == If(p.recreate, <<Statement("clear", Source), Statement("stage", Source),
                                   Statement("swap", Source), Statement("retire", Source)>>)
             e == If(~p.view, <<Statement("bootstrap", Source)>>)
             f == If(~(p.recreate /\ p.view), <<Statement("pause", Source)>>)
  <1>1. \A op \in PrepOps : Statement(op, Source) \in K
    BY DEF Statement, PrepStatements
  <1>2. /\ a \in Seq(K) /\ b \in Seq(K) /\ c \in Seq(K) /\ d \in Seq(K) /\ e \in Seq(K)
        /\ f \in Seq(K)
    <2> HIDE DEF K
    <2>1. \A x \in K : <<x>> \in Seq(K)
      OBVIOUS
    <2>2. \A w, x, y, z \in K : <<w, x, y, z>> \in Seq(K)
      OBVIOUS
    <2>3. <<>> \in Seq(K)
      OBVIOUS
    <2>4. /\ Statement("prepare kafka", Source) \in K /\ Statement("prepare landing", Source) \in K
          /\ Statement("pause", Source) \in K /\ Statement("clear", Source) \in K
          /\ Statement("stage", Source) \in K /\ Statement("swap", Source) \in K
          /\ Statement("retire", Source) \in K /\ Statement("bootstrap", Source) \in K
      BY <1>1 DEF PrepOps
    <2> HIDE DEF K
    <2>5. a \in Seq(K) /\ b \in Seq(K) /\ c \in Seq(K) /\ e \in Seq(K) /\ f \in Seq(K)
      BY <2>1, <2>3, <2>4, Zenon DEF If
    <2>6. d \in Seq(K)
      BY <2>2, <2>3, <2>4, Zenon DEF If
    <2> QED  BY <2>5, <2>6
  <1>3. PreparationStatements(p) = a \o b \o c \o d \o e \o f
    BY DEF PreparationStatements
  <1>4. \A i \in 1..Len(d) : d[i].op # "bootstrap"
    <2>1. CASE p.recreate
      <3> DEFINE q == <<Statement("clear", Source), Statement("stage", Source),
                        Statement("swap", Source), Statement("retire", Source)>>
      <3>1. /\ Len(q) = 4 /\ q[1].op = "clear" /\ q[2].op = "stage" /\ q[3].op = "swap"
            /\ q[4].op = "retire"
        BY DEF Statement
      <3>2. \A i \in 1..4 : i \in {1, 2, 3, 4}
        OBVIOUS
      <3>3. d = q
        BY <2>1 DEF If
      <3> HIDE DEF d, q
      <3> QED  BY <3>1, <3>2, <3>3
    <2>2. CASE ~p.recreate
      <3>1. d = <<>>
        BY <2>2 DEF If
      <3> HIDE DEF d
      <3> QED  BY <3>1
    <2> QED  BY <2>1, <2>2
  <1>5. CASE p.recreate /\ p.view
    <2>1. c = <<Statement("pause", Source)>> /\ e = <<>> /\ f = <<>>
      BY <1>5 DEF If
    <2> HIDE DEF a, b, c, d, e, f
    <2>2. a \o b \in Seq(K)
      <3> HIDE DEF K
      <3> QED  BY <1>2, Concat
    <2>3. Pauses((a \o b) \o c)
      BY <2>1, <2>2, PausesLast
    <2>4. (a \o b) \o c \in Seq(K)
      <3> HIDE DEF K
      <3> QED  BY <1>2, <2>2, Concat
    <2>5. Pauses(((a \o b) \o c) \o d)
      BY <1>2, <1>4, <2>3, <2>4, PausesStill
    <2>6. ((a \o b) \o c) \o d \in Seq(K)
      <3> HIDE DEF K
      <3> QED  BY <1>2, <2>4, Concat
    <2>7. a \o b \o c \o d \o e \o f = ((a \o b) \o c) \o d
      <3> HIDE DEF K
      <3> QED  BY <2>1, <2>6
    <2> QED  BY <1>3, <2>5, <2>6, <2>7
  <1>6. CASE ~(p.recreate /\ p.view)
    <2>1. f = <<Statement("pause", Source)>>
      BY <1>6 DEF If
    <2> HIDE DEF a, b, c, d, e, f
    <2>2. a \o b \o c \o d \o e \in Seq(K)
      <3> HIDE DEF K
      <3> QED  BY <1>2, Concat
    <2>3. a \o b \o c \o d \o e \o f = (a \o b \o c \o d \o e) \o f
      OBVIOUS
    <2>4. Pauses((a \o b \o c \o d \o e) \o f)
      BY <2>1, <2>2, PausesLast
    <2>5. (a \o b \o c \o d \o e) \o f \in Seq(K)
      <3> HIDE DEF K
      <3> QED  BY <1>2, <2>2, Concat
    <2> QED  BY <1>3, <2>3, <2>4, <2>5
  <1> QED  BY <1>5, <1>6

LEMMA WiderSeq == ASSUME NEW S, NEW T, S \subseteq T, NEW s \in Seq(S) PROVE s \in Seq(T)
  <1>1. \A A, B : A \subseteq B => Seq(A) \subseteq Seq(B)
    OBVIOUS
  <1> QED  BY <1>1

\* A list of what is to be had in a set.
LEMMA HasAll ==
  ASSUME NEW scope \in SUBSET Models
  PROVE  /\ InOrder(scope) \in Seq(scope) /\ ByName(scope) \in Seq(scope)
         /\ \A m \in scope : Has(InOrder(scope), m) /\ Has(ByName(scope), m)
  <1>1. scope \subseteq Keys(Project) /\ Keys(Project) \cap scope = scope
    BY ProjectFacts
  <1>2. InOrder(scope) \in Seq(Keys(Project) \cap scope)
    BY OrderTyped
  <1>3. ByName(scope) \in Seq(scope)
    BY OrderTyped
  <1>4. \A m \in scope : Has(InOrder(scope), m) /\ Has(ByName(scope), m)
    BY <1>1, OrderComplete DEF Has
  <1> QED  BY <1>1, <1>2, <1>3, <1>4

\* The teardown drops every view of a table before the first table.
LEMMA TeardownOrder ==
  ASSUME NEW p, p.scope \subseteq Models
  PROVE  /\ TeardownStatements(p) \in Seq([op : {"drop view", "drop table"}, on : p.scope])
         /\ \A i \in 1..Len(TeardownStatements(p)), m \in p.scope \ Views :
              TeardownStatements(p)[i].op = "drop table" =>
                \E k \in 1..(i - 1) : TeardownStatements(p)[k] = Statement("drop view", m)
  <1> DEFINE vs == Reverse(InOrder(p.scope \cap Views))
             ts == Reverse(InOrder(p.scope \ Views))
             K == [op : {"drop view", "drop table"}, on : p.scope]
             x == Each("drop view", vs) \o Each("drop view", ts)
             y == Each("drop table", ts)
             t == x \o y
  <1>1. TeardownStatements(p) = t
    BY DEF TeardownStatements
  <1>2. vs \in Seq(p.scope \cap Views) /\ ts \in Seq(p.scope \ Views)
    <2>1. p.scope \cap Views \in SUBSET Models /\ p.scope \ Views \in SUBSET Models
      OBVIOUS
    <2>2. InOrder(p.scope \cap Views) \in Seq(p.scope \cap Views)
      BY <2>1, HasAll
    <2>3. InOrder(p.scope \ Views) \in Seq(p.scope \ Views)
      BY <2>1, HasAll
    <2> QED  BY <2>2, <2>3, ReverseTyped
  <1>3. \A m \in p.scope \ Views : Has(ts, m)
    <2>1. p.scope \ Views \in SUBSET Models
      OBVIOUS
    <2> QED  BY <2>1, HasAll, ReverseHas
  <1> HIDE DEF vs, ts
  <1>4. /\ Each("drop view", vs) \in Seq([op : {"drop view"}, on : p.scope \cap Views])
        /\ Each("drop view", ts) \in Seq([op : {"drop view"}, on : p.scope \ Views])
        /\ y \in Seq([op : {"drop table"}, on : p.scope \ Views])
    BY <1>2, EachMembers
  <1> DEFINE V == [op : {"drop view"}, on : p.scope]
             a == Each("drop view", vs)
             b == Each("drop view", ts)
  <1>5. a \in Seq(V) /\ b \in Seq(V) /\ a \in Seq(K) /\ b \in Seq(K) /\ y \in Seq(K)
    <2>1. /\ [op : {"drop view"}, on : p.scope \cap Views] \subseteq V
          /\ [op : {"drop view"}, on : p.scope \ Views] \subseteq V
          /\ V \subseteq K /\ [op : {"drop table"}, on : p.scope \ Views] \subseteq K
      OBVIOUS
    <2>2. \A S, T : S \subseteq T => Seq(S) \subseteq Seq(T)
      OBVIOUS
    <2> DEFINE S1 == [op : {"drop view"}, on : p.scope \cap Views]
               S2 == [op : {"drop view"}, on : p.scope \ Views]
               S3 == [op : {"drop table"}, on : p.scope \ Views]
    <2> HIDE DEF V, K, a, b, y, S1, S2, S3
    <2>3. S1 \subseteq V /\ S2 \subseteq V /\ V \subseteq K /\ S3 \subseteq K
      BY <2>1 DEF S1, S2, S3
    <2>4. a \in Seq(S1) /\ b \in Seq(S2) /\ y \in Seq(S3)
      BY <1>4 DEF S1, S2, S3, a, b
    <2> QED  BY <2>2, <2>3, <2>4
  <1>6. x \in Seq(V) /\ x \in Seq(K)
    <2> HIDE DEF V, K, a, b
    <2>1. x = a \o b
      BY DEF a, b
    <2> QED  BY <1>5, <2>1, Concat
  <1>7. ASSUME NEW m \in p.scope \ Views PROVE Has(x, Statement("drop view", m))
    <2>1. Has(b, Statement("drop view", m))
      BY <1>2, <1>3, EachHas
    <2> HIDE DEF V, K, a, b
    <2>2. x = a \o b
      BY DEF a, b
    <2> QED  BY <1>5, <2>1, <2>2, HasConcat
  <1>8. \A v \in V : v.op = "drop view"
    OBVIOUS
  <1> HIDE DEF x, y, K, V
  <1>9. /\ t \in Seq(K) /\ Len(x) \in Nat /\ Len(y) \in Nat /\ Len(t) = Len(x) + Len(y)
        /\ \A i \in 1..Len(x) : t[i] = x[i] /\ x[i] \in V
    BY <1>5, <1>6, Concat, Members
  <1>10. ASSUME NEW i \in 1..Len(t), NEW m \in p.scope \ Views, t[i].op = "drop table"
         PROVE  \E k \in 1..(i - 1) : t[k] = Statement("drop view", m)
    <2>1. i \notin 1..Len(x)
      BY <1>8, <1>9, <1>10
    <2>2. \A k \in 1..Len(x) : k \in 1..(i - 1)
      BY <1>9, <2>1
    <2>3. PICK k \in 1..Len(x) : x[k] = Statement("drop view", m)
      BY <1>7 DEF Has
    <2> QED  BY <1>9, <2>2, <2>3
  <1> QED  BY <1>1, <1>9, <1>10 DEF K

\* What the realization has made so far: each of its models has its table.
Made(scope) ==
  {d \in Seq([op : {"create table", "create view"}, on : scope \ Views]) :
     \A i \in 1..Len(d) : Has(d, Statement("create table", d[i].on))}

LEMMA MadeMore ==
  ASSUME NEW scope \in SUBSET Models, NEW d \in Made(scope), NEW v \in scope \ Views,
         NEW new \in SUBSET (scope \ Views), v \in new \/ Has(d, Statement("create table", v))
  PROVE  LET u == d \o Each("create table", InOrder(new)) \o <<Statement("create view", v)>>
         IN  /\ u \in Made(scope) /\ Has(u, Statement("create view", v))
             /\ \A x : Has(d, x) => Has(u, x)
  <1> DEFINE K == [op : {"create table", "create view"}, on : scope \ Views]
             t == Each("create table", InOrder(new))
             w == Statement("create view", v)
             u == d \o t \o <<w>>
             ct(m) == Statement("create table", m)
  <1>1. d \in Seq(K) /\ \A i \in 1..Len(d) : Has(d, ct(d[i].on))
    BY DEF Made
  <1>2. new \in SUBSET Models
    OBVIOUS
  <1>3. InOrder(new) \in Seq(new) /\ \A m \in new : Has(InOrder(new), m)
    BY <1>2, HasAll
  <1>4. t \in Seq([op : {"create table"}, on : new]) /\ \A m \in new : Has(t, ct(m))
    BY <1>3, EachMembers, EachHas
  <1>5. t \in Seq(K)
    <2>1. [op : {"create table"}, on : new] \subseteq K
      OBVIOUS
    <2> DEFINE S == [op : {"create table"}, on : new]
    <2>2. S \subseteq K /\ t \in Seq(S)
      BY <1>4, <2>1
    <2> HIDE DEF K, S, t
    <2> QED  BY <2>2, WiderSeq
  <1>6. w \in K /\ w.on = v
    BY DEF Statement
  <1>7. \A i \in 1..Len(t) : t[i].on \in new
    <2> DEFINE S == [op : {"create table"}, on : new]
    <2>1. t \in Seq(S) /\ \A x \in S : x.on \in new
      BY <1>4
    <2> HIDE DEF S, t
    <2> QED  BY <2>1, Members
  <1> HIDE DEF K, t, w
  <1>8. d \o t \in Seq(K) /\ <<w>> \in Seq(K) /\ Has(<<w>>, w)
    BY <1>1, <1>5, <1>6, Concat, HasOne
  <1>9. u \in Seq(K)
    BY <1>8, Concat
  <1>10. \A x : Has(u, x) <=> Has(d, x) \/ Has(t, x) \/ Has(<<w>>, x)
    <2>1. \A x : Has(u, x) <=> Has(d \o t, x) \/ Has(<<w>>, x)
      BY <1>8, HasConcat
    <2>2. \A x : Has(d \o t, x) <=> Has(d, x) \/ Has(t, x)
      BY <1>1, <1>5, HasConcat
    <2> QED  BY <2>1, <2>2
  <1> HIDE DEF ct
  <1>11. Has(u, ct(v))
    BY <1>4, <1>10 DEF ct
  <1>12. ASSUME NEW i \in 1..Len(u) PROVE Has(u, ct(u[i].on))
    <2>1. Has(u, u[i])
      BY DEF Has
    <2>2. CASE Has(d, u[i])
      <3>1. PICK j \in 1..Len(d) : d[j] = u[i]
        BY <2>2 DEF Has
      <3>2. Has(d, ct(d[j].on))
        BY <1>1
      <3> HIDE DEF u
      <3> QED  BY <1>10, <3>1, <3>2
    <2>3. CASE Has(t, u[i])
      <3>1. PICK j \in 1..Len(t) : t[j] = u[i]
        BY <2>3 DEF Has
      <3>2. Has(t, ct(t[j].on))
        BY <1>4, <1>7 DEF ct
      <3> HIDE DEF u
      <3> QED  BY <1>10, <3>1, <3>2
    <2>4. CASE Has(<<w>>, u[i])
      <3>1. \A x : Has(<<w>>, x) => x = w
        <4>1. Len(<<w>>) = 1 /\ <<w>>[1] = w
          BY <1>6, OneMember
        <4> QED  BY <4>1, OneIndex DEF Has
      <3>2. u[i] = w
        BY <2>4, <3>1
      <3> HIDE DEF u
      <3> QED  BY <1>6, <1>11, <3>2
    <2> QED  BY <1>10, <2>1, <2>2, <2>3, <2>4
  <1>13. u \in Made(scope)
    <2> HIDE DEF u
    <2> QED  BY <1>9, <1>12 DEF Made, K, ct
  <1> QED  BY <1>8, <1>10, <1>13 DEF t, w

LEMMA NothingMade == ASSUME NEW scope PROVE <<>> \in Made(scope)
  <1> DEFINE K == [op : {"create table", "create view"}, on : scope \ Views]
  <1>1. <<>> \in Seq(K) /\ \A i \in 1..Len(<<>>) : FALSE
    <2> HIDE DEF K
    <2> QED  OBVIOUS
  <1> QED  BY <1>1 DEF Made

\* The realization creates the view of every model, and the table of every
\* table model.
LEMMA RealizationMakes ==
  ASSUME NEW p, p.scope \in SUBSET Models
  PROVE  /\ RealizationStatements(p) \in Seq([op : {"create table", "create view"}, on : p.scope])
         /\ \A m \in p.scope : Has(RealizationStatements(p), Statement("create view", m))
         /\ \A m \in p.scope \ Views : Has(RealizationStatements(p), Statement("create table", m))
<1> DEFINE X == Made(p.scope)
           tables(m) == {m} \cup Inputs(m) \cup Upstream(Project, Inputs(m), {"driving_input"})
           created(d) == {s.on : s \in Range(d)}
           views == ByName(p.scope \ Views)
           N == Len(views)
           New(d, v) == (tables(v) \cap p.scope) \ (Views \cup created(d))
           Grown(d, v) == d \o Each("create table", InOrder((tables(v) \cap p.scope)
                                                        \ (Views \cup created(d))))
                            \o <<Statement("create view", v)>>
           Next1(d, n) == IF n \in 1..N THEN Grown(d, views[n]) ELSE d
           step == [x \in X \X Nat |-> Next1(x[1], x[2])]
           Fits(g) == g = [n \in 0..N |-> IF n = 0 THEN <<>> ELSE Grown(g[n - 1], views[n])]
           done == CHOOSE g : Fits(g)
           cv(m) == Statement("create view", m)
<1>1. views \in Seq(p.scope \ Views) /\ \A m \in p.scope \ Views : Has(views, m)
  <2>1. p.scope \ Views \in SUBSET Models
    OBVIOUS
  <2> QED  BY <2>1, HasAll
<1>2. N \in Nat /\ \A n \in 1..N : views[n] \in p.scope \ Views
  <2> HIDE DEF views
  <2> QED  BY <1>1, Members
<1> HIDE DEF views
<1>3. ASSUME NEW d \in X, NEW v \in p.scope \ Views
      PROVE  Grown(d, v) \in X /\ Has(Grown(d, v), cv(v)) /\ \A x : Has(d, x) => Has(Grown(d, v), x)
  <2> DEFINE new == New(d, v)
  <2>1. new \in SUBSET (p.scope \ Views)
    OBVIOUS
  <2>2. v \in new \/ Has(d, Statement("create table", v))
    <3>1. CASE v \in created(d)
      <4> DEFINE K == [op : {"create table", "create view"}, on : p.scope \ Views]
      <4>1. d \in Seq(K) /\ \A i \in 1..Len(d) : Has(d, Statement("create table", d[i].on))
        BY DEF Made
      <4>2. Range(d) = {d[i] : i \in 1..Len(d)}
        <5> HIDE DEF K
        <5> QED  BY <4>1, RangeIs
      <4>3. PICK i \in 1..Len(d) : d[i].on = v
        BY <3>1, <4>2
      <4> QED  BY <4>1, <4>3
    <3>2. CASE v \notin created(d)
      BY <3>2
    <3> QED  BY <3>1, <3>2
  <2> HIDE DEF new
  <2>3. LET u == d \o Each("create table", InOrder(new)) \o <<Statement("create view", v)>>
        IN  /\ u \in Made(p.scope) /\ Has(u, Statement("create view", v))
            /\ \A x : Has(d, x) => Has(u, x)
    BY <2>1, <2>2, MadeMore
  <2> QED  BY <2>3 DEF new
<1> HIDE DEF Grown, tables, created, cv
<1>4. <<>> \in X /\ step \in [X \X Nat -> X]
  <2>1. <<>> \in X
    BY NothingMade
  <2>2. ASSUME NEW d \in X, NEW n \in Nat PROVE Next1(d, n) \in X
    BY <1>2, <1>3
  <2> HIDE DEF X, Next1
  <2> QED  BY <2>1, <2>2
<1>n. \A n \in 0..N : n = 0 \/ (n \in 1..N /\ n # 0)
  BY <1>2
<1>5. \E g : Fits(g)
  <2>1. PICK g \in [0..N -> X] : g[0] = <<>> /\ \A n \in 1..N : g[n] = step[<<g[n - 1], n>>]
    <3> HIDE DEF N, X, step
    <3>1. \E g \in [0..N -> X] : Iterates(g, N, <<>>, step)
      BY <1>2, <1>4, Iterated
    <3> QED  BY <3>1 DEF Iterates
  <2>2. ASSUME NEW n \in 1..N PROVE g[n] = Grown(g[n - 1], views[n])
    <3>1. n - 1 \in 0..N /\ n \in Nat
      BY <1>2
    <3> HIDE DEF X, N
    <3>2. <<g[n - 1], n>> \in X \X Nat
      BY <3>1
    <3> QED  BY <2>1, <3>2
  <2> HIDE DEF N, X
  <2>3. ASSUME NEW n \in 0..N
        PROVE  g[n] = IF n = 0 THEN <<>> ELSE Grown(g[n - 1], views[n])
    BY <2>1, <2>2, <1>n
  <2>4. g = [n \in 0..N |-> g[n]]
    BY <2>1
  <2>5. Fits(g)
    BY <2>3, <2>4, Zenon
  <2> QED  BY <2>5
<1>6. Fits(done)
  <2> HIDE DEF Fits
  <2> QED  BY <1>5
<1>7. RealizationStatements(p) = done[N] \o Each("create view", InOrder(p.scope \cap Views))
  BY DEF RealizationStatements, Grown, tables, created, views
<1> HIDE DEF done
<1>8. done[0] = <<>> /\ \A n \in 1..N : done[n] = Grown(done[n - 1], views[n])
  <2>1. 0 \in 0..N /\ \A n \in 1..N : n \in 0..N /\ n # 0
    BY <1>2
  <2> HIDE DEF N, X
  <2> QED  BY <1>6, <2>1
<1> DEFINE S == {n \in Nat : n <= N => /\ done[n] \in X
                                       /\ \A k \in 1..n : Has(done[n], cv(views[k]))}
<1> HIDE DEF X, Fits
<1>9. 0 \in S
  BY <1>4, <1>8
<1>10. ASSUME NEW n \in S PROVE n + 1 \in S
  <2> SUFFICES ASSUME n + 1 <= N
               PROVE  /\ done[n + 1] \in X
                      /\ \A k \in 1..(n + 1) : Has(done[n + 1], cv(views[k]))
    OBVIOUS
  <2>1. /\ n \in Nat /\ n <= N /\ n + 1 \in 1..N /\ (n + 1) - 1 = n
        /\ \A k \in 1..(n + 1) : k \in 1..n \/ k = n + 1
    BY <1>2
  <2>2. done[n] \in X /\ \A k \in 1..n : Has(done[n], cv(views[k]))
    BY <2>1
  <2>3. done[n + 1] = Grown(done[n], views[n + 1])
    BY <1>8, <2>1
  <2> HIDE DEF S, N
  <2>4. /\ done[n + 1] \in X /\ Has(done[n + 1], cv(views[n + 1]))
        /\ \A x : Has(done[n], x) => Has(done[n + 1], x)
    BY <1>2, <1>3, <2>1, <2>2, <2>3
  <2> QED  BY <2>1, <2>2, <2>4
<1>11. S = Nat
  <2>1. S \in SUBSET Nat
    OBVIOUS
  <2> HIDE DEF S
  <2> QED  BY <1>9, <1>10, <2>1, Induction
<1>12. done[N] \in X /\ \A k \in 1..N : Has(done[N], cv(views[k]))
  BY <1>2, <1>11
<1> DEFINE d == done[N]
           t == Each("create view", InOrder(p.scope \cap Views))
           K == [op : {"create table", "create view"}, on : p.scope]
<1>13. /\ d \in Seq(K)
       /\ \A m \in p.scope \ Views : Has(d, cv(m)) /\ Has(d, Statement("create table", m))
  <2> DEFINE L == [op : {"create table", "create view"}, on : p.scope \ Views]
  <2>1. d \in Seq(L) /\ \A i \in 1..Len(d) : Has(d, Statement("create table", d[i].on))
    BY <1>12 DEF X, Made
  <2>2. L \subseteq K
    OBVIOUS
  <2>3. d \in Seq(K)
    <3> HIDE DEF L, K, d
    <3> QED  BY <2>1, <2>2, WiderSeq
  <2>4. ASSUME NEW m \in p.scope \ Views PROVE Has(d, cv(m)) /\ Has(d, Statement("create table", m))
    <3>1. PICK k \in 1..N : views[k] = m
      BY <1>1 DEF Has
    <3>2. Has(d, cv(m))
      BY <1>12, <3>1
    <3>3. PICK i \in 1..Len(d) : d[i] = cv(m)
      BY <3>2 DEF Has
    <3>4. d[i].on = m
      <4>1. cv(m).on = m
        BY DEF cv, Statement
      <4> HIDE DEF d
      <4> QED  BY <3>3, <4>1
    <3>5. Has(d, Statement("create table", m))
      BY <2>1, <3>4
    <3> QED  BY <3>2, <3>5
  <2> QED  BY <2>3, <2>4
<1>14. t \in Seq(K) /\ \A m \in p.scope \cap Views : Has(t, cv(m))
  <2>1. p.scope \cap Views \in SUBSET Models
    OBVIOUS
  <2>2. /\ InOrder(p.scope \cap Views) \in Seq(p.scope \cap Views)
        /\ \A m \in p.scope \cap Views : Has(InOrder(p.scope \cap Views), m)
    BY <2>1, HasAll
  <2>3. /\ t \in Seq([op : {"create view"}, on : p.scope \cap Views])
        /\ \A m \in p.scope \cap Views : Has(t, cv(m))
    BY <2>2, EachMembers, EachHas DEF cv
  <2> DEFINE L == [op : {"create view"}, on : p.scope \cap Views]
  <2>4. L \subseteq K /\ t \in Seq(L)
    BY <2>3
  <2> HIDE DEF K, L, t
  <2> QED  BY <2>3, <2>4, WiderSeq
<1> HIDE DEF d, t, K
<1>15. d \o t \in Seq(K) /\ \A x : Has(d \o t, x) <=> Has(d, x) \/ Has(t, x)
  BY <1>13, <1>14, Concat, HasConcat
<1>16. RealizationStatements(p) = d \o t
  BY <1>7 DEF d, t
<1>17. \A m \in p.scope : m \in p.scope \ Views \/ m \in p.scope \cap Views
  OBVIOUS
<1> QED  BY <1>13, <1>14, <1>15, <1>16, <1>17 DEF K, cv

\* The members of a list before another that has none of them are where they were.
LEMMA FirstPart ==
  ASSUME NEW K, NEW s \in Seq(K), NEW t \in Seq(K), NEW A,
         \A i, j \in 1..Len(s) : s[i] = s[j] => i = j, \A i \in 1..Len(t) : t[i] \notin A,
         NEW i \in 1..Len(s \o t), NEW j \in 1..Len(s \o t), (s \o t)[i] \in A,
         (s \o t)[i] = (s \o t)[j]
  PROVE  i = j
  <1> DEFINE u == s \o t
             a == Len(s)
             b == Len(t)
  <1>1. /\ Len(u) = a + b /\ a \in Nat /\ b \in Nat
        /\ \A k \in 1..a : u[k] = s[k]
        /\ \A k \in 1..b : u[a + k] = t[k]
    BY Concat
  <1> HIDE DEF u, a, b
  <1>2. ASSUME NEW k \in 1..(a + b), u[k] \in A PROVE k \in 1..a
    <2>1. CASE k - a \in 1..b /\ a + (k - a) = k
      <3>1. t[k - a] \notin A
        BY <2>1 DEF b
      <3> QED  BY <1>1, <1>2, <2>1, <3>1
    <2> QED  BY <1>1, <2>1, Indices
  <1>3. i \in 1..(a + b) /\ j \in 1..(a + b) /\ u[i] \in A /\ u[i] = u[j]
    BY <1>1 DEF u
  <1>4. i \in 1..a /\ j \in 1..a
    BY <1>2, <1>3
  <1>5. s[i] = s[j]
    BY <1>1, <1>3, <1>4
  <1> QED  BY <1>4, <1>5 DEF a

\* The positions of the replays.
LEMMA Evens ==
  ASSUME NEW n \in Nat
  PROVE  /\ \A k \in 1..n : 2 * k \in 1..(2 * n) /\ (2 * k) % 2 # 1 /\ (2 * k + 1) \div 2 = k
         /\ \A i \in 1..(2 * n) : i % 2 # 1 => 2 * ((i + 1) \div 2) = i
  OBVIOUS

\* Each replay root is replayed, and once; what else is replayed is a fan-in
\* target.
LEMMA ReplayOrder ==
  ASSUME NEW p, p.scope \in SUBSET Models
  PROVE  /\ ReplayStatements(p) \in Seq([op : {"capture", "replay"},
                                         on : ReplayRoots(p) \cup FanInTargets(p)])
         /\ \A m \in ReplayRoots(p) : Has(ReplayStatements(p), Statement("replay", m))
         /\ \A m \in ReplayRoots(p) : \A i, j \in 1..Len(ReplayStatements(p)) :
              ReplayStatements(p)[i] = Statement("replay", m)
                /\ ReplayStatements(p)[j] = Statement("replay", m) => i = j
         /\ \A m \in ReplayRoots(p) : \E i \in DOMAIN ReplayModels(p) : m = ReplayModels(p)[i]
  <1> DEFINE A == ReplayRoots(p)
             B == FanInTargets(p)
             R == A \cup B
             x == InOrder(A)
             y == ByName(B)
             ms == ReplayModels(p)
             n == Len(ms)
             s == ReplayStatements(p)
             what(i) == IF i % 2 = 1 THEN "capture" ELSE "replay"
             on(i) == ms[(i + 1) \div 2]
             K == [op : {"capture", "replay"}, on : R]
  <1>1. A \in SUBSET Models /\ B \in SUBSET Models /\ A \cap B = {}
    BY DEF ReplayRoots, FanInTargets
  <1>2. ms = x \o y
    BY DEF ReplayModels
  <1>3. s = [i \in 1..(2 * n) |-> [op |-> what(i), on |-> on(i)]]
    BY DEF ReplayStatements, Statement
  <1> HIDE DEF A, B, ms, s
  <1>4. x \in Seq(A) /\ y \in Seq(B) /\ \A m \in A : Has(x, m)
    BY <1>1, HasAll
  <1>5. \A i, j \in 1..Len(x) : x[i] = x[j] => i = j
    BY OrderComplete
  <1> HIDE DEF x, y
  <1>6. x \in Seq(R) /\ y \in Seq(R)
    BY <1>4, WiderSeq
  <1>7. \A i \in 1..Len(y) : y[i] \notin A
    BY <1>1, <1>4, Members
  <1> HIDE DEF R
  <1>8. ms \in Seq(R) /\ \A m \in A : Has(ms, m)
    BY <1>2, <1>4, <1>6, Concat, HasConcat
  <1>9. \A i, j \in 1..n : ms[i] \in A /\ ms[i] = ms[j] => i = j
    BY <1>2, <1>5, <1>6, <1>7, FirstPart
  <1>10. n \in Nat /\ DOMAIN ms = 1..n /\ \A i \in 1..n : ms[i] \in R
    BY <1>8, Members
  <1>11. \A i \in 1..(2 * n) : (i + 1) \div 2 \in 1..n
    BY <1>10, Halves
  <1>12. \A i : what(i) \in {"capture", "replay"} /\ (what(i) = "replay" => i % 2 # 1)
                /\ (i % 2 # 1 => what(i) = "replay")
    OBVIOUS
  <1>13. \A i \in 1..(2 * n) : on(i) \in R
    BY <1>10, <1>11
  <1>14. s \in Seq(K) /\ Len(s) = 2 * n
    <2>1. 2 * n \in Nat
      BY <1>10
    <2> HIDE DEF n
    <2>2. s \in [1..(2 * n) -> K]
      <3> HIDE DEF what, on
      <3> QED  BY <1>3, <1>12, <1>13
    <2> HIDE DEF K
    <2> QED  BY <2>1, <2>2, FunctionSeq
  <1> HIDE DEF what
  <1>15. ASSUME NEW m \in A PROVE Has(s, Statement("replay", m))
    <2>1. PICK k \in 1..n : ms[k] = m
      BY <1>8 DEF Has
    <2>2. 2 * k \in 1..(2 * n) /\ (2 * k) % 2 # 1 /\ (2 * k + 1) \div 2 = k
      BY <1>10, Evens
    <2> DEFINE i == 2 * k
    <2>3. i \in 1..(2 * n) /\ what(i) = "replay" /\ on(i) = m
      BY <1>12, <2>1, <2>2
    <2> HIDE DEF i, on, n
    <2>4. s[i] = [op |-> "replay", on |-> m]
      BY <1>3, <2>3
    <2>5. i \in 1..Len(s)
      BY <1>14, <2>3
    <2> QED  BY <2>4, <2>5 DEF Has, Statement
  <1>16. ASSUME NEW m \in A, NEW i \in 1..Len(s), NEW j \in 1..Len(s),
                s[i] = Statement("replay", m), s[j] = Statement("replay", m)
         PROVE  i = j
    <2>1. i \in 1..(2 * n) /\ j \in 1..(2 * n)
      BY <1>14
    <2>2. s[i].op = "replay" /\ s[i].on = m /\ s[j].op = "replay" /\ s[j].on = m
      BY <1>16 DEF Statement
    <2>3. what(i) = "replay" /\ what(j) = "replay" /\ on(i) = m /\ on(j) = m
      <3> HIDE DEF on, n
      <3> QED  BY <1>3, <2>1, <2>2
    <2> DEFINE k == (i + 1) \div 2
               l == (j + 1) \div 2
    <2>4. k \in 1..n /\ l \in 1..n /\ ms[k] = m /\ ms[l] = m
      BY <1>11, <2>1, <2>3
    <2>5. 2 * k = i /\ 2 * l = j
      BY <1>10, <1>12, <2>1, <2>3, Evens
    <2> HIDE DEF k, l
    <2>6. k = l
      BY <1>9, <2>4
    <2> QED  BY <2>5, <2>6
  <1>17. \A m \in A : \E i \in DOMAIN ms : m = ms[i]
    BY <1>8, <1>10 DEF Has
  <1> QED  BY <1>14, <1>15, <1>16, <1>17 DEF A, B, R, K, s, ms
-----------------------------------------------------------------------------
\* A plan and the layout of its statements.

\* What a build selects, it selects with all that is driven by it.
LEMMA ScopeClosed ==
  ASSUME NEW roots \in SUBSET Models, NEW c \in TableModels,
         Driving(c) \in Downstream(Project, roots, AllEdgeTypes)
  PROVE  c \in Downstream(Project, roots, AllEdgeTypes)
  <1> DEFINE pairs == {<<e.up, e.down>> : e \in {f \in Edges(Project) : f.type \in AllEdgeTypes}}
             K == Keys(Project)
  <1>1. pairs \subseteq K \X K
    BY ProjectFacts
  <1>2. IsFiniteSet(K \X K)
    BY ProjectFacts, FS_Product
  <1>3. IsFiniteSet(pairs)
    <2> HIDE DEF pairs, K
    <2> QED  BY <1>1, <1>2, FS_Subset
  <1>4. Downstream(Project, roots, AllEdgeTypes) = Closure(pairs, roots)
    BY DEF Downstream
  <1> DEFINE d == CHOOSE f \in Edges(Project) : Drives(f, c)
  <1>5. d \in Edges(Project) /\ Drives(d, c)
    <2>1. PICK e \in Edges(Project) : Drives(e, c)
      BY ProjectAssumption
    <2> QED  BY <2>1
  <1>6. Driving(c) = d.up
    BY DEF Driving, DrivingParents
  <1> HIDE DEF d
  <1> DEFINE x == <<d.up, d.down>>
  <1>7. x \in pairs /\ x[1] = Driving(c) /\ x[2] = c
    BY <1>5, <1>6 DEF Drives, AllEdgeTypes
  <1> HIDE DEF pairs, x
  <1> QED  BY <1>3, <1>4, <1>7, ClosureClosed

\* The positions of five parts put together.
FiveJoined(u, K, a, b, c, d, e) ==
  LET A == Len(a)
      B == A + Len(b)
      C == B + Len(c)
      D == C + Len(d)
  IN  /\ u \in Seq(K) /\ Len(u) = D + 1 /\ u[D + 1] = e
      /\ \A i \in 1..A : u[i] = a[i]
      /\ \A i \in 1..Len(b) : u[A + i] = b[i]
      /\ \A i \in 1..Len(c) : u[B + i] = c[i]
      /\ \A i \in 1..Len(d) : u[C + i] = d[i]
      /\ A \in Nat /\ B \in Nat /\ C \in Nat /\ D \in Nat
      /\ Len(b) \in Nat /\ Len(c) \in Nat /\ Len(d) \in Nat

LEMMA FiveParts ==
  ASSUME NEW K, NEW a \in Seq(K), NEW b \in Seq(K), NEW c \in Seq(K), NEW d \in Seq(K), NEW e \in K
  PROVE  FiveJoined(a \o b \o c \o d \o <<e>>, K, a, b, c, d, e)
  <1> DEFINE p == a \o b
             q == p \o c
             r == q \o d
             u == r \o <<e>>
  <1>1. /\ p \in Seq(K) /\ Len(p) = Len(a) + Len(b) /\ Len(a) \in Nat /\ Len(b) \in Nat
        /\ \A i \in 1..Len(a) : p[i] = a[i]
        /\ \A i \in 1..Len(b) : p[Len(a) + i] = b[i]
    BY Concat
  <1>p. p \in Seq(K)
    BY <1>1
  <1> HIDE DEF p
  <1>2. /\ q \in Seq(K) /\ Len(q) = Len(p) + Len(c) /\ Len(c) \in Nat
        /\ \A i \in 1..Len(p) : q[i] = p[i]
        /\ \A i \in 1..Len(c) : q[Len(p) + i] = c[i]
    BY <1>p, Concat
  <1>q. q \in Seq(K)
    BY <1>2
  <1> HIDE DEF q
  <1>3. /\ r \in Seq(K) /\ Len(r) = Len(q) + Len(d) /\ Len(d) \in Nat
        /\ \A i \in 1..Len(q) : r[i] = q[i]
        /\ \A i \in 1..Len(d) : r[Len(q) + i] = d[i]
    BY <1>q, Concat
  <1>r. r \in Seq(K)
    BY <1>3
  <1> HIDE DEF r
  <1>4. /\ u \in Seq(K) /\ Len(u) = Len(r) + 1 /\ u[Len(r) + 1] = e
        /\ \A i \in 1..Len(r) : u[i] = r[i]
    BY <1>r
  <1> HIDE DEF u
  <1> DEFINE A == Len(a)
             B == A + Len(b)
             C == B + Len(c)
             D == C + Len(d)
  <1>5. /\ A \in Nat /\ B \in Nat /\ C \in Nat /\ D \in Nat
        /\ Len(p) = B /\ Len(q) = C /\ Len(r) = D
    BY <1>1, <1>2, <1>3
  <1>6. ASSUME NEW i \in 1..A PROVE u[i] = a[i]
    <2>1. i \in 1..Len(p) /\ i \in 1..Len(q) /\ i \in 1..Len(r)
      BY <1>1, <1>2, <1>3
    <2> QED  BY <1>1, <1>2, <1>3, <1>4, <2>1
  <1>7. ASSUME NEW i \in 1..Len(b) PROVE u[A + i] = b[i]
    <2>1. A + i \in 1..Len(p) /\ A + i \in 1..Len(q) /\ A + i \in 1..Len(r)
      BY <1>1, <1>2, <1>3
    <2> QED  BY <1>1, <1>2, <1>3, <1>4, <2>1
  <1>8. ASSUME NEW i \in 1..Len(c) PROVE u[B + i] = c[i]
    <2>1. B + i \in 1..Len(q) /\ B + i \in 1..Len(r)
      BY <1>1, <1>2, <1>3
    <2> QED  BY <1>2, <1>3, <1>4, <1>5, <2>1
  <1>9. ASSUME NEW i \in 1..Len(d) PROVE u[C + i] = d[i]
    <2>1. C + i \in 1..Len(r)
      BY <1>1, <1>2, <1>3
    <2> QED  BY <1>3, <1>4, <1>5, <2>1
  <1>10. Len(u) = D + 1 /\ u[D + 1] = e
    BY <1>4, <1>5
  <1>11. /\ u \in Seq(K) /\ Len(u) = D + 1 /\ u[D + 1] = e
         /\ \A i \in 1..A : u[i] = a[i]
         /\ \A i \in 1..Len(b) : u[A + i] = b[i]
         /\ \A i \in 1..Len(c) : u[B + i] = c[i]
         /\ \A i \in 1..Len(d) : u[C + i] = d[i]
         /\ A \in Nat /\ B \in Nat /\ C \in Nat /\ D \in Nat
         /\ Len(b) \in Nat /\ Len(c) \in Nat /\ Len(d) \in Nat
    BY <1>1, <1>2, <1>3, <1>4, <1>5, <1>6, <1>7, <1>8, <1>9, <1>10
  <1>12. FiveJoined(u, K, a, b, c, d, e)
    BY <1>11, Zenon DEF FiveJoined
  <1> QED  BY <1>12 DEF u, r, q, p

\* Positions from a to b, counted from a.
LEMMA Shifted ==
  ASSUME NEW a \in Nat, NEW n \in Nat
  PROVE  /\ \A i \in (a + 1)..(a + n) : i - a \in 1..n /\ a + (i - a) = i
         /\ \A i \in 1..n : a + i \in (a + 1)..(a + n)
  OBVIOUS
-----------------------------------------------------------------------------
\* A plan and the parts of its statements: they prepare the source, tear down,
\* realize, replay, and activate the source.

Layout == [plan : Plans, steps : Seq(Statements), roots : SUBSET TableModels,
           prep : Nat, torn : Nat, made : Nat]

\* What each part does, and to what.
Parts(l) ==
  LET s == l.steps
      scope == l.plan.scope
  IN  /\ 1 <= l.prep /\ l.prep <= l.torn /\ l.torn <= l.made /\ l.made + 1 <= Len(s)
      /\ \A i \in 1..l.prep : s[i] \in PrepStatements
      /\ \A i \in (l.prep + 1)..l.torn : s[i] \in [op : {"drop view", "drop table"}, on : scope]
      /\ \A i \in (l.torn + 1)..l.made : s[i] \in [op : {"create table", "create view"}, on : scope]
      /\ \A i \in (l.made + 1)..(Len(s) - 1) :
           /\ s[i] \in [op : {"capture", "replay"}, on : scope \ Views]
           /\ s[i].on \in l.roots \/ (Driving(s[i].on) # Source /\ Sides(s[i].on) \cap Models # {})
      /\ s[Len(s)] = Statement("activate", Source)

\* The source stays paused, views go before tables, everything is made again,
\* each root is replayed once, and what is driven from the scope is in it or
\* was added to the selection.
Laid(l) ==
  LET s == l.steps
      scope == l.plan.scope
  IN  /\ Parts(l) /\ Assembled(l.plan, s)
      /\ l.roots = {m \in scope \ Views : Driving(m) \notin scope}
      /\ \E i \in 1..l.prep : s[i].op = "pause" /\ \A k \in (i + 1)..l.prep : s[k].op # "bootstrap"
      /\ \A i \in (l.prep + 1)..l.torn, m \in scope \ Views :
           s[i].op = "drop table" => \E k \in 1..(i - 1) : s[k] = Statement("drop view", m)
      /\ \A m \in scope : \E i \in 1..l.made : s[i] = Statement("create view", m)
      /\ \A m \in scope \ Views : \E i \in 1..l.made : s[i] = Statement("create table", m)
      /\ \A m \in l.roots : \E i \in (l.made + 1)..(Len(s) - 1) : s[i] = Statement("replay", m)
      /\ \A m \in l.roots : \A i, j \in (l.made + 1)..(Len(s) - 1) :
           s[i] = Statement("replay", m) /\ s[j] = Statement("replay", m) => i = j
      /\ \A c \in TableModels \ scope : Driving(c) \in scope => Driving(c) \in l.plan.added

Layouts == {l \in Layout : Laid(l)}

\* The statements of a plan are laid out so.
LEMMA PlanLaid ==
  ASSUME NEW p \in Plans,
         \A c \in TableModels \ p.scope : Driving(c) \in p.scope => Driving(c) \in p.added
  PROVE  \E l \in Layouts : l.plan = p /\ l.steps = AssembleStatements(p)
  <1> DEFINE K == Statements
             scope == p.scope
             a == PreparationStatements(p)
             b == TeardownStatements(p)
             c == RealizationStatements(p)
             d == ReplayStatements(p)
             e == Statement("activate", Source)
             u == AssembleStatements(p)
             A == Len(a)
             B == A + Len(b)
             C == B + Len(c)
             D == C + Len(d)
             T == [op : {"drop view", "drop table"}, on : scope]
             M == [op : {"create table", "create view"}, on : scope]
             F == ReplayRoots(p) \cup FanInTargets(p)
             R == [op : {"capture", "replay"}, on : F]
             roots == ReplayRoots(p)
             dv(m) == Statement("drop view", m)
             cv(m) == Statement("create view", m)
             ct(m) == Statement("create table", m)
             re(m) == Statement("replay", m)
             l == [plan |-> p, steps |-> u, roots |-> roots, prep |-> A, torn |-> B, made |-> C]
  <1>1. scope \in SUBSET Models /\ scope \subseteq Models
    BY DEF Plans
  <1>2. /\ roots = {m \in scope \ Views : Driving(m) \notin scope} /\ roots \in SUBSET TableModels
        /\ F \subseteq scope \ Views
        /\ \A m \in F : m \in roots \/ (Driving(m) # Source /\ Sides(m) \cap Models # {})
    <2>1. roots = {m \in scope \ Views : Driving(m) \notin scope}
      BY DEF ReplayRoots
    <2>2. \A m \in FanInTargets(p) : /\ m \in scope \ Views /\ Driving(m) \in scope
                                     /\ Sides(m) \cap scope # {}
      BY DEF ReplayRoots, FanInTargets
    <2>3. Source \notin scope
      BY <1>1, ProjectFacts
    <2> QED  BY <1>1, <2>1, <2>2, <2>3 DEF TableModels
  <1>3. Assembled(p, u)
    BY <1>1, AssembledPlan
  <1>4. a \in Seq(PrepStatements) /\ Pauses(a)
    BY PreparationPauses
  <1>5. /\ b \in Seq(T)
        /\ \A i \in 1..Len(b), m \in scope \ Views :
             b[i].op = "drop table" => \E k \in 1..(i - 1) : b[k] = dv(m)
    BY <1>1, TeardownOrder
  <1>6. /\ c \in Seq(M) /\ \A m \in scope : Has(c, cv(m))
        /\ \A m \in scope \ Views : Has(c, ct(m))
    BY <1>1, RealizationMakes
  <1>7. /\ d \in Seq(R) /\ \A m \in roots : Has(d, re(m))
        /\ \A m \in roots : \A i, j \in 1..Len(d) : d[i] = re(m) /\ d[j] = re(m) => i = j
    BY <1>1, ReplayOrder
  <1>8. /\ PrepStatements \subseteq K /\ T \subseteq K /\ M \subseteq K /\ R \subseteq K /\ e \in K
        /\ R \subseteq [op : {"capture", "replay"}, on : scope \ Views] /\ \A x \in R : x.on \in F
    <2>1. scope \subseteq Keys(Project) /\ Source \in Keys(Project) /\ F \subseteq Keys(Project)
      BY <1>1, <1>2, ProjectFacts
    <2>2. PrepOps \subseteq Ops /\ {"drop view", "drop table", "create table", "create view", "capture",
                                    "replay", "activate"} \subseteq Ops
      BY DEF PrepOps, Ops
    <2> HIDE DEF F
    <2> QED  BY <1>2, <2>1, <2>2 DEF PrepStatements, Statements, Statement
  <1>9. u = a \o b \o c \o d \o <<e>>
    BY DEF AssembleStatements
  <1> HIDE DEF a, b, c, d, e, u, T, M, R, roots, dv, cv, ct, re, scope, F, K
  <1>10. a \in Seq(K) /\ b \in Seq(K) /\ c \in Seq(K) /\ d \in Seq(K)
    BY <1>4, <1>5, <1>6, <1>7, <1>8, WiderSeq
  <1>11. /\ u \in Seq(K) /\ Len(u) = D + 1 /\ u[D + 1] = e
         /\ \A i \in 1..A : u[i] = a[i]
         /\ \A i \in 1..Len(b) : u[A + i] = b[i]
         /\ \A i \in 1..Len(c) : u[B + i] = c[i]
         /\ \A i \in 1..Len(d) : u[C + i] = d[i]
         /\ A \in Nat /\ B \in Nat /\ C \in Nat /\ D \in Nat
         /\ Len(b) \in Nat /\ Len(c) \in Nat /\ Len(d) \in Nat
    <2>1. e \in K
      BY <1>8
    <2>2. FiveJoined(u, K, a, b, c, d, e)
      BY <1>9, <1>10, <2>1, FiveParts
    <2> QED  BY <2>2, Zenon DEF FiveJoined
  <1>12. l \in Layout /\ l.plan = p /\ l.steps = u /\ l.roots = roots /\ l.prep = A /\ l.torn = B /\ l.made = C
    <2> HIDE DEF A, B, C, D
    <2> QED  BY <1>2, <1>11 DEF Layout, K
  <1>13. Pauses(a) <=> \E i \in 1..A : a[i].op = "pause" /\ \A k \in (i + 1)..A : a[k].op # "bootstrap"
    BY DEF Pauses
  <1>14. PICK i0 \in 1..A : u[i0].op = "pause" /\ \A k \in (i0 + 1)..A : u[k].op # "bootstrap"
    <2>1. PICK i \in 1..A : a[i].op = "pause" /\ \A k \in (i + 1)..A : a[k].op # "bootstrap"
      BY <1>4, <1>13
    <2>2. \A k \in (i + 1)..A : k \in 1..A
      BY <1>11
    <2> QED  BY <1>11, <2>1, <2>2
  <1>15. 1 <= A /\ A <= B /\ B <= C /\ C + 1 <= Len(u) /\ Len(u) - 1 = D /\ Len(u) = D + 1
    <2> HIDE DEF a, b, c, d
    <2> QED  BY <1>11, <1>14
  <1>16. \A i \in 1..A : u[i] \in PrepStatements
    BY <1>4, <1>11, Members
  <1>17. ASSUME NEW i \in (A + 1)..B
         PROVE  i - A \in 1..Len(b) /\ A + (i - A) = i /\ u[i] = b[i - A] /\ u[i] \in T
    <2>1. i - A \in 1..Len(b) /\ A + (i - A) = i
      BY <1>11, Shifted
    <2> QED  BY <1>5, <1>11, <2>1, Members
  <1>18. ASSUME NEW i \in (B + 1)..C PROVE u[i] \in M
    <2>1. i - B \in 1..Len(c) /\ B + (i - B) = i
      BY <1>11, Shifted
    <2> HIDE DEF A, B, C, D
    <2>2. u[i] = c[i - B]
      BY <1>11, <2>1
    <2> QED  BY <1>6, <2>1, <2>2, Members
  <1>19. ASSUME NEW i \in (C + 1)..D
         PROVE  i - C \in 1..Len(d) /\ C + (i - C) = i /\ u[i] = d[i - C] /\ u[i] \in R
    <2>1. i - C \in 1..Len(d) /\ C + (i - C) = i
      BY <1>11, Shifted
    <2> HIDE DEF A, B, C
    <2> QED  BY <1>7, <1>11, <2>1, Members
  <1>20. ASSUME NEW i \in (A + 1)..B, NEW m \in scope \ Views, u[i].op = "drop table"
         PROVE  \E k \in 1..(i - 1) : u[k] = dv(m)
    <2>1. i - A \in 1..Len(b) /\ A + (i - A) = i /\ u[i] = b[i - A]
      BY <1>17
    <2>2. PICK k \in 1..((i - A) - 1) : b[k] = dv(m)
      BY <1>5, <1>20, <2>1
    <2>3. k \in 1..Len(b) /\ A + k \in 1..(i - 1)
      BY <1>11, <2>1
    <2> HIDE DEF A
    <2> QED  BY <1>11, <2>2, <2>3
  <1>21. ASSUME NEW x, Has(c, x) PROVE \E i \in 1..C : u[i] = x
    <2>1. PICK k \in 1..Len(c) : c[k] = x
      BY <1>21 DEF Has
    <2>2. B + k \in 1..C
      BY <1>11
    <2> HIDE DEF A, B, C
    <2> QED  BY <1>11, <2>1, <2>2
  <1>22. ASSUME NEW x, Has(d, x) PROVE \E i \in (C + 1)..D : u[i] = x
    <2>1. PICK k \in 1..Len(d) : d[k] = x
      BY <1>22 DEF Has
    <2>2. C + k \in (C + 1)..D
      BY <1>11, Shifted
    <2> HIDE DEF A, B, C, D
    <2> QED  BY <1>11, <2>1, <2>2
  <1>23. ASSUME NEW m \in roots, NEW i \in (C + 1)..D, NEW j \in (C + 1)..D, u[i] = re(m), u[j] = re(m)
         PROVE  i = j
    <2>1. /\ i - C \in 1..Len(d) /\ C + (i - C) = i /\ u[i] = d[i - C]
          /\ j - C \in 1..Len(d) /\ C + (j - C) = j /\ u[j] = d[j - C]
      BY <1>19
    <2> DEFINE x == i - C
               y == j - C
    <2>2. x \in 1..Len(d) /\ y \in 1..Len(d) /\ d[x] = re(m) /\ d[y] = re(m) /\ C + x = i /\ C + y = j
      BY <1>23, <2>1
    <2> HIDE DEF x, y, C
    <2>3. x = y
      BY <1>7, <2>2
    <2> QED  BY <2>2, <2>3
  <1> HIDE DEF A, B, C, D, l
  <1>24. Parts(l)
    <2>1. /\ 1 <= l.prep /\ l.prep <= l.torn /\ l.torn <= l.made /\ l.made + 1 <= Len(l.steps)
          /\ l.plan.scope = scope
      BY <1>12, <1>15 DEF scope
    <2>2. \A i \in 1..l.prep : l.steps[i] \in PrepStatements
      BY <1>12, <1>16
    <2>3. \A i \in (l.prep + 1)..l.torn : l.steps[i] \in T
      BY <1>12, <1>17
    <2>4. \A i \in (l.torn + 1)..l.made : l.steps[i] \in M
      BY <1>12, <1>18
    <2>5. \A i \in (l.made + 1)..(Len(l.steps) - 1) : l.steps[i] \in R
      BY <1>12, <1>15, <1>19
    <2>6. l.steps[Len(l.steps)] = e
      BY <1>11, <1>12, <1>15
    <2>7. ASSUME NEW i \in (l.made + 1)..(Len(l.steps) - 1)
          PROVE  /\ l.steps[i] \in [op : {"capture", "replay"}, on : scope \ Views]
                 /\ \/ l.steps[i].on \in l.roots
                    \/ Driving(l.steps[i].on) # Source /\ Sides(l.steps[i].on) \cap Models # {}
      <3>1. l.steps[i] \in R /\ l.steps[i].on \in F
        BY <1>8, <2>5
      <3> QED  BY <1>2, <1>8, <1>12, <3>1
    <2> QED  BY <2>1, <2>2, <2>3, <2>4, <2>6, <2>7 DEF Parts, T, M, e
  <1>25. Laid(l)
    <2>0. l.plan.scope = scope /\ l.plan.added = p.added
      BY <1>12 DEF scope
    <2>1. Assembled(l.plan, l.steps) /\ l.roots = {m \in scope \ Views : Driving(m) \notin scope}
      BY <1>2, <1>3, <1>12
    <2>2. \E i \in 1..l.prep : l.steps[i].op = "pause" /\ \A k \in (i + 1)..l.prep : l.steps[k].op # "bootstrap"
      BY <1>12, <1>14
    <2>3. \A i \in (l.prep + 1)..l.torn, m \in scope \ Views :
            l.steps[i].op = "drop table" => \E k \in 1..(i - 1) : l.steps[k] = dv(m)
      BY <1>12, <1>20
    <2>4. \A m \in scope : \E i \in 1..l.made : l.steps[i] = cv(m)
      BY <1>6, <1>12, <1>21
    <2>5. \A m \in scope \ Views : \E i \in 1..l.made : l.steps[i] = ct(m)
      BY <1>6, <1>12, <1>21
    <2>6. \A m \in l.roots : \E i \in (l.made + 1)..(Len(l.steps) - 1) : l.steps[i] = re(m)
      BY <1>7, <1>12, <1>15, <1>22
    <2>7. \A m \in l.roots : \A i, j \in (l.made + 1)..(Len(l.steps) - 1) :
            l.steps[i] = re(m) /\ l.steps[j] = re(m) => i = j
      BY <1>12, <1>15, <1>23
    <2>8. \A x \in TableModels \ scope : Driving(x) \in scope => Driving(x) \in l.plan.added
      BY <2>0 DEF scope
    <2> QED  BY <1>24, <2>0, <2>1, <2>2, <2>3, <2>4, <2>5, <2>6, <2>7, <2>8 DEF Laid, dv, cv, ct, re
  <1> QED  BY <1>12, <1>25 DEF Layouts, u
-----------------------------------------------------------------------------
\* What a build at work relies on.

\* The table models that no plan replays a second time: what they read besides
\* their driving input, if that is a model, is no model.
Singles == {m \in TableModels : Driving(m) = Source \/ Sides(m) \cap Models = {}}

\* What the theorem says of any project; RowsOnce of the table models above.
AppliedSingle ==
  /\ \A m \in history.built : live[m] # 0
  /\ \A m \in (history.built \ Views) \cap Singles : Matches(m)
  /\ \A m \in history.built \ history.unrecorded : baseline[m] = live[m]

\* Once paused, and not bootstrapped since, the source is still until the end.
Still(r, l) ==
  r.pc = "run" /\ r.at <= Len(l.steps) =>
    ((\E i \in 1..(r.at - 1) :
        /\ l.steps[i].op = "pause"
        /\ \A k \in (i + 1)..(r.at - 1) : l.steps[k].op \notin {"bootstrap", "activate"})
     => ~flowing)

\* The views that were created are those of the plan, and nothing whose view was
\* dropped counts as applied.
Viewed(r, l) ==
  \A i \in 1..(r.at - 1) :
    /\ l.steps[i].op = "create view" => live[l.steps[i].on] = l.plan.version[l.steps[i].on]
    /\ l.steps[i].op = "drop view" => l.steps[i].on \notin history.built

\* The tables stay empty until the replays.
Emptied(r, l) ==
  r.pc = "run" /\ r.at <= l.made + 1 =>
    \A i \in 1..(r.at - 1) : l.steps[i].op = "create table" => rows[l.steps[i].on] = NoRows

\* What is driven by a rebuilt table follows it through every replay.
Following(r, l) ==
  r.at > l.made =>
    \A m \in (l.plan.scope \ (Views \cup l.roots)) \cap Singles : Matches(m)

Replayed(r, l, m) ==
  \E i \in 1..(r.at - 1) : l.steps[i].op = "replay" /\ l.steps[i].on = m

\* A root is empty until its replay, and has the rows of its input after it.
Refilled(r, l) ==
  r.at > l.made =>
    \A m \in l.roots : IF Replayed(r, l, m) THEN Matches(m) ELSE r.pc = "run" => rows[m] = NoRows

\* The boundary of a replay still covers its input.
Bounded(r, l) ==
  r.pc = "run" /\ r.at <= Len(l.steps) /\ l.steps[r.at].op = "replay" =>
    Covers(r.captured, l.steps[r.at].on)

Going(r, l) ==
  /\ Sealed(l.plan.scope)
  /\ Still(r, l) /\ Viewed(r, l) /\ Emptied(r, l)
  /\ Following(r, l) /\ Refilled(r, l) /\ Bounded(r, l)

\* A builder with a plan has one that is laid out, and at work it keeps to it.
Keeping(b) ==
  build[b].pc # "idle" =>
    \E l \in Layouts : \E r \in Records :
      /\ r = build[b] /\ l.plan = r.plan /\ l.steps = r.steps
      /\ r.pc \in Busy => Going(r, l)

AppliedInv == AppliedSingle /\ \A b \in Builders : Keeping(b)
-----------------------------------------------------------------------------
\* Where the statements of a plan are.
LEMMA Somewhere ==
  ASSUME NEW a \in Nat, NEW b \in Nat, NEW c \in Nat, NEW n \in Nat, a <= b, b <= c, c + 1 <= n,
         NEW i \in 1..n
  PROVE  \/ i \in 1..a
         \/ i \in (a + 1)..b
         \/ i \in (b + 1)..c
         \/ i \in (c + 1)..(n - 1)
         \/ i = n
  OBVIOUS

LEMMA LayoutFacts ==
  ASSUME NEW l \in Layouts
  PROVE  /\ l.plan \in Plans /\ l.steps \in Seq(Statements) /\ l.roots \in SUBSET TableModels
         /\ l.prep \in Nat /\ l.torn \in Nat /\ l.made \in Nat /\ Len(l.steps) \in Nat
         /\ 1 <= l.prep /\ l.prep <= l.torn /\ l.torn <= l.made /\ l.made + 1 <= Len(l.steps)
         /\ l.plan.scope \in SUBSET Models /\ Laid(l) /\ Parts(l) /\ Source \notin l.plan.scope
         /\ l.plan.version \in [Models -> 1..2]
         /\ l.roots = {m \in l.plan.scope \ Views : Driving(m) \notin l.plan.scope}
  <1>1. l \in Layout /\ Laid(l)
    BY DEF Layouts
  <1>2. /\ l.plan \in Plans /\ l.steps \in Seq(Statements) /\ l.roots \in SUBSET TableModels
        /\ l.prep \in Nat /\ l.torn \in Nat /\ l.made \in Nat
    BY <1>1 DEF Layout
  <1>3. Parts(l) /\ l.roots = {m \in l.plan.scope \ Views : Driving(m) \notin l.plan.scope}
    BY <1>1 DEF Laid
  <1>4. 1 <= l.prep /\ l.prep <= l.torn /\ l.torn <= l.made /\ l.made + 1 <= Len(l.steps)
    BY <1>3 DEF Parts
  <1>5. Len(l.steps) \in Nat
    BY <1>2, Members
  <1>6. l.plan.scope \in SUBSET Models /\ l.plan.version \in [Models -> 1..2]
    BY <1>2 DEF Plans
  <1>7. Source \notin l.plan.scope
    BY <1>6, ProjectFacts
  <1> QED  BY <1>1, <1>2, <1>3, <1>4, <1>5, <1>6, <1>7

\* The part a statement is in, by what it does.
Located(l, i) ==
  LET s == l.steps[i]
  IN  \/ i \in 1..l.prep /\ s.op \in PrepOps /\ s.on = Source
      \/ /\ i \in (l.prep + 1)..l.torn /\ s.op \in {"drop view", "drop table"}
         /\ s.on \in l.plan.scope
      \/ /\ i \in (l.torn + 1)..l.made /\ s.op \in {"create table", "create view"}
         /\ s.on \in l.plan.scope
      \/ /\ i \in (l.made + 1)..(Len(l.steps) - 1) /\ s.op \in {"capture", "replay"}
         /\ s.on \in l.plan.scope \ Views
         /\ s.on \in l.roots \/ (Driving(s.on) # Source /\ Sides(s.on) \cap Models # {})
      \/ i = Len(l.steps) /\ s.op = "activate" /\ s.on = Source

LEMMA Locates ==
  ASSUME NEW l \in Layouts, NEW i \in 1..Len(l.steps) PROVE Located(l, i)
  <1> DEFINE s == l.steps[i]
             scope == l.plan.scope
             A == l.prep
             B == l.torn
             C == l.made
             n == Len(l.steps)
  <1>1. A \in Nat /\ B \in Nat /\ C \in Nat /\ n \in Nat /\ A <= B /\ B <= C /\ C + 1 <= n /\ Parts(l)
    BY LayoutFacts
  <1>2. CASE i \in 1..A
    <2>1. s \in PrepStatements
      BY <1>1, <1>2 DEF Parts
    <2> QED  BY <1>2, <2>1 DEF Located, PrepStatements
  <1>3. CASE i \in (A + 1)..B
    <2>1. s \in [op : {"drop view", "drop table"}, on : scope]
      BY <1>1, <1>3 DEF Parts
    <2> QED  BY <1>3, <2>1 DEF Located
  <1>4. CASE i \in (B + 1)..C
    <2>1. s \in [op : {"create table", "create view"}, on : scope]
      BY <1>1, <1>4 DEF Parts
    <2> QED  BY <1>4, <2>1 DEF Located
  <1>5. CASE i \in (C + 1)..(n - 1)
    <2>1. /\ s \in [op : {"capture", "replay"}, on : scope \ Views]
          /\ s.on \in l.roots \/ (Driving(s.on) # Source /\ Sides(s.on) \cap Models # {})
      BY <1>1, <1>5 DEF Parts
    <2> QED  BY <1>5, <2>1 DEF Located
  <1>6. CASE i = n
    <2>1. s = Statement("activate", Source)
      BY <1>1, <1>6 DEF Parts
    <2> QED  BY <1>6, <2>1 DEF Located, Statement
  <1>7. \/ i \in 1..A \/ i \in (A + 1)..B \/ i \in (B + 1)..C \/ i \in (C + 1)..(n - 1) \/ i = n
    <2> HIDE DEF A, B, C, n
    <2>1. i \in 1..n
      BY DEF n
    <2> QED  BY <1>1, <2>1, Somewhere
  <1> QED  BY <1>2, <1>3, <1>4, <1>5, <1>6, <1>7

\* What follows from what a statement does.
LEMMA ByOp ==
  ASSUME NEW l \in Layouts, NEW i \in 1..Len(l.steps)
  PROVE  LET s == l.steps[i]
             fan == Driving(s.on) # Source /\ Sides(s.on) \cap Models # {}
         IN  /\ s.op \in PrepOps => i <= l.prep /\ s.on = Source
             /\ s.op \in {"drop view", "drop table"} =>
                  l.prep < i /\ i <= l.torn /\ i \in (l.prep + 1)..l.torn /\ s.on \in l.plan.scope
             /\ s.op \in {"create table", "create view"} =>
                  l.torn < i /\ i <= l.made /\ s.on \in l.plan.scope
             /\ s.op \in {"capture", "replay"} =>
                  /\ l.made < i /\ i < Len(l.steps) /\ i \in (l.made + 1)..(Len(l.steps) - 1)
                  /\ s.on \in l.plan.scope \ Views /\ (s.on \in l.roots \/ fan)
             /\ s.op = "activate" => i = Len(l.steps) /\ s.on = Source
             /\ i <= l.prep => s.op \in PrepOps
             /\ l.prep < i /\ i < Len(l.steps) => s.op \notin PrepOps \cup {"activate"}
             /\ l.torn < i => s.op \notin {"drop view", "drop table"}
             /\ i <= l.made => s.op \notin {"capture", "replay", "activate"}
             /\ l.made < i => s.op \in {"capture", "replay", "activate"}
             /\ i <= l.torn => s.op \notin {"create table", "create view"}
  <1> DEFINE s == l.steps[i]
             scope == l.plan.scope
             A == l.prep
             B == l.torn
             C == l.made
             n == Len(l.steps)
             op == s.op
  <1>1. /\ A \in Nat /\ B \in Nat /\ C \in Nat /\ n \in Nat /\ A <= B /\ B <= C /\ C + 1 <= n
        /\ i \in 1..n
    BY LayoutFacts
  <1>2. Located(l, i)
    BY Locates
  <1>i. /\ i \in 1..A => i <= A /\ i <= B /\ i <= C
        /\ i \in (A + 1)..B => A < i /\ i <= B /\ i <= C /\ ~(i <= A)
        /\ i \in (B + 1)..C => B < i /\ A < i /\ i <= C /\ ~(i <= A) /\ ~(i <= B)
        /\ i \in (C + 1)..(n - 1) => C < i /\ i < n /\ ~(i <= C) /\ ~(i <= B) /\ ~(i <= A) /\ B < i /\ A < i
        /\ i = n => ~(i < n) /\ ~(i <= C) /\ ~(i <= B) /\ ~(i <= A) /\ C < i /\ B < i
        /\ ~(C < i /\ i <= C) /\ ~(A < i /\ i <= A) /\ ~(B < i /\ i <= B)
    <2> HIDE DEF A, B, C, n
    <2> QED  BY <1>1
  <1> HIDE DEF op, A, B, C, n
  <1>3. CASE i \in 1..A /\ op \in PrepOps /\ s.on = Source
    <2>1. op \notin {"drop view", "drop table", "create table", "create view", "capture", "replay", "activate"}
      BY <1>3 DEF PrepOps
    <2> QED  BY <1>3, <1>i, <2>1 DEF A, B, C, n, op
  <1>4. CASE i \in (A + 1)..B /\ op \in {"drop view", "drop table"} /\ s.on \in scope
    <2>1. op \notin PrepOps \cup {"create table", "create view", "capture", "replay", "activate"}
      BY <1>4 DEF PrepOps
    <2> QED  BY <1>4, <1>i, <2>1 DEF A, B, C, n, op
  <1>5. CASE i \in (B + 1)..C /\ op \in {"create table", "create view"} /\ s.on \in scope
    <2>1. op \notin PrepOps \cup {"drop table", "drop view", "capture", "replay", "activate"}
      BY <1>5 DEF PrepOps
    <2> QED  BY <1>5, <1>i, <2>1 DEF A, B, C, n, op
  <1>6. CASE /\ i \in (C + 1)..(n - 1) /\ op \in {"capture", "replay"} /\ s.on \in scope \ Views
             /\ s.on \in l.roots \/ (Driving(s.on) # Source /\ Sides(s.on) \cap Models # {})
    <2>1. op \notin PrepOps \cup {"drop table", "drop view", "create table", "create view", "activate"}
      BY <1>6 DEF PrepOps
    <2> QED  BY <1>6, <1>i, <2>1 DEF A, B, C, n, op
  <1>7. CASE i = n /\ op = "activate" /\ s.on = Source
    <2>1. op \notin PrepOps \cup {"drop table", "drop view", "create table", "create view", "capture", "replay"}
      BY <1>7 DEF PrepOps
    <2> QED  BY <1>7, <1>i, <2>1 DEF A, B, C, n, op
  <1> QED  BY <1>2, <1>3, <1>4, <1>5, <1>6, <1>7 DEF Located, A, B, C, n, op

LEMMA StatementParts == \A op, x : Statement(op, x).op = op /\ Statement(op, x).on = x
  BY DEF Statement

\* The source is still from the teardown to the activation.
LEMMA NotFlowing ==
  ASSUME NEW l \in Layouts, NEW r \in Records, r.pc = "run", l.prep < r.at, r.at <= Len(l.steps),
         Still(r, l)
  PROVE  ~flowing
  <1> DEFINE n == Len(l.steps)
             A == l.prep
             a == r.at
  <1>1. A \in Nat /\ n \in Nat /\ a \in Nat /\ A < a /\ a <= n /\ A + 1 <= n
    BY LayoutFacts DEF Records
  <1>2. PICK i \in 1..A : l.steps[i].op = "pause" /\ \A k \in (i + 1)..A : l.steps[k].op # "bootstrap"
    BY LayoutFacts DEF Laid
  <1> HIDE DEF n, A, a
  <1>3. i \in 1..(a - 1)
    BY <1>1
  <1>4. ASSUME NEW k \in (i + 1)..(a - 1) PROVE l.steps[k].op \notin {"bootstrap", "activate"}
    <2>1. k \in 1..n /\ (k <= A => k \in (i + 1)..A) /\ (~(k <= A) => A < k) /\ k < n
      BY <1>1
    <2>2. CASE k <= A
      <3>1. l.steps[k].op \in PrepOps /\ l.steps[k].op # "bootstrap"
        BY <1>2, <2>1, <2>2, ByOp DEF n, A
      <3> QED  BY <3>1 DEF PrepOps
    <2>3. CASE A < k
      <3>1. l.steps[k].op \notin PrepOps \cup {"activate"}
        BY <2>1, <2>3, ByOp DEF n, A
      <3> QED  BY <3>1 DEF PrepOps
    <2> QED  BY <2>1, <2>2, <2>3
  <1> QED  BY <1>2, <1>3, <1>4 DEF Still, a, n

\* Once all is made, the views are those of the plan.
LEMMA AllViewed ==
  ASSUME NEW l \in Layouts, NEW r \in Records, r.at > l.made, Viewed(r, l)
  PROVE  \A m \in l.plan.scope : live[m] = l.plan.version[m] /\ live[m] # 0
  <1> TAKE m \in l.plan.scope
  <1>1. PICK i \in 1..l.made : l.steps[i] = Statement("create view", m)
    BY LayoutFacts DEF Laid
  <1>2. i \in 1..(r.at - 1)
    <2>1. l.made \in Nat /\ r.at \in Nat
      BY LayoutFacts DEF Records
    <2> QED  BY <2>1
  <1>3. l.steps[i].op = "create view" /\ l.steps[i].on = m
    BY <1>1, StatementParts
  <1>4. live[m] = l.plan.version[m]
    BY <1>2, <1>3 DEF Viewed
  <1>5. l.plan.version[m] \in 1..2
    BY LayoutFacts
  <1>6. \A v \in 1..2 : v # 0
    OBVIOUS
  <1> QED  BY <1>4, <1>5, <1>6

\* Once all is made, the tables are empty.
LEMMA AllEmpty ==
  ASSUME NEW l \in Layouts, NEW q \in Records, q.pc = "run", q.at = l.made + 1, Emptied(q, l)'
  PROVE  \A m \in l.plan.scope \ Views : rows'[m] = NoRows
  <1> TAKE m \in l.plan.scope \ Views
  <1>1. PICK i \in 1..l.made : l.steps[i] = Statement("create table", m)
    BY LayoutFacts DEF Laid
  <1>2. i \in 1..(q.at - 1) /\ q.at <= l.made + 1
    <2>1. l.made \in Nat /\ q.at \in Nat
      BY LayoutFacts DEF Records
    <2> QED  BY <2>1
  <1>3. l.steps[i].op = "create table" /\ l.steps[i].on = m
    BY <1>1, StatementParts
  <1> QED  BY <1>2, <1>3 DEF Emptied

\* A root is replayed at one place.
LEMMA RootsDone ==
  ASSUME NEW l \in Layouts, NEW r \in Records, r.at > Len(l.steps), NEW m \in l.roots
  PROVE  Replayed(r, l, m)
  <1>1. PICK i \in (l.made + 1)..(Len(l.steps) - 1) : l.steps[i] = Statement("replay", m)
    BY LayoutFacts DEF Laid
  <1>2. i \in 1..(r.at - 1)
    <2>1. l.made \in Nat /\ r.at \in Nat /\ Len(l.steps) \in Nat
      BY LayoutFacts DEF Records
    <2> QED  BY <2>1
  <1>3. l.steps[i].op = "replay" /\ l.steps[i].on = m
    BY <1>1, StatementParts
  <1> QED  BY <1>2, <1>3 DEF Replayed

LEMMA ReplayedOnce ==
  ASSUME NEW l \in Layouts, NEW r \in Records, r.at \in 1..Len(l.steps), NEW m \in l.roots,
         l.steps[r.at].op = "replay", l.steps[r.at].on = m
  PROVE  ~Replayed(r, l, m)
  <1> SUFFICES ASSUME NEW i \in 1..(r.at - 1), l.steps[i].op = "replay", l.steps[i].on = m PROVE FALSE
    BY DEF Replayed
  <1> DEFINE n == Len(l.steps)
             a == r.at
             x == Statement("replay", m)
  <1>1. n \in Nat /\ l.steps \in Seq(Statements)
    BY LayoutFacts
  <1>2. a \in 1..n /\ i \in 1..n /\ i # a
    BY <1>1
  <1>3. i \in (l.made + 1)..(n - 1) /\ a \in (l.made + 1)..(n - 1)
    BY <1>2, ByOp
  <1>4. l.steps[i] \in Statements /\ l.steps[a] \in Statements
    <2> HIDE DEF n, a
    <2> QED  BY <1>1, <1>2, Members DEF n
  <1>5. l.steps[i] = x /\ l.steps[a] = x
    BY <1>4 DEF Statements, Statement
  <1>6. i = a
    <2>1. \A j, k \in (l.made + 1)..(n - 1) : l.steps[j] = x /\ l.steps[k] = x => j = k
      BY LayoutFacts DEF Laid
    <2> HIDE DEF x, n, a
    <2> QED  BY <1>3, <1>5, <2>1
  <1> QED  BY <1>2, <1>6

\* What was replayed before the statement at hand, and with it.
LEMMA ReplayedNext ==
  ASSUME NEW l \in Layouts, NEW r \in Records, NEW q \in Records, r.at \in 1..Len(l.steps),
         q.at = r.at + 1, NEW m
  PROVE  Replayed(q, l, m) <=> (Replayed(r, l, m) \/ (l.steps[r.at].op = "replay" /\ l.steps[r.at].on = m))
  <1>1. /\ q.at - 1 = r.at /\ r.at \in 1..(q.at - 1)
        /\ \A i \in 1..(q.at - 1) : i = r.at \/ i \in 1..(r.at - 1)
        /\ \A i \in 1..(r.at - 1) : i \in 1..(q.at - 1)
    <2>1. r.at \in Nat /\ r.at >= 1
      BY LayoutFacts DEF Records
    <2> QED  BY <2>1
  <1> QED  BY <1>1 DEF Replayed
-----------------------------------------------------------------------------
\* A statement's effects on the target.
Does(s, p, cap, whole) ==
  /\ flowing' = FlowingAfter(s.op)
  /\ history'.built = history.built \ ({s.on} \cap Models)
  /\ history'.unrecorded = history.unrecorded
  /\ s.op = "drop view" => live' = [live EXCEPT ![s.on] = 0]
  /\ s.op = "create view" => live' = [live EXCEPT ![s.on] = p.version[s.on]]
  /\ s.op \notin {"drop view", "create view"} => live' = live
  /\ s.op = "prepare landing" => rows' = rows \/ (~Present(Source) /\ rows' = [rows EXCEPT ![Source] = NoRows])
  /\ s.op = "create table" => ~Present(s.on) /\ rows' = [rows EXCEPT ![s.on] = NoRows]
  /\ s.op = "drop table" => rows' = [rows EXCEPT ![s.on] = None]
  /\ s.op = "replay" => \E new \in Part(cap, whole) : rows' = Inserted(s.on, Joined(s.on, new))
  /\ s.op \notin {"prepare landing", "create table", "drop table", "replay"} => rows' = rows

\* What tables may lack only grows, but for a table that is created.
Grows == \A m \in TableModels : history.left[m] \subseteq history'.left[m]

Leaves(s) ==
  /\ \A m \in TableModels \ {s.on} : history.left[m] \subseteq history'.left[m]
  /\ s.op # "create table" => Grows

LEMMA AppliedLeaves ==
  ASSUME NEW b \in Builders, NEW s, NEW now, history \in Histories, ChangeSource(b, s, now),
         s.op \in {"create table", "capture"} => s.on \in TableModels
  PROVE  history'.left = Left(b, s, now) /\ Leaves(s)
  <1> DEFINE new == Left(b, s, now)
  <1>1. history' = [history EXCEPT !.fed = @ \/ flowing', !.built = @ \ ({s.on} \cap Models),
                                   !.left = new]
    BY DEF ChangeSource
  <1>2. /\ \A m \in TableModels \ {s.on} : new[m] = history.left[m]
        /\ s.op # "create table" => \A m \in TableModels : history.left[m] \subseteq new[m]
    BY LeftFacts
  <1> HIDE DEF new
  <1>3. history'.left = new
    BY <1>1 DEF Histories
  <1>4. Leaves(s)
    BY <1>2, <1>3 DEF Leaves, Grows
  <1> QED  BY <1>3, <1>4 DEF new

LEMMA AppliedDoes ==
  ASSUME NEW b \in Builders, NEW s, NEW p, NEW cap, NEW whole \in BOOLEAN, history \in Histories,
         Works(b, s), NEW now, Apply(b, s, whole, now), p = build[b].plan, cap = build[b].captured
  PROVE  Does(s, p, cap, whole)
  <1>1. flowing' = FlowingAfter(s.op)
    BY DEF Apply, ChangeSource, FlowingAfter
  <1>2. /\ history'.built = history.built \ ({s.on} \cap Models)
        /\ history'.unrecorded = history.unrecorded
    <2> DEFINE new == Left(b, s, now)
    <2>1. history' = [history EXCEPT !.fed = @ \/ flowing', !.built = @ \ ({s.on} \cap Models),
                                     !.left = new]
      BY DEF Apply, ChangeSource
    <2> HIDE DEF new
    <2> QED  BY <2>1 DEF Histories
  <1>3. /\ s.op = "drop view" => live' = [live EXCEPT ![s.on] = 0]
        /\ s.op = "create view" => live' = [live EXCEPT ![s.on] = p.version[s.on]]
        /\ s.op \notin {"drop view", "create view"} => live' = live
    BY DEF Apply, ChangeViews
  <1>4. ChangeTables(b, s, whole)
    BY DEF Apply
  <1>5. s.op = "prepare landing" => rows' = rows \/ (~Present(Source) /\ rows' = [rows EXCEPT ![Source] = NoRows])
    BY <1>4 DEF ChangeTables
  <1>6. s.op = "create table" => ~Present(s.on) /\ rows' = [rows EXCEPT ![s.on] = NoRows]
    BY <1>4 DEF ChangeTables, Works
  <1>7. s.op = "drop table" => rows' = [rows EXCEPT ![s.on] = None]
    BY <1>4 DEF ChangeTables
  <1>8. s.op = "replay" => \E new \in Part(cap, whole) : rows' = Inserted(s.on, Joined(s.on, new))
    BY <1>4 DEF ChangeTables
  <1>9. s.op \notin {"prepare landing", "create table", "drop table", "replay"} => rows' = rows
    BY <1>4 DEF ChangeTables
  <1> QED  BY <1>1, <1>2, <1>3, <1>5, <1>6, <1>7, <1>8, <1>9 DEF Does

\* A table and its input that stay as they are.
LEMMA SameRows ==
  ASSUME rows \in Rows, rows' \in Rows, NEW m \in TableModels, rows'[m] = rows[m],
         rows'[Driving(m)] = rows[Driving(m)], Matches(m),
         history.left[m] \subseteq history'.left[m]
  PROVE  Matches(m)'
  <1>1. rows[m] \in Row /\ rows[Driving(m)] \in Row
    BY DrivingTable DEF Matches, Present, Rows, Tables
  <1>2. ASSUME NEW e \in Events, rows[m][e] = rows[Driving(m)][e]
        PROVE  rows[m][e] <= rows[Driving(m)][e]
    BY <1>1, <1>2, RowFacts
  <1>3. Present(m)' /\ Present(Driving(m))'
    BY DEF Matches, Present, Rows
  <1>4. ASSUME NEW e \in Events
        PROVE  IF Sides(m) = {} /\ e \notin history'.left[m] THEN rows[m][e] = rows[Driving(m)][e]
               ELSE rows[m][e] <= rows[Driving(m)][e]
    BY <1>2 DEF Matches
  <1> QED  BY <1>3, <1>4 DEF Matches
-----------------------------------------------------------------------------
\* One statement of a build: what it leaves of what is applied, and of what the build relies on.

\* A build that has done statement s of its plan, or a part of it.
AtHand(r, l, s, whole) ==
  /\ r.pc = "run" /\ r.at \in 1..Len(l.steps) /\ s = l.steps[r.at]
  /\ rows \in Rows /\ rows' \in Rows /\ live \in [Models -> Versions] /\ history.built \subseteq Models
  /\ s.op \in {"create table", "drop table", "capture", "replay"} => s.on \in TableModels
  /\ s.op = "replay" => r.captured \in Row
  /\ Going(r, l) /\ Does(s, l.plan, r.captured, whole) /\ Leaves(s)

\* A replay is an insert of rows.
LEMMA ReplayInserts ==
  ASSUME NEW l \in Layouts, NEW r \in Records, NEW s, NEW whole \in BOOLEAN, AtHand(r, l, s, whole),
         s.op = "replay"
  PROVE  \E new \in Row : /\ rows' = Inserted(s.on, Joined(s.on, new)) /\ Joined(s.on, new) \in Row
                          /\ whole => new = r.captured
  <1>1. PICK new \in Part(r.captured, whole) : rows' = Inserted(s.on, Joined(s.on, new))
    BY DEF AtHand, Does
  <1>2. r.captured \in Row
    BY DEF AtHand
  <1>3. new \in Row /\ (whole => new = r.captured)
    BY <1>2 DEF Part, Row
  <1>4. Joined(s.on, new) \in Row
    BY <1>3, JoinedTyped
  <1> QED  BY <1>1, <1>3, <1>4

\* A table that counts as applied keeps its input while its relations are torn
\* down: the scope is sealed, and what is in it no longer counts.
LEMMA BuiltKept ==
  ASSUME NEW l \in Layouts, NEW r \in Records, NEW s, NEW whole \in BOOLEAN, AtHand(r, l, s, whole),
         s.op = "drop table", NEW m \in history.built \ Views, live[m] # 0, m \in TableModels
  PROVE  Driving(m) # s.on
  <1> SUFFICES ASSUME Driving(m) = s.on PROVE FALSE
    OBVIOUS
  <1> DEFINE scope == l.plan.scope
             n == Len(l.steps)
             i == r.at
  <1>1. i \in 1..n /\ s = l.steps[i] /\ Going(r, l)
    BY DEF AtHand
  <1>2. s.on \in scope /\ i \in (l.prep + 1)..l.torn
    BY <1>1, ByOp
  <1>3. m \in scope
    BY <1>1, <1>2 DEF Going, Sealed
  <1>4. PICK k \in 1..(i - 1) : l.steps[k] = Statement("drop view", m)
    BY <1>1, <1>2, <1>3, LayoutFacts DEF Laid
  <1>5. l.steps[k].op = "drop view" /\ l.steps[k].on = m
    <2> DEFINE z == l.steps[k]
               w == Statement("drop view", m)
    <2>1. z = w
      BY <1>4
    <2>2. w.op = "drop view" /\ w.on = m
      BY StatementParts
    <2> HIDE DEF z, w
    <2>3. z.op = "drop view" /\ z.on = m
      BY <2>1, <2>2
    <2> QED  BY <2>3 DEF z
  <1>6. m \notin history.built
    BY <1>1, <1>5 DEF Going, Viewed
  <1> QED  BY <1>6

\* What counts as applied still stands after a statement.
LEMMA StandsOn ==
  ASSUME NEW l \in Layouts, NEW r \in Records, NEW s, NEW whole \in BOOLEAN, AtHand(r, l, s, whole),
         AppliedSingle, baseline' = baseline
  PROVE  AppliedSingle'
  <1>1. /\ history'.built = history.built \ ({s.on} \cap Models) /\ history'.unrecorded = history.unrecorded
        /\ history.built \subseteq Models /\ live \in [Models -> Versions]
        /\ rows \in Rows /\ rows' \in Rows
    BY DEF AtHand, Does
  <1>2. ASSUME NEW m \in history'.built
        PROVE  m \in history.built /\ m # s.on /\ live'[m] = live[m] /\ live[m] # 0
    <2>1. m \in history.built /\ m # s.on /\ m \in Models
      BY <1>1
    <2>2. live[m] # 0
      BY <2>1 DEF AppliedSingle
    <2>3. CASE s.op = "drop view"
      BY <1>1, <2>1, <2>2, <2>3 DEF AtHand, Does
    <2>4. CASE s.op = "create view"
      BY <1>1, <2>1, <2>2, <2>4 DEF AtHand, Does
    <2>5. CASE s.op \notin {"drop view", "create view"}
      BY <2>1, <2>2, <2>5 DEF AtHand, Does
    <2> QED  BY <2>3, <2>4, <2>5
  <1>3. ASSUME NEW m \in (history'.built \ Views) \cap Singles PROVE Matches(m)'
    <2>1. /\ m \in (history.built \ Views) \cap Singles /\ m \in TableModels /\ m # s.on
          /\ live[m] # 0 /\ Matches(m)
      BY <1>2 DEF Singles, AppliedSingle
    <2>l. history.left[m] \subseteq history'.left[m]
      BY <2>1 DEF AtHand, Leaves
    <2>2. /\ m \in Tables /\ Driving(m) \in Tables /\ m # Source /\ DOMAIN rows = Tables
          /\ Present(Driving(m))
      BY <1>1, <2>1, DrivingTable, ProjectFacts DEF Tables, Rows, Matches
    <2>3. CASE s.op = "replay"
      <3>1. PICK new \in Row : rows' = Inserted(s.on, Joined(s.on, new)) /\ Joined(s.on, new) \in Row
        BY <2>3, ReplayInserts
      <3>2. s.on \in Tables
        BY <2>3 DEF AtHand, Tables
      <3> QED  BY <1>1, <2>1, <2>l, <3>1, <3>2, InsertedMatches
    <2>4. CASE s.op = "prepare landing"
      <3>1. rows'[m] = rows[m] /\ rows'[Driving(m)] = rows[Driving(m)]
        BY <2>2, <2>4 DEF AtHand, Does
      <3> QED  BY <1>1, <2>1, <2>l, <3>1, SameRows
    <2>5. CASE s.op = "create table"
      <3>1. rows'[m] = rows[m] /\ rows'[Driving(m)] = rows[Driving(m)]
        BY <2>1, <2>2, <2>5 DEF AtHand, Does
      <3> QED  BY <1>1, <2>1, <2>l, <3>1, SameRows
    <2>6. CASE s.op = "drop table"
      <3>1. Driving(m) # s.on
        BY <2>1, <2>6, BuiltKept
      <3>2. rows'[m] = rows[m] /\ rows'[Driving(m)] = rows[Driving(m)]
        BY <2>1, <2>2, <2>6, <3>1 DEF AtHand, Does
      <3> QED  BY <1>1, <2>1, <2>l, <3>2, SameRows
    <2>7. CASE s.op \notin {"prepare landing", "create table", "drop table", "replay"}
      <3>1. rows' = rows
        BY <2>7 DEF AtHand, Does
      <3> QED  BY <1>1, <2>1, <2>l, <3>1, SameRows
    <2> QED  BY <2>3, <2>4, <2>5, <2>6, <2>7
  <1>4. \A m \in history'.built : live'[m] # 0
    BY <1>2
  <1>5. ASSUME NEW m \in history'.built \ history'.unrecorded PROVE baseline'[m] = live'[m]
    <2>1. m \in history.built \ history.unrecorded
      BY <1>1
    <2> QED  BY <1>2, <2>1 DEF AppliedSingle
  <1> QED  BY <1>3, <1>4, <1>5 DEF AppliedSingle

LEMMA SealedOn ==
  ASSUME NEW l \in Layouts, NEW r \in Records, NEW s, NEW whole \in BOOLEAN, AtHand(r, l, s, whole)
  PROVE  Sealed(l.plan.scope)'
  <1> SUFFICES ASSUME NEW c \in TableModels \ l.plan.scope, Driving(c) \in l.plan.scope
               PROVE  live'[c] = 0
    BY DEF Sealed
  <1>1. live[c] = 0 /\ c \in Models /\ live \in [Models -> Versions] /\ r.at \in 1..Len(l.steps)
        /\ s = l.steps[r.at]
    BY ProjectFacts DEF AtHand, Going, Sealed
  <1>2. CASE s.op = "drop view"
    BY <1>1, <1>2 DEF AtHand, Does
  <1>3. CASE s.op = "create view"
    <2>1. s.on \in l.plan.scope
      BY <1>1, <1>3, ByOp
    <2> QED  BY <1>1, <1>3, <2>1 DEF AtHand, Does
  <1>4. CASE s.op \notin {"drop view", "create view"}
    BY <1>1, <1>4 DEF AtHand, Does
  <1> QED  BY <1>2, <1>3, <1>4

LEMMA StillOn ==
  ASSUME NEW l \in Layouts, NEW r \in Records, NEW s, NEW whole \in BOOLEAN, AtHand(r, l, s, whole),
         NEW q \in Records, q.at = r.at + 1
  PROVE  Still(q, l)'
  <1> DEFINE n == Len(l.steps)
             st == l.steps
             bad == {"bootstrap", "activate"}
  <1>1. /\ r.at \in 1..n /\ s = st[r.at] /\ n \in Nat /\ r.pc = "run" /\ Still(r, l)
        /\ flowing' = FlowingAfter(s.op)
    BY LayoutFacts DEF AtHand, Going, Does
  <1> SUFFICES ASSUME NEW i \in 1..(q.at - 1), st[i].op = "pause",
                      \A k \in (i + 1)..(q.at - 1) : st[k].op \notin bad
               PROVE  ~flowing'
    BY DEF Still
  <1>2. /\ q.at - 1 = r.at /\ r.at <= n
        /\ i # r.at => i \in 1..(r.at - 1) /\ r.at \in (i + 1)..(q.at - 1)
        /\ \A k \in (i + 1)..(r.at - 1) : k \in (i + 1)..(q.at - 1)
    BY <1>1
  <1>3. CASE i = r.at
    BY <1>1, <1>3 DEF FlowingAfter
  <1>4. CASE i # r.at
    <2>1. s.op \notin bad
      BY <1>1, <1>2, <1>4
    <2>2. \A k \in (i + 1)..(r.at - 1) : st[k].op \notin bad
      BY <1>2
    <2> HIDE DEF bad, st, n
    <2>3. ~flowing
      BY <1>1, <1>2, <1>4, <2>2 DEF Still, bad, st, n
    <2> QED  BY <1>1, <2>1, <2>3 DEF FlowingAfter, bad
  <1> QED  BY <1>3, <1>4

LEMMA ViewedOn ==
  ASSUME NEW l \in Layouts, NEW r \in Records, NEW s, NEW whole \in BOOLEAN, AtHand(r, l, s, whole),
         NEW q \in Records, q.at \in {r.at, r.at + 1}
  PROVE  Viewed(q, l)'
  <1> DEFINE n == Len(l.steps)
             st == l.steps
  <1>1. /\ r.at \in 1..n /\ s = st[r.at] /\ n \in Nat /\ Viewed(r, l) /\ live \in [Models -> Versions]
        /\ history'.built = history.built \ ({s.on} \cap Models)
    BY LayoutFacts DEF AtHand, Going, Does
  <1> SUFFICES ASSUME NEW i \in 1..(q.at - 1)
               PROVE  /\ st[i].op = "create view" => live'[st[i].on] = l.plan.version[st[i].on]
                      /\ st[i].op = "drop view" => st[i].on \notin history'.built
    BY DEF Viewed
  <1>2. i \in 1..n /\ (i = r.at \/ i \in 1..(r.at - 1)) /\ i <= r.at
    BY <1>1
  <1>3. st[i].op \in {"create view", "drop view"} => st[i].on \in Models
    BY <1>2, ByOp, LayoutFacts
  <1>4. ASSUME st[i].op = "drop view" PROVE st[i].on \notin history'.built
    <2>1. CASE i = r.at
      BY <1>1, <1>3, <1>4, <2>1
    <2>2. CASE i \in 1..(r.at - 1)
      BY <1>1, <1>4, <2>2 DEF Viewed
    <2> QED  BY <1>2, <2>1, <2>2
  <1>5. ASSUME st[i].op = "create view" PROVE live'[st[i].on] = l.plan.version[st[i].on]
    <2>1. CASE i = r.at
      <3>1. live' = [live EXCEPT ![s.on] = l.plan.version[s.on]] /\ s.on \in Models
        BY <1>1, <1>3, <1>5, <2>1 DEF AtHand, Does
      <3> QED  BY <1>1, <2>1, <3>1
    <2>2. CASE i \in 1..(r.at - 1)
      <3>1. live[st[i].on] = l.plan.version[st[i].on] /\ st[i].on \in Models
        BY <1>1, <1>3, <1>5, <2>2 DEF Viewed
      <3>2. l.torn < r.at
        <4>1. l.torn < i /\ l.torn \in Nat
          BY <1>2, <1>5, ByOp, LayoutFacts
        <4> QED  BY <1>1, <1>2, <4>1
      <3>3. s.op # "drop view"
        BY <1>1, <3>2, ByOp
      <3>4. CASE s.op = "create view"
        BY <1>1, <3>1, <3>4 DEF AtHand, Does
      <3>5. CASE s.op # "create view"
        BY <3>1, <3>3, <3>5 DEF AtHand, Does
      <3> QED  BY <3>4, <3>5
    <2> QED  BY <1>2, <2>1, <2>2
  <1> QED  BY <1>4, <1>5

\* The positions up to the next.
LEMMA UpTo ==
  ASSUME NEW n \in Nat, NEW a \in 1..n, NEW c, c = a + 1, NEW i \in 1..(c - 1)
  PROVE  /\ i \in 1..n /\ (i = a \/ i \in 1..(a - 1)) /\ i <= a
         /\ \A m \in Nat : c <= m + 1 => a <= m /\ a <= m + 1
         /\ \A m \in Nat : m < i => m < a
  OBVIOUS

\* The statements on tables are on the tables of models.
LEMMA OnTables ==
  ASSUME NEW l \in Layouts, NEW i \in 1..Len(l.steps),
         l.steps[i].op \in {"create table", "drop table", "capture", "replay"}
  PROVE  l.steps[i].on \in TableModels
  <1>1. Assembled(l.plan, l.steps)
    BY LayoutFacts DEF Laid
  <1>2. i # Len(l.steps)
    <2>3. i = Len(l.steps) => l.steps[i] = Statement("activate", Source)
      BY LayoutFacts DEF Parts
    <2>4. Statement("activate", Source).op = "activate"
      BY StatementParts
    <2> QED  BY <2>3, <2>4
  <1>3. Placed(l.plan, l.steps, i)
    BY <1>1, <1>2 DEF Assembled
  <1> QED  BY <1>3 DEF Placed

LEMMA EmptiedOn ==
  ASSUME NEW l \in Layouts, NEW r \in Records, NEW s, NEW whole \in BOOLEAN, AtHand(r, l, s, whole),
         NEW q \in Records, q.at = r.at + 1
  PROVE  Emptied(q, l)'
  <1> DEFINE n == Len(l.steps)
             st == l.steps
  <1>1. /\ r.at \in 1..n /\ s = st[r.at] /\ n \in Nat /\ r.pc = "run" /\ Emptied(r, l)
        /\ rows \in Rows /\ rows' \in Rows /\ DOMAIN rows = Tables /\ l.made \in Nat /\ l.torn \in Nat
    BY LayoutFacts DEF AtHand, Going, Rows
  <1> SUFFICES ASSUME q.at <= l.made + 1, NEW i \in 1..(q.at - 1), st[i].op = "create table"
               PROVE  rows'[st[i].on] = NoRows
    BY DEF Emptied
  <1>2. /\ i \in 1..n /\ (i = r.at \/ i \in 1..(r.at - 1)) /\ r.at <= l.made /\ r.at <= l.made + 1
        /\ i <= r.at
    <2> HIDE DEF n, st
    <2> QED  BY <1>1, UpTo
  <1>3. st[i].on \in l.plan.scope /\ l.torn < i
    BY <1>2, ByOp
  <1>4. s.op \notin {"capture", "replay", "activate"}
    BY <1>1, <1>2, ByOp
  <1>5. CASE i = r.at
    <2>1. rows' = [rows EXCEPT ![s.on] = NoRows] /\ s.on \in Tables
      BY <1>1, <1>5 DEF AtHand, Does, Tables
    <2> QED  BY <1>1, <1>5, <2>1
  <1>6. CASE i \in 1..(r.at - 1)
    <2>1. rows[st[i].on] = NoRows
      BY <1>1, <1>2, <1>6 DEF Emptied
    <2>2. s.op # "drop table"
      <3>1. l.torn < r.at
        <4> HIDE DEF n, st
        <4> QED  BY <1>1, <1>3, UpTo
      <3> QED  BY <1>1, <3>1, ByOp
    <2>3. st[i].on # Source /\ st[i].on \in Tables
      BY <1>2, <1>3, LayoutFacts, OnTables DEF Tables
    <2>4. CASE s.op = "create table"
      <3>1. rows' = [rows EXCEPT ![s.on] = NoRows] /\ s.on \in Tables
        BY <2>4 DEF AtHand, Does, Tables
      <3> QED  BY <1>1, <2>1, <2>3, <3>1
    <2>5. CASE s.op = "prepare landing"
      <3>1. rows' = rows \/ rows' = [rows EXCEPT ![Source] = NoRows]
        BY <2>5 DEF AtHand, Does
      <3> QED  BY <1>1, <2>1, <2>3, <3>1
    <2>6. CASE s.op \notin {"prepare landing", "create table"}
      <3>1. rows' = rows
        BY <1>4, <2>2, <2>6 DEF AtHand, Does
      <3> QED  BY <2>1, <3>1
    <2> QED  BY <2>4, <2>5, <2>6
  <1> QED  BY <1>2, <1>5, <1>6

\* When all is made, every table and its input are empty.
LEMMA EmptyMatches ==
  ASSUME rows' \in Rows, NEW m \in TableModels, rows'[m] = NoRows, rows'[Driving(m)] = NoRows
  PROVE  Matches(m)'
  <1>1. NoRows # None /\ m \in Tables /\ Driving(m) \in Tables /\ DOMAIN rows' = Tables
    BY RowFacts, DrivingTable DEF Tables, Rows
  <1>2. Present(m)' /\ Present(Driving(m))'
    BY <1>1 DEF Present
  <1>3. \A e \in Events : NoRows[e] <= NoRows[e]
    BY DEF NoRows
  <1> QED  BY <1>2, <1>3 DEF Matches

\* Or the realization is just complete.
LEMMA JustMade ==
  ASSUME NEW a \in Nat, NEW c \in Nat, NEW d, d \in {c, c + 1}, d > a, ~(c > a)
  PROVE  d = c + 1 /\ d = a + 1
  OBVIOUS

LEMMA FollowingOn ==
  ASSUME NEW l \in Layouts, NEW r \in Records, NEW s, NEW whole \in BOOLEAN, AtHand(r, l, s, whole),
         NEW q \in Records, q.at \in {r.at, r.at + 1}, q.at = r.at + 1 => q.pc = "run" /\ Emptied(q, l)'
  PROVE  Following(q, l)'
  <1> DEFINE scope == l.plan.scope
  <1>1. /\ r.at \in 1..Len(l.steps) /\ s = l.steps[r.at] /\ rows \in Rows /\ rows' \in Rows
        /\ l.made \in Nat /\ r.at \in Nat /\ scope \in SUBSET Models
        /\ l.roots = {m \in scope \ Views : Driving(m) \notin scope}
        /\ Following(r, l) /\ Viewed(r, l)
    BY LayoutFacts DEF AtHand, Going, Records
  <1> SUFFICES ASSUME q.at > l.made, NEW m \in (scope \ (Views \cup l.roots)) \cap Singles
               PROVE  Matches(m)'
    BY DEF Following
  <1>2. m \in TableModels /\ m \in scope /\ Driving(m) \in scope
    BY <1>1 DEF Singles
  <1>3. CASE r.at > l.made
    <2>1. Matches(m) /\ live[m] # 0
      BY <1>1, <1>2, <1>3, AllViewed DEF Following
    <2>2. s.op \in {"capture", "replay", "activate"}
      <3>1. l.made < r.at
        BY <1>1, <1>3
      <3> QED  BY <1>1, <3>1, ByOp
    <2>l. history.left[m] \subseteq history'.left[m]
      BY <1>2, <2>2 DEF AtHand, Leaves, Grows
    <2>3. CASE s.op = "replay"
      <3>1. s.on \in l.roots \/ (Driving(s.on) # Source /\ Sides(s.on) \cap Models # {})
        BY <1>1, <2>3, ByOp
      <3>2. m # s.on
        BY <1>2, <3>1, LayoutFacts DEF Singles
      <3>3. PICK new \in Row : rows' = Inserted(s.on, Joined(s.on, new)) /\ Joined(s.on, new) \in Row
        BY <2>3, ReplayInserts
      <3>4. s.on \in Tables
        BY <2>3 DEF AtHand, Tables
      <3> QED  BY <1>1, <1>2, <2>1, <2>l, <3>2, <3>3, <3>4, InsertedMatches
    <2>4. CASE s.op # "replay"
      <3>1. rows' = rows
        BY <2>2, <2>4 DEF AtHand, Does
      <3> QED  BY <1>1, <1>2, <2>1, <2>l, <3>1, SameRows
    <2> QED  BY <2>3, <2>4
  <1>4. CASE ~(r.at > l.made)
    <2>1. q.at = r.at + 1 /\ q.at = l.made + 1
      BY <1>1, <1>4, JustMade
    <2>2. \A x \in scope \ Views : rows'[x] = NoRows
      BY <2>1, AllEmpty
    <2>3. Driving(m) \in scope \ Views
      BY <1>1, <1>2, DrivingTable, LayoutFacts DEF Tables, TableModels
    <2> QED  BY <1>1, <1>2, <2>2, <2>3, EmptyMatches
  <1> QED  BY <1>3, <1>4

LEMMA RefilledOn ==
  ASSUME NEW l \in Layouts, NEW r \in Records, NEW s, NEW whole \in BOOLEAN, AtHand(r, l, s, whole),
         NEW q \in Records,
         \/ q.at = r.at /\ q.pc # "run"
         \/ q.at = r.at + 1 /\ q.pc = "run" /\ Emptied(q, l)' /\ whole
  PROVE  Refilled(q, l)'
  <1> DEFINE scope == l.plan.scope
  <1>1. /\ r.at \in 1..Len(l.steps) /\ s = l.steps[r.at] /\ rows \in Rows /\ rows' \in Rows
        /\ l.made \in Nat /\ r.at \in Nat /\ scope \in SUBSET Models
        /\ l.roots = {m \in scope \ Views : Driving(m) \notin scope}
        /\ Refilled(r, l) /\ Viewed(r, l) /\ Sealed(scope) /\ Bounded(r, l) /\ r.pc = "run"
    BY LayoutFacts DEF AtHand, Going, Records
  <1> SUFFICES ASSUME q.at > l.made, NEW m \in l.roots
               PROVE  IF Replayed(q, l, m) THEN Matches(m)' ELSE q.pc = "run" => rows'[m] = NoRows
    BY DEF Refilled
  <1>2. m \in TableModels /\ m \in scope /\ Driving(m) \notin scope
    BY <1>1, LayoutFacts
  <1>3. CASE r.at > l.made
    <2>1. /\ IF Replayed(r, l, m) THEN Matches(m) ELSE rows[m] = NoRows
          /\ live[m] # 0
      BY <1>1, <1>2, <1>3, AllViewed DEF Refilled
    <2>2. s.op \in {"capture", "replay", "activate"}
      <3>1. l.made < r.at
        BY <1>1, <1>3
      <3> QED  BY <1>1, <3>1, ByOp
    <2>l. history.left[m] \subseteq history'.left[m]
      BY <1>2, <2>2 DEF AtHand, Leaves, Grows
    <2>3. q.at = r.at => (Replayed(q, l, m) <=> Replayed(r, l, m))
      BY DEF Replayed
    <2>4. q.at = r.at + 1 => (Replayed(q, l, m) <=> (Replayed(r, l, m) \/ (s.op = "replay" /\ s.on = m)))
      BY <1>1, ReplayedNext
    <2>5. CASE s.op # "replay"
      <3>1. rows' = rows
        BY <2>2, <2>5 DEF AtHand, Does
      <3>2. Matches(m) => Matches(m)'
        BY <1>1, <1>2, <2>l, <3>1, SameRows
      <3> QED  BY <2>1, <2>3, <2>4, <2>5, <3>1, <3>2
    <2>6. CASE s.op = "replay"
      <3>1. PICK new \in Row : /\ rows' = Inserted(s.on, Joined(s.on, new)) /\ Joined(s.on, new) \in Row
                               /\ whole => new = r.captured
        BY <2>6, ReplayInserts
      <3>2. s.on \in Tables /\ s.on \in scope
        <4>1. s.on \in scope \ Views
          BY <1>1, <2>6, ByOp
        <4> QED  BY <2>6, <4>1 DEF AtHand, Tables
      <3>3. CASE s.on = m
        <4>1. ~Replayed(r, l, m)
          BY <1>1, <2>6, <3>3, ReplayedOnce
        <4>2. CASE q.at = r.at /\ q.pc # "run"
          BY <2>3, <4>1, <4>2
        <4>3. CASE q.at = r.at + 1 /\ whole
          <5>1. rows[m] = NoRows /\ Replayed(q, l, m)
            BY <2>1, <2>4, <2>6, <3>3, <4>1, <4>3
          <5>2. Covers(r.captured, m)
            <6>1. r.at <= Len(l.steps)
              BY <1>1, LayoutFacts
            <6> QED  BY <1>1, <2>6, <3>3, <6>1 DEF Bounded
          <5>3. Covers(new, m)
            BY <3>1, <4>3, <5>2
          <5>4. Matches(m)'
            BY <1>1, <1>2, <2>l, <3>1, <3>3, <5>1, <5>3, InsertedRoot
          <5> QED  BY <5>1, <5>4
        <4> QED  BY <4>2, <4>3
      <3>4. CASE s.on # m
        <4>1. Matches(m) => Matches(m)'
          BY <1>1, <1>2, <2>1, <2>l, <3>1, <3>2, <3>4, InsertedMatches
        <4>2. rows[m] = NoRows => rows'[m] = NoRows
          BY <1>1, <1>2, <3>1, <3>2, <3>4, InsertedElsewhere
        <4> QED  BY <2>1, <2>3, <2>4, <3>4, <4>1, <4>2
      <3> QED  BY <3>3, <3>4
    <2> QED  BY <2>5, <2>6
  <1>4. CASE ~(r.at > l.made)
    <2>1. q.at = r.at + 1 /\ q.at = l.made + 1 /\ q.pc = "run" /\ Emptied(q, l)'
      <3>1. q.at \in {r.at, r.at + 1}
        OBVIOUS
      <3>2. q.at = r.at + 1 /\ q.at = l.made + 1
        BY <1>1, <1>4, <3>1, JustMade
      <3>3. r.at + 1 # r.at
        BY <1>1
      <3> QED  BY <3>2, <3>3
    <2>2. rows'[m] = NoRows
      BY <1>1, <2>1, AllEmpty
    <2>3. ~Replayed(q, l, m)
      <3> SUFFICES ASSUME NEW i \in 1..(q.at - 1), l.steps[i].op = "replay" PROVE FALSE
        BY DEF Replayed
      <3>1. i \in 1..Len(l.steps) /\ i <= l.made
        BY <1>1, <2>1, LayoutFacts
      <3> QED  BY <3>1, ByOp
    <2> QED  BY <2>2, <2>3
  <1> QED  BY <1>3, <1>4

\* A boundary covers the input it is read from, once what it leaves out is noted.
Captured(c, m) ==
  /\ Present(Driving(m))
  /\ \A e \in Events : /\ c[e] <= rows[Driving(m)][e]
                       /\ e \notin history'.left[m] => c[e] = rows[Driving(m)][e]

LEMMA BoundedOn ==
  ASSUME NEW l \in Layouts, NEW r \in Records, NEW s, NEW whole \in BOOLEAN, AtHand(r, l, s, whole),
         NEW q \in Records, q.at = r.at + 1, s.op = "capture" => Captured(q.captured, s.on)
  PROVE  Bounded(q, l)'
  <1> DEFINE st == l.steps
             n == Len(st)
             j == q.at
  <1>1. r.at \in 1..n /\ s = st[r.at] /\ n \in Nat /\ Assembled(l.plan, st) /\ l.made \in Nat
    BY LayoutFacts DEF AtHand, Laid
  <1> SUFFICES ASSUME q.at <= n, st[q.at].op = "replay"
               PROVE  Covers(q.captured, st[q.at].on)'
    BY DEF Bounded
  <1>2. j \in 1..n /\ j - 1 = r.at
    BY <1>1
  <1>3. j # n
    <2>1. j \in (l.made + 1)..(n - 1)
      BY <1>2, ByOp
    <2> HIDE DEF j, n
    <2> QED  BY <1>1, <2>1
  <1>4. Placed(l.plan, st, j)
    <2> HIDE DEF j, st
    <2> QED  BY <1>1, <1>2, <1>3 DEF Assembled, n
  <1>5. st[j - 1] = Statement("capture", st[j].on)
    <2> HIDE DEF j, st
    <2> QED  BY <1>4 DEF Placed, j, st
  <1>6. s.op = "capture" /\ s.on = st[j].on
    <2> DEFINE w == Statement("capture", st[j].on)
    <2>1. w.op = "capture" /\ w.on = st[j].on
      BY StatementParts
    <2>2. s = w
      BY <1>1, <1>2, <1>5
    <2> HIDE DEF w, j, st
    <2> QED  BY <2>1, <2>2
  <1>7. rows' = rows
    BY <1>6 DEF AtHand, Does
  <1>8. Captured(q.captured, st[q.at].on)
    BY <1>6
  <1> HIDE DEF st
  <1> QED  BY <1>7, <1>8 DEF Captured, Covers, Present

\* A statement that ran, and one that failed with its effect or a part of it.
LEMMA RunGoing ==
  ASSUME NEW l \in Layouts, NEW r \in Records, NEW s, AtHand(r, l, s, TRUE),
         NEW q \in Records, q.at = r.at + 1, q.pc = "run", s.op = "capture" => Captured(q.captured, s.on)
  PROVE  Going(q, l)'
  <1>1. Sealed(l.plan.scope)' /\ Still(q, l)'
    BY SealedOn, StillOn
  <1>2. Viewed(q, l)' /\ Emptied(q, l)'
    BY ViewedOn, EmptiedOn
  <1>3. Following(q, l)' /\ Refilled(q, l)'
    BY <1>2, FollowingOn, RefilledOn
  <1>4. Bounded(q, l)'
    BY BoundedOn
  <1> QED  BY <1>1, <1>2, <1>3, <1>4 DEF Going

LEMMA FailGoing ==
  ASSUME NEW l \in Layouts, NEW r \in Records, NEW s, NEW whole \in BOOLEAN, AtHand(r, l, s, whole),
         NEW q \in Records, q.at = r.at, q.pc # "run"
  PROVE  Going(q, l)'
  <1>1. Sealed(l.plan.scope)' /\ Viewed(q, l)'
    BY SealedOn, ViewedOn
  <1>2. q.at # r.at + 1
    <2>1. r.at \in Nat
      BY DEF Records
    <2> QED  BY <2>1
  <1>3. Following(q, l)' /\ Refilled(q, l)'
    BY <1>2, FollowingOn, RefilledOn
  <1>4. Still(q, l)' /\ Emptied(q, l)' /\ Bounded(q, l)'
    BY DEF Still, Emptied, Bounded
  <1> QED  BY <1>1, <1>3, <1>4 DEF Going
-----------------------------------------------------------------------------
\* The steps of the world and of the builders.

\* Steps that leave the tables and the views alone.
LEMMA SameStands ==
  ASSUME DirectInv, DirectInv', AppliedSingle, rows' = rows, live' = live, baseline' = baseline,
         history'.built = history.built, history'.unrecorded = history.unrecorded,
         history'.left = history.left
  PROVE  AppliedSingle'
  <1>1. rows \in Rows /\ rows' \in Rows
    BY DEF DirectInv, Typed, TargetTyped
  <1>2. ASSUME NEW m \in (history'.built \ Views) \cap Singles PROVE Matches(m)'
    <2>1. m \in TableModels /\ Matches(m)
      BY DEF AppliedSingle, Singles
    <2> QED  BY <1>1, <2>1, SameRows
  <1> QED  BY <1>2 DEF AppliedSingle

LEMMA SameGoing ==
  ASSUME rows \in Rows, rows' = rows, live' = live, history'.built = history.built,
         history'.left = history.left, NEW l \in Layouts, NEW r \in Records, NEW q \in Records, q.at = r.at, q.captured = r.captured,
         q.pc = "run" => r.pc = "run" /\ flowing' = flowing, Going(r, l)
  PROVE  Going(q, l)'
  <1>1. \A m \in TableModels : Matches(m) => Matches(m)'
    BY SameRows
  <1>2. Sealed(l.plan.scope)' /\ Still(q, l)'
    BY DEF Going, Sealed, Still
  <1>3. Viewed(q, l)' /\ Emptied(q, l)'
    BY DEF Going, Viewed, Emptied
  <1>4. Following(q, l)'
    BY <1>1 DEF Going, Following, Singles
  <1>5. Refilled(q, l)'
    <2> SUFFICES ASSUME q.at > l.made, NEW m \in l.roots
                 PROVE  IF Replayed(q, l, m) THEN Matches(m)' ELSE q.pc = "run" => rows'[m] = NoRows
      BY DEF Refilled
    <2>1. m \in TableModels
      BY LayoutFacts
    <2>2. Replayed(q, l, m) <=> Replayed(r, l, m)
      BY DEF Replayed
    <2> QED  BY <1>1, <2>1, <2>2 DEF Going, Refilled
  <1>6. Bounded(q, l)'
    BY DEF Going, Bounded, Covers, Present
  <1> QED  BY <1>2, <1>3, <1>4, <1>5, <1>6 DEF Going

\* A build at its first statement.
LEMMA FreshGoing ==
  ASSUME NEW l \in Layouts, NEW q \in Records, q.at = 1, Sealed(l.plan.scope)'
  PROVE  Going(q, l)'
  <1>1. ~ (\E i \in 1..(q.at - 1) : TRUE)
    OBVIOUS
  <1>2. ~ (q.at > l.made)
    <2>1. l.prep \in Nat /\ l.torn \in Nat /\ l.made \in Nat /\ 1 <= l.prep /\ l.prep <= l.torn /\ l.torn <= l.made
      BY LayoutFacts
    <2> QED  BY <2>1
  <1>3. Still(q, l)' /\ Viewed(q, l)' /\ Emptied(q, l)'
    BY <1>1 DEF Still, Viewed, Emptied
  <1>4. Following(q, l)' /\ Refilled(q, l)'
    BY <1>2 DEF Following, Refilled
  <1>5. Bounded(q, l)'
    <2>1. l.steps[1].op # "replay"
      <3>1. 1 \in 1..Len(l.steps) /\ 1 <= l.made
        <4>1. /\ l.prep \in Nat /\ l.torn \in Nat /\ l.made \in Nat /\ 1 <= l.prep
              /\ l.prep <= l.torn /\ l.torn <= l.made /\ l.made + 1 <= Len(l.steps) /\ Len(l.steps) \in Nat
          BY LayoutFacts
        <4> QED  BY <4>1
      <3> QED  BY <3>1, ByOp
    <2> QED  BY <2>1 DEF Bounded
  <1> QED  BY <1>3, <1>4, <1>5 DEF Going

\* Positions before the teardown.
LEMMA Earlier ==
  ASSUME NEW p \in Nat, NEW m \in Nat, NEW n \in Nat, NEW a \in Nat, p <= m, m + 1 <= n,
         a <= p \/ a > n
  PROVE  /\ a <= m + 1 => \A i \in 1..(a - 1) : i \in 1..n /\ i <= p
         /\ a <= n => a <= p
         /\ a \in 1..(n + 1) /\ a <= n => a \in 1..n
  OBVIOUS

\* An event that lands: only while the source flows.
LEMMA LandGoing ==
  ASSUME rows \in Rows, rows' \in Rows, NEW new \in Row, rows' = Inserted(Source, new), live' = live,
         flowing, flowing' = flowing, history' = history, NEW l \in Layouts, NEW r \in Records,
         r.at \in 1..(Len(l.steps) + 1), Going(r, l)
  PROVE  Going(r, l)'
  <1>0. /\ l.prep \in Nat /\ l.torn \in Nat /\ l.made \in Nat /\ l.prep <= l.torn /\ l.torn <= l.made
        /\ l.prep <= l.made /\ l.made + 1 <= Len(l.steps) /\ Len(l.steps) \in Nat /\ r.at \in Nat
    BY LayoutFacts DEF Records
  <1>1. r.pc = "run" => r.at <= l.prep \/ r.at > Len(l.steps)
    <2>1. ~(l.prep < r.at /\ r.at <= Len(l.steps)) \/ r.pc # "run"
      BY NotFlowing DEF Going
    <2> QED  BY <1>0, <2>1
  <1>2. ASSUME NEW m \in TableModels, live[m] # 0, Matches(m) PROVE Matches(m)'
    <2>1. m # Source /\ Source \in Tables
      BY ProjectFacts
    <2> QED  BY <1>2, <2>1, InsertedMatches
  <1>3. Sealed(l.plan.scope)' /\ Still(r, l)' /\ Viewed(r, l)'
    BY DEF Going, Sealed, Still, Viewed
  <1>4. Emptied(r, l)'
    <2> SUFFICES ASSUME r.pc = "run", r.at <= l.made + 1, NEW i \in 1..(r.at - 1),
                        l.steps[i].op = "create table"
                 PROVE  FALSE
      BY DEF Emptied
    <2>1. i \in 1..Len(l.steps) /\ i <= l.prep
      <3> DEFINE p == l.prep
                 m == l.made
                 n == Len(l.steps)
                 a == r.at
      <3>1. /\ p \in Nat /\ m \in Nat /\ n \in Nat /\ a \in Nat /\ p <= m /\ m + 1 <= n
            /\ a <= p \/ a > n
        BY <1>0, <1>1
      <3>2. a <= m + 1 /\ i \in 1..(a - 1)
        OBVIOUS
      <3> HIDE DEF p, m, n, a
      <3>3. i \in 1..n /\ i <= p
        BY <3>1, <3>2, Earlier
      <3> QED  BY <3>3 DEF p, n
    <2>2. l.steps[i].op \in PrepOps
      BY <2>1, ByOp
    <2> QED  BY <2>2 DEF PrepOps
  <1>5. Following(r, l)'
    <2> SUFFICES ASSUME r.at > l.made, NEW m \in (l.plan.scope \ (Views \cup l.roots)) \cap Singles
                 PROVE  Matches(m)'
      BY DEF Following
    <2>1. Matches(m) /\ live[m] # 0 /\ m \in TableModels
      BY AllViewed DEF Going, Following, Singles
    <2> QED  BY <1>2, <2>1
  <1>6. Refilled(r, l)'
    <2> SUFFICES ASSUME r.at > l.made, NEW m \in l.roots
                 PROVE  IF Replayed(r, l, m) THEN Matches(m)' ELSE r.pc # "run"
      BY DEF Refilled
    <2>1. m \in TableModels /\ m \in l.plan.scope
      BY LayoutFacts
    <2>2. CASE Replayed(r, l, m)
      <3>1. Matches(m) /\ live[m] # 0
        BY <2>1, <2>2, AllViewed DEF Going, Refilled
      <3> QED  BY <1>2, <2>1, <2>2, <3>1
    <2>3. CASE ~Replayed(r, l, m)
      <3>1. ~(r.at > Len(l.steps))
        BY <2>3, RootsDone
      <3>2. ~(r.at <= l.prep)
        BY <1>0
      <3> QED  BY <1>1, <2>3, <3>1, <3>2
    <2> QED  BY <2>2, <2>3
  <1>7. Bounded(r, l)'
    <2> SUFFICES ASSUME r.pc = "run", r.at <= Len(l.steps), l.steps[r.at].op = "replay" PROVE FALSE
      BY DEF Bounded
    <2>1. r.at <= l.prep /\ r.at \in 1..Len(l.steps)
      <3> DEFINE p == l.prep
                 m == l.made
                 n == Len(l.steps)
                 a == r.at
      <3>1. /\ p \in Nat /\ m \in Nat /\ n \in Nat /\ a \in Nat /\ p <= m /\ m + 1 <= n
            /\ a <= p \/ a > n
        BY <1>0, <1>1
      <3>2. a <= n /\ a \in 1..(n + 1)
        OBVIOUS
      <3> HIDE DEF p, m, n, a
      <3>3. a <= p /\ a \in 1..n
        BY <3>1, <3>2, Earlier
      <3> QED  BY <3>3 DEF p, n, a
    <2>2. l.steps[r.at].op \in PrepOps
      BY <2>1, ByOp
    <2> QED  BY <2>2 DEF PrepOps
  <1> QED  BY <1>3, <1>4, <1>5, <1>6, <1>7 DEF Going

\* What the step of a builder that has the lock, or takes it, must see to.
LEMMA KeptAlone ==
  ASSUME DirectInv, AppliedInv, NEW b \in Builders, lock \in {b, None}, NEW q \in Records,
         build' = [build EXCEPT ![b] = q], AppliedSingle',
         q.pc # "idle" => \E l \in Layouts : /\ l.plan = q.plan /\ l.steps = q.steps
                                             /\ q.pc \in Busy => Going(q, l)'
  PROVE  AppliedInv'
  <1>1. build'[b] = q /\ \A c \in Builders \ {b} : build'[c] = build[c]
    BY DEF DirectInv
  <1>2. \A c \in Builders \ {b} : build[c].pc \notin Busy
    BY BoundsAssumption DEF DirectInv, Locked
  <1>3. Keeping(b)'
    <2> SUFFICES ASSUME q.pc # "idle"
                 PROVE  \E l \in Layouts : \E r \in Records :
                          /\ r = build'[b] /\ l.plan = r.plan /\ l.steps = r.steps
                          /\ r.pc \in Busy => Going(r, l)'
      BY <1>1 DEF Keeping
    <2>1. PICK l \in Layouts : /\ l.plan = q.plan /\ l.steps = q.steps
                               /\ q.pc \in Busy => Going(q, l)'
      OBVIOUS
    <2> WITNESS l \in Layouts
    <2> WITNESS q \in Records
    <2> QED  BY <1>1, <2>1
  <1>4. ASSUME NEW c \in Builders \ {b} PROVE Keeping(c)'
    <2> SUFFICES ASSUME build[c].pc # "idle"
                 PROVE  \E l \in Layouts : \E r \in Records :
                          /\ r = build'[c] /\ l.plan = r.plan /\ l.steps = r.steps
                          /\ r.pc \in Busy => Going(r, l)'
      BY <1>1 DEF Keeping
    <2>1. PICK l \in Layouts : \E r \in Records :
                 r = build[c] /\ l.plan = r.plan /\ l.steps = r.steps
      BY DEF AppliedInv, Keeping
    <2>2. PICK r \in Records : r = build[c] /\ l.plan = r.plan /\ l.steps = r.steps
      BY <2>1
    <2> WITNESS l \in Layouts
    <2> WITNESS r \in Records
    <2> QED  BY <1>1, <1>2, <2>2
  <1> QED  BY <1>3, <1>4 DEF AppliedInv

\* A builder with a plan: its record and the layout of its plan.
LEMMA HasLayout ==
  ASSUME AppliedInv, NEW b \in Builders, build[b].pc # "idle"
  PROVE  \E l \in Layouts : \E r \in Records :
           /\ r = build[b] /\ l.plan = r.plan /\ l.steps = r.steps
           /\ r.pc \in Busy => Going(r, l)
  BY DEF AppliedInv, Keeping

\* A builder that does not move keeps to its plan if what it relies on stays.
LEMMA Keeps ==
  ASSUME AppliedInv, NEW c \in Builders, build'[c] = build[c],
         \A l \in Layouts, r \in Records :
           (r = build[c] /\ l.plan = r.plan /\ l.steps = r.steps /\ r.pc \in Busy /\ Going(r, l))
             => Going(r, l)'
  PROVE  Keeping(c)'
  <1> SUFFICES ASSUME build[c].pc # "idle"
               PROVE  \E l \in Layouts : \E r \in Records :
                        /\ r = build'[c] /\ l.plan = r.plan /\ l.steps = r.steps
                        /\ r.pc \in Busy => Going(r, l)'
    BY DEF Keeping
  <1>1. PICK l \in Layouts : \E r \in Records : /\ r = build[c] /\ l.plan = r.plan /\ l.steps = r.steps
                                                /\ r.pc \in Busy => Going(r, l)
    BY HasLayout
  <1>2. PICK r \in Records : /\ r = build[c] /\ l.plan = r.plan /\ l.steps = r.steps
                             /\ r.pc \in Busy => Going(r, l)
    BY <1>1
  <1> WITNESS l \in Layouts
  <1> WITNESS r \in Records
  <1> QED  BY <1>2

\* Steps that leave the target and what counts as applied alone.
LEMMA QuietApplied ==
  ASSUME DirectInv, DirectInv', AppliedInv,
         UNCHANGED <<flowing, rows, live, baseline, build, history>>
  PROVE  AppliedInv'
  <1>1. rows \in Rows
    BY DEF DirectInv, Typed, TargetTyped
  <1>2. AppliedSingle'
    BY SameStands DEF AppliedInv
  <1>3. ASSUME NEW c \in Builders PROVE Keeping(c)'
    <2>1. \A l \in Layouts, r \in Records : Going(r, l) => Going(r, l)'
      BY <1>1, SameGoing
    <2> QED  BY <2>1, Keeps
  <1> QED  BY <1>2, <1>3 DEF AppliedInv

LEMMA LandApplied ==
  ASSUME DirectInv, DirectInv', AppliedInv, Land PROVE AppliedInv'
  <1>1. rows \in Rows /\ rows' \in Rows /\ offset + 1 \in Nat
    <2>1. offset \in 0..topic /\ topic \in 0..MaxEvents
      BY DEF DirectInv, Typed
    <2>2. offset + 1 \in Nat
      BY <2>1, BoundsAssumption
    <2> QED  BY <2>2 DEF DirectInv, Typed, TargetTyped
  <1>2. UNCHANGED <<flowing, live, baseline, build, history>> /\ flowing
    BY DEF Land, source
  <1>3. PICK new \in Row : rows' = Inserted(Source, new)
    BY <1>1, RowFacts DEF Land
  <1>4. ASSUME NEW m \in TableModels, live[m] # 0, Matches(m) PROVE Matches(m)'
    <2>1. m # Source /\ Source \in Tables
      BY ProjectFacts DEF Tables
    <2> QED  BY <1>1, <1>2, <1>3, <1>4, <2>1, InsertedMatches
  <1>5. AppliedSingle'
    <2>1. ASSUME NEW m \in (history'.built \ Views) \cap Singles PROVE Matches(m)'
      BY <1>2, <1>4 DEF AppliedInv, AppliedSingle, Singles
    <2> QED  BY <1>2, <2>1 DEF AppliedInv, AppliedSingle
  <1>6. ASSUME NEW c \in Builders PROVE Keeping(c)'
    <2>1. ASSUME NEW l \in Layouts, NEW r \in Records, r = build[c], l.plan = r.plan, l.steps = r.steps,
                 r.pc \in Busy, Going(r, l)
          PROVE  Going(r, l)'
      <3>1. r.at \in 1..(Len(l.steps) + 1)
        <4>1. build[c].at \in 1..(Len(build[c].steps) + 1)
          BY <2>1, AtWork
        <4> QED  BY <2>1, <4>1
      <3> QED  BY <1>1, <1>2, <1>3, <2>1, <3>1, LandGoing
    <2> QED  BY <1>2, <2>1, Keeps
  <1> QED  BY <1>5, <1>6 DEF AppliedInv

\* sqt reset-target finds no builder at work, and nothing counts as applied.
LEMMA ResetApplied ==
  ASSUME DirectInv, DirectInv', AppliedInv, ResetTarget PROVE AppliedInv'
  <1>1. lock = None /\ history' = [history EXCEPT !.fed = FALSE, !.built = {}] /\ build' = build
    BY DEF ResetTarget
  <1>2. history'.built = {}
    BY <1>1 DEF DirectInv, Typed, TargetTyped, Histories
  <1>3. \A c \in Builders : build[c].pc \notin Busy
    BY <1>1, BoundsAssumption DEF DirectInv, Locked
  <1>4. AppliedSingle'
    BY <1>2 DEF AppliedSingle
  <1>5. ASSUME NEW c \in Builders PROVE Keeping(c)'
    BY <1>1, <1>3, Keeps
  <1> QED  BY <1>4, <1>5 DEF AppliedInv

\* A plan is laid out: what is driven from its scope is in it, or was added.
LEMMA PlanApplied ==
  ASSUME DirectInv, DirectInv', AppliedInv, NEW b \in Builders, PlanBuild(b) PROVE AppliedInv'
  <1>1. Typed /\ TargetTyped
    BY DEF DirectInv, Typed
  <1>3. PICK selected \in SUBSET Models, missing \in BOOLEAN, start \in Nat :
           Plan(b, selected, missing, start)
    BY <1>1, PlanFacts
  <1> DEFINE normal == Downstream(Project, selected, AllEdgeTypes)
             added == IF missing THEN MissingUpstream(normal) ELSE {}
             new == NewPlan(added, normal \cup added, start)
             q == [Idle EXCEPT !.pc = "planned", !.plan = new, !.steps = AssembleStatements(new)]
  <1>4. /\ build' = [build EXCEPT ![b] = q]
        /\ UNCHANGED <<flowing, rows, live, baseline, history>>
    BY <1>3 DEF Plan, target, source
  <1>5. new \in Plans /\ new.scope = normal \cup added /\ new.added = added
    <2>1. normal \in SUBSET Models
      BY DownstreamModels
    <2> HIDE DEF normal
    <2>2. added \in SUBSET Models
      BY <2>1, MissingModels
    <2> HIDE DEF added
    <2> QED  BY <1>1, <2>1, <2>2 DEF NewPlan, Plans, Typed, TargetTyped, Present, Drifted
  <1>6. \A c \in TableModels \ new.scope : Driving(c) \in new.scope => Driving(c) \in new.added
    <2>1. \A c \in TableModels : Driving(c) \in normal => c \in normal
      BY ScopeClosed
    <2> HIDE DEF new, added, normal
    <2> QED  BY <1>5, <2>1
  <1> HIDE DEF new
  <1>7. PICK l \in Layouts : l.plan = new /\ l.steps = AssembleStatements(new)
    BY <1>5, <1>6, PlanLaid
  <1> DEFINE st == AssembleStatements(new)
  <1> HIDE DEF st
  <1>8. q = [pc |-> "planned", plan |-> new, steps |-> st, at |-> 1, fix |-> 1, captured |-> None]
    BY PlannedRecord DEF st
  <1> HIDE DEF q
  <1>9. q.pc = "planned" /\ q.plan = new /\ q.steps = st
    BY <1>8
  <1>10. build'[b] = q /\ \A c \in Builders \ {b} : build'[c] = build[c]
    BY <1>4 DEF DirectInv
  <1>11. q \in Records
    BY <1>10 DEF DirectInv, Shapes
  <1>12. AppliedSingle'
    BY <1>4, SameStands DEF AppliedInv
  <1>13. Keeping(b)'
    <2> SUFFICES \E k \in Layouts : \E r \in Records :
                   /\ r = build'[b] /\ k.plan = r.plan /\ k.steps = r.steps
                   /\ r.pc \in Busy => Going(r, k)'
      BY DEF Keeping
    <2>1. q.pc \notin Busy
      BY <1>9 DEF Busy
    <2>2. q \in Records /\ q = build'[b] /\ l.plan = q.plan /\ l.steps = q.steps
      BY <1>7, <1>9, <1>10, <1>11 DEF st
    <2> QED  BY <2>1, <2>2
  <1>14. ASSUME NEW c \in Builders \ {b} PROVE Keeping(c)'
    <2>1. \A k \in Layouts, r \in Records : Going(r, k) => Going(r, k)'
      BY <1>1, <1>4, SameGoing DEF TargetTyped
    <2> QED  BY <1>10, <2>1, Keeps
  <1> QED  BY <1>12, <1>13, <1>14 DEF AppliedInv

LEMMA IdleRecord == Idle \in Records /\ Idle.pc = "idle"
  BY IdleShape DEF Shapes, Idle

LEMMA CrashApplied ==
  ASSUME DirectInv, DirectInv', AppliedInv, NEW b \in Builders, Crash(b) PROVE AppliedInv'
  <1>1. lock = b /\ Mishap("crash") /\ build' = [build EXCEPT ![b] = Idle] /\ UNCHANGED <<rows, live, baseline>>
    BY DEF Crash, target
  <1>2. /\ history'.built = history.built /\ history'.unrecorded = history.unrecorded
        /\ history'.left = history.left
    BY <1>1 DEF Mishap, DirectInv, Typed, TargetTyped, Histories
  <1>3. AppliedSingle'
    BY <1>1, <1>2, SameStands DEF AppliedInv
  <1> QED  BY <1>1, <1>3, IdleRecord, KeptAlone

\* Begin looks once more for consumers of what was added above the selection: a
\* build that goes on has a sealed scope.
LEMMA BeginApplied ==
  ASSUME DirectInv, DirectInv', AppliedInv, NEW b \in Builders, Begin(b) PROVE AppliedInv'
  <1> DEFINE p == build[b].plan
  <1>1. /\ build[b].pc = "planned" /\ lock = None
        /\ UNCHANGED <<flowing, rows, live, baseline, history>>
    BY DEF Begin, target, source
  <1>2. AppliedSingle'
    BY <1>1, SameStands DEF AppliedInv
  <1>3. CASE build' = [build EXCEPT ![b] = Idle]
    BY <1>1, <1>2, <1>3, IdleRecord, KeptAlone
  <1>4. CASE OutOfScopeConsumers(p.added, p.scope) = {} /\ Go(b, IF p.landing THEN "run" ELSE "reset")
    <2> DEFINE pc == IF p.landing THEN "run" ELSE "reset"
    <2>1. pc \in Phases
      BY DEF Phases
    <2>2. PICK q \in Records : /\ build' = [build EXCEPT ![b] = q]
                               /\ q.plan = p /\ q.steps = build[b].steps /\ q.at = build[b].at
      BY <1>4, <2>1, Moved
    <2>3. build[b].at = 1
      BY <1>1, AtWork DEF Shaped
    <2>4. build[b].pc # "idle"
      BY <1>1
    <2>5. PICK l \in Layouts : l.plan = p /\ l.steps = build[b].steps
      BY <2>4, HasLayout
    <2>6. Sealed(l.plan.scope)'
      <3> SUFFICES ASSUME NEW c \in TableModels \ p.scope, Driving(c) \in p.scope PROVE live[c] = 0
        BY <1>1, <2>5 DEF Sealed
      <3>1. Driving(c) \in p.added
        BY <2>5 DEF Layouts, Laid
      <3>2. Driving(c) \in Inputs(c)
        BY DrivingEdge
      <3> QED  BY <1>4, <3>1, <3>2 DEF OutOfScopeConsumers
    <2>7. Going(q, l)'
      BY <2>2, <2>3, <2>6, FreshGoing
    <2> QED  BY <1>1, <1>2, <2>2, <2>5, <2>7, KeptAlone
  <1> QED  BY <1>3, <1>4 DEF Begin

LEMMA ResetOffsetsApplied ==
  ASSUME DirectInv, DirectInv', AppliedInv, NEW b \in Builders, ResetFreshLandingOffsets(b)
  PROVE  AppliedInv'
  <1>1. /\ lock = b /\ build[b].pc = "reset" /\ DeleteGroup /\ Go(b, "run")
        /\ UNCHANGED <<rows, live, baseline>>
    BY DEF ResetFreshLandingOffsets, target
  <1>2. /\ history'.built = history.built /\ history'.unrecorded = history.unrecorded
        /\ history'.left = history.left
    <2>1. history \in Histories
      BY DEF DirectInv, Typed, TargetTyped
    <2>2. history' = history \/ (\E what \in Mishaps : Mishap(what))
      BY <1>1 DEF DeleteGroup, Mishaps
    <2> QED  BY <2>1, <2>2 DEF Mishap, Histories
  <1>3. AppliedSingle'
    BY <1>1, <1>2, SameStands DEF AppliedInv
  <1>4. PICK q \in Records : /\ build' = [build EXCEPT ![b] = q]
                             /\ q.plan = build[b].plan /\ q.steps = build[b].steps /\ q.at = build[b].at
    <2>1. "run" \in Phases
      BY DEF Phases
    <2> QED  BY <1>1, <2>1, Moved
  <1>5. build[b].at = 1
    BY <1>1, AtWork DEF Shaped, Busy
  <1>6. build[b].pc # "idle" /\ build[b].pc \in Busy
    BY <1>1 DEF Busy
  <1>7. PICK l \in Layouts : /\ l.plan = build[b].plan /\ l.steps = build[b].steps
                             /\ \E r \in Records : Going(r, l)
    BY <1>6, HasLayout
  <1>8. Sealed(l.plan.scope)'
    BY <1>1, <1>7 DEF Going, Sealed
  <1>9. Going(q, l)'
    BY <1>4, <1>5, <1>8, FreshGoing
  <1> QED  BY <1>1, <1>3, <1>4, <1>7, <1>9, KeptAlone

\* A statement of a build, with its effect.
LEMMA HandsOn ==
  ASSUME DirectInv, DirectInv', AppliedInv, NEW b \in Builders, build[b].pc = "run",
         build[b].at <= Len(build[b].steps), NEW whole \in BOOLEAN,
         Works(b, Current(b)), NEW now, Apply(b, Current(b), whole, now)
  PROVE  \E l \in Layouts, r \in Records :
           /\ r = build[b] /\ l.plan = r.plan /\ l.steps = r.steps
           /\ AtHand(r, l, Current(b), whole)
  <1> DEFINE s == Current(b)
  <1>1. build[b].pc # "idle" /\ build[b].pc \in Busy
    BY DEF Busy
  <1>2. PICK l \in Layouts : \E r \in Records : /\ r = build[b] /\ l.plan = r.plan /\ l.steps = r.steps
                                                /\ Going(r, l)
    BY <1>1, HasLayout
  <1>3. PICK r \in Records : /\ r = build[b] /\ l.plan = r.plan /\ l.steps = r.steps
                             /\ Going(r, l)
    BY <1>2
  <1>4. Runnable(b, s) /\ build[b].at \in 1..Len(build[b].steps)
    BY CurrentStatement
  <1>5. s = l.steps[r.at] /\ r.at \in 1..Len(l.steps)
    BY <1>3, <1>4 DEF Current
  <1>6. Does(s, l.plan, r.captured, whole)
    <2>1. history \in Histories
      BY DEF DirectInv, Typed, TargetTyped
    <2>2. l.plan = build[b].plan /\ r.captured = build[b].captured
      BY <1>3
    <2> QED  BY <2>1, <2>2, AppliedDoes
  <1>7. /\ rows \in Rows /\ rows' \in Rows /\ live \in [Models -> Versions]
        /\ history.built \subseteq Models
    BY DEF DirectInv, Typed, TargetTyped, Histories
  <1>8. s.op \in {"create table", "drop table", "capture", "replay"} => s.on \in TableModels
    BY <1>5, OnTables
  <1>9. s.op = "replay" => r.captured \in Row
    BY <1>3, <1>4 DEF Runnable
  <1>l. Leaves(s)
    <2>1. history \in Histories
      BY DEF DirectInv, Typed, TargetTyped
    <2>2. ChangeSource(b, s, now)
      BY DEF Apply
    <2> QED  BY <1>8, <2>1, <2>2, AppliedLeaves
  <1> HIDE DEF s
  <1>10. r.pc = "run"
    BY <1>3
  <1>11. AtHand(r, l, s, whole)
    BY <1>3, <1>5, <1>6, <1>7, <1>8, <1>9, <1>l, <1>10 DEF AtHand
  <1> QED  BY <1>3, <1>11 DEF s

\* A boundary is read.
LEMMA CaptureCovers ==
  ASSUME DirectInv, NEW b \in Builders, build[b].plan \in Plans, NEW s, s.op = "capture",
         s.on \in TableModels, Works(b, s), NEW now \in Times, ChangeSource(b, s, now)
  PROVE  Captured(Boundary(s.on, build[b].plan.start, now), s.on)
  <1> DEFINE m == s.on
             d == Driving(m)
             start == build[b].plan.start
             new == Left(b, s, now)
  <1>1. history \in Histories /\ rows \in Rows /\ spent \in Purses
    BY DEF DirectInv, Typed, TargetTyped
  <1>2. start \in Nat /\ now \in Nat
    BY BoundsAssumption DEF Plans
  <1>3. Present(d) /\ rows[d] \in Row
    <2>1. Present(d)
      BY DEF Works
    <2> QED  BY <1>1, <2>1, DrivingTable DEF Present, Rows
  <1>4. history'.left = new
    BY <1>1, AppliedLeaves
  <1>5. MayLeave(m, start, now) \subseteq new[m]
    BY <1>1, LeftFacts
  <1>6. \A e \in Events : Boundary(m, start, now)[e] <= rows[d][e]
    BY <1>3, BoundaryFacts
  <1>7. ASSUME NEW e \in Events, e \notin history'.left[m]
        PROVE  Boundary(m, start, now)[e] = rows[d][e]
    <2>1. e \notin MayLeave(m, start, now)
      BY <1>4, <1>5, <1>7
    <2> QED  BY <1>1, <1>2, <1>3, <2>1, BoundaryComplete
  <1> QED  BY <1>3, <1>6, <1>7 DEF Captured

LEMMA RunApplied ==
  ASSUME DirectInv, DirectInv', AppliedInv, NEW b \in Builders, RunStatement(b) PROVE AppliedInv'
  <1> DEFINE s == Current(b)
             w == build[b]
  <1>0. PICK now \in Times :
          /\ Apply(b, s, TRUE, now)
          /\ build' = [build EXCEPT
                         ![b].at = @ + 1,
                         ![b].captured = IF s.op = "capture"
                                         THEN Boundary(s.on, w.plan.start, now) ELSE None]
    BY DEF RunStatement
  <1> DEFINE c == IF s.op = "capture" THEN Boundary(s.on, w.plan.start, now) ELSE None
  <1>1. /\ lock = b /\ w.pc = "run" /\ w.at <= Len(w.steps) /\ Works(b, s)
        /\ Apply(b, s, TRUE, now)
        /\ build' = [build EXCEPT ![b].at = @ + 1, ![b].captured = c]
        /\ baseline' = baseline
    BY <1>0 DEF RunStatement, Running
  <1>2. PICK l \in Layouts, r \in Records :
               /\ r = w /\ l.plan = r.plan /\ l.steps = r.steps
               /\ AtHand(r, l, s, TRUE)
    BY <1>1, HandsOn
  <1>c. s.op = "capture" => Captured(c, s.on)
    <2> SUFFICES ASSUME s.op = "capture" PROVE Captured(Boundary(s.on, w.plan.start, now), s.on)
      OBVIOUS
    <2>1. ChangeSource(b, s, now)
      BY <1>1 DEF Apply
    <2>2. w.plan \in Plans
      BY <1>2, LayoutFacts
    <2>3. s.on \in TableModels
      BY <1>2 DEF AtHand
    <2> HIDE DEF s
    <2> QED  BY <1>1, <2>1, <2>2, <2>3, CaptureCovers
  <1> HIDE DEF s, c
  <1>3. PICK q \in Records : /\ build' = [build EXCEPT ![b] = q]
                             /\ q.pc = "run" /\ q.plan = w.plan /\ q.steps = w.steps
                             /\ q.at = w.at + 1 /\ q.captured = c
    <2> DEFINE q == [w EXCEPT !.at = @ + 1, !.captured = c]
    <2>1. build' = [build EXCEPT ![b] = q]
      BY <1>1 DEF DirectInv
    <2>2. build'[b] = q
      BY <2>1 DEF DirectInv
    <2>3. q \in Records
      BY <2>2 DEF DirectInv, Shapes
    <2>4. q.pc = "run" /\ q.plan = w.plan /\ q.steps = w.steps /\ q.at = w.at + 1 /\ q.captured = c
      BY <1>1 DEF DirectInv, Shapes, Records
    <2> QED  BY <2>1, <2>3, <2>4
  <1>4. AppliedSingle'
    BY <1>1, <1>2, StandsOn DEF AppliedInv
  <1>5. Going(q, l)'
    <2>1. s.op = "capture" => Captured(q.captured, s.on)
      BY <1>3, <1>c
    <2>2. q.at = r.at + 1 /\ q.pc = "run"
      BY <1>2, <1>3
    <2> QED  BY <1>2, <2>1, <2>2, RunGoing
  <1>6. l.plan = q.plan /\ l.steps = q.steps
    BY <1>2, <1>3
  <1> QED  BY <1>1, <1>3, <1>4, <1>5, <1>6, KeptAlone

LEMMA FailStatementApplied ==
  ASSUME DirectInv, DirectInv', AppliedInv, NEW b \in Builders, FailStatement(b) PROVE AppliedInv'
  <1> DEFINE s == Current(b)
             w == build[b]
             pc == IF PausedBy(b) THEN "recover" ELSE "failed"
  <1>1. /\ lock = b /\ w.pc = "run" /\ w.at <= Len(w.steps) /\ Go(b, pc) /\ baseline' = baseline
    BY DEF FailStatement, Running
  <1>2. \/ UNCHANGED <<flowing, rows, live, history>>
        \/ Works(b, s) /\ \E now \in Times : Apply(b, s, FALSE, now)
    BY DEF FailStatement, target, source
  <1>3. pc \in Phases /\ pc # "run"
    BY DEF Phases
  <1>4. PICK q \in Records : /\ build' = [build EXCEPT ![b] = q]
                             /\ q.pc = pc /\ q.plan = w.plan /\ q.steps = w.steps
                             /\ q.at = w.at /\ q.captured = w.captured
    BY <1>1, <1>3, Moved
  <1> HIDE DEF pc
  <1>5. CASE UNCHANGED <<flowing, rows, live, history>>
    <2>1. AppliedSingle' /\ rows \in Rows
      BY <1>1, <1>5, SameStands DEF AppliedInv, DirectInv, Typed, TargetTyped
    <2>2. w.pc # "idle" /\ w.pc \in Busy
      BY <1>1 DEF Busy
    <2>3. PICK l \in Layouts, r \in Records : /\ r = w /\ l.plan = r.plan /\ l.steps = r.steps
                                              /\ Going(r, l)
      BY <2>2, HasLayout
    <2>4. Going(q, l)'
      <3>1. q.at = r.at /\ q.captured = r.captured /\ q.pc # "run"
        BY <1>3, <1>4, <2>3
      <3> QED  BY <1>5, <2>1, <2>3, <3>1, SameGoing
    <2> QED  BY <1>1, <1>4, <2>1, <2>3, <2>4, KeptAlone
  <1>6. CASE Works(b, s) /\ \E now \in Times : Apply(b, s, FALSE, now)
    <2>1. PICK l \in Layouts, r \in Records :
                 /\ r = w /\ l.plan = r.plan /\ l.steps = r.steps
                 /\ AtHand(r, l, s, FALSE)
      BY <1>1, <1>6, HandsOn
    <2>2. AppliedSingle'
      BY <1>1, <2>1, StandsOn DEF AppliedInv
    <2>3. Going(q, l)'
      <3>1. q.at = r.at /\ q.pc # "run"
        BY <1>3, <1>4, <2>1
      <3> QED  BY <2>1, <3>1, FailGoing
    <2> QED  BY <1>1, <1>4, <2>1, <2>2, <2>3, KeptAlone
  <1> QED  BY <1>2, <1>5, <1>6

\* A recovery touches neither tables nor views.
Recovers(s) == s.op \in {"activate", "recover staged"} /\ s.on = Source

LEMMA RecoveryStands ==
  ASSUME DirectInv, NEW b \in Builders, NEW s, Recovers(s),
         NEW whole \in BOOLEAN, Works(b, s), NEW now, Apply(b, s, whole, now)
  PROVE  /\ rows' = rows /\ live' = live /\ history'.built = history.built
         /\ history'.unrecorded = history.unrecorded /\ history'.left = history.left
  <1>1. history \in Histories
    BY DEF DirectInv, Typed, TargetTyped
  <1>2. Does(s, build[b].plan, build[b].captured, whole)
    BY <1>1, AppliedDoes
  <1>3. {s.on} \cap Models = {}
    BY ProjectFacts DEF Recovers
  <1>4. history'.left = history.left
    <2>1. s.op \notin {"create table", "capture"} /\ ChangeSource(b, s, now)
      BY DEF Recovers, Apply
    <2>2. Left(b, s, now) = history.left
      BY <1>1, <2>1, LeftFacts
    <2> QED  BY <1>1, <2>1, <2>2, AppliedLeaves
  <1> QED  BY <1>2, <1>3, <1>4 DEF Does, Recovers

LEMMA RecoverApplied ==
  ASSUME DirectInv, DirectInv', AppliedInv, NEW b \in Builders, Recover(b) PROVE AppliedInv'
  <1> DEFINE w == build[b]
             list == RecoveryStatements(b)
             s == list[w.fix]
             act == Statement("activate", Source)
             rec == Statement("recover staged", Source)
  <1>1. /\ lock = b /\ w.pc = "recover" /\ w.fix <= Len(list)
        /\ build' = [build EXCEPT ![b].fix = @ + 1] /\ baseline' = baseline
    BY DEF Recover
  <1>2. Recovers(s)
    <2>1. w.fix > 0 /\ w.fix \in Nat
      BY <1>1, AtWork DEF Busy, Shaped, Records
    <2>2. IF w.plan.recreate THEN Len(list) = 2 /\ list[1] = rec /\ list[2] = act
                             ELSE Len(list) = 1 /\ list[1] = act
      BY <1>1, RecoveryShape
    <2>3. s = act \/ s = rec
      <3> HIDE DEF list, act, rec
      <3>1. w.fix \in Nat /\ w.fix > 0 /\ w.fix <= Len(list)
        BY <1>1, <2>1
      <3> HIDE DEF w
      <3>2. CASE w.plan.recreate
        <4>1. w.fix = 1 \/ w.fix = 2
          BY <2>2, <3>1, <3>2, FirstNumbers
        <4> QED  BY <2>2, <3>2, <4>1
      <3>3. CASE ~w.plan.recreate
        <4>1. w.fix = 1
          BY <2>2, <3>1, <3>3, FirstNumbers
        <4> QED  BY <2>2, <3>3, <4>1
      <3> QED  BY <3>2, <3>3
    <2>4. act.op = "activate" /\ rec.op = "recover staged" /\ act.on = Source /\ rec.on = Source
      BY StatementParts
    <2> HIDE DEF act, rec, s
    <2> QED  BY <2>3, <2>4 DEF Recovers
  <1>3. /\ rows' = rows /\ live' = live /\ history'.built = history.built
        /\ history'.unrecorded = history.unrecorded /\ history'.left = history.left
    <2>1. CASE Works(b, s) /\ \E now \in Times : Apply(b, s, TRUE, now)
      <3>1. PICK z : z = s
        OBVIOUS
      <3>2. PICK now \in Times : Apply(b, z, TRUE, now)
        BY <2>1, <3>1
      <3>3. Works(b, z) /\ Recovers(z)
        BY <1>2, <2>1, <3>1
      <3> QED  BY <3>2, <3>3, RecoveryStands
    <2>2. CASE Mishap("not recovered") /\ UNCHANGED <<rows, live>>
      BY <2>2 DEF Mishap, DirectInv, Typed, TargetTyped, Histories
    <2> QED  BY <2>1, <2>2 DEF Recover, target
  <1>4. PICK q \in Records : /\ build' = [build EXCEPT ![b] = q]
                             /\ q.pc = "recover" /\ q.plan = w.plan /\ q.steps = w.steps
                             /\ q.at = w.at /\ q.captured = w.captured
    <2> DEFINE q == [w EXCEPT !.fix = @ + 1]
    <2>1. build' = [build EXCEPT ![b] = q]
      BY <1>1 DEF DirectInv
    <2>2. build'[b] = q
      BY <2>1 DEF DirectInv
    <2>3. q \in Records
      BY <2>2 DEF DirectInv, Shapes
    <2>4. q.pc = "recover" /\ q.plan = w.plan /\ q.steps = w.steps /\ q.at = w.at /\ q.captured = w.captured
      BY <1>1 DEF DirectInv, Shapes, Records
    <2> QED  BY <2>1, <2>3, <2>4
  <1> HIDE DEF s, list
  <1>5. AppliedSingle' /\ rows \in Rows
    BY <1>1, <1>3, SameStands DEF AppliedInv, DirectInv, Typed, TargetTyped
  <1>6. w.pc # "idle" /\ w.pc \in Busy
    BY <1>1 DEF Busy
  <1>7. PICK l \in Layouts, r \in Records : /\ r = w /\ l.plan = r.plan /\ l.steps = r.steps
                                            /\ Going(r, l)
    BY <1>6, HasLayout
  <1>8. Going(q, l)'
    <2>1. q.at = r.at /\ q.captured = r.captured /\ q.pc # "run"
      BY <1>4, <1>7
    <2> QED  BY <1>3, <1>5, <1>7, <2>1, SameGoing
  <1> QED  BY <1>1, <1>4, <1>5, <1>7, <1>8, KeptAlone

LEMMA RecoveredApplied ==
  ASSUME DirectInv, DirectInv', AppliedInv, NEW b \in Builders, Recovered(b) PROVE AppliedInv'
  <1> DEFINE w == build[b]
  <1>1. /\ w.pc = "recover" /\ Go(b, "failed") /\ UNCHANGED <<rows, live, baseline, history>>
    BY DEF Recovered, target
  <1>2. w.pc # "idle" /\ w.pc \in Busy /\ "failed" \in Phases
    BY <1>1 DEF Busy, Phases
  <1>3. lock = b
    BY <1>2, AtWork
  <1>4. PICK q \in Records : /\ build' = [build EXCEPT ![b] = q]
                             /\ q.pc = "failed" /\ q.plan = w.plan /\ q.steps = w.steps
                             /\ q.at = w.at /\ q.captured = w.captured
    BY <1>1, <1>2, Moved
  <1>5. AppliedSingle' /\ rows \in Rows
    BY <1>1, SameStands DEF AppliedInv, DirectInv, Typed, TargetTyped
  <1>6. PICK l \in Layouts, r \in Records : /\ r = w /\ l.plan = r.plan /\ l.steps = r.steps
                                            /\ Going(r, l)
    BY <1>2, HasLayout
  <1>7. Going(q, l)'
    <2>1. q.at = r.at /\ q.captured = r.captured /\ q.pc # "run"
      BY <1>4, <1>6
    <2> QED  BY <1>1, <1>5, <1>6, <2>1, SameGoing
  <1> QED  BY <1>3, <1>4, <1>5, <1>6, <1>7, KeptAlone

\* A build that concludes reports models that stand.
LEMMA ConcludeApplied ==
  ASSUME DirectInv, DirectInv', AppliedInv, NEW b \in Builders, lock = b, NEW p \in Plans,
         p = build[b].plan, NEW applied \in SUBSET Models, Conclude(b, applied),
         \A m \in applied : live[m] = p.version[m] /\ live[m] # 0,
         \A m \in (applied \ Views) \cap Singles : Matches(m)
  PROVE  AppliedInv'
  <1>1. build' = [build EXCEPT ![b] = Idle] /\ rows' = rows /\ live' = live
    BY DEF Conclude, target
  <1>2. rows \in Rows /\ rows' \in Rows /\ history \in Histories
    BY DEF DirectInv, Typed, TargetTyped
  <1>3. /\ history'.built = history.built \cup applied /\ history'.left = history.left
        /\ \/ /\ history'.unrecorded = history.unrecorded \ applied
              /\ baseline' = [m \in Models |-> IF m \in applied THEN p.version[m] ELSE baseline[m]]
           \/ /\ history'.unrecorded = history.unrecorded \cup applied
              /\ baseline' = baseline
    BY <1>2 DEF Conclude, Histories
  <1>4. history.built \subseteq Models
    BY <1>2 DEF Histories
  <1>5. \A m \in history'.built : live'[m] # 0
    BY <1>1, <1>3 DEF AppliedInv, AppliedSingle
  <1>6. ASSUME NEW m \in (history'.built \ Views) \cap Singles PROVE Matches(m)'
    <2>1. Matches(m) /\ m \in TableModels
      BY <1>3 DEF AppliedInv, AppliedSingle, Singles
    <2> QED  BY <1>1, <1>2, <1>3, <2>1, SameRows
  <1>7. ASSUME NEW m \in history'.built \ history'.unrecorded PROVE baseline'[m] = live'[m]
    <2>1. m \in Models
      BY <1>3, <1>4
    <2>2. m \in history.built \ history.unrecorded => baseline[m] = live[m]
      BY DEF AppliedInv, AppliedSingle
    <2> QED  BY <1>1, <1>3, <2>1, <2>2
  <1>8. AppliedSingle'
    BY <1>5, <1>6, <1>7 DEF AppliedSingle
  <1> QED  BY <1>1, <1>8, IdleRecord, KeptAlone

\* What was replayed, once everything is made.
LEMMA Finished ==
  ASSUME NEW l \in Layouts, NEW r \in Records, r.at > l.made, Going(r, l),
         NEW m \in (l.plan.scope \ Views) \cap Singles, m \in l.roots => Replayed(r, l, m)
  PROVE  Matches(m)
  <1>1. CASE m \in l.roots
    BY <1>1 DEF Going, Refilled
  <1>2. CASE m \notin l.roots
    BY <1>2 DEF Going, Following
  <1> QED  BY <1>1, <1>2

LEMMA SucceedApplied ==
  ASSUME DirectInv, DirectInv', AppliedInv, NEW b \in Builders, Succeed(b) PROVE AppliedInv'
  <1>1. /\ lock = b /\ build[b].pc = "run" /\ build[b].at > Len(build[b].steps)
        /\ Conclude(b, build[b].plan.scope)
    BY DEF Succeed, Running
  <1>2. build[b].pc # "idle" /\ build[b].pc \in Busy
    BY <1>1 DEF Busy
  <1>3. PICK l \in Layouts, r \in Records : /\ r = build[b] /\ l.plan = r.plan /\ l.steps = r.steps
                                            /\ Going(r, l)
    BY <1>2, HasLayout
  <1>4. r.at > Len(l.steps)
    BY <1>1, <1>3
  <1>5. r.at > l.made
    <2>1. l.made \in Nat /\ Len(l.steps) \in Nat /\ l.made + 1 <= Len(l.steps) /\ r.at \in Nat
      BY LayoutFacts DEF Records
    <2> QED  BY <1>4, <2>1
  <1>6. \A m \in l.plan.scope : live[m] = l.plan.version[m] /\ live[m] # 0
    BY <1>3, <1>5, AllViewed DEF Going
  <1>7. \A m \in (l.plan.scope \ Views) \cap Singles : Matches(m)
    BY <1>3, <1>4, <1>5, RootsDone, Finished
  <1>8. l.plan \in Plans /\ l.plan.scope \in SUBSET Models /\ l.plan = build[b].plan
    BY <1>3, LayoutFacts
  <1> QED  BY <1>1, <1>6, <1>7, <1>8, ConcludeApplied

LEMMA OwnReplay ==
  ASSUME NEW b, NEW m \in AppliedModels(b), m \in Models, NEW i \in DOMAIN ReplayModels(build[b].plan),
         m = ReplayModels(build[b].plan)[i]
  PROVE  Statement("replay", m) \in Completed(b)
  BY DEF AppliedModels

\* A failed build reports what a completed replay reached, and of what has a
\* replay of its own only what was replayed.
LEMMA FailApplied ==
  ASSUME DirectInv, DirectInv', AppliedInv, NEW b \in Builders, Fail(b) PROVE AppliedInv'
  <1> DEFINE applied == AppliedModels(b)
             replayed == {m \in Models : Statement("replay", m) \in Completed(b)}
  <1>1. build[b].pc = "failed" /\ Conclude(b, applied)
    BY DEF Fail
  <1>2. build[b].pc # "idle" /\ build[b].pc \in Busy
    BY <1>1 DEF Busy
  <1>3. lock = b /\ build[b].at \in 1..(Len(build[b].steps) + 1)
    BY <1>2, AtWork
  <1>4. PICK l \in Layouts, r \in Records : /\ r = build[b] /\ l.plan = r.plan /\ l.steps = r.steps
                                            /\ Going(r, l)
    BY <1>2, HasLayout
  <1>5. l.plan \in Plans /\ l.plan.scope \in SUBSET Models /\ l.plan = build[b].plan
        /\ l.roots \in SUBSET TableModels /\ l.roots = ReplayRoots(l.plan)
        /\ l.made \in Nat /\ Len(l.steps) \in Nat /\ r.at \in Nat
    BY <1>4, LayoutFacts DEF ReplayRoots, Records
  <1>6. ASSUME NEW m \in Models, Statement("replay", m) \in Completed(b)
        PROVE  Replayed(r, l, m) /\ r.at > l.made
    <2>1. PICK i \in 1..(r.at - 1) : l.steps[i] = Statement("replay", m)
      BY <1>4, <1>6 DEF Completed
    <2>2. l.steps[i].op = "replay" /\ l.steps[i].on = m
      <3> DEFINE z == l.steps[i]
                 w == Statement("replay", m)
      <3>1. z = w /\ w.op = "replay" /\ w.on = m
        BY <2>1, StatementParts
      <3> HIDE DEF z, w
      <3>2. z.op = "replay" /\ z.on = m
        BY <3>1
      <3> QED  BY <3>2 DEF z
    <2>3. i \in 1..Len(l.steps)
      <3> DEFINE n == Len(l.steps)
                 a == r.at
      <3>1. n \in Nat /\ a \in 1..(n + 1) /\ i \in 1..(a - 1)
        BY <1>3, <1>4, <1>5
      <3> HIDE DEF n, a
      <3>2. i \in 1..n
        BY <3>1
      <3> QED  BY <3>2 DEF n
    <2>4. l.made < i
      BY <2>2, <2>3, ByOp
    <2>5. r.at > l.made
      <3> DEFINE c == l.made
                 a == r.at
      <3>1. c \in Nat /\ a \in Nat /\ i \in 1..(a - 1) /\ c < i
        BY <1>5, <2>4
      <3> HIDE DEF c, a
      <3>2. a > c
        BY <3>1
      <3> QED  BY <3>2 DEF c, a
    <2> QED  BY <2>2, <2>5 DEF Replayed
  <1>7. ASSUME NEW m \in applied
        PROVE  /\ m \in l.plan.scope \ Views /\ r.at > l.made
               /\ m \in l.roots => Replayed(r, l, m)
    <2>1. PICK root \in ReplayRoots(l.plan) \cap replayed : m \in Propagated(l.plan, root)
      BY <1>5 DEF AppliedModels
    <2>2. m \in l.plan.scope \ Views
      BY <2>1 DEF Propagated
    <2>3. r.at > l.made
      BY <1>6, <2>1
    <2>4. ASSUME m \in l.roots PROVE Replayed(r, l, m)
      <3>1. \E i \in DOMAIN ReplayModels(l.plan) : m = ReplayModels(l.plan)[i]
        BY <1>5, <2>4, ReplayOrder
      <3>2. m \in replayed
        <4>1. m \in Models
          BY <1>5, <2>2
        <4> QED  BY <1>5, <3>1, <4>1, OwnReplay
      <3> QED  BY <1>6, <3>2
    <2> QED  BY <2>2, <2>3, <2>4
  <1> HIDE DEF applied, replayed
  <1>8. \A m \in applied : live[m] = l.plan.version[m] /\ live[m] # 0
    BY <1>4, <1>7, AllViewed DEF Going
  <1>9. \A m \in (applied \ Views) \cap Singles : Matches(m)
    BY <1>4, <1>7, Finished
  <1>10. applied \in SUBSET Models
    BY <1>5, <1>7
  <1> QED  BY <1>1, <1>3, <1>5, <1>8, <1>9, <1>10, ConcludeApplied
-----------------------------------------------------------------------------
\* What is applied stands.

LEMMA InitApplied == Init => AppliedInv
  <1> SUFFICES ASSUME Init PROVE AppliedInv
    OBVIOUS
  <1>1. AppliedSingle
    BY DEF Init, AppliedSingle
  <1>2. ASSUME NEW b \in Builders PROVE Keeping(b)
    <2>1. build[b] = Idle
      BY DEF Init
    <2> QED  BY <2>1, IdleRecord DEF Keeping
  <1> QED  BY <1>1, <1>2 DEF AppliedInv

LEMMA NextApplied == DirectInv /\ DirectInv' /\ AppliedInv /\ [Next]_vars => AppliedInv'
  <1> SUFFICES ASSUME DirectInv, DirectInv', AppliedInv, [Next]_vars PROVE AppliedInv'
    OBVIOUS
  <1>1. CASE UNCHANGED vars \/ Publish \/ Edit \/ ReleaseByHand
    <2>1. UNCHANGED <<flowing, rows, live, baseline, build, history>>
      BY <1>1 DEF vars, Publish, Edit, ReleaseByHand, target, source
    <2> QED  BY <2>1, QuietApplied
  <1>2. ASSUME NEW b \in Builders, Builder(b) PROVE AppliedInv'
    BY <1>2, PlanApplied, BeginApplied, ResetOffsetsApplied, RunApplied, FailStatementApplied,
       RecoverApplied, RecoveredApplied, SucceedApplied, FailApplied, CrashApplied DEF Builder
  <1> QED  BY <1>1, <1>2, LandApplied, ResetApplied DEF Next

\* In every project, whatever was published, edited, reset, interrupted or
\* killed: what a build reports as applied has its view, a table model that no
\* plan replays a second time has the rows of its driving input, each as often
\* (a join may lack some, and so may a replay of what its start time or, where
\* timestamps are the lineage, the server's clock leaves out), and the recorded fingerprint is that of the deployed
\* definition unless its own write was lost.
THEOREM AppliedHolds == Spec => []AppliedSingle
  <1>1. AppliedInv => AppliedSingle
    BY DEF AppliedInv
  <1> QED  BY <1>1, InitApplied, NextApplied, DirectInvariant, PTL DEF Spec

\* No plan of the project has a fan-in target: what a table model reads besides
\* its driving input is no model, unless the source drives it.
NoFanIn == \A m \in TableModels : Driving(m) = Source \/ Sides(m) \cap Models = {}

\* In a project without fan-in targets, all that a build reports as applied
\* stands, that of failed builds included: retained replay columns let a later
\* build reconstruct the affected scope, without a row doubled, and without one
\* lost but for those that a start time asks to leave out, or that are stamped
\* ahead of the server's clock where timestamps are the lineage.
THEOREM AppliedStaysApplied == ASSUME NoFanIn PROVE Spec => []AppliedStands
  <1>1. DirectInv /\ AppliedSingle => AppliedStands
    <2> SUFFICES ASSUME DirectInv, AppliedSingle PROVE AppliedStands
      OBVIOUS
    <2>1. history.built \ Views \subseteq Singles
      BY DEF NoFanIn, Singles, TableModels, DirectInv, Typed, TargetTyped, Histories
    <2>2. RowsOnce
      BY <2>1 DEF AppliedSingle, Matches, RowsOnce
    <2> QED  BY <2>2 DEF AppliedSingle, AppliedStands
  <1> QED  BY <1>1, AppliedHolds, DirectInvariant, PTL
=============================================================================
