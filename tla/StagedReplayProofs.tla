------------------------- MODULE StagedReplayProofs -------------------------
(***************************************************************************)
(* Proofs about StagedReplay, for any rows, partitions, lineage modes,     *)
(* lookback and bounds.  Neither property is inductive.  That a build adds *)
(* a row once rests on the lower bounds never falling between the two      *)
(* statements that read them (BoundsGrow); that a finished build explains  *)
(* its history rests on what the wait, the boundary, the cutoffs and the   *)
(* seed have each established, and on that nothing lands unseen once the   *)
(* staged view is attached.  ReplayInv says both, statement by statement.  *)
(***************************************************************************)
EXTENDS StagedReplay, FiniteSetTheorems, WellFoundedInduction, TLAPS

Statement == {"idle", "table", "view", "stabilization", "boundary", "watermark",
              "qualifying", "seed", "replay", "audit"}

RowType == [state : {"none", "begun", "visible"}, landed : Nat, stamp : Nat,
            feeds : SUBSET {"active", "staged"}]

\* The statements before a build's first insert.
BeforeInserts == Statement \ {"idle", "replay", "audit"}

\* The types of the tables, the metadata and the program counter of a build.
TypeOK ==
  /\ mode \in Modes /\ plan \in Plans
  /\ now \in Nat \ {0}
  /\ row \in [Rows -> RowType]
  /\ staged = NoTable \/ staged \in [Rows -> Nat]
  /\ attached \in BOOLEAN
  /\ boundary \in Nat
  /\ \A c \in cutoffs : c[2] \in Int
  /\ pc \in Statement
  /\ finished \in BOOLEAN
  /\ builds \in Nat /\ drops \in Nat
  /\ Rows # {} => \A b \in start : b[2] \in Int

\* Rows land in the past, and in the active model when there is one.
RowsInv ==
  \A r \in Rows :
    /\ row[r].state # "none" => row[r].landed <= now
    /\ row[r].state # "none" /\ plan.active => "active" \in row[r].feeds

\* What exists at which statement of a build.
TablesInv ==
  /\ pc \notin {"idle", "table"} => staged \in [Rows -> Nat]
  /\ attached => staged \in [Rows -> Nat]
  /\ \A r \in Rows : "staged" \in row[r].feeds => staged \in [Rows -> Nat]
  /\ pc \notin {"idle", "table", "view"} => attached
  /\ finished => pc = "idle" /\ attached
  /\ boundary # 0 /\ drops = 0 => attached
  /\ pc \in {"watermark", "qualifying", "seed", "replay", "audit"} => boundary # 0
  /\ cutoffs # {} => boundary # 0
  /\ pc # "idle" => builds >= 1

\* A row that reached the anchor through the staged view is in the staged table.
FedInv ==
  \A r \in Rows : row[r].state = "visible" /\ "staged" \in row[r].feeds => staged[r] >= 1

\* Rows that neither feed the staged view nor outlasted the wait.
Loose(r) == row[r].state # "none" /\ "staged" \notin row[r].feeds /\ r \notin slow

Waited ==
  \/ pc \in {"boundary", "watermark", "qualifying", "seed", "replay", "audit"}
  \/ finished
  \/ boundary # 0 /\ drops = 0

\* Once a build has waited there are only old ones of them; the boundary and
\* the cutoffs cover them, but for timestamps ahead of the boundary, while
\* nothing has been dropped.
WaitedInv ==
  Waited => \A r \in Rows : Loose(r) => row[r].state = "visible"

BoundaryInv ==
  boundary # 0 /\ drops = 0 => \A r \in Rows : Loose(r) => row[r].landed <= boundary

Captured == pc \in {"qualifying", "seed", "replay", "audit"} \/ finished \/ cutoffs # {}

CutoffInv ==
  drops = 0 /\ Captured => \A r \in Rows : Loose(r) => BelowCutoff(r) \/ StampedAhead(r)

\* Between the two inserts the staged table has what the seed promised.
SeededInv ==
  pc = "replay" /\ plan.subtree.execution = "seeded" =>
    \A r \in Rows : Loose(r) /\ BelowBound(r, start) => staged[r] >= 1

\* The causes for a row of the anchor not to be in the staged table.
Explained(r) ==
  staged[r] = 0 => \/ r \in slow
                   \/ r \in seam
                   \/ drops > 0 /\ ~BelowCutoff(r)
                   \/ StampedAhead(r)
                   \/ r \in forgone

\* From the replay on they are the only ones.
HistoryInv ==
  (pc = "audit" \/ finished) => \A r \in Anchor : Explained(r)

Fed(r) == IF row[r].state = "visible" /\ "staged" \in row[r].feeds THEN 1 ELSE 0

\* How often a row can have been inserted: before its inserts a build has
\* added nothing, and between them only rows below the bound that the replay
\* is going to read.
CountInv ==
  staged # NoTable =>
    \A r \in Rows :
      /\ staged[r] <= builds + Fed(r)
      /\ pc \in BeforeInserts => staged[r] <= builds - 1 + Fed(r)
      /\ pc = "replay" => \/ staged[r] <= builds - 1 + Fed(r)
                          \/ SeedResolves /\ r \in Anchor /\ BelowBound(r, LowerBounds)

ReplayInv ==
  /\ TypeOK /\ RowsInv /\ TablesInv /\ FedInv
  /\ WaitedInv /\ BoundaryInv /\ CutoffInv /\ SeededInv /\ HistoryInv
  /\ CountInv

-----------------------------------------------------------------------------

\* A set of naturals has a least element.
LEMMA NatMin ==
  ASSUME NEW S \in SUBSET Nat, S # {}
  PROVE  \E m \in S : \A y \in S : m <= y
<1> DEFINE R == OpToRel(<, Nat)
<1>1. IsWellFoundedOn(R, Nat)
  BY NatLessThanWellFounded
<1>2. \E x \in S : \A y \in S : ~(<<y, x>> \in R)
  <2> HIDE DEF R
  <2> QED  BY <1>1, WFMin, Zenon
<1>3. \A x, y \in Nat : ~(<<y, x>> \in R) => x <= y
  BY DEF OpToRel
<1> QED  BY <1>2, <1>3

\* A finite set of naturals has an upper bound: the least prefix of an
\* enumeration without one would not exist.
LEMMA NatBounded ==
  ASSUME NEW S \in SUBSET Nat, IsFiniteSet(S)
  PROVE  \E b \in Nat : \A y \in S : y <= b
<1>1. PICK n \in Nat : ExistsBijection(1 .. n, S)
  BY FS_CardinalityType
<1>2. PICK f \in [1 .. n -> S] : \A y \in S : \E i \in 1 .. n : f[i] = y
  BY <1>1 DEF ExistsBijection, Bijection, Injection, Surjection
<1>3. \A i \in 1 .. n : f[i] \in Nat
  BY <1>2
<1> DEFINE Has(k) == \E b \in Nat : \A i \in 1 .. k : f[i] <= b
           T == {k \in 0 .. n : ~Has(k)}
<1>4. T = {}
  <2> SUFFICES ASSUME T # {} PROVE FALSE
    OBVIOUS
  <2>1. PICK k \in T : \A y \in T : k <= y
    <3>1. T \in SUBSET Nat
      BY <1>1
    <3> HIDE DEF T
    <3> QED  BY <3>1, NatMin
  <2>2. k \in 0 .. n /\ ~Has(k)
    BY <2>1
  <2>3. k # 0
    <3>1. 0 \in Nat /\ \A i \in 1 .. 0 : f[i] <= 0
      OBVIOUS
    <3> QED  BY <3>1, <2>2
  <2>4. k - 1 \in 0 .. n /\ k \in 1 .. n /\ ~(k <= k - 1)
    BY <2>2, <2>3
  <2>5. Has(k - 1)
    <3> HIDE DEF Has
    <3> QED  BY <2>4, <2>1
  <2>6. PICK b \in Nat : \A i \in 1 .. (k - 1) : f[i] <= b
    BY <2>5
  <2>7. PICK c \in Nat : b <= c /\ f[k] <= c
    <3>1. \A v \in Nat : b <= b + v /\ v <= b + v /\ b + v \in Nat
      BY <2>6
    <3>2. f[k] \in Nat
      BY <2>4, <1>3
    <3> QED  BY <3>1, <3>2
  <2>8. \A i \in 1 .. k : f[i] <= c
    <3> SUFFICES ASSUME NEW i \in 1 .. k PROVE f[i] <= c
      OBVIOUS
    <3>1. CASE i = k
      BY <3>1, <2>7
    <3>2. CASE i # k
      <4>1. i \in 1 .. (k - 1) /\ i \in 1 .. n
        BY <3>2, <2>4
      <4>2. f[i] <= b /\ f[i] \in Nat
        BY <4>1, <2>6, <1>3
      <4> HIDE DEF Has, T
      <4> QED  BY <4>2, <2>7
    <3> QED  BY <3>1, <3>2
  <2> QED  BY <2>2, <2>8
<1>5. Has(n)
  <2>1. n \in 0 .. n
    BY <1>1
  <2> HIDE DEF Has
  <2> QED  BY <1>4, <2>1
<1> QED  BY <1>5, <1>2

\* max() of a column: of a finite set that is not empty, a greatest element.
LEMMA MaxFacts ==
  ASSUME NEW S \in SUBSET Nat, IsFiniteSet(S), S # {}
  PROVE  Max(S) \in S /\ \A y \in S : y <= Max(S)
<1> DEFINE B == {b \in Nat : \A y \in S : y <= b}
<1>1. B # {}
  BY NatBounded
<1>2. PICK m \in B : \A b \in B : m <= b
  BY <1>1, NatMin
<1>3. m \in S
  <2> SUFFICES ASSUME m \notin S PROVE FALSE
    OBVIOUS
  <2>1. \A y \in S : y < m
    BY <1>2
  <2>2. m # 0
    <3>1. PICK y \in S : TRUE
      OBVIOUS
    <3>2. y \in Nat /\ y < m
      BY <3>1, <2>1
    <3> QED  BY <3>2
  <2>3. m - 1 \in B
    BY <2>1, <2>2, <1>2
  <2> QED  BY <2>3, <1>2
<1>4. m \in S /\ \A y \in S : m >= y
  BY <1>2, <1>3
<1>5. Max(S) \in S /\ \A y \in S : Max(S) >= y
  BY <1>4 DEF Max
<1> QED  BY <1>5

\* minOrNull() of a column that is not empty is its least element.
LEMMA MinFacts ==
  ASSUME NEW S \in SUBSET Nat, S # {}
  PROVE  Min(S) \in S /\ \A y \in S : Min(S) <= y
<1>1. PICK m \in S : \A y \in S : m <= y
  BY NatMin
<1> QED  BY <1>1 DEF Min

-----------------------------------------------------------------------------

\* What the planner's choices have in common: a full rebuild has no lower bound,
\* one that does not seed has leave to drop history, and only an existing model
\* is seeded from (ResolvedSubtree).
LEMMA PlanFacts ==
  \A p \in Plans :
    /\ p.subtree.lower \in {"none", "frontier", "lookback", "forced"}
    /\ p.subtree.execution \in {"seeded", "unseeded", "full"}
    /\ p.subtree.execution = "full" => p.subtree.lower = "none"
    /\ p.subtree.execution = "unseeded" => p.mayDrop
    /\ p.subtree.execution = "seeded" => p.active
<1> SUFFICES ASSUME NEW c \in Changes
             PROVE  /\ ResolvedSubtree(c).lower \in {"none", "frontier", "lookback", "forced"}
                    /\ ResolvedSubtree(c).execution \in {"seeded", "unseeded", "full"}
                    /\ ResolvedSubtree(c).execution = "full" => ResolvedSubtree(c).lower = "none"
                    /\ ResolvedSubtree(c).execution = "unseeded" => MayDropHistory(c)
                    /\ ResolvedSubtree(c).execution = "seeded" => c.columns # "create"
  <2> TAKE p \in Plans
  <2>1. PICK c \in Changes : p = [subtree |-> ResolvedSubtree(c), active |-> c.columns # "create",
                                  mayDrop |-> MayDropHistory(c)]
    BY DEF Plans
  <2>2. p.subtree = ResolvedSubtree(c) /\ p.active = (c.columns # "create") /\ p.mayDrop = MayDropHistory(c)
    BY <2>1
  <2> QED  BY <2>2
<1>1. /\ c.flag \in {"none", "full_refresh", "start_time"}
      /\ PolicyRule(c) \in {"none", "full", "bounded", "lookback"}
      /\ c.columns = "create" => ~c.lineage
      /\ c.lineage \in BOOLEAN
      /\ c.fallback \in {"full", "bounded_without_history"}
  BY DEF Changes, PolicyRule, Rules
<1>2. /\ ExecutionPolicy(c).lower \in {"none", "frontier", "lookback"}
      /\ ExecutionPolicy(c).execution \in {"seeded", "unseeded", "full"}
      /\ ExecutionPolicy(c).execution = "full" => ExecutionPolicy(c).lower = "none"
      /\ ExecutionPolicy(c).execution = "unseeded" =>
            PolicyRule(c) \in {"bounded", "lookback"} /\ ~Seedable(c)
  BY <1>1 DEF ExecutionPolicy, Subtree
<1>3. /\ RebuildSubtree(c).lower \in {"none", "frontier", "lookback", "forced"}
      /\ RebuildSubtree(c).execution \in {"seeded", "unseeded", "full"}
      /\ RebuildSubtree(c).execution = "full" => RebuildSubtree(c).lower = "none"
      /\ RebuildSubtree(c).execution = "unseeded" =>
            /\ c.flag = "none"
            /\ PolicyRule(c) \in {"bounded", "lookback"} /\ ~Seedable(c)
  BY <1>1, <1>2 DEF RebuildSubtree, Subtree
<1>4. CASE RebuildSubtree(c).execution # "seeded" \/ c.lineage
  <2>1. ResolvedSubtree(c) = RebuildSubtree(c)
    BY <1>4 DEF ResolvedSubtree
  <2> QED  BY <2>1, <1>1, <1>3, <1>4 DEF MayDropHistory
<1>5. CASE ~(RebuildSubtree(c).execution # "seeded" \/ c.lineage)
  BY <1>1, <1>3, <1>5 DEF ResolvedSubtree, Subtree, MayDropHistory
<1> QED  BY <1>4, <1>5

\* The anchor and the active model are finite, their columns numbers.
LEMMA ColumnTypes ==
  ASSUME TypeOK
  PROVE  /\ Rows \subseteq Nat /\ IsFiniteSet(Rows)
         /\ Active \subseteq Anchor /\ Anchor \subseteq Rows
         /\ IsFiniteSet(Anchor) /\ IsFiniteSet(Active)
         /\ \A r \in Rows : Column(r) \in Nat
<1>1. Rows \subseteq Nat /\ IsFiniteSet(Rows)
  BY ReplayAssumption
<1>2. Active \subseteq Anchor /\ Anchor \subseteq Rows
  BY DEF Active, Anchor
<1>3. IsFiniteSet(Anchor) /\ IsFiniteSet(Active)
  BY <1>1, <1>2, FS_Subset
<1>4. \A r \in Rows : Column(r) \in Nat
  BY <1>1 DEF TypeOK, RowType, Column
<1> QED  BY <1>1, <1>2, <1>3, <1>4

\* A watermark of a partition is the greatest row of it.
LEMMA GreatestOf ==
  ASSUME NEW S \in SUBSET Rows
  PROVE  /\ \A b \in Greatest(S) : b[2] \in Rows
         /\ \A r \in S : \E b \in Greatest(S) : b[1] = PartitionOf[r] /\ r <= b[2]
         /\ \A b \in Greatest(S) : b[2] \in S /\ PartitionOf[b[2]] = b[1]
<1> DEFINE Of(p) == {r \in S : PartitionOf[r] = p}
<1>1. ASSUME NEW p \in {PartitionOf[r] : r \in S}
      PROVE  Max(Of(p)) \in Of(p) /\ \A y \in Of(p) : y <= Max(Of(p))
  <2>1. Of(p) \in SUBSET Rows /\ Of(p) # {}
    OBVIOUS
  <2>2. IsFiniteSet(Of(p)) /\ Of(p) \in SUBSET Nat
    BY <2>1, FS_Subset, ReplayAssumption
  <2> HIDE DEF Of
  <2> QED  BY <2>1, <2>2, MaxFacts
<1>2. Greatest(S) = {<<p, Max(Of(p))>> : p \in {PartitionOf[r] : r \in S}}
  BY DEF Greatest
<1>3. \A b \in Greatest(S) : b[2] \in S /\ PartitionOf[b[2]] = b[1]
  <2> TAKE b \in Greatest(S)
  <2>1. PICK p \in {PartitionOf[r] : r \in S} : b = <<p, Max(Of(p))>>
    BY <1>2
  <2>2. b[1] = p /\ b[2] = Max(Of(p))
    BY <2>1
  <2>3. b[2] \in Of(p)
    BY <2>2, <1>1
  <2> QED  BY <2>2, <2>3
<1>4. \A r \in S : \E b \in Greatest(S) : b[1] = PartitionOf[r] /\ r <= b[2]
  <2> TAKE r \in S
  <2> DEFINE p == PartitionOf[r]
             b == <<p, Max(Of(p))>>
  <2>1. p \in {PartitionOf[q] : q \in S} /\ r \in Of(p)
    OBVIOUS
  <2>2. b \in Greatest(S)
    BY <1>2, <2>1
  <2>3. r <= Max(Of(p))
    BY <1>1, <2>1
  <2>4. b[1] = p /\ b[2] = Max(Of(p))
    OBVIOUS
  <2> HIDE DEF b, Of
  <2> QED  BY <2>2, <2>3, <2>4
<1> QED  BY <1>3, <1>4

\* The greatest value of a column of a table, or 0.
LEMMA FrontierOf ==
  ASSUME NEW A \in SUBSET Rows, NEW f \in [A -> Nat]
  PROVE  LET C == {0} \cup {f[r] : r \in A}
         IN  Max(C) \in C /\ Max(C) \in Nat /\ \A y \in C : y <= Max(C)
<1> DEFINE D == {f[r] : r \in A}
           C == {0} \cup D
<1>1. IsFiniteSet(A)
  BY FS_Subset, ReplayAssumption
<1>2. f \in Surjection(A, D)
  BY DEF Surjection
<1>3. IsFiniteSet(D)
  <2> HIDE DEF D
  <2> QED  BY <1>1, <1>2, FS_Surjection
<1>4. IsFiniteSet(C)
  <2>1. IsFiniteSet(D \cup {0})
    <3> HIDE DEF D
    <3> QED  BY <1>3, FS_AddElement
  <2>2. C = D \cup {0}
    OBVIOUS
  <2> HIDE DEF C, D
  <2> QED  BY <2>1, <2>2
<1>5. C \in SUBSET Nat /\ C # {}
  OBVIOUS
<1>6. Max(C) \in C /\ \A y \in C : y <= Max(C)
  <2> HIDE DEF C
  <2> QED  BY <1>4, <1>5, MaxFacts
<1>7. Max(C) \in Nat
  <2> HIDE DEF C
  <2> QED  BY <1>5, <1>6
<1> QED  BY <1>6, <1>7

\* The frontier of the active model in the lineage column.
Frontier == Max({0} \cup {Column(r) : r \in Active})

IsFrontier ==
  /\ Frontier \in Nat
  /\ \A r \in Active : Column(r) <= Frontier
  /\ Frontier = 0 \/ \E r \in Active : Column(r) = Frontier

\* No row of the active model lies beyond its frontier, and one lies at it.
LEMMA FrontierFacts == TypeOK => IsFrontier
<1> HAVE TypeOK
<1> DEFINE f == [r \in Active |-> Column(r)]
           C == {0} \cup {f[r] : r \in Active}
<1>1. Active \in SUBSET Rows /\ f \in [Active -> Nat]
  BY ColumnTypes
<1>2. Max(C) \in C /\ Max(C) \in Nat /\ \A y \in C : y <= Max(C)
  <2> HIDE DEF f
  <2> QED  BY <1>1, FrontierOf
<1>3. {f[r] : r \in Active} = {Column(r) : r \in Active}
  OBVIOUS
<1>4. Frontier = Max(C)
  BY <1>3 DEF Frontier
<1>5. \A r \in Active : f[r] = Column(r) /\ f[r] \in C
  OBVIOUS
<1>6. \A y \in C : y = 0 \/ \E r \in Active : Column(r) = y
  BY <1>3
<1> HIDE DEF C, f
<1> QED  BY <1>2, <1>4, <1>5, <1>6 DEF IsFrontier

\* Lower bounds can be compared with columns.
LEMMA BoundsTyped ==
  TypeOK /\ Rows # {} => \A b \in LowerBounds : b[2] \in Int
<1> SUFFICES ASSUME TypeOK, Rows # {} PROVE \A b \in LowerBounds : b[2] \in Int
  OBVIOUS
<1>1. LowerTime \in Int
  BY ReplayAssumption DEF LowerTime, TypeOK
<1>2. \A b \in OffsetLowerBounds : b[2] \in Int
  <2> DEFINE S == IF plan.subtree.lower = "frontier" THEN Active
                  ELSE {q \in Anchor : row[q].landed <= LowerTime}
  <2>1. S \in SUBSET Rows
    BY ColumnTypes
  <2>2. OffsetLowerBounds = Greatest(S)
    BY DEF OffsetLowerBounds
  <2>3. \A b \in Greatest(S) : b[2] \in Rows
    <3> HIDE DEF S
    <3> QED  BY <2>1, GreatestOf
  <2>4. Rows \subseteq Int
    BY ReplayAssumption
  <2> HIDE DEF S
  <2> QED  BY <2>2, <2>3, <2>4
<1>3. CursorLowerBound \in Int
  <2> DEFINE from == {q \in Anchor : row[q].stamp >= LowerTime /\ BelowCutoff(q)}
  <2>1. from \in SUBSET Nat
    BY ColumnTypes
  <2>2. from # {} => Min(from) \in Nat
    <3> HIDE DEF from
    <3> QED  BY <2>1, MinFacts
  <2>3. Max(Rows) \in Nat
    BY ColumnTypes, MaxFacts
  <2>4. CursorLowerBound = IF from = {} THEN Max(Rows) + 1 ELSE Min(from)
    BY DEF CursorLowerBound
  <2> HIDE DEF from
  <2> QED  BY <2>2, <2>3, <2>4
<1>4. ScalarLowerBound \in Int
  BY <1>1, <1>3, FrontierFacts DEF ScalarLowerBound, IsFrontier, Frontier
<1> QED  BY <1>2, <1>4 DEF LowerBounds

\* While rows land, the lower bounds that a seed can read never fall: a row below
\* the bound of the seed statement stays below the one the replay statement reads.
LEMMA BoundsGrow ==
  ASSUME TypeOK, TypeOK', UNCHANGED <<mode, plan, boundary>>,
         \A q \in Anchor : q \in Anchor' /\ row'[q] = row[q],
         SeedResolves, NEW r \in Anchor, BelowBound(r, LowerBounds)
  PROVE  BelowBound(r, LowerBounds)'
<1>1. plan.subtree.lower \in {"frontier", "lookback", "forced"}
  BY PlanFacts DEF TypeOK, LowerBounds, BelowBound, Bound
<1>2. \A q \in Anchor : Column(q)' = Column(q)
  BY DEF Column
<1>3. Active \subseteq Active'
  BY DEF Active
<1>4. LowerTime' = LowerTime
  BY DEF LowerTime
<1>5. r \in Rows /\ Column(r) \in Nat /\ Column(r)' = Column(r)
  BY ColumnTypes, <1>2
<1>6. CASE mode = "offsets"
  <2> DEFINE S == IF plan.subtree.lower = "frontier" THEN Active
                  ELSE {q \in Anchor : row[q].landed <= LowerTime}
             T == IF plan.subtree.lower = "frontier" THEN Active'
                  ELSE {q \in Anchor' : row'[q].landed <= LowerTime}
  <2>1. S \in SUBSET Rows /\ T \in SUBSET Rows
    BY DEF Active, Anchor
  <2>2. S \subseteq T
    BY <1>3
  <2>3. LowerBounds = Greatest(S) /\ LowerBounds' = Greatest(T)
    BY <1>1, <1>4, <1>6 DEF LowerBounds, OffsetLowerBounds
  <2>4. PICK b \in Greatest(S) : b[1] = PartitionOf[r] /\ Column(r) < b[2]
    BY <2>3, <1>6 DEF BelowBound, Bound
  <2> HIDE DEF S, T
  <2>5. b[2] \in T /\ PartitionOf[b[2]] = b[1]
    BY <2>1, <2>2, <2>4, GreatestOf
  <2>6. PICK c \in Greatest(T) : c[1] = PartitionOf[b[2]] /\ b[2] <= c[2]
    BY <2>1, <2>5, GreatestOf
  <2>7. b[2] \in Nat /\ c[2] \in Nat
    BY <2>1, <2>4, <2>6, GreatestOf, ReplayAssumption
  <2>8. c[1] = PartitionOf[r] /\ Column(r)' < c[2]
    BY <2>4, <2>5, <2>6, <2>7, <1>5
  <2> QED  BY <2>3, <2>6, <2>8, <1>6 DEF BelowBound, Bound
<1>7. CASE mode # "offsets"
  <2>1. LowerBounds = {<<0, ScalarLowerBound>>} /\ LowerBounds' = {<<0, ScalarLowerBound'>>}
    BY <1>1, <1>7 DEF LowerBounds
  <2>2. Column(r) < ScalarLowerBound
    BY <2>1 DEF BelowBound, Bound
  <2>3. ScalarLowerBound <= ScalarLowerBound'
    <3>1. CASE plan.subtree.lower = "frontier"
      <4>1. ScalarLowerBound = Frontier /\ ScalarLowerBound' = Frontier'
        BY <3>1 DEF ScalarLowerBound, Frontier
      <4>2. IsFrontier /\ IsFrontier'
        BY FrontierFacts, PTL
      <4>3. Frontier <= Frontier'
        <5>1. CASE Frontier = 0
          BY <5>1, <4>2 DEF IsFrontier
        <5>2. CASE Frontier # 0
          <6>1. PICK q \in Active : Column(q) = Frontier
            BY <5>2, <4>2 DEF IsFrontier
          <6>2. q \in Active' /\ Column(q)' = Frontier
            BY <6>1, <1>2, <1>3, ColumnTypes
          <6> QED  BY <6>2, <4>2 DEF IsFrontier
        <5> QED  BY <5>1, <5>2
      <4> QED  BY <4>1, <4>3
    <3>2. CASE plan.subtree.lower # "frontier"
      <4>1. mode # "cursor"
        BY <1>1, <3>2 DEF SeedResolves
      <4>2. ScalarLowerBound = LowerTime /\ ScalarLowerBound' = LowerTime
        BY <1>4, <3>2, <4>1 DEF ScalarLowerBound
      <4>3. LowerTime \in Int
        BY ReplayAssumption DEF LowerTime, TypeOK
      <4> QED  BY <4>2, <4>3
    <3> QED  BY <3>1, <3>2
  <2>4. ScalarLowerBound \in Int /\ ScalarLowerBound' \in Int
    <3>1. ScalarLowerBound \in Int
      BY <2>1, <1>5, BoundsTyped
    <3>2. (\A b \in LowerBounds : b[2] \in Int)'
      <4>1. (Rows # {})'
        BY <1>5
      <4> QED  BY <4>1, BoundsTyped, PTL
    <3> QED  BY <3>1, <3>2, <2>1
  <2>5. Column(r)' < ScalarLowerBound'
    BY <2>2, <2>3, <2>4, <1>5
  <2>6. mode' # "offsets" /\ \E b \in LowerBounds' : b[1] = 0 /\ Column(r)' < b[2]
    BY <2>1, <2>5, <1>7
  <2> QED  BY <2>6 DEF BelowBound, Bound
<1> QED  BY <1>6, <1>7

\* A staged table has every row, the absent table none.
LEMMA NoTableEmpty == Rows # {} => NoTable \notin [Rows -> Nat]
  BY DEF NoTable

\* An INSERT SELECT adds one of each selected row.
LEMMA InsertedFacts ==
  ASSUME staged \in [Rows -> Nat], NEW new
  PROVE  /\ Inserted(new) \in [Rows -> Nat]
         /\ \A r \in Rows : Inserted(new)[r] = staged[r] + (IF r \in new THEN 1 ELSE 0)
  BY DEF Inserted

\* Cutoffs can be compared with columns.
LEMMA WatermarksTyped == TypeOK => \A c \in Watermarks : c[2] \in Int
<1> HAVE TypeOK
<1>1. Rows \subseteq Int /\ Anchor \subseteq Rows
  BY ReplayAssumption DEF Anchor
<1>2. CASE mode = "offsets"
  <2> DEFINE S == {r \in Anchor : row[r].landed <= boundary}
  <2>1. S \in SUBSET Rows
    BY DEF Anchor
  <2>2. Watermarks = Greatest(S)
    BY <1>2 DEF Watermarks
  <2> HIDE DEF S
  <2>3. \A c \in Greatest(S) : c[2] \in Rows
    BY <2>1, GreatestOf
  <2> QED  BY <1>1, <2>2, <2>3
<1>3. CASE mode # "offsets"
  <2>1. Anchor # {} => ScalarCutoff \in Int
    <3>1. Anchor # {} => Max(Anchor) \in Anchor
      BY ColumnTypes, MaxFacts
    <3>2. Anchor # {} => Max(Anchor) \in Int
      BY <3>1, <1>1
    <3>3. boundary \in Int
      BY DEF TypeOK
    <3> QED  BY <3>2, <3>3 DEF ScalarCutoff
  <2> QED  BY <1>3, <2>1 DEF Watermarks
<1> QED  BY <1>2, <1>3

\* The watermarks cover every row that had landed by the boundary time, in each
\* lineage mode, unless its producer stamped it ahead of that time.
LEMMA WatermarksCover ==
  ASSUME TypeOK, NEW r \in Anchor, row[r].landed <= boundary, ~StampedAhead(r)
  PROVE  \E c \in Watermarks : /\ c[1] = (IF mode = "offsets" THEN PartitionOf[r] ELSE 0)
                               /\ Column(r) <= c[2]
<1>1. CASE mode = "offsets"
  <2> DEFINE S == {q \in Anchor : row[q].landed <= boundary}
  <2>1. S \in SUBSET Rows /\ r \in S
    BY DEF Anchor
  <2>2. Watermarks = Greatest(S) /\ Column(r) = r
    BY <1>1 DEF Watermarks, Column
  <2> HIDE DEF S
  <2> QED  BY <1>1, <2>1, <2>2, GreatestOf
<1>2. CASE mode # "offsets"
  <2>1. Watermarks = {<<0, ScalarCutoff>>}
    BY <1>2 DEF Watermarks
  <2>2. Column(r) <= ScalarCutoff
    <3>1. CASE mode = "cursor"
      <4>1. r <= Max(Anchor) /\ Column(r) = r
        BY <3>1, ColumnTypes, MaxFacts DEF Column
      <4> QED  BY <3>1, <4>1 DEF ScalarCutoff
    <3>2. CASE mode # "cursor"
      <4>1. mode \in {"timestamp", "landed_at"} /\ row[r].stamp \in Nat /\ boundary \in Nat
        BY <1>2, <3>2, ReplayAssumption DEF TypeOK, RowType, Anchor
      <4>2. mode = "timestamp" => row[r].stamp <= boundary
        BY <4>1 DEF StampedAhead
      <4> QED  BY <3>2, <4>1, <4>2 DEF ScalarCutoff, Column
    <3> QED  BY <3>1, <3>2
  <2> QED  BY <1>2, <2>1, <2>2
<1> QED  BY <1>1, <1>2

\* Every state of a staged build satisfies the inductive invariant, whatever lands
\* meanwhile and wherever builds stop.
THEOREM ReplayInvariant == Spec => []ReplayInv
<1>1. Init => ReplayInv
  <2> SUFFICES ASSUME Init PROVE ReplayInv
    OBVIOUS
  <2>1. now \in Nat \ {0} /\ \A r \in Old : r <= now
    <3>1. {1} \cup Old \in SUBSET Nat /\ {1} \cup Old # {}
      BY ReplayAssumption
    <3>2. IsFiniteSet({1} \cup Old)
      <4>1. IsFiniteSet(Old)
        BY FS_Subset, ReplayAssumption
      <4> QED  BY <4>1, FS_AddElement
    <3> DEFINE S == {1} \cup Old
    <3>3. Max(S) \in S /\ \A y \in S : y <= Max(S)
      <4> HIDE DEF S
      <4> QED  BY <3>1, <3>2, MaxFacts DEF S
    <3>4. 1 \in S /\ Old \subseteq S /\ S \subseteq Nat
      BY <3>1
    <3>5. now = Max(S)
      BY DEF Init
    <3> HIDE DEF S
    <3>6. now \in Nat /\ 1 <= now /\ \A r \in Old : r <= now
      BY <3>3, <3>4, <3>5
    <3> QED  BY <3>6
  <2>2. row \in [Rows -> RowType]
    BY ReplayAssumption DEF Init, Unlanded, RowType
  <2>3. \A r \in Rows : IF r \in Old THEN /\ row[r].state = "visible" /\ row[r].landed = r
                                          /\ row[r].stamp = r
                                          /\ row[r].feeds = IF plan.active THEN {"active"} ELSE {}
                                     ELSE row[r].state = "none" /\ row[r].feeds = {}
    BY DEF Init, Unlanded
  <2>4. TypeOK
    BY <2>1, <2>2 DEF Init, TypeOK, Statement
  <2>5. RowsInv
    <3> SUFFICES ASSUME NEW r \in Rows, row[r].state # "none"
                 PROVE  /\ row[r].landed <= now
                        /\ plan.active => "active" \in row[r].feeds
      BY DEF RowsInv
    <3>1. r \in Old
      BY <2>3
    <3>2. r \in Nat /\ r <= now
      BY <3>1, <2>1, ReplayAssumption
    <3>3. row[r].landed = r /\ row[r].stamp = r /\ (plan.active => "active" \in row[r].feeds)
      BY <3>1, <2>3
    <3> QED  BY <3>2, <3>3
  <2>6. TablesInv /\ FedInv
    BY <2>3 DEF Init, TablesInv, FedInv
  <2>7. WaitedInv /\ BoundaryInv /\ CutoffInv /\ SeededInv /\ HistoryInv /\ CountInv
    BY DEF Init, WaitedInv, Waited, BoundaryInv, CutoffInv, Captured, SeededInv, HistoryInv,
       CountInv
  <2> QED  BY <2>4, <2>5, <2>6, <2>7 DEF ReplayInv
<1>2. ReplayInv /\ [Next]_vars => ReplayInv'
  <2> SUFFICES ASSUME ReplayInv, [Next]_vars PROVE ReplayInv'
    OBVIOUS
  <2> USE DEF ReplayInv
  <2>1. CASE Tick
    <3> USE <2>1 DEF Tick, world, metadata, ghosts
    <3>1. TypeOK'
      BY DEF TypeOK, Statement
    <3>2. RowsInv' /\ TablesInv' /\ FedInv'
      BY DEF TypeOK, RowType, RowsInv, TablesInv, FedInv
    <3>3. WaitedInv' /\ BoundaryInv' /\ CutoffInv' /\ SeededInv'
      BY DEF TablesInv, WaitedInv, Waited, Loose, BoundaryInv, CutoffInv, Captured, BelowCutoff,
         StampedAhead, Column, SeededInv, BelowBound, Bound
    <3>4. HistoryInv'
      BY DEF TablesInv, HistoryInv, Explained, Anchor, BelowCutoff, StampedAhead, Column
    <3>5. CountInv'
      <4>1. \A r \in Anchor : SeedResolves /\ BelowBound(r, LowerBounds)
                                => BelowBound(r, LowerBounds)'
        BY <3>1, BoundsGrow DEF Anchor
      <4> QED  BY <4>1 DEF CountInv, Fed, Anchor, SeedResolves
    <3> QED  BY <3>1, <3>2, <3>3, <3>4, <3>5 DEF ReplayInv
  <2>2. CASE StartBuild
    <3> USE <2>2 DEF StartBuild, world, metadata, ghosts
    <3>1. TypeOK'
      <4>1. builds \in Nat => builds + 1 \in Nat
        OBVIOUS
      <4> QED  BY <4>1 DEF TypeOK, Statement
    <3>2. RowsInv' /\ TablesInv' /\ FedInv'
      BY DEF TypeOK, RowType, RowsInv, TablesInv, FedInv
    <3>3. WaitedInv' /\ BoundaryInv' /\ CutoffInv' /\ SeededInv'
      BY DEF TablesInv, WaitedInv, Waited, Loose, BoundaryInv, CutoffInv, Captured, BelowCutoff,
         StampedAhead, Column, SeededInv, BelowBound, Bound
    <3>4. HistoryInv'
      BY DEF TablesInv, HistoryInv, Explained, Anchor, BelowCutoff, StampedAhead, Column
    <3>5. CountInv'
      BY DEF TypeOK, TablesInv, CountInv, Fed, BeforeInserts, Statement, Anchor
    <3> QED  BY <3>1, <3>2, <3>3, <3>4, <3>5 DEF ReplayInv
  <2>3. CASE RealizeTable
    <3> USE <2>3 DEF RealizeTable, world, metadata, ghosts
    <3>1. TypeOK'
      BY DEF TypeOK, Statement
    <3>2. RowsInv' /\ TablesInv'
      BY DEF TypeOK, RowType, RowsInv, TablesInv
    <3>3. FedInv'
      BY NoTableEmpty DEF TablesInv, FedInv
    <3>4. WaitedInv' /\ BoundaryInv' /\ CutoffInv' /\ SeededInv'
      BY DEF TablesInv, WaitedInv, Waited, Loose, BoundaryInv, CutoffInv, Captured, BelowCutoff,
         StampedAhead, Column, SeededInv, BelowBound, Bound
    <3>5. HistoryInv'
      BY DEF TablesInv, HistoryInv, Explained, Anchor, BelowCutoff, StampedAhead, Column
    <3>6. CountInv'
      BY DEF TypeOK, TablesInv, CountInv, Fed, BeforeInserts, Statement, Anchor
    <3> QED  BY <3>1, <3>2, <3>3, <3>4, <3>5, <3>6 DEF ReplayInv
  <2>4. CASE RealizeView
    <3> USE <2>4 DEF RealizeView, world, metadata, ghosts
    <3>1. TypeOK'
      BY DEF TypeOK, Statement
    <3>2. RowsInv' /\ TablesInv' /\ FedInv'
      BY DEF TypeOK, RowType, RowsInv, TablesInv, FedInv
    <3>3. WaitedInv' /\ BoundaryInv' /\ CutoffInv' /\ SeededInv'
      BY DEF TablesInv, WaitedInv, Waited, Loose, BoundaryInv, CutoffInv, Captured, BelowCutoff,
         StampedAhead, Column, SeededInv, BelowBound, Bound
    <3>4. HistoryInv'
      BY DEF TablesInv, HistoryInv, Explained, Anchor, BelowCutoff, StampedAhead, Column
    <3>5. CountInv'
      BY DEF TypeOK, TablesInv, CountInv, Fed, BeforeInserts, Statement, Anchor
    <3> QED  BY <3>1, <3>2, <3>3, <3>4, <3>5 DEF ReplayInv
  <2>5. CASE WaitForStabilization
    <3> USE <2>5 DEF WaitForStabilization, world, metadata, ghosts
    <3>1. TypeOK'
      BY DEF TypeOK, Statement
    <3>2. RowsInv' /\ TablesInv' /\ FedInv'
      BY DEF TypeOK, RowType, RowsInv, TablesInv, FedInv
    <3>3. BoundaryInv' /\ CutoffInv' /\ SeededInv'
      BY DEF TablesInv, BoundaryInv, Loose, CutoffInv, Captured, BelowCutoff, StampedAhead,
         Column, SeededInv, BelowBound, Bound
    <3>4. WaitedInv'
      BY DEF TypeOK, RowType, WaitedInv, Waited, Loose
    <3>5. HistoryInv'
      BY DEF TablesInv, HistoryInv, Explained, Anchor, BelowCutoff, StampedAhead, Column
    <3>6. CountInv'
      BY DEF TypeOK, TablesInv, CountInv, Fed, BeforeInserts, Statement, Anchor
    <3> QED  BY <3>1, <3>2, <3>3, <3>4, <3>5, <3>6 DEF ReplayInv
  <2>6. CASE CaptureBoundaryTime
    <3> USE <2>6 DEF CaptureBoundaryTime, world, metadata, ghosts
    <3>1. TypeOK'
      BY DEF TypeOK, Statement
    <3>2. RowsInv' /\ TablesInv' /\ FedInv'
      BY DEF TypeOK, RowType, RowsInv, TablesInv, FedInv
    <3>3. WaitedInv' /\ CutoffInv' /\ SeededInv'
      BY DEF TablesInv, WaitedInv, Waited, Loose, CutoffInv, Captured, BelowCutoff, StampedAhead,
         Column, SeededInv, BelowBound, Bound
    <3>4. BoundaryInv'
      BY DEF TypeOK, RowType, RowsInv, TablesInv, BoundaryInv, WaitedInv, Waited, Loose
    <3>5. HistoryInv'
      BY DEF TablesInv, HistoryInv, Explained, Anchor, BelowCutoff, StampedAhead, Column
    <3>6. CountInv'
      BY DEF TypeOK, TablesInv, CountInv, Fed, BeforeInserts, Statement, Anchor
    <3> QED  BY <3>1, <3>2, <3>3, <3>4, <3>5, <3>6 DEF ReplayInv
  <2>7. CASE CaptureWatermark
    <3> USE <2>7 DEF CaptureWatermark, world, metadata, ghosts
    <3>1. TypeOK'
      BY WatermarksTyped DEF TypeOK, Statement
    <3>2. RowsInv' /\ TablesInv' /\ FedInv'
      BY DEF TypeOK, RowType, RowsInv, TablesInv, FedInv
    <3>3. WaitedInv' /\ BoundaryInv' /\ SeededInv'
      BY DEF TablesInv, WaitedInv, Waited, Loose, BoundaryInv, SeededInv, BelowBound, Bound,
         Column
    <3>4. CutoffInv'
      <4> SUFFICES ASSUME drops = 0, NEW r \in Rows, Loose(r), ~StampedAhead(r)
                   PROVE  BelowCutoff(r)'
        BY DEF CutoffInv, Captured, Loose, StampedAhead
      <4>1. CASE cutoffs # {}
        BY <4>1 DEF CutoffInv, Captured, BelowCutoff, StampedAhead, Column
      <4>2. CASE cutoffs = {}
        <5>1. r \in Anchor /\ row[r].landed <= boundary
          BY DEF TablesInv, WaitedInv, Waited, BoundaryInv, Anchor
        <5>2. PICK c \in Watermarks : /\ c[1] = (IF mode = "offsets" THEN PartitionOf[r] ELSE 0)
                                      /\ Column(r) <= c[2]
          BY <5>1, WatermarksCover
        <5>3. c \in cutoffs' /\ mode' = mode /\ Column(r)' = Column(r)
          BY <4>2, <5>2 DEF Column
        <5> QED  BY <5>2, <5>3 DEF BelowCutoff
      <4> QED  BY <4>1, <4>2
    <3>5. HistoryInv'
      BY DEF TablesInv, HistoryInv, Explained, Anchor, BelowCutoff, StampedAhead, Column
    <3>6. CountInv'
      BY DEF TypeOK, TablesInv, CountInv, Fed, BeforeInserts, Statement, Anchor
    <3> QED  BY <3>1, <3>2, <3>3, <3>4, <3>5, <3>6 DEF ReplayInv
  <2>8. CASE AssertQualifyingInput
    <3> USE <2>8 DEF AssertQualifyingInput, world, metadata, ghosts
    <3>1. TypeOK'
      BY DEF TypeOK, Statement
    <3>2. RowsInv' /\ TablesInv' /\ FedInv'
      BY DEF TypeOK, RowType, RowsInv, TablesInv, FedInv
    <3>3. WaitedInv' /\ BoundaryInv' /\ CutoffInv' /\ SeededInv'
      BY DEF TablesInv, WaitedInv, Waited, Loose, BoundaryInv, CutoffInv, Captured, BelowCutoff,
         StampedAhead, Column, SeededInv, BelowBound, Bound
    <3>4. HistoryInv'
      BY DEF TablesInv, HistoryInv, Explained, Anchor, BelowCutoff, StampedAhead, Column
    <3>5. CountInv'
      BY DEF TypeOK, TablesInv, CountInv, Fed, BeforeInserts, Statement, Anchor
    <3> QED  BY <3>1, <3>2, <3>3, <3>4, <3>5 DEF ReplayInv
  <2>9. CASE Seed
    <3> USE <2>9 DEF Seed, world, metadata, ghosts
    <3> DEFINE new == {r \in Active : BelowBound(r, LowerBounds)}
    <3>0. /\ staged \in [Rows -> Nat] /\ staged' \in [Rows -> Nat]
          /\ \A r \in Rows : staged'[r] = staged[r] + (IF r \in new THEN 1 ELSE 0)
      BY InsertedFacts DEF TablesInv
    <3> HIDE DEF new
    <3>1. TypeOK'
      <4>1. Rows # {} => \A b \in LowerBounds : b[2] \in Int
        BY BoundsTyped
      <4> QED  BY <3>0, <4>1 DEF TypeOK, Statement
    <3>2. RowsInv'
      BY DEF TypeOK, RowType, RowsInv
    <3>3. TablesInv'
      BY <3>0 DEF TypeOK, TablesInv
    <3>4. FedInv'
      BY <3>0 DEF FedInv
    <3>5. WaitedInv' /\ BoundaryInv' /\ CutoffInv'
      BY DEF TablesInv, WaitedInv, Waited, Loose, BoundaryInv, CutoffInv, Captured, BelowCutoff,
         StampedAhead, Column
    <3>6. SeededInv'
      <4> SUFFICES ASSUME plan.subtree.execution = "seeded",
                          NEW r \in Rows, Loose(r), BelowBound(r, LowerBounds)
                   PROVE  staged'[r] >= 1
        BY DEF SeededInv, Loose, BelowBound, Bound, Column
      <4>1. r \in Active
        BY PlanFacts DEF TypeOK, RowsInv, WaitedInv, Waited, Loose, Anchor, Active
      <4> QED  BY <4>1, <3>0 DEF new
    <3>7. HistoryInv'
      BY DEF TablesInv, HistoryInv, Explained, Anchor, BelowCutoff, StampedAhead, Column
    <3>8. CountInv'
      <4>1. \A r \in new : r \in Anchor /\ SeedResolves' /\ BelowBound(r, LowerBounds)'
        BY <3>1, BoundsGrow DEF new, Active, Anchor, SeedResolves
      <4>2. \A r \in Rows : staged[r] <= builds - 1 + Fed(r)
        BY <3>0, NoTableEmpty DEF CountInv, BeforeInserts, Statement
      <4> SUFFICES ASSUME NEW r \in Rows
                   PROVE  /\ staged'[r] <= builds + Fed(r)
                          /\ \/ staged'[r] <= builds - 1 + Fed(r)
                             \/ SeedResolves' /\ r \in Anchor /\ BelowBound(r, LowerBounds)'
        BY DEF CountInv, Fed, Anchor, BeforeInserts
      <4>3. Fed(r) \in Nat /\ builds \in Nat
        BY DEF Fed, TypeOK
      <4> QED  BY <3>0, <4>1, <4>2, <4>3
    <3> QED  BY <3>1, <3>2, <3>3, <3>4, <3>5, <3>6, <3>7, <3>8 DEF ReplayInv
  <2>10. CASE Replay
    <3> USE <2>10 DEF Replay, world, metadata, ghosts
    <3> DEFINE new == Replayed
    <3>0. /\ staged \in [Rows -> Nat] /\ staged' \in [Rows -> Nat]
          /\ \A r \in Rows : staged'[r] = staged[r] + (IF r \in new THEN 1 ELSE 0)
      BY InsertedFacts DEF TablesInv
    <3> HIDE DEF new
    <3>1. TypeOK'
      BY <3>0 DEF TypeOK, Statement
    <3>2. RowsInv'
      BY DEF TypeOK, RowType, RowsInv
    <3>3. TablesInv'
      BY <3>0 DEF TypeOK, TablesInv
    <3>4. FedInv'
      BY <3>0 DEF FedInv
    <3>5. WaitedInv' /\ BoundaryInv' /\ CutoffInv' /\ SeededInv'
      BY DEF TablesInv, WaitedInv, Waited, Loose, BoundaryInv, CutoffInv, Captured, BelowCutoff,
         StampedAhead, Column, SeededInv, BelowBound, Bound
    <3>6. HistoryInv'
      <4> SUFFICES ASSUME NEW r \in Anchor, staged'[r] = 0, r \notin slow
                   PROVE  \/ r \in seam' \/ (drops > 0 /\ ~BelowCutoff(r))
                          \/ StampedAhead(r) \/ r \in forgone'
        BY DEF HistoryInv, Explained, Anchor, TablesInv, BelowCutoff, StampedAhead, Column
      <4>1. r \in Rows /\ row[r].state = "visible"
        BY DEF Anchor
      <4>2. r \notin new /\ staged[r] = 0
        BY <3>0, <4>1
      <4>3. Loose(r)
        BY <4>1, <4>2, <3>0 DEF Loose, FedInv
      <4>4. CASE ~BelowCutoff(r)
        BY <4>1, <4>3, <4>4 DEF CutoffInv, Captured, TypeOK
      <4>5. CASE BelowCutoff(r)
        <5>1. ~FromBound(r, LowerBounds)
          BY <4>2, <4>5 DEF new, Replayed
        <5>2. r \in Below
          BY <5>1, <4>1, BoundsTyped, ColumnTypes DEF FromBound, BelowBound, Bound, Below
        <5>3. plan.subtree.lower # "none"
          BY <5>1 DEF FromBound, LowerBounds, Bound
        <5>4. CASE plan.subtree.execution = "seeded"
          <6>1. ~BelowBound(r, start)
            BY <5>4, <4>1, <4>2, <4>3 DEF SeededInv
          <6>2. FromBound(r, start)
            BY <6>1, <4>1, ColumnTypes DEF TypeOK, FromBound, BelowBound, Bound
          <6>3. seam' = Seam
            BY <5>4
          <6>4. r \in Seam
            BY <5>2, <6>2 DEF Seam
          <6> QED  BY <6>3, <6>4
        <5>5. CASE plan.subtree.execution # "seeded"
          BY <5>2, <5>3, <5>5, PlanFacts DEF TypeOK
        <5> QED  BY <5>4, <5>5
      <4> QED  BY <4>4, <4>5
    <3>7. CountInv'
      <4> SUFFICES ASSUME NEW r \in Rows PROVE staged'[r] <= builds + Fed(r)
        BY DEF CountInv, Fed, Anchor, BeforeInserts
      <4>1. Fed(r) \in Nat /\ builds \in Nat
        BY DEF Fed, TypeOK
      <4>2. staged # NoTable
        BY <3>0, NoTableEmpty
      <4>3. CASE staged[r] <= builds - 1 + Fed(r)
        BY <3>0, <4>1, <4>3
      <4>4. CASE BelowBound(r, LowerBounds)
        <5>1. r \notin new
          BY <4>4, BoundsTyped, ColumnTypes DEF new, Replayed, FromBound, BelowBound, Bound
        <5> QED  BY <5>1, <4>1, <4>2, <3>0 DEF CountInv
      <4> QED  BY <4>2, <4>3, <4>4 DEF CountInv
    <3> QED  BY <3>1, <3>2, <3>3, <3>4, <3>5, <3>6, <3>7 DEF ReplayInv
  <2>11. CASE AssertReadiness
    <3> USE <2>11 DEF AssertReadiness, world, metadata, ghosts
    <3>1. TypeOK'
      BY DEF TypeOK, Statement
    <3>2. RowsInv' /\ TablesInv' /\ FedInv'
      BY DEF TypeOK, RowType, RowsInv, TablesInv, FedInv
    <3>3. WaitedInv' /\ BoundaryInv' /\ CutoffInv' /\ SeededInv'
      BY DEF TablesInv, WaitedInv, Waited, Loose, BoundaryInv, CutoffInv, Captured, BelowCutoff,
         StampedAhead, Column, SeededInv, BelowBound, Bound
    <3>4. HistoryInv'
      BY DEF TablesInv, HistoryInv, Explained, Anchor, BelowCutoff, StampedAhead, Column
    <3>5. CountInv'
      BY DEF TypeOK, TablesInv, CountInv, Fed, BeforeInserts, Statement, Anchor
    <3> QED  BY <3>1, <3>2, <3>3, <3>4, <3>5 DEF ReplayInv
  <2>12. CASE Abort
    <3> USE <2>12 DEF Abort, world, metadata, ghosts
    <3>1. TypeOK'
      BY DEF TypeOK, Statement
    <3>2. RowsInv' /\ TablesInv' /\ FedInv'
      BY DEF TypeOK, RowType, RowsInv, TablesInv, FedInv
    <3>3. WaitedInv' /\ BoundaryInv' /\ CutoffInv' /\ SeededInv'
      BY DEF TablesInv, WaitedInv, Waited, Loose, BoundaryInv, CutoffInv, Captured, BelowCutoff,
         StampedAhead, Column, SeededInv, BelowBound, Bound
    <3>4. HistoryInv'
      BY DEF TablesInv, HistoryInv, Explained, Anchor, BelowCutoff, StampedAhead, Column
    <3>5. CountInv'
      BY DEF TypeOK, TablesInv, CountInv, Fed, BeforeInserts, Statement, Anchor
    <3> QED  BY <3>1, <3>2, <3>3, <3>4, <3>5 DEF ReplayInv
  <2>13. CASE JanitorDropsStaged
    <3> USE <2>13 DEF JanitorDropsStaged, world, metadata, ghosts
    <3>0. \A r \in Rows : /\ row'[r].state = row[r].state
                          /\ row'[r].landed = row[r].landed
                          /\ row'[r].stamp = row[r].stamp
                          /\ row'[r].feeds = row[r].feeds \ {"staged"}
                          /\ row'[r] \in RowType
      BY DEF TypeOK, RowType
    <3>d. drops \in Nat => drops + 1 \in Nat /\ drops + 1 # 0
      OBVIOUS
    <3>e. row' \in [Rows -> RowType] /\ drops' \in Nat \ {0}
      BY <3>0, <3>d DEF TypeOK
    <3>1. TypeOK'
      BY <3>e DEF TypeOK, Statement
    <3>2. RowsInv'
      BY <3>0 DEF RowsInv
    <3>3. TablesInv'
      BY <3>0, <3>e DEF TablesInv
    <3>4. FedInv'
      BY <3>0 DEF FedInv
    <3>5. SeededInv'
      BY DEF TablesInv, SeededInv, Loose, BelowBound, Bound, Column
    <3>6. WaitedInv'
      BY <3>e DEF WaitedInv, Waited, Captured, TablesInv
    <3>7. BoundaryInv'
      BY <3>e DEF BoundaryInv, Waited, Captured, TablesInv
    <3>8. CutoffInv'
      BY <3>e DEF CutoffInv, Waited, Captured, TablesInv
    <3>9. HistoryInv'
      BY <3>e DEF HistoryInv, Waited, Captured, TablesInv
    <3>10. CountInv'
      BY DEF TypeOK, TablesInv, CountInv, Fed, BeforeInserts, Statement, Anchor
    <3> QED  BY <3>1, <3>2, <3>3, <3>4, <3>5, <3>6, <3>7, <3>8, <3>9, <3>10 DEF ReplayInv
  <2>14. ASSUME NEW r \in Rows, BeginInsert(r) PROVE ReplayInv'
    <3> USE <2>14 DEF BeginInsert, world, metadata, ghosts
    <3>0. /\ \A q \in Rows \ {r} : row'[q] = row[q]
          /\ row'[r].state = "begun" /\ row'[r].landed = now
          /\ row'[r].feeds = Feeds
          /\ row' \in [Rows -> RowType]
      <4>1. PICK stamp \in 0 .. now + MaxSkew :
               row' = [row EXCEPT ![r] = [state |-> "begun", landed |-> now,
                                          stamp |-> stamp, feeds |-> Feeds]]
        OBVIOUS
      <4>2. now \in Nat /\ stamp \in Nat
        BY ReplayAssumption DEF TypeOK
      <4>3. Feeds \in SUBSET {"active", "staged"}
        BY DEF Feeds
      <4> HIDE DEF BeginInsert
      <4> QED  BY <4>1, <4>2, <4>3 DEF TypeOK, RowType
    <3>e. Anchor' = Anchor
      BY <3>0 DEF Anchor
    <3>1. TypeOK'
      BY <3>0 DEF TypeOK
    <3>2. RowsInv'
      BY <3>0 DEF TypeOK, RowType, RowsInv, Feeds
    <3>3. TablesInv'
      BY <3>0 DEF TablesInv, Feeds
    <3>4. FedInv'
      BY <3>0 DEF FedInv
    <3>5. WaitedInv'
      BY <3>0 DEF TablesInv, WaitedInv, Waited, Loose, Feeds
    <3>6. BoundaryInv'
      BY <3>0 DEF TablesInv, BoundaryInv, Loose, Feeds
    <3>7. CutoffInv'
      BY <3>0 DEF TablesInv, CutoffInv, Captured, Loose, Feeds, BelowCutoff, StampedAhead, Column
    <3>8. SeededInv'
      BY <3>0 DEF TablesInv, SeededInv, Loose, Feeds, BelowBound, Bound, Column
    <3>9. HistoryInv'
      BY <3>0, <3>e DEF HistoryInv, Explained, BelowCutoff, StampedAhead, Column, Anchor
    <3>10. CountInv'
      <4>1. \A q \in Anchor : SeedResolves /\ BelowBound(q, LowerBounds)
                                => BelowBound(q, LowerBounds)'
        BY <3>0, <3>1, <3>e, BoundsGrow DEF Anchor
      <4> QED  BY <4>1, <3>0, <3>e DEF CountInv, Fed, SeedResolves
    <3> QED  BY <3>1, <3>2, <3>3, <3>4, <3>5, <3>6, <3>7, <3>8, <3>9, <3>10 DEF ReplayInv
  <2>15. ASSUME NEW r \in Rows, FinishInsert(r) PROVE ReplayInv'
    <3> USE <2>15 DEF FinishInsert, world, metadata, ghosts
    <3>0. /\ \A q \in Rows \ {r} : row'[q] = row[q]
          /\ row'[r].state = "visible" /\ row'[r].landed = row[r].landed
          /\ row'[r].stamp = row[r].stamp /\ row'[r].feeds = row[r].feeds
          /\ row' \in [Rows -> RowType]
      BY DEF TypeOK, RowType
    <3>d. /\ "staged" \notin row[r].feeds => staged' = staged
          /\ "staged" \in row[r].feeds =>
                /\ staged \in [Rows -> Nat] /\ staged' \in [Rows -> Nat]
                /\ \A q \in Rows : staged'[q] = staged[q] + (IF q = r THEN 1 ELSE 0)
      BY InsertedFacts DEF TablesInv
    <3>e. Anchor' = Anchor \cup {r} /\ r \notin Anchor
      BY <3>0 DEF Anchor
    <3>f. \A q \in Rows : Column(q)' = Column(q)
      BY <3>0 DEF Column
    <3>g. \A q \in Rows : Loose(q)' => Loose(q)
      BY <3>0 DEF Loose
    <3> HIDE DEF FinishInsert
    <3>h. UNCHANGED <<mode, plan, now, attached, boundary, cutoffs, pc, finished, builds, drops,
                      start, slow, seam, forgone>> /\ row[r].state = "begun"
      BY DEF FinishInsert, world, metadata, ghosts
    <3>i. \A q \in Rows : StampedAhead(q)' = StampedAhead(q)
      BY <3>0, <3>h DEF StampedAhead
    <3>1. TypeOK'
      BY <3>0, <3>d, <3>h DEF TypeOK
    <3>2. RowsInv'
      <4>1. plan.active => "active" \in row[r].feeds
        BY <3>h DEF RowsInv
      <4> QED  BY <4>1, <3>0, <3>h DEF RowsInv
    <3>3. TablesInv'
      BY <3>0, <3>d, <3>h DEF TablesInv
    <3>4. FedInv'
      BY <3>0, <3>d, <3>h DEF TypeOK, FedInv
    <3>5. WaitedInv'
      BY <3>0, <3>h DEF WaitedInv, Waited, Loose
    <3>6. BoundaryInv'
      BY <3>0, <3>h DEF BoundaryInv, Loose
    <3>7. CutoffInv'
      BY <3>f, <3>g, <3>h, <3>i DEF CutoffInv, Captured, BelowCutoff
    <3>8. SeededInv'
      <4>1. ASSUME pc = "replay", NEW q \in Rows PROVE staged'[q] >= staged[q] /\ staged[q] \in Nat
        BY <4>1, <3>d DEF TablesInv
      <4> QED  BY <4>1, <3>d, <3>f, <3>g, <3>h DEF SeededInv, BelowBound, Bound
    <3>9. HistoryInv'
      <4> SUFFICES ASSUME pc = "audit" \/ finished, NEW q \in Anchor' PROVE Explained(q)'
        BY <3>h DEF HistoryInv
      <4>1. q \in Rows /\ (BelowCutoff(q)' <=> BelowCutoff(q))
        BY <3>e, <3>f, <3>h DEF Anchor, BelowCutoff
      <4>2. CASE q = r
        <5>1. CASE "staged" \in row[r].feeds
          BY <5>1, <4>2, <3>d DEF Explained
        <5>2. CASE "staged" \notin row[r].feeds
          BY <5>2, <4>2, <3>h DEF WaitedInv, Waited, Loose, Explained
        <5> QED  BY <5>1, <5>2
      <4>3. CASE q # r
        BY <4>1, <4>3, <3>d, <3>e, <3>h, <3>i DEF HistoryInv, Explained
      <4> QED  BY <4>2, <4>3
    <3>10. CountInv'
      <4>1. \A q \in Anchor : SeedResolves /\ BelowBound(q, LowerBounds)
                                => BelowBound(q, LowerBounds)'
        BY <3>0, <3>1, <3>e, <3>h, BoundsGrow DEF Anchor
      <4>2. SeedResolves' = SeedResolves
        BY <3>h DEF SeedResolves
      <4>3. \A q \in Rows : /\ q # r => Fed(q)' = Fed(q) /\ staged'[q] = staged[q]
                            /\ Fed(r) = 0
                            /\ "staged" \in row[r].feeds => Fed(r)' = 1 /\ staged'[r] = staged[r] + 1
                            /\ "staged" \notin row[r].feeds => Fed(r)' = 0 /\ staged'[r] = staged[r]
        BY <3>0, <3>d, <3>h DEF Fed, TypeOK
      <4>4. staged' # NoTable => staged # NoTable /\ staged \in [Rows -> Nat]
        BY <3>d, NoTableEmpty DEF TypeOK
      <4> SUFFICES ASSUME staged' # NoTable, NEW q \in Rows
                   PROVE  /\ staged'[q] <= builds + Fed(q)'
                          /\ pc \in BeforeInserts => staged'[q] <= builds - 1 + Fed(q)'
                          /\ pc = "replay" => \/ staged'[q] <= builds - 1 + Fed(q)'
                                              \/ /\ SeedResolves' /\ q \in Anchor'
                                                 /\ BelowBound(q, LowerBounds)'
        BY <3>h DEF CountInv
      <4>5. CASE q = r
        BY <4>3, <4>4, <4>5, <3>e, <3>h DEF CountInv, TypeOK
      <4>6. CASE q # r
        BY <4>1, <4>2, <4>3, <4>4, <4>6, <3>e DEF CountInv
      <4> QED  BY <4>5, <4>6
    <3> QED  BY <3>1, <3>2, <3>3, <3>4, <3>5, <3>6, <3>7, <3>8, <3>9, <3>10 DEF ReplayInv
  <2>16. CASE UNCHANGED vars
    <3>1. UNCHANGED <<mode, plan, now, row, staged, attached, boundary, cutoffs, pc, finished,
                      builds, drops, start, slow, seam, forgone>>
      BY <2>16 DEF vars
    <3>2. TypeOK' /\ RowsInv' /\ TablesInv' /\ FedInv'
      BY <3>1 DEF TypeOK, RowsInv, TablesInv, FedInv
    <3>3. WaitedInv' /\ BoundaryInv' /\ CutoffInv' /\ SeededInv'
      BY <3>1 DEF WaitedInv, Waited, BoundaryInv, CutoffInv, Captured, SeededInv, Loose,
         BelowCutoff, StampedAhead, Column, BelowBound, Bound
    <3>4. HistoryInv'
      BY <3>1 DEF HistoryInv, Explained, Anchor, BelowCutoff, StampedAhead, Column
    <3>5. CountInv'
      <4>1. \A r \in Anchor : SeedResolves /\ BelowBound(r, LowerBounds)
                                => BelowBound(r, LowerBounds)'
        BY <3>1, <3>2, BoundsGrow DEF Anchor
      <4> QED  BY <3>1, <4>1 DEF CountInv, Fed, Anchor, SeedResolves
    <3> QED  BY <3>2, <3>3, <3>4, <3>5 DEF ReplayInv
  <2> HIDE DEF ReplayInv
  <2> QED  BY <2>1, <2>2, <2>3, <2>4, <2>5, <2>6, <2>7, <2>8, <2>9, <2>10, <2>11, <2>12, <2>13,
              <2>14, <2>15, <2>16 DEF Next
<1> QED  BY <1>1, <1>2, PTL DEF Spec

-----------------------------------------------------------------------------

\* The seed and the replay of a build never insert the same row, although each
\* statement reads the lower bound for itself while rows land (the INSERT SELECTs
\* of render_replay_sql): a build adds a row once at most.
THEOREM InsertedOnce == Spec => []InsertedOncePerBuild
<1>1. ReplayInv => InsertedOncePerBuild
  <2> SUFFICES ASSUME ReplayInv, staged # NoTable, NEW r \in Rows
               PROVE  staged[r] <= builds + (IF "staged" \in row[r].feeds THEN 1 ELSE 0)
    BY DEF InsertedOncePerBuild
  <2>1. staged[r] \in Nat /\ builds \in Nat
    BY DEF ReplayInv, TypeOK
  <2>2. staged[r] <= builds + Fed(r)
    BY DEF ReplayInv, CountInv
  <2> QED  BY <2>1, <2>2 DEF Fed
<1> QED  BY <1>1, ReplayInvariant, PTL

\* A finished build has every row of the anchor, but for the five causes that
\* HistoryExplained names: no other interleaving of landing rows, statements,
\* aborted builds and the janitor loses one.
THEOREM HistoryComplete == Spec => []HistoryExplained
<1>1. ReplayInv => HistoryExplained
  BY DEF ReplayInv, HistoryInv, HistoryExplained, Explained
<1> QED  BY <1>1, ReplayInvariant, PTL
=============================================================================
