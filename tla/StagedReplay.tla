---------------------------- MODULE StagedReplay ----------------------------
(***************************************************************************)
(* How a virtual build fills the staged table of one replay root: the      *)
(* choice of what is replayed (compiler/planner/_helpers/diff.py and       *)
(* rebuild.py, executor/backfill/_helpers/behavior.py,                     *)
(* executor/population/_helpers/replay.py), and the statements of          *)
(* executor/backfill/_helpers/workflow.py as ClickHouse evaluates them     *)
(* (adapters/clickhouse/_helpers/replay.py) while rows keep landing in the *)
(* replay anchor.  Builds may stop anywhere and be run again under the     *)
(* same deployment id; the janitor may drop what they staged.              *)
(*                                                                         *)
(* A row is a number: the order of offsets within its partition and of the *)
(* cursor.  Deployments shows what becomes of the deployment as a whole,   *)
(* and that nothing else builds or cleans meanwhile.                       *)
(***************************************************************************)
EXTENDS Integers, FiniteSets, FiniteSetsExt

CONSTANTS
  Rows,         \* numbers, in the order of offsets and cursor
  Old,          \* the rows that landed before, row r at time r
  PartitionOf,  \* the partition of each row
  Modes,        \* replay lineage modes: "offsets", "cursor", "timestamp", "landed_at"
  Lookback,     \* configured lookback
  StartTime,    \* the time --start-time names
  MaxSkew,      \* how far a producer's clock is off the server's
  MaxTime,      \* bounds of a behaviour: the clock,
  MaxBuilds,    \*   builds of the deployment,
  MaxDrops      \*   clean-ups by the janitor

ASSUME ReplayAssumption ==
  /\ Rows \subseteq Nat \ {0} /\ IsFiniteSet(Rows) /\ Old \subseteq Rows
  /\ Modes \subseteq {"offsets", "cursor", "timestamp", "landed_at"}
  /\ Lookback \in Nat /\ StartTime \in Nat /\ MaxSkew \in Nat /\ MaxTime \in Nat
  /\ \A r \in Old : r < MaxTime

VARIABLES
  mode, plan,      \* the lineage mode of the source, and the subtree to rebuild
  now,             \* the server's clock
  row,             \* each row: its state, landed_at, timestamp and the views it feeds
  staged,          \* how often the staged table has each row, or NoTable
  attached,        \* the staged materialized view exists
  boundary,        \* boundary_time of the deployment row, 0: no row
  cutoffs,         \* watermark rows: <<partition, value>>, partition 0 for a scalar
  pc,              \* the statement a build executes next
  finished,        \* the deployment's last build ended well
  builds, drops,
  start,           \* lower bounds the last seed statement read
  slow, seam, forgone  \* see the properties

vars == <<mode, plan, now, row, staged, attached, boundary, cutoffs, pc, finished,
          builds, drops, start, slow, seam, forgone>>
world == <<mode, plan>>
metadata == <<boundary, cutoffs>>
ghosts == <<start, slow, seam, forgone>>

-----------------------------------------------------------------------------
(***************************************************************************)
(* The subtree of a changed table.  A change is the difference in columns  *)
(* from the active table ("create": there is none), the replay_on_change   *)
(* rule that applies, bounded_replay_fallback, whether the active table    *)
(* has the lineage columns, and the flags of the command.                  *)
(***************************************************************************)

Rules == {"none", "full", "bounded", "lookback"}

Changes ==
  {c \in [columns : {"create", "same", "add", "remove", "retype"},
          breaking : Rules, nonBreaking : Rules,
          fallback : {"full", "bounded_without_history"},
          lineage : BOOLEAN,
          flag : {"none", "full_refresh", "start_time"}] :
     /\ c.columns = "create" => ~c.lineage /\ c.flag # "start_time"
     /\ \/ c.columns # "add" /\ c.nonBreaking = "none"
        \/ c.columns = "add" /\ c.breaking = "none"}

NonBreaking(c) == c.columns = "add"

Seedable(c) == c.columns \in {"add", "remove"}

PolicyRule(c) == IF NonBreaking(c) THEN c.nonBreaking ELSE c.breaking

Subtree(execution, lower) == [execution |-> execution, lower |-> lower]

ExecutionPolicy(c) ==
  CASE PolicyRule(c) = "none" ->
         IF NonBreaking(c) /\ Seedable(c) THEN Subtree("seeded", "frontier")
                                          ELSE Subtree("full", "none")
    [] PolicyRule(c) = "full" -> Subtree("full", "none")
    [] OTHER ->
         Subtree(IF Seedable(c) THEN "seeded" ELSE "unseeded",
                 IF PolicyRule(c) = "lookback" THEN "lookback" ELSE "frontier")

RebuildSubtree(c) ==
  CASE c.flag = "full_refresh" -> Subtree("full", "none")
    [] c.flag = "start_time"   -> Subtree("seeded", "forced")
    [] OTHER                   -> ExecutionPolicy(c)

(* A seed needs the lineage columns in the active table.                   *)
ResolvedSubtree(c) ==
  LET s == RebuildSubtree(c)
  IN  IF s.execution # "seeded" \/ c.lineage THEN s
      ELSE IF c.fallback = "bounded_without_history" THEN Subtree("unseeded", s.lower)
      ELSE Subtree("full", "none")

(* What the configuration lets a rebuild leave out: the rows below the     *)
(* lower bound.                                                            *)
MayDropHistory(c) ==
  \/ c.flag = "none" /\ PolicyRule(c) \in {"bounded", "lookback"} /\ ~Seedable(c)
  \/ c.fallback = "bounded_without_history" /\ ~c.lineage

Plans ==
  {[subtree |-> ResolvedSubtree(c), active |-> c.columns # "create",
    mayDrop |-> MayDropHistory(c)] : c \in Changes}

-----------------------------------------------------------------------------
(* The rows and the tables.                                                *)

NoTable == <<>>

Unlanded == [state |-> "none", landed |-> 0, stamp |-> 0, feeds |-> {}]

Feeds == (IF plan.active THEN {"active"} ELSE {}) \cup (IF attached THEN {"staged"} ELSE {})

Anchor == {r \in Rows : row[r].state = "visible"}

Active == {r \in Anchor : "active" \in row[r].feeds}

Init ==
  /\ mode \in Modes /\ plan \in Plans
  /\ now = Max({1} \cup Old)
  /\ row = [r \in Rows |->
              IF r \in Old
              THEN [state |-> "visible", landed |-> r, stamp |-> r,
                    feeds |-> IF plan.active THEN {"active"} ELSE {}]
              ELSE Unlanded]
  /\ staged = NoTable /\ attached = FALSE
  /\ boundary = 0 /\ cutoffs = {}
  /\ pc = "idle" /\ finished = FALSE /\ builds = 0 /\ drops = 0
  /\ start = {} /\ slow = {} /\ seam = {} /\ forgone = {}

Tick ==
  /\ now < MaxTime
  /\ now' = now + 1
  /\ UNCHANGED <<world, row, staged, attached, metadata, pc, finished, builds, drops, ghosts>>

(* External: the server notes when a row landed and fixes the views that   *)
(* the insert feeds when it begins; the timestamp is its producer's, whose *)
(* clock may be behind or ahead.  A partition is consumed in order.        *)
BeginInsert(r) ==
  /\ row[r].state = "none"
  /\ \A q \in Rows : q < r /\ PartitionOf[q] = PartitionOf[r] => q \in Anchor
  /\ \E stamp \in {t \in 0 .. now + MaxSkew : now - t <= MaxSkew} :
        row' = [row EXCEPT ![r] = [state |-> "begun", landed |-> now,
                                   stamp |-> stamp, feeds |-> Feeds]]
  /\ UNCHANGED <<world, now, staged, attached, metadata, pc, finished, builds, drops, ghosts>>

Inserted(new) ==
  [r \in DOMAIN staged |-> staged[r] + (IF r \in new THEN 1 ELSE 0)]

FinishInsert(r) ==
  /\ row[r].state = "begun"
  /\ row' = [row EXCEPT ![r].state = "visible"]
  /\ staged' = IF "staged" \in row[r].feeds THEN Inserted({r}) ELSE staged
  /\ UNCHANGED <<world, now, attached, metadata, pc, finished, builds, drops, ghosts>>

-----------------------------------------------------------------------------
(* The statements of a build, in their order.                              *)

(* The preflight assertions hold under the target lock for the same id and *)
(* plan.                                                                   *)
StartBuild ==
  /\ pc = "idle" /\ builds < MaxBuilds
  /\ builds' = builds + 1
  /\ finished' = FALSE
  /\ pc' = "table"
  /\ UNCHANGED <<world, now, row, staged, attached, metadata, drops, ghosts>>

RealizeTable ==
  /\ pc = "table"
  /\ staged' = IF staged = NoTable THEN [r \in Rows |-> 0] ELSE staged
  /\ pc' = "view"
  /\ UNCHANGED <<world, now, row, attached, metadata, finished, builds, drops, ghosts>>

RealizeView ==
  /\ pc = "view"
  /\ attached' = TRUE
  /\ pc' = "stabilization"
  /\ UNCHANGED <<world, now, row, staged, metadata, finished, builds, drops, ghosts>>

(* The wait is a time, not a condition: inserts that began before the view *)
(* may still be under way when it ends.                                    *)
WaitForStabilization ==
  /\ pc = "stabilization"
  /\ slow' = slow \cup {r \in Rows : row[r].state = "begun" /\ "staged" \notin row[r].feeds}
  /\ pc' = "boundary"
  /\ UNCHANGED <<world, now, row, staged, attached, metadata, finished, builds, drops, start, seam, forgone>>

CaptureBoundaryTime ==
  /\ pc = "boundary"
  /\ boundary' = IF boundary = 0 THEN now ELSE boundary
  /\ pc' = "watermark"
  /\ UNCHANGED <<world, now, row, staged, attached, cutoffs, finished, builds, drops, ghosts>>

Column(r) ==
  CASE mode = "timestamp" -> row[r].stamp
    [] mode = "landed_at" -> row[r].landed
    [] OTHER              -> r

(* The greatest of a column for each partition.                            *)
Greatest(rows) ==
  {<<p, Max({r \in rows : PartitionOf[r] = p})>> : p \in {PartitionOf[r] : r \in rows}}

ScalarCutoff == IF mode = "cursor" THEN Max(Anchor) ELSE boundary

\* Mutant: the rows of the boundary's own second are left out.
WatermarksBefore ==
  IF mode = "offsets" THEN Greatest({r \in Anchor : row[r].landed < boundary})
  ELSE IF Anchor = {} THEN {} ELSE {<<0, ScalarCutoff>>}

Watermarks ==
  IF mode = "offsets" THEN Greatest({r \in Anchor : row[r].landed <= boundary})
  ELSE IF Anchor = {} THEN {} ELSE {<<0, ScalarCutoff>>}

CaptureWatermark ==
  /\ pc = "watermark"
  /\ cutoffs' = IF cutoffs = {} THEN Watermarks ELSE cutoffs
  /\ pc' = "qualifying"
  /\ UNCHANGED <<world, now, row, staged, attached, boundary, finished, builds, drops, ghosts>>

BelowCutoff(r) ==
  \E c \in cutoffs : /\ c[1] = (IF mode = "offsets" THEN PartitionOf[r] ELSE 0)
                     /\ Column(r) <= c[2]

TimeColumn(r) == IF mode = "landed_at" THEN row[r].landed ELSE row[r].stamp

(* A forced scalar replay counts only rows from the start time on.         *)
Qualifying ==
  {r \in Anchor : /\ BelowCutoff(r)
                  /\ mode # "offsets" /\ plan.subtree.lower = "forced" =>
                        TimeColumn(r) >= StartTime}

(* It throws when the anchor has rows and none of them qualifies: Abort.   *)
AssertQualifyingInput ==
  /\ pc = "qualifying"
  /\ Anchor # {} => Qualifying # {}
  /\ pc' = IF plan.subtree.execution = "seeded" THEN "seed" ELSE "replay"
  /\ UNCHANGED <<world, now, row, staged, attached, metadata, finished, builds, drops, ghosts>>

-----------------------------------------------------------------------------
(* The lower bound, read by each of the two statements for itself: a pair  *)
(* for each partition that has one, or for partition 0 the scalar.         *)

LowerTime == IF plan.subtree.lower = "forced" THEN StartTime ELSE boundary - Lookback

OffsetLowerBounds ==
  Greatest(IF plan.subtree.lower = "frontier" THEN Active
           ELSE {r \in Anchor : row[r].landed <= LowerTime})

(* minOrNull of no cursor bounds with a NULL, which no row satisfies.      *)
CursorLowerBound ==
  LET from == {r \in Anchor : row[r].stamp >= LowerTime /\ BelowCutoff(r)}
  IN  IF from = {} THEN Max(Rows) + 1 ELSE Min(from)

ScalarLowerBound ==
  IF plan.subtree.lower = "frontier" THEN Max({0} \cup {Column(r) : r \in Active})
  ELSE IF mode = "cursor" THEN CursorLowerBound
  ELSE LowerTime

LowerBounds ==
  IF plan.subtree.lower = "none" THEN {}
  ELSE IF mode = "offsets" THEN OffsetLowerBounds
  ELSE {<<0, ScalarLowerBound>>}

Bound(r, bounds) ==
  {b \in bounds : b[1] = (IF mode = "offsets" THEN PartitionOf[r] ELSE 0)}

\* Mutant: the seed takes the row at the bound, too.
AtOrBelowBound(r, bounds) == \E b \in Bound(r, bounds) : Column(r) <= b[2]

BelowBound(r, bounds) == \E b \in Bound(r, bounds) : Column(r) < b[2]

FromBound(r, bounds) == \A b \in Bound(r, bounds) : Column(r) >= b[2]

(* A frontier is read from the active table.  The scalar lower bound of a  *)
(* cursor refers to replay_cutoff, which only the replay statement defines.*)
SeedResolves == ~(mode = "cursor" /\ plan.subtree.lower \in {"lookback", "forced"})

Seed ==
  /\ pc = "seed" /\ SeedResolves
  /\ staged' = Inserted({r \in Active : BelowBound(r, LowerBounds)})
  /\ start' = LowerBounds
  /\ pc' = "replay"
  /\ UNCHANGED <<world, now, row, attached, metadata, finished, builds, drops, slow, seam, forgone>>

Replayed == {r \in Anchor : BelowCutoff(r) /\ FromBound(r, LowerBounds)}

(* Rows below the bound the replay reads; and those of them that are from  *)
(* the bound on that the seed read.                                        *)
Below == {r \in Anchor : BelowBound(r, LowerBounds)}

Seam == {r \in Below : FromBound(r, start)}

Replay ==
  /\ pc = "replay"
  /\ plan.subtree.lower = "frontier" => plan.active
  /\ staged' = Inserted(Replayed)
  /\ seam' = IF plan.subtree.execution = "seeded" THEN Seam ELSE {}
  /\ forgone' = IF plan.mayDrop THEN Below ELSE {}
  /\ start' = {}
  /\ pc' = "audit"
  /\ UNCHANGED <<world, now, row, attached, metadata, finished, builds, drops, slow>>

(* The row count is only read; the staged table has to exist.              *)
AssertReadiness ==
  /\ pc = "audit" /\ staged # NoTable
  /\ finished' = TRUE
  /\ pc' = "idle"
  /\ UNCHANGED <<world, now, row, staged, attached, metadata, builds, drops, ghosts>>

(* A statement fails, or the process ends.                                 *)
Abort ==
  /\ pc # "idle"
  /\ pc' = "idle" /\ start' = {}
  /\ UNCHANGED <<world, now, row, staged, attached, metadata, finished, builds, drops, slow, seam, forgone>>

(* The janitor drops the relations of an unpublished deployment that has a *)
(* deployment row; its metadata rows stay.  Inserts under way lose the     *)
(* table they were feeding.                                                *)
JanitorDropsStaged ==
  /\ pc = "idle" /\ boundary # 0 /\ staged # NoTable
  /\ drops < MaxDrops
  /\ drops' = drops + 1
  /\ staged' = NoTable /\ attached' = FALSE /\ finished' = FALSE
  /\ row' = [r \in Rows |-> [row[r] EXCEPT !.feeds = @ \ {"staged"}]]
  /\ slow' = {} /\ seam' = {} /\ forgone' = {}
  /\ UNCHANGED <<world, now, metadata, pc, builds, start>>

Next ==
  \/ Tick
  \/ \E r \in Rows : BeginInsert(r) \/ FinishInsert(r)
  \/ StartBuild \/ RealizeTable \/ RealizeView \/ WaitForStabilization
  \/ CaptureBoundaryTime \/ CaptureWatermark \/ AssertQualifyingInput
  \/ Seed \/ Replay \/ AssertReadiness \/ Abort
  \/ JanitorDropsStaged

Spec == Init /\ [][Next]_vars

-----------------------------------------------------------------------------
(* The cutoff of the timestamp mode is the boundary time, a time of the    *)
(* server: a row that its producer stamped later is beyond it.             *)
StampedAhead(r) == mode = "timestamp" /\ row[r].stamp > boundary

(* A finished build has every row of the anchor that the model had, as the *)
(* plan promises ("keep older active rows and replay the recent tail",     *)
(* "refresh all history"), but for five causes: an insert that began       *)
(* before the staged view and outlasted the wait; rows between the lower   *)
(* bounds that the seed and the replay read one after the other; rows      *)
(* beyond a cutoff that an earlier build captured, when the janitor has    *)
(* dropped what it staged; rows that landed before the boundary time and   *)
(* are stamped after it, where timestamps are the lineage; and history     *)
(* below the lower bound, where the configuration gives it up.             *)
HistoryExplained ==
  finished =>
    \A r \in Anchor :
      staged[r] = 0 =>
        \/ r \in slow
        \/ r \in seam
        \/ drops > 0 /\ ~BelowCutoff(r)
        \/ StampedAhead(r)
        \/ r \in forgone

(* The seed and the replay of a build meet without overlapping, although   *)
(* each reads the lower bound for itself: a build inserts a row once at    *)
(* most, beside what the staged view gets as rows land.                    *)
InsertedOncePerBuild ==
  staged # NoTable =>
    \A r \in Rows : staged[r] <= builds + (IF "staged" \in row[r].feeds THEN 1 ELSE 0)
=============================================================================
