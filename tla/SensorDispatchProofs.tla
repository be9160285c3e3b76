------------------------ MODULE SensorDispatchProofs ------------------------
(***************************************************************************)
(* Proofs about SensorDispatch, for any dispatchers, any stream of         *)
(* observations, any filter, retry policy and batch size, and any number   *)
(* of crashes, failed queries and operator actions.                        *)
(*                                                                         *)
(* CheckpointCovers and DeliveredInOrder rest on what a pass may rely on   *)
(* between two of its queries: its position is settled (all owed events up *)
(* to it are resolved), its batch has no gap (every owed event between the *)
(* position and a member is a member), and the tick it waits for is open,  *)
(* its own, and that of the first event of the batch.  All of that lasts,  *)
(* whatever other dispatchers do, because rows are only appended:          *)
(* resolutions are final (TicksKept), and an event that starts to be owed  *)
(* lies behind everything visible before (StreamKept).                     *)
(*                                                                         *)
(* RepeatsExplained holds of one dispatcher.  It needs that a live handler *)
(* thread nobody abandoned is the one a pass waits for (AttendedInv), and  *)
(* that the marker of an at-most-once step precedes its call (MarkerInv).  *)
(***************************************************************************)
EXTENDS SensorDispatch, FiniteSetTheorems, TLAPS

\* The ticks.
TickSet == [event : Events,
            status : {"started", "succeeded", "skipped", "failed", "dead_lettered"},
            origin : {"dispatch", "operator"},
            thread : Live \union {"none", "returned", "raised"},
            host : SUBSET Dispatchers]

\* The states of a pass.
PassSet ==
  [pc : {"idle", "initialize", "fetch", "deliver", "last", "advance", "retry"},
   head : Nat, position : Nat, batch : SUBSET Events, stale : SUBSET Events, tick : Nat]

\* Every owed event up to position p is resolved.
Settled(p) == \A e \in Owed : e <= p => Resolved(e)

\* The stream visible so far is finite, and has a last event if it has any.
Bounded == /\ IsFiniteSet(arrived)
           /\ \E m \in arrived \union {0} : \A x \in arrived : x <= m

\* Checkpoints and the dispatched ticks name visible events.
StreamInv ==
  /\ Bounded
  /\ checkpoint \subseteq arrived \union {0}
  /\ \A i \in DOMAIN ticks : ticks[i].origin = "dispatch" => ticks[i].event \in arrived

\* A pass in state q waits for the handler of its tick.
Waiting(q) == q.tick # 0 /\ q.pc \in {"deliver", "last", "retry"}

\* A pass has settled its position.
PositionInv(q) ==
  q.pc \in {"fetch", "deliver", "last", "advance"} =>
    q.position \in arrived \union {0} /\ Settled(q.position)

\* A batch is a gapless stretch of the stream behind the position, and what it holds
\* to be stale has expired.
BatchInv(q) ==
  q.pc \in {"deliver", "last"} =>
    /\ q.batch \subseteq arrived
    /\ \A f \in q.batch : q.position < f
    /\ \A f \in q.batch, e \in Owed : q.position < e /\ e <= f => e \in q.batch
    /\ q.stale \subseteq expired

\* The tick a pass waits for has no terminal row, and is the next of its batch.
TickInv(q) ==
  /\ q.tick # 0 => q.tick \in DOMAIN ticks
  /\ Waiting(q) => ticks[q.tick].status = "started"
  /\ Waiting(q) /\ q.pc # "retry" => /\ ticks[q.tick].event \in q.batch
                                     /\ \A f \in q.batch : ticks[q.tick].event <= f

\* What is true of a pass between its steps.
PassInv(q) == PositionInv(q) /\ BatchInv(q) /\ TickInv(q)

\* No two passes wait for the same tick.
TicksApart ==
  \A c, d \in Dispatchers :
    Waiting(pass[c]) /\ Waiting(pass[d]) /\ pass[c].tick = pass[d].tick => c = d

\* The parts that make CheckpointCovers and DeliveredInOrder inductive.
DispatchInv ==
  /\ StreamInv /\ CheckpointCovers /\ DeliveredInOrder
  /\ \A d \in Dispatchers : PassInv(pass[d])
  /\ TicksApart

\* A live thread whose event was not abandoned is waited for where it runs.
AttendedInv ==
  \A i \in DOMAIN ticks : ticks[i].thread \in Live /\ ticks[i].event \notin abandoned =>
    \E d \in Dispatchers : /\ Waiting(pass[d])
                           /\ pass[d].tick = i
                           /\ d \in ticks[i].host

\* The marker of an at-most-once step is there before its call, and no thread that may
\* still call it comes after a call, unless one was abandoned.
MarkerInv ==
  \A e \in AtMostOnceEvents :
    /\ e \in invoked => steps[e] # {}
    /\ \A i \in DOMAIN ticks : ticks[i].event = e =>
         /\ ticks[i].thread = "call" => steps[e] # {}
         /\ ticks[i].thread \in {"mark", "call"} /\ e \notin abandoned => e \notin invoked

\* The parts that make RepeatsExplained inductive.
RepeatInv == AttendedInv /\ MarkerInv /\ RepeatsExplained

-----------------------------------------------------------------------------
\* Operators.

\* Max is the greatest member.
LEMMA MaxIs ==
  ASSUME NEW S, NEW m \in S, S \subseteq Nat, \A x \in S : x <= m
  PROVE  Max(S) = m
<1> DEFINE IsMax(x) == x \in S /\ \A y \in S : x >= y
<1>1. IsMax(m)
  BY DEF IsMax
<1>2. ASSUME NEW x, IsMax(x) PROVE x = m
  BY <1>2 DEF IsMax
<1> QED
  BY <1>1, <1>2 DEF Max, IsMax

\* Newest is the last visible position (newest_node_result_position).
LEMMA NewestIs ==
  ASSUME TypeOK, Bounded
  PROVE  Newest \in arrived \union {0} /\ \A x \in arrived : x <= Newest
<1>1. PICK m \in arrived \union {0} : \A x \in arrived : x <= m
  BY DEF Bounded
<1>2. arrived \union {0} \subseteq Nat
  BY SensorAssumption DEF TypeOK
<1>3. \A x \in arrived \union {0} : x <= m
  BY <1>1, <1>2
<1>4. Newest = m
  BY <1>2, <1>3, MaxIs DEF Newest
<1> QED
  BY <1>1, <1>4

\* A fetch returns all rows between the position and any row it returns: the query
\* is ordered, and limited at its end (fetch_node_results_after).
LEMMA FetchContiguous ==
  ASSUME TypeOK, Bounded, NEW p \in Nat, NEW f \in FetchAfter(p), NEW e \in arrived,
         p < e, e <= f
  PROVE  e \in FetchAfter(p)
<1> DEFINE B(x) == {g \in arrived : p < g /\ g < x}
<1>0. arrived \subseteq Nat /\ f \in arrived
  BY SensorAssumption DEF TypeOK, FetchAfter
<1>1. B(e) \subseteq B(f)
  <2> SUFFICES ASSUME NEW g \in arrived, p < g, g < e
              PROVE  g < f
    OBVIOUS
  <2>1. g \in Nat /\ e \in Nat /\ f \in Nat
    BY <1>0
  <2> QED
    BY <2>1
<1>2. IsFiniteSet(B(f)) /\ IsFiniteSet(B(e))
  <2>1. B(f) \subseteq arrived /\ B(e) \subseteq arrived
    OBVIOUS
  <2> QED
    BY <2>1, FS_Subset DEF Bounded
<1>3. Cardinality(B(e)) <= Cardinality(B(f))
  <2> HIDE DEF B
  <2> QED
    BY <1>1, <1>2, FS_Subset
<1>4. Cardinality(B(e)) \in Nat /\ Cardinality(B(f)) \in Nat
  <2> HIDE DEF B
  <2> QED
    BY <1>2, FS_CardinalityType
<1>5. Cardinality(B(f)) < BatchLimit
  BY DEF FetchAfter
<1>6. Cardinality(B(e)) < BatchLimit
  <2> HIDE DEF B
  <2> QED
    BY <1>3, <1>4, <1>5, SensorAssumption
<1> QED
  BY <1>6 DEF FetchAfter

\* The first row of a tick.
LEMMA TickTyped ==
  ASSUME NEW d \in Dispatchers, NEW e \in Events,
         NEW status \in {"started", "succeeded", "skipped", "failed", "dead_lettered"},
         NEW origin \in {"dispatch", "operator"}
  PROVE  /\ Tick(d, e, status, origin) \in TickSet
         /\ Tick(d, e, status, origin).event = e
         /\ Tick(d, e, status, origin).status = status
         /\ Tick(d, e, status, origin).origin = origin
         /\ Tick(d, e, status, origin).thread \in {"begin", "none"}
         /\ status = "started" => Tick(d, e, status, origin).host = {d}
         /\ status # "started" => Tick(d, e, status, origin).thread = "none"
BY DEF Tick, TickSet, Live

\* A tick whose thread is over.
LEMMA EndedTyped ==
  ASSUME NEW t \in TickSet
  PROVE  /\ Ended(t) \in TickSet
         /\ Ended(t).event = t.event
         /\ Ended(t).status = t.status
         /\ Ended(t).origin = t.origin
         /\ Ended(t).thread = "none"
BY DEF Ended, TickSet, Live

\* TypeOK in terms of the sets above.
LEMMA Types == TypeOK => /\ ticks \in Seq(TickSet)
                         /\ pass \in [Dispatchers -> PassSet]
                         /\ arrived \subseteq Nat \ {0}
                         /\ expired \subseteq arrived
BY SensorAssumption DEF TypeOK, TickSet, PassSet

\* Each tick.
LEMMA TickTypes ==
  ASSUME TypeOK, NEW i \in DOMAIN ticks
  PROVE  ticks[i] \in TickSet /\ ticks[i].event \in Events
<1>1. ticks[i] \in TickSet
  BY Types
<1> QED
  BY <1>1 DEF TickSet

-----------------------------------------------------------------------------
\* What the steps of the stream and of the ticks have in common.

\* Ticks stay, and so does every terminal status.
TicksKept ==
  /\ DOMAIN ticks \subseteq DOMAIN ticks'
  /\ \A i \in DOMAIN ticks : /\ ticks'[i].event = ticks[i].event
                             /\ ticks'[i].origin = ticks[i].origin
                             /\ ticks[i].status # "started" => ticks'[i].status = ticks[i].status

\* Ticks outside S get no terminal row.
StatusKept(S) == \A i \in DOMAIN ticks \ S : ticks'[i].status = ticks[i].status

\* Nothing disappears, and what starts to be owed lies behind all that was visible.
StreamKept ==
  /\ arrived \subseteq arrived'
  /\ expired \subseteq expired'
  /\ \A e \in Owed' : e \in Owed \/ \A x \in arrived : x < e

\* A settled position stays settled.
LEMMA SettledKept ==
  ASSUME TypeOK, TypeOK', TicksKept, StreamKept, NEW p \in arrived \union {0}, Settled(p)
  PROVE  Settled(p)'
<1> SUFFICES ASSUME NEW e \in Owed', e <= p
             PROVE  Resolved(e)'
  BY DEF Settled
<1>1. e \in Nat \ {0} /\ p \in Nat /\ \A x \in arrived : x \in Nat
  BY Types, SensorAssumption DEF TypeOK, Owed
<1>2. e \in Owed
  <2>1. CASE \A x \in arrived : x < e
    BY <1>1, <2>1
  <2> QED
    BY <2>1 DEF StreamKept
<1>3. Resolved(e)
  BY <1>2 DEF Settled
<1> QED
  BY <1>3 DEF Resolved, TicksKept

\* The state of a pass stays justified while its tick stays open.
LEMMA PassKept ==
  ASSUME TypeOK, TypeOK', TicksKept, StreamKept, NEW q \in PassSet, PassInv(q),
         Waiting(q) => ticks'[q.tick].status = "started"
  PROVE  PassInv(q)'
<1>1. PositionInv(q)'
  <2> SUFFICES ASSUME q.pc \in {"fetch", "deliver", "last", "advance"}
               PROVE  q.position \in arrived' \union {0} /\ Settled(q.position)'
    BY DEF PositionInv
  <2>1. q.position \in arrived \union {0} /\ Settled(q.position)
    BY DEF PassInv, PositionInv
  <2> QED
    BY <2>1, SettledKept DEF StreamKept
<1>2. BatchInv(q)'
  <2> SUFFICES ASSUME q.pc \in {"deliver", "last"}
               PROVE  /\ q.batch \subseteq arrived'
                      /\ \A f \in q.batch : q.position < f
                      /\ \A f \in q.batch, e \in Owed' : q.position < e /\ e <= f => e \in q.batch
                      /\ q.stale \subseteq expired'
    BY DEF BatchInv
  <2>1. /\ q.batch \subseteq arrived
        /\ \A f \in q.batch : q.position < f
        /\ \A f \in q.batch, e \in Owed : q.position < e /\ e <= f => e \in q.batch
        /\ q.stale \subseteq expired
    BY DEF PassInv, BatchInv
  <2>2. ASSUME NEW f \in q.batch, NEW e \in Owed', q.position < e, e <= f
        PROVE  e \in q.batch
    <3>1. e \in Nat /\ f \in Nat
      BY <2>1, Types, SensorAssumption DEF TypeOK, Owed
    <3>2. e \in Owed
      <4>1. CASE \A x \in arrived : x < e
        BY <3>1, <2>1, <2>2, <4>1
      <4> QED
        BY <4>1 DEF StreamKept
    <3> QED
      BY <3>2, <2>1, <2>2
  <2> QED
    BY <2>1, <2>2 DEF StreamKept
<1>3. TickInv(q)'
  <2>1. q.tick # 0 => q.tick \in DOMAIN ticks
    BY DEF PassInv, TickInv
  <2>2. Waiting(q) => Waiting(q)'
    BY DEF Waiting
  <2> QED
    BY <2>1 DEF PassInv, TickInv, TicksKept, Waiting
<1> QED
  BY <1>1, <1>2, <1>3 DEF PassInv

\* Checkpoint and order, from the new checkpoints and the new ticks alone.
LEMMA StreamStep ==
  ASSUME TypeOK, TypeOK', DispatchInv, TicksKept, StreamKept, Bounded',
         \A c \in checkpoint' : c \in arrived' \union {0} /\ Settled(c)',
         \A i \in DOMAIN ticks' \ DOMAIN ticks : ticks'[i].origin = "dispatch" =>
            /\ ticks'[i].event \in arrived'
            /\ \A e \in Owed' : e < ticks'[i].event => Resolved(e)'
  PROVE  StreamInv' /\ CheckpointCovers' /\ DeliveredInOrder'
<1>1. StreamInv'
  <2>1. \A i \in DOMAIN ticks' : ticks'[i].origin = "dispatch" => ticks'[i].event \in arrived'
    BY DEF DispatchInv, StreamInv, TicksKept, StreamKept
  <2> QED
    BY <2>1 DEF StreamInv
<1>2. CheckpointCovers'
  BY DEF CheckpointCovers, Settled
<1>3. DeliveredInOrder'
  <2> SUFFICES ASSUME NEW i \in DOMAIN ticks', ticks'[i].origin = "dispatch",
                      NEW e \in Owed', e < ticks'[i].event
               PROVE  Resolved(e)'
    BY DEF DeliveredInOrder
  <2>1. CASE i \notin DOMAIN ticks
    BY <2>1
  <2>2. CASE i \in DOMAIN ticks
    <3>1. ticks[i].origin = "dispatch" /\ e < ticks[i].event
      BY <2>2 DEF TicksKept
    <3>2. ticks[i].event \in arrived
      BY <2>2, <3>1 DEF DispatchInv, StreamInv
    <3>3. e \in Nat /\ ticks[i].event \in Nat
      BY <3>2, Types, SensorAssumption DEF TypeOK, Owed
    <3>4. e \in Owed
      BY <3>1, <3>2, <3>3 DEF StreamKept
    <3>5. Resolved(e)
      BY <2>2, <3>1, <3>4 DEF DispatchInv, DeliveredInOrder
    <3> QED
      BY <3>5 DEF Resolved, TicksKept
  <2> QED
    BY <2>1, <2>2
<1> QED
  BY <1>1, <1>2, <1>3

\* A pass that does not move.
LEMMA OthersKept ==
  ASSUME TypeOK, TypeOK', DispatchInv, TicksKept, StreamKept, NEW c \in Dispatchers,
         pass'[c] = pass[c],
         Waiting(pass[c]) => ticks'[pass[c].tick].status = "started"
  PROVE  PassInv(pass[c])'
<1> PICK q : q = pass[c]
  OBVIOUS
<1>1. q \in PassSet
  BY Types
<1>2. PassInv(q)
  BY DEF DispatchInv
<1>3. PassInv(q)'
  BY <1>1, <1>2, PassKept
<1> QED
  BY <1>3 DEF PassInv, PositionInv, BatchInv, TickInv, Waiting

\* A checkpoint that does not move.
LEMMA CheckpointsKept ==
  ASSUME TypeOK, TypeOK', DispatchInv, TicksKept, StreamKept, checkpoint' = checkpoint
  PROVE  \A c \in checkpoint' : c \in arrived' \union {0} /\ Settled(c)'
<1> SUFFICES ASSUME NEW c \in checkpoint
             PROVE  c \in arrived' \union {0} /\ Settled(c)'
  OBVIOUS
<1>1. c \in arrived \union {0} /\ Settled(c)
  BY DEF DispatchInv, StreamInv, CheckpointCovers, Settled
<1> QED
  BY <1>1, SettledKept DEF StreamKept

\* A step that moves no pass.
LEMMA QuietStep ==
  ASSUME TypeOK, TypeOK', DispatchInv, TicksKept, StreamKept, Bounded', StatusKept({}),
         pass' = pass, checkpoint' = checkpoint,
         \A i \in DOMAIN ticks' \ DOMAIN ticks : ticks'[i].origin # "dispatch"
  PROVE  DispatchInv'
<1>1. \A c \in checkpoint' : c \in arrived' \union {0} /\ Settled(c)'
  BY CheckpointsKept
<1>2. StreamInv' /\ CheckpointCovers' /\ DeliveredInOrder'
  BY <1>1, StreamStep
<1>3. ASSUME NEW c \in Dispatchers PROVE PassInv(pass[c])'
  <2>1. Waiting(pass[c]) => ticks'[pass[c].tick].status = "started"
    BY DEF DispatchInv, PassInv, TickInv, StatusKept, Waiting
  <2> QED
    BY <2>1, OthersKept
<1>4. TicksApart'
  BY DEF DispatchInv, TicksApart, Waiting
<1> QED
  BY <1>2, <1>3, <1>4 DEF DispatchInv

\* A step of the pass of d.
LEMMA PassStep ==
  ASSUME TypeOK, TypeOK', DispatchInv, TicksKept, StreamKept, Bounded',
         NEW d \in Dispatchers,
         StatusKept({pass[d].tick}) /\ (~Waiting(pass[d]) => StatusKept({})),
         \A c \in Dispatchers \ {d} : pass'[c] = pass[c],
         PassInv(pass[d])',
         Waiting(pass[d])' => pass'[d].tick \notin DOMAIN ticks,
         \A c \in checkpoint' : c \in arrived' \union {0} /\ Settled(c)',
         \A i \in DOMAIN ticks' \ DOMAIN ticks : ticks'[i].origin = "dispatch" =>
            /\ ticks'[i].event \in arrived'
            /\ \A e \in Owed' : e < ticks'[i].event => Resolved(e)'
  PROVE  DispatchInv'
<1>2. StreamInv' /\ CheckpointCovers' /\ DeliveredInOrder'
  BY StreamStep
<1>3. ASSUME NEW c \in Dispatchers PROVE PassInv(pass[c])'
  <2>1. CASE c = d
    BY <2>1
  <2>2. CASE c # d
    <3>1. ASSUME Waiting(pass[c]) PROVE ticks'[pass[c].tick].status = "started"
      <4>1. pass[c].tick \in DOMAIN ticks /\ ticks[pass[c].tick].status = "started"
        BY <3>1 DEF DispatchInv, PassInv, TickInv, Waiting
      <4>2. CASE Waiting(pass[d])
        <5>1. pass[c].tick # pass[d].tick
          BY <2>2, <3>1, <4>2 DEF DispatchInv, TicksApart
        <5> QED
          BY <5>1, <4>1 DEF StatusKept
      <4>3. CASE ~Waiting(pass[d])
        BY <4>1, <4>3 DEF StatusKept
      <4> QED
        BY <4>2, <4>3
    <3> QED
      BY <2>2, <3>1, OthersKept
  <2> QED
    BY <2>1, <2>2
<1>4. TicksApart'
  <2>1. \A c \in Dispatchers \ {d} :
          Waiting(pass[c])' => Waiting(pass[c]) /\ pass'[c].tick \in DOMAIN ticks
    BY DEF Waiting, DispatchInv, PassInv, TickInv
  <2> QED
    BY <2>1 DEF TicksApart, DispatchInv, Waiting
<1> QED
  BY <1>2, <1>3, <1>4 DEF DispatchInv

-----------------------------------------------------------------------------
\* The ways the ticks change.

\* A new tick.
LEMMA TicksAppended ==
  ASSUME TypeOK, NEW t \in TickSet, ticks' = Append(ticks, t)
  PROVE  /\ ticks' \in Seq(TickSet)
         /\ TicksKept /\ StatusKept({})
         /\ \A i \in DOMAIN ticks : ticks'[i] = ticks[i]
         /\ DOMAIN ticks' = DOMAIN ticks \union {Len(ticks) + 1}
         /\ Len(ticks) + 1 \notin DOMAIN ticks
         /\ ticks'[Len(ticks) + 1] = t
<1>1. ticks \in Seq(TickSet)
  BY Types
<1>2. /\ ticks' \in Seq(TickSet)
      /\ \A i \in DOMAIN ticks : ticks'[i] = ticks[i]
      /\ DOMAIN ticks' = DOMAIN ticks \union {Len(ticks) + 1}
      /\ Len(ticks) + 1 \notin DOMAIN ticks
      /\ ticks'[Len(ticks) + 1] = t
  BY <1>1
<1> QED
  BY <1>2 DEF TicksKept, StatusKept

\* The ticks replaced one by one.
LEMMA TicksMapped ==
  ASSUME TypeOK, NEW f \in [DOMAIN ticks -> TickSet], ticks' = f
  PROVE  ticks' \in Seq(TickSet) /\ DOMAIN ticks' = DOMAIN ticks
<1>1. ticks \in Seq(TickSet)
  BY Types
<1>2. DOMAIN ticks = 1 .. Len(ticks) /\ Len(ticks) \in Nat
  BY <1>1
<1> QED
  BY <1>2

\* No tick changes.
LEMMA TicksSame ==
  ASSUME TypeOK, ticks' = ticks
  PROVE  TicksKept /\ StatusKept({}) /\ ticks' \in Seq(TickSet)
BY Types DEF TicksKept, StatusKept

\* The threads of a process that died.
LEMMA TicksEnded ==
  ASSUME TypeOK, NEW d \in Dispatchers,
         ticks' = [i \in DOMAIN ticks |->
                     IF d \in ticks[i].host THEN Ended(ticks[i]) ELSE ticks[i]]
  PROVE  /\ ticks' \in Seq(TickSet) /\ DOMAIN ticks' = DOMAIN ticks
         /\ TicksKept /\ StatusKept({})
<1>1. \A i \in DOMAIN ticks : ticks[i] \in TickSet
  BY Types
<1>2. \A i \in DOMAIN ticks : Ended(ticks[i]) \in TickSet
  BY <1>1, EndedTyped
<1>3. ticks' \in [DOMAIN ticks -> TickSet]
  BY <1>1, <1>2
<1>4. ticks' \in Seq(TickSet) /\ DOMAIN ticks' = DOMAIN ticks
  BY <1>3, TicksMapped
<1>5. ASSUME NEW i \in DOMAIN ticks
      PROVE  /\ ticks'[i].event = ticks[i].event
             /\ ticks'[i].origin = ticks[i].origin
             /\ ticks'[i].status = ticks[i].status
  BY <1>1, EndedTyped
<1> QED
  BY <1>4, <1>5 DEF TicksKept, StatusKept

\* A thread goes on.
LEMMA TickThreaded ==
  ASSUME TypeOK, NEW i \in DOMAIN ticks, NEW pc \in Live \union {"returned", "raised"},
         Thread(i, pc)
  PROVE  /\ ticks' \in Seq(TickSet) /\ DOMAIN ticks' = DOMAIN ticks
         /\ TicksKept /\ StatusKept({})
         /\ \A j \in DOMAIN ticks \ {i} : ticks'[j] = ticks[j]
         /\ ticks'[i].thread \in {pc, "none"}
         /\ pc \in Live => ticks'[i].thread = pc /\ ticks'[i].host = ticks[i].host
<1> DEFINE t == [ticks[i] EXCEPT !.thread = pc]
           u == IF pc \in Live \/ t.status = "started" THEN t ELSE Ended(t)
<1>1. ticks[i] \in TickSet
  BY Types
<1>2. /\ t \in TickSet /\ t.event = ticks[i].event /\ t.origin = ticks[i].origin
      /\ t.status = ticks[i].status /\ t.thread = pc /\ t.host = ticks[i].host
  BY <1>1 DEF TickSet, Live
<1>3. ticks' = [ticks EXCEPT ![i] = u]
  BY DEF Thread
<1> HIDE DEF t
<1>4. /\ u \in TickSet /\ u.event = ticks[i].event /\ u.origin = ticks[i].origin
      /\ u.status = ticks[i].status /\ u.thread \in {pc, "none"}
      /\ pc \in Live => u.thread = pc /\ u.host = ticks[i].host
  BY <1>2, EndedTyped
<1> HIDE DEF u
<1>5. ticks' \in [DOMAIN ticks -> TickSet]
  BY <1>3, <1>4, Types
<1>6. ticks' \in Seq(TickSet) /\ DOMAIN ticks' = DOMAIN ticks
  BY <1>5, TicksMapped
<1>7. ticks'[i] = u /\ \A j \in DOMAIN ticks \ {i} : ticks'[j] = ticks[j]
  BY <1>3
<1>8. TicksKept /\ StatusKept({})
  BY <1>4, <1>6, <1>7 DEF TicksKept, StatusKept
<1> QED
  BY <1>4, <1>6, <1>7, <1>8

\* A terminal row.
LEMMA TickTerminated ==
  ASSUME TypeOK, NEW i \in DOMAIN ticks, ticks[i].status = "started",
         NEW status \in {"succeeded", "skipped", "failed"},
         ticks' = Terminal(i, status)
  PROVE  /\ ticks' \in Seq(TickSet) /\ DOMAIN ticks' = DOMAIN ticks
         /\ TicksKept /\ StatusKept({i})
         /\ \A j \in DOMAIN ticks \ {i} : ticks'[j] = ticks[j]
         /\ ticks'[i].status = status
         /\ ticks'[i].thread \in {ticks[i].thread, "none"}
<1> DEFINE t == [ticks[i] EXCEPT !.status = status]
           u == IF t.thread \in Live THEN t ELSE Ended(t)
<1>1. ticks[i] \in TickSet
  BY Types
<1>2. /\ t \in TickSet /\ t.event = ticks[i].event /\ t.origin = ticks[i].origin
      /\ t.status = status /\ t.thread = ticks[i].thread
  BY <1>1 DEF TickSet, Live
<1>3. ticks' = [ticks EXCEPT ![i] = u]
  BY DEF Terminal
<1> HIDE DEF t
<1>4. /\ u \in TickSet /\ u.event = ticks[i].event /\ u.origin = ticks[i].origin
      /\ u.status = status /\ u.thread \in {ticks[i].thread, "none"}
  BY <1>2, EndedTyped
<1> HIDE DEF u
<1>5. ticks' \in [DOMAIN ticks -> TickSet]
  BY <1>3, <1>4, Types
<1>6. ticks' \in Seq(TickSet) /\ DOMAIN ticks' = DOMAIN ticks
  BY <1>5, TicksMapped
<1>7. ticks'[i] = u /\ \A j \in DOMAIN ticks \ {i} : ticks'[j] = ticks[j]
  BY <1>3
<1>8. TicksKept /\ StatusKept({i})
  BY <1>4, <1>6, <1>7 DEF TicksKept, StatusKept
<1> QED
  BY <1>4, <1>6, <1>7, <1>8

\* The stream, where only the checkpoint steps over events.
LEMMA StreamSame ==
  ASSUME TypeOK, UNCHANGED stream, skipped \subseteq skipped'
  PROVE  StreamKept
BY DEF StreamKept, stream, Owed

\* No pass.
LEMMA IdleIs ==
  /\ Idle \in PassSet /\ PassInv(Idle)
  /\ Idle.pc = "idle" /\ Idle.tick = 0 /\ ~Waiting(Idle)
BY DEF Idle, PassSet, PassInv, PositionInv, BatchInv, TickInv, Waiting

-----------------------------------------------------------------------------
\* The steps outside the passes.

\* The inductive invariant.
Inv == TypeOK /\ DispatchInv

\* An observation becomes visible: it is owed only behind all others.
LEMMA ArriveStep == ASSUME Inv, NEW e \in Events, Arrive(e) PROVE Inv'
<1> USE DEF Inv
<1>1. Newest \in arrived \union {0} /\ \A x \in arrived : x <= Newest
  BY NewestIs DEF DispatchInv, StreamInv
<1>2. TicksKept /\ StatusKept({})
  BY TicksSame DEF Arrive
<1>3. TypeOK'
  BY DEF TypeOK, Arrive, threads, calls
<1>4. e \in Nat \ {0} /\ \A x \in arrived : x \in Nat
  BY Types, SensorAssumption
<1>5. ASSUME NEW f \in Owed', f \notin Owed
      PROVE  \A x \in arrived : x < f
  <2>1. f = e /\ ~(e < Newest)
    BY <1>5 DEF Owed, Arrive
  <2>2. Newest \in Nat
    BY <1>1, <1>4
  <2>3. ASSUME NEW x \in arrived PROVE x < e
    <3>1. x # e /\ x <= Newest /\ x \in Nat
      BY <1>1, <1>4 DEF Arrive
    <3> QED
      BY <2>1, <2>2, <3>1, <1>4
  <2> QED
    BY <2>1, <2>3
<1>6. StreamKept
  BY <1>5 DEF StreamKept, Arrive
<1>7. Bounded'
  <2>1. IsFiniteSet(arrived \union {e})
    BY FS_AddElement DEF DispatchInv, StreamInv, Bounded
  <2>2. PICK m \in {e, Newest} : e <= m /\ Newest <= m
    BY <1>1, <1>4
  <2>3. m \in arrived' \union {0} /\ \A x \in arrived' : x <= m
    <3>1. arrived' = arrived \union {e}
      BY DEF Arrive
    <3>2. Newest \in Nat
      BY <1>1, <1>4
    <3>3. ASSUME NEW x \in arrived PROVE x <= m
      <4>1. x <= Newest /\ x \in Nat /\ m \in Nat
        BY <1>1, <1>4, <3>2
      <4> QED
        BY <4>1, <3>2, <2>2
    <3> QED
      BY <3>1, <3>3, <2>2, <1>1
  <2> QED
    BY <2>1, <2>3 DEF Bounded, Arrive
<1>8. pass' = pass /\ checkpoint' = checkpoint /\ ticks' = ticks
  BY DEF Arrive
<1> QED
  BY <1>2, <1>3, <1>6, <1>7, <1>8, QuietStep

\* An event expires.
LEMMA ExpireStep == ASSUME Inv, NEW e \in Events, Expire(e) PROVE Inv'
<1> USE DEF Inv
<1>1. TypeOK'
  BY DEF TypeOK, Expire, threads, calls
<1>2. TicksKept /\ StatusKept({})
  BY TicksSame DEF Expire
<1>3. StreamKept
  BY DEF StreamKept, Expire, Owed
<1>4. Bounded'
  BY DEF DispatchInv, StreamInv, Bounded, Expire
<1>5. pass' = pass /\ checkpoint' = checkpoint /\ ticks' = ticks
  BY DEF Expire
<1> QED
  BY <1>1, <1>2, <1>3, <1>4, <1>5, QuietStep

\* The backoff elapses.
LEMMA CoolDownStep == ASSUME Inv, NEW e \in Events, CoolDown(e) PROVE Inv'
<1> USE DEF Inv
<1>1. TypeOK'
  BY DEF TypeOK, CoolDown, stream, threads, calls
<1>2. TicksKept /\ StatusKept({})
  BY TicksSame DEF CoolDown
<1>3. StreamKept
  BY StreamSame DEF CoolDown
<1>4. Bounded'
  BY DEF DispatchInv, StreamInv, Bounded, CoolDown, stream
<1>5. pass' = pass /\ checkpoint' = checkpoint /\ ticks' = ticks
  BY DEF CoolDown
<1> QED
  BY <1>1, <1>2, <1>3, <1>4, <1>5, QuietStep

\* The operator skips an event.
LEMMA SkipStep ==
  ASSUME Inv, NEW d \in Dispatchers, NEW e \in Events, SkipDeadLetter(d, e) PROVE Inv'
<1> USE DEF Inv
<1> DEFINE t == Tick(d, e, "skipped", "operator")
<1>1. t \in TickSet /\ t.origin = "operator"
  BY TickTyped
<1>2. ticks' = Append(ticks, t)
  BY DEF SkipDeadLetter
<1> HIDE DEF t
<1>3. /\ ticks' \in Seq(TickSet) /\ TicksKept /\ StatusKept({})
      /\ DOMAIN ticks' = DOMAIN ticks \union {Len(ticks) + 1}
      /\ ticks'[Len(ticks) + 1] = t
  BY <1>1, <1>2, TicksAppended
<1>4. TypeOK'
  <2>1. actions' \in Nat
    BY DEF SkipDeadLetter, TypeOK
  <2> QED
    BY <2>1, <1>3 DEF TypeOK, TickSet, SkipDeadLetter, stream, threads, calls
<1>5. StreamKept
  BY StreamSame DEF SkipDeadLetter
<1>6. Bounded'
  BY DEF DispatchInv, StreamInv, Bounded, SkipDeadLetter, stream
<1>7. pass' = pass /\ checkpoint' = checkpoint
  BY DEF SkipDeadLetter
<1>8. \A i \in DOMAIN ticks' \ DOMAIN ticks : ticks'[i].origin # "dispatch"
  BY <1>1, <1>3
<1> QED
  BY <1>3, <1>4, <1>5, <1>6, <1>7, <1>8, QuietStep

\* What the steps of a handler leave alone.
HandlerFrame == UNCHANGED <<stream, checkpoint, abandoned, cool, pass, crashes, actions, skipped>>

\* What all steps of a handler have in common.
LEMMA HandlerSteps ==
  ASSUME Inv, NEW i \in DOMAIN ticks, Handler(i)
  PROVE  /\ HandlerFrame
         /\ ticks[i].thread \in Live
         /\ \E pc \in Live \union {"returned", "raised"} : Thread(i, pc)
         /\ steps' \in [Events -> SUBSET {"started", "succeeded", "failed"}]
         /\ \A e \in Events : steps[e] \subseteq steps'[e]
         /\ invoked' \in SUBSET Events /\ repeated' \in SUBSET AtMostOnceEvents
<1> USE DEF Inv, Live
<1>0. /\ ticks[i] \in TickSet /\ ticks[i].event \in Events
      /\ steps \in [Events -> SUBSET {"started", "succeeded", "failed"}]
      /\ invoked \in SUBSET Events /\ repeated \in SUBSET AtMostOnceEvents
  <2>1. ticks[i] \in TickSet
    BY Types
  <2>2. ticks[i].event \in Events
    BY <2>1 DEF TickSet
  <2> QED
    BY <2>1, <2>2 DEF TypeOK
<1>1. CASE ReadStep(i)
  BY <1>0, <1>1 DEF ReadStep, HandlerFrame, threads, calls
<1>2. CASE MarkStarted(i)
  BY <1>0, <1>2 DEF MarkStarted, Mark, HandlerFrame, threads, calls
<1>3. CASE CallStep(i)
  <2>1. \E pc \in Live \union {"returned", "raised"} : Thread(i, pc)
    BY <1>3 DEF CallStep
  <2> QED
    BY <2>1, <1>0, <1>3 DEF CallStep, HandlerFrame
<1>4. CASE RecordStep(i)
  <2>1. \E pc \in Live \union {"returned", "raised"} : Thread(i, pc)
    BY <1>4 DEF RecordStep
  <2> QED
    BY <2>1, <1>0, <1>4 DEF RecordStep, Mark, HandlerFrame, threads, calls
<1>5. CASE HandlerReturns(i)
  BY <1>0, <1>5 DEF HandlerReturns, HandlerFrame, threads, calls
<1>6. CASE HandlerRaises(i)
  BY <1>0, <1>6 DEF HandlerRaises, HandlerFrame, threads, calls
<1> QED
  BY <1>1, <1>2, <1>3, <1>4, <1>5, <1>6 DEF Handler

\* A handler goes on.
LEMMA HandlerStep == ASSUME Inv, NEW i \in DOMAIN ticks, Handler(i) PROVE Inv'
<1> USE DEF Inv
<1>1. /\ HandlerFrame
      /\ steps' \in [Events -> SUBSET {"started", "succeeded", "failed"}]
      /\ invoked' \in SUBSET Events /\ repeated' \in SUBSET AtMostOnceEvents
  BY HandlerSteps
<1>2. PICK pc \in Live \union {"returned", "raised"} : Thread(i, pc)
  BY HandlerSteps
<1>3. /\ ticks' \in Seq(TickSet) /\ DOMAIN ticks' = DOMAIN ticks
      /\ TicksKept /\ StatusKept({})
  BY <1>2, TickThreaded
<1>4. TypeOK'
  BY <1>1, <1>3 DEF TypeOK, TickSet, HandlerFrame, stream
<1>5. StreamKept
  BY <1>1, StreamSame DEF HandlerFrame
<1>6. Bounded'
  BY <1>1 DEF DispatchInv, StreamInv, Bounded, HandlerFrame, stream
<1>7. pass' = pass /\ checkpoint' = checkpoint
  BY <1>1 DEF HandlerFrame
<1> QED
  BY <1>3, <1>4, <1>5, <1>6, <1>7, QuietStep

-----------------------------------------------------------------------------
\* The steps of a pass.

\* One pass is replaced.
LEMMA PassTyped ==
  ASSUME TypeOK, NEW d \in Dispatchers, NEW q \in PassSet, pass' = [pass EXCEPT ![d] = q]
  PROVE  /\ pass' \in [Dispatchers -> PassSet]
         /\ pass'[d] = q
         /\ \A c \in Dispatchers \ {d} : pass'[c] = pass[c]
BY Types

\* The pass of d moves to q.
LEMMA PassMoves ==
  ASSUME Inv, TypeOK', TicksKept, StreamKept, Bounded', NEW d \in Dispatchers,
         NEW q \in PassSet, pass' = [pass EXCEPT ![d] = q], PassInv(q)',
         Waiting(q) => q.tick \notin DOMAIN ticks,
         StatusKept({pass[d].tick}), ~Waiting(pass[d]) => StatusKept({}),
         \A c \in checkpoint' : c \in arrived' \union {0} /\ Settled(c)',
         \A i \in DOMAIN ticks' \ DOMAIN ticks : ticks'[i].origin = "dispatch" =>
            /\ ticks'[i].event \in arrived'
            /\ \A e \in Owed' : e < ticks'[i].event => Resolved(e)'
  PROVE  Inv'
<1> USE DEF Inv
<1>1. pass'[d] = q /\ \A c \in Dispatchers \ {d} : pass'[c] = pass[c]
  BY PassTyped
<1>2. PassInv(pass[d])'
  BY <1>1 DEF PassInv, PositionInv, BatchInv, TickInv, Waiting
<1>3. Waiting(pass[d])' => pass'[d].tick \notin DOMAIN ticks
  BY <1>1 DEF Waiting
<1> QED
  BY <1>1, <1>2, <1>3, PassStep

\* What a step that only moves a pass leaves alone.
PassFrame == UNCHANGED <<stream, checkpoint, ticks, threads, cool, crashes, actions, skipped>>

\* Only the pass of d moves, and it waits for nothing then.
LEMMA QuietPass ==
  ASSUME Inv, PassFrame, NEW d \in Dispatchers,
         NEW q \in PassSet, pass' = [pass EXCEPT ![d] = q], PassInv(q), ~Waiting(q)
  PROVE  Inv'
<1> USE DEF Inv
<1>1. pass' \in [Dispatchers -> PassSet]
  BY PassTyped
<1>2. TypeOK'
  BY <1>1 DEF TypeOK, PassSet, PassFrame, stream, threads, calls
<1>3. TicksKept /\ StatusKept({}) /\ StatusKept({pass[d].tick})
  BY TicksSame DEF PassFrame, StatusKept
<1>4. StreamKept
  BY StreamSame DEF PassFrame
<1>5. Bounded'
  BY DEF DispatchInv, StreamInv, Bounded, PassFrame, stream
<1>6. PassInv(q)'
  <2>1. Waiting(q) => ticks'[q.tick].status = "started"
    OBVIOUS
  <2> QED
    BY <1>2, <1>3, <1>4, <2>1, PassKept
<1>7. \A c \in checkpoint' : c \in arrived' \union {0} /\ Settled(c)'
  BY <1>2, <1>3, <1>4, CheckpointsKept DEF PassFrame
<1>8. DOMAIN ticks' \ DOMAIN ticks = {}
  BY DEF PassFrame
<1> QED
  BY <1>2, <1>3, <1>4, <1>5, <1>6, <1>7, <1>8, PassMoves

\* The states Goto leads to.
LEMMA GotoIs ==
  ASSUME TypeOK, NEW d \in Dispatchers, NEW pc \in {"initialize", "advance"}, Goto(d, pc)
  PROVE  \E q \in PassSet :
           /\ pass' = [pass EXCEPT ![d] = q]
           /\ q.pc = pc /\ q.position = pass[d].position /\ q.tick = pass[d].tick
<1> DEFINE q == [pass[d] EXCEPT !.pc = pc]
<1>1. pass[d] \in PassSet
  BY Types
<1>2. q \in PassSet /\ q.pc = pc /\ q.position = pass[d].position /\ q.tick = pass[d].tick
  BY <1>1 DEF PassSet
<1>3. pass' = [pass EXCEPT ![d] = q]
  BY Types DEF Goto
<1> QED
  BY <1>2, <1>3

\* There is no checkpoint.
LEMMA StartInitializationStep ==
  ASSUME Inv, NEW d \in Dispatchers, StartInitialization(d) PROVE Inv'
<1> USE DEF Inv
<1>1. PICK q \in PassSet : /\ pass' = [pass EXCEPT ![d] = q]
                           /\ q.pc = "initialize" /\ q.tick = pass[d].tick
  BY GotoIs DEF StartInitialization
<1>2. PassInv(q) /\ ~Waiting(q)
  BY <1>1 DEF PassInv, PositionInv, BatchInv, TickInv, Waiting, DispatchInv
<1>3. PassFrame
  BY DEF StartInitialization, PassFrame
<1> QED
  BY <1>1, <1>2, <1>3, QuietPass

\* A pass starts at the checkpoint.
LEMMA StartPassStep ==
  ASSUME Inv, NEW d \in Dispatchers, StartPass(d) PROVE Inv'
<1> USE DEF Inv
<1>1. PICK c \in Events \union {0} : checkpoint = {c}
  BY DEF StartPass, TypeOK
<1>2. c \in Nat /\ c \in arrived \union {0} /\ Settled(c)
  BY <1>1, SensorAssumption DEF DispatchInv, StreamInv, CheckpointCovers, Settled
<1>3. Max(checkpoint) = c
  <2>1. {c} \subseteq Nat /\ c \in {c} /\ \A x \in {c} : x <= c
    BY <1>2
  <2> QED
    BY <1>1, <2>1, MaxIs
<1>4. Newest \in Nat
  BY NewestIs, Types DEF DispatchInv, StreamInv
<1> DEFINE q == [Idle EXCEPT !.pc = "fetch", !.head = Newest, !.position = Max(checkpoint)]
<1>5. q \in PassSet /\ q.pc = "fetch" /\ q.position = c /\ q.tick = 0
  BY <1>2, <1>3, <1>4 DEF Idle, PassSet
<1>6. pass' = [pass EXCEPT ![d] = q]
  BY DEF StartPass
<1> HIDE DEF q
<1>7. PassInv(q) /\ ~Waiting(q)
  BY <1>2, <1>5 DEF PassInv, PositionInv, BatchInv, TickInv, Waiting
<1>8. PassFrame
  BY DEF StartPass, PassFrame
<1> QED
  BY <1>5, <1>6, <1>7, <1>8, QuietPass

\* A batch is fetched.
LEMMA FetchStep ==
  ASSUME Inv, NEW d \in Dispatchers, Fetch(d) PROVE Inv'
<1> USE DEF Inv
<1> DEFINE p == pass[d].position
           h == pass[d].head
           b == {e \in FetchAfter(p) : e <= h}
           pc == IF b = {} THEN "advance"
                 ELSE IF Cardinality(b) < BatchLimit THEN "last" ELSE "deliver"
           q == [pass[d] EXCEPT !.batch = b, !.tick = 0, !.stale = b \cap expired, !.pc = pc]
<1>1. pass[d] \in PassSet /\ p \in Nat /\ h \in Nat
  BY Types DEF PassSet
<1>2. pass' = [pass EXCEPT ![d] = q]
  BY <1>1, Types DEF Fetch, PassSet
<1>3. p \in arrived \union {0} /\ Settled(p)
  BY DEF DispatchInv, PassInv, PositionInv, Fetch
<1>4. b \subseteq arrived /\ \A f \in b : p < f
  BY <1>1, SensorAssumption DEF FetchAfter, TypeOK
<1>5. ASSUME NEW f \in b, NEW e \in Owed, p < e, e <= f
      PROVE  e \in b
  <2>1. e \in arrived
    BY DEF Owed
  <2>2. e \in FetchAfter(p)
    BY <1>1, <1>5, <2>1, FetchContiguous DEF DispatchInv, StreamInv
  <2>3. e \in Nat /\ f \in Nat /\ f <= h
    BY <2>1, <1>4, Types
  <2>4. e <= h
    BY <1>1, <1>5, <2>3
  <2> QED
    BY <2>2, <2>4
<1>6. b \subseteq Events /\ b \cap expired \subseteq Events
  BY <1>4 DEF TypeOK
<1>7. pc \in {"advance", "last", "deliver"}
  OBVIOUS
<1> HIDE DEF b, pc
<1>8. /\ q \in PassSet /\ q.pc = pc /\ q.position = p /\ q.batch = b /\ q.tick = 0
      /\ q.stale = b \cap expired
  BY <1>1, <1>6, <1>7 DEF PassSet
<1> HIDE DEF q
<1>9. PassInv(q) /\ ~Waiting(q)
  <2>1. PositionInv(q)
    BY <1>3, <1>8 DEF PositionInv
  <2>2. BatchInv(q)
    BY <1>4, <1>5, <1>8 DEF BatchInv
  <2>3. TickInv(q) /\ ~Waiting(q)
    BY <1>8 DEF TickInv, Waiting
  <2> QED
    BY <2>1, <2>2, <2>3 DEF PassInv
<1>10. PassFrame
  BY DEF Fetch, PassFrame
<1> QED
  BY <1>2, <1>8, <1>9, <1>10, QuietPass

\* Before the first event of a batch every owed event is resolved.
LEMMA Settles ==
  ASSUME Inv, NEW d \in Dispatchers, pass[d].pc \in {"deliver", "last"},
         NEW e \in pass[d].batch, \A f \in pass[d].batch : e <= f
  PROVE  /\ e \in arrived
         /\ \A f \in Owed : f < e => Resolved(f)
<1> USE DEF Inv
<1>1. pass[d].batch \subseteq arrived /\ Settled(pass[d].position)
  BY DEF DispatchInv, PassInv, PositionInv, BatchInv
<1>2. \A f \in Owed : pass[d].position < f /\ f <= e => f \in pass[d].batch
  BY DEF DispatchInv, PassInv, BatchInv
<1>3. ASSUME NEW f \in Owed, f < e PROVE Resolved(f)
  <2>1. f \in Nat /\ e \in Nat /\ pass[d].position \in Nat
    BY <1>1, Types DEF Owed, PassSet
  <2>2. CASE f <= pass[d].position
    BY <2>2, <1>1 DEF Settled
  <2>3. CASE ~(f <= pass[d].position)
    <3>1. pass[d].position < f /\ f <= e /\ ~(e <= f)
      BY <2>1, <2>3, <1>3
    <3> QED
      BY <3>1, <1>2
  <2> QED
    BY <2>2, <2>3
<1> QED
  BY <1>1, <1>3

\* Passing by the first event of the batch, once it is resolved or not owed.
LEMMA PassByIs ==
  ASSUME Inv, TicksKept, UNCHANGED stream, UNCHANGED skipped,
         NEW d \in Dispatchers, pass[d].pc \in {"deliver", "last"},
         NEW e \in pass[d].batch, \A f \in pass[d].batch : e <= f,
         e \in Owed => Resolved(e)', PassBy(d, e)
  PROVE  \E q \in PassSet : /\ pass' = [pass EXCEPT ![d] = q]
                            /\ PassInv(q)' /\ ~Waiting(q)
<1> USE DEF Inv
<1> DEFINE b == pass[d].batch
           pc == IF b # {e} THEN pass[d].pc
                 ELSE IF pass[d].pc = "deliver" THEN "fetch" ELSE "advance"
           r == [pass[d] EXCEPT !.position = e, !.batch = b \ {e}, !.tick = 0, !.pc = pc]
<1>1. pass[d] \in PassSet /\ b \subseteq Events
  BY Types DEF PassSet
<1>2. /\ b \subseteq arrived /\ \A f \in b : pass[d].position < f
      /\ \A f \in b, g \in Owed : pass[d].position < g /\ g <= f => g \in b
      /\ pass[d].stale \subseteq expired
  BY DEF DispatchInv, PassInv, BatchInv
<1>3. pass' = [pass EXCEPT ![d] = r]
  BY <1>1, Types DEF PassBy, PassSet
<1>4. pc \in {"deliver", "last", "fetch", "advance"}
  OBVIOUS
<1>5. e \in Nat /\ pass[d].position \in Nat /\ pass[d].position < e
  BY <1>1, <1>2, SensorAssumption DEF PassSet
<1> HIDE DEF pc
<1>6. PICK q \in PassSet : /\ pass' = [pass EXCEPT ![d] = q]
                           /\ q.pc = pc /\ q.position = e /\ q.batch = b \ {e}
                           /\ q.tick = 0 /\ q.stale = pass[d].stale
  <2>1. /\ r \in PassSet /\ r.pc = pc /\ r.position = e /\ r.batch = b \ {e}
        /\ r.tick = 0 /\ r.stale = pass[d].stale
    BY <1>1, <1>4, <1>5 DEF PassSet
  <2> QED
    BY <2>1, <1>3
<1>7. Owed' = Owed /\ arrived' = arrived /\ expired' = expired
  BY DEF Owed, stream
<1>8. PositionInv(q)'
  <2>1. \A f \in Owed : f < e => Resolved(f)
    BY Settles
  <2>2. \A f \in Owed : f < e => Resolved(f)'
    BY <2>1 DEF TicksKept, Resolved
  <2>3. \A f \in Owed : f \in Nat
    BY Types DEF Owed
  <2>4. \A f \in Owed : f <= e => Resolved(f)'
    BY <2>2, <2>3, <1>5
  <2>5. Settled(e)'
    BY <2>4, <1>7 DEF Settled
  <2> QED
    BY <2>5, <1>6, <1>7, <1>2 DEF PositionInv
<1>9. BatchInv(q)'
  <2>1. b \ {e} \subseteq arrived'
    BY <1>2, <1>7
  <2>2. \A f \in b \ {e} : e < f
    BY <1>2, <1>5, Types
  <2>3. ASSUME NEW f \in b \ {e}, NEW g \in Owed, e < g, g <= f PROVE g \in b \ {e}
    <3>1. g \in Nat
      BY Types DEF Owed
    <3>2. pass[d].position < g /\ g # e
      BY <3>1, <1>5, <2>3
    <3> QED
      BY <3>2, <1>2, <2>3
  <2> QED
    BY <2>1, <2>2, <2>3, <1>2, <1>6, <1>7 DEF BatchInv
<1>10. TickInv(q)' /\ ~Waiting(q)
  BY <1>6 DEF TickInv, Waiting
<1> QED
  BY <1>6, <1>8, <1>9, <1>10 DEF PassInv

\* An event that is not due or resolved.
LEMMA PassOverStep ==
  ASSUME Inv, NEW d \in Dispatchers, NEW e \in Events, PassOver(d, e) PROVE Inv'
<1> USE DEF Inv
<1>1. PassFrame /\ PassBy(d, e) /\ TicksKept
  BY TicksSame DEF PassOver, PassFrame
<1>2. /\ pass[d].pc \in {"deliver", "last"} /\ e \in pass[d].batch
      /\ \A f \in pass[d].batch : e <= f
  BY DEF PassOver, IsNext
<1>3. e \in Owed => Resolved(e)'
  <2>1. pass[d].stale \subseteq expired
    BY <1>2 DEF DispatchInv, PassInv, BatchInv
  <2>2. e \in Owed => Resolved(e)
    BY <2>1 DEF PassOver, IsDue, Owed
  <2> QED
    BY <2>2, <1>1 DEF Resolved, TicksKept
<1>4. PICK q \in PassSet : pass' = [pass EXCEPT ![d] = q] /\ PassInv(q)' /\ ~Waiting(q)
  BY <1>1, <1>2, <1>3, PassByIs DEF PassFrame
<1>5. PassInv(q)
  BY <1>1, <1>4 DEF PassInv, PositionInv, BatchInv, TickInv, Waiting, Settled, Owed,
                    Resolved, PassFrame, stream
<1> QED
  BY <1>1, <1>4, <1>5, QuietPass

\* The pass stops: lease lost, or backoff.
LEMMA StopStep ==
  ASSUME Inv, NEW d \in Dispatchers, NEW e \in Events, LeaseLost(d, e) \/ BackOff(d, e)
  PROVE  Inv'
<1> USE DEF Inv
<1>1. PassFrame /\ Goto(d, "advance") /\ pass[d].pc \in {"deliver", "last"}
  BY DEF LeaseLost, BackOff, PassFrame, IsDue, IsNext
<1>2. PICK q \in PassSet : /\ pass' = [pass EXCEPT ![d] = q] /\ q.pc = "advance"
                           /\ q.position = pass[d].position /\ q.tick = pass[d].tick
  BY <1>1, GotoIs
<1>3. PassInv(q) /\ ~Waiting(q)
  BY <1>1, <1>2 DEF PassInv, PositionInv, BatchInv, TickInv, Waiting, DispatchInv
<1> QED
  BY <1>1, <1>2, <1>3, QuietPass

\* The event is dead-lettered.
LEMMA DeadLetterStep ==
  ASSUME Inv, NEW d \in Dispatchers, NEW e \in Events, DeadLetter(d, e) PROVE Inv'
<1> USE DEF Inv
<1> DEFINE t == Tick(d, e, "dead_lettered", "dispatch")
<1>1. t \in TickSet /\ t.event = e /\ t.status = "dead_lettered"
  BY TickTyped
<1>2. ticks' = Append(ticks, t)
  BY DEF DeadLetter
<1> HIDE DEF t
<1>3. /\ ticks' \in Seq(TickSet) /\ TicksKept /\ StatusKept({})
      /\ DOMAIN ticks' = DOMAIN ticks \union {Len(ticks) + 1}
      /\ ticks'[Len(ticks) + 1] = t
  BY <1>1, <1>2, TicksAppended
<1>4. /\ pass[d].pc \in {"deliver", "last"} /\ e \in pass[d].batch /\ pass[d].tick = 0
      /\ \A f \in pass[d].batch : e <= f
  BY DEF DeadLetter, IsDue, IsNext
<1>5. Resolved(e)'
  BY <1>1, <1>3 DEF Resolved
<1>6. UNCHANGED stream /\ UNCHANGED skipped /\ UNCHANGED checkpoint /\ PassBy(d, e)
  BY DEF DeadLetter
<1>7. PICK q \in PassSet : pass' = [pass EXCEPT ![d] = q] /\ PassInv(q)' /\ ~Waiting(q)
  BY <1>3, <1>4, <1>5, <1>6, PassByIs
<1>8. pass' \in [Dispatchers -> PassSet]
  BY <1>7, PassTyped
<1>9. TypeOK'
  BY <1>3, <1>8 DEF TypeOK, PassSet, TickSet, DeadLetter, stream, threads, calls
<1>10. StreamKept
  BY <1>6, StreamSame
<1>11. Bounded'
  BY <1>6 DEF DispatchInv, StreamInv, Bounded, stream
<1>12. \A c \in checkpoint' : c \in arrived' \union {0} /\ Settled(c)'
  BY <1>3, <1>6, <1>9, <1>10, CheckpointsKept
<1>13. e \in arrived' /\ \A f \in Owed' : f < e => Resolved(f)'
  <2>1. e \in arrived /\ \A f \in Owed : f < e => Resolved(f)
    BY <1>4, Settles
  <2>2. Owed' = Owed /\ arrived' = arrived
    BY <1>6 DEF Owed, stream
  <2> QED
    BY <2>1, <2>2, <1>3 DEF Resolved, TicksKept
<1>14. \A i \in DOMAIN ticks' \ DOMAIN ticks : ticks'[i].event = e
  BY <1>1, <1>3
<1>15. ~Waiting(pass[d]) /\ StatusKept({pass[d].tick})
  BY <1>3, <1>4 DEF Waiting, StatusKept
<1> QED
  BY <1>3, <1>7, <1>9, <1>10, <1>11, <1>12, <1>13, <1>14, <1>15, PassMoves

\* A tick is started.
LEMMA EvaluateStep ==
  ASSUME Inv, NEW d \in Dispatchers, NEW e \in Events, Evaluate(d, e) PROVE Inv'
<1> USE DEF Inv
<1> DEFINE t == Tick(d, e, "started", "dispatch")
           n == Len(ticks) + 1
           r == [pass[d] EXCEPT !.tick = n]
<1>1. t \in TickSet /\ t.event = e /\ t.status = "started"
  BY TickTyped
<1>2. ticks' = Append(ticks, t)
  BY DEF Evaluate
<1> HIDE DEF t
<1>3. /\ ticks' \in Seq(TickSet) /\ TicksKept /\ StatusKept({})
      /\ DOMAIN ticks' = DOMAIN ticks \union {n}
      /\ ticks'[n] = t /\ n \notin DOMAIN ticks
  BY <1>1, <1>2, TicksAppended
<1>4. /\ pass[d].pc \in {"deliver", "last"} /\ e \in pass[d].batch /\ pass[d].tick = 0
      /\ \A f \in pass[d].batch : e <= f
  BY DEF Evaluate, IsDue, IsNext
<1>5. n \in Nat \ {0}
  BY Types
<1>6. pass' = [pass EXCEPT ![d] = r] /\ pass[d] \in PassSet
  BY Types DEF Evaluate
<1> HIDE DEF n
<1>7. PICK q \in PassSet :
        /\ pass' = [pass EXCEPT ![d] = q]
        /\ q.pc = pass[d].pc /\ q.position = pass[d].position
        /\ q.batch = pass[d].batch /\ q.stale = pass[d].stale /\ q.tick = n
  <2>1. /\ r \in PassSet /\ r.pc = pass[d].pc /\ r.position = pass[d].position
        /\ r.batch = pass[d].batch /\ r.stale = pass[d].stale /\ r.tick = n
    BY <1>5, <1>6 DEF PassSet
  <2> QED
    BY <2>1, <1>6
<1>8. pass' \in [Dispatchers -> PassSet]
  BY <1>6, <1>7, PassTyped
<1>9. UNCHANGED stream /\ UNCHANGED skipped /\ UNCHANGED checkpoint
  BY DEF Evaluate
<1>10. TypeOK'
  BY <1>3, <1>8 DEF TypeOK, PassSet, TickSet, Evaluate, stream, threads, calls
<1>11. StreamKept
  BY <1>9, StreamSame
<1>12. Bounded'
  BY <1>9 DEF DispatchInv, StreamInv, Bounded, stream
<1>13. \A c \in checkpoint' : c \in arrived' \union {0} /\ Settled(c)'
  BY <1>3, <1>9, <1>10, <1>11, CheckpointsKept
<1>14. e \in arrived' /\ \A f \in Owed' : f < e => Resolved(f)'
  <2>1. e \in arrived /\ \A f \in Owed : f < e => Resolved(f)
    BY <1>4, Settles
  <2>2. Owed' = Owed /\ arrived' = arrived
    BY <1>9 DEF Owed, stream
  <2> QED
    BY <2>1, <2>2, <1>3 DEF Resolved, TicksKept
<1>15. \A i \in DOMAIN ticks' \ DOMAIN ticks : ticks'[i].event = e
  BY <1>1, <1>3
<1>16. ~Waiting(pass[d]) /\ StatusKept({pass[d].tick})
  BY <1>3, <1>4 DEF Waiting, StatusKept
<1>17. PassInv(q)'
  <2>1. PassInv(pass[d])
    BY DEF DispatchInv
  <2>2. PositionInv(q) /\ BatchInv(q)
    BY <2>1, <1>7 DEF PassInv, PositionInv, BatchInv
  <2>3. Owed' = Owed /\ arrived' = arrived /\ expired' = expired
    BY <1>9 DEF Owed, stream
  <2>4. PositionInv(q)'
    <3>1. CASE q.position \in arrived \union {0} /\ Settled(q.position)
      BY <3>1, <1>3, <1>10, <1>11, <2>3, SettledKept DEF PositionInv
    <3> QED
      BY <2>2, <3>1 DEF PositionInv
  <2>5. BatchInv(q)'
    BY <2>2, <2>3 DEF BatchInv
  <2>6. TickInv(q)'
    BY <1>1, <1>3, <1>4, <1>7 DEF TickInv, Waiting
  <2> QED
    BY <2>4, <2>5, <2>6 DEF PassInv
<1> QED
  BY <1>3, <1>6, <1>7, <1>10, <1>11, <1>12, <1>13, <1>14, <1>15, <1>16, <1>17, PassMoves

\* Where a terminal row takes the pass.
LEMMA RecordMoves ==
  ASSUME Inv, TicksKept, UNCHANGED stream, UNCHANGED skipped,
         NEW d \in Dispatchers, Waiting(pass[d]),
         NEW status \in {"succeeded", "skipped", "failed"},
         ticks'[pass[d].tick].status = status,
         Record(d, pass[d].tick, status)
  PROVE  \E q \in PassSet : /\ pass' = [pass EXCEPT ![d] = q]
                            /\ PassInv(q)' /\ ~Waiting(q)
<1> USE DEF Inv
<1>0. PICK i : i = pass[d].tick
  OBVIOUS
<1>1. CASE pass[d].pc = "retry"
  <2>1. pass' = [pass EXCEPT ![d] = Idle]
    BY <1>1 DEF Record
  <2>2. PassInv(Idle)'
    BY DEF Idle, PassInv, PositionInv, BatchInv, TickInv, Waiting
  <2> QED
    BY <2>1, <2>2, IdleIs
<1>2. CASE pass[d].pc # "retry" /\ status = "failed"
  <2>1. Goto(d, "advance")
    BY <1>2 DEF Record
  <2>2. PICK q \in PassSet : /\ pass' = [pass EXCEPT ![d] = q] /\ q.pc = "advance"
                             /\ q.position = pass[d].position /\ q.tick = pass[d].tick
    BY <2>1, GotoIs
  <2>3. /\ q.position \in arrived \union {0} /\ Settled(q.position)
        /\ q.tick \in DOMAIN ticks
    BY <1>2, <2>2 DEF DispatchInv, PassInv, PositionInv, TickInv, Waiting
  <2>4. Settled(q.position)'
    BY <2>3 DEF Settled, Owed, Resolved, TicksKept, stream
  <2>5. PassInv(q)' /\ ~Waiting(q)
    BY <2>2, <2>3, <2>4
    DEF PassInv, PositionInv, BatchInv, TickInv, Waiting, TicksKept, stream
  <2> QED
    BY <2>2, <2>5
<1>3. CASE pass[d].pc # "retry" /\ status # "failed"
  <2>1. PassBy(d, ticks[i].event)
    BY <1>0, <1>3 DEF Record
  <2>2. /\ pass[d].pc \in {"deliver", "last"} /\ ticks[i].event \in pass[d].batch
        /\ \A f \in pass[d].batch : ticks[i].event <= f
        /\ i \in DOMAIN ticks
    BY <1>0, <1>3 DEF DispatchInv, PassInv, TickInv, Waiting
  <2>3. PICK e : e = ticks[i].event
    OBVIOUS
  <2>4. Resolved(e)'
    BY <1>0, <1>3, <2>2, <2>3 DEF Resolved, TicksKept
  <2> QED
    BY <2>1, <2>2, <2>3, <2>4, PassByIs
<1> QED
  BY <1>1, <1>2, <1>3

\* The terminal row of the tick a pass waits for.
LEMMA RecordEnds ==
  ASSUME Inv, NEW d \in Dispatchers, Waiting(pass[d]),
         NEW status \in {"succeeded", "skipped", "failed"},
         Record(d, pass[d].tick, status),
         UNCHANGED <<stream, checkpoint, steps, calls, crashes, actions, skipped>>,
         abandoned' \in SUBSET Events
  PROVE  Inv'
<1> USE DEF Inv
<1>1. PICK i : i = pass[d].tick
  OBVIOUS
<1>2. i \in DOMAIN ticks /\ ticks[i].status = "started"
  BY <1>1 DEF DispatchInv, PassInv, TickInv, Waiting
<1>3. ticks' = Terminal(i, status)
  BY <1>1 DEF Record
<1>4. /\ ticks' \in Seq(TickSet) /\ DOMAIN ticks' = DOMAIN ticks
      /\ TicksKept /\ StatusKept({i}) /\ ticks'[i].status = status
  BY <1>2, <1>3, TickTerminated
<1>5. PICK q \in PassSet : pass' = [pass EXCEPT ![d] = q] /\ PassInv(q)' /\ ~Waiting(q)
  BY <1>1, <1>4, RecordMoves
<1>6. pass' \in [Dispatchers -> PassSet]
  BY <1>5, PassTyped
<1>7. cool' \in SUBSET Events
  <2>1. ticks[i].event \in Events
    BY <1>2, TickTypes
  <2>2. cool \in SUBSET Events
    BY DEF TypeOK
  <2> QED
    BY <1>1, <2>1, <2>2 DEF Record, Cooling
<1>8. TypeOK'
  BY <1>4, <1>6, <1>7 DEF TypeOK, PassSet, TickSet, stream, calls
<1>9. StreamKept
  BY StreamSame
<1>10. Bounded'
  BY DEF DispatchInv, StreamInv, Bounded, stream
<1>11. \A c \in checkpoint' : c \in arrived' \union {0} /\ Settled(c)'
  BY <1>4, <1>8, <1>9, CheckpointsKept
<1> QED
  BY <1>1, <1>4, <1>5, <1>8, <1>9, <1>10, <1>11, PassMoves

\* The handler ended.
LEMMA FinishStep == ASSUME Inv, NEW d \in Dispatchers, FinishEvaluation(d) PROVE Inv'
<1> USE DEF Inv
<1>1. Waiting(pass[d])
  BY DEF FinishEvaluation, Waiting
<1>2. PICK status \in {"succeeded", "skipped", "failed"} : Record(d, pass[d].tick, status)
  BY DEF FinishEvaluation
<1>3. UNCHANGED <<stream, checkpoint, steps, calls, crashes, actions, skipped>>
  BY DEF FinishEvaluation, threads
<1>4. abandoned' \in SUBSET Events
  BY DEF FinishEvaluation, threads, TypeOK
<1> QED
  BY <1>1, <1>2, <1>3, <1>4, RecordEnds

\* The handler timed out.
LEMMA TimeOutStep == ASSUME Inv, NEW d \in Dispatchers, TimeOut(d) PROVE Inv'
<1> USE DEF Inv
<1>1. Waiting(pass[d]) /\ Record(d, pass[d].tick, "failed")
  BY DEF TimeOut, Waiting
<1>2. UNCHANGED <<stream, checkpoint, steps, calls, crashes, actions, skipped>>
  BY DEF TimeOut
<1>3. abandoned' \in SUBSET Events
  <2>1. pass[d].tick \in DOMAIN ticks
    BY <1>1 DEF DispatchInv, PassInv, TickInv, Waiting
  <2>2. ticks[pass[d].tick].event \in Events
    BY <2>1, TickTypes
  <2> QED
    BY <2>2 DEF TimeOut, TypeOK
<1> QED
  BY <1>1, <1>2, <1>3, RecordEnds

\* The furthest checkpoint row after another was inserted.
LEMMA CheckpointIs ==
  ASSUME TypeOK, NEW p \in arrived \union {0}, checkpoint \subseteq arrived \union {0},
         Checkpoint(p)
  PROVE  \E c \in checkpoint \union {p} : checkpoint' = {c}
<1>1. checkpoint \union {p} \subseteq Nat
  BY Types
<1>2. PICK c \in checkpoint \union {p} : \A x \in checkpoint \union {p} : x <= c
  <2>1. CASE checkpoint = {}
    BY <2>1, <1>1
  <2>2. CASE checkpoint # {}
    <3>1. PICK b : checkpoint = {b}
      BY <2>2 DEF TypeOK
    <3>2. b \in Nat /\ p \in Nat
      BY <3>1, <1>1
    <3>3. CASE b <= p
      BY <3>1, <3>2, <3>3
    <3>4. CASE ~(b <= p)
      BY <3>1, <3>2, <3>4
    <3> QED
      BY <3>3, <3>4
  <2> QED
    BY <2>1, <2>2
<1>3. Max(checkpoint \union {p}) = c
  BY <1>1, <1>2, MaxIs
<1> QED
  BY <1>3, <1>2 DEF Checkpoint

\* The pass ends.
LEMMA AdvanceStep == ASSUME Inv, NEW d \in Dispatchers, AdvanceCheckpoint(d) PROVE Inv'
<1> USE DEF Inv
<1>1. PICK p : p = pass[d].position
  OBVIOUS
<1>2. p \in arrived \union {0} /\ Settled(p)
  BY <1>1 DEF AdvanceCheckpoint, DispatchInv, PassInv, PositionInv
<1>3. PICK c \in checkpoint \union {p} : checkpoint' = {c}
  BY <1>1, <1>2, CheckpointIs DEF AdvanceCheckpoint, DispatchInv, StreamInv
<1>4. c \in arrived \union {0} /\ Settled(c)
  BY <1>2, <1>3 DEF DispatchInv, StreamInv, CheckpointCovers, Settled
<1>5. TicksKept /\ StatusKept({}) /\ StatusKept({pass[d].tick})
  BY TicksSame DEF AdvanceCheckpoint, StatusKept
<1>6. StreamKept
  BY StreamSame DEF AdvanceCheckpoint
<1>7. pass' = [pass EXCEPT ![d] = Idle]
  BY DEF AdvanceCheckpoint
<1>8. pass' \in [Dispatchers -> PassSet]
  BY <1>7, IdleIs, PassTyped
<1>9. TypeOK'
  <2>1. checkpoint' \in {{}} \union {{x} : x \in Events \union {0}}
    BY <1>3, <1>4 DEF TypeOK
  <2> QED
    BY <2>1, <1>8 DEF TypeOK, PassSet, AdvanceCheckpoint, stream, threads, calls
<1>10. Bounded'
  BY DEF DispatchInv, StreamInv, Bounded, AdvanceCheckpoint, stream
<1>11. Settled(c)'
  BY <1>4, <1>5, <1>6, <1>9, SettledKept
<1>12. \A x \in checkpoint' : x \in arrived' \union {0} /\ Settled(x)'
  BY <1>3, <1>4, <1>11, <1>6 DEF StreamKept
<1>13. PassInv(Idle)'
  BY DEF Idle, PassInv, PositionInv, BatchInv, TickInv, Waiting
<1>14. DOMAIN ticks' \ DOMAIN ticks = {}
  BY DEF AdvanceCheckpoint
<1> QED
  BY <1>5, <1>6, <1>7, <1>9, <1>10, <1>12, <1>13, <1>14, IdleIs, PassMoves

\* A new sensor starts at the end of the stream.
LEMMA InitializeStep == ASSUME Inv, NEW d \in Dispatchers, InitializeCheckpoint(d) PROVE Inv'
<1> USE DEF Inv
<1>1. PICK p : p = Newest
  OBVIOUS
<1>2. p \in arrived \union {0}
  BY <1>1, NewestIs DEF DispatchInv, StreamInv
<1>3. PICK c \in checkpoint \union {p} : checkpoint' = {c}
  BY <1>1, <1>2, CheckpointIs DEF InitializeCheckpoint, DispatchInv, StreamInv
<1>4. c \in arrived \union {0}
  BY <1>2, <1>3 DEF DispatchInv, StreamInv
<1>5. TicksKept /\ StatusKept({}) /\ StatusKept({pass[d].tick})
  BY TicksSame DEF InitializeCheckpoint, StatusKept
<1>6. StreamKept /\ Owed' = {}
  BY StreamSame DEF InitializeCheckpoint, Owed, stream
<1>7. pass' = [pass EXCEPT ![d] = Idle]
  BY DEF InitializeCheckpoint
<1>8. pass' \in [Dispatchers -> PassSet]
  BY <1>7, IdleIs, PassTyped
<1>9. TypeOK'
  <2>1. checkpoint' \in {{}} \union {{x} : x \in Events \union {0}}
    BY <1>3, <1>4 DEF TypeOK
  <2>2. skipped' \in SUBSET Events
    BY DEF InitializeCheckpoint, TypeOK
  <2> QED
    BY <2>1, <2>2, <1>8 DEF TypeOK, PassSet, InitializeCheckpoint, stream, threads, calls
<1>10. Bounded'
  BY DEF DispatchInv, StreamInv, Bounded, InitializeCheckpoint, stream
<1>11. Settled(c)'
  BY <1>6 DEF Settled
<1>12. \A x \in checkpoint' : x \in arrived' \union {0} /\ Settled(x)'
  BY <1>3, <1>4, <1>11, <1>6 DEF StreamKept
<1>13. PassInv(Idle)'
  BY DEF Idle, PassInv, PositionInv, BatchInv, TickInv, Waiting
<1>14. DOMAIN ticks' \ DOMAIN ticks = {}
  BY DEF InitializeCheckpoint
<1> QED
  BY <1>5, <1>6, <1>7, <1>9, <1>10, <1>12, <1>13, <1>14, IdleIs, PassMoves

\* The process dies.
LEMMA CrashStep == ASSUME Inv, NEW d \in Dispatchers, Crash(d) PROVE Inv'
<1> USE DEF Inv
<1>1. /\ ticks' \in Seq(TickSet) /\ DOMAIN ticks' = DOMAIN ticks
      /\ TicksKept /\ StatusKept({})
  BY TicksEnded DEF Crash
<1>2. StatusKept({pass[d].tick})
  BY <1>1 DEF StatusKept
<1>3. StreamKept
  BY StreamSame DEF Crash
<1>4. pass' = [pass EXCEPT ![d] = Idle]
  BY DEF Crash
<1>5. pass' \in [Dispatchers -> PassSet]
  BY <1>4, IdleIs, PassTyped
<1>6. TypeOK'
  <2>1. crashes' \in Nat
    BY DEF Crash, TypeOK
  <2> QED
    BY <2>1, <1>1, <1>5 DEF TypeOK, PassSet, TickSet, Crash, stream, threads, calls
<1>7. Bounded'
  BY DEF DispatchInv, StreamInv, Bounded, Crash, stream
<1>8. \A c \in checkpoint' : c \in arrived' \union {0} /\ Settled(c)'
  BY <1>1, <1>3, <1>6, CheckpointsKept DEF Crash
<1>9. PassInv(Idle)'
  BY DEF Idle, PassInv, PositionInv, BatchInv, TickInv, Waiting
<1> QED
  BY <1>1, <1>2, <1>3, <1>4, <1>6, <1>7, <1>8, <1>9, IdleIs, PassMoves

\* A query fails.
LEMMA PassFailsStep == ASSUME Inv, NEW d \in Dispatchers, PassFails(d) PROVE Inv'
<1> USE DEF Inv
<1>1. TicksKept /\ StatusKept({}) /\ StatusKept({pass[d].tick})
  BY TicksSame DEF PassFails, StatusKept
<1>2. StreamKept
  BY StreamSame DEF PassFails
<1>3. pass' = [pass EXCEPT ![d] = Idle]
  BY DEF PassFails
<1>4. pass' \in [Dispatchers -> PassSet]
  BY <1>3, IdleIs, PassTyped
<1>5. TypeOK'
  <2>1. crashes' \in Nat
    BY DEF PassFails, TypeOK
  <2>2. abandoned' \in SUBSET Events
    <3>1. pass[d].tick # 0 => pass[d].tick \in DOMAIN ticks
      BY DEF DispatchInv, PassInv, TickInv
    <3>2. pass[d].tick # 0 => ticks[pass[d].tick].event \in Events
      BY <3>1, TickTypes
    <3>3. abandoned \in SUBSET Events
      BY DEF TypeOK
    <3> QED
      BY <3>2, <3>3 DEF PassFails
  <2> QED
    BY <2>1, <2>2, <1>4 DEF TypeOK, PassSet, PassFails, stream, calls
<1>6. Bounded'
  BY DEF DispatchInv, StreamInv, Bounded, PassFails, stream
<1>7. \A c \in checkpoint' : c \in arrived' \union {0} /\ Settled(c)'
  BY <1>1, <1>2, <1>5, CheckpointsKept DEF PassFails
<1>8. PassInv(Idle)'
  BY DEF Idle, PassInv, PositionInv, BatchInv, TickInv, Waiting
<1>9. DOMAIN ticks' \ DOMAIN ticks = {}
  BY DEF PassFails
<1> QED
  BY <1>1, <1>2, <1>3, <1>5, <1>6, <1>7, <1>8, <1>9, IdleIs, PassMoves

\* The operator retries an event.
LEMMA RetryStep ==
  ASSUME Inv, NEW d \in Dispatchers, NEW e \in Events, RetryDeadLetter(d, e) PROVE Inv'
<1> USE DEF Inv
<1> DEFINE t == Tick(d, e, "started", "operator")
           n == Len(ticks) + 1
           r == [Idle EXCEPT !.pc = "retry", !.tick = n]
<1>1. t \in TickSet /\ t.status = "started" /\ t.origin = "operator"
  BY TickTyped
<1>2. ticks' = Append(ticks, t)
  BY DEF RetryDeadLetter
<1> HIDE DEF t
<1>3. /\ ticks' \in Seq(TickSet) /\ TicksKept /\ StatusKept({})
      /\ DOMAIN ticks' = DOMAIN ticks \union {n}
      /\ ticks'[n] = t /\ n \notin DOMAIN ticks
  BY <1>1, <1>2, TicksAppended
<1>4. n \in Nat \ {0}
  BY Types
<1>5. pass' = [pass EXCEPT ![d] = r]
  BY DEF RetryDeadLetter
<1> HIDE DEF n
<1>6. PICK q \in PassSet : /\ pass' = [pass EXCEPT ![d] = q]
                           /\ q.pc = "retry" /\ q.tick = n
  <2>1. r \in PassSet /\ r.pc = "retry" /\ r.tick = n
    BY <1>4 DEF Idle, PassSet
  <2> QED
    BY <2>1, <1>5
<1>7. pass' \in [Dispatchers -> PassSet]
  BY <1>6, PassTyped
<1>8. TypeOK'
  <2>1. actions' \in Nat
    BY DEF RetryDeadLetter, TypeOK
  <2> QED
    BY <2>1, <1>3, <1>7 DEF TypeOK, PassSet, TickSet, RetryDeadLetter, stream, threads, calls
<1>9. StreamKept
  BY StreamSame DEF RetryDeadLetter
<1>10. Bounded'
  BY DEF DispatchInv, StreamInv, Bounded, RetryDeadLetter, stream
<1>11. \A c \in checkpoint' : c \in arrived' \union {0} /\ Settled(c)'
  BY <1>3, <1>8, <1>9, CheckpointsKept DEF RetryDeadLetter
<1>12. \A i \in DOMAIN ticks' \ DOMAIN ticks : ticks'[i].origin # "dispatch"
  BY <1>1, <1>3
<1>13. PassInv(q)'
  BY <1>1, <1>3, <1>6 DEF PassInv, PositionInv, BatchInv, TickInv, Waiting
<1>14. StatusKept({pass[d].tick})
  BY <1>3 DEF StatusKept
<1> QED
  BY <1>3, <1>6, <1>8, <1>9, <1>10, <1>11, <1>12, <1>13, <1>14, PassMoves

-----------------------------------------------------------------------------

\* The invariant holds initially.
LEMMA InitInv == Init => Inv
<1> SUFFICES ASSUME Init PROVE Inv
  OBVIOUS
<1>1. pass \in [Dispatchers -> PassSet]
  BY IdleIs DEF Init
<1>2. ticks \in Seq(TickSet) /\ DOMAIN ticks = {}
  BY DEF Init
<1>3. TypeOK
  BY <1>1, <1>2 DEF Init, TypeOK, TickSet, PassSet
<1>4. StreamInv
  BY FS_EmptySet DEF Init, StreamInv, Bounded
<1>5. CheckpointCovers /\ DeliveredInOrder
  BY DEF Init, CheckpointCovers, DeliveredInOrder
<1>6. \A d \in Dispatchers : PassInv(pass[d]) /\ ~Waiting(pass[d])
  BY IdleIs DEF Init
<1> QED
  BY <1>3, <1>4, <1>5, <1>6 DEF Inv, DispatchInv, TicksApart

\* Every step keeps the invariant.
LEMMA NextInv == Inv /\ [Next]_vars => Inv'
<1> SUFFICES ASSUME Inv, [Next]_vars PROVE Inv'
  OBVIOUS
<1>1. CASE UNCHANGED vars
  BY <1>1 DEF Inv, TypeOK, DispatchInv, StreamInv, Bounded, CheckpointCovers, DeliveredInOrder,
              PassInv, PositionInv, BatchInv, TickInv, Waiting, TicksApart, Settled, Owed,
              Resolved, vars
<1>2. ASSUME NEW d \in Dispatchers, Pass(d) PROVE Inv'
  <2>1. CASE StartInitialization(d)
    BY <2>1, StartInitializationStep
  <2>2. CASE InitializeCheckpoint(d)
    BY <2>2, InitializeStep
  <2>3. CASE StartPass(d)
    BY <2>3, StartPassStep
  <2>4. CASE Fetch(d)
    BY <2>4, FetchStep
  <2>5. ASSUME NEW e \in Events, PassOver(d, e) PROVE Inv'
    BY <2>5, PassOverStep
  <2>6. ASSUME NEW e \in Events, LeaseLost(d, e) \/ BackOff(d, e) PROVE Inv'
    BY <2>6, StopStep
  <2>7. ASSUME NEW e \in Events, DeadLetter(d, e) PROVE Inv'
    BY <2>7, DeadLetterStep
  <2>8. ASSUME NEW e \in Events, Evaluate(d, e) PROVE Inv'
    BY <2>8, EvaluateStep
  <2>9. CASE FinishEvaluation(d)
    BY <2>9, FinishStep
  <2>10. CASE AdvanceCheckpoint(d)
    BY <2>10, AdvanceStep
  <2> QED
    BY <1>2, <2>1, <2>2, <2>3, <2>4, <2>5, <2>6, <2>7, <2>8, <2>9, <2>10 DEF Pass
<1>3. ASSUME NEW d \in Dispatchers, TimeOut(d) PROVE Inv'
  BY <1>3, TimeOutStep
<1>4. ASSUME NEW d \in Dispatchers, Crash(d) PROVE Inv'
  BY <1>4, CrashStep
<1>5. ASSUME NEW d \in Dispatchers, PassFails(d) PROVE Inv'
  BY <1>5, PassFailsStep
<1>6. ASSUME NEW i \in DOMAIN ticks, Handler(i) PROVE Inv'
  BY <1>6, HandlerStep
<1>7. ASSUME NEW d \in Dispatchers, NEW e \in Events, RetryDeadLetter(d, e) PROVE Inv'
  BY <1>7, RetryStep
<1>8. ASSUME NEW d \in Dispatchers, NEW e \in Events, SkipDeadLetter(d, e) PROVE Inv'
  BY <1>8, SkipStep
<1>9. ASSUME NEW e \in Events, Arrive(e) PROVE Inv'
  BY <1>9, ArriveStep
<1>10. ASSUME NEW e \in Events, Expire(e) PROVE Inv'
  BY <1>10, ExpireStep
<1>11. ASSUME NEW e \in Events, CoolDown(e) PROVE Inv'
  BY <1>11, CoolDownStep
<1> QED
  BY <1>1, <1>2, <1>3, <1>4, <1>5, <1>6, <1>7, <1>8, <1>9, <1>10, <1>11 DEF Next

\* The invariant holds of every behaviour of the dispatchers.
THEOREM DispatchInvariant == Spec => []Inv
<1>1. Init => Inv
  BY InitInv
<1>2. Inv /\ [Next]_vars => Inv'
  BY NextInv
<1> QED
  BY <1>1, <1>2, PTL DEF Spec

\* Type correctness of stream, checkpoint, ticks, markers and passes.
THEOREM DispatchTypeOK == Spec => []TypeOK
<1>1. Inv => TypeOK
  BY DEF Inv
<1> QED
  BY <1>1, DispatchInvariant, PTL

\* The checkpoint passes an owed event only when it is resolved (_dispatch_event_sensor,
\* advance_checkpoint), however many dispatchers the lease lets through.
THEOREM NoEventLost == Spec => []CheckpointCovers
<1>1. Inv => CheckpointCovers
  BY DEF Inv, DispatchInv
<1> QED
  BY <1>1, DispatchInvariant, PTL

\* A dispatcher evaluates or dead-letters an event only when the owed events before it
\* are resolved (_dispatch_event_sensor).
THEOREM InOrder == Spec => []DeliveredInOrder
<1>1. Inv => DeliveredInOrder
  BY DEF Inv, DispatchInv
<1> QED
  BY <1>1, DispatchInvariant, PTL

-----------------------------------------------------------------------------
\* Durable steps, where one dispatcher serves the sensor.

\* A step of no handler.
LEMMA MarkersKept ==
  ASSUME MarkerInv, RepeatsExplained, UNCHANGED <<steps, calls>>, abandoned \subseteq abandoned',
         \A i \in DOMAIN ticks' : ticks'[i].thread \in {"mark", "call"} =>
            /\ i \in DOMAIN ticks
            /\ ticks'[i].thread = ticks[i].thread
            /\ ticks'[i].event = ticks[i].event
  PROVE  MarkerInv' /\ RepeatsExplained'
BY DEF MarkerInv, RepeatsExplained, calls

\* No thread starts or ends, and no pass that waits moves.
LEMMA QuietRepeat ==
  ASSUME RepeatInv, UNCHANGED <<ticks, threads>>,
         \A d \in Dispatchers : Waiting(pass[d]) => pass'[d] = pass[d]
  PROVE  RepeatInv'
<1>1. MarkerInv' /\ RepeatsExplained'
  BY MarkersKept DEF RepeatInv, threads
<1>2. AttendedInv'
  BY DEF RepeatInv, AttendedInv, Waiting, threads
<1> QED
  BY <1>1, <1>2 DEF RepeatInv

\* A new tick, whose thread its pass waits for.
LEMMA AppendRepeat ==
  ASSUME Inv, RepeatInv, UNCHANGED threads, NEW t \in TickSet, ticks' = Append(ticks, t),
         t.thread \in {"begin", "none"},
         \A d \in Dispatchers : Waiting(pass[d]) => pass'[d] = pass[d],
         t.thread = "begin" =>
           \E d \in Dispatchers : /\ Waiting(pass[d])'
                                  /\ pass'[d].tick = Len(ticks) + 1
                                  /\ d \in t.host
  PROVE  RepeatInv'
<1> USE DEF Inv
<1>1. /\ \A i \in DOMAIN ticks : ticks'[i] = ticks[i]
      /\ DOMAIN ticks' = DOMAIN ticks \union {Len(ticks) + 1}
      /\ ticks'[Len(ticks) + 1] = t
  BY TicksAppended
<1>2. MarkerInv' /\ RepeatsExplained'
  <2>1. \A i \in DOMAIN ticks' : ticks'[i].thread \in {"mark", "call"} =>
            /\ i \in DOMAIN ticks
            /\ ticks'[i].thread = ticks[i].thread
            /\ ticks'[i].event = ticks[i].event
    BY <1>1
  <2> QED
    BY <2>1, MarkersKept DEF RepeatInv, threads
<1>3. AttendedInv'
  <2> SUFFICES ASSUME NEW i \in DOMAIN ticks', ticks'[i].thread \in Live,
                      ticks'[i].event \notin abandoned'
               PROVE  \E d \in Dispatchers : /\ Waiting(pass[d])'
                                             /\ pass'[d].tick = i
                                             /\ d \in ticks'[i].host
    BY DEF AttendedInv
  <2>1. CASE i \in DOMAIN ticks
    <3>1. PICK d \in Dispatchers : Waiting(pass[d]) /\ pass[d].tick = i /\ d \in ticks[i].host
      BY <1>1, <2>1 DEF RepeatInv, AttendedInv, threads
    <3> QED
      BY <3>1, <1>1, <2>1 DEF Waiting
  <2>2. CASE i \notin DOMAIN ticks
    <3>1. i = Len(ticks) + 1 /\ ticks'[i] = t
      BY <1>1, <2>2
    <3>2. t.thread = "begin"
      BY <3>1 DEF Live
    <3> QED
      BY <3>1, <3>2
  <2> QED
    BY <2>1, <2>2
<1> QED
  BY <1>2, <1>3 DEF RepeatInv

\* A terminal row, for a thread that ended or is abandoned.
LEMMA RecordRepeat ==
  ASSUME Inv, RepeatInv, NEW d \in Dispatchers, Waiting(pass[d]),
         NEW status \in {"succeeded", "skipped", "failed"},
         Record(d, pass[d].tick, status), UNCHANGED <<steps, calls>>,
         abandoned \subseteq abandoned',
         ticks[pass[d].tick].thread \in Live => ticks[pass[d].tick].event \in abandoned'
  PROVE  RepeatInv'
<1> USE DEF Inv
<1>1. PICK i : i = pass[d].tick
  OBVIOUS
<1>2. i \in DOMAIN ticks /\ ticks[i].status = "started"
  BY <1>1 DEF DispatchInv, PassInv, TickInv, Waiting
<1>3. /\ DOMAIN ticks' = DOMAIN ticks /\ TicksKept
      /\ \A j \in DOMAIN ticks \ {i} : ticks'[j] = ticks[j]
      /\ ticks'[i].thread \in {ticks[i].thread, "none"}
  <2>1. ticks' = Terminal(i, status)
    BY <1>1 DEF Record
  <2> QED
    BY <1>2, <2>1, TickTerminated
<1>4. MarkerInv' /\ RepeatsExplained'
  <2>1. \A j \in DOMAIN ticks' : ticks'[j].thread \in {"mark", "call"} =>
            /\ j \in DOMAIN ticks
            /\ ticks'[j].thread = ticks[j].thread
            /\ ticks'[j].event = ticks[j].event
    BY <1>3 DEF TicksKept
  <2> QED
    BY <2>1, MarkersKept DEF RepeatInv
<1>5. \A c \in Dispatchers \ {d} : pass'[c] = pass[c]
  BY Types DEF Record, Goto, PassBy
<1>6. AttendedInv'
  <2> SUFFICES ASSUME NEW j \in DOMAIN ticks', ticks'[j].thread \in Live,
                      ticks'[j].event \notin abandoned'
               PROVE  \E c \in Dispatchers : /\ Waiting(pass[c])'
                                             /\ pass'[c].tick = j
                                             /\ c \in ticks'[j].host
    BY DEF AttendedInv
  <2>1. j # i
    <3>1. ASSUME j = i PROVE FALSE
      <4>1. ticks[i].thread \in Live /\ ticks'[i].event = ticks[i].event
        BY <3>1, <1>2, <1>3 DEF Live, TicksKept
      <4> QED
        BY <4>1, <3>1, <1>1
    <3> QED
      BY <3>1
  <2>2. PICK c \in Dispatchers : Waiting(pass[c]) /\ pass[c].tick = j /\ c \in ticks[j].host
    BY <1>3, <2>1 DEF RepeatInv, AttendedInv
  <2>3. c # d
    BY <1>1, <2>1, <2>2
  <2> QED
    BY <1>3, <1>5, <2>1, <2>2, <2>3 DEF Waiting
<1> QED
  BY <1>4, <1>6 DEF RepeatInv

\* The handler ended.
LEMMA FinishRepeat ==
  ASSUME Inv, RepeatInv, NEW d \in Dispatchers, FinishEvaluation(d) PROVE RepeatInv'
<1>1. Waiting(pass[d])
  BY DEF FinishEvaluation, Waiting
<1>2. PICK status \in {"succeeded", "skipped", "failed"} : Record(d, pass[d].tick, status)
  BY DEF FinishEvaluation
<1>3. UNCHANGED <<steps, calls>> /\ abandoned' = abandoned
  BY DEF FinishEvaluation, threads
<1>4. ticks[pass[d].tick].thread \notin Live
  BY DEF FinishEvaluation, Live
<1> QED
  BY <1>1, <1>2, <1>3, <1>4, RecordRepeat

\* The handler is abandoned.
LEMMA TimeOutRepeat ==
  ASSUME Inv, RepeatInv, NEW d \in Dispatchers, TimeOut(d) PROVE RepeatInv'
<1>1. Waiting(pass[d]) /\ Record(d, pass[d].tick, "failed")
  BY DEF TimeOut, Waiting
<1>2. /\ UNCHANGED <<steps, calls>> /\ abandoned \subseteq abandoned'
      /\ ticks[pass[d].tick].event \in abandoned'
  BY DEF TimeOut
<1> QED
  BY <1>1, <1>2, RecordRepeat

\* The process dies with its threads.
LEMMA CrashRepeat ==
  ASSUME Inv, RepeatInv, NEW d \in Dispatchers, Crash(d) PROVE RepeatInv'
<1> USE DEF Inv
<1>1. DOMAIN ticks' = DOMAIN ticks /\ TicksKept
  BY TicksEnded DEF Crash
<1>2. ASSUME NEW i \in DOMAIN ticks, ticks'[i].thread \in Live
      PROVE  ticks'[i] = ticks[i] /\ d \notin ticks[i].host
  <2>1. ticks[i] \in TickSet
    BY TickTypes
  <2>2. ticks'[i] = IF d \in ticks[i].host THEN Ended(ticks[i]) ELSE ticks[i]
    BY DEF Crash
  <2>3. Ended(ticks[i]).thread \notin Live
    BY <2>1, EndedTyped DEF Live
  <2> QED
    BY <2>2, <2>3, <1>2
<1>3. MarkerInv' /\ RepeatsExplained'
  <2>1. \A j \in DOMAIN ticks' : ticks'[j].thread \in {"mark", "call"} =>
            /\ j \in DOMAIN ticks
            /\ ticks'[j].thread = ticks[j].thread
            /\ ticks'[j].event = ticks[j].event
    BY <1>1, <1>2 DEF Live
  <2> QED
    BY <2>1, MarkersKept DEF RepeatInv, Crash, threads
<1>4. \A c \in Dispatchers \ {d} : pass'[c] = pass[c]
  BY Types DEF Crash
<1>5. AttendedInv'
  <2> SUFFICES ASSUME NEW j \in DOMAIN ticks', ticks'[j].thread \in Live,
                      ticks'[j].event \notin abandoned'
               PROVE  \E c \in Dispatchers : /\ Waiting(pass[c])'
                                             /\ pass'[c].tick = j
                                             /\ c \in ticks'[j].host
    BY DEF AttendedInv
  <2>1. ticks'[j] = ticks[j] /\ d \notin ticks[j].host
    BY <1>1, <1>2
  <2>2. PICK c \in Dispatchers : Waiting(pass[c]) /\ pass[c].tick = j /\ c \in ticks[j].host
    BY <1>1, <2>1 DEF RepeatInv, AttendedInv, Crash, threads
  <2> QED
    BY <1>4, <2>1, <2>2 DEF Waiting
<1> QED
  BY <1>3, <1>5 DEF RepeatInv

\* A query fails; the handler is abandoned.
LEMMA PassFailsRepeat ==
  ASSUME Inv, RepeatInv, NEW d \in Dispatchers, PassFails(d) PROVE RepeatInv'
<1> USE DEF Inv
<1>1. ticks' = ticks /\ UNCHANGED <<steps, calls>> /\ abandoned \subseteq abandoned'
  BY DEF PassFails
<1>2. MarkerInv' /\ RepeatsExplained'
  BY <1>1, MarkersKept DEF RepeatInv
<1>3. \A c \in Dispatchers \ {d} : pass'[c] = pass[c]
  BY Types DEF PassFails
<1>4. AttendedInv'
  <2> SUFFICES ASSUME NEW j \in DOMAIN ticks, ticks[j].thread \in Live,
                      ticks[j].event \notin abandoned'
               PROVE  \E c \in Dispatchers : /\ Waiting(pass[c])'
                                             /\ pass'[c].tick = j
                                             /\ c \in ticks[j].host
    BY <1>1 DEF AttendedInv
  <2>1. PICK c \in Dispatchers : Waiting(pass[c]) /\ pass[c].tick = j /\ c \in ticks[j].host
    BY <1>1 DEF RepeatInv, AttendedInv
  <2>2. c # d
    <3>1. ASSUME c = d PROVE FALSE
      <4>1. pass[d].tick = j /\ j # 0
        BY <3>1, <2>1 DEF Waiting
      <4>2. ticks[j].event \in abandoned'
        BY <4>1 DEF PassFails
      <4> QED
        BY <4>2
    <3> QED
      BY <3>1
  <2> QED
    BY <1>3, <2>1, <2>2 DEF Waiting
<1> QED
  BY <1>2, <1>4 DEF RepeatInv

\* A thread that lives on is attended as before.
LEMMA HandlerAttended ==
  ASSUME Inv, AttendedInv, NEW i \in DOMAIN ticks, Handler(i) PROVE AttendedInv'
<1> USE DEF Inv
<1>1. HandlerFrame /\ ticks[i].thread \in Live
  BY HandlerSteps
<1>2. PICK pc \in Live \union {"returned", "raised"} : Thread(i, pc)
  BY HandlerSteps
<1>3. /\ DOMAIN ticks' = DOMAIN ticks /\ TicksKept
      /\ \A j \in DOMAIN ticks \ {i} : ticks'[j] = ticks[j]
      /\ ticks'[i].thread \in {pc, "none"}
      /\ pc \in Live => ticks'[i].host = ticks[i].host
  BY <1>2, TickThreaded
<1> SUFFICES ASSUME NEW j \in DOMAIN ticks, ticks'[j].thread \in Live,
                    ticks'[j].event \notin abandoned
             PROVE  \E c \in Dispatchers : /\ Waiting(pass[c])
                                           /\ pass[c].tick = j
                                           /\ c \in ticks'[j].host
  BY <1>1, <1>3 DEF AttendedInv, HandlerFrame, Waiting
<1>4. ticks[j].thread \in Live /\ ticks'[j].host = ticks[j].host
  <2>1. CASE j = i
    BY <2>1, <1>1, <1>3 DEF Live
  <2>2. CASE j # i
    BY <2>2, <1>3
  <2> QED
    BY <2>1, <2>2
<1>5. ticks'[j].event = ticks[j].event
  BY <1>3 DEF TicksKept
<1> QED
  BY <1>4, <1>5 DEF AttendedInv

\* The thread of tick i moves on to a point outside "mark" and "call", and nothing is called.
LEMMA ThreadLeaves ==
  ASSUME Inv, MarkerInv, NEW i \in DOMAIN ticks,
         NEW pc \in (Live \union {"returned", "raised"}) \ {"mark", "call"}, Thread(i, pc),
         UNCHANGED <<invoked, abandoned>>,
         \A e \in Events : steps[e] \subseteq steps'[e]
  PROVE  MarkerInv'
<1> USE DEF Inv
<1>1. /\ DOMAIN ticks' = DOMAIN ticks /\ TicksKept
      /\ \A j \in DOMAIN ticks \ {i} : ticks'[j] = ticks[j]
      /\ ticks'[i].thread \in {pc, "none"}
  BY TickThreaded
<1>2. ASSUME NEW j \in DOMAIN ticks, ticks'[j].thread \in {"mark", "call"}
      PROVE  ticks'[j] = ticks[j]
  BY <1>1, <1>2
<1>3. \A e \in AtMostOnceEvents : steps[e] \subseteq steps'[e]
  BY SensorAssumption
<1> QED
  BY <1>1, <1>2, <1>3 DEF MarkerInv

\* The markers are read: a call is prepared only where there is none.
LEMMA ReadMarkers ==
  ASSUME Inv, MarkerInv, NEW i \in DOMAIN ticks, ReadStep(i) PROVE MarkerInv'
<1> USE DEF Inv
<1>1. PICK e : e = ticks[i].event
  OBVIOUS
<1>2. e \in Events /\ steps' = steps /\ invoked' = invoked /\ abandoned' = abandoned
  BY <1>1, TickTypes DEF ReadStep, threads, calls
<1>3. CASE Thread(i, "returned") \/ Thread(i, "raised")
  BY <1>2, <1>3, ThreadLeaves DEF Live
<1>4. CASE e \in AtLeastOnceEvents /\ Thread(i, "call")
  <2>1. /\ DOMAIN ticks' = DOMAIN ticks /\ TicksKept
        /\ \A j \in DOMAIN ticks \ {i} : ticks'[j] = ticks[j]
    BY <1>4, TickThreaded DEF Live
  <2>2. e \notin AtMostOnceEvents
    BY <1>4, SensorAssumption
  <2>3. \A j \in DOMAIN ticks : ticks'[j].event \in AtMostOnceEvents => ticks'[j] = ticks[j]
    BY <1>1, <2>1, <2>2 DEF TicksKept
  <2> QED
    BY <1>2, <2>1, <2>3 DEF MarkerInv
<1>5. CASE steps[e] = {} /\ Thread(i, "mark")
  <2>1. /\ DOMAIN ticks' = DOMAIN ticks /\ TicksKept
        /\ \A j \in DOMAIN ticks \ {i} : ticks'[j] = ticks[j]
        /\ ticks'[i].thread = "mark"
    BY <1>5, TickThreaded DEF Live
  <2>2. ticks'[i].event = e
    BY <1>1, <2>1 DEF TicksKept
  <2>3. e \in AtMostOnceEvents => e \notin invoked
    BY <1>5 DEF MarkerInv
  <2> QED
    BY <1>2, <2>1, <2>2, <2>3 DEF MarkerInv
<1> QED
  BY <1>1, <1>3, <1>4, <1>5 DEF ReadStep

\* The started marker is written.
LEMMA MarkMarkers ==
  ASSUME Inv, MarkerInv, NEW i \in DOMAIN ticks, MarkStarted(i) PROVE MarkerInv'
<1> USE DEF Inv
<1>1. PICK e : e = ticks[i].event
  OBVIOUS
<1>2. e \in Events /\ invoked' = invoked /\ abandoned' = abandoned
  BY <1>1, TickTypes DEF MarkStarted, calls
<1>3. /\ DOMAIN ticks' = DOMAIN ticks /\ TicksKept
      /\ \A j \in DOMAIN ticks \ {i} : ticks'[j] = ticks[j]
      /\ ticks'[i].thread = "call"
  BY TickThreaded DEF MarkStarted, Live
<1>4. steps'[e] # {} /\ \A f \in Events : steps[f] \subseteq steps'[f]
  BY <1>1, <1>2 DEF MarkStarted, Mark, TypeOK
<1>5. \A f \in AtMostOnceEvents : steps[f] # {} => steps'[f] # {}
  BY <1>4, SensorAssumption
<1>6. ticks'[i].event = e /\ ticks[i].thread = "mark"
  BY <1>1, <1>3 DEF TicksKept, MarkStarted
<1> QED
  BY <1>1, <1>2, <1>3, <1>4, <1>5, <1>6 DEF MarkerInv

\* The step is called: of one dispatcher no other thread is near its call.
LEMMA CallMarkers ==
  ASSUME Inv, RepeatInv, \A c, d \in Dispatchers : c = d,
         NEW i \in DOMAIN ticks, CallStep(i)
  PROVE  MarkerInv' /\ RepeatsExplained'
<1> USE DEF Inv
<1>1. PICK e : e = ticks[i].event
  OBVIOUS
<1>2. /\ e \in Events /\ steps' = steps /\ abandoned' = abandoned
      /\ invoked' = invoked \union {e}
      /\ repeated' = repeated \union ({e} \cap invoked \cap AtMostOnceEvents)
      /\ ticks[i].thread = "call"
  BY <1>1, TickTypes DEF CallStep
<1>3. PICK pc \in {"record", "fail", "raised"} : Thread(i, pc)
  BY DEF CallStep
<1>4. /\ DOMAIN ticks' = DOMAIN ticks /\ TicksKept
      /\ \A j \in DOMAIN ticks \ {i} : ticks'[j] = ticks[j]
      /\ ticks'[i].thread \in {pc, "none"}
  BY <1>3, TickThreaded DEF Live
<1>5. RepeatsExplained'
  BY <1>1, <1>2 DEF RepeatInv, MarkerInv, RepeatsExplained
<1>6. e \in AtMostOnceEvents => steps[e] # {}
  BY <1>1, <1>2 DEF RepeatInv, MarkerInv
<1>7. ASSUME NEW j \in DOMAIN ticks, ticks'[j].thread \in {"mark", "call"}
      PROVE  j # i /\ ticks'[j] = ticks[j]
  BY <1>3, <1>4, <1>7
<1>8. ASSUME NEW j \in DOMAIN ticks, ticks'[j].thread \in {"mark", "call"},
             ticks'[j].event = e
      PROVE  e \in abandoned
  <2> SUFFICES ASSUME e \notin abandoned PROVE FALSE
    OBVIOUS
  <2>1. j # i /\ ticks[j].event = e /\ ticks[j].thread \in Live
    BY <1>7, <1>8 DEF Live
  <2>2. PICK c \in Dispatchers : pass[c].tick = j
    BY <2>1 DEF RepeatInv, AttendedInv
  <2>3. ticks[i].thread \in Live
    BY <1>2 DEF Live
  <2>4. PICK d \in Dispatchers : pass[d].tick = i
    BY <1>1, <2>3 DEF RepeatInv, AttendedInv
  <2>5. c = d
    OBVIOUS
  <2> QED
    BY <2>1, <2>2, <2>4, <2>5
<1>9. MarkerInv'
  <2> SUFFICES ASSUME NEW f \in AtMostOnceEvents
               PROVE  /\ f \in invoked' => steps[f] # {}
                      /\ \A j \in DOMAIN ticks : ticks'[j].event = f =>
                           /\ ticks'[j].thread = "call" => steps[f] # {}
                           /\ (ticks'[j].thread \in {"mark", "call"} /\ f \notin abandoned)
                                => f \notin invoked'
    BY <1>2, <1>4 DEF MarkerInv
  <2>1. f \in invoked' => steps[f] # {}
    BY <1>2, <1>6 DEF RepeatInv, MarkerInv
  <2>2. ASSUME NEW j \in DOMAIN ticks, ticks'[j].event = f, ticks'[j].thread = "call"
        PROVE  steps[f] # {}
    BY <2>2, <1>7 DEF RepeatInv, MarkerInv
  <2>3. ASSUME NEW j \in DOMAIN ticks, ticks'[j].event = f,
               ticks'[j].thread \in {"mark", "call"}, f \notin abandoned
        PROVE  f \notin invoked'
    <3>1. f # e
      BY <2>3, <1>8
    <3>2. f \notin invoked
      BY <2>3, <1>7 DEF RepeatInv, MarkerInv
    <3> QED
      BY <3>1, <3>2, <1>2
  <2> QED
    BY <2>1, <2>2, <2>3
<1> QED
  BY <1>5, <1>9

\* Every step of a handler.
LEMMA HandlerRepeat ==
  ASSUME Inv, RepeatInv, \A c, d \in Dispatchers : c = d,
         NEW i \in DOMAIN ticks, Handler(i)
  PROVE  RepeatInv'
<1>1. AttendedInv'
  BY HandlerAttended DEF RepeatInv
<1>2. CASE CallStep(i)
  BY <1>1, <1>2, CallMarkers DEF RepeatInv
<1>3. CASE ~CallStep(i)
  <2>1. RepeatsExplained' /\ UNCHANGED <<invoked, abandoned>>
    BY <1>3 DEF Handler, ReadStep, MarkStarted, RecordStep, HandlerReturns, HandlerRaises,
                RepeatInv, RepeatsExplained, threads, calls
  <2>2. \A e \in Events : steps[e] \subseteq steps'[e]
    BY HandlerSteps
  <2>3. ASSUME Thread(i, "returned") \/ Thread(i, "raised") PROVE MarkerInv'
    BY <2>1, <2>2, <2>3, ThreadLeaves DEF RepeatInv, Live
  <2>4. MarkerInv'
    BY <1>3, <2>3, ReadMarkers, MarkMarkers
    DEF Handler, RecordStep, HandlerReturns, HandlerRaises, RepeatInv
  <2> QED
    BY <1>1, <2>1, <2>4 DEF RepeatInv
<1> QED
  BY <1>2, <1>3

\* Nothing was called yet.
LEMMA InitRepeat == Init => RepeatInv
BY DEF Init, RepeatInv, AttendedInv, MarkerInv, RepeatsExplained

\* Every step of a pass.
LEMMA PassRepeat ==
  ASSUME Inv, RepeatInv, NEW d \in Dispatchers, Pass(d) PROVE RepeatInv'
<1> USE DEF Inv
<1>1. ASSUME UNCHANGED <<ticks, threads>>, ~Waiting(pass[d]),
             \A c \in Dispatchers \ {d} : pass'[c] = pass[c]
      PROVE  RepeatInv'
  BY <1>1, QuietRepeat
<1>2. CASE StartInitialization(d)
  BY <1>1, <1>2, Types DEF StartInitialization, Goto, Waiting
<1>3. CASE InitializeCheckpoint(d)
  BY <1>1, <1>3, Types DEF InitializeCheckpoint, Waiting
<1>4. CASE StartPass(d)
  BY <1>1, <1>4, Types DEF StartPass, Waiting
<1>5. CASE Fetch(d)
  BY <1>1, <1>5, Types DEF Fetch, Waiting
<1>6. ASSUME NEW e \in Events, PassOver(d, e) PROVE RepeatInv'
  BY <1>1, <1>6, Types DEF PassOver, PassBy, IsNext, Waiting
<1>7. ASSUME NEW e \in Events, LeaseLost(d, e) \/ BackOff(d, e) PROVE RepeatInv'
  BY <1>1, <1>7, Types DEF LeaseLost, BackOff, Goto, IsDue, IsNext, Waiting
<1>8. ASSUME NEW e \in Events, DeadLetter(d, e) PROVE RepeatInv'
  <2> DEFINE t == Tick(d, e, "dead_lettered", "dispatch")
  <2>1. t \in TickSet /\ t.thread = "none"
    BY TickTyped
  <2>2. ticks' = Append(ticks, t) /\ UNCHANGED threads
    BY <1>8 DEF DeadLetter
  <2> HIDE DEF t
  <2>3. \A c \in Dispatchers : Waiting(pass[c]) => pass'[c] = pass[c]
    BY <1>8, Types DEF DeadLetter, PassBy, IsDue, IsNext, Waiting
  <2> QED
    BY <2>1, <2>2, <2>3, AppendRepeat
<1>9. ASSUME NEW e \in Events, Evaluate(d, e) PROVE RepeatInv'
  <2> DEFINE t == Tick(d, e, "started", "dispatch")
  <2>1. t \in TickSet /\ t.thread \in {"begin", "none"} /\ d \in t.host
    BY TickTyped
  <2>2. ticks' = Append(ticks, t) /\ UNCHANGED threads
    BY <1>9 DEF Evaluate
  <2> HIDE DEF t
  <2>3. \A c \in Dispatchers : Waiting(pass[c]) => pass'[c] = pass[c]
    BY <1>9, Types DEF Evaluate, IsDue, IsNext, Waiting
  <2>4. Waiting(pass[d])' /\ pass'[d].tick = Len(ticks) + 1
    <3>1. pass[d] \in PassSet /\ Len(ticks) + 1 # 0
      BY Types
    <3>2. pass'[d] = [pass[d] EXCEPT !.tick = Len(ticks) + 1]
      BY <1>9, Types DEF Evaluate
    <3>3. pass'[d].tick = Len(ticks) + 1 /\ pass'[d].pc = pass[d].pc
      BY <3>1, <3>2 DEF PassSet
    <3> QED
      BY <1>9, <3>1, <3>3 DEF Evaluate, IsDue, IsNext, Waiting
  <2> QED
    BY <2>1, <2>2, <2>3, <2>4, AppendRepeat
<1>10. CASE FinishEvaluation(d)
  BY <1>10, FinishRepeat
<1>11. CASE AdvanceCheckpoint(d)
  BY <1>1, <1>11, Types DEF AdvanceCheckpoint, Waiting
<1> QED
  BY <1>2, <1>3, <1>4, <1>5, <1>6, <1>7, <1>8, <1>9, <1>10, <1>11 DEF Pass

\* Every operator action.
LEMMA OperatorRepeat ==
  ASSUME Inv, RepeatInv, NEW d \in Dispatchers, NEW e \in Events,
         RetryDeadLetter(d, e) \/ SkipDeadLetter(d, e)
  PROVE  RepeatInv'
<1> USE DEF Inv
<1>1. CASE RetryDeadLetter(d, e)
  <2> DEFINE t == Tick(d, e, "started", "operator")
  <2>1. t \in TickSet /\ t.thread \in {"begin", "none"} /\ d \in t.host
    BY TickTyped
  <2>2. ticks' = Append(ticks, t) /\ UNCHANGED threads
    BY <1>1 DEF RetryDeadLetter
  <2> HIDE DEF t
  <2>3. \A c \in Dispatchers : Waiting(pass[c]) => pass'[c] = pass[c]
    BY <1>1, Types DEF RetryDeadLetter, Waiting
  <2>4. Waiting(pass[d])' /\ pass'[d].tick = Len(ticks) + 1
    <3>1. Len(ticks) + 1 # 0
      BY Types
    <3>2. pass'[d] = [Idle EXCEPT !.pc = "retry", !.tick = Len(ticks) + 1]
      BY <1>1, Types DEF RetryDeadLetter
    <3>3. pass'[d].tick = Len(ticks) + 1 /\ pass'[d].pc = "retry"
      BY <3>2 DEF Idle
    <3> QED
      BY <3>1, <3>3 DEF Waiting
  <2> QED
    BY <2>1, <2>2, <2>3, <2>4, AppendRepeat
<1>2. CASE SkipDeadLetter(d, e)
  <2> DEFINE t == Tick(d, e, "skipped", "operator")
  <2>1. t \in TickSet /\ t.thread = "none"
    BY TickTyped
  <2>2. ticks' = Append(ticks, t) /\ UNCHANGED threads /\ pass' = pass
    BY <1>2 DEF SkipDeadLetter
  <2> HIDE DEF t
  <2> QED
    BY <2>1, <2>2, AppendRepeat
<1> QED
  BY <1>1, <1>2

\* Every step.
LEMMA NextRepeat ==
  ASSUME \A c, d \in Dispatchers : c = d
  PROVE  Inv /\ RepeatInv /\ [Next]_vars => RepeatInv'
<1> SUFFICES ASSUME Inv, RepeatInv, [Next]_vars PROVE RepeatInv'
  OBVIOUS
<1>1. CASE UNCHANGED <<ticks, threads, pass>>
  BY <1>1, QuietRepeat
<1>2. ASSUME NEW d \in Dispatchers, Pass(d) PROVE RepeatInv'
  BY <1>2, PassRepeat
<1>3. ASSUME NEW d \in Dispatchers, TimeOut(d) PROVE RepeatInv'
  BY <1>3, TimeOutRepeat
<1>4. ASSUME NEW d \in Dispatchers, Crash(d) PROVE RepeatInv'
  BY <1>4, CrashRepeat
<1>5. ASSUME NEW d \in Dispatchers, PassFails(d) PROVE RepeatInv'
  BY <1>5, PassFailsRepeat
<1>6. ASSUME NEW i \in DOMAIN ticks, Handler(i) PROVE RepeatInv'
  BY <1>6, HandlerRepeat
<1>7. ASSUME NEW d \in Dispatchers, NEW e \in Events,
             RetryDeadLetter(d, e) \/ SkipDeadLetter(d, e)
      PROVE  RepeatInv'
  BY <1>7, OperatorRepeat
<1>8. ASSUME NEW e \in Events, Arrive(e) \/ Expire(e) \/ CoolDown(e) PROVE RepeatInv'
  BY <1>1, <1>8 DEF Arrive, Expire, CoolDown
<1>9. CASE UNCHANGED vars
  BY <1>1, <1>9 DEF vars, threads, calls
<1> QED
  BY <1>2, <1>3, <1>4, <1>5, <1>6, <1>7, <1>8, <1>9 DEF Next

\* Where one dispatcher serves the sensor, the function of an at-most-once step is called
\* again only beside an abandoned thread (DurableStepRunner.run), for any crashes and retries.
THEOREM CalledOnce ==
  ASSUME \A c, d \in Dispatchers : c = d
  PROVE  Spec => []RepeatsExplained
<1>1. Init => RepeatInv
  BY InitRepeat
<1>2. Inv /\ RepeatInv /\ [Next]_vars => RepeatInv'
  BY NextRepeat
<1>3. RepeatInv => RepeatsExplained
  BY DEF RepeatInv
<1> QED
  BY <1>1, <1>2, <1>3, DispatchInvariant, PTL DEF Spec
=============================================================================
