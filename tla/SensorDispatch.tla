--------------------------- MODULE SensorDispatch ---------------------------
(***************************************************************************)
(* Dispatch of one event sensor over one observation stream.               *)
(*                                                                         *)
(* A dispatcher (the sensor scheduler of one dev server) polls: a pass     *)
(* reads the sensor's checkpoint, fetches the observations behind it in    *)
(* batches, delivers the matching ones in order, each on a handler thread, *)
(* and at last advances the checkpoint.  An event that fails blocks the    *)
(* stream until a later pass succeeds, or dead-letters it.  Side effects   *)
(* of a handler run as durable steps, memoized by the markers they record. *)
(*                                                                         *)
(* All state but the passes and the handler threads is in the warehouse:   *)
(* append-only rows, read without locks.  The dispatch lease that keeps    *)
(* several dispatchers apart is best-effort; here it grants every pass and *)
(* every renewal it likes.  A dispatcher may crash, and a query of it may  *)
(* fail, at every step.  Threads of handlers that timed out go on running. *)
(*                                                                         *)
(* An observation's position (completed_at, id) is its number.  Its rows   *)
(* become visible in any order: completed_at is taken before the INSERT.   *)
(***************************************************************************)
EXTENDS Sequences, FiniteSetsExt

CONSTANTS
  Dispatchers,   \* dispatcher ids
  Events,        \* the observations, numbered by their position in the stream
  Matched,       \* those that match the sensor's filters
  MayExpire,     \* those that may exceed the maximum event age
  MaxAttempts,   \* max_attempts of the sensor's retry policy
  BatchLimit,    \* observations fetched at once
  AtMostOnceEvents,   \* those whose handler runs an at-most-once step
  AtLeastOnceEvents,  \* those whose handler runs an at-least-once step
  MayTimeOut,    \* whether a handler can exceed the sensor's timeout
  MaxCrashes,    \* bound: crashes and failed passes
  MaxActions     \* bound: operator actions

ASSUME SensorAssumption ==
  /\ Events \subseteq Nat \ {0}
  /\ Matched \subseteq Events
  /\ MayExpire \subseteq Events
  /\ MaxAttempts \in Nat \ {0}
  /\ BatchLimit \in Nat \ {0}
  /\ AtMostOnceEvents \subseteq Events
  /\ AtLeastOnceEvents \subseteq Events \ AtMostOnceEvents
  /\ MayTimeOut \in BOOLEAN
  /\ MaxCrashes \in Nat
  /\ MaxActions \in Nat

VARIABLES
  arrived,      \* observations whose row is visible
  expired,      \* those that exceed the maximum event age
  checkpoint,   \* position of the furthest checkpoint row: {} or one; 0 is the epoch
  ticks,        \* one record per tick: its rows reduced, and its handler thread
  steps,        \* steps[e]: statuses among the step markers of event e
  cool,         \* events whose next attempt has to wait for the backoff
  pass,         \* pass[d]: the pass dispatcher d is in
  crashes,      \* crashes and failed passes so far
  actions,      \* operator actions so far
  late,         \* history: events that became visible behind a later one
  skipped,      \* history: events a checkpoint initialization stepped over
  invoked,      \* history: events whose step function was called
  repeated,     \* history: events whose at-most-once step was called again
  abandoned     \* history: events of handler threads that a pass left running

vars == <<arrived, expired, checkpoint, ticks, steps, cool, pass, crashes, actions, late,
          skipped, invoked, repeated, abandoned>>
stream == <<arrived, expired, late>>
calls == <<invoked, repeated>>
threads == <<steps, calls, abandoned>>

-----------------------------------------------------------------------------

\* tick_attempt_state.
Resolved(e) == \E i \in DOMAIN ticks :
                  /\ ticks[i].event = e
                  /\ ticks[i].status \in {"succeeded", "skipped", "dead_lettered"}

FailedAttempts(e) ==
  Cardinality({i \in DOMAIN ticks : ticks[i].event = e /\ ticks[i].status = "failed"})

\* The positions behind p that one fetch returns.
FetchAfter(p) == {e \in arrived : /\ e > p
                                  /\ Cardinality({f \in arrived : p < f /\ f < e})
                                       < BatchLimit}

Newest == Max(arrived \union {0})

Idle == [pc |-> "idle", head |-> 0, position |-> 0, batch |-> {}, stale |-> {},
         tick |-> 0]

Live == {"begin", "mark", "call", "record", "fail"}

\* A tick with its first row, and the process that runs its handler, if one does.
Tick(d, e, status, origin) ==
  [event |-> e, status |-> status, origin |-> origin,
   thread |-> IF status = "started" THEN "begin" ELSE "none",
   host |-> IF status = "started" THEN {d} ELSE {}]

\* The thread of a tick is over and its result was taken, or is lost.
Ended(tick) == [tick EXCEPT !.thread = "none", !.host = {}]

Init == /\ arrived = {}
        /\ expired = {}
        /\ checkpoint = {}
        /\ ticks = <<>>
        /\ steps = [e \in Events |-> {}]
        /\ cool = {}
        /\ pass = [d \in Dispatchers |-> Idle]
        /\ crashes = 0
        /\ actions = 0
        /\ late = {}
        /\ skipped = {}
        /\ invoked = {}
        /\ repeated = {}
        /\ abandoned = {}

-----------------------------------------------------------------------------
\* The environment.

Arrive(e) ==
  /\ e \notin arrived
  /\ arrived' = arrived \union {e}
  /\ late' = late \union {f \in {e} : f < Newest}
  /\ UNCHANGED <<expired, checkpoint, ticks, threads, cool, pass, crashes, actions,
                 skipped>>

\* An event exceeds the maximum age.  The age of a resolved one makes no difference.
Expire(e) ==
  /\ e \in (arrived \cap MayExpire) \ expired
  /\ ~Resolved(e)
  /\ expired' = expired \union {e}
  /\ UNCHANGED <<arrived, late, checkpoint, ticks, threads, cool, pass, crashes,
                 actions, skipped>>

CoolDown(e) ==
  /\ e \in cool
  /\ cool' = cool \ {e}
  /\ UNCHANGED <<stream, checkpoint, ticks, threads, pass, crashes, actions, skipped>>

\* The server process dies, with its pass and its threads.
Crash(d) ==
  /\ crashes < MaxCrashes
  /\ crashes' = crashes + 1
  /\ pass' = [pass EXCEPT ![d] = Idle]
  /\ ticks' = [i \in DOMAIN ticks |->
                 IF d \in ticks[i].host THEN Ended(ticks[i]) ELSE ticks[i]]
  /\ UNCHANGED <<stream, checkpoint, threads, cool, actions, skipped>>

\* A query of the pass fails, and the scheduler goes on with the next poll.  No
\* query is made while the handler is waited for.
PassFails(d) ==
  LET i == pass[d].tick
  IN  /\ crashes < MaxCrashes
      /\ pass[d].pc # "idle"
      /\ i # 0 => MayTimeOut \/ ticks[i].thread \notin Live
      /\ crashes' = crashes + 1
      /\ pass' = [pass EXCEPT ![d] = Idle]
      /\ abandoned' = abandoned \union {ticks[j].event : j \in {k \in {i} \ {0} :
                                                            ticks[k].thread \in Live}}
      /\ UNCHANGED <<stream, checkpoint, ticks, steps, calls, cool, actions, skipped>>

-----------------------------------------------------------------------------
\* A pass: _dispatch_event_sensor.

Goto(d, pc) == pass' = [pass EXCEPT ![d].pc = pc]

\* INSERT of a checkpoint row; a row behind another one changes nothing.
Checkpoint(p) == checkpoint' = {Max(checkpoint \union {p})}

\* The checkpoint of the sensor does not exist yet.
StartInitialization(d) ==
  /\ pass[d].pc = "idle"
  /\ checkpoint = {}
  /\ Goto(d, "initialize")
  /\ UNCHANGED <<stream, checkpoint, ticks, threads, cool, crashes, actions, skipped>>

\* Mutant: the position behind the end, which no row has.
InitializeBehindEnd(d) ==
  /\ pass[d].pc = "initialize"
  /\ Checkpoint(Newest + 1)
  /\ skipped' = skipped \union arrived
  /\ pass' = [pass EXCEPT ![d] = Idle]
  /\ UNCHANGED <<stream, ticks, threads, cool, crashes, actions>>

\* A new sensor starts at the end of the stream.
InitializeCheckpoint(d) ==
  /\ pass[d].pc = "initialize"
  /\ Checkpoint(Newest)
  /\ skipped' = skipped \union arrived
  /\ pass' = [pass EXCEPT ![d] = Idle]
  /\ UNCHANGED <<stream, ticks, threads, cool, crashes, actions>>

StartPass(d) ==
  /\ pass[d].pc = "idle"
  /\ checkpoint # {}
  /\ arrived # {}
  /\ pass' = [pass EXCEPT ![d] = [Idle EXCEPT !.pc = "fetch", !.head = Newest,
                                              !.position = Max(checkpoint)]]
  /\ UNCHANGED <<stream, checkpoint, ticks, threads, cool, crashes, actions, skipped>>

\* One batch, cut at the head the pass started with.  Which of its events are too
\* old is judged by the time of the fetch.
Fetch(d) ==
  /\ pass[d].pc = "fetch"
  /\ LET batch == {e \in FetchAfter(pass[d].position) : e <= pass[d].head}
     IN  pass' = [pass EXCEPT ![d].batch = batch, ![d].tick = 0,
                              ![d].stale = batch \cap expired,
                              ![d].pc = IF batch = {} THEN "advance"
                                        ELSE IF Cardinality(batch) < BatchLimit THEN "last"
                                        ELSE "deliver"]
  /\ UNCHANGED <<stream, checkpoint, ticks, threads, cool, crashes, actions, skipped>>

\* e is the next observation of the batch.
IsNext(d, e) == /\ pass[d].pc \in {"deliver", "last"}
                /\ pass[d].tick = 0
                /\ e \in pass[d].batch
                /\ \A f \in pass[d].batch : e <= f

\* e is the next observation, and an event to deliver.
IsDue(d, e) == IsNext(d, e) /\ e \in Matched \ pass[d].stale

\* The pass is through with e; after a full batch it fetches again.
PassBy(d, e) ==
  pass' = [pass EXCEPT
    ![d].position = e, ![d].batch = @ \ {e}, ![d].tick = 0,
    ![d].pc = IF pass[d].batch # {e} THEN @
              ELSE IF @ = "deliver" THEN "fetch" ELSE "advance"]

\* The observation has no event for this sensor, an expired or a resolved one.
PassOver(d, e) ==
  /\ IsNext(d, e)
  /\ ~IsDue(d, e) \/ Resolved(e)
  /\ PassBy(d, e)
  /\ UNCHANGED <<stream, checkpoint, ticks, threads, cool, crashes, actions, skipped>>

\* The lease cannot be renewed, because another dispatcher has it.
LeaseLost(d, e) ==
  /\ IsDue(d, e)
  /\ Dispatchers # {d}
  /\ Goto(d, "advance")
  /\ UNCHANGED <<stream, checkpoint, ticks, threads, cool, crashes, actions, skipped>>

\* Mutant: one failure more is waited for, which nothing can produce.
DeadLetterOneLater(d, e) ==
  /\ IsDue(d, e)
  /\ ~Resolved(e)
  /\ FailedAttempts(e) > MaxAttempts
  /\ ticks' = Append(ticks, Tick(d, e, "dead_lettered", "dispatch"))
  /\ PassBy(d, e)
  /\ UNCHANGED <<stream, checkpoint, threads, cool, crashes, actions, skipped>>

\* All attempts failed: the event is dead-lettered, the stream unblocked.
DeadLetter(d, e) ==
  /\ IsDue(d, e)
  /\ ~Resolved(e)
  /\ FailedAttempts(e) >= MaxAttempts
  /\ ticks' = Append(ticks, Tick(d, e, "dead_lettered", "dispatch"))
  /\ PassBy(d, e)
  /\ UNCHANGED <<stream, checkpoint, threads, cool, crashes, actions, skipped>>

\* The last failure is too recent: the stream stays blocked here.
BackOff(d, e) ==
  /\ IsDue(d, e)
  /\ ~Resolved(e)
  /\ FailedAttempts(e) \in 1 .. (MaxAttempts - 1)
  /\ e \in cool
  /\ Goto(d, "advance")
  /\ UNCHANGED <<stream, checkpoint, ticks, threads, cool, crashes, actions, skipped>>

\* A tick is started and its handler runs on a new thread.
Evaluate(d, e) ==
  /\ IsDue(d, e)
  /\ ~Resolved(e)
  /\ FailedAttempts(e) < MaxAttempts
  /\ FailedAttempts(e) > 0 => e \notin cool
  /\ ticks' = Append(ticks, Tick(d, e, "started", "dispatch"))
  /\ pass' = [pass EXCEPT ![d].tick = Len(ticks) + 1]
  /\ UNCHANGED <<stream, checkpoint, threads, cool, crashes, actions, skipped>>

\* The ticks with a terminal row for tick i; a handler that ended is forgotten.
Terminal(i, status) ==
  LET tick == [ticks[i] EXCEPT !.status = status]
  IN  [ticks EXCEPT ![i] = IF tick.thread \in Live THEN tick ELSE Ended(tick)]

\* An event that failed, and is to be tried again, waits for the backoff.
Cooling(e, status) ==
  IF status = "failed" /\ FailedAttempts(e) + 1 < MaxAttempts THEN cool \union {e}
  ELSE cool \ {e}

\* Mutant: a failure does not block the stream.
RecordUnblocked(d, i, status) ==
  /\ ticks' = Terminal(i, status)
  /\ cool' = Cooling(ticks[i].event, status)
  /\ IF pass[d].pc = "retry" THEN pass' = [pass EXCEPT ![d] = Idle]
     ELSE PassBy(d, ticks[i].event)

\* The terminal row of tick i.  A failure blocks the stream, everything else
\* resolves the event.
Record(d, i, status) ==
  /\ ticks' = Terminal(i, status)
  /\ cool' = Cooling(ticks[i].event, status)
  /\ IF pass[d].pc = "retry" THEN pass' = [pass EXCEPT ![d] = Idle]
     ELSE IF status = "failed" THEN Goto(d, "advance")
     ELSE PassBy(d, ticks[i].event)

\* The handler returned, with a result or a skip reason, or raised.
FinishEvaluation(d) ==
  LET i == pass[d].tick
  IN  /\ i # 0
      /\ pass[d].pc \in {"deliver", "last", "retry"}
      /\ \/ ticks[i].thread = "returned" /\ \E s \in {"succeeded", "skipped"} : Record(d, i, s)
         \/ ticks[i].thread = "raised" /\ Record(d, i, "failed")
      /\ UNCHANGED <<stream, checkpoint, threads, crashes, actions, skipped>>

\* The handler did not return in time.  Its thread is not stopped.
TimeOut(d) ==
  LET i == pass[d].tick
  IN  /\ MayTimeOut
      /\ i # 0
      /\ pass[d].pc \in {"deliver", "last", "retry"}
      /\ ticks[i].thread \in Live
      /\ Record(d, i, "failed")
      /\ abandoned' = abandoned \union {ticks[i].event}
      /\ UNCHANGED <<stream, checkpoint, steps, calls, crashes, actions, skipped>>

\* Mutant: the checkpoint moves to the head of the stream.
AdvanceToHead(d) ==
  /\ pass[d].pc = "advance"
  /\ Checkpoint(pass[d].head)
  /\ pass' = [pass EXCEPT ![d] = Idle]
  /\ UNCHANGED <<stream, ticks, threads, cool, crashes, actions, skipped>>

\* The pass ends, wherever it stopped.
AdvanceCheckpoint(d) ==
  /\ pass[d].pc = "advance"
  /\ Checkpoint(pass[d].position)
  /\ pass' = [pass EXCEPT ![d] = Idle]
  /\ UNCHANGED <<stream, ticks, threads, cool, crashes, actions, skipped>>

-----------------------------------------------------------------------------
\* The handler thread of tick i, which runs one durable step.

\* The thread goes on to pc.  Nobody takes the result of one that timed out.
Thread(i, pc) ==
  LET tick == [ticks[i] EXCEPT !.thread = pc]
  IN  ticks' = [ticks EXCEPT ![i] = IF pc \in Live \/ tick.status = "started" THEN tick
                                    ELSE Ended(tick)]

HasStep(e) == e \in AtMostOnceEvents \union AtLeastOnceEvents
Mark(i, status) == steps' = [steps EXCEPT ![ticks[i].event] = @ \union {status}]

\* Mutant: no marker is recorded before an at-most-once step is called.
ReadStepUnmarked(i) ==
  LET e == ticks[i].event
      markers == steps[e]
  IN  /\ ticks[i].thread = "begin"
      /\ HasStep(e)
      /\ Thread(i, IF "succeeded" \in markers THEN "returned"
                   ELSE IF e \in AtLeastOnceEvents THEN "call"
                   ELSE IF markers = {} THEN "call" ELSE "raised")
      /\ UNCHANGED <<stream, checkpoint, threads, cool, pass, crashes, actions,
                     skipped>>

\* Reads the markers: a memoized result is returned, a second attempt of an
\* at-most-once step is refused.
ReadStep(i) ==
  LET e == ticks[i].event
      markers == steps[e]
  IN  /\ ticks[i].thread = "begin"
      /\ HasStep(e)
      /\ Thread(i, IF "succeeded" \in markers THEN "returned"
                   ELSE IF e \in AtLeastOnceEvents THEN "call"
                   ELSE IF markers = {} THEN "mark" ELSE "raised")
      /\ UNCHANGED <<stream, checkpoint, threads, cool, pass, crashes, actions,
                     skipped>>

MarkStarted(i) ==
  /\ ticks[i].thread = "mark"
  /\ Mark(i, "started")
  /\ Thread(i, "call")
  /\ UNCHANGED <<stream, checkpoint, calls, abandoned, cool, pass, crashes, actions,
                 skipped>>

\* The step function takes effect, or raises.
CallStep(i) ==
  LET e == ticks[i].event
  IN  /\ ticks[i].thread = "call"
      /\ invoked' = invoked \union {e}
      /\ repeated' = repeated \union ({e} \cap invoked \cap AtMostOnceEvents)
      /\ \/ Thread(i, "record")
         \/ Thread(i, IF e \in AtMostOnceEvents THEN "fail" ELSE "raised")
      /\ UNCHANGED <<stream, checkpoint, steps, abandoned, cool, pass, crashes,
                     actions, skipped>>

RecordStep(i) ==
  /\ \/ ticks[i].thread = "record" /\ Mark(i, "succeeded") /\ Thread(i, "returned")
     \/ ticks[i].thread = "fail" /\ Mark(i, "failed") /\ Thread(i, "raised")
  /\ UNCHANGED <<stream, checkpoint, calls, abandoned, cool, pass, crashes, actions,
                 skipped>>

\* A handler without a durable step.
HandlerReturns(i) ==
  /\ ticks[i].thread = "begin"
  /\ ~HasStep(ticks[i].event)
  /\ Thread(i, "returned")
  /\ UNCHANGED <<stream, checkpoint, threads, cool, pass, crashes, actions, skipped>>

\* A marker cannot be read or written, a result cannot be encoded, or the
\* handler's own code raises.
HandlerRaises(i) ==
  /\ ticks[i].thread \in Live
  /\ Thread(i, "raised")
  /\ UNCHANGED <<stream, checkpoint, threads, cool, pass, crashes, actions, skipped>>

-----------------------------------------------------------------------------
\* Operator actions.  A server runs them and its passes under one lock; neither
\* takes the lease.  The code does not ask whether the event is a dead letter.

RetryDeadLetter(d, e) ==
  /\ pass[d].pc = "idle"
  /\ actions < MaxActions
  /\ e \in arrived
  /\ actions' = actions + 1
  /\ ticks' = Append(ticks, Tick(d, e, "started", "operator"))
  /\ pass' = [pass EXCEPT ![d] = [Idle EXCEPT !.pc = "retry", !.tick = Len(ticks) + 1]]
  /\ UNCHANGED <<stream, checkpoint, threads, cool, crashes, skipped>>

SkipDeadLetter(d, e) ==
  /\ pass[d].pc = "idle"
  /\ actions < MaxActions
  /\ actions' = actions + 1
  /\ ticks' = Append(ticks, Tick(d, e, "skipped", "operator"))
  /\ UNCHANGED <<stream, checkpoint, threads, cool, pass, crashes, skipped>>

-----------------------------------------------------------------------------

Pass(d) == \/ StartInitialization(d)
           \/ InitializeCheckpoint(d)
           \/ StartPass(d)
           \/ Fetch(d)
           \/ \E e \in Events : \/ PassOver(d, e)
                                \/ LeaseLost(d, e)
                                \/ DeadLetter(d, e)
                                \/ BackOff(d, e)
                                \/ Evaluate(d, e)
           \/ FinishEvaluation(d)
           \/ AdvanceCheckpoint(d)

Handler(i) == \/ ReadStep(i)
              \/ MarkStarted(i)
              \/ CallStep(i)
              \/ RecordStep(i)
              \/ HandlerReturns(i)
              \/ HandlerRaises(i)

Next == \/ \E d \in Dispatchers : Pass(d) \/ TimeOut(d) \/ Crash(d) \/ PassFails(d)
        \/ \E i \in DOMAIN ticks : Handler(i)
        \/ \E d \in Dispatchers, e \in Events : RetryDeadLetter(d, e) \/ SkipDeadLetter(d, e)
        \/ \E e \in Events : Arrive(e) \/ Expire(e) \/ CoolDown(e)

Spec == Init /\ [][Next]_vars

\* The scheduler thread polls for ever, the backoff elapses, and a handler that
\* does not return is timed out.  Handlers themselves are not fair: they may hang.
Fairness == /\ \A d \in Dispatchers : WF_vars(Pass(d)) /\ WF_vars(TimeOut(d))
            /\ \A e \in Events : WF_vars(CoolDown(e))

FairSpec == Spec /\ Fairness

-----------------------------------------------------------------------------
\* Properties.

TypeOK ==
  /\ arrived \in SUBSET Events
  /\ expired \in SUBSET arrived
  /\ checkpoint \in {{}} \union {{p} : p \in Events \union {0}}
  /\ ticks \in Seq([event : Events,
                    status : {"started", "succeeded", "skipped", "failed", "dead_lettered"},
                    origin : {"dispatch", "operator"},
                    thread : Live \union {"none", "returned", "raised"},
                    host : SUBSET Dispatchers])
  /\ steps \in [Events -> SUBSET {"started", "succeeded", "failed"}]
  /\ cool \in SUBSET Events
  /\ pass \in [Dispatchers ->
                 [pc : {"idle", "initialize", "fetch", "deliver", "last", "advance", "retry"},
                  head : Nat, position : Nat, batch : SUBSET Events, stale : SUBSET Events,
                  tick : Nat]]
  /\ crashes \in Nat
  /\ actions \in Nat
  /\ late \in SUBSET Events
  /\ skipped \in SUBSET Events
  /\ invoked \in SUBSET Events
  /\ repeated \in SUBSET AtMostOnceEvents
  /\ abandoned \in SUBSET Events

\* The events the sensor owes a delivery: they match, became visible in order,
\* have not expired, and no initialization of the checkpoint stepped over them.
Owed == (arrived \cap Matched) \ (late \union expired \union skipped)

\* No event is lost: the checkpoint passes an owed event only when it is
\* resolved, whatever passes of other dispatchers did.
CheckpointCovers == \A e \in Owed, c \in checkpoint : e <= c => Resolved(e)

\* The stream is delivered in order: a dispatcher evaluates or dead-letters an
\* event only when all owed events before it are resolved.
DeliveredInOrder ==
  \A i \in DOMAIN ticks : ticks[i].origin = "dispatch" =>
    \A e \in Owed : e < ticks[i].event => Resolved(e)

\* Where one dispatcher serves the sensor, the function of an at-most-once step is
\* called a second time only beside the thread of an attempt that was abandoned:
\* no crash, no failed query and no operator's retry between any two statements
\* of the step repeats the call.  (Two dispatchers may both read that there is no
\* marker yet; the lease is all that keeps them apart.)
RepeatsExplained == repeated \subseteq abandoned

\* Every event that becomes visible in order and does not expire is resolved in
\* the end, also behind one that expires or fails for good: "exhausted attempts
\* dead-letter the event and unblock the stream".
EventuallyResolved ==
  \A e \in Matched : e \in arrived /\ e \notin late ~> Resolved(e) \/ e \in skipped \union expired
=============================================================================
