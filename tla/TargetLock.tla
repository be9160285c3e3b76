----------------------------- MODULE TargetLock -----------------------------
(***************************************************************************)
(* The target mutation lock.  Every operation that mutates a target        *)
(* database (build, promotion, rollback, janitor, reconcile, repair,       *)
(* destruction) runs inside target_mutation_lock, which acquires the lock, *)
(* runs the operation's statements and releases the lock in a finally.     *)
(*                                                                         *)
(* The lock is a table of the target database: CREATE TABLE succeeds for   *)
(* one caller only, and the table's comment names its owner.  A release    *)
(* creates a marker table carrying the releasing owner's id, EXCHANGEs     *)
(* marker and lock, reads the comment of what it swapped out, and then     *)
(* either drops both tables (the lock was its own) or swaps back and       *)
(* refuses (it was not).                                                   *)
(*                                                                         *)
(* A table is represented by the owner in its comment.  ClickHouse makes   *)
(* each DDL statement atomic, so one statement is one step; between two    *)
(* statements of a run any other run, and the operator who may drop a      *)
(* stale lock by hand, can take steps.                                     *)
(***************************************************************************)
EXTENDS Naturals, FiniteSets

CONSTANTS
  Runs,      \* owner ids: a fresh uuid4 for every use of the lock
  NoTable,   \* the table does not exist
  Operator   \* who drops a lock table by hand: "none" nobody; "careful", only
             \* when no run is active, as the error message asks;
             \* "mistaken", also while a run is still inside its operation

ASSUME LockAssumption == /\ NoTable \notin Runs
                         /\ Operator \in {"none", "careful", "mistaken"}

VARIABLES
  lock,       \* owner in the comment of the lock table, or NoTable
  marker,     \* marker[r]: owner in the comment of r's release table, or NoTable
  pc,         \* pc[r]: where run r is in target_mutation_lock
  query,      \* query[r]: whether the server is executing a statement of r
  interrupted,\* history: runs that left their operation with a statement running
  displaced   \* history: runs, alive or dead, whose lock the operator dropped

vars == <<lock, marker, pc, query, interrupted, displaced>>

-----------------------------------------------------------------------------

\* A run that acquired the lock and whose release has not freed it yet.
Inside    == {"inside"}
Releasing == {"leaving", "marked", "exchanged", "owned", "dropLock"}
Refusing  == {"notOwned", "restored"}
Phases    == {"idle", "refused", "released", "dead"}
               \union Inside \union Releasing \union Refusing

Init == /\ lock = NoTable
        /\ marker = [r \in Runs |-> NoTable]
        /\ pc = [r \in Runs |-> "idle"]
        /\ query = [r \in Runs |-> FALSE]
        /\ interrupted = {}
        /\ displaced = {}

Goto(r, phase) == pc' = [pc EXCEPT ![r] = phase]

\* EXCHANGE TABLES lock AND marker of r.  It fails when either is missing.
Exchange(r) == /\ lock # NoTable
               /\ marker[r] # NoTable
               /\ lock' = marker[r]
               /\ marker' = [marker EXCEPT ![r] = lock]

-----------------------------------------------------------------------------
\* Acquisition.

\* Mutant: CREATE TABLE IF NOT EXISTS succeeds for every caller.
AcquireIfNotExists(r) ==
  /\ pc[r] = "idle"
  /\ lock' = IF lock = NoTable THEN r ELSE lock
  /\ Goto(r, "inside")
  /\ UNCHANGED <<marker, query, interrupted, displaced>>

\* CREATE TABLE of the lock succeeds: the run enters its operation.
AcquireTargetMutationLock(r) ==
  /\ pc[r] = "idle"
  /\ lock = NoTable
  /\ lock' = r
  /\ Goto(r, "inside")
  /\ UNCHANGED <<marker, query, interrupted, displaced>>

\* CREATE TABLE fails, because the table exists or for any other reason: the
\* caller gets an error and the operation never starts.
AcquireFails(r) ==
  /\ pc[r] = "idle"
  /\ Goto(r, "refused")
  /\ UNCHANGED <<lock, marker, query, interrupted, displaced>>

\* CREATE TABLE takes effect and its answer is lost.  The error handler finds
\* the table, reports the target as locked, and the operation never starts;
\* nothing removes the table.
AcquireAnswerLost(r) ==
  /\ pc[r] = "idle"
  /\ lock = NoTable
  /\ lock' = r
  /\ Goto(r, "dead")
  /\ UNCHANGED <<marker, query, interrupted, displaced>>

-----------------------------------------------------------------------------
\* The operation: execute_warehouse_workflow sends one statement at a time.

StartStatement(r) ==
  /\ pc[r] = "inside"
  /\ ~query[r]
  /\ query' = [query EXCEPT ![r] = TRUE]
  /\ UNCHANGED <<lock, marker, pc, interrupted, displaced>>

\* The server finishes a statement, whatever became of the client.
FinishStatement(r) ==
  /\ query[r]
  /\ query' = [query EXCEPT ![r] = FALSE]
  /\ UNCHANGED <<lock, marker, pc, interrupted, displaced>>

\* The operation ends between two statements, normally or with an error.
LeaveOperation(r) ==
  /\ pc[r] = "inside"
  /\ ~query[r]
  /\ Goto(r, "leaving")
  /\ UNCHANGED <<lock, marker, query, interrupted, displaced>>

\* KeyboardInterrupt, or a driver error such as a lost connection, while a
\* statement is running: the exception unwinds to the finally that releases the
\* lock, and the server goes on executing the statement.
InterruptStatement(r) ==
  /\ pc[r] = "inside"
  /\ query[r]
  /\ Goto(r, "leaving")
  /\ interrupted' = interrupted \union {r}
  /\ UNCHANGED <<lock, marker, query, displaced>>

-----------------------------------------------------------------------------
\* release_target_mutation_lock, one statement a step.

CreateMarker(r) ==
  /\ pc[r] = "leaving"
  /\ marker' = [marker EXCEPT ![r] = r]
  /\ Goto(r, "marked")
  /\ UNCHANGED <<lock, query, interrupted, displaced>>

ExchangeMarker(r) ==
  /\ pc[r] = "marked"
  /\ Exchange(r)
  /\ Goto(r, "exchanged")
  /\ UNCHANGED <<query, interrupted, displaced>>

\* Mutant: the release does not look whose lock it swapped out.
ReadMarkerUnchecked(r) ==
  /\ pc[r] = "exchanged"
  /\ Goto(r, "owned")
  /\ UNCHANGED <<lock, marker, query, interrupted, displaced>>

\* Reads the comment of the table that was the lock until the exchange.
ReadMarker(r) ==
  /\ pc[r] = "exchanged"
  /\ Goto(r, IF marker[r] = r THEN "owned" ELSE "notOwned")
  /\ UNCHANGED <<lock, marker, query, interrupted, displaced>>

\* Mutant: the table swapped out, once the lock, is dropped, and the marker that
\* took the lock's name is forgotten.
DropMarkerOnly(r) ==
  /\ pc[r] = "owned"
  /\ marker' = [marker EXCEPT ![r] = NoTable]
  /\ Goto(r, "released")
  /\ UNCHANGED <<lock, query, interrupted, displaced>>

DropMarker(r) ==
  /\ pc[r] = "owned"
  /\ marker' = [marker EXCEPT ![r] = NoTable]
  /\ Goto(r, "dropLock")
  /\ UNCHANGED <<lock, query, interrupted, displaced>>

DropLock(r) ==
  /\ pc[r] = "dropLock"
  /\ lock # NoTable
  /\ lock' = NoTable
  /\ Goto(r, "released")
  /\ UNCHANGED <<marker, query, interrupted, displaced>>

\* The lock belongs to another run: put it back.
ExchangeBack(r) ==
  /\ pc[r] = "notOwned"
  /\ Exchange(r)
  /\ Goto(r, "restored")
  /\ UNCHANGED <<query, interrupted, displaced>>

\* Drops what is now the marker and raises AdapterTargetMutationLockError.
RefuseRelease(r) ==
  /\ pc[r] = "restored"
  /\ marker' = [marker EXCEPT ![r] = NoTable]
  /\ Goto(r, "refused")
  /\ UNCHANGED <<lock, query, interrupted, displaced>>

\* Mutant: a statement that finds no lock table is tried again.
ReleaseRetriesForever(r) ==
  /\ pc[r] \in {"marked", "notOwned", "dropLock"}
  /\ lock = NoTable
  /\ UNCHANGED vars

\* An EXCHANGE or DROP of a lock table that is gone fails, and its error leaves
\* the finally: the tables stay as they are.
ReleaseStatementFails(r) ==
  /\ pc[r] \in {"marked", "notOwned", "dropLock"}
  /\ lock = NoTable
  /\ Goto(r, "dead")
  /\ UNCHANGED <<lock, marker, query, interrupted, displaced>>

\* Mutant: the lock of a dead owner is taken away.
CrashFreesLock(r) ==
  /\ pc[r] \in Inside \union Releasing \union Refusing
  /\ Goto(r, "dead")
  /\ lock' = NoTable
  /\ UNCHANGED <<marker, query, interrupted, displaced>>

\* The process is killed, or any statement of the release fails for another
\* reason: no further step of r runs and the tables stay as they are.
Crash(r) ==
  /\ pc[r] \in Inside \union Releasing \union Refusing
  /\ Goto(r, "dead")
  /\ UNCHANGED <<lock, marker, query, interrupted, displaced>>

-----------------------------------------------------------------------------
\* The operator's DROP TABLE of the lock, outside the program.  Even a mistaken
\* one does not catch a run in the five statements of its release.

OperatorDropsLock ==
  /\ Operator # "none"
  /\ lock # NoTable
  /\ \A r \in Runs : pc[r] \notin Releasing \union Refusing
  /\ Operator = "careful" => \A r \in Runs : pc[r] \notin Inside
  /\ lock' = NoTable
  /\ displaced' = displaced \union {r \in Runs : pc[r] \in {"inside", "dead"}}
  /\ UNCHANGED <<marker, pc, query, interrupted>>

-----------------------------------------------------------------------------

Release(r) == \/ CreateMarker(r)
              \/ ExchangeMarker(r)
              \/ ReadMarker(r)
              \/ DropMarker(r)
              \/ DropLock(r)
              \/ ExchangeBack(r)
              \/ RefuseRelease(r)
              \/ ReleaseStatementFails(r)

Run(r) == \/ AcquireTargetMutationLock(r)
          \/ AcquireFails(r)
          \/ AcquireAnswerLost(r)
          \/ StartStatement(r)
          \/ FinishStatement(r)
          \/ LeaveOperation(r)
          \/ InterruptStatement(r)
          \/ Release(r)
          \/ Crash(r)

Next == \/ \E r \in Runs : Run(r)
        \/ OperatorDropsLock

Spec == Init /\ [][Next]_vars

\* A run that is not killed keeps taking its steps and the server answers every
\* statement (weak fairness); a workflow is a finite tuple of statements, so a
\* run that keeps reaching the gap between two statements at last leaves (strong
\* fairness).
Fairness == \A r \in Runs : /\ WF_vars(Release(r))
                            /\ WF_vars(FinishStatement(r))
                            /\ SF_vars(LeaveOperation(r))

FairSpec == Spec /\ Fairness

-----------------------------------------------------------------------------
\* Properties.

TypeOK == /\ lock \in Runs \union {NoTable}
          /\ marker \in [Runs -> Runs \union {NoTable}]
          /\ pc \in [Runs -> Phases]
          /\ query \in [Runs -> BOOLEAN]
          /\ interrupted \in SUBSET Runs
          /\ displaced \in SUBSET Runs

\* The runs with a claim on the target: they got the lock, nobody dropped it
\* under them, and they have neither given it back nor been refused its release.
Claimants == {r \in Runs \ displaced :
                pc[r] \in Inside \union Releasing \union Refusing \union {"dead"}}

Claims == INSTANCE ExclusiveClaim WITH Claimers <- Runs, claim <- Claimants

\* "Hold exclusive target mutation ownership for one operation": one run at most
\* has a claim, a run gains one only when nobody has any, and none is handed
\* over.  In particular the late release of a displaced run never lets a third
\* run in beside the second.
ExclusiveOwnership == Claims!Spec

\* "Target mutation locks remain fail-closed after a crashed owner": while a run
\* has a claim, dead at whatever statement after its CREATE or alive, the lock
\* table exists, so that every other CREATE fails.
FailClosed == Claimants # {} => lock # NoTable

\* Two statements of different runs execute at once on the target only when one
\* of the runs abandoned its statement or lost its lock to the operator.
OverlapExplained ==
  \A r, s \in Runs : query[r] /\ query[s] /\ r # s =>
     {r, s} \cap (interrupted \union displaced) # {}

\* A release that comes to its end, freed or refused, leaves nothing behind: never
\* its marker, and a lock table in its name only when the operator displaced a
\* run, whose release can fall between the two EXCHANGEs of another.
NothingLeftBehind ==
  \A r \in Runs : pc[r] \in {"released", "refused"} =>
     marker[r] = NoTable /\ (lock = r => displaced # {})

\* A held lock is freed or its holder dies: no release hangs half-way.
EventuallyFreed ==
  \A r \in Runs : pc[r] = "inside" ~> pc[r] \in {"released", "refused", "dead"}
=============================================================================
