-------------------------- MODULE TargetLockProofs --------------------------
(***************************************************************************)
(* For every set of runs, whoever the operator is: the target mutation     *)
(* lock fails closed, gives exclusive ownership, and explains every        *)
(* overlap of statements.                                                  *)
(*                                                                         *)
(* The type invariant and the three properties are not inductive: a        *)
(* displaced run must be kept from taking another run's lock for its own   *)
(* in ReadMarker.  LockInv says why it cannot: after the operator's drop   *)
(* no live table carries the displaced run's id except the marker it makes *)
(* itself, so what it swaps out of the lock is never its own.              *)
(***************************************************************************)
EXTENDS TargetLock, TLAPS

\* One claimant at most.
UniqueClaim == \A r, s \in Claimants : r = s

\* A release table exists only from CREATE to DROP in its run's release, or
\* after its run died there.
MarkerPhases ==
  \A r \in Runs : marker[r] # NoTable =>
     pc[r] \in {"marked", "exchanged", "owned", "notOwned", "restored", "dead"}

\* Before the operator's first drop every table carries the id of the run it is
\* for: the lock that of a claimant, a marker that of its own run; no release is
\* refused then.
OwnTables ==
  displaced = {} =>
    /\ lock # NoTable => lock \in Claimants
    /\ \A r \in Runs : /\ marker[r] # NoTable => marker[r] = r
                       /\ pc[r] = "exchanged" => marker[r] # NoTable
                       /\ pc[r] \notin Refusing

\* A displaced run cannot come to own a lock table again.
DisplacedInv ==
  \A r \in displaced :
    /\ pc[r] \notin {"idle", "owned", "dropLock"}
    /\ pc[r] = "exchanged" => marker[r] # r
    /\ pc[r] \in {"inside", "leaving", "marked"} =>
         /\ lock # r
         /\ \A s \in Runs \ {r} : marker[s] = r => pc[s] = "dead"

\* A statement runs on the server for a run that is inside, or died or was
\* interrupted there.
QueryInv ==
  \A r \in Runs : query[r] => pc[r] \in {"inside", "dead"} \/ r \in interrupted

LockInv == /\ TypeOK
           /\ UniqueClaim
           /\ FailClosed
           /\ MarkerPhases
           /\ OwnTables
           /\ DisplacedInv
           /\ QueryInv

-----------------------------------------------------------------------------

\* Before any run acquires the lock, LockInv holds.
LEMMA InitLockInv == Init => LockInv
  BY LockAssumption DEF Init, LockInv, TypeOK, UniqueClaim, FailClosed,
     MarkerPhases, OwnTables, DisplacedInv, QueryInv, Claimants, Phases, Inside,
     Releasing, Refusing

\* No statement of any run, no crash and no DROP of the operator breaks LockInv.
LEMMA NextLockInv == LockInv /\ [Next]_vars => LockInv'
  <1> SUFFICES ASSUME LockInv, [Next]_vars PROVE LockInv'
    OBVIOUS
  <1> USE LockAssumption DEF LockInv, TypeOK, UniqueClaim, FailClosed,
        MarkerPhases, OwnTables, DisplacedInv, QueryInv, Claimants, Phases, Inside,
        Releasing, Refusing, Goto, Exchange
  <1>1. ASSUME NEW r \in Runs, AcquireTargetMutationLock(r) PROVE LockInv'
    BY <1>1 DEF AcquireTargetMutationLock
  <1>2. ASSUME NEW r \in Runs, AcquireFails(r) PROVE LockInv'
    BY <1>2 DEF AcquireFails
  <1>3. ASSUME NEW r \in Runs, AcquireAnswerLost(r) PROVE LockInv'
    BY <1>3 DEF AcquireAnswerLost
  <1>4. ASSUME NEW r \in Runs, StartStatement(r) PROVE LockInv'
    BY <1>4 DEF StartStatement
  <1>5. ASSUME NEW r \in Runs, FinishStatement(r) PROVE LockInv'
    BY <1>5 DEF FinishStatement
  <1>6. ASSUME NEW r \in Runs, LeaveOperation(r) PROVE LockInv'
    BY <1>6 DEF LeaveOperation
  <1>7. ASSUME NEW r \in Runs, InterruptStatement(r) PROVE LockInv'
    BY <1>7 DEF InterruptStatement
  <1>8. ASSUME NEW r \in Runs, CreateMarker(r) PROVE LockInv'
    BY <1>8 DEF CreateMarker
  <1>9. ASSUME NEW r \in Runs, ExchangeMarker(r) PROVE LockInv'
    BY <1>9 DEF ExchangeMarker
  <1>10. ASSUME NEW r \in Runs, ReadMarker(r) PROVE LockInv'
    BY <1>10 DEF ReadMarker
  <1>11. ASSUME NEW r \in Runs, DropMarker(r) PROVE LockInv'
    BY <1>11 DEF DropMarker
  <1>12. ASSUME NEW r \in Runs, DropLock(r) PROVE LockInv'
    BY <1>12 DEF DropLock
  <1>13. ASSUME NEW r \in Runs, ExchangeBack(r) PROVE LockInv'
    BY <1>13 DEF ExchangeBack
  <1>14. ASSUME NEW r \in Runs, RefuseRelease(r) PROVE LockInv'
    BY <1>14 DEF RefuseRelease
  <1>15. ASSUME NEW r \in Runs, ReleaseStatementFails(r) PROVE LockInv'
    BY <1>15 DEF ReleaseStatementFails
  <1>16. ASSUME NEW r \in Runs, Crash(r) PROVE LockInv'
    BY <1>16 DEF Crash
  <1>17. CASE OperatorDropsLock
    BY <1>17 DEF OperatorDropsLock
  <1>18. CASE UNCHANGED vars
    BY <1>18 DEF vars
  <1> QED
    BY <1>1, <1>2, <1>3, <1>4, <1>5, <1>6, <1>7, <1>8, <1>9, <1>10, <1>11, <1>12,
       <1>13, <1>14, <1>15, <1>16, <1>17, <1>18 DEF Next, Run, Release

\* LockInv is an invariant of the lock protocol.
THEOREM LockInvariant == Spec => []LockInv
  BY InitLockInv, NextLockInv, PTL DEF Spec

\* Type correctness of the lock protocol's state.
THEOREM LockTypeOK == Spec => []TypeOK
  <1>1. LockInv => TypeOK
    BY DEF LockInv
  <1> QED
    BY <1>1, LockInvariant, PTL

\* The lock table outlives its claimant: acquire_target_mutation_lock fails for
\* everyone else until the lock is released or dropped by the operator.
THEOREM LockFailClosed == Spec => []FailClosed
  <1>1. LockInv => FailClosed
    BY DEF LockInv
  <1> QED
    BY <1>1, LockInvariant, PTL

\* Statements of two runs overlap only through an interrupt or the operator.
THEOREM LockOverlapExplained == Spec => []OverlapExplained
  <1>1. LockInv => OverlapExplained
    <2> SUFFICES ASSUME LockInv,
                        NEW r \in Runs, NEW s \in Runs,
                        query[r], query[s],
                        r \notin interrupted \union displaced,
                        s \notin interrupted \union displaced
                 PROVE  r = s
      BY DEF OverlapExplained
    <2>1. r \in Claimants /\ s \in Claimants
      BY DEF LockInv, QueryInv, Claimants, Inside
    <2> QED
      BY <2>1 DEF LockInv, UniqueClaim
  <1> QED
    BY <1>1, LockInvariant, PTL

\* A finished release leaves neither of its tables, unless the operator displaced
\* a run.
THEOREM LockLeavesNothing == Spec => []NothingLeftBehind
  <1>1. LockInv => NothingLeftBehind
    BY LockAssumption DEF LockInv, NothingLeftBehind, MarkerPhases, OwnTables,
       Claimants, Inside, Releasing, Refusing
  <1> QED
    BY <1>1, LockInvariant, PTL

\* The table protocol of acquire and release implements an exclusive claim.
THEOREM LockExclusiveOwnership == Spec => ExclusiveOwnership
  <1>1. Init => Claims!Init
    BY DEF Init, Claims!Init, Claimants, Inside, Releasing, Refusing
  <1>2. LockInv /\ LockInv' /\ [Next]_vars => [Claims!Next]_Claimants
    <2> SUFFICES ASSUME LockInv, LockInv', [Next]_vars
                 PROVE  Claimants' = Claimants \/ Claims!Next
      OBVIOUS
    <2>1. ASSUME NEW r \in Runs, Run(r)
          PROVE  Claimants' = Claimants \/ Claims!Next
      <3>1. CASE AcquireTargetMutationLock(r) \/ AcquireAnswerLost(r)
        <4>1. Claimants = {}
          BY <3>1 DEF LockInv, FailClosed, AcquireTargetMutationLock,
             AcquireAnswerLost
        <4>2. r \in Claimants'
          BY <3>1 DEF LockInv, TypeOK, DisplacedInv, Claimants, Inside, Goto,
             AcquireTargetMutationLock, AcquireAnswerLost
        <4>3. Claimants' = {r}
          BY <4>2 DEF LockInv, UniqueClaim
        <4> QED
          BY <4>1, <4>3 DEF Claims!Next, Claims!Take
      <3>2. CASE DropLock(r) \/ RefuseRelease(r)
        <4>1. r \notin Claimants'
          BY <3>2 DEF LockInv, TypeOK, Claimants, Inside, Releasing, Refusing,
             Goto, DropLock, RefuseRelease
        <4>2. Claimants' \subseteq Claimants
          BY <3>2 DEF LockInv, TypeOK, Claimants, Inside, Releasing, Refusing,
             Goto, DropLock, RefuseRelease
        <4>3. r \in Claimants => Claimants' = {}
          BY <4>1, <4>2 DEF LockInv, UniqueClaim
        <4>4. r \notin Claimants => Claimants' = Claimants
          BY <3>2 DEF LockInv, TypeOK, Claimants, Inside, Releasing, Refusing,
             Goto, DropLock, RefuseRelease
        <4> QED
          BY <4>3, <4>4 DEF Claims!Next, Claims!End
      <3>3. CASE ~(\/ AcquireTargetMutationLock(r) \/ AcquireAnswerLost(r)
                   \/ DropLock(r) \/ RefuseRelease(r))
        BY <2>1, <3>3 DEF LockInv, TypeOK, Run, Release, AcquireFails,
           StartStatement, FinishStatement, LeaveOperation, InterruptStatement,
           CreateMarker, ExchangeMarker, ReadMarker, DropMarker, ExchangeBack,
           ReleaseStatementFails, Crash, Goto, Exchange, Claimants, Inside,
           Releasing, Refusing
      <3> QED
        BY <3>1, <3>2, <3>3
    <2>2. CASE OperatorDropsLock
      <3>1. Claimants' = {}
        BY <2>2 DEF LockInv, TypeOK, OperatorDropsLock, Claimants, Inside,
           Releasing, Refusing
      <3> QED
        BY <3>1 DEF Claims!Next, Claims!End
    <2>3. CASE UNCHANGED vars
      BY <2>3 DEF vars, Claimants
    <2> QED
      BY <2>1, <2>2, <2>3 DEF Next
  <1> QED
    BY <1>1, <1>2, LockInvariant, PTL DEF Spec, ExclusiveOwnership, Claims!Spec

=============================================================================
