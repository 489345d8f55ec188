--------------------------- MODULE ExecutorProofs ---------------------------
(***************************************************************************)
(* Proofs about Executor for every set of handles, every bound and every   *)
(* choice of the flags.                                                    *)
(*                                                                         *)
(* The safety properties follow from IInv, whose parts are proved one      *)
(* lemma each: a part is preserved by the steps of user code, of           *)
(* SynchronizeHandles, of the execution of ready handles, of Stop and of   *)
(* the background thread.                                                  *)
(***************************************************************************)
EXTENDS Executor, TLAPS

\* The groups of variables and the fragments that the actions are built from.
USE HandlesAssumption
    DEF callVars, frameVars, nodeVars, semVars, handleVars, runVars, bgVars,
        BeginSync, BgMoves, WakeSleeper, ExecutionEnds, AtLoop, Within

-----------------------------------------------------------------------------
(* Types.                                                                  *)

\* The Boolean variables stay Boolean.
LEMMA FlagsStep ==
  ASSUME FlagsOK, [Next]_vars
  PROVE  FlagsOK'
<1> USE DEF FlagsOK
<1>1. ASSUME UserStep PROVE FlagsOK'
  <2>1. ASSUME NEW h \in Handles, Create(h) PROVE FlagsOK'
    BY <2>1, ZenonT(40) DEF Create
  <2>2. ASSUME NEW h \in Handles, Destroy(h) PROVE FlagsOK'
    BY <2>2, ZenonT(40) DEF Destroy
  <2>3. ASSUME NEW h \in Handles, FilterBegin(h) PROVE FlagsOK'
    BY <2>3, ZenonT(40) DEF FilterBegin
  <2>4. ASSUME Spin PROVE FlagsOK'
    BY <2>4, ZenonT(40) DEF Spin
  <2>5. ASSUME SpinOnce PROVE FlagsOK'
    BY <2>5, ZenonT(40) DEF SpinOnce
  <2>6. ASSUME StopIdle PROVE FlagsOK'
    BY <2>6, ZenonT(40) DEF StopIdle
  <2>7. ASSUME Stop PROVE FlagsOK'
    BY <2>7, ZenonT(40) DEF Stop
  <2> QED
    BY <1>1, <2>1, <2>2, <2>3, <2>4, <2>5, <2>6, <2>7 DEF UserStep
<1>2. ASSUME SyncStep PROVE FlagsOK'
  <2>1. ASSUME SyncLocked PROVE FlagsOK'
    BY <2>1, ZenonT(40) DEF SyncLocked, LockFree
  <2>2. ASSUME SyncPost PROVE FlagsOK'
    BY <2>2, ZenonT(40) DEF SyncPost, WaitTokens
  <2>3. ASSUME Created PROVE FlagsOK'
    BY <2>3, ZenonT(40) DEF Created
  <2>4. ASSUME Released PROVE FlagsOK'
    BY <2>4, ZenonT(40) DEF Released, KeepWrapper
  <2>5. ASSUME Start PROVE FlagsOK'
    BY <2>5, ZenonT(40) DEF Start
  <2>6. ASSUME WaitOnce PROVE FlagsOK'
    BY <2>6, ZenonT(40) DEF WaitOnce
  <2> QED
    BY <1>2, <2>1, <2>2, <2>3, <2>4, <2>5, <2>6 DEF SyncStep
<1>3. ASSUME ExecuteStep PROVE FlagsOK'
  <2>1. ASSUME TakeReady PROVE FlagsOK'
    BY <2>1, ZenonT(40) DEF TakeReady
  <2>2. ASSUME NEW h \in Handles, Dispatch(h) PROVE FlagsOK'
    BY <2>2, ZenonT(40) DEF Dispatch
  <2>3. ASSUME CallbackReturns PROVE FlagsOK'
    BY <2>3, ZenonT(40) DEF CallbackReturns
  <2>4. ASSUME CallbackThrows PROVE FlagsOK'
    BY <2>4, ZenonT(40) DEF CallbackThrows
  <2>5. ASSUME ExecuteEnds PROVE FlagsOK'
    BY <2>5, ZenonT(40) DEF ExecuteEnds
  <2>6. ASSUME ClearWork PROVE FlagsOK'
    BY <2>6, ZenonT(40) DEF ClearWork
  <2>7. ASSUME NotifyWork PROVE FlagsOK'
    BY <2>7, ZenonT(40) DEF NotifyWork
  <2> QED
    BY <1>3, <2>1, <2>2, <2>3, <2>4, <2>5, <2>6, <2>7 DEF ExecuteStep
<1>4. ASSUME StopStep PROVE FlagsOK'
  <2>1. ASSUME StopWakes PROVE FlagsOK'
    BY <2>1, ZenonT(40) DEF StopWakes, StopToken
  <2>2. ASSUME StopTriggers PROVE FlagsOK'
    BY <2>2, ZenonT(40) DEF StopTriggers, Triggered, StillOpen
  <2>3. ASSUME StopJoins PROVE FlagsOK'
    BY <2>3, ZenonT(40) DEF StopJoins, StopLeaves
  <2>4. ASSUME StopReturns PROVE FlagsOK'
    BY <2>4, ZenonT(40) DEF StopReturns
  <2> QED
    BY <1>4, <2>1, <2>2, <2>3, <2>4 DEF StopStep
<1>5. ASSUME BgStep PROVE FlagsOK'
  <2>1. ASSUME BgInit PROVE FlagsOK'
    BY <2>1, ZenonT(40) DEF BgInit
  <2>2. ASSUME BgTop PROVE FlagsOK'
    BY <2>2, ZenonT(40) DEF BgTop
  <2>3. ASSUME BgEmpty PROVE FlagsOK'
    BY <2>3, ZenonT(40) DEF BgEmpty
  <2>4. ASSUME BgWaitForHandles PROVE FlagsOK'
    BY <2>4, ZenonT(40) DEF BgWaitForHandles, HasToken
  <2>5. ASSUME BgCheckSync PROVE FlagsOK'
    BY <2>5, ZenonT(40) DEF BgCheckSync
  <2>6. ASSUME BgWaitForSync PROVE FlagsOK'
    BY <2>6, ZenonT(40) DEF BgWaitForSync
  <2>7. ASSUME BgLock PROVE FlagsOK'
    BY <2>7, ZenonT(40) DEF BgLock, StillToWait
  <2>8. ASSUME BgWaitReturns PROVE FlagsOK'
    BY <2>8, ZenonT(40) DEF BgWaitReturns, TimeoutExpires
  <2>9. ASSUME BgWaitFails PROVE FlagsOK'
    BY <2>9, ZenonT(40) DEF BgWaitFails
  <2>10. ASSUME BgCheck PROVE FlagsOK'
    BY <2>10, ZenonT(40) DEF BgCheck
  <2>11. ASSUME BgMark PROVE FlagsOK'
    BY <2>11, ZenonT(40) DEF BgMark
  <2>12. ASSUME BgSend PROVE FlagsOK'
    BY <2>12, ZenonT(40) DEF BgSend, Signalled
  <2>13. ASSUME BgWaitForWork PROVE FlagsOK'
    BY <2>13, ZenonT(40) DEF BgWaitForWork
  <2>14. ASSUME BgFini PROVE FlagsOK'
    BY <2>14, ZenonT(40) DEF BgFini
  <2>15. ASSUME BgFail PROVE FlagsOK'
    BY <2>15, ZenonT(40) DEF BgFail
  <2> QED
    BY <1>5, <2>1, <2>2, <2>3, <2>4, <2>5, <2>6, <2>7, <2>8, <2>9, <2>10,
       <2>11, <2>12, <2>13, <2>14, <2>15 DEF BgStep
<1>6. ASSUME FilterEnd PROVE FlagsOK'
  BY <1>6, ZenonT(40) DEF FilterEnd
<1>7. ASSUME DoWork PROVE FlagsOK'
  BY <1>7, ZenonT(40) DEF DoWork
<1>8. ASSUME OtherNodeExecutes PROVE FlagsOK'
  BY <1>8, ZenonT(40) DEF OtherNodeExecutes
<1>9. ASSUME NEW h \in Handles, Collect(h) PROVE FlagsOK'
  BY <1>9, ZenonT(40) DEF Collect
<1>10. CASE UNCHANGED vars
  BY <1>10, ZenonT(40) DEF vars
<1> QED
  BY <1>1, <1>2, <1>3, <1>4, <1>5, <1>6, <1>7, <1>8, <1>9, <1>10 DEF Next

\* The control points and the async stay in their sets.
LEMMA PointsStep ==
  ASSUME PointsOK, [Next]_vars
  PROVE  PointsOK'
<1>1. ASSUME UserStep PROVE PointsOK'
  BY <1>1 DEF UserStep, Create, Destroy, FilterBegin, Spin, SpinOnce,
     StopIdle, Stop, PointsOK, MainPoints, BackPoints
<1>2. ASSUME SyncStep PROVE PointsOK'
  BY <1>2 DEF SyncStep, SyncLocked, SyncPost, Created, Released, Start,
     WaitOnce, AddHandlesToWaitSet, CollectReadyHandles, WaitTokens, KeepWrapper,
     LockFree, PointsOK, MainPoints,
     BackPoints
<1>3. ASSUME ExecuteStep PROVE PointsOK'
  BY <1>3 DEF ExecuteStep, TakeReady, Dispatch, CallbackReturns,
     CallbackThrows, ExecuteEnds, ClearWork, NotifyWork, PointsOK,
     MainPoints, BackPoints
<1>4. ASSUME StopStep PROVE PointsOK'
  BY <1>4 DEF StopStep, StopWakes, StopTriggers, Triggered, StopJoins, StopReturns,
     StopToken, StopLeaves, StillOpen, PointsOK, MainPoints, BackPoints
<1>5. ASSUME BgStep PROVE PointsOK'
  BY <1>5 DEF BgStep, BgInit, BgTop, BgEmpty, BgWaitForHandles, BgCheckSync,
     BgWaitForSync, BgLock, AddHandlesToWaitSet, CollectReadyHandles,
     BgWaitReturns, BgWaitFails, BgCheck, BgMark,
     BgSend, BgWaitForWork, BgFini, BgFail, StillToWait, HasToken,
     TimeoutExpires, Signalled, PointsOK, MainPoints, BackPoints
<1>6. ASSUME FilterEnd PROVE PointsOK'
  BY <1>6 DEF FilterEnd, PointsOK, MainPoints, BackPoints
<1>7. ASSUME DoWork PROVE PointsOK'
  BY <1>7 DEF DoWork, PointsOK, MainPoints, BackPoints
<1>8. ASSUME OtherNodeExecutes PROVE PointsOK'
  BY <1>8 DEF OtherNodeExecutes, PointsOK, MainPoints, BackPoints
<1>9. ASSUME NEW h \in Handles, Collect(h) PROVE PointsOK'
  BY <1>9 DEF Collect, PointsOK, MainPoints, BackPoints
<1>10. CASE UNCHANGED vars
  BY <1>10 DEF vars, PointsOK, MainPoints, BackPoints
<1> QED
  BY <1>1, <1>2, <1>3, <1>4, <1>5, <1>6, <1>7, <1>8, <1>9, <1>10 DEF Next

\* The sets of handles, the handle states and the semaphores keep their types.
LEMMA DataStep ==
  ASSUME TypeOK, [Next]_vars
  PROVE  DataOK'
<1>1. ASSUME UserStep PROVE DataOK'
  BY <1>1 DEF UserStep, Create, Destroy, FilterBegin, Spin, SpinOnce,
     StopIdle, Stop, TypeOK, FlagsOK, PointsOK, DataOK
<1>2. ASSUME SyncStep PROVE DataOK'
  BY <1>2 DEF SyncStep, SyncLocked, SyncPost, Created, Released, Start,
     WaitOnce, AddHandlesToWaitSet, CollectReadyHandles, WaitTokens, KeepWrapper,
     LockFree, TypeOK, FlagsOK, PointsOK,
     DataOK
<1>3. ASSUME ExecuteStep PROVE DataOK'
  BY <1>3 DEF ExecuteStep, TakeReady, Dispatch, CallbackReturns,
     CallbackThrows, ExecuteEnds, ClearWork, NotifyWork, TypeOK, FlagsOK,
     PointsOK, DataOK
<1>4. ASSUME StopStep PROVE DataOK'
  BY <1>4 DEF StopStep, StopWakes, StopTriggers, Triggered, StopJoins, StopReturns,
     StopToken, StopLeaves, StillOpen, TypeOK, FlagsOK, PointsOK, DataOK
<1>5. ASSUME BgStep PROVE DataOK'
  BY <1>5 DEF BgStep, BgInit, BgTop, BgEmpty, BgWaitForHandles, BgCheckSync,
     BgWaitForSync, BgLock, AddHandlesToWaitSet, CollectReadyHandles,
     BgWaitReturns, BgWaitFails, BgCheck, BgMark,
     BgSend, BgWaitForWork, BgFini, BgFail, StillToWait, HasToken,
     TimeoutExpires, Signalled, TypeOK, FlagsOK, PointsOK, DataOK
<1>6. ASSUME FilterEnd PROVE DataOK'
  BY <1>6 DEF FilterEnd, TypeOK, FlagsOK, PointsOK, DataOK
<1>7. ASSUME DoWork PROVE DataOK'
  BY <1>7 DEF DoWork, TypeOK, FlagsOK, PointsOK, DataOK
<1>8. ASSUME OtherNodeExecutes PROVE DataOK'
  BY <1>8 DEF OtherNodeExecutes, TypeOK, FlagsOK, PointsOK, DataOK
<1>9. ASSUME NEW h \in Handles, Collect(h) PROVE DataOK'
  BY <1>9 DEF Collect, TypeOK, FlagsOK, PointsOK, DataOK
<1>10. CASE UNCHANGED vars
  BY <1>10 DEF vars, TypeOK, FlagsOK, PointsOK, DataOK
<1> QED
  BY <1>1, <1>2, <1>3, <1>4, <1>5, <1>6, <1>7, <1>8, <1>9, <1>10 DEF Next

\* Every variable keeps its type: the sets of lib/node.js and the handle vectors
\* hold only known handles and the semaphores never go below zero.
THEOREM TypeCorrect == Spec => []TypeOK
<1>1. Init => TypeOK
  <2>1. Init => FlagsOK
    BY Zenon DEF Init, FlagsOK
  <2>2. Init => PointsOK
    BY DEF Init, PointsOK, MainPoints, BackPoints
  <2>3. Init => DataOK
    BY DEF Init, DataOK
  <2> QED
    BY <2>1, <2>2, <2>3 DEF TypeOK
<1>2. TypeOK /\ [Next]_vars => TypeOK'
  BY FlagsStep, PointsStep, DataStep DEF TypeOK
<1> QED
  BY <1>1, <1>2, PTL DEF Spec

-----------------------------------------------------------------------------
(* The parts of the inductive invariant.                                   *)

\* The control points agree with the flags.
LEMMA ControlStep ==
  ASSUME TypeOK, TypeOK', ControlInv, [Next]_vars
  PROVE  ControlInv'
<1>1. ASSUME UserStep PROVE ControlInv'
  BY <1>1 DEF UserStep, Create, Destroy, FilterBegin, Spin, SpinOnce,
     StopIdle, Stop, TypeOK, FlagsOK, PointsOK, DataOK, MainPoints,
     BackPoints, Syncing, Synced, ControlInv
<1>2. ASSUME SyncStep PROVE ControlInv'
  BY <1>2 DEF SyncStep, SyncLocked, SyncPost, Created, Released, Start,
     WaitOnce, AddHandlesToWaitSet, CollectReadyHandles, WaitTokens, KeepWrapper,
     LockFree, TypeOK, FlagsOK, PointsOK,
     DataOK, MainPoints, BackPoints, Syncing, Synced, ControlInv
<1>3. ASSUME ExecuteStep PROVE ControlInv'
  BY <1>3 DEF ExecuteStep, TakeReady, Dispatch, CallbackReturns,
     CallbackThrows, ExecuteEnds, ClearWork, NotifyWork, TypeOK, FlagsOK,
     PointsOK, DataOK, MainPoints, BackPoints, Syncing, Synced, ControlInv
<1>4. ASSUME StopStep PROVE ControlInv'
  BY <1>4 DEF StopStep, StopWakes, StopTriggers, Triggered, StopJoins, StopReturns,
     StopToken, StopLeaves, StillOpen, TypeOK, FlagsOK, PointsOK, DataOK,
     MainPoints, BackPoints, Syncing, Synced, ControlInv
<1>5. ASSUME BgStep PROVE ControlInv'
  BY <1>5 DEF BgStep, BgInit, BgTop, BgEmpty, BgWaitForHandles, BgCheckSync,
     BgWaitForSync, BgLock, AddHandlesToWaitSet, CollectReadyHandles,
     BgWaitReturns, BgWaitFails, BgCheck, BgMark,
     BgSend, BgWaitForWork, BgFini, BgFail, StillToWait, HasToken,
     TimeoutExpires, Signalled, TypeOK, FlagsOK, PointsOK, DataOK,
     MainPoints, BackPoints, Syncing, Synced, ControlInv
<1>6. ASSUME FilterEnd PROVE ControlInv'
  BY <1>6 DEF FilterEnd, TypeOK, FlagsOK, PointsOK, DataOK, MainPoints,
     BackPoints, Syncing, Synced, ControlInv
<1>7. ASSUME DoWork PROVE ControlInv'
  BY <1>7 DEF DoWork, TypeOK, FlagsOK, PointsOK, DataOK, MainPoints,
     BackPoints, Syncing, Synced, ControlInv
<1>8. ASSUME OtherNodeExecutes PROVE ControlInv'
  BY <1>8 DEF OtherNodeExecutes, TypeOK, FlagsOK, PointsOK, DataOK,
     MainPoints, BackPoints, Syncing, Synced, ControlInv
<1>9. ASSUME NEW h \in Handles, Collect(h) PROVE ControlInv'
  BY <1>9 DEF Collect, TypeOK, FlagsOK, PointsOK, DataOK, MainPoints,
     BackPoints, Syncing, Synced, ControlInv
<1>10. CASE UNCHANGED vars
  BY <1>10 DEF vars, TypeOK, FlagsOK, PointsOK, DataOK, MainPoints,
     BackPoints, Syncing, Synced, ControlInv
<1> QED
  BY <1>1, <1>2, <1>3, <1>4, <1>5, <1>6, <1>7, <1>8, <1>9, <1>10 DEF Next

\* A handle leaves the arrays, the vectors and the wait set before its release:
\* SyncLocked needs the lock that the background thread holds in rcl_wait.
LEMMA AliveStep ==
  ASSUME TypeOK, TypeOK', ControlInv, AliveInv, [Next]_vars
  PROVE  AliveInv'
<1>1. ASSUME UserStep PROVE AliveInv'
  BY <1>1 DEF UserStep, Create, Destroy, FilterBegin, Spin, SpinOnce,
     StopIdle, Stop, TypeOK, FlagsOK, PointsOK, DataOK, MainPoints,
     BackPoints, Syncing, Synced, ControlInv, AliveInv, WaitSetAlive
<1>2. ASSUME SyncStep PROVE AliveInv'
  BY <1>2 DEF SyncStep, SyncLocked, SyncPost, Created, Released, Start,
     WaitOnce, AddHandlesToWaitSet, CollectReadyHandles, WaitTokens, KeepWrapper,
     LockFree, TypeOK, FlagsOK, PointsOK,
     DataOK, MainPoints, BackPoints, Syncing, Synced, ControlInv, AliveInv,
     WaitSetAlive
<1>3. ASSUME ExecuteStep PROVE AliveInv'
  BY <1>3 DEF ExecuteStep, TakeReady, Dispatch, CallbackReturns,
     CallbackThrows, ExecuteEnds, ClearWork, NotifyWork, TypeOK, FlagsOK,
     PointsOK, DataOK, MainPoints, BackPoints, Syncing, Synced, ControlInv,
     AliveInv, WaitSetAlive
<1>4. ASSUME StopStep PROVE AliveInv'
  BY <1>4 DEF StopStep, StopWakes, StopTriggers, Triggered, StopJoins, StopReturns,
     StopToken, StopLeaves, StillOpen, TypeOK, FlagsOK, PointsOK, DataOK,
     MainPoints, BackPoints, Syncing, Synced, ControlInv, AliveInv,
     WaitSetAlive
<1>5. ASSUME BgStep PROVE AliveInv'
  BY <1>5 DEF BgStep, BgInit, BgTop, BgEmpty, BgWaitForHandles, BgCheckSync,
     BgWaitForSync, BgLock, AddHandlesToWaitSet, CollectReadyHandles,
     BgWaitReturns, BgWaitFails, BgCheck, BgMark,
     BgSend, BgWaitForWork, BgFini, BgFail, StillToWait, HasToken,
     TimeoutExpires, Signalled, TypeOK, FlagsOK, PointsOK, DataOK,
     MainPoints, BackPoints, Syncing, Synced, ControlInv, AliveInv,
     WaitSetAlive
<1>6. ASSUME FilterEnd PROVE AliveInv'
  BY <1>6 DEF FilterEnd, TypeOK, FlagsOK, PointsOK, DataOK, MainPoints,
     BackPoints, Syncing, Synced, ControlInv, AliveInv, WaitSetAlive
<1>7. ASSUME DoWork PROVE AliveInv'
  BY <1>7 DEF DoWork, TypeOK, FlagsOK, PointsOK, DataOK, MainPoints,
     BackPoints, Syncing, Synced, ControlInv, AliveInv, WaitSetAlive
<1>8. ASSUME OtherNodeExecutes PROVE AliveInv'
  BY <1>8 DEF OtherNodeExecutes, TypeOK, FlagsOK, PointsOK, DataOK,
     MainPoints, BackPoints, Syncing, Synced, ControlInv, AliveInv,
     WaitSetAlive
<1>9. ASSUME NEW h \in Handles, Collect(h) PROVE AliveInv'
  BY <1>9 DEF Collect, TypeOK, FlagsOK, PointsOK, DataOK, MainPoints,
     BackPoints, Syncing, Synced, ControlInv, AliveInv, WaitSetAlive
<1>10. CASE UNCHANGED vars
  BY <1>10 DEF vars, TypeOK, FlagsOK, PointsOK, DataOK, MainPoints,
     BackPoints, Syncing, Synced, ControlInv, AliveInv, WaitSetAlive
<1> QED
  BY <1>1, <1>2, <1>3, <1>4, <1>5, <1>6, <1>7, <1>8, <1>9, <1>10 DEF Next

\* Whoever makes a sleeper's condition true still has its wake-up ahead.
LEMMA WakeupStep ==
  ASSUME TypeOK, TypeOK', ControlInv, WakeupInv, [Next]_vars
  PROVE  WakeupInv'
<1>1. ASSUME UserStep PROVE WakeupInv'
  BY <1>1 DEF UserStep, Create, Destroy, FilterBegin, Spin, SpinOnce,
     StopIdle, Stop, TypeOK, FlagsOK, PointsOK, DataOK, MainPoints,
     BackPoints, Syncing, Synced, ControlInv, WakeupInv, NoLostWakeup,
     MustWait, Working
<1>2. ASSUME SyncStep PROVE WakeupInv'
  BY <1>2 DEF SyncStep, SyncLocked, SyncPost, Created, Released, Start,
     WaitOnce, AddHandlesToWaitSet, CollectReadyHandles, WaitTokens, KeepWrapper,
     LockFree, TypeOK, FlagsOK, PointsOK,
     DataOK, MainPoints, BackPoints, Syncing, Synced, ControlInv, WakeupInv,
     NoLostWakeup, MustWait, Working
<1>3. ASSUME ExecuteStep PROVE WakeupInv'
  BY <1>3 DEF ExecuteStep, TakeReady, Dispatch, CallbackReturns,
     CallbackThrows, ExecuteEnds, ClearWork, NotifyWork, TypeOK, FlagsOK,
     PointsOK, DataOK, MainPoints, BackPoints, Syncing, Synced, ControlInv,
     WakeupInv, NoLostWakeup, MustWait, Working
<1>4. ASSUME StopStep PROVE WakeupInv'
  BY <1>4 DEF StopStep, StopWakes, StopTriggers, Triggered, StopJoins, StopReturns,
     StopToken, StopLeaves, StillOpen, TypeOK, FlagsOK, PointsOK, DataOK,
     MainPoints, BackPoints, Syncing, Synced, ControlInv, WakeupInv,
     NoLostWakeup, MustWait, Working
<1>5. ASSUME BgStep PROVE WakeupInv'
  BY <1>5 DEF BgStep, BgInit, BgTop, BgEmpty, BgWaitForHandles, BgCheckSync,
     BgWaitForSync, BgLock, AddHandlesToWaitSet, CollectReadyHandles,
     BgWaitReturns, BgWaitFails, BgCheck, BgMark,
     BgSend, BgWaitForWork, BgFini, BgFail, StillToWait, HasToken,
     TimeoutExpires, Signalled, TypeOK, FlagsOK, PointsOK, DataOK,
     MainPoints, BackPoints, Syncing, Synced, ControlInv, WakeupInv,
     NoLostWakeup, MustWait, Working
<1>6. ASSUME FilterEnd PROVE WakeupInv'
  BY <1>6 DEF FilterEnd, TypeOK, FlagsOK, PointsOK, DataOK, MainPoints,
     BackPoints, Syncing, Synced, ControlInv, WakeupInv, NoLostWakeup,
     MustWait, Working
<1>7. ASSUME DoWork PROVE WakeupInv'
  BY <1>7 DEF DoWork, TypeOK, FlagsOK, PointsOK, DataOK, MainPoints,
     BackPoints, Syncing, Synced, ControlInv, WakeupInv, NoLostWakeup,
     MustWait, Working
<1>8. ASSUME OtherNodeExecutes PROVE WakeupInv'
  BY <1>8 DEF OtherNodeExecutes, TypeOK, FlagsOK, PointsOK, DataOK,
     MainPoints, BackPoints, Syncing, Synced, ControlInv, WakeupInv,
     NoLostWakeup, MustWait, Working
<1>9. ASSUME NEW h \in Handles, Collect(h) PROVE WakeupInv'
  BY <1>9 DEF Collect, TypeOK, FlagsOK, PointsOK, DataOK, MainPoints,
     BackPoints, Syncing, Synced, ControlInv, WakeupInv, NoLostWakeup,
     MustWait, Working
<1>10. CASE UNCHANGED vars
  BY <1>10 DEF vars, TypeOK, FlagsOK, PointsOK, DataOK, MainPoints,
     BackPoints, Syncing, Synced, ControlInv, WakeupInv, NoLostWakeup,
     MustWait, Working
<1> QED
  BY <1>1, <1>2, <1>3, <1>4, <1>5, <1>6, <1>7, <1>8, <1>9, <1>10 DEF Next

\* Without a start inside Stop, a thread has its async, and sum_ is accurate.
LEMMA ThreadStep ==
  ASSUME TypeOK, TypeOK', ControlInv, "close" \notin SpinWithin, ThreadInv,
  [Next]_vars
  PROVE  ThreadInv'
<1>1. ASSUME UserStep PROVE ThreadInv'
  BY <1>1 DEF UserStep, Create, Destroy, FilterBegin, Spin, SpinOnce,
     StopIdle, Stop, TypeOK, FlagsOK, PointsOK, DataOK, MainPoints,
     BackPoints, Syncing, Synced, ControlInv, ThreadInv, NeverWaitsOnNothing
<1>2. ASSUME SyncStep PROVE ThreadInv'
  BY <1>2 DEF SyncStep, SyncLocked, SyncPost, Created, Released, Start,
     WaitOnce, AddHandlesToWaitSet, CollectReadyHandles, WaitTokens, KeepWrapper,
     LockFree, TypeOK, FlagsOK, PointsOK,
     DataOK, MainPoints, BackPoints, Syncing, Synced, ControlInv, ThreadInv,
     NeverWaitsOnNothing
<1>3. ASSUME ExecuteStep PROVE ThreadInv'
  BY <1>3 DEF ExecuteStep, TakeReady, Dispatch, CallbackReturns,
     CallbackThrows, ExecuteEnds, ClearWork, NotifyWork, TypeOK, FlagsOK,
     PointsOK, DataOK, MainPoints, BackPoints, Syncing, Synced, ControlInv,
     ThreadInv, NeverWaitsOnNothing
<1>4. ASSUME StopStep PROVE ThreadInv'
  BY <1>4 DEF StopStep, StopWakes, StopTriggers, Triggered, StopJoins, StopReturns,
     StopToken, StopLeaves, StillOpen, TypeOK, FlagsOK, PointsOK, DataOK,
     MainPoints, BackPoints, Syncing, Synced, ControlInv, ThreadInv,
     NeverWaitsOnNothing
<1>5. ASSUME BgStep PROVE ThreadInv'
  BY <1>5 DEF BgStep, BgInit, BgTop, BgEmpty, BgWaitForHandles, BgCheckSync,
     BgWaitForSync, BgLock, AddHandlesToWaitSet, CollectReadyHandles,
     BgWaitReturns, BgWaitFails, BgCheck, BgMark,
     BgSend, BgWaitForWork, BgFini, BgFail, StillToWait, HasToken,
     TimeoutExpires, Signalled, TypeOK, FlagsOK, PointsOK, DataOK,
     MainPoints, BackPoints, Syncing, Synced, ControlInv, ThreadInv,
     NeverWaitsOnNothing
<1>6. ASSUME FilterEnd PROVE ThreadInv'
  BY <1>6 DEF FilterEnd, TypeOK, FlagsOK, PointsOK, DataOK, MainPoints,
     BackPoints, Syncing, Synced, ControlInv, ThreadInv, NeverWaitsOnNothing
<1>7. ASSUME DoWork PROVE ThreadInv'
  BY <1>7 DEF DoWork, TypeOK, FlagsOK, PointsOK, DataOK, MainPoints,
     BackPoints, Syncing, Synced, ControlInv, ThreadInv, NeverWaitsOnNothing
<1>8. ASSUME OtherNodeExecutes PROVE ThreadInv'
  BY <1>8 DEF OtherNodeExecutes, TypeOK, FlagsOK, PointsOK, DataOK,
     MainPoints, BackPoints, Syncing, Synced, ControlInv, ThreadInv,
     NeverWaitsOnNothing
<1>9. ASSUME NEW h \in Handles, Collect(h) PROVE ThreadInv'
  BY <1>9 DEF Collect, TypeOK, FlagsOK, PointsOK, DataOK, MainPoints,
     BackPoints, Syncing, Synced, ControlInv, ThreadInv, NeverWaitsOnNothing
<1>10. CASE UNCHANGED vars
  BY <1>10 DEF vars, TypeOK, FlagsOK, PointsOK, DataOK, MainPoints,
     BackPoints, Syncing, Synced, ControlInv, ThreadInv, NeverWaitsOnNothing
<1> QED
  BY <1>1, <1>2, <1>3, <1>4, <1>5, <1>6, <1>7, <1>8, <1>9, <1>10 DEF Next

\* Without a start inside a callback, the background thread is held from the
\* signal to the end of the execution.
LEMMA HandoffStep ==
  ASSUME TypeOK, TypeOK', ControlInv, SpinWithin = {}, HandoffInv, [Next]_vars
  PROVE  HandoffInv'
<1>1. ASSUME UserStep PROVE HandoffInv'
  BY <1>1 DEF UserStep, Create, Destroy, FilterBegin, Spin, SpinOnce,
     StopIdle, Stop, TypeOK, FlagsOK, PointsOK, DataOK, MainPoints,
     BackPoints, Syncing, Synced, ControlInv, HandoffInv, Held, Working,
     MustWait
<1>2. ASSUME SyncStep PROVE HandoffInv'
  BY <1>2 DEF SyncStep, SyncLocked, SyncPost, Created, Released, Start,
     WaitOnce, AddHandlesToWaitSet, CollectReadyHandles, WaitTokens, KeepWrapper,
     LockFree, TypeOK, FlagsOK, PointsOK,
     DataOK, MainPoints, BackPoints, Syncing, Synced, ControlInv,
     HandoffInv, Held, Working, MustWait
<1>3. ASSUME ExecuteStep PROVE HandoffInv'
  BY <1>3 DEF ExecuteStep, TakeReady, Dispatch, CallbackReturns,
     CallbackThrows, ExecuteEnds, ClearWork, NotifyWork, TypeOK, FlagsOK,
     PointsOK, DataOK, MainPoints, BackPoints, Syncing, Synced, ControlInv,
     HandoffInv, Held, Working, MustWait
<1>4. ASSUME StopStep PROVE HandoffInv'
  BY <1>4 DEF StopStep, StopWakes, StopTriggers, Triggered, StopJoins, StopReturns,
     StopToken, StopLeaves, StillOpen, TypeOK, FlagsOK, PointsOK, DataOK,
     MainPoints, BackPoints, Syncing, Synced, ControlInv, HandoffInv, Held,
     Working, MustWait
<1>5. ASSUME BgStep PROVE HandoffInv'
  BY <1>5 DEF BgStep, BgInit, BgTop, BgEmpty, BgWaitForHandles, BgCheckSync,
     BgWaitForSync, BgLock, AddHandlesToWaitSet, CollectReadyHandles,
     BgWaitReturns, BgWaitFails, BgCheck, BgMark,
     BgSend, BgWaitForWork, BgFini, BgFail, StillToWait, HasToken,
     TimeoutExpires, Signalled, TypeOK, FlagsOK, PointsOK, DataOK,
     MainPoints, BackPoints, Syncing, Synced, ControlInv, HandoffInv, Held,
     Working, MustWait
<1>6. ASSUME FilterEnd PROVE HandoffInv'
  BY <1>6 DEF FilterEnd, TypeOK, FlagsOK, PointsOK, DataOK, MainPoints,
     BackPoints, Syncing, Synced, ControlInv, HandoffInv, Held, Working,
     MustWait
<1>7. ASSUME DoWork PROVE HandoffInv'
  BY <1>7 DEF DoWork, TypeOK, FlagsOK, PointsOK, DataOK, MainPoints,
     BackPoints, Syncing, Synced, ControlInv, HandoffInv, Held, Working,
     MustWait
<1>8. ASSUME OtherNodeExecutes PROVE HandoffInv'
  BY <1>8 DEF OtherNodeExecutes, TypeOK, FlagsOK, PointsOK, DataOK,
     MainPoints, BackPoints, Syncing, Synced, ControlInv, HandoffInv, Held,
     Working, MustWait
<1>9. ASSUME NEW h \in Handles, Collect(h) PROVE HandoffInv'
  BY <1>9 DEF Collect, TypeOK, FlagsOK, PointsOK, DataOK, MainPoints,
     BackPoints, Syncing, Synced, ControlInv, HandoffInv, Held, Working,
     MustWait
<1>10. CASE UNCHANGED vars
  BY <1>10 DEF vars, TypeOK, FlagsOK, PointsOK, DataOK, MainPoints,
     BackPoints, Syncing, Synced, ControlInv, HandoffInv, Held, Working,
     MustWait
<1> QED
  BY <1>1, <1>2, <1>3, <1>4, <1>5, <1>6, <1>7, <1>8, <1>9, <1>10 DEF Next

\* Unless other nodes share OBSOLETE_HANDLES or the node is started inside a callback,
\* a ready handle keeps its wrapper: nothing is collected while callbacks run.
LEMMA ReadyStep ==
  ASSUME TypeOK, TypeOK', ControlInv, AliveInv, ThreadInv, HandoffInv, ReadyInv,
         SpinWithin = {}, ~OtherNodes, [Next]_vars
  PROVE  ReadyInv'
<1>1. ASSUME UserStep PROVE ReadyInv'
  BY <1>1 DEF UserStep, Create, Destroy, FilterBegin, Spin, SpinOnce, StopIdle, Stop,
     TypeOK, FlagsOK, PointsOK, DataOK,
     MainPoints, Syncing, Synced, ControlInv, AliveInv, WaitSetAlive, ThreadInv,
     HandoffInv, Held, Working, ReadyInv, ReadyWrappersAlive, Executing
<1>2. ASSUME SyncStep PROVE ReadyInv'
  BY <1>2 DEF SyncStep, SyncLocked, SyncPost, Created, Released, Start, WaitOnce,
     AddHandlesToWaitSet, CollectReadyHandles, WaitTokens, KeepWrapper, LockFree,
     TypeOK, FlagsOK, PointsOK, DataOK,
     MainPoints, Syncing, Synced, ControlInv, AliveInv, WaitSetAlive, ThreadInv,
     HandoffInv, Held, Working, ReadyInv, ReadyWrappersAlive, Executing
<1>3. ASSUME ExecuteStep PROVE ReadyInv'
  BY <1>3 DEF ExecuteStep, TakeReady, Dispatch, CallbackReturns, CallbackThrows,
     ExecuteEnds, ClearWork, NotifyWork,
     TypeOK, FlagsOK, PointsOK, DataOK,
     MainPoints, Syncing, Synced, ControlInv, AliveInv, WaitSetAlive, ThreadInv,
     HandoffInv, Held, Working, ReadyInv, ReadyWrappersAlive, Executing
<1>4. ASSUME StopStep PROVE ReadyInv'
  BY <1>4 DEF StopStep, StopWakes, StopTriggers, Triggered, StopJoins, StopReturns,
     StopToken, StopLeaves, StillOpen,
     TypeOK, FlagsOK, PointsOK, DataOK,
     MainPoints, Syncing, Synced, ControlInv, AliveInv, WaitSetAlive, ThreadInv,
     HandoffInv, Held, Working, ReadyInv, ReadyWrappersAlive, Executing
<1>5. ASSUME BgStep PROVE ReadyInv'
  BY <1>5 DEF BgStep, BgInit, BgTop, BgEmpty, BgWaitForHandles, BgCheckSync,
     BgWaitForSync, BgLock, AddHandlesToWaitSet, CollectReadyHandles,
     BgWaitReturns, BgWaitFails, BgCheck, BgMark, BgSend, BgWaitForWork, BgFini,
     BgFail, StillToWait, HasToken, TimeoutExpires, Signalled,
     TypeOK, FlagsOK, PointsOK, DataOK,
     MainPoints, Syncing, Synced, ControlInv, AliveInv, WaitSetAlive, ThreadInv,
     HandoffInv, Held, Working, ReadyInv, ReadyWrappersAlive, Executing
<1>6. ASSUME FilterEnd PROVE ReadyInv'
  BY <1>6 DEF FilterEnd,
     TypeOK, FlagsOK, PointsOK, DataOK,
     MainPoints, Syncing, Synced, ControlInv, AliveInv, WaitSetAlive, ThreadInv,
     HandoffInv, Held, Working, ReadyInv, ReadyWrappersAlive, Executing
<1>7. ASSUME DoWork PROVE ReadyInv'
  BY <1>7 DEF DoWork,
     TypeOK, FlagsOK, PointsOK, DataOK,
     MainPoints, Syncing, Synced, ControlInv, AliveInv, WaitSetAlive, ThreadInv,
     HandoffInv, Held, Working, ReadyInv, ReadyWrappersAlive, Executing
<1>8. ASSUME OtherNodeExecutes PROVE ReadyInv'
  BY <1>8 DEF OtherNodeExecutes,
     TypeOK, FlagsOK, PointsOK, DataOK,
     MainPoints, Syncing, Synced, ControlInv, AliveInv, WaitSetAlive, ThreadInv,
     HandoffInv, Held, Working, ReadyInv, ReadyWrappersAlive, Executing
<1>9. ASSUME NEW h \in Handles, Collect(h) PROVE ReadyInv'
  BY <1>9 DEF Collect,
     TypeOK, FlagsOK, PointsOK, DataOK,
     MainPoints, Syncing, Synced, ControlInv, AliveInv, WaitSetAlive, ThreadInv,
     HandoffInv, Held, Working, ReadyInv, ReadyWrappersAlive, Executing
<1>10. CASE UNCHANGED vars
  BY <1>10 DEF vars,
     TypeOK, FlagsOK, PointsOK, DataOK,
     MainPoints, Syncing, Synced, ControlInv, AliveInv, WaitSetAlive, ThreadInv,
     HandoffInv, Held, Working, ReadyInv, ReadyWrappersAlive, Executing
<1> QED
  BY <1>1, <1>2, <1>3, <1>4, <1>5, <1>6, <1>7, <1>8, <1>9, <1>10 DEF Next

-----------------------------------------------------------------------------
(* The inductive invariant and what it implies.                            *)

\* IInv holds in every reachable state.
THEOREM Invariance == Spec => []IInv
<1>1. Init => IInv
  BY DEF Init, IInv, ControlInv, AliveInv, WakeupInv, ThreadInv, HandoffInv, ReadyInv,
         Syncing, Synced, WaitSetAlive, NoLostWakeup, MustWait, Working,
         NeverWaitsOnNothing, ReadyWrappersAlive, Executing
<1>2. TypeOK /\ TypeOK' /\ IInv /\ [Next]_vars => IInv'
  BY ControlStep, AliveStep, WakeupStep, ThreadStep, HandoffStep, ReadyStep DEF IInv
<1> QED
  BY <1>1, <1>2, TypeCorrect, PTL DEF Spec

\* No released handle is ever in the wait set rcl_wait works on.
THEOREM WaitSetIsAlive == Spec => []WaitSetAlive
<1>1. IInv => WaitSetAlive
  BY DEF IInv, AliveInv
<1> QED
  BY <1>1, Invariance, PTL

\* The background thread never sleeps without someone bound to wake it.
THEOREM WakeupsAreNotLost == Spec => []NoLostWakeup
<1>1. IInv => NoLostWakeup
  BY DEF IInv, WakeupInv
<1> QED
  BY <1>1, Invariance, PTL

\* If user code does not start a node inside the loop nested in Stop, rcl_wait is
\* never entered with nothing but the interrupt guard.
THEOREM WaitsOnSomething ==
  ASSUME "close" \notin SpinWithin
  PROVE  Spec => []NeverWaitsOnNothing
<1>1. IInv => NeverWaitsOnNothing
  BY DEF IInv, ThreadInv
<1> QED
  BY <1>1, Invariance, PTL

\* Under the same condition a background thread always has an open uv_async_t.
THEOREM AsyncStaysOpen ==
  ASSUME "close" \notin SpinWithin
  PROVE  Spec => []AsyncOpen
<1>1. IInv => AsyncOpen
  BY DEF IInv, ThreadInv, ControlInv, AsyncOpen
<1> QED
  BY <1>1, Invariance, PTL

\* If user code does not start a node inside its callbacks, the background thread
\* is out of rcl_wait while the main thread executes ready handles.
THEOREM WorkExcludesWait ==
  ASSUME SpinWithin = {}
  PROVE  Spec => []WaitExcludesWork
<1>1. IInv => WaitExcludesWork
  BY DEF IInv, HandoffInv, Held, WaitExcludesWork
<1> QED
  BY <1>1, Invariance, PTL

\* If in addition no other node of the process executes callbacks, every ready handle
\* still has its wrapper, even when its entity was destroyed meanwhile.
THEOREM ReadyHandlesLive ==
  ASSUME SpinWithin = {}, ~OtherNodes
  PROVE  Spec => []ReadyWrappersAlive
<1>1. IInv => ReadyWrappersAlive
  BY DEF IInv, ReadyInv
<1> QED
  BY <1>1, Invariance, PTL
=============================================================================
