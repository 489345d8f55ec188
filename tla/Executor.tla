------------------------------ MODULE Executor ------------------------------
(***************************************************************************)
(* The spinning of one node: ShadowNode, Executor and HandleManager (C++)  *)
(* driven by lib/node.js.                                                  *)
(*                                                                         *)
(* Two threads.  The MAIN thread runs JavaScript and the libuv loop; its   *)
(* control point is mpc.  The BACKGROUND thread created by Start waits on  *)
(* the node's handles with rcl_wait and hands the ready ones to the main   *)
(* thread through uv_async_send; its control point is bpc.                 *)
(*                                                                         *)
(* One step is one access to shared state: an atomic, a critical section,  *)
(* a semaphore or condition variable operation, an rcl call.  The write    *)
(* section of SynchronizeHandles and the read section of                   *)
(* WaitForReadyCallbacks exclude each other: the write section is one      *)
(* step, taken only while the background thread is not at "wait", the one  *)
(* control point at which it keeps the read lock across steps.             *)
(***************************************************************************)
EXTENDS Naturals

CONSTANTS
  Handles,     \* the handles a node may own: subscriptions, timers, guards...
  Timers,      \* those owned by a Timer, which is not an Entity
  None,        \* no handle
  WaitMayFail, \* TRUE: rcl_wait and the wait set functions may fail
  OtherNodes,  \* TRUE: other nodes of the process execute their callbacks
  SpinWithin,  \* where user code may call spin(): {} only outside callbacks
  MaxTokens    \* bound on the tokens that pile up in the semaphores

ASSUME HandlesAssumption == Timers \subseteq Handles /\ None \notin Handles
ASSUME FlagsAssumption == {WaitMayFail, OtherNodes} \subseteq BOOLEAN
ASSUME SpinAssumption == SpinWithin \subseteq {"work", "once", "close"}
ASSUME BoundAssumption == MaxTokens \in Nat

VARIABLES
  \* JavaScript: lib/node.js and lib/entity.js
  mpc,           \* control point of the main thread
  cont, subject, \* what follows SynchronizeHandles, and for which handle
  frame,         \* the execution in progress: none, work (DoWork), once (spinOnce)
  closing,       \* Stop() runs the nested loop that closes its uv_async_t
  batch,         \* handles execute() still has to go through
  current,       \* the handle whose callback is running, or None
  spinning,      \* node._spinning
  registered,    \* handles of the entities in the node's arrays
  hstate,        \* free (no wrapper), live, released (wrapper, no rcl entity)
  obsolete,      \* OBSOLETE_HANDLES of lib/entity.js
  \* HandleManager
  tracked,       \* the handle vectors
  nonempty,      \* sum_ > 0
  isSync,        \* is_synchronizing_
  syncSem, waitSem, \* sync_handle_sem_ and wait_handle_sem_
  ready,         \* ready_handles_
  \* Executor
  running, threadStarted, workPending,
  async,         \* async_: null, open, or closing
  asyncPending,  \* uv_async_send called, DoWork not run yet
  guard,         \* interrupt_guard_condition_ has been triggered
  forever,       \* time_out_ < 0: the last spin(-1), whose wait has no timeout
  exc,           \* g_exception_ptr is set
  bpc,           \* control point of the background thread
  waitSet        \* handles in the background thread's wait set

callVars == <<cont, subject>>
frameVars == <<frame, closing, batch, current>>
nodeVars == <<spinning, registered, hstate, obsolete>>
semVars == <<syncSem, waitSem>>
handleVars == <<tracked, nonempty, isSync>>
runVars == <<running, threadStarted, async, guard, forever>>
bgVars == <<bpc, waitSet>>
vars == <<mpc, callVars, frameVars, nodeVars, semVars, handleVars, ready,
          runVars, workPending, asyncPending, exc, bgVars>>

MainPoints == {"js", "sync", "post", "postwake", "done", "take", "batch",
               "workend", "notify", "wake", "trigger", "join", "filter"}
BackPoints == {"none", "init", "top", "empty", "sem", "running", "syncsem",
               "lock", "wait", "check", "mark", "send", "cv", "asleep",
               "fini", "fail", "done"}

FlagsOK ==
  /\ closing \in BOOLEAN /\ spinning \in BOOLEAN
  /\ nonempty \in BOOLEAN /\ isSync \in BOOLEAN
  /\ running \in BOOLEAN /\ threadStarted \in BOOLEAN
  /\ workPending \in BOOLEAN /\ asyncPending \in BOOLEAN
  /\ guard \in BOOLEAN /\ exc \in BOOLEAN /\ forever \in BOOLEAN

PointsOK ==
  /\ mpc \in MainPoints
  /\ cont \in {"none", "create", "destroy", "start", "once"}
  /\ frame \in {"none", "work", "once"}
  /\ async \in {"null", "open", "closing"}
  /\ bpc \in BackPoints

DataOK ==
  /\ subject \in Handles \cup {None} /\ current \in Handles \cup {None}
  /\ batch \subseteq Handles /\ registered \subseteq Handles
  /\ hstate \in [Handles -> {"free", "live", "released"}]
  /\ obsolete \subseteq Handles /\ tracked \subseteq Handles
  /\ ready \subseteq Handles /\ waitSet \subseteq Handles
  /\ syncSem \in Nat /\ waitSem \in Nat
  /\ cont = "destroy" => subject \in Handles

\* The type invariant: every variable keeps its type.  The semaphores of the
\* HandleManager are natural numbers: nobody takes a token that is not there.
TypeOK == FlagsOK /\ PointsOK /\ DataOK

Init ==
  /\ mpc = "js" /\ cont = "none" /\ subject = None
  /\ frame = "none" /\ closing = FALSE /\ batch = {} /\ current = None
  /\ spinning = FALSE /\ registered = {} /\ obsolete = {}
  /\ hstate = [h \in Handles |-> "free"]
  /\ tracked = {} /\ nonempty = FALSE /\ isSync = FALSE
  /\ syncSem = 0 /\ waitSem = 0 /\ ready = {}
  /\ running = FALSE /\ threadStarted = FALSE /\ workPending = FALSE
  /\ async = "null" /\ asyncPending = FALSE /\ guard = FALSE /\ exc = FALSE
  /\ forever = FALSE
  /\ bpc = "none" /\ waitSet = {}

-----------------------------------------------------------------------------
(* User code on the main thread, inside a callback of the node or outside.  *)

\* The libuv loop runs handlers: no execution of this node is on the stack.
AtLoop == mpc = "js" /\ frame = "none"

\* The user code that runs now stands in a callback, or in the nested loop of Stop.
Within(place) == IF place = "close" THEN closing ELSE frame = place /\ ~closing

\* SynchronizeHandles begins: is_synchronizing_ is set before the write lock is
\* requested.  MaxTokens bounds the tokens that pile up in the semaphores.
BeginSync(what, h) ==
  /\ syncSem < MaxTokens /\ waitSem < MaxTokens
  /\ isSync' = TRUE
  /\ cont' = what
  /\ subject' = h
  /\ mpc' = "sync"
  /\ UNCHANGED <<frameVars, spinning, obsolete, semVars, tracked, nonempty,
                 ready, runVars, workPending, asyncPending, exc, bgVars>>

\* createSubscription, createTimer...: the rcl entity, the array, syncHandles.
Create(h) ==
  /\ mpc = "js"
  /\ hstate[h] = "free"
  /\ hstate' = [hstate EXCEPT ![h] = "live"]
  /\ registered' = registered \cup {h}
  /\ BeginSync("create", h)

\* _destroyEntity: out of the array, syncHandles; the release follows the sync.
Destroy(h) ==
  /\ mpc = "js"
  /\ h \in registered
  /\ registered' = registered \ {h}
  /\ BeginSync("destroy", h)
  /\ UNCHANGED hstate

\* Node.spin: throws when spinning; StartRunning synchronises, then starts.
Spin ==
  /\ mpc = "js"
  /\ ~spinning
  /\ \/ frame = "none" /\ ~closing
     \/ \E place \in SpinWithin : Within(place)
  /\ BeginSync("start", None)
  /\ UNCHANGED <<registered, hstate>>

\* Node.spinOnce: throws when spinning.  Executions nest one level deep here.
SpinOnce ==
  /\ AtLoop
  /\ ~spinning
  /\ ~closing
  /\ BeginSync("once", None)
  /\ UNCHANGED <<registered, hstate>>

\* The read lock of sync_handles_rwlock_ is not held.
LockIgnored == TRUE
LockFree == bpc # "wait"

\* The write section: the vectors are rebuilt from the arrays, sum_ exchanged.
SyncLocked ==
  /\ mpc = "sync"
  /\ LockFree
  /\ tracked' = registered
  /\ nonempty' = (registered # {})
  /\ mpc' = IF ~nonempty /\ registered # {} THEN "postwake" ELSE "post"
  /\ UNCHANGED <<callVars, frameVars, nodeVars, semVars, isSync, ready, runVars,
                 workPending, asyncPending, exc, bgVars>>

\* A token wakes WaitForHandles when sum_ leaves zero.
WaitTokens == IF mpc = "postwake" THEN waitSem + 1 ELSE waitSem

\* is_synchronizing_ is cleared and the tokens are posted.
SyncPost ==
  /\ mpc \in {"post", "postwake"}
  /\ isSync' = FALSE
  /\ syncSem' = syncSem + 1
  /\ waitSem' = WaitTokens
  /\ mpc' = "done"
  /\ UNCHANGED <<callVars, frameVars, nodeVars, tracked, nonempty, ready, runVars,
                 workPending, asyncPending, exc, bgVars>>

\* Back from syncHandles in createX.
Created ==
  /\ mpc = "done" /\ cont = "create"
  /\ mpc' = "js" /\ cont' = "none" /\ subject' = None
  /\ UNCHANGED <<frameVars, nodeVars, semVars, handleVars, ready, runVars,
                 workPending, asyncPending, exc, bgVars>>

\* Entity._destroy registers the wrapper in OBSOLETE_HANDLES; Timer has no _destroy.
KeepNothing(h) == {}
KeepWrapper(h) == {h} \ Timers

\* Entity._destroy or handle.release(): the rcl entity is finalised.
Released ==
  /\ mpc = "done" /\ cont = "destroy"
  /\ hstate' = [hstate EXCEPT ![subject] = "released"]
  /\ obsolete' = obsolete \cup KeepWrapper(subject)
  /\ mpc' = "js" /\ cont' = "none" /\ subject' = None
  /\ UNCHANGED <<frameVars, spinning, registered, semVars, handleVars, ready,
                 runVars, workPending, asyncPending, exc, bgVars>>

\* Executor::Start: nothing when a thread exists; otherwise a new async, and a
\* background thread.  A failure is rolled back and thrown: spinning stays FALSE.
Start ==
  /\ mpc = "done" /\ cont = "start"
  /\ mpc' = "js" /\ cont' = "none" /\ subject' = None
  /\ \/ /\ threadStarted
        /\ spinning' = TRUE
        /\ UNCHANGED <<runVars, workPending, asyncPending, bpc>>
     \/ /\ ~threadStarted
        /\ spinning' = TRUE
        /\ running' = TRUE /\ threadStarted' = TRUE
        /\ workPending' = FALSE
        /\ async' = "open" /\ asyncPending' = FALSE
        /\ guard' = FALSE
        /\ forever' \in BOOLEAN
        /\ bpc' = "init"
     \/ /\ ~threadStarted /\ WaitMayFail
        /\ running' = FALSE /\ async' = "null" /\ workPending' = FALSE
        /\ asyncPending' = FALSE
        /\ forever' \in BOOLEAN
        /\ UNCHANGED <<spinning, threadStarted, guard, bpc>>
  /\ UNCHANGED <<frameVars, registered, hstate, obsolete, semVars, handleVars,
                 ready, exc, waitSet>>

\* The wait set is filled from the vectors.
AddHandlesToWaitSet == tracked

\* Of a wait set some members are ready; handles that were not taken yet are kept.
CollectReadyHandles(some) == IF ready # {} THEN ready ELSE some

\* Executor::SpinOnce: WaitForReadyCallbacks on the main thread.  rcl_wait
\* reports any of the handles; earlier ready handles are kept; with none ready
\* nothing is executed, and a failing wait throws.
WaitOnce ==
  /\ mpc = "done" /\ cont = "once"
  /\ cont' = "none" /\ subject' = None
  /\ \E some \in SUBSET AddHandlesToWaitSet :
        /\ ready' = CollectReadyHandles(some)
        /\ \/ mpc' = IF ready' # {} THEN "take" ELSE "js"
           \/ mpc' = "js" /\ WaitMayFail /\ ready' = ready
  /\ frame' = IF mpc' = "take" THEN "once" ELSE "none"
  /\ UNCHANGED <<closing, batch, current, nodeVars, semVars, handleVars, runVars,
                 workPending, asyncPending, exc, bgVars>>

\* Subscription.setContentFilter: a change of the rcl subscription, which takes
\* time and no lock.
FilterBegin(h) ==
  /\ mpc = "js"
  /\ h \in registered
  /\ mpc' = "filter"
  /\ UNCHANGED <<callVars, frameVars, nodeVars, semVars, handleVars, ready, runVars,
                 workPending, asyncPending, exc, bgVars>>

FilterEnd ==
  /\ mpc = "filter"
  /\ mpc' = "js"
  /\ UNCHANGED <<callVars, frameVars, nodeVars, semVars, handleVars, ready, runVars,
                 workPending, asyncPending, exc, bgVars>>

-----------------------------------------------------------------------------
(* Executing the ready handles on the main thread.                         *)

\* libuv runs DoWork for a pending uv_async_send, unless the async is closing.
DoWork ==
  /\ AtLoop
  /\ async = "open" /\ asyncPending
  /\ asyncPending' = FALSE
  /\ mpc' = "take" /\ frame' = "work"
  /\ UNCHANGED <<callVars, closing, batch, current, nodeVars, semVars, handleVars,
                 ready, runVars, workPending, exc, bgVars>>

\* Where an execution ends: DoWork still has its guard to run.
ExecutionEnds == mpc' = IF frame = "work" THEN "workend" ELSE "js"

\* ExecuteReadyHandles: a recorded exception is thrown and the ready handles
\* stay; otherwise they are taken and wrapped for execute().
TakeReady ==
  /\ mpc = "take"
  /\ IF exc
     THEN /\ exc' = FALSE
          /\ ExecutionEnds
          /\ frame' = IF frame = "work" THEN "work" ELSE "none"
          /\ UNCHANGED <<batch, ready>>
     ELSE /\ batch' = ready
          /\ ready' = {}
          /\ mpc' = "batch"
          /\ UNCHANGED <<exc, frame>>
  /\ UNCHANGED <<callVars, closing, current, nodeVars, semVars, handleVars, runVars,
                 workPending, asyncPending, bgVars>>

\* Node.execute goes through the batch; destroyed entities are skipped.
Dispatch(h) ==
  /\ mpc = "batch"
  /\ h \in batch
  /\ batch' = batch \ {h}
  /\ IF h \in registered THEN current' = h /\ mpc' = "js"
                         ELSE UNCHANGED <<current, mpc>>
  /\ UNCHANGED <<callVars, frame, closing, nodeVars, semVars, handleVars, ready,
                 runVars, workPending, asyncPending, exc, bgVars>>

\* The callback returns.
CallbackReturns ==
  /\ mpc = "js" /\ current # None /\ ~closing
  /\ current' = None
  /\ mpc' = "batch"
  /\ UNCHANGED <<callVars, frame, closing, batch, nodeVars, semVars, handleVars,
                 ready, runVars, workPending, asyncPending, exc, bgVars>>

\* The callback throws: the rest of the batch is skipped, _gcHandles too.
CallbackThrows ==
  /\ mpc = "js" /\ current # None /\ ~closing
  /\ current' = None
  /\ batch' = {}
  /\ ExecutionEnds
  /\ frame' = IF frame = "work" THEN "work" ELSE "none"
  /\ UNCHANGED <<callVars, closing, nodeVars, semVars, handleVars, ready, runVars,
                 workPending, asyncPending, exc, bgVars>>

\* execute() ends with Entity._gcHandles().
ExecuteEnds ==
  /\ mpc = "batch" /\ batch = {}
  /\ obsolete' = {}
  /\ ExecutionEnds
  /\ frame' = IF frame = "work" THEN "work" ELSE "none"
  /\ UNCHANGED <<callVars, closing, batch, current, spinning, registered, hstate,
                 semVars, handleVars, ready, runVars, workPending, asyncPending,
                 exc, bgVars>>

\* The guard of DoWork clears work_pending_ under the mutex...
ClearWork ==
  /\ mpc = "workend"
  /\ workPending' = FALSE
  /\ mpc' = "notify"
  /\ UNCHANGED <<callVars, frameVars, nodeVars, semVars, handleVars, ready, runVars,
                 asyncPending, exc, bgVars>>

WakeNobody == bpc' = bpc

\* The condition variable wakes the thread that sleeps on it.
WakeSleeper == bpc' = IF bpc = "asleep" THEN "cv" ELSE bpc

\* ...and notifies.
NotifyWork ==
  /\ mpc = "notify"
  /\ WakeSleeper
  /\ mpc' = "js" /\ frame' = "none"
  /\ UNCHANGED <<callVars, closing, batch, current, nodeVars, semVars, handleVars,
                 ready, runVars, workPending, asyncPending, exc, waitSet>>

\* The end of execute() of another node clears the shared OBSOLETE_HANDLES.
OtherNodeExecutes ==
  /\ OtherNodes
  /\ mpc = "js" /\ (frame = "none" \/ closing)
  /\ obsolete # {}
  /\ obsolete' = {}
  /\ UNCHANGED <<mpc, callVars, frameVars, spinning, registered, hstate, semVars,
                 handleVars, ready, runVars, workPending, asyncPending, exc, bgVars>>

\* V8 collects the wrapper of a released handle that nothing references.
Collect(h) ==
  /\ mpc = "js"
  /\ hstate[h] = "released"
  /\ h \notin obsolete \cup batch \cup {current}
  /\ hstate' = [hstate EXCEPT ![h] = "free"]
  /\ UNCHANGED <<mpc, callVars, frameVars, spinning, registered, obsolete, semVars,
                 handleVars, ready, runVars, workPending, asyncPending, exc, bgVars>>

-----------------------------------------------------------------------------
(* Stopping.                                                               *)

\* Executor::Stop without a thread does nothing, then StopRunning clears the vectors.
StopIdle ==
  /\ mpc = "js"
  /\ ~threadStarted
  /\ tracked' = {}
  /\ spinning' = FALSE
  /\ UNCHANGED <<mpc, callVars, frameVars, registered, hstate, obsolete, semVars,
                 nonempty, isSync, ready, runVars, workPending, asyncPending, exc,
                 bgVars>>

\* Executor::Stop: running_ is cleared under the mutex.  Stop is not called from
\* the nested loop of another Stop here.
Stop ==
  /\ mpc = "js"
  /\ threadStarted
  /\ ~closing
  /\ running' = FALSE
  /\ mpc' = "wake"
  /\ UNCHANGED <<callVars, frameVars, nodeVars, semVars, handleVars, ready,
                 threadStarted, async, guard, forever, workPending, asyncPending, exc,
                 bgVars>>

\* StopWaitingHandles posts a token for a thread without handles.
NoStopToken == waitSem
StopToken == waitSem + 1

\* notify_all, StopWaitingHandles.
StopWakes ==
  /\ mpc = "wake"
  /\ WakeSleeper
  /\ waitSem' = StopToken
  /\ mpc' = "trigger"
  /\ UNCHANGED <<callVars, frameVars, nodeVars, syncSem, handleVars, ready, runVars,
                 workPending, asyncPending, exc, waitSet>>

\* The async stays open until the thread is joined.
StillOpen == async

\* The guard condition makes rcl_wait return.
NotTriggered == guard
Triggered == TRUE

\* rcl_trigger_guard_condition; when it fails Stop throws and the thread
\* stays (MaxTokens bounds the tokens that such calls leave).
StopTriggers ==
  /\ mpc = "trigger"
  /\ async' = StillOpen
  /\ \/ guard' = Triggered /\ mpc' = "join"
     \/ WaitMayFail /\ waitSem < MaxTokens /\ mpc' = "js" /\ UNCHANGED guard
  /\ UNCHANGED <<callVars, frameVars, nodeVars, semVars, handleVars, ready, running,
                 threadStarted, forever, workPending, asyncPending, exc, bgVars>>

\* The handles collected by the run that ended are not executed by the next one.
StopLeaves == {}

\* The thread has ended: the ready handles are dropped, the async is closed and
\* the loop runs until it is.
StopJoins ==
  /\ mpc = "join"
  /\ bpc = "done"
  /\ bpc' = "none" /\ waitSet' = {}
  /\ threadStarted' = FALSE
  /\ ready' = StopLeaves
  /\ async' = "closing"
  /\ asyncPending' = FALSE
  /\ closing' = TRUE
  /\ mpc' = "js"
  /\ UNCHANGED <<callVars, frame, batch, current, nodeVars, semVars, handleVars,
                 running, guard, forever, workPending, exc>>

\* The nested loop is over: async_ is forgotten, the vectors are cleared.
StopReturns ==
  /\ mpc = "js" /\ closing
  /\ closing' = FALSE
  /\ async' = "null"
  /\ tracked' = {}
  /\ spinning' = FALSE
  /\ UNCHANGED <<mpc, callVars, frame, batch, current, registered, hstate, obsolete,
                 semVars, nonempty, isSync, ready, running, threadStarted, guard,
                 forever, workPending, asyncPending, exc, bgVars>>

-----------------------------------------------------------------------------
(* The background thread.                                                  *)

\* A step of Run that only moves its control point.
BgMoves(from, to) ==
  /\ bpc = from
  /\ bpc' = to
  /\ UNCHANGED <<mpc, callVars, frameVars, nodeVars, handleVars, ready, runVars,
                 workPending, exc, waitSet>>

\* rcl_wait_set_init.
BgInit ==
  /\ UNCHANGED <<semVars, asyncPending>>
  /\ \/ BgMoves("init", "top")
     \/ WaitMayFail /\ BgMoves("init", "fail")

\* while (running_): on to WaitForReadyCallbacks, or out of the loop.
BgTop ==
  /\ BgMoves("top", IF running THEN "empty" ELSE "fini")
  /\ UNCHANGED <<semVars, asyncPending>>

\* while (running_ && sum() == 0) WaitForHandles(): a token may be an old one.
BgEmpty ==
  /\ BgMoves("empty", IF running /\ ~nonempty THEN "sem" ELSE "running")
  /\ UNCHANGED <<semVars, asyncPending>>

\* uv_sem_wait blocks until there is a token.
HasToken == waitSem > 0

BgWaitForHandles ==
  /\ HasToken
  /\ waitSem' = waitSem - 1
  /\ BgMoves("sem", "empty")
  /\ UNCHANGED <<syncSem, asyncPending>>

\* if (!running_) return; if (is_synchronizing()) WaitForSynchronizing().
BgCheckSync ==
  /\ BgMoves("running", IF ~running THEN "check"
                        ELSE IF isSync THEN "syncsem" ELSE "lock")
  /\ UNCHANGED <<semVars, asyncPending>>

BgWaitForSync ==
  /\ syncSem > 0
  /\ syncSem' = syncSem - 1
  /\ BgMoves("syncsem", "lock")
  /\ UNCHANGED <<waitSem, asyncPending>>

\* The last entity may disappear between the semaphore and the lock.
StillRunning == running
StillToWait == running /\ nonempty

\* The read section up to rcl_wait.
BgLock ==
  /\ bpc = "lock"
  /\ IF StillToWait THEN bpc' = "wait" /\ waitSet' = AddHandlesToWaitSet
                    ELSE bpc' = "check" /\ UNCHANGED waitSet
  /\ UNCHANGED <<mpc, callVars, frameVars, nodeVars, semVars, handleVars, ready,
                 runVars, workPending, asyncPending, exc>>

\* With a timeout rcl_wait ends by itself.
TimeoutLost == FALSE
TimeoutExpires == ~forever

\* rcl_wait returns: handles are ready, the guard was triggered, or the timeout
\* expired.  Handles not taken yet are kept; else the ready ones are collected.
BgWaitReturns ==
  /\ bpc = "wait"
  /\ bpc' = "check"
  /\ \E some \in SUBSET waitSet :
        /\ some # {} \/ guard \/ TimeoutExpires
        /\ ready' = CollectReadyHandles(some)
  /\ guard' = FALSE
  /\ waitSet' = {}
  /\ UNCHANGED <<mpc, callVars, frameVars, nodeVars, semVars, handleVars, running,
                 threadStarted, async, forever, workPending, asyncPending, exc>>

\* rcl_wait or a wait set function fails: Run throws.
BgWaitFails ==
  /\ WaitMayFail
  /\ bpc = "wait"
  /\ bpc' = "fail"
  /\ waitSet' = {}
  /\ UNCHANGED <<mpc, callVars, frameVars, nodeVars, semVars, handleVars, ready,
                 runVars, workPending, asyncPending, exc>>

\* if (!running_) break; ready handles are handed over, else the loop goes on.
BgCheck ==
  /\ BgMoves("check", IF ~running THEN "fini"
                      ELSE IF async = "open" /\ ready # {} THEN "mark" ELSE "top")
  /\ UNCHANGED <<semVars, asyncPending>>

\* work_pending_ is set under the mutex...
BgMark ==
  /\ bpc = "mark"
  /\ bpc' = "send"
  /\ workPending' = TRUE
  /\ UNCHANGED <<mpc, callVars, frameVars, nodeVars, semVars, handleVars, ready,
                 runVars, asyncPending, exc, waitSet>>

\* The signal for the main thread.
SignalSkipped == asyncPending
Signalled == TRUE

\* ...and uv_async_send called, which coalesces with an earlier call.
BgSend ==
  /\ BgMoves("send", "cv")
  /\ asyncPending' = Signalled
  /\ UNCHANGED semVars

\* The thread waits until the main thread is done or Stop is called.
NeverWaits == FALSE
MustWait == workPending /\ running

\* work_done_cv_.wait: the predicate is evaluated under the mutex.
BgWaitForWork ==
  /\ BgMoves("cv", IF MustWait THEN "asleep" ELSE "top")
  /\ UNCHANGED <<semVars, asyncPending>>

\* rcl_wait_set_fini, which may fail too.
BgFini ==
  /\ UNCHANGED <<semVars, asyncPending>>
  /\ \/ BgMoves("fini", "done")
     \/ WaitMayFail /\ BgMoves("fini", "fail")

\* The error is recorded for the main thread and the thread ends.
BgFail ==
  /\ bpc = "fail"
  /\ bpc' = "done"
  /\ exc' = TRUE
  /\ asyncPending' = TRUE
  /\ UNCHANGED <<mpc, callVars, frameVars, nodeVars, semVars, handleVars, ready,
                 runVars, workPending, waitSet>>

-----------------------------------------------------------------------------
UserStep ==
  \/ \E h \in Handles : Create(h) \/ Destroy(h) \/ FilterBegin(h)
  \/ Spin \/ SpinOnce \/ StopIdle \/ Stop

SyncStep == SyncLocked \/ SyncPost \/ Created \/ Released \/ Start \/ WaitOnce

ExecuteStep ==
  \/ TakeReady \/ (\E h \in Handles : Dispatch(h))
  \/ CallbackReturns \/ CallbackThrows \/ ExecuteEnds \/ ClearWork \/ NotifyWork

StopStep == StopWakes \/ StopTriggers \/ StopJoins \/ StopReturns

BgStep ==
  \/ BgInit \/ BgTop \/ BgEmpty \/ BgWaitForHandles \/ BgCheckSync \/ BgWaitForSync
  \/ BgLock \/ BgWaitReturns \/ BgWaitFails \/ BgCheck \/ BgMark \/ BgSend
  \/ BgWaitForWork \/ BgFini \/ BgFail

Next ==
  \/ UserStep \/ SyncStep \/ FilterEnd \/ DoWork \/ ExecuteStep \/ StopStep \/ BgStep
  \/ OtherNodeExecutes \/ (\E h \in Handles : Collect(h))

Spec == Init /\ [][Next]_vars

-----------------------------------------------------------------------------
(* Safety.                                                                 *)

\* An entity is finalised only when no wait set holds it: rcl_wait never runs on
\* a subscription, timer or guard that destroyX has released.
WaitSetAlive == bpc = "wait" => \A h \in waitSet : hstate[h] = "live"

\* DoWork executes ready handles.
Working == frame = "work" /\ mpc # "notify"

\* While the main thread executes the ready handles the background thread is not
\* in rcl_wait: callbacks may change subscriptions (executor.h, work_done_mutex_).
WaitExcludesWork == Working => bpc # "wait"

\* The background thread never sleeps without someone bound to wake it: on the
\* condition variable, the two semaphores, or rcl_wait during Stop.
NoLostWakeup ==
  /\ bpc = "asleep" =>
       IF MustWait THEN asyncPending \/ (frame = "work" /\ mpc # "notify")
                   ELSE mpc \in {"notify", "wake"}
  /\ bpc = "sem" /\ waitSem = 0 =>
       \/ running /\ (nonempty => mpc = "postwake")
       \/ mpc = "wake"
  /\ bpc = "syncsem" /\ syncSem = 0 => isSync
  /\ bpc = "wait" /\ mpc = "join" => guard

\* rcl_wait is never entered with nothing but the interrupt guard, where creating
\* an entity would block behind an empty wait set.
NeverWaitsOnNothing == bpc = "wait" => waitSet # {}

\* A ready handle still has its JavaScript wrapper when DoWork turns the raw
\* pointers into objects, even if its entity was destroyed meanwhile.
ReadyWrappersAlive == \A h \in ready \ Timers : hstate[h] # "free"

\* A running background thread has its own open uv_async_t to signal through.
AsyncOpen == bpc \notin {"none", "done"} => async = "open"

-----------------------------------------------------------------------------
(* Fairness and liveness.                                                  *)

\* The steps the background thread takes by itself, rcl_wait apart.
BgRuns ==
  \/ BgInit \/ BgTop \/ BgEmpty \/ BgWaitForHandles \/ BgCheckSync \/ BgWaitForSync
  \/ BgLock \/ BgCheck \/ BgMark \/ BgSend \/ BgWaitForWork \/ BgFini \/ BgFail

\* The OS runs the thread; rcl_wait returns once its timeout has expired or the
\* guard is triggered, while no handle has to become ready; callbacks and nested
\* loops end; libuv comes back to a pending async, and the writer that waits for
\* the lock gets it when it is free again and again.
Fairness ==
  /\ WF_vars(BgRuns)
  /\ WF_vars(BgWaitReturns /\ (guard \/ TimeoutExpires))
  /\ SF_vars(SyncLocked)
  /\ WF_vars(SyncPost) /\ WF_vars(Created) /\ WF_vars(Released)
  /\ WF_vars(Start) /\ WF_vars(WaitOnce) /\ WF_vars(FilterEnd)
  /\ WF_vars(TakeReady) /\ WF_vars(ExecuteEnds)
  /\ \A h \in Handles : WF_vars(Dispatch(h))
  /\ SF_vars(CallbackReturns) /\ WF_vars(ClearWork) /\ WF_vars(NotifyWork)
  /\ SF_vars(DoWork)
  /\ WF_vars(StopWakes) /\ WF_vars(StopTriggers) /\ WF_vars(StopJoins)
  /\ SF_vars(StopReturns)

FairSpec == Spec /\ Fairness

\* Stop always comes back, even from an infinite wait: the join cannot hang.
StopComesBack == (mpc = "wake") ~> (mpc = "js")

\* Creating or destroying an entity never blocks the main thread for good, unless
\* the node was spun with an infinite timeout and nothing becomes ready.
SyncComesBack == (mpc = "sync" /\ ~forever) ~> (mpc = "js")

\* What the background thread collected is executed or discarded by Stop.
ReadyIsHandled == (ready # {} /\ ~exc) ~> (ready = {} \/ exc)

-----------------------------------------------------------------------------
(* The inductive invariant behind the safety properties.                   *)

Syncing == mpc \in {"sync", "post", "postwake", "done"}
Synced == mpc \in {"post", "postwake", "done"}

\* The control points of the two threads agree with the flags they set.
ControlInv ==
  /\ cont # "none" <=> Syncing
  /\ bpc = "none" <=> ~threadStarted
  /\ running => threadStarted
  /\ mpc \in {"wake", "trigger", "join"} => threadStarted /\ ~running
  /\ cont = "once" => frame = "none"
  /\ mpc \in {"workend", "notify"} => frame = "work"

\* Only live handles are registered, tracked or waited on, and the one that is
\* being destroyed has left the arrays, then the vectors and the wait set.
AliveInv ==
  /\ \A h \in registered \cup tracked : hstate[h] = "live"
  /\ WaitSetAlive
  /\ cont = "destroy" => subject \notin registered
  /\ Synced /\ cont = "destroy" =>
        subject \notin tracked /\ (bpc = "wait" => subject \notin waitSet)

\* Everyone who sleeps has someone bound to wake it.
WakeupInv ==
  /\ NoLostWakeup
  /\ bpc = "cv" => (MustWait => asyncPending \/ Working)

\* Unless user code starts the node inside Stop, a thread has its async and sum_
\* tells whether the vectors are empty.
ThreadInv ==
  /\ cont = "start" => ~closing
  /\ closing => ~threadStarted
  /\ threadStarted => async = "open"
  /\ threadStarted \/ Synced => (nonempty <=> tracked # {})
  /\ NeverWaitsOnNothing

\* The background thread is where it cannot reach rcl_wait before the main
\* thread has cleared work_pending_.
Held ==
  \/ bpc \in {"cv", "asleep"} /\ workPending
  \/ bpc \in {"cv", "asleep", "top", "fini", "fail"} /\ ~running
  \/ bpc \in {"done", "none"}

\* Unless user code starts the node inside a callback, a signalled or working
\* main thread holds the background thread.
HandoffInv ==
  /\ cont = "start" => frame = "none"
  /\ bpc = "send" => workPending
  /\ asyncPending => Held
  /\ Working => Held /\ (asyncPending => bpc \in {"done", "none"})

\* execute() goes through its batch.
Executing == frame # "none" /\ mpc \notin {"take", "workend", "notify"}

\* Unless user code starts the node inside a callback or another node clears the
\* obsolete handles, nothing becomes ready while callbacks run, so that those they
\* destroy are not ready when execute() forgets the obsolete handles at its end.
ReadyInv ==
  /\ threadStarted => spinning
  /\ frame = "once" \/ cont = "once" => ~threadStarted
  /\ mpc \in {"take", "batch"} \/ current # None => frame # "none"
  /\ mpc \in {"take", "batch", "workend", "notify"} => current = None
  /\ Executing => ready = {}
  /\ ReadyWrappersAlive
  /\ \A h \in ready \ Timers : hstate[h] = "released" => h \in obsolete

\* The inductive invariant: the two threads' control points agree with the flags
\* (ControlInv), finalised entities are in no array, vector or wait set (AliveInv),
\* sleepers have a waker (WakeupInv); and where the node is not started from inside
\* Stop or a callback, the run owns its async, its hand-off and its ready handles.
IInv ==
  /\ ControlInv
  /\ AliveInv
  /\ WakeupInv
  /\ "close" \notin SpinWithin => ThreadInv
  /\ SpinWithin = {} => HandoffInv
  /\ SpinWithin = {} /\ ~OtherNodes => ReadyInv
=============================================================================
