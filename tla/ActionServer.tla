---------------------------- MODULE ActionServer ----------------------------
(***************************************************************************)
(* One action server: lib/action/server.js, server_goal_handle.js and      *)
(* deferred.js, on top of rcl's goal state machine.                        *)
(*                                                                         *)
(* All of it runs on the JavaScript thread.  A step is a stretch of code   *)
(* between two awaits: a request taken by node.execute(), a call that user *)
(* code makes on a goal handle, a promise continuation.  User callbacks    *)
(* may be asynchronous, so anything may happen before one settles.         *)
(*                                                                         *)
(* A member of Handles is a ServerGoalHandle object.  A goal UUID may be   *)
(* used again once its first goal has expired, with a new handle.          *)
(***************************************************************************)
EXTENDS Naturals

CONSTANTS
  Goals,          \* goal UUIDs
  Handles,        \* ServerGoalHandle objects: as many goals can be accepted
  Headers,        \* result requests
  Cancels,        \* cancel requests
  None,           \* no handle
  MaxRuns,        \* bound on the callbacks that run for one goal at a time
  MayDefer,       \* TRUE: handleAcceptedCallback may leave execute() for later
  RclMayFail      \* TRUE: actionPublishStatus and actionNotifyGoalDone may throw

ASSUME NoneAssumption == None \notin Handles \cup Goals
ASSUME FlagsAssumption == {MayDefer, RclMayFail} \subseteq BOOLEAN
ASSUME RunsAssumption == MaxRuns \in Nat \ {0}

Terminal == {"succeeded", "canceled", "aborted"}
Active == {"accepted", "executing", "canceling"}
States == {"none"} \cup Active \cup Terminal

VARIABLES
  goalOf,     \* the UUID of a handle, None before it is created
  state,      \* rcl's state of the goal
  known,      \* handles whose goals rcl's action server holds
  published,  \* the status of each goal that subscribers have seen last
  due,        \* ended goals that rcl's expire timer accounts for
  tracked,    \* _goalHandles
  gone,       \* handles with _destroyed
  runs,       \* execute callbacks that have not settled
  result,     \* the status in the result of _deferred: none while pending
  asked,      \* the handle whose _deferred a result request waits for
  reply,      \* what a result request was answered: none, unknown, lost, a status
  cancel,     \* state of a cancel request: new, asking, sent, failed, thrown
  todo,       \* UUIDs that _executeCancelRequest still has to go through
  asking,     \* the handle its cancelCallback was called with
  agreed,     \* goalsCanceling
  destroyed   \* the server's isDestroyed()

goalVars == <<state, published, due>>
tableVars == <<goalOf, known, tracked, gone, destroyed>>
resultVars == <<asked, reply>>
cancelVars == <<cancel, todo, asking, agreed>>
vars == <<goalVars, tableVars, runs, result, resultVars, cancelVars>>

GoalsOK ==
  /\ goalOf \in [Handles -> Goals \cup {None}]
  /\ state \in [Handles -> States]
  /\ published \in [Handles -> States]
  /\ destroyed \in BOOLEAN
  /\ known \subseteq Handles /\ gone \subseteq Handles /\ due \subseteq Handles
  /\ tracked \in [Goals -> Handles \cup {None}]

RequestsOK ==
  /\ runs \in [Handles -> 0..MaxRuns]
  /\ result \in [Handles -> {"none", "unknown"} \cup Terminal]
  /\ asked \in [Headers -> Handles \cup {None}]
  /\ reply \in [Headers -> {"none", "unknown", "lost"} \cup Terminal]
  /\ cancel \in [Cancels -> {"new", "asking", "sent", "failed", "thrown"}]
  /\ todo \in [Cancels -> SUBSET Goals]
  /\ asking \in [Cancels -> Handles \cup {None}]
  /\ agreed \in [Cancels -> SUBSET Handles]
  /\ \A c \in Cancels : cancel[c] = "asking" => asking[c] \in Handles

\* The type invariant: every variable keeps its type; goal states are those of rcl
\* and a cancel request that awaits a callback knows the handle it asks about.
TypeOK == GoalsOK /\ RequestsOK

Init ==
  /\ goalOf = [h \in Handles |-> None] /\ state = [h \in Handles |-> "none"]
  /\ published = [h \in Handles |-> "none"] /\ due = {}
  /\ known = {} /\ gone = {} /\ destroyed = FALSE
  /\ tracked = [g \in Goals |-> None]
  /\ runs = [h \in Handles |-> 0] /\ result = [h \in Handles |-> "none"]
  /\ asked = [r \in Headers |-> None] /\ reply = [r \in Headers |-> "none"]
  /\ cancel = [c \in Cancels |-> "new"] /\ todo = [c \in Cancels |-> {}]
  /\ asking = [c \in Cancels |-> None] /\ agreed = [c \in Cancels |-> {}]

-----------------------------------------------------------------------------
(* The state of a goal.                                                    *)

\* rcl's transition table; any other event is an error.
Allowed(old, new) ==
  \/ old = "accepted" /\ new \in {"executing", "canceling"}
  \/ old = "executing" /\ new \in {"canceling", "succeeded", "aborted"}
  \/ old = "canceling" /\ new \in Terminal

\* The isActive getter, and the status getter before and after an update.
IsActive(h) == h \notin gone /\ state[h] \in Active
StatusAfter(h) == IF h \in gone THEN "unknown" ELSE state'[h]

\* actionPublishStatus publishes the states of the goals that rcl holds.
StatusArray(held) ==
  [i \in Handles |-> IF i \in held THEN state'[i] ELSE published[i]]

\* How far _updateState gets: all calls succeed, or publishing throws, or the
\* notification that the goal is done throws.
Outcomes == IF RclMayFail THEN {"ok", "publish", "notify"} ELSE {"ok"}

\* actionNotifyGoalDone: rcl sets its timer for all ended goals.
Notified == {h \in known : state'[h] \in Terminal}

\* _updateState on a handle that is not destroyed: the state, the status of all
\* goals of the server, and for an ended goal the expire timer.
UpdateState(h, new, outcome) ==
  /\ Allowed(state[h], new)
  /\ state' = [state EXCEPT ![h] = new]
  /\ published' = IF outcome = "publish" THEN published ELSE StatusArray(known)
  /\ due' = IF new \in Terminal /\ outcome = "ok" THEN Notified ELSE due

\* succeed(), abort() or canceled() called by user code; an error or a destroyed
\* handle changes nothing.
UserEnds(h, new, outcome) ==
  /\ h \notin gone
  /\ new \in Terminal
  /\ UpdateState(h, new, outcome)
  /\ UNCHANGED <<tableVars, runs, result, resultVars, cancelVars>>

-----------------------------------------------------------------------------
(* Goal requests and execution.                                            *)

GoalExists(g) == \E h \in known : goalOf[h] = g

\* execute(): nothing for a destroyed, executing or ended goal; otherwise EXECUTE
\* unless it is being canceled, and the callback is called.  An exception of
\* _updateState leaves the goal executing without a callback.
Execute(h, outcome) ==
  /\ IsActive(h)
  /\ state[h] # "executing"
  /\ IF state[h] = "canceling"
     THEN UNCHANGED goalVars
     ELSE UpdateState(h, "executing", outcome)
  /\ runs[h] < MaxRuns
  /\ runs' = IF state[h] # "canceling" /\ outcome = "publish" THEN runs
             ELSE [runs EXCEPT ![h] = @ + 1]
  /\ UNCHANGED <<tableVars, result, resultVars, cancelVars>>

\* _executeGoalRequest for a goal that the user accepts, up to the call of
\* handleAcceptedCallback.  A rejected goal leaves no trace.
GoalRequest(g, h) ==
  /\ ~destroyed
  /\ ~GoalExists(g)
  /\ goalOf[h] = None
  /\ goalOf' = [goalOf EXCEPT ![h] = g]
  /\ known' = known \cup {h}
  /\ tracked' = [tracked EXCEPT ![g] = h]
  /\ UNCHANGED <<gone, destroyed, result, resultVars, cancelVars>>

\* handleAcceptedCallback keeps the handle for later.
AcceptDeferred(g, h) ==
  /\ MayDefer
  /\ GoalRequest(g, h)
  /\ state' = [state EXCEPT ![h] = "accepted"]
  /\ UNCHANGED <<published, due, runs>>

\* The default handleAcceptedCallback calls execute() at once.
AcceptExecute(g, h, outcome) ==
  /\ outcome # "notify"
  /\ GoalRequest(g, h)
  /\ state' = [state EXCEPT ![h] = "executing"]
  /\ published' = IF outcome = "publish" THEN published ELSE StatusArray(known')
  /\ runs' = IF outcome = "publish" THEN runs ELSE [runs EXCEPT ![h] = 1]
  /\ UNCHANGED due

\* _executeGoal after the callback has settled: a goal that is still active is
\* aborted, then the deferred result is set, unless it was.
LeftActive(h, outcome) == UNCHANGED goalVars
AbortedIfActive(h, outcome) ==
  IF IsActive(h) THEN UpdateState(h, "aborted", outcome) ELSE UNCHANGED goalVars

\* An exception of abort() skips setResult, and only the first setResult counts.
SetsResultOfAborted(h, outcome) == result[h] = "none" /\ IsActive(h) /\ outcome = "ok"
SetsResult(h, outcome) == result[h] = "none" /\ (IsActive(h) => outcome = "ok")

RunEnds(h, outcome) ==
  /\ runs[h] > 0
  /\ runs' = [runs EXCEPT ![h] = @ - 1]
  /\ AbortedIfActive(h, outcome)
  /\ result' = IF SetsResult(h, outcome) THEN [result EXCEPT ![h] = StatusAfter(h)]
               ELSE result
  /\ UNCHANGED <<tableVars, resultVars, cancelVars>>

-----------------------------------------------------------------------------
(* Result requests.                                                        *)

\* _executeGetResultRequest: an unknown goal is answered at once, another when
\* its deferred is settled.
ResultRequest(r, g) ==
  /\ ~destroyed
  /\ asked[r] = None /\ reply[r] = "none"
  /\ asked' = [asked EXCEPT ![r] = tracked[g]]
  /\ reply' = [reply EXCEPT ![r] = IF tracked[g] = None THEN "unknown" ELSE "none"]
  /\ UNCHANGED <<goalVars, tableVars, runs, result, cancelVars>>

\* The callback of the deferred sends the response; a destroyed server throws.
SendResult(r) ==
  /\ reply[r] = "none"
  /\ asked[r] # None
  /\ result[asked[r]] # "none"
  /\ reply' = [reply EXCEPT ![r] = IF destroyed THEN "lost" ELSE result[asked[r]]]
  /\ UNCHANGED <<goalVars, tableVars, runs, result, asked, cancelVars>>

-----------------------------------------------------------------------------
(* Cancel requests.                                                        *)

\* The loop of _executeCancelRequest from one await to the next: the callback is
\* called for the next tracked goal, or the response is sent.
CancelLoop(c, left, yes) ==
  LET next == {g \in left : tracked[g] # None} IN
  /\ agreed' = [agreed EXCEPT ![c] = yes]
  /\ \/ \E g \in next :
          /\ cancel' = [cancel EXCEPT ![c] = "asking"]
          /\ asking' = [asking EXCEPT ![c] = tracked[g]]
          /\ todo' = [todo EXCEPT ![c] = left \ {g}]
     \/ /\ next = {}
        /\ cancel' = [cancel EXCEPT ![c] = IF destroyed THEN "failed" ELSE "sent"]
        /\ asking' = [asking EXCEPT ![c] = None]
        /\ todo' = [todo EXCEPT ![c] = {}]

\* An exception leaves the request without a response.
CancelFails(c, how) ==
  /\ cancel' = [cancel EXCEPT ![c] = how]
  /\ asking' = [asking EXCEPT ![c] = None]
  /\ todo' = [todo EXCEPT ![c] = {}]
  /\ UNCHANGED agreed

\* rcl lists the requested goals that can be canceled.
CancelRequest(c, requested) ==
  /\ ~destroyed
  /\ cancel[c] = "new"
  /\ CancelLoop(c, {g \in requested : \E h \in known :
                      goalOf[h] = g /\ state[h] \in {"accepted", "executing"}}, {})
  /\ UNCHANGED <<goalVars, tableVars, runs, result, resultVars>>

\* cancelCallback answered REJECT.
CancelRejected(c) ==
  /\ cancel[c] = "asking"
  /\ CancelLoop(c, todo[c], agreed[c])
  /\ UNCHANGED <<goalVars, tableVars, runs, result, resultVars>>

\* cancelCallback answered ACCEPT: CANCEL_GOAL throws when the goal has been
\* canceled or has ended since, and does nothing when its handle is destroyed.
CancelAccepted(c, outcome) ==
  LET h == asking[c] IN
  /\ cancel[c] = "asking"
  /\ \/ /\ h \notin gone
        /\ UpdateState(h, "canceling", outcome)
        /\ IF outcome = "publish" THEN CancelFails(c, "failed")
           ELSE CancelLoop(c, todo[c], agreed[c] \cup {h})
     \/ /\ h \notin gone
        /\ ~Allowed(state[h], "canceling")
        /\ CancelFails(c, "failed")
        /\ UNCHANGED goalVars
     \/ /\ h \in gone
        /\ CancelLoop(c, todo[c], agreed[c] \cup {h})
        /\ UNCHANGED goalVars
  /\ UNCHANGED <<tableVars, runs, result, resultVars>>

\* cancelCallback threw.
CancelThrows(c) ==
  /\ cancel[c] = "asking"
  /\ CancelFails(c, "thrown")
  /\ UNCHANGED <<goalVars, tableVars, runs, result, resultVars>>

-----------------------------------------------------------------------------
(* Expiry and destruction.                                                 *)

StillTracked(expired) == tracked
Untracked(expired) == [g \in Goals |-> IF tracked[g] \in expired THEN None ELSE tracked[g]]

\* rcl's expire timer fires: some ended goals are past their resultTimeout and
\* are forgotten by rcl and by _executeExpiredGoals; the timer is set again.
Expire(expired) ==
  /\ ~destroyed
  /\ due # {}
  /\ expired # {}
  /\ expired \subseteq {h \in known : state[h] \in Terminal}
  /\ known' = known \ expired
  /\ tracked' = Untracked(expired)
  /\ due' = {h \in known' : state[h] \in Terminal}
  /\ UNCHANGED <<state, published, goalOf, gone, destroyed, runs, result, resultVars, cancelVars>>

HandlesGone == gone \cup {h \in Handles : \E g \in Goals : tracked[g] = h}

\* destroy(): the tracked handles are marked, then forgotten.
Destroy ==
  /\ ~destroyed
  /\ destroyed' = TRUE
  /\ gone' = HandlesGone
  /\ tracked' = [g \in Goals |-> None]
  /\ known' = {} /\ due' = {}
  /\ UNCHANGED <<state, published, goalOf, runs, result, resultVars, cancelVars>>

GoalStep ==
  \/ \E g \in Goals, h \in Handles :
       AcceptDeferred(g, h) \/ \E o \in Outcomes : AcceptExecute(g, h, o)
  \/ \E h \in Handles, o \in Outcomes : Execute(h, o) \/ RunEnds(h, o)
  \/ \E h \in Handles, new \in Terminal, o \in Outcomes : UserEnds(h, new, o)

ResultStep == \E r \in Headers : SendResult(r) \/ \E g \in Goals : ResultRequest(r, g)

CancelStep ==
  \E c \in Cancels :
    \/ \E g \in Goals : CancelRequest(c, {g})
    \/ CancelRequest(c, Goals)
    \/ CancelRejected(c)
    \/ \E o \in Outcomes : CancelAccepted(c, o)
    \/ CancelThrows(c)

ServerStep == Destroy \/ \E expired \in SUBSET Handles : Expire(expired)

Next == GoalStep \/ ResultStep \/ CancelStep \/ ServerStep

Spec == Init /\ [][Next]_vars

-----------------------------------------------------------------------------
(* Properties.                                                             *)

\* _goalHandles and rcl agree on the goals of the server: a result request finds
\* exactly the goals that a duplicate goal request would collide with.
TrackedIsKnown ==
  ~destroyed => \A g \in Goals, h \in Handles :
                  tracked[g] = h <=> h \in known /\ goalOf[h] = g

\* No two accepted goals of the server have the same UUID.
OneHandlePerGoal ==
  \A h, i \in known : goalOf[h] = goalOf[i] => h = i

\* Once the server is destroyed no goal changes its state, whatever user code
\* that still holds the handles does: "further updates to the handle will be
\* ignored" (server_goal_handle.js).
DestroyedIsFrozen ==
  [][destroyed => state' = state /\ published' = published]_vars

\* What clients have been told of results and of canceled goals.
told == [r \in Headers |-> IF reply[r] = "lost" THEN "none" ELSE reply[r]]
listed == [c \in Cancels |-> IF cancel[c] = "sent" THEN agreed[c] ELSE {}]

\* The client's view: lib/action/server.js implements GoalPromise.
Promise == INSTANCE GoalPromise WITH
  Goals <- Handles, phase <- state, reply <- told, about <- asked, listed <- listed

KeepsPromise == Promise!Spec

-----------------------------------------------------------------------------
(* The inductive invariant behind the safety properties.                   *)

\* The table, rcl and the handles: a goal that can still change its state is in
\* rcl's server and in the table, or its handle was destroyed.
TableInv ==
  /\ \A h \in Handles : goalOf[h] = None <=> state[h] = "none"
  /\ \A h \in known : goalOf[h] \in Goals /\ tracked[goalOf[h]] = h
  /\ \A g \in Goals, h \in Handles : tracked[g] = h => h \in known /\ goalOf[h] = g
  /\ destroyed => known = {}
  /\ ~destroyed => gone = {}
  /\ \A h \in Handles : state[h] \in Active => h \in known \cup gone

\* A result holds the state in which the goal ended.
ResultInv ==
  \A h \in Handles :
    /\ result[h] \in Terminal => result[h] = state[h]
    /\ result[h] = "unknown" => h \in gone
    /\ runs[h] > 0 => state[h] # "none"

\* The goals to be listed are being canceled or have ended.
CancelInv ==
  \A c \in Cancels : \A h \in agreed[c] :
    h \in gone \/ state[h] \in Terminal \cup {"canceling"}

\* What the table, the results and the cancel requests preserve together.
IInv == TableInv /\ ResultInv /\ CancelInv

-----------------------------------------------------------------------------
(* Liveness: user callbacks settle, promise continuations run and rcl's timer fires. *)

Fairness ==
  /\ \A h \in Handles : WF_vars(\E o \in Outcomes : RunEnds(h, o))
  /\ \A r \in Headers : WF_vars(SendResult(r))
  /\ \A c \in Cancels : WF_vars(\/ CancelRejected(c) \/ CancelThrows(c)
                                \/ \E o \in Outcomes : CancelAccepted(c, o))
  /\ WF_vars(\E expired \in SUBSET Handles : Expire(expired))

FairSpec == Spec /\ Fairness

\* A result request for a goal that is executed gets its answer, unless the
\* server is destroyed.
ResultArrives ==
  \A r \in Headers : (asked[r] # None) ~> (reply[r] # "none" \/ destroyed)

=============================================================================
