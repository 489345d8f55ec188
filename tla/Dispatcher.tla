------------------------------- MODULE Dispatcher -------------------------------
(***************************************************************************)
(* One connection of the web runtime: lib/runtime/dispatcher.js, from its  *)
(* first frame to the release of the last ROS entity made for it.          *)
(*                                                                         *)
(* Frames arrive on the connection; what the ROS side answers (a promise   *)
(* of an action client, the callback of a service client) comes at any     *)
(* later time or never.  Microtasks run before the next event, so a        *)
(* promise settling and what awaits it are one step; the callbacks of      *)
(* setTimeout and setImmediate are steps of their own.                     *)
(*                                                                         *)
(* A frame is named by the request it makes: a goal, a cancel or a call,   *)
(* sent at most once.  The identifiers the peer chooses are drawn from Ids *)
(* and may come again.                                                     *)
(***************************************************************************)
EXTENDS Naturals, FiniteSets

CONSTANTS
  Goals,     \* send_goal frames
  Cancels,   \* cancel frames
  Calls,     \* call frames
  Ids,       \* values of the id field of goals and subscriptions
  Actions,   \* names of exposed action capabilities
  Services,  \* names of exposed call capabilities
  Topics,    \* names of exposed publish capabilities
  Unexposed, \* a name that is in no capability map
  None       \* no entry in a map

ASSUME DispatcherAssumption ==
  /\ None \notin Actions \cup Goals \cup Services
  /\ Unexposed \notin Actions \cup Services \cup Topics \cup {None}
  /\ Goals \cap Cancels = {} /\ Cancels \cap Calls = {} /\ Calls \cap Goals = {}

VARIABLES
  closed,         \* state.closed
  expired,        \* state.expired
  timer,          \* state.cleanupTimer is armed
  sweeping,       \* the setImmediate of cleanup has not run
  client,         \* an action client: none, live (in actionClients), dying, destroyed
  goal,           \* what a goal has come to: new, sending, watching, finished
  goalId,         \* the id of a goal
  goalName,       \* its capability
  pendingGoals,   \* id -> capability of a goal being sent
  goals,          \* id -> goal being watched
  cancel,         \* of a cancel frame: new, waiting, done
  cancelOf,       \* the goal it is about
  pendingCancels, \* cancel frames whose token is in pendingCancels
  said,           \* what the peer was told of a goal: nothing, error, ok, result
  call,           \* of a call frame: new, waiting, done
  callTo,         \* its capability
  clients,        \* capabilities with a service client
  publishers,     \* capabilities with a publisher
  subscriptions,  \* ids with a subscription in the map
  subscribed      \* id -> subscriptions the node holds for it

goalVars == <<goal, goalId, goalName, said>>
cancelVars == <<cancel, cancelOf>>
tables == <<pendingGoals, goals, pendingCancels>>
releaseVars == <<client, timer>>
closeVars == <<closed, expired, sweeping>>
topicVars == <<publishers, subscriptions, subscribed>>
callVars == <<call, callTo, clients>>
vars == <<closeVars, releaseVars, goalVars, tables, cancelVars, callVars, topicVars>>

Init ==
  /\ closed = FALSE /\ expired = FALSE /\ timer = FALSE /\ sweeping = FALSE
  /\ client = [n \in Actions |-> "none"]
  /\ goal = [g \in Goals |-> "new"]
  /\ goalId = [g \in Goals |-> None]
  /\ goalName = [g \in Goals |-> None]
  /\ pendingGoals = [i \in Ids |-> None]
  /\ goals = [i \in Ids |-> None]
  /\ cancel = [c \in Cancels |-> "new"]
  /\ cancelOf = [c \in Cancels |-> None]
  /\ pendingCancels = {}
  /\ said = [g \in Goals |-> "nothing"]
  /\ call = [k \in Calls |-> "new"]
  /\ callTo = [k \in Calls |-> None]
  /\ clients = {} /\ publishers = {} /\ subscriptions = {}
  /\ subscribed = [i \in Ids |-> 0]

(***************************************************************************)
(* Releasing action clients.                                               *)
(***************************************************************************)
Live == {n \in Actions : client[n] = "live"}

\* Mutant: a cancel that waits for its answer is not counted.
BusyWithGoals(n) ==
  \/ \E i \in Ids : pendingGoals'[i] = n
  \/ \E i \in Ids : goals'[i] # None /\ goalName[goals'[i]] = n

\* Something waits for the action client of capability n, after the step.
Busy(n) ==
  \/ \E i \in Ids : pendingGoals'[i] = n
  \/ \E c \in pendingCancels' : goalName[cancelOf[c]] = n
  \/ \E i \in Ids : goals'[i] # None /\ goalName[goals'[i]] = n

\* _releaseActionClientIfIdle for each of the capabilities in names: the client
\* leaves the map now and is destroyed by a setImmediate; the last one to leave
\* takes the timer with it.
ReleaseIdle(names) ==
  LET gone == IF closed THEN {n \in names \cap Live : ~Busy(n)} ELSE {}
  IN  /\ client' = [n \in Actions |-> IF n \in gone THEN "dying" ELSE client[n]]
      /\ timer' = (timer /\ (gone = {} \/ Live # gone))

\* The setImmediate of a release.
DestroyClient(n) ==
  /\ client[n] = "dying"
  /\ client' = [client EXCEPT ![n] = "destroyed"]
  /\ UNCHANGED <<timer, closeVars, goalVars, tables, cancelVars, callVars, topicVars>>

\* The promises of an action client settle while it exists.
Exists(n) == client[n] \in {"live", "dying"}

(***************************************************************************)
(* Goals.                                                                  *)
(***************************************************************************)
IdInUse(i) == pendingGoals[i] # None \/ goals[i] # None

\* Mutant: an early return without an answer.
RefusedSilently(g) ==
  /\ goal' = [goal EXCEPT ![g] = "finished"]
  /\ UNCHANGED said

\* The frame is answered with an error before anything is done for it.
Refused(g) ==
  /\ goal' = [goal EXCEPT ![g] = "finished"]
  /\ said' = [said EXCEPT ![g] = "error"]

\* actionClients.get(name), or a new one.
WithClient(n) ==
  client' = [client EXCEPT ![n] = IF client[n] = "none" THEN "live" ELSE client[n]]

\* _handleActionSendGoal: not exposed, an id in use, no server, a request that
\* cannot be sent, or one that is under way.
SendGoal(g, i, n) ==
  /\ ~closed
  /\ goal[g] = "new"
  /\ goalId' = [goalId EXCEPT ![g] = i]
  /\ \/ /\ n \notin Actions \/ IdInUse(i)
        /\ Refused(g)
        /\ UNCHANGED <<goalName, client, pendingGoals>>
     \/ /\ n \in Actions /\ ~IdInUse(i)
        /\ WithClient(n)
        /\ goalName' = [goalName EXCEPT ![g] = n]
        /\ \/ /\ Refused(g)
              /\ UNCHANGED pendingGoals
           \/ /\ pendingGoals' = [pendingGoals EXCEPT ![i] = n]
              /\ goal' = [goal EXCEPT ![g] = "sending"]
              /\ UNCHANGED said
  /\ UNCHANGED <<timer, closeVars, goals, pendingCancels, cancelVars, callVars, topicVars>>

\* _finalizeActionGoal: the goal leaves both maps and the peer is told.
Finalize(g, words) ==
  /\ goal' = [goal EXCEPT ![g] = "finished"]
  /\ pendingGoals' = [pendingGoals EXCEPT ![goalId[g]] = None]
  /\ goals' = [goals EXCEPT ![goalId[g]] = None]
  /\ said' = [said EXCEPT ![g] = IF closed THEN @ ELSE words]
  /\ UNCHANGED pendingCancels
  /\ ReleaseIdle({goalName[g]})

\* The goal response comes after the grace period: nobody watches the goal.
TooLate(g) == expired

\* sendGoal's promise is rejected, or tells that the server refused the goal, or
\* the connection is long gone.
GoalRefused(g) ==
  /\ goal[g] = "sending"
  /\ Exists(goalName[g])
  /\ Finalize(g, "error")
  /\ UNCHANGED <<closeVars, goalId, goalName, cancelVars, callVars, topicVars>>

\* _handleActionGoalResponse for an accepted goal, up to the await of its result.
GoalAccepted(g) ==
  /\ goal[g] = "sending"
  /\ Exists(goalName[g])
  /\ \/ /\ TooLate(g)
        /\ Finalize(g, "nothing")
     \/ /\ ~TooLate(g)
        /\ pendingGoals' = [pendingGoals EXCEPT ![goalId[g]] = None]
        /\ goals' = [goals EXCEPT ![goalId[g]] = g]
        /\ goal' = [goal EXCEPT ![g] = "watching"]
        /\ said' = [said EXCEPT ![g] = IF closed THEN @ ELSE "ok"]
        /\ UNCHANGED <<pendingCancels, client, timer>>
  /\ UNCHANGED <<closeVars, goalId, goalName, cancelVars, callVars, topicVars>>

\* The rest of _watchActionResult: the result, or the error that stands for it.
ResultArrives(g) ==
  /\ goal[g] = "watching"
  /\ Exists(goalName[g])
  /\ Finalize(g, "result")
  /\ UNCHANGED <<closeVars, goalId, goalName, cancelVars, callVars, topicVars>>

(***************************************************************************)
(* Cancels.                                                                *)
(***************************************************************************)
\* The goal of id i was accepted and has not ended.
Known(i) == goals[i] # None

\* _handleActionCancel for the goal known by id i, if there is one.
CancelGoal(c, i) ==
  /\ ~closed
  /\ cancel[c] = "new"
  /\ \/ /\ ~Known(i)
        /\ cancel' = [cancel EXCEPT ![c] = "done"]
        /\ UNCHANGED <<cancelOf, pendingCancels>>
     \/ /\ Known(i)
        /\ cancel' = [cancel EXCEPT ![c] = "waiting"]
        /\ cancelOf' = [cancelOf EXCEPT ![c] = goals[i]]
        /\ pendingCancels' = pendingCancels \cup {c}
  /\ UNCHANGED <<closeVars, releaseVars, goalVars, pendingGoals, goals, callVars, topicVars>>

\* The rest of _watchActionCancel, and _finalizeActionCancel.
CancelAnswered(c) ==
  /\ cancel[c] = "waiting"
  /\ Exists(goalName[cancelOf[c]])
  /\ cancel' = [cancel EXCEPT ![c] = "done"]
  /\ pendingCancels' = pendingCancels \ {c}
  /\ UNCHANGED <<pendingGoals, goals>>
  /\ ReleaseIdle({goalName[cancelOf[c]]})
  /\ UNCHANGED <<closeVars, goalVars, cancelOf, callVars, topicVars>>

(***************************************************************************)
(* Calls and topics.                                                       *)
(***************************************************************************)
\* _handleCall: not exposed, not sent (the client stays), or waiting.
CallService(k, s) ==
  /\ ~closed
  /\ call[k] = "new"
  /\ \/ /\ s \notin Services
        /\ call' = [call EXCEPT ![k] = "done"]
        /\ UNCHANGED <<callTo, clients>>
     \/ /\ s \in Services
        /\ clients' = clients \cup {s}
        /\ call' \in {[call EXCEPT ![k] = w] : w \in {"waiting", "done"}}
        /\ callTo' = [callTo EXCEPT ![k] = s]
  /\ UNCHANGED <<closeVars, releaseVars, goalVars, tables, cancelVars, topicVars>>

\* The callback of sendRequest; a destroyed client calls none.
CallAnswered(k) ==
  /\ call[k] = "waiting"
  /\ callTo[k] \in clients
  /\ call' = [call EXCEPT ![k] = "done"]
  /\ UNCHANGED <<callTo, clients>>
  /\ UNCHANGED <<closeVars, releaseVars, goalVars, tables, cancelVars, topicVars>>

\* _handlePublish for an exposed topic.
Publish(t) ==
  /\ ~closed
  /\ publishers' = publishers \cup {t}
  /\ UNCHANGED <<subscriptions, subscribed>>
  /\ UNCHANGED <<closeVars, releaseVars, goalVars, tables, cancelVars, callVars>>

\* _handleSubscribe for an exposed topic and an id that has no subscription.
Subscribe(i) ==
  /\ ~closed
  /\ i \notin subscriptions
  /\ subscriptions' = subscriptions \cup {i}
  /\ subscribed' = [subscribed EXCEPT ![i] = @ + 1]
  /\ UNCHANGED publishers
  /\ UNCHANGED <<closeVars, releaseVars, goalVars, tables, cancelVars, callVars>>

\* _handleUnsubscribe for the id of a subscription.
Unsubscribe(i) ==
  /\ ~closed
  /\ i \in subscriptions
  /\ subscriptions' = subscriptions \ {i}
  /\ subscribed' = [subscribed EXCEPT ![i] = @ - 1]
  /\ UNCHANGED publishers
  /\ UNCHANGED <<closeVars, releaseVars, goalVars, tables, cancelVars, callVars>>

(***************************************************************************)
(* The end of the connection.                                              *)
(***************************************************************************)
\* cleanup, on 'close': everything but the action clients goes at once.
Close ==
  /\ ~closed
  /\ closed' = TRUE
  /\ sweeping' = TRUE
  /\ subscribed' = [i \in Ids |-> IF i \in subscriptions THEN subscribed[i] - 1
                                                         ELSE subscribed[i]]
  /\ subscriptions' = {} /\ publishers' = {} /\ clients' = {}
  /\ timer' = (Live # {})
  /\ UNCHANGED <<expired, client, goalVars, tables, cancelVars, call, callTo>>

\* Its setImmediate.
Sweep ==
  /\ sweeping
  /\ sweeping' = FALSE
  /\ UNCHANGED tables
  /\ UNCHANGED <<closed, expired>>
  /\ ReleaseIdle(Live)
  /\ UNCHANGED <<goalVars, cancelVars, callVars, topicVars>>

\* Mutant: cancels that nobody answered are kept.
CancelsKept ==
  /\ pendingGoals' = [i \in Ids |-> None]
  /\ goals' = [i \in Ids |-> None]
  /\ UNCHANGED pendingCancels

\* What the maps are after the grace period.
Forgotten ==
  /\ pendingGoals' = [i \in Ids |-> None]
  /\ pendingCancels' = {}
  /\ goals' = [i \in Ids |-> None]

\* The timeout of ACTION_DISCONNECT_GRACE_MS.  It is armed only while a client is
\* live, and every live client is released: the timer is cleared as well.
Expire ==
  /\ timer
  /\ expired' = TRUE
  /\ Forgotten
  /\ UNCHANGED <<closed, sweeping>>
  /\ ReleaseIdle(Live)
  /\ UNCHANGED <<goalVars, cancelVars, callVars, topicVars>>

(***************************************************************************)
(* The specification.                                                      *)
(***************************************************************************)
Frame ==
  \/ \E g \in Goals, i \in Ids, n \in Actions \cup {Unexposed} : SendGoal(g, i, n)
  \/ \E c \in Cancels, i \in Ids : CancelGoal(c, i)
  \/ \E k \in Calls, s \in Services \cup {Unexposed} : CallService(k, s)
  \/ \E t \in Topics : Publish(t)
  \/ \E i \in Ids : Subscribe(i) \/ Unsubscribe(i)

Answer ==
  \/ \E g \in Goals : GoalRefused(g) \/ GoalAccepted(g) \/ ResultArrives(g)
  \/ \E c \in Cancels : CancelAnswered(c)
  \/ \E k \in Calls : CallAnswered(k)

Teardown == Close \/ Sweep \/ Expire \/ \E n \in Actions : DestroyClient(n)

Next == Frame \/ Answer \/ Teardown

Spec == Init /\ [][Next]_vars

\* libuv runs immediates and, after the grace period, the timeout; neither the
\* peer nor the ROS graph owes an answer.
FairSpec ==
  /\ Spec
  /\ WF_vars(Sweep) /\ WF_vars(Expire)
  /\ \A n \in Actions : WF_vars(DestroyClient(n))

(***************************************************************************)
(* Properties.                                                             *)
(***************************************************************************)
Open(g) == goal[g] \in {"sending", "watching"}
Waiting(c) == cancel[c] = "waiting"

FlagsOK ==
  /\ closed \in BOOLEAN /\ expired \in BOOLEAN /\ timer \in BOOLEAN /\ sweeping \in BOOLEAN

GoalsOK ==
  /\ client \in [Actions -> {"none", "live", "dying", "destroyed"}]
  /\ goal \in [Goals -> {"new", "sending", "watching", "finished"}]
  /\ goalId \in [Goals -> Ids \cup {None}]
  /\ goalName \in [Goals -> Actions \cup {None}]
  /\ said \in [Goals -> {"nothing", "error", "ok", "result"}]
  /\ pendingGoals \in [Ids -> Actions \cup {None}]
  /\ goals \in [Ids -> Goals \cup {None}]
  /\ cancel \in [Cancels -> {"new", "waiting", "done"}]
  /\ cancelOf \in [Cancels -> Goals \cup {None}]
  /\ pendingCancels \subseteq Cancels

EntitiesOK ==
  /\ call \in [Calls -> {"new", "waiting", "done"}]
  /\ callTo \in [Calls -> Services \cup {None}]
  /\ clients \subseteq Services /\ publishers \subseteq Topics /\ subscriptions \subseteq Ids
  /\ subscribed \in [Ids -> Nat]

\* What is under way has an id and a capability; a cancel is about an accepted goal.
RequestsOK ==
  /\ \A g \in Goals : Open(g) => goalId[g] \in Ids /\ goalName[g] \in Actions
  /\ \A c \in Cancels : Waiting(c) =>
       /\ cancelOf[c] \in Goals
       /\ goal[cancelOf[c]] \in {"watching", "finished"}
       /\ goalName[cancelOf[c]] \in Actions

\* The variables have their types, and no handler meets a request whose id, capability
\* or goal is missing.
TypeOK == FlagsOK /\ GoalsOK /\ EntitiesOK /\ RequestsOK

\* The maps of a connection hold its open goals under their ids and its waiting
\* cancels; after the grace period they are empty and stay so.
TablesAgree ==
  /\ ~expired =>
       /\ \A i \in Ids : goals[i] # None => goal[goals[i]] = "watching" /\ goalId[goals[i]] = i
       /\ \A i \in Ids : pendingGoals[i] # None =>
            \E g \in Goals : goal[g] = "sending" /\ goalId[g] = i
       /\ \A g \in Goals : goal[g] = "sending" => pendingGoals[goalId[g]] = goalName[g]
       /\ \A g \in Goals : goal[g] = "watching" => goals[goalId[g]] = g
       /\ pendingCancels = {c \in Cancels : Waiting(c)}
  /\ expired =>
       /\ closed
       /\ \A i \in Ids : pendingGoals[i] = None /\ goals[i] = None
       /\ pendingCancels = {}

\* Feedback, results and cancels name a goal by the id its peer chose: two goals
\* under way never share one, also when ids come again.
OneGoalPerId ==
  \A g, h \in Goals : Open(g) /\ Open(h) /\ goalId[g] = goalId[h] => g = h

\* The action client of an open goal or a waiting cancel is neither destroyed nor on
\* its way out before the grace period is over, in whatever order the connection
\* closes, the answers come and the immediates run.
ClientsOutliveRequests ==
  ~expired =>
    /\ \A g \in Goals : Open(g) => client[goalName[g]] = "live"
    /\ \A c \in Cancels : Waiting(c) => client[goalName[cancelOf[c]]] = "live"

\* After the connection is closed the timer is armed as long as there is an action
\* client to release, and no longer: a connection is not kept in memory by its timer.
TimerGuardsClients == timer = (closed /\ Live # {})

\* The node holds for a connection just the subscriptions in its map, and nothing but
\* action clients when it is closed; a call waits only for a client that is kept.
NothingLeaks ==
  /\ \A i \in Ids : subscribed[i] = IF i \in subscriptions THEN 1 ELSE 0
  /\ closed => subscriptions \cup publishers \cup clients = {}
  /\ ~closed => \A k \in Calls : call[k] = "waiting" => callTo[k] \in clients

\* While the connection is open the peer knows how each of its goals stands: it was
\* told once that the goal runs, and once how it ended or that it did not start.
PeerKnows ==
  \A g \in Goals : ~closed =>
    said[g] \in CASE goal[g] = "finished" -> {"error", "result"}
                  [] goal[g] = "watching" -> {"ok"}
                  [] OTHER -> {"nothing"}

\* The inductive invariant.
IInv ==
  /\ TablesAgree
  /\ OneGoalPerId
  /\ ClientsOutliveRequests
  /\ TimerGuardsClients
  /\ closed \/ \A n \in Actions : client[n] \in {"none", "live"}
  /\ sweeping => closed

\* Once a connection is closed every action client made for it is destroyed, though
\* goals never end, servers never answer and cancels are never confirmed.
Released == closed ~> \A n \in Actions : client[n] \in {"none", "destroyed"}

================================================================================
