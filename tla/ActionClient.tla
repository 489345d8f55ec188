---------------------------- MODULE ActionClient ----------------------------
(***************************************************************************)
(* An action client: lib/action/client.js and client_goal_handle.js, with  *)
(* the part of Node.execute that feeds it.                                 *)
(*                                                                         *)
(* The server is GoalPromise, what lib/action/server.js is shown to        *)
(* implement: its goals are the goal requests of this client.  The network *)
(* delivers answers in any order, late, twice, or never; status messages   *)
(* overtake each other and the answers.                                    *)
(*                                                                         *)
(* The maps keyed by sequence number are one set, pending; those keyed by  *)
(* goal UUID are sets of goal requests in which a UUID occurs once.        *)
(***************************************************************************)
EXTENDS Naturals, FiniteSets

CONSTANTS
  Requests,   \* goal requests, by sequence number
  Results,    \* result requests
  Cancels,    \* cancel requests
  Uuids,      \* goal identifiers
  None,       \* no goal
  Optimized,  \* TRUE: enableFeedbackMsgOptimization, and the middleware can
  MaxStatus   \* bound on the status messages under way

ASSUME ClientAssumption ==
  /\ None \notin Requests \cup Uuids
  /\ Requests \cap Results = {} /\ Results \cap Cancels = {} /\ Cancels \cap Requests = {}
  /\ Optimized \in BOOLEAN
  /\ MaxStatus \in Nat \ {0}

VARIABLES
  \* the server: GoalPromise, and what its answers depend on
  phase, reply, about, listed,
  refused,   \* goal requests the server rejected
  expired,   \* goals the server has forgotten
  acked,     \* cancel requests the server answered
  statusNet, \* status messages under way
  \* the client
  goalId,    \* of each goal request; None before sendGoal
  wants,     \* goal requests with a feedback callback
  promise,   \* of each goal request: none, pending, accepted, rejected
  asked,     \* the goal a result request is about
  result,    \* its promise: none, pending, or the status it told
  target,    \* the goal a cancel request is about
  canceled,  \* its promise: none, pending, done
  pending,   \* _pendingGoalRequests, _pendingResultRequests, _pendingCancelRequests
  micro,     \* settled requests whose done callback has not run
  tracked,   \* _goalHandles
  listening, \* _feedbackCallbacks
  status,    \* ClientGoalHandle._status
  optimizing,\* _enableFeedbackMsgOptimization
  filter,    \* UUIDs in the content filter of the feedback subscription
  destroyed

Server == INSTANCE GoalPromise WITH Goals <- Requests, Headers <- Results

serverVars == <<phase, reply, about, listed, refused, expired, acked, statusNet>>
goalVars == <<goalId, wants, promise>>
resultVars == <<asked, result>>
cancelVars == <<target, canceled>>
filterVars == <<optimizing, filter>>
clientVars == <<goalVars, resultVars, cancelVars, pending, micro, tracked, listening,
                status, filterVars, destroyed>>
vars == <<serverVars, clientVars>>

Terminal == Server!Terminal
Phases == Server!Phases

ServerOK ==
  /\ phase \in [Requests -> Phases]
  /\ reply \in [Results -> {"none", "unknown"} \cup Terminal]
  /\ about \in [Results -> Requests \cup {None}]
  /\ listed \in [Cancels -> SUBSET Requests]
  /\ refused \subseteq Requests /\ expired \subseteq Requests /\ acked \subseteq Cancels
  /\ statusNet \subseteq [Requests -> Phases]

ClientOK ==
  /\ goalId \in [Requests -> Uuids \cup {None}] /\ wants \subseteq Requests
  /\ promise \in [Requests -> {"none", "pending", "accepted", "rejected"}]
  /\ asked \in [Results -> Requests \cup {None}]
  /\ result \in [Results -> {"none", "pending", "unknown"} \cup Terminal]
  /\ target \in [Cancels -> Requests \cup {None}]
  /\ canceled \in [Cancels -> {"none", "pending", "done"}]
  /\ pending \subseteq Requests \cup Results \cup Cancels
  /\ micro \subseteq Requests \cup Results \cup Cancels
  /\ tracked \subseteq Requests /\ listening \subseteq Requests
  /\ status \in [Requests -> Phases]
  /\ optimizing \in BOOLEAN /\ filter \subseteq Uuids \cup {None}
  /\ destroyed \in BOOLEAN

\* The type invariant: every variable keeps its type.
TypeOK == ServerOK /\ ClientOK

Init ==
  /\ Server!Init
  /\ refused = {} /\ expired = {} /\ acked = {} /\ statusNet = {}
  /\ goalId = [q \in Requests |-> None] /\ wants = {}
  /\ promise = [q \in Requests |-> "none"]
  /\ asked = [r \in Results |-> None] /\ result = [r \in Results |-> "none"]
  /\ target = [c \in Cancels |-> None] /\ canceled = [c \in Cancels |-> "none"]
  /\ pending = {} /\ micro = {} /\ tracked = {} /\ listening = {}
  /\ status = [q \in Requests |-> "none"]
  /\ optimizing = Optimized /\ filter = {}
  /\ destroyed = FALSE

-----------------------------------------------------------------------------
(* The server and the network.                                             *)

\* The goals a status message lists: those the server has not forgotten.
Array == [q \in Requests |-> IF q \in expired THEN "none" ELSE phase'[q]]

\* Every change is published; of the messages under way some may be lost.
Publish ==
  \E kept \in SUBSET statusNet :
    /\ Cardinality(kept) < MaxStatus
    /\ statusNet' = kept \cup {Array}

\* The requests for the same goal UUID.
Same(q) == {p \in Requests : goalId[p] = goalId[q]}

\* A goal the server knows.
Known(q) == phase[q] # "none" /\ q \notin expired

\* No UUID is accepted while the server knows it.
Accept(q) ==
  /\ promise[q] # "none" /\ phase[q] = "none" /\ q \notin refused
  /\ \A p \in Same(q) : ~Known(p)
  /\ Server!Move(q, "accepted")
  /\ Publish
  /\ UNCHANGED <<refused, expired, acked, clientVars>>

Refuse(q) ==
  /\ promise[q] # "none" /\ phase[q] = "none" /\ q \notin refused
  /\ refused' = refused \cup {q}
  /\ UNCHANGED <<phase, reply, about, listed, expired, acked, statusNet, clientVars>>

Advance(q) ==
  /\ phase[q] # "none"
  /\ \E new \in Phases : Server!Move(q, new)
  /\ Publish
  /\ UNCHANGED <<refused, expired, acked, clientVars>>

Expire(q) ==
  /\ phase[q] \in Terminal
  /\ expired' = expired \cup {q}
  /\ UNCHANGED <<phase, reply, about, listed, refused, acked, statusNet, clientVars>>

\* The server takes a result request, and answers it when the goal has ended.
TakeResultRequest(r) ==
  /\ asked[r] # None
  /\ IF Known(asked[r]) THEN Server!Ask(r, asked[r]) ELSE Server!TellUnknown(r)
  /\ UNCHANGED <<refused, expired, acked, statusNet, clientVars>>

AnswerResult(r) ==
  /\ Server!Tell(r)
  /\ UNCHANGED <<refused, expired, acked, statusNet, clientVars>>

\* The answer to a cancel request lists its goal or nothing.
AnswerCancel(c) ==
  /\ target[c] # None /\ c \notin acked
  /\ \E gs \in SUBSET {target[c]} : Server!Acknowledge(c, gs)
  /\ acked' = acked \cup {c}
  /\ IF phase' = phase THEN UNCHANGED statusNet ELSE Publish
  /\ UNCHANGED <<refused, expired, clientVars>>

-----------------------------------------------------------------------------
(* User code.                                                              *)

\* sendGoal: the callback is stored under the UUID, the request under its number.
SendGoal(q, u) ==
  /\ ~destroyed
  /\ promise[q] = "none"
  /\ goalId' = [goalId EXCEPT ![q] = u]
  /\ promise' = [promise EXCEPT ![q] = "pending"]
  /\ \/ /\ wants' = wants \cup {q}
        /\ listening' = {p \in listening : goalId[p] # u} \cup {q}
     \/ UNCHANGED <<wants, listening>>
  /\ pending' = pending \cup {q}
  /\ UNCHANGED <<serverVars, resultVars, cancelVars, micro, tracked, status,
                 filterVars, destroyed>>

\* The promise has given user code the handle.
HasHandle(q) == promise[q] = "accepted" /\ q \notin micro

\* A change of the content filter; when it fails the optimization is given up.
FilterBecomes(uuids) ==
  \/ optimizing /\ filter' = uuids /\ UNCHANGED optimizing
  \/ optimizing /\ filter' = {} /\ optimizing' = FALSE
  \/ ~optimizing /\ UNCHANGED filterVars

AddToFilter(q) == FilterBecomes(filter \cup {goalId[q]})
RemoveFromFilter(q) == FilterBecomes(filter \ {goalId[q]})

\* ClientGoalHandle.getResult
GetResult(r, q) ==
  /\ ~destroyed
  /\ result[r] = "none" /\ HasHandle(q)
  /\ asked' = [asked EXCEPT ![r] = q]
  /\ result' = [result EXCEPT ![r] = "pending"]
  /\ pending' = pending \cup {r}
  /\ UNCHANGED <<serverVars, goalVars, cancelVars, micro, tracked, listening, status,
                 filterVars, destroyed>>

\* ClientGoalHandle.cancelGoal
CancelGoal(c, q) ==
  /\ ~destroyed
  /\ canceled[c] = "none" /\ HasHandle(q)
  /\ target' = [target EXCEPT ![c] = q]
  /\ canceled' = [canceled EXCEPT ![c] = "pending"]
  /\ pending' = pending \cup {c}
  /\ RemoveFromFilter(q)
  /\ UNCHANGED <<serverVars, goalVars, resultVars, micro, tracked, listening, status,
                 destroyed>>

\* destroy() empties the maps; nothing settles the promises.
TablesEmptied == {}

Destroy ==
  /\ ~destroyed
  /\ destroyed' = TRUE
  /\ tracked' = {} /\ listening' = {} /\ pending' = TablesEmptied
  /\ optimizing' = FALSE
  /\ UNCHANGED <<serverVars, goalVars, resultVars, cancelVars, micro, status, filter>>

-----------------------------------------------------------------------------
(* Messages.  Node.execute takes at most one of each kind, in this order,   *)
(* before the done callbacks, which are microtasks, run.                    *)

\* The status of a new handle.
RunningStatus == "executing"
FirstStatus == "accepted"

\* An accepted goal whose UUID is in _goalHandles throws.
FreshUuid(q) == tracked \cap Same(q) = {}

\* A response whose request is still in the table.
GoalAccepted(q) ==
  /\ ~destroyed /\ q \in pending /\ micro = {}
  /\ phase[q] # "none"
  /\ FreshUuid(q)
  /\ tracked' = tracked \cup {q}
  /\ status' = [status EXCEPT ![q] = FirstStatus]
  /\ AddToFilter(q)
  /\ promise' = [promise EXCEPT ![q] = "accepted"]
  /\ micro' = micro \cup {q}
  /\ UNCHANGED <<serverVars, goalId, wants, resultVars, cancelVars, pending, listening,
                 destroyed>>

\* What a rejected goal leaves in _feedbackCallbacks.
CallbackDropped(q) == listening \ Same(q)

GoalRejected(q) ==
  /\ ~destroyed /\ q \in pending /\ micro = {}
  /\ q \in refused
  /\ listening' = CallbackDropped(q)
  /\ promise' = [promise EXCEPT ![q] = "rejected"]
  /\ micro' = micro \cup {q}
  /\ UNCHANGED <<serverVars, goalId, wants, resultVars, cancelVars, pending, tracked,
                 status, filterVars, destroyed>>

\* The done callback removes the request from its table.
TableCleared(d) == {}
TableWithout(d) == pending \ {d}

GoalDone(q) ==
  /\ q \in micro
  /\ micro' = micro \ {q}
  /\ pending' = TableWithout(q)
  /\ UNCHANGED <<serverVars, goalVars, resultVars, cancelVars, tracked, listening, status,
                 filterVars, destroyed>>

CancelResponse(c) ==
  /\ ~destroyed /\ c \in pending /\ micro \subseteq Requests
  /\ c \in acked
  /\ canceled' = [canceled EXCEPT ![c] = "done"]
  /\ micro' = micro \cup {c}
  /\ UNCHANGED <<serverVars, goalVars, resultVars, target, pending, tracked, listening,
                 status, filterVars, destroyed>>

CancelDone(c) ==
  /\ c \in micro
  /\ micro' = micro \ {c}
  /\ pending' = TableWithout(c)
  /\ UNCHANGED <<serverVars, goalVars, resultVars, cancelVars, tracked, listening, status,
                 filterVars, destroyed>>

\* The codes of action_msgs/GoalStatus; "none" and "unknown" are STATUS_UNKNOWN.
Rank(s) == CASE s = "accepted" -> 1 [] s = "executing" -> 2 [] s = "canceling" -> 3
             [] s = "succeeded" -> 4 [] s = "canceled" -> 5 [] s = "aborted" -> 6
             [] OTHER -> 0

\* The setter of ClientGoalHandle.status.
Newest(old, new) == new
Later(old, new) == IF Rank(old) < 4 /\ Rank(new) > Rank(old) THEN new ELSE old

\* The status that the answer to a result request leaves in the handle.
StatusTold(r) == [status EXCEPT ![asked[r]] = Later(@, reply[r])]

ResultResponse(r) ==
  /\ ~destroyed /\ r \in pending /\ micro \subseteq Requests \cup Cancels
  /\ reply[r] # "none"
  /\ status' = StatusTold(r)
  /\ result' = [result EXCEPT ![r] = reply[r]]
  /\ micro' = micro \cup {r}
  /\ UNCHANGED <<serverVars, goalVars, asked, cancelVars, pending, tracked, listening,
                 filterVars, destroyed>>

\* The callback of a goal whose result has come.
CallbackKept(q) == listening
CallbackRemoved(q) == listening \ Same(q)

ResultDone(r) ==
  /\ r \in micro
  /\ micro' = micro \ {r}
  /\ pending' = TableWithout(r)
  /\ listening' = CallbackRemoved(asked[r])
  /\ RemoveFromFilter(asked[r])
  /\ UNCHANGED <<serverVars, goalVars, resultVars, cancelVars, tracked, status, destroyed>>

\* What a status message says of the UUID of a request.
Told(m, q) == {m[p] : p \in {p \in Same(q) : m[p] # "none"}}
News(m, q) == CHOOSE s \in Told(m, q) : TRUE

\* processStatusMessage: the handles in _goalHandles follow; ended ones leave it.
StatusMessage(m) ==
  /\ ~destroyed
  /\ m \in statusNet
  /\ statusNet' = statusNet \ {m}
  /\ LET ended == {q \in tracked : Told(m, q) \cap Terminal # {}}
     IN /\ status' = [q \in Requests |->
                        IF q \in tracked /\ Told(m, q) # {}
                        THEN Later(status[q], News(m, q))
                        ELSE status[q]]
        /\ tracked' = tracked \ ended
        /\ IF ended = {} THEN UNCHANGED filterVars
                         ELSE FilterBecomes(filter \ {goalId[q] : q \in ended})
  /\ UNCHANGED <<phase, reply, about, listed, refused, expired, acked, goalVars, resultVars,
                 cancelVars, pending, micro, listening, destroyed>>

-----------------------------------------------------------------------------
ServerStep ==
  \/ \E q \in Requests : Accept(q) \/ Refuse(q) \/ Advance(q) \/ Expire(q)
  \/ \E r \in Results : TakeResultRequest(r) \/ AnswerResult(r)
  \/ \E c \in Cancels : AnswerCancel(c)

UserStep ==
  \/ \E q \in Requests, u \in Uuids : SendGoal(q, u)
  \/ \E q \in Requests, r \in Results : GetResult(r, q)
  \/ \E q \in Requests, c \in Cancels : CancelGoal(c, q)
  \/ Destroy

MessageStep ==
  \/ \E q \in Requests : GoalAccepted(q) \/ GoalRejected(q) \/ GoalDone(q)
  \/ \E r \in Results : ResultResponse(r) \/ ResultDone(r)
  \/ \E c \in Cancels : CancelResponse(c) \/ CancelDone(c)
  \/ \E m \in statusNet : StatusMessage(m)

Next == ServerStep \/ UserStep \/ MessageStep

Spec == Init /\ [][Next]_vars

-----------------------------------------------------------------------------
(* Safety.                                                                 *)

\* No two handles or callbacks share a UUID, even when user code asks for the same
\* UUID again, and _goalHandles holds only goals whose acceptance the user was told.
OneEntryPerUuid ==
  /\ \A q \in tracked, p \in tracked : goalId[p] = goalId[q] => p = q
  /\ \A q \in listening, p \in listening : goalId[p] = goalId[q] => p = q
  /\ \A q \in tracked : promise[q] = "accepted"

\* A request stays in its table exactly as long as its promise is open, up to the
\* microtask that removes it; destroy() empties the tables.
TablesAgree ==
  /\ \A q \in Requests : ~destroyed => (q \in pending <=> promise[q] = "pending" \/ q \in micro)
  /\ \A r \in Results : ~destroyed => (r \in pending <=> result[r] = "pending" \/ r \in micro)
  /\ \A c \in Cancels : ~destroyed => (c \in pending <=> canceled[c] = "pending" \/ c \in micro)
  /\ destroyed => pending = {}

\* User code has not used a UUID for two goals.
UsedOnce ==
  \A p \in Requests, q \in Requests : goalId[p] # None /\ goalId[p] = goalId[q] => p = q

\* While UUIDs are used once a handle never claims more than the server has reached,
\* however late and in whatever order answers and status messages arrive; an end it
\* shows is the end.
NeverAhead ==
  UsedOnce => \A q \in Requests :
    /\ Rank(status[q]) <= Rank(phase[q])
    /\ status[q] \in Terminal => phase[q] = status[q]

\* The status of a handle never moves back: "can not change from SUCCEEDED to ACCEPTED".
StatusNeverGoesBack ==
  [][\A q \in Requests : Rank(status'[q]) >= Rank(status[q])]_vars

\* While UUIDs are used once, whoever has the result of a goal sees its end in the
\* handle, for good.
ResultAgrees ==
  UsedOnce => \A r \in Results : result[r] \in Terminal => status[asked[r]] = result[r]

\* While UUIDs are used once, the callback given to sendGoal stays reachable as long
\* as the goal executes and its cancellation has not been requested: it is in
\* _feedbackCallbacks, and the content filter lets the feedback of the goal pass.
HearsFeedback ==
  \A q \in wants :
    ( /\ UsedOnce /\ ~destroyed
      /\ promise[q] = "accepted" /\ phase[q] = "executing"
      /\ \A c \in Cancels : target[c] # q )
    => q \in listening /\ (filter = {} \/ goalId[q] \in filter)

-----------------------------------------------------------------------------
(* Fairness and liveness.                                                  *)

\* Answers arrive, microtasks run, the server decides, ends goals and answers, and
\* of the status messages the last one arrives.
Fairness ==
  /\ \A q \in Requests : /\ WF_vars(Accept(q) \/ Refuse(q)) /\ WF_vars(GoalDone(q))
                         /\ WF_vars(GoalAccepted(q) \/ GoalRejected(q))
                         /\ WF_vars(Advance(q))
  /\ \A r \in Results : /\ WF_vars(TakeResultRequest(r)) /\ WF_vars(AnswerResult(r))
                        /\ WF_vars(ResultResponse(r)) /\ WF_vars(ResultDone(r))
  /\ \A c \in Cancels : /\ WF_vars(AnswerCancel(c))
                        /\ WF_vars(CancelResponse(c)) /\ WF_vars(CancelDone(c))
  /\ WF_vars(\E m \in statusNet : StatusMessage(m))

FairSpec == Spec /\ Fairness

\* Every promise is settled, unless the client is destroyed or a UUID was used again.
PromisesSettle ==
  /\ \A q \in Requests :
       promise[q] = "pending" ~> promise[q] # "pending" \/ destroyed \/ ~UsedOnce
  /\ \A r \in Results : result[r] = "pending" ~> result[r] # "pending" \/ destroyed
  /\ \A c \in Cancels : canceled[c] = "pending" ~> canceled[c] # "pending" \/ destroyed

\* The callback of a goal is forgotten after its result.
CallbacksAreReleased ==
  \A q \in Requests, r \in Results :
    result[r] \in Terminal /\ asked[r] = q ~> q \notin listening

-----------------------------------------------------------------------------
(* The inductive invariant behind the safety properties.                   *)

\* A status that the server has reached, and the end if it is an end.
Reached(s, q) == Rank(s) <= Rank(phase[q]) /\ (s \in Terminal => phase[q] = s)

\* Goals exist on both sides only after sendGoal; handles only when accepted.
GoalInv ==
  /\ \A q \in Requests :
       /\ goalId[q] = None <=> promise[q] = "none"
       /\ phase[q] # "none" => promise[q] # "none"
       /\ status[q] # "none" => promise[q] = "accepted"
       /\ q \in micro => promise[q] \in {"accepted", "rejected"}
       /\ q \in listening => promise[q] # "none"
       /\ q \in tracked => promise[q] = "accepted"
  /\ OneEntryPerUuid

\* Results and cancels are asked about goals with a handle, and answers are true.
AnswerInv ==
  /\ TablesAgree
  /\ \A r \in Results :
       /\ asked[r] = None <=> result[r] = "none"
       /\ asked[r] # None => promise[asked[r]] = "accepted"
       /\ about[r] \in {None, asked[r]}
       /\ reply[r] \in Terminal => about[r] # None /\ phase[about[r]] = reply[r]
       /\ r \in micro => result[r] \notin {"none", "pending"}
  /\ \A c \in Cancels : c \in micro => canceled[c] = "done"

\* What was published, what handles show and what results told has been reached.
ViewInv ==
  /\ \A m \in statusNet, q \in Requests : Reached(m[q], q)
  /\ \A q \in Requests : Reached(status[q], q)
  /\ \A r \in Results : result[r] \in Terminal => status[asked[r]] = result[r]

\* The inductive invariant; that views never run ahead needs UUIDs used once.
IInv ==
  /\ GoalInv
  /\ AnswerInv
  /\ UsedOnce => ViewInv

\* Whatever was answered, accepted or forgotten has reached its state on the server;
\* requests and callbacks have their promise.
ServerInv ==
  /\ \A q \in Requests : /\ promise[q] = "accepted" => phase[q] # "none"
                         /\ q \in wants => promise[q] # "none"
  /\ \A c \in Cancels : target[c] # None => canceled[c] # "none"
  /\ \A q \in expired : phase[q] \in Terminal
  /\ \A r \in Results : /\ reply[r] # "none" => /\ asked[r] # None
                                                /\ phase[asked[r]] \in Terminal
                        /\ result[r] \notin {"none", "pending"} => reply[r] # "none"
                        /\ r \in micro => result[r] \notin {"none", "pending"}

\* A callback waits as long as its goal, and a filter that is in use has the goals whose
\* feedback is to pass.
Open(q) == promise[q] = "pending" \/ (promise[q] = "accepted" /\ phase[q] \notin Terminal)
Heard(q) == Open(q) /\ q \in wants => q \in listening
NeedsFilter(q) ==
  /\ optimizing
  /\ promise[q] = "accepted" /\ phase[q] \notin Terminal
  /\ \A c \in Cancels : target[c] # q
Passes(q) == NeedsFilter(q) => goalId[q] \in filter

HearInv ==
  /\ ServerInv
  /\ ~destroyed /\ ~optimizing => filter = {}
  /\ UsedOnce /\ ~destroyed => \A q \in Requests : Heard(q) /\ Passes(q)
=============================================================================
