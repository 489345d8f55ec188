--------------------------------- MODULE WsLink ---------------------------------
(***************************************************************************)
(* The WebSocket side of the web client, web/client.js: RosClient's        *)
(* _ensureWs and close, and the _WsLink with its requests, subscriptions   *)
(* and goals, over a connection that is lost at any time and, with         *)
(* reconnect: true, opened again.  The peer serves a connection the way    *)
(* Dispatcher does; what it keeps for a connection ends with it.           *)
(*                                                                         *)
(* A request is known by the id of its frame.  Calls stand for call,       *)
(* publish and cancel, which the link treats alike.  A verb of RosClient   *)
(* awaits _ensureWs before it reaches the link; those continuations run    *)
(* before the next event of a socket or a timer.                           *)
(***************************************************************************)
EXTENDS Naturals, Sequences, FiniteSets

CONSTANTS
  Calls,   \* requests that just get an answer
  Subs,    \* subscribe requests; the id of one is the subId
  Unsubs,  \* unsubscribe requests
  Goals,   \* send_goal requests; the id of one is the goalId
  None     \* no subscription

Requests == Calls \cup Subs \cup Unsubs \cup Goals

ASSUME LinkAssumption ==
  /\ Calls \cap Subs = {} /\ Calls \cap Unsubs = {} /\ Calls \cap Goals = {}
  /\ Subs \cap Unsubs = {} /\ Subs \cap Goals = {} /\ Unsubs \cap Goals = {}
  /\ None \notin Subs
  /\ IsFiniteSet(Subs)

VARIABLES
  \* RosClient
  left,         \* _closed
  opened,       \* _wsConnect: none, opening, or open once and for all
  \* the link
  reconnect,    \* _isReconnectEnabled
  closed,       \* _closed
  leaving,      \* _isUserClosed
  closing,      \* the promise of close(): no, asked, waiting, done
  reconnecting, \* _isReconnecting
  timer,        \* _reconnectTimer is armed
  socket,       \* _ws: none, connecting, failing, aborting, open, lost, closing, closed
  \* requests
  promise,      \* of each request: new, admitted, pending, resolved, rejected
  pending,      \* _pending
  subs,         \* _subs
  goals,        \* _goals
  result,       \* the result promise of a goal: none, waiting, settled
  about,        \* the subscription an unsubscribe is about
  \* the connection and its other end
  exposed,      \* subscriptions whose capability the peer exposes
  up, down,     \* frames under way
  serving,      \* calls and goals the peer has not answered
  served,       \* subscriptions the peer has for the connection
  running       \* accepted goals it has not told the end of

clientVars == <<left, opened>>
linkVars == <<reconnect, closed, leaving, closing, reconnecting, timer, socket>>
requestVars == <<promise, pending, subs, goals, result, about>>
peerVars == <<exposed, serving, served, running>>
wireVars == <<up, down, peerVars>>
vars == <<clientVars, linkVars, requestVars, wireVars>>

Init ==
  /\ left = FALSE /\ opened = "none"
  /\ reconnect \in BOOLEAN
  /\ closed = FALSE /\ leaving = FALSE /\ closing = "no"
  /\ reconnecting = FALSE /\ timer = FALSE /\ socket = "none"
  /\ promise = [r \in Requests |-> "new"]
  /\ pending = {} /\ subs = {} /\ goals = {}
  /\ result = [g \in Goals |-> "none"]
  /\ about = [u \in Unsubs |-> None]
  /\ up = <<>> /\ down = <<>>
  /\ exposed \in SUBSET Subs
  /\ serving = {} /\ served = {} /\ running = {}

\* Continuations that run before the next event.
Microtasks ==
  \/ opened = "open" /\ \E r \in Requests : promise[r] = "admitted"
  \/ closing = "asked" /\ opened # "opening"

\* Nothing of a connection is left at its other end, or under way.
ConnectionGone ==
  /\ up' = <<>> /\ down' = <<>>
  /\ serving' = {} /\ served' = {} /\ running' = {}
  /\ UNCHANGED exposed

(***************************************************************************)
(* Requests.                                                               *)
(***************************************************************************)
\* The verbs of RosClient: refused after close(); the first of them opens the link.
Admit(r) ==
  /\ promise[r] = "new" /\ r \notin Unsubs
  /\ \/ /\ left
        /\ promise' = [promise EXCEPT ![r] = "rejected"]
        /\ UNCHANGED <<opened, socket>>
     \/ /\ ~left
        /\ promise' = [promise EXCEPT ![r] = "admitted"]
        /\ IF opened = "none" THEN opened' = "opening" /\ socket' = "connecting"
                              ELSE UNCHANGED <<opened, socket>>
  /\ UNCHANGED <<left, reconnect, closed, leaving, closing, reconnecting, timer>>
  /\ UNCHANGED <<pending, subs, goals, result, about, wireVars>>

\* A frame is lost, without a word, unless the socket is open.
Send(r) == up' = IF socket = "open" THEN Append(up, r) ELSE up

\* Entered in _pending, and in _goals for a goal, before it is sent.
Request(r) ==
  /\ promise' = [promise EXCEPT ![r] = "pending"]
  /\ pending' = pending \cup {r}
  /\ goals' = IF r \in Goals THEN goals \cup {r} ELSE goals
  /\ Send(r)

Rejected(r) ==
  /\ promise' = [promise EXCEPT ![r] = "rejected"]
  /\ UNCHANGED <<pending, goals, up>>

\* The link has no connection to use: _request; action looks at _isUserClosed too,
\* and subscribe does not look at _closed.
Down(r) ==
  \/ reconnecting
  \/ closed /\ r \notin Subs
  \/ leaving /\ r \in Goals

\* _request, action and subscribe of the link.
LinkRequest(r) == IF Down(r) THEN Rejected(r) ELSE Request(r)

\* The verb goes on when the link is open.
Verb(r) ==
  /\ opened = "open"
  /\ promise[r] = "admitted"
  /\ LinkRequest(r)
  /\ UNCHANGED <<subs, result, about, down, peerVars, clientVars, linkVars>>

\* cancel() of an action handle, which goes to the link directly.
CancelGoal(r) ==
  /\ promise[r] = "new"
  /\ \E g \in Goals : promise[g] = "resolved"
  /\ LinkRequest(r)
  /\ UNCHANGED <<subs, result, about, down, peerVars, clientVars, linkVars>>

\* close() of a subscription.
Unsubscribe(u, s) ==
  /\ promise[u] = "new"
  /\ promise[s] = "resolved"
  /\ subs' = subs \ {s}
  /\ about' = [about EXCEPT ![u] = s]
  /\ LinkRequest(u)
  /\ UNCHANGED <<result, down, peerVars, clientVars, linkVars>>

(***************************************************************************)
(* Answers: _onMessage.                                                    *)
(***************************************************************************)
\* The resolve function of a pending request.
Resolved(r) ==
  /\ promise' = [promise EXCEPT ![r] = "resolved"]
  /\ pending' = pending \ {r}
  /\ subs' = IF r \in Subs THEN subs \cup {r} ELSE subs
  /\ result' = [g \in Goals |-> IF g = r THEN "waiting" ELSE result[g]]
  /\ UNCHANGED goals

\* Its reject function.
Refused(r) ==
  /\ promise' = [promise EXCEPT ![r] = "rejected"]
  /\ pending' = pending \ {r}
  /\ goals' = goals \ {r}
  /\ UNCHANGED <<subs, result>>

\* An event 'result'.
ResultComes(g) ==
  /\ goals' = goals \ {g}
  /\ result' = [result EXCEPT ![g] = IF g \in goals THEN "settled" ELSE @]
  /\ UNCHANGED <<promise, pending, subs>>

Receive ==
  /\ ~Microtasks
  /\ socket \in {"open", "closing"} /\ down # <<>>
  /\ LET word == Head(down)[1]
         r == Head(down)[2]
     IN  \/ word = "ok" /\ r \in pending /\ Resolved(r)
         \/ word = "no" /\ r \in pending /\ Refused(r)
         \/ word \in {"ok", "no"} /\ r \notin pending
            /\ UNCHANGED <<promise, pending, subs, goals, result>>
         \/ word = "result" /\ ResultComes(r)
  /\ down' = Tail(down)
  /\ UNCHANGED <<about, up, peerVars, clientVars, linkVars>>

(***************************************************************************)
(* The peer.                                                               *)
(***************************************************************************)
Connected == socket \in {"open", "closing"}

Tell(word, r) == down' = Append(down, <<word, r>>)

\* Frames are taken in order; those about subscriptions are answered at once.
Serve ==
  /\ Connected /\ up # <<>>
  /\ LET r == Head(up)
     IN  \/ /\ r \in Calls \cup Goals
            /\ serving' = serving \cup {r}
            /\ UNCHANGED <<served, down>>
         \/ /\ r \in Subs /\ r \in exposed \ served
            /\ served' = served \cup {r}
            /\ Tell("ok", r)
            /\ UNCHANGED serving
         \/ /\ r \in Subs /\ r \notin exposed \ served
            /\ Tell("no", r)
            /\ UNCHANGED <<serving, served>>
         \/ /\ r \in Unsubs
            /\ served' = served \ {about[r]}
            /\ Tell(IF about[r] \in served THEN "ok" ELSE "no", r)
            /\ UNCHANGED serving
  /\ up' = Tail(up)
  /\ UNCHANGED <<exposed, running, requestVars, clientVars, linkVars>>

\* A call or a goal is answered.
Answer(r, word) ==
  /\ Connected /\ r \in serving
  /\ serving' = serving \ {r}
  /\ running' = IF r \in Goals /\ word = "ok" THEN running \cup {r} ELSE running
  /\ Tell(word, r)
  /\ UNCHANGED <<up, exposed, served, requestVars, clientVars, linkVars>>

\* A goal ends.
GoalEnds(g) ==
  /\ Connected /\ g \in running
  /\ running' = running \ {g}
  /\ Tell("result", g)
  /\ UNCHANGED <<up, exposed, serving, served, requestVars, clientVars, linkVars>>

(***************************************************************************)
(* The socket.                                                             *)
(***************************************************************************)
\* Mutant: subscriptions are not replayed.
NothingReplayed == {<<>>}

\* _resubscribeAll: a subscribe frame for every subscription, in the order of the map.
Replays ==
  {q \in [1 .. Cardinality(subs) -> subs] : \A s \in subs : \E i \in DOMAIN q : q[i] = s}

\* onOpen, first or again.
SocketOpens ==
  /\ ~Microtasks
  /\ socket = "connecting"
  /\ socket' = "open"
  /\ reconnecting' = FALSE
  /\ up' \in Replays
  /\ opened' = "open"
  /\ UNCHANGED <<left, reconnect, closed, leaving, closing, timer, requestVars>>
  /\ UNCHANGED <<down, peerVars>>

\* Mutant: also when the user has left.
AlwaysAgain == timer' = TRUE

\* The rejection of a reconnect attempt: another one, unless the user has left.
NextAttempt == timer' = ~leaving

\* onError before onOpen: the first attempt rejects the verbs that wait for it.
SocketFails ==
  /\ ~Microtasks
  /\ socket = "connecting"
  /\ socket' = "failing"
  /\ \/ /\ opened = "opening"
        /\ opened' = "none"
        /\ promise' = [r \in Requests |-> IF promise[r] = "admitted" THEN "rejected"
                                                                     ELSE promise[r]]
        /\ UNCHANGED timer
     \/ /\ opened = "open"
        /\ NextAttempt
        /\ UNCHANGED <<opened, promise>>
  /\ UNCHANGED <<left, reconnect, closed, leaving, closing, reconnecting>>
  /\ UNCHANGED <<pending, subs, goals, result, about, wireVars>>

\* The 'close' that follows the error; it may fail to come.
SocketFailed ==
  /\ ~Microtasks
  /\ socket = "failing"
  /\ socket' = "closed"
  /\ UNCHANGED <<reconnect, closed, leaving, closing, reconnecting, timer>>
  /\ UNCHANGED <<clientVars, requestVars, wireVars>>

\* The connection breaks; the link does not know yet.
Lose ==
  /\ socket = "open"
  /\ socket' = "lost"
  /\ ConnectionGone
  /\ UNCHANGED <<reconnect, closed, leaving, closing, reconnecting, timer>>
  /\ UNCHANGED <<clientVars, requestVars>>

\* Mutant: the results of goals are not rejected.
FailPending ==
  /\ promise' = [r \in Requests |-> IF r \in pending THEN "rejected" ELSE promise[r]]
  /\ result' = result
  /\ pending' = {} /\ goals' = {}

\* _failAll: whatever waits is rejected, and forgotten.
FailAll ==
  /\ promise' = [r \in Requests |-> IF r \in pending THEN "rejected" ELSE promise[r]]
  /\ result' = [g \in Goals |-> IF g \in goals /\ result[g] = "waiting" THEN "settled"
                                                                       ELSE result[g]]
  /\ pending' = {} /\ goals' = {}

\* _finalizeClosed.
Finalize ==
  /\ closed' = TRUE
  /\ reconnecting' = FALSE
  /\ subs' = {}

\* onClose after onOpen, _handleClose, and what waits for it in close().
SocketCloses ==
  /\ ~Microtasks
  /\ socket \in {"lost", "closing"}
  /\ socket' = "closed"
  /\ FailAll
  /\ ConnectionGone
  /\ \/ /\ leaving \/ ~reconnect
        /\ Finalize
        /\ closing' = IF closing = "waiting" THEN "done" ELSE closing
        /\ UNCHANGED timer
     \/ /\ ~leaving /\ reconnect
        /\ reconnecting' = TRUE
        /\ timer' = TRUE
        /\ UNCHANGED <<closed, subs, closing>>
  /\ UNCHANGED <<reconnect, leaving, about, clientVars>>

\* The handshake that close() aborted is over.
SocketAborts ==
  /\ ~Microtasks
  /\ socket = "aborting"
  /\ socket' = "closed"
  /\ NextAttempt
  /\ Finalize
  /\ closing' = "done"
  /\ UNCHANGED <<reconnect, leaving, clientVars, wireVars>>
  /\ UNCHANGED <<promise, pending, goals, result, about>>

\* The callback of _scheduleReconnect's timeout.
TimerFires ==
  /\ ~Microtasks
  /\ timer
  /\ timer' = FALSE
  /\ socket' = "connecting"
  /\ UNCHANGED <<reconnect, closed, leaving, closing, reconnecting>>
  /\ UNCHANGED <<clientVars, requestVars, wireVars>>

(***************************************************************************)
(* Leaving.                                                                *)
(***************************************************************************)
\* RosClient.close.
Leave ==
  /\ ~left
  /\ left' = TRUE
  /\ closing' = "asked"
  /\ UNCHANGED <<opened, reconnect, closed, leaving, reconnecting, timer, socket>>
  /\ UNCHANGED <<requestVars, wireVars>>

\* Mutant: a handshake that failed is taken for one under way.
NoCloseIfClosed == closed \/ socket \in {"none", "closed"}

\* No 'close' is to be expected from the socket.
NoCloseToCome == closed \/ socket \in {"none", "closed", "failing"}

\* close of the link, when the handshake under way, if any, has ended.
LinkClose ==
  /\ closing = "asked"
  /\ opened # "opening"
  /\ leaving' = TRUE
  /\ timer' = FALSE
  /\ \/ /\ NoCloseToCome
        /\ Finalize
        /\ closing' = "done"
        /\ UNCHANGED socket
     \/ /\ ~NoCloseToCome
        /\ socket' = CASE socket = "open" -> "closing"
                       [] socket = "connecting" -> "aborting"
                       [] OTHER -> socket
        /\ closing' = "waiting"
        /\ UNCHANGED <<closed, reconnecting, subs>>
  /\ UNCHANGED <<reconnect, clientVars, wireVars>>
  /\ UNCHANGED <<promise, pending, goals, result, about>>

(***************************************************************************)
(* The specification.                                                      *)
(***************************************************************************)
User ==
  \/ \E r \in Requests : Admit(r) \/ Verb(r)
  \/ \E r \in Calls : CancelGoal(r)
  \/ \E u \in Unsubs, s \in Subs : Unsubscribe(u, s)
  \/ Leave \/ LinkClose

Socket ==
  \/ SocketOpens \/ SocketFails \/ SocketFailed \/ SocketAborts
  \/ Lose \/ SocketCloses \/ TimerFires \/ Receive

Peer ==
  \/ Serve
  \/ \E r \in Calls \cup Goals, word \in {"ok", "no"} : Answer(r, word)
  \/ \E g \in Goals : GoalEnds(g)

Next == User \/ Socket \/ Peer

Spec == Init /\ [][Next]_vars

\* Continuations run, sockets end their handshakes and report that they are closed,
\* and the peer answers while it is connected.  The 'close' after a failed handshake
\* is not to be relied on (test/test-web-reconnect.js).
LinkFairness ==
  /\ \A r \in Requests : WF_vars(Verb(r))
  /\ WF_vars(LinkClose)
  /\ WF_vars(SocketOpens \/ SocketFails) /\ WF_vars(SocketCloses) /\ WF_vars(SocketAborts)
  /\ WF_vars(Receive) /\ WF_vars(Serve)
  /\ \A r \in Calls \cup Goals : WF_vars(Answer(r, "ok") \/ Answer(r, "no"))
  /\ \A g \in Goals : WF_vars(GoalEnds(g))

(***************************************************************************)
(* Properties.                                                             *)
(***************************************************************************)
FlagsOK ==
  /\ left \in BOOLEAN /\ reconnect \in BOOLEAN /\ closed \in BOOLEAN /\ leaving \in BOOLEAN
  /\ reconnecting \in BOOLEAN /\ timer \in BOOLEAN

PointsOK ==
  /\ opened \in {"none", "opening", "open"}
  /\ closing \in {"no", "asked", "waiting", "done"}
  /\ socket \in {"none", "connecting", "failing", "aborting", "open", "lost", "closing", "closed"}

RequestsOK ==
  /\ promise \in [Requests -> {"new", "admitted", "pending", "resolved", "rejected"}]
  /\ pending = {r \in Requests : promise[r] = "pending"}
  /\ subs \subseteq Subs /\ goals \subseteq Goals
  /\ result \in [Goals -> {"none", "waiting", "settled"}]
  /\ about \in [Unsubs -> Subs \cup {None}]

WireOK ==
  /\ up \in Seq(Requests) /\ down \in Seq({"ok", "no", "result"} \X Requests)
  /\ serving \subseteq Calls \cup Goals /\ exposed \subseteq Subs /\ served \subseteq exposed
  /\ running \subseteq Goals

\* The variables have their types, and the promises that wait for a frame are the
\* entries of _pending.
TypeOK == FlagsOK /\ PointsOK /\ RequestsOK /\ WireOK

\* Between a drop and the next open there is exactly one attempt, in a timer or under
\* way; there is none otherwise, and never one after close().
OneAttempt ==
  /\ timer => reconnecting /\ ~leaving /\ socket \in {"failing", "closed"}
  /\ reconnecting /\ ~leaving => timer \/ socket = "connecting"
  /\ opened = "open" /\ socket = "connecting" => reconnecting

\* What the flags of the link say agrees with the socket, and nobody waits for a link
\* that is down: not while it reconnects, and, subscribe apart, not when it is closed.
FlagsAgree ==
  /\ reconnecting => pending = {} /\ goals = {}
  /\ closed => pending \subseteq Subs /\ goals = {} /\ subs = {} /\ ~reconnecting
  /\ opened = "open" /\ ~reconnecting /\ ~closed => socket \in {"open", "lost", "closing"}

\* The stages of the client, of close() and of the socket that go together.
Stages ==
  /\ leaving <=> closing \in {"waiting", "done"}
  /\ left <=> closing # "no"
  /\ closed => left \/ opened = "open"
  /\ opened = "opening" => socket = "connecting"
  /\ opened = "none" => socket \in {"none", "failing", "closed"}
  /\ socket = "connecting" => ~closed /\ ~leaving
  /\ socket = "aborting" => opened = "open" /\ reconnecting /\ ~closed /\ closing = "waiting"
  /\ socket \in {"open", "lost", "closing"} => opened = "open" /\ ~closed /\ ~reconnecting
  /\ reconnecting => opened = "open"
  /\ opened # "open" => pending = {} /\ goals = {} /\ subs = {}
  /\ opened # "open" => \A r \in Requests : promise[r] \in {"new", "admitted", "rejected"}

\* Is there a frame under way, from the client or from the peer?
InUp(r) == \E i \in 1 .. Len(up) : up[i] = r
InDown(word, r) == \E i \in 1 .. Len(down) : down[i] = <<word, r>>

\* A frame that ends a subscription at the peer.
Ends(r, s) == r \in Unsubs /\ about[r] = s

\* Whatever the connection: the peer exposes what is in _subs, a subscription that was
\* closed is out of it for good, and without a connection nothing is under way.
SubsKnown ==
  /\ socket \notin {"open", "closing"} => up = <<>> /\ down = <<>> /\ served = {}
  /\ \A s \in subs : s \in exposed /\ promise[s] = "resolved"
  /\ \A s \in Subs : InDown("ok", s) => s \in exposed
  /\ \A u \in Unsubs :
       /\ about[u] # None => promise[about[u]] = "resolved" /\ about[u] \notin subs
       /\ InUp(u) => promise[u] # "new"

\* A subscription over an open socket.  What the user has the peer has, or is about to be
\* asked for; what else the peer has the user is about to have, or it is about to end.
\* A request that is not answered yet is under way once, one way or the other.
Tracked(s) ==
  /\ s \in subs => s \in served \/ InUp(s)
  /\ s \in served \ subs =>
       \/ promise[s] = "pending" /\ InDown("ok", s)
       \/ \E i \in 1 .. Len(up) : Ends(up[i], s)
  /\ \A i \in 1 .. Len(up) : up[i] = s =>
       \/ s \in subs \/ promise[s] = "pending"
       \/ \E j \in i + 1 .. Len(up) : Ends(up[j], s)
  /\ promise[s] = "pending" =>
       /\ InDown("ok", s) => s \in served
       /\ InDown("no", s) => s \notin served
       /\ InUp(s) => s \notin served /\ ~InDown("ok", s) /\ ~InDown("no", s)
       /\ \A i, j \in 1 .. Len(up) : up[i] = s /\ up[j] = s => i = j
  /\ promise[s] \in {"new", "admitted"} => ~InDown("ok", s) /\ ~InDown("no", s)

SubsTracked == socket = "open" => \A s \in Subs : Tracked(s)

\* The inductive invariant.
IInv == TypeOK /\ Stages /\ OneAttempt /\ FlagsAgree /\ SubsKnown /\ SubsTracked

\* Is the answer to a request under way, or to come from the peer?
Answerable(r) == InUp(r) \/ r \in serving \/ InDown("ok", r) \/ InDown("no", r)

\* A goal: what the link keeps of it and what the peer and the wire have.  Its result is
\* not told before it is accepted, and comes when it is.
GoalFollowed(g) ==
  /\ g \in goals <=> promise[g] = "pending" \/ result[g] = "waiting"
  /\ promise[g] # "resolved" => result[g] = "none"
  /\ promise[g] \in {"new", "admitted"} =>
       /\ ~InUp(g) /\ g \notin serving /\ g \notin running
       /\ ~InDown("ok", g) /\ ~InDown("no", g) /\ ~InDown("result", g)
  /\ promise[g] = "pending" =>
       /\ g \in running => InDown("ok", g)
       /\ InDown("ok", g) => g \in running \/ InDown("result", g)
       /\ \A i \in 1 .. Len(down) : down[i] = <<"result", g>> =>
            \E j \in 1 .. i - 1 : down[j] = <<"ok", g>>
  /\ result[g] = "waiting" /\ Connected => g \in running \/ InDown("result", g)

\* The invariant behind Owed.
OwedInv ==
  /\ ~Connected => serving = {} /\ running = {}
  /\ socket = "open" => \A r \in pending : Answerable(r)
  /\ \A g \in Goals : GoalFollowed(g)

\* Nobody waits for a frame that was lost: while the socket is open, an answer to what
\* waits is under way or the peer owes it, and so is the result of an accepted goal.
Owed ==
  socket = "open" =>
    /\ \A r \in pending : Answerable(r)
    /\ \A g \in Goals : result[g] = "waiting" => g \in running \/ InDown("result", g)

\* However often the connection was lost, and whatever was subscribed or closed
\* meanwhile, the peer ends up with just the subscriptions that the user has.
SubscriptionsRestored == socket = "open" /\ up = <<>> /\ down = <<>> => served = subs

\* No call, unsubscription or goal waits, and no result of a goal.
NobodyWaits ==
  /\ \A r \in Requests \ Subs : promise[r] \notin {"admitted", "pending"}
  /\ \A g \in Goals : result[g] # "waiting"

\* close() comes back, from any state of the link.
CloseCompletes == closing = "asked" ~> closing = "done"

================================================================================
