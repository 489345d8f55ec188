-------------------------------- MODULE HttpLink --------------------------------
(***************************************************************************)
(* The HTTP side of the web runtime, both ends: _HttpLink of               *)
(* web/client.js with the event stream of an action, and                   *)
(* lib/runtime/transports/http.js, which makes a connection of every       *)
(* request and hands it to the dispatcher.  An exchange is one request     *)
(* with its response.  A stream of a topic is read by any peer that speaks *)
(* server-sent events: the client subscribes over a WebSocket.             *)
(*                                                                         *)
(* What a response is made of: "ok" or "error" for a whole one, or "head"  *)
(* followed by events and "end".                                           *)
(***************************************************************************)
EXTENDS Naturals, Sequences

CONSTANTS
  Posts,      \* calls and publications
  Actions,    \* goals
  Streams,    \* subscriptions of topics
  MaxEvents   \* bound: chunks under way when an event is added to a response

Exchanges == Posts \cup Actions \cup Streams

VARIABLES
  client,       \* of an exchange at its client: new, fetching, streaming, resolved, rejected
  controllers,  \* _actionControllers
  line,         \* the TCP connection: none, open, cut
  wire,         \* what of the response is under way
  listening,    \* the transport has a server
  server,       \* at its server: none, arrived, closed, or what its connection waits for
  streaming,    \* _streaming
  ended         \* what the ROS side has made of it: no, well, badly

httpVars == <<client, controllers, line, wire, listening, server, streaming, ended>>

Init ==
  /\ client = [x \in Exchanges |-> "new"]
  /\ controllers = {}
  /\ line = [x \in Exchanges |-> "none"]
  /\ wire = [x \in Exchanges |-> <<>>]
  /\ listening = TRUE
  /\ server = [x \in Exchanges |-> "none"]
  /\ streaming = {}
  /\ ended = [x \in Exchanges |-> "no"]

Waiting(x) == client[x] \in {"fetching", "streaming"}

-------------------------------------------------------------------------------
(* The client *)

\* fetch() of _fetch and of action, which has a controller; nobody may be listening.
Fetch(x) ==
  /\ client[x] = "new"
  /\ client' = [client EXCEPT ![x] = "fetching"]
  /\ controllers' = IF x \in Actions THEN controllers \cup {x} ELSE controllers
  /\ line' = [line EXCEPT ![x] = IF listening THEN "open" ELSE "cut"]
  /\ server' = [server EXCEPT ![x] = IF listening THEN "arrived" ELSE "none"]
  /\ UNCHANGED <<wire, listening, streaming, ended>>

\* The promise of the exchange, for an action that of its result, is settled.  The controller
\* goes a little later, with the reader; to abort it then changes nothing.
Settled(x, how) ==
  /\ client' = [client EXCEPT ![x] = how]
  /\ controllers' = controllers \ {x}

\* The response begins, or is complete.
FetchReturns(x) ==
  /\ client[x] = "fetching" /\ wire[x] # <<>>
  /\ wire' = [wire EXCEPT ![x] = Tail(@)]
  /\ \/ Head(wire[x]) = "ok" /\ Settled(x, "resolved")
     \/ Head(wire[x]) = "error" /\ Settled(x, "rejected")
     \/ /\ Head(wire[x]) = "head"
        /\ client' = [client EXCEPT ![x] = "streaming"]
        /\ UNCHANGED controllers
  /\ UNCHANGED <<line, listening, server, streaming, ended>>

\* _pumpActionStream: an event of the stream, or its end.
ReadEvent(x) ==
  /\ client[x] = "streaming" /\ wire[x] # <<>>
  /\ wire' = [wire EXCEPT ![x] = Tail(@)]
  /\ \/ Head(wire[x]) = "result" /\ Settled(x, "resolved")
     \/ Head(wire[x]) \in {"failed", "end"} /\ Settled(x, "rejected")
     \/ Head(wire[x]) \in {"accepted", "event"} /\ UNCHANGED <<client, controllers>>
  /\ UNCHANGED <<line, listening, server, streaming, ended>>

\* fetch() or the reader fails on a connection that broke.
ReadFails(x) ==
  /\ Waiting(x) /\ wire[x] = <<>> /\ line[x] = "cut"
  /\ Settled(x, "rejected")
  /\ UNCHANGED <<line, wire, listening, server, streaming, ended>>

\* close: every action that is under way is aborted.  Also a feedback callback may call it,
\* and what was read behind that feedback is then dropped.
CloseLink ==
  /\ client' = [x \in Exchanges |-> IF x \in controllers THEN "rejected" ELSE client[x]]
  /\ line' = [x \in Exchanges |-> IF x \in controllers THEN "cut" ELSE line[x]]
  /\ wire' = [x \in Exchanges |-> IF x \in controllers THEN <<>> ELSE wire[x]]
  /\ controllers' = {}
  /\ UNCHANGED <<listening, server, streaming, ended>>

-------------------------------------------------------------------------------
(* The connection *)

\* It breaks, or the peer of a stream goes away; of what was under way a part arrives.
Cut(x) ==
  /\ line[x] = "open"
  /\ line' = [line EXCEPT ![x] = "cut"]
  /\ \E n \in 0 .. Len(wire[x]) : wire' = [wire EXCEPT ![x] = SubSeq(@, 1, n)]
  /\ UNCHANGED <<client, controllers, listening, server, streaming, ended>>

\* stop: closeAllConnections.
StopServer ==
  /\ listening
  /\ listening' = FALSE
  /\ line' = [x \in Exchanges |-> IF line[x] = "open" THEN "cut" ELSE line[x]]
  /\ UNCHANGED <<client, controllers, wire, server, streaming, ended>>

StartServer ==
  /\ ~listening
  /\ listening' = TRUE
  /\ UNCHANGED <<client, controllers, line, wire, server, streaming, ended>>

-------------------------------------------------------------------------------
(* The server *)

\* What is written to a response whose connection is gone is dropped.
Write(x, chunks) ==
  wire' = [wire EXCEPT ![x] = IF line[x] = "open" THEN @ \o chunks ELSE @]

\* _ensureStream
Head200(x) == IF x \in streaming THEN <<>> ELSE <<"head">>

\* The connection goes on to wait, and is a stream now, with one more event.
Streams200(x, waits, event) ==
  /\ server' = [server EXCEPT ![x] = waits]
  /\ streaming' = streaming \cup {x}
  /\ Write(x, Head200(x) \o <<event>>)

\* The last of it: the response ends, and 'close' has the dispatcher release what it made
\* for the connection.
Finishes(x, how, chunks) ==
  /\ server' = [server EXCEPT ![x] = "closed"]
  /\ ended' = [ended EXCEPT ![x] = how]
  /\ Write(x, chunks)

\* An error before anything was written.
Refuses(x) == Finishes(x, "badly", <<"error">>) /\ UNCHANGED streaming

\* _route and _readJsonBody: no such route, not allowed, a body that is not JSON.
RouteRefuses(x) ==
  /\ server[x] = "arrived"
  /\ Refuses(x)
  /\ UNCHANGED <<client, controllers, line, listening>>

\* A body that is too large: the request is destroyed, and the answer perhaps with it.
BodyTooLarge(x) ==
  /\ server[x] = "arrived" /\ x \in Posts \cup Actions
  /\ server' = [server EXCEPT ![x] = "closed"]
  /\ ended' = [ended EXCEPT ![x] = "badly"]
  /\ line' = [line EXCEPT ![x] = "cut"]
  /\ \/ Write(x, <<"error">>)
     \/ UNCHANGED wire
  /\ UNCHANGED <<client, controllers, listening, streaming>>

\* The dispatcher takes the frame: it answers at once, or waits for the ROS side.
Begin(x) ==
  /\ server[x] = "arrived"
  /\ \/ Refuses(x)
     \/ /\ x \in Posts
        /\ Finishes(x, "well", <<"ok">>)
        /\ UNCHANGED streaming
     \/ /\ x \in Posts \cup Actions
        /\ server' = [server EXCEPT ![x] = IF x \in Posts THEN "call" ELSE "goal"]
        /\ UNCHANGED <<wire, streaming, ended>>
     \/ /\ x \in Streams
        /\ Streams200(x, "topic", "event")
        /\ UNCHANGED ended
  /\ UNCHANGED <<client, controllers, line, listening>>

\* The service has answered.
CallAnswered(x) ==
  /\ server[x] = "call"
  /\ Finishes(x, "well", <<"ok">>)
  /\ UNCHANGED <<client, controllers, line, listening, streaming>>

\* A message of the topic, or feedback, which may come before the goal response.
EventComes(x) ==
  /\ server[x] \in {"topic", "goal", "result"}
  /\ Len(wire[x]) < MaxEvents
  /\ Streams200(x, server[x], "event")
  /\ UNCHANGED <<client, controllers, line, listening, ended>>

\* The goal response.  A goal that gave feedback has been accepted.
GoalAnswered(x) ==
  /\ server[x] = "goal"
  /\ \/ x \notin streaming /\ Refuses(x)
     \/ /\ Streams200(x, "result", "accepted")
        /\ UNCHANGED ended
  /\ UNCHANGED <<client, controllers, line, listening>>

\* The result, or that there is none to be had.
GoalEnds(x) ==
  /\ server[x] = "result"
  /\ \/ Finishes(x, "well", <<"result", "end">>)
     \/ Finishes(x, "badly", <<"failed", "end">>)
  /\ UNCHANGED <<client, controllers, line, listening, streaming>>

\* Mutant: the 'close' of the request, which comes when its body has been read.
RequestCloses(x) ==
  /\ server[x] \in {"arrived", "topic", "goal", "result"}
  /\ server' = [server EXCEPT ![x] = "closed"]
  /\ Write(x, <<"end">>)
  /\ UNCHANGED <<client, controllers, line, listening, streaming, ended>>

\* The 'close' of a response that is a stream or is to be one, or the 'error' of a request
\* whose body is being read.  A call goes on: its connection listens to neither.
ResponseCloses(x) ==
  /\ line[x] = "cut"
  /\ server[x] \in {"arrived", "topic", "goal", "result"}
  /\ server' = [server EXCEPT ![x] = "closed"]
  /\ Write(x, <<"end">>)
  /\ UNCHANGED <<client, controllers, line, listening, streaming, ended>>

-------------------------------------------------------------------------------
Server(x) ==
  \/ RouteRefuses(x) \/ BodyTooLarge(x) \/ Begin(x) \/ CallAnswered(x) \/ EventComes(x)
  \/ GoalAnswered(x) \/ GoalEnds(x) \/ ResponseCloses(x)

Reading(x) == FetchReturns(x) \/ ReadEvent(x) \/ ReadFails(x)

\* All but fetch() and close(), which the user asks for.
Next ==
  \/ StopServer \/ StartServer
  \/ \E x \in Exchanges : Reading(x) \/ Cut(x) \/ Server(x)

\* The client reads; sockets report that they are closed; requests are routed, and the ROS
\* side answers.
Fairness ==
  \A x \in Exchanges :
    /\ WF_httpVars(Reading(x))
    /\ WF_httpVars(ResponseCloses(x))
    /\ WF_httpVars(Begin(x))
    /\ WF_httpVars(CallAnswered(x))
    /\ WF_httpVars(GoalAnswered(x))
    /\ WF_httpVars(GoalEnds(x))

-------------------------------------------------------------------------------
(* Properties *)

Words == {"ok", "error", "head", "accepted", "event", "result", "failed", "end"}

ExchangesOK ==
  /\ client \in [Exchanges -> {"new", "fetching", "streaming", "resolved", "rejected"}]
  /\ line \in [Exchanges -> {"none", "open", "cut"}]
  /\ wire \in [Exchanges -> Seq(Words)]
  /\ listening \in BOOLEAN
  /\ server \in [Exchanges -> {"none", "arrived", "call", "goal", "result", "topic", "closed"}]
  /\ streaming \subseteq Exchanges
  /\ ended \in [Exchanges -> {"no", "well", "badly"}]

\* How far an exchange has come at its two ends and on the line.
Progress(x) ==
  /\ client[x] = "new" => wire[x] = <<>> /\ server[x] = "none" /\ line[x] = "none"
  /\ line[x] = "open" => server[x] # "none"
  /\ ended[x] # "no" => server[x] = "closed"

\* What is under way tells the truth about the ROS side; and the end of a stream that
\* somebody reads comes right behind its result.
Truthful(x) ==
  \A i \in 1 .. Len(wire[x]) :
    /\ wire[x][i] \in {"ok", "result"} => ended[x] = "well"
    /\ wire[x][i] \in {"error", "failed"} => ended[x] = "badly"
    /\ Waiting(x) /\ wire[x][i] = "end" => i > 1 /\ wire[x][i - 1] \in {"result", "failed"}

\* A server that is done with an exchange that holds has sent the last of it.
Complete(x) ==
  Waiting(x) /\ line[x] = "open" /\ server[x] = "closed" =>
    wire[x] # <<>> /\ wire[x][Len(wire[x])] \in {"ok", "error", "end"}

\* What the client makes of an exchange is what the ROS side made of it, or its connection
\* is gone.
Honest(x) ==
  /\ client[x] = "resolved" => ended[x] = "well"
  /\ client[x] = "rejected" => ended[x] = "badly" \/ line[x] = "cut"

\* The inductive invariant.
ExchangesInv ==
  /\ ExchangesOK
  /\ controllers = {x \in Actions : Waiting(x)}
  /\ \A x \in Exchanges : Progress(x) /\ Truthful(x) /\ Complete(x) /\ Honest(x)

\* Client and server agree on how an exchange ends, whatever breaks and whoever closes:
\* a success was one on the ROS side; an error stands for one there or for a connection
\* that is gone; who waits on a connection that holds has an answer under way or a server
\* that owes it; and the actions to abort are those under way (web/client.js:473,
\* lib/runtime/transports/http.js:193).
ExchangesAgree ==
  /\ controllers = {x \in Actions : Waiting(x)}
  /\ \A x \in Exchanges :
       /\ client[x] = "resolved" => ended[x] = "well"
       /\ client[x] = "rejected" => ended[x] = "badly" \/ line[x] = "cut"
       /\ Waiting(x) /\ line[x] = "open" => wire[x] # <<>> \/ server[x] \notin {"none", "closed"}

\* No call, publication or result of a goal waits at either end, and no topic for a peer
\* that is gone.
NobodyWaits ==
  /\ \A x \in Posts \cup Actions : ~Waiting(x) /\ server[x] \in {"none", "closed"}
  /\ \A x \in Streams : line[x] = "cut" => server[x] \in {"none", "closed"}
================================================================================
