-------------------------------- MODULE WebClient --------------------------------
(***************************************************************************)
(* RosClient of web/client.js with the link its URL asks for: a WebSocket  *)
(* (WsLink) or HTTP (HttpLink).  A client that has both uses each for some *)
(* of the verbs; the links share nothing but close().                      *)
(***************************************************************************)
EXTENDS WsLink

CONSTANTS Posts, Actions, Streams, MaxEvents

ASSUME ExchangesAssumption ==
  Posts \cap Actions = {} /\ Actions \cap Streams = {} /\ Streams \cap Posts = {}

VARIABLES form, client, controllers, line, wire, listening, server, streaming, ended

Http == INSTANCE HttpLink

httpVars == <<client, controllers, line, wire, listening, server, streaming, ended>>
allVars == <<form, vars, httpVars>>

\* _resolveUrls: one of the links; the other is not used.
ClientInit ==
  /\ Init /\ Http!Init
  /\ form \in {"ws", "http"}
  /\ form = "http" => ~reconnect /\ exposed = {}

\* The verbs call and publish, which do not ask whether the client was closed, and action,
\* which does; a subscription of another peer.
HttpVerb(x) ==
  /\ form = "http"
  /\ x \in Actions => ~left
  /\ Http!Fetch(x)
  /\ UNCHANGED <<form, vars>>

HttpStep ==
  /\ form = "http"
  /\ Http!Next
  /\ UNCHANGED <<form, vars>>

\* A step of the WebSocket link, or of RosClient with it.
WsStep ==
  /\ form = "ws"
  /\ Next
  /\ UNCHANGED <<form, httpVars>>

\* close() closes the HTTP link at once.
CloseHttp ==
  /\ form = "http"
  /\ Leave
  /\ Http!CloseLink
  /\ UNCHANGED form

\* The rest of close(), with a link that was never opened.
CloseUnopened ==
  /\ form = "http"
  /\ LinkClose
  /\ UNCHANGED <<form, httpVars>>

ClientNext ==
  \/ WsStep \/ HttpStep \/ CloseHttp \/ CloseUnopened
  \/ \E x \in Posts \cup Actions \cup Streams : HttpVerb(x)

ClientSpec ==
  /\ ClientInit /\ [][ClientNext]_allVars
  /\ LinkFairness /\ Http!Fairness

-------------------------------------------------------------------------------
(* Properties *)

\* Client and server of an HTTP exchange agree on how it ended: see HttpLink.
ExchangesAgree == Http!ExchangesAgree

\* No verb leaves its caller waiting for good, over either link, whatever is lost and
\* whenever close() is called: calls, unsubscriptions, goals and the results of goals are
\* answered or rejected (web/client.js:441, 586), and the server keeps no connection for
\* them.  Each request of an instance is made once, so they settle when in the end none
\* waits.  Of subscribe it is not asked: a link that was dropped for good takes one in.
VerbsSettle == <>[](NobodyWaits /\ Http!NobodyWaits)
================================================================================
