----------------------------- MODULE ServiceCall -----------------------------
(***************************************************************************)
(* Requests that are answered once: a service client (lib/client.js) and   *)
(* the parameter client on top of it, a service (lib/service.js), and      *)
(* waitForMessage (lib/wait_for_message.js), a subscription that waits for *)
(* one message.                                                            *)
(*                                                                         *)
(* The middleware delivers a request or a response at any time or never;   *)
(* a request has a sequence number of its own.  Of user code: a service    *)
(* callback sends at most once, and not after it has returned a response.  *)
(***************************************************************************)
EXTENDS Naturals

CONSTANTS
  Calls,      \* requests
  Waits       \* calls of waitForMessage

ASSUME DisjointAssumption == Calls \cap Waits = {}

VARIABLES
  state,      \* of a call or wait: idle, pending, or how it ended
  opts,      \* options of a call: [timeout, signal], whether there is one
  table,      \* _sequenceNumberToCallbackMap
  aborted,    \* calls whose user signal has been aborted
  fired,      \* calls and waits whose timer has fired
  clientAlive,
  delivered,  \* how often the callback of a request has been called
  requests,   \* requests under way
  responses,  \* responses under way, by their request
  handler,    \* of a request at the service
  sent,       \* Response.sent
  answers,    \* how many responses the service has sent to a request
  serviceAlive,
  subs        \* subscriptions of waitForMessage

clientVars == <<state, opts, table, aborted, fired, clientAlive, delivered>>
serviceVars == <<handler, sent, answers, serviceAlive>>
vars == <<clientVars, requests, responses, serviceVars, subs>>

Outcomes == {"answered", "timeout", "abort", "error"}

Options == [timeout : BOOLEAN, signal : BOOLEAN]
NoOptions == [timeout |-> FALSE, signal |-> FALSE]

\* Mutant: an aborted or timed out request keeps its entry.
RejectKeepsEntry(q, outcome) ==
  /\ state' = [state EXCEPT ![q] = outcome]
  /\ table' = IF outcome = "answered" THEN table \ {q} ELSE table

\* A call whose promise is not settled yet is settled; cleanup() drops its entry and
\* listeners.
Reject(q, outcome) ==
  /\ state' = [state EXCEPT ![q] = outcome]
  /\ table' = table \ {q}

-------------------------------------------------------------------------------
(* The client *)

\* sendRequest, with a callback: there is no timeout and nothing to abort it.
SendRequest(q) ==
  /\ state[q] = "idle"
  /\ clientAlive
  /\ state' = [state EXCEPT ![q] = "pending"]
  /\ opts' = [opts EXCEPT ![q] = NoOptions]
  /\ table' = table \cup {q}
  /\ requests' = requests \cup {q}
  /\ UNCHANGED <<aborted, fired, clientAlive, delivered, responses, serviceVars, subs>>

\* sendRequestAsync whose signal is aborted already, or whose request cannot be
\* validated, serialised or sent, as with a destroyed client.
SendFails(q, options) ==
  /\ state[q] = "idle"
  /\ state' = [state EXCEPT ![q] = IF options.signal /\ q \in aborted THEN "abort" ELSE "error"]
  /\ opts' = [opts EXCEPT ![q] = options]
  /\ UNCHANGED <<table, aborted, fired, clientAlive, delivered, requests, responses,
                 serviceVars, subs>>

SendRequestAsync(q, options) ==
  /\ state[q] = "idle"
  /\ clientAlive
  /\ ~(options.signal /\ q \in aborted)
  /\ state' = [state EXCEPT ![q] = "pending"]
  /\ opts' = [opts EXCEPT ![q] = options]
  /\ table' = table \cup {q}
  /\ requests' = requests \cup {q}
  /\ UNCHANGED <<aborted, fired, clientAlive, delivered, responses, serviceVars, subs>>

\* The verbs of a parameter client: a request with a timeout in every case.
ParameterRequest(q, signal) == SendRequestAsync(q, [timeout |-> TRUE, signal |-> signal])

\* Mutant: the listener that notes the timeout is added last.
SettleFirst == <<"onAbort", "onTimeout">>

\* Listeners of the abort of the timer's signal: the one that notes the timeout was
\* added before the one that settles the promise.
TimerListeners == <<"onTimeout", "onAbort">>

\* Mutant: destroying the client stops its timers.
TimeoutWithClient(q) ==
  /\ clientAlive
  /\ opts[q].timeout
  /\ state[q] # "idle"
  /\ q \notin fired
  /\ fired' = fired \cup {q}
  /\ IF state[q] = "pending" THEN Reject(q, "timeout") ELSE UNCHANGED <<state, table>>
  /\ UNCHANGED <<opts, aborted, clientAlive, delivered, requests, responses, serviceVars, subs>>

\* The timer of a request fires: its listeners, if they are there still, run in order.
TimeoutFires(q) ==
  LET told == IF TimerListeners[1] = "onTimeout" THEN "timeout" ELSE "abort"
  IN /\ opts[q].timeout
     /\ state[q] # "idle"
     /\ q \notin fired
     /\ fired' = fired \cup {q}
     /\ IF state[q] = "pending" THEN Reject(q, told) ELSE UNCHANGED <<state, table>>
     /\ UNCHANGED <<opts, aborted, clientAlive, delivered, requests, responses, serviceVars, subs>>

\* The user aborts the signal given for a request, before the call or later.
UserAborts(q) ==
  /\ q \notin aborted
  /\ aborted' = aborted \cup {q}
  /\ IF state[q] = "pending" /\ opts[q].signal
       THEN Reject(q, "abort")
       ELSE UNCHANGED <<state, table>>
  /\ UNCHANGED <<opts, fired, clientAlive, delivered, requests, responses, serviceVars, subs>>

\* processResponse: a response without entry is dropped.
ProcessResponse(q) ==
  /\ clientAlive
  /\ responses[q] > 0
  /\ responses' = [responses EXCEPT ![q] = @ - 1]
  /\ IF q \in table
       THEN /\ Reject(q, "answered")
            /\ delivered' = [delivered EXCEPT ![q] = @ + 1]
       ELSE UNCHANGED <<state, table, delivered>>
  /\ UNCHANGED <<opts, aborted, fired, clientAlive, requests, serviceVars, subs>>

\* destroyClient: the table is left as it is, and so are the promises.
DestroyClient ==
  /\ clientAlive
  /\ clientAlive' = FALSE
  /\ UNCHANGED <<state, opts, table, aborted, fired, delivered, requests, responses,
                 serviceVars, subs>>

-------------------------------------------------------------------------------
(* The service *)

\* The response goes out, unless the service has been destroyed: then sendResponse throws.
SendResponse(q) ==
  IF serviceAlive
    THEN /\ responses' = [responses EXCEPT ![q] = @ + 1]
         /\ answers' = [answers EXCEPT ![q] = @ + 1]
    ELSE UNCHANGED <<responses, answers>>

\* processRequest: the callback runs up to its first await.
ProcessRequest(q) ==
  /\ serviceAlive
  /\ q \in requests
  /\ requests' = requests \ {q}
  /\ handler' = [handler EXCEPT ![q] = "open"]
  /\ UNCHANGED <<clientVars, responses, sent, answers, serviceAlive, subs>>

\* The callback throws before it awaits anything: nothing catches that but the caller of
\* execute(), and nobody is answered.
CallbackThrows(q) ==
  /\ serviceAlive
  /\ q \in requests
  /\ requests' = requests \ {q}
  /\ handler' = [handler EXCEPT ![q] = "lost"]
  /\ UNCHANGED <<clientVars, responses, sent, answers, serviceAlive, subs>>

\* Response.send, also after the callback has returned nothing.
ResponseSend(q) ==
  /\ handler[q] \in {"open", "kept"}
  /\ ~sent[q]
  /\ SendResponse(q)
  /\ sent' = [sent EXCEPT ![q] = serviceAlive]
  /\ UNCHANGED <<clientVars, requests, handler, serviceAlive, subs>>

\* Mutant: the flag of the response is not looked at.
ReturnsAgain(q, response) ==
  /\ handler[q] = "open"
  /\ handler' = [handler EXCEPT ![q] = IF response THEN "done" ELSE "kept"]
  /\ IF response THEN SendResponse(q) ELSE UNCHANGED <<responses, answers>>
  /\ UNCHANGED <<clientVars, requests, sent, serviceAlive, subs>>

\* The callback, or the promise it gave, settles: with a response or with nothing.
CallbackReturns(q, response) ==
  /\ handler[q] = "open"
  /\ handler' = [handler EXCEPT ![q] = IF response THEN "done" ELSE "kept"]
  /\ IF response /\ ~sent[q] THEN SendResponse(q) ELSE UNCHANGED <<responses, answers>>
  /\ UNCHANGED <<clientVars, requests, sent, serviceAlive, subs>>

\* The promise is rejected, which is logged.
CallbackRejects(q) ==
  /\ handler[q] = "open"
  /\ handler' = [handler EXCEPT ![q] = "lost"]
  /\ UNCHANGED <<clientVars, requests, responses, sent, answers, serviceAlive, subs>>

DestroyService ==
  /\ serviceAlive
  /\ serviceAlive' = FALSE
  /\ UNCHANGED <<clientVars, requests, responses, handler, sent, answers, subs>>

-------------------------------------------------------------------------------
(* waitForMessage *)

waitRest == <<opts, table, aborted, clientAlive, delivered, requests, responses, serviceVars>>

Settle(w, outcome) ==
  /\ state' = [state EXCEPT ![w] = outcome]
  /\ subs' = subs \ {w}

\* A subscription and, unless the user gave none, a timer.  A wait without one is never in fired.
WaitForMessage(w) ==
  /\ state[w] = "idle"
  /\ state' = [state EXCEPT ![w] = "pending"]
  /\ subs' = subs \cup {w}
  /\ UNCHANGED <<fired, waitRest>>

\* createSubscription throws.
WaitFails(w) ==
  /\ state[w] = "idle"
  /\ state' = [state EXCEPT ![w] = "error"]
  /\ UNCHANGED <<fired, subs, waitRest>>

\* A message comes; a second one of the same batch finds the subscription destroyed.
MessageArrives(w) ==
  /\ w \in subs
  /\ Settle(w, "answered")
  /\ UNCHANGED <<fired, waitRest>>

WaitTimesOut(w) ==
  /\ w \in subs
  /\ fired' = fired \cup {w}
  /\ Settle(w, "timeout")
  /\ UNCHANGED waitRest

-------------------------------------------------------------------------------
Init ==
  /\ state = [o \in Calls \cup Waits |-> "idle"]
  /\ opts = [q \in Calls |-> NoOptions]
  /\ table = {} /\ aborted = {} /\ fired = {} /\ requests = {} /\ subs = {}
  /\ clientAlive = TRUE /\ serviceAlive = TRUE
  /\ delivered = [q \in Calls |-> 0]
  /\ responses = [q \in Calls |-> 0]
  /\ handler = [q \in Calls |-> "none"]
  /\ sent = [q \in Calls |-> FALSE]
  /\ answers = [q \in Calls |-> 0]

Client(q) ==
  \/ SendRequest(q) \/ TimeoutFires(q) \/ UserAborts(q) \/ ProcessResponse(q)
  \/ \E options \in Options : SendFails(q, options) \/ SendRequestAsync(q, options)
  \/ \E signal \in BOOLEAN : ParameterRequest(q, signal)

Service(q) ==
  \/ ProcessRequest(q) \/ CallbackThrows(q) \/ ResponseSend(q) \/ CallbackRejects(q)
  \/ \E response \in BOOLEAN : CallbackReturns(q, response)

Waiting(w) == WaitForMessage(w) \/ WaitFails(w) \/ MessageArrives(w) \/ WaitTimesOut(w)

Next ==
  \/ \E q \in Calls : Client(q) \/ Service(q)
  \/ \E w \in Waits : Waiting(w)
  \/ DestroyClient \/ DestroyService

Spec == Init /\ [][Next]_vars

\* Timers fire.  Nothing else is owed: the service may never answer.
FairSpec == Spec /\ \A q \in Calls : WF_vars(TimeoutFires(q))

-------------------------------------------------------------------------------
(* Properties *)

\* The type of every variable.
TypeOK ==
  /\ state \in [Calls \cup Waits -> {"idle", "pending"} \cup Outcomes]
  /\ opts \in [Calls -> Options]
  /\ table \subseteq Calls /\ aborted \subseteq Calls /\ requests \subseteq Calls
  /\ fired \subseteq Calls \cup Waits /\ subs \subseteq Waits
  /\ clientAlive \in BOOLEAN /\ serviceAlive \in BOOLEAN
  /\ delivered \in [Calls -> Nat] /\ responses \in [Calls -> Nat] /\ answers \in [Calls -> Nat]
  /\ handler \in [Calls -> {"none", "open", "kept", "done", "lost"}]
  /\ sent \in [Calls -> BOOLEAN]

\* Every request and every wait is a one-shot operation: it ends once, in one way, and what
\* it holds, an entry of the table or a subscription, is there just while it is pending,
\* whichever of answer, timeout, abort and failure comes first (lib/client.js:146, 233,
\* lib/wait_for_message.js:66).
AsOneShot == INSTANCE OneShot WITH Ops <- Calls \cup Waits, held <- table \cup subs
IsOneShot == AsOneShot!Spec

\* A promise rejected for a timeout had its timer fired, one rejected for an abort was
\* aborted by the user, though both come as the abort of one signal (lib/client.js:159).
ErrorNamesCause ==
  \A q \in Calls : /\ state[q] = "timeout" => q \in fired
                   /\ state[q] = "abort" => q \in aborted

\* A request gets one response and its callback one call, whether the service callback
\* sends, returns, or does both, in any order with its own promise (lib/service.js:81,
\* lib/client.js:237).
OneAnswer == \A q \in Calls : answers[q] <= 1 /\ delivered[q] <= answers[q]

\* A request that is given a timeout is settled, with a destroyed client, a destroyed
\* service or a service that never answers, too (lib/client.js:175).
TimeoutSettles ==
  \A q \in Calls :
    (state[q] = "pending" /\ opts[q].timeout) ~> state[q] \in Outcomes

-------------------------------------------------------------------------------
(* The inductive invariant behind the safety properties.                       *)

\* Who is pending holds an entry or a subscription, and nobody else.
PendingHolds ==
  /\ \A q \in Calls : q \in table <=> state[q] = "pending"
  /\ \A w \in Waits : w \in subs <=> state[w] = "pending"

\* A request is at the client, under way, or at the service, in this order; responses
\* under way and delivered are among those that were sent.
RequestInv ==
  \A q \in Calls :
    /\ q \in requests \/ state[q] = "idle" => handler[q] = "none"
    /\ state[q] = "idle" => q \notin requests
    /\ handler[q] = "none" => ~sent[q]
    /\ answers[q] <= 1
    /\ ~sent[q] /\ handler[q] # "done" => answers[q] = 0
    /\ delivered[q] + responses[q] <= answers[q]

IInv == PendingHolds /\ ErrorNamesCause /\ RequestInv
================================================================================
