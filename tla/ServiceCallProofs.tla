-------------------------- MODULE ServiceCallProofs --------------------------
(***************************************************************************)
(* Theorems about ServiceCall for any numbers of requests and waits.       *)
(*                                                                         *)
(* The argument: who is pending holds an entry of the table or a           *)
(* subscription, and nobody else (PendingHolds), which is what a one-shot  *)
(* operation does; a response that is under way or was delivered is one    *)
(* that the service sent, and it sends one (RequestInv).                   *)
(***************************************************************************)
EXTENDS ServiceCall, TLAPS

USE DisjointAssumption DEF clientVars, serviceVars, Outcomes

-------------------------------------------------------------------------------
\* Every step keeps the types.
LEMMA TypeKept ==
  ASSUME TypeOK, [Next]_vars
  PROVE  TypeOK'
<1> USE DEF TypeOK, Options, NoOptions
<1>1. ASSUME NEW q \in Calls, SendRequest(q)
      PROVE  TypeOK'
  BY <1>1 DEF SendRequest
<1>2. ASSUME NEW q \in Calls, NEW o \in Options, SendFails(q, o)
      PROVE  TypeOK'
  BY <1>2 DEF SendFails
<1>3. ASSUME NEW q \in Calls, NEW o \in Options, SendRequestAsync(q, o)
      PROVE  TypeOK'
  BY <1>3 DEF SendRequestAsync
<1>4. ASSUME NEW q \in Calls, TimeoutFires(q)
      PROVE  TypeOK'
  BY <1>4 DEF TimeoutFires, TimerListeners, Reject
<1>5. ASSUME NEW q \in Calls, UserAborts(q)
      PROVE  TypeOK'
  BY <1>5 DEF UserAborts, Reject
<1>6. ASSUME NEW q \in Calls, ProcessResponse(q)
      PROVE  TypeOK'
  BY <1>6 DEF ProcessResponse, Reject
<1>7. ASSUME NEW q \in Calls, ProcessRequest(q)
      PROVE  TypeOK'
  BY <1>7 DEF ProcessRequest
<1>8. ASSUME NEW q \in Calls, CallbackThrows(q)
      PROVE  TypeOK'
  BY <1>8 DEF CallbackThrows
<1>9. ASSUME NEW q \in Calls, ResponseSend(q)
      PROVE  TypeOK'
  BY <1>9 DEF ResponseSend, SendResponse
<1>10. ASSUME NEW q \in Calls, CallbackRejects(q)
      PROVE  TypeOK'
  BY <1>10 DEF CallbackRejects
<1>11. ASSUME NEW q \in Calls, NEW b \in BOOLEAN, CallbackReturns(q, b)
      PROVE  TypeOK'
  BY <1>11, SMTT(30) DEF CallbackReturns, SendResponse
<1>12. ASSUME NEW w \in Waits, WaitForMessage(w)
      PROVE  TypeOK'
  BY <1>12 DEF WaitForMessage, waitRest
<1>13. ASSUME NEW w \in Waits, WaitFails(w)
      PROVE  TypeOK'
  BY <1>13 DEF WaitFails, waitRest
<1>14. ASSUME NEW w \in Waits, MessageArrives(w)
      PROVE  TypeOK'
  BY <1>14 DEF MessageArrives, Settle, waitRest
<1>15. ASSUME NEW w \in Waits, WaitTimesOut(w)
      PROVE  TypeOK'
  BY <1>15 DEF WaitTimesOut, Settle, waitRest
<1>16. ASSUME DestroyClient
      PROVE  TypeOK'
  BY <1>16 DEF DestroyClient
<1>17. ASSUME DestroyService
      PROVE  TypeOK'
  BY <1>17 DEF DestroyService
<1>18. CASE UNCHANGED vars
  BY <1>18 DEF vars
<1>19. ASSUME NEW q \in Calls, NEW s \in BOOLEAN, ParameterRequest(q, s)
      PROVE  TypeOK'
  BY <1>3, <1>19 DEF ParameterRequest, Options
<1> QED
  BY <1>1, <1>2, <1>3, <1>4, <1>5, <1>6, <1>7, <1>8, <1>9,
     <1>10, <1>11, <1>12, <1>13, <1>14, <1>15, <1>16, <1>17, <1>18, <1>19 DEF Next, Client, Service, Waiting

\* Every variable keeps its type.
THEOREM TypeCorrect == Spec => []TypeOK
<1>1. Init => TypeOK
  BY DEF Init, TypeOK, Options, NoOptions
<1> QED
  BY <1>1, TypeKept, PTL DEF Spec

\* Whatever ends an operation gives back what it holds.
LEMMA HoldingKept ==
  ASSUME TypeOK, PendingHolds, [Next]_vars
  PROVE  PendingHolds'
<1> USE DEF TypeOK, PendingHolds
<1>1. ASSUME NEW q \in Calls, SendRequest(q)
      PROVE  PendingHolds'
  BY <1>1 DEF SendRequest
<1>2. ASSUME NEW q \in Calls, NEW o \in Options, SendFails(q, o)
      PROVE  PendingHolds'
  BY <1>2 DEF SendFails
<1>3. ASSUME NEW q \in Calls, NEW o \in Options, SendRequestAsync(q, o)
      PROVE  PendingHolds'
  BY <1>3 DEF SendRequestAsync
<1>4. ASSUME NEW q \in Calls, TimeoutFires(q)
      PROVE  PendingHolds'
  BY <1>4 DEF TimeoutFires, TimerListeners, Reject
<1>5. ASSUME NEW q \in Calls, UserAborts(q)
      PROVE  PendingHolds'
  BY <1>5 DEF UserAborts, Reject
<1>6. ASSUME NEW q \in Calls, ProcessResponse(q)
      PROVE  PendingHolds'
  BY <1>6 DEF ProcessResponse, Reject
<1>7. ASSUME NEW q \in Calls, ProcessRequest(q)
      PROVE  PendingHolds'
  BY <1>7 DEF ProcessRequest
<1>8. ASSUME NEW q \in Calls, CallbackThrows(q)
      PROVE  PendingHolds'
  BY <1>8 DEF CallbackThrows
<1>9. ASSUME NEW q \in Calls, ResponseSend(q)
      PROVE  PendingHolds'
  BY <1>9 DEF ResponseSend, SendResponse
<1>10. ASSUME NEW q \in Calls, CallbackRejects(q)
      PROVE  PendingHolds'
  BY <1>10 DEF CallbackRejects
<1>11. ASSUME NEW q \in Calls, NEW b \in BOOLEAN, CallbackReturns(q, b)
      PROVE  PendingHolds'
  BY <1>11, SMTT(30) DEF CallbackReturns, SendResponse
<1>12. ASSUME NEW w \in Waits, WaitForMessage(w)
      PROVE  PendingHolds'
  BY <1>12 DEF WaitForMessage, waitRest
<1>13. ASSUME NEW w \in Waits, WaitFails(w)
      PROVE  PendingHolds'
  BY <1>13 DEF WaitFails, waitRest
<1>14. ASSUME NEW w \in Waits, MessageArrives(w)
      PROVE  PendingHolds'
  BY <1>14 DEF MessageArrives, Settle, waitRest
<1>15. ASSUME NEW w \in Waits, WaitTimesOut(w)
      PROVE  PendingHolds'
  BY <1>15 DEF WaitTimesOut, Settle, waitRest
<1>16. ASSUME DestroyClient
      PROVE  PendingHolds'
  BY <1>16 DEF DestroyClient
<1>17. ASSUME DestroyService
      PROVE  PendingHolds'
  BY <1>17 DEF DestroyService
<1>18. CASE UNCHANGED vars
  BY <1>18 DEF vars
<1>19. ASSUME NEW q \in Calls, NEW s \in BOOLEAN, ParameterRequest(q, s)
      PROVE  PendingHolds'
  BY <1>3, <1>19 DEF ParameterRequest, Options
<1> QED
  BY <1>1, <1>2, <1>3, <1>4, <1>5, <1>6, <1>7, <1>8, <1>9,
     <1>10, <1>11, <1>12, <1>13, <1>14, <1>15, <1>16, <1>17, <1>18, <1>19 DEF Next, Client, Service, Waiting

\* Every step keeps the causes of errors.
LEMMA CauseKept ==
  ASSUME TypeOK, ErrorNamesCause, [Next]_vars
  PROVE  ErrorNamesCause'
<1> USE DEF TypeOK, ErrorNamesCause
<1>1. ASSUME NEW q \in Calls, SendRequest(q)
      PROVE  ErrorNamesCause'
  BY <1>1 DEF SendRequest
<1>2. ASSUME NEW q \in Calls, NEW o \in Options, SendFails(q, o)
      PROVE  ErrorNamesCause'
  BY <1>2 DEF SendFails
<1>3. ASSUME NEW q \in Calls, NEW o \in Options, SendRequestAsync(q, o)
      PROVE  ErrorNamesCause'
  BY <1>3 DEF SendRequestAsync
<1>4. ASSUME NEW q \in Calls, TimeoutFires(q)
      PROVE  ErrorNamesCause'
  BY <1>4 DEF TimeoutFires, TimerListeners, Reject
<1>5. ASSUME NEW q \in Calls, UserAborts(q)
      PROVE  ErrorNamesCause'
  BY <1>5 DEF UserAborts, Reject
<1>6. ASSUME NEW q \in Calls, ProcessResponse(q)
      PROVE  ErrorNamesCause'
  BY <1>6 DEF ProcessResponse, Reject
<1>7. ASSUME NEW q \in Calls, ProcessRequest(q)
      PROVE  ErrorNamesCause'
  BY <1>7 DEF ProcessRequest
<1>8. ASSUME NEW q \in Calls, CallbackThrows(q)
      PROVE  ErrorNamesCause'
  BY <1>8 DEF CallbackThrows
<1>9. ASSUME NEW q \in Calls, ResponseSend(q)
      PROVE  ErrorNamesCause'
  BY <1>9 DEF ResponseSend, SendResponse
<1>10. ASSUME NEW q \in Calls, CallbackRejects(q)
      PROVE  ErrorNamesCause'
  BY <1>10 DEF CallbackRejects
<1>11. ASSUME NEW q \in Calls, NEW b \in BOOLEAN, CallbackReturns(q, b)
      PROVE  ErrorNamesCause'
  BY <1>11, SMTT(30) DEF CallbackReturns, SendResponse
<1>12. ASSUME NEW w \in Waits, WaitForMessage(w)
      PROVE  ErrorNamesCause'
  BY <1>12 DEF WaitForMessage, waitRest
<1>13. ASSUME NEW w \in Waits, WaitFails(w)
      PROVE  ErrorNamesCause'
  BY <1>13 DEF WaitFails, waitRest
<1>14. ASSUME NEW w \in Waits, MessageArrives(w)
      PROVE  ErrorNamesCause'
  BY <1>14 DEF MessageArrives, Settle, waitRest
<1>15. ASSUME NEW w \in Waits, WaitTimesOut(w)
      PROVE  ErrorNamesCause'
  BY <1>15 DEF WaitTimesOut, Settle, waitRest
<1>16. ASSUME DestroyClient
      PROVE  ErrorNamesCause'
  BY <1>16 DEF DestroyClient
<1>17. ASSUME DestroyService
      PROVE  ErrorNamesCause'
  BY <1>17 DEF DestroyService
<1>18. CASE UNCHANGED vars
  BY <1>18 DEF vars
<1>19. ASSUME NEW q \in Calls, NEW s \in BOOLEAN, ParameterRequest(q, s)
      PROVE  ErrorNamesCause'
  BY <1>3, <1>19 DEF ParameterRequest, Options
<1> QED
  BY <1>1, <1>2, <1>3, <1>4, <1>5, <1>6, <1>7, <1>8, <1>9,
     <1>10, <1>11, <1>12, <1>13, <1>14, <1>15, <1>16, <1>17, <1>18, <1>19 DEF Next, Client, Service, Waiting

\* Every step keeps the order of a request, its responses and their delivery.
LEMMA RequestKept ==
  ASSUME TypeOK, PendingHolds, RequestInv, [Next]_vars
  PROVE  RequestInv'
<1> USE DEF TypeOK, PendingHolds, RequestInv
<1>1. ASSUME NEW q \in Calls, SendRequest(q)
      PROVE  RequestInv'
  BY <1>1 DEF SendRequest
<1>2. ASSUME NEW q \in Calls, NEW o \in Options, SendFails(q, o)
      PROVE  RequestInv'
  BY <1>2 DEF SendFails
<1>3. ASSUME NEW q \in Calls, NEW o \in Options, SendRequestAsync(q, o)
      PROVE  RequestInv'
  BY <1>3 DEF SendRequestAsync
<1>4. ASSUME NEW q \in Calls, TimeoutFires(q)
      PROVE  RequestInv'
  BY <1>4 DEF TimeoutFires, TimerListeners, Reject
<1>5. ASSUME NEW q \in Calls, UserAborts(q)
      PROVE  RequestInv'
  BY <1>5 DEF UserAborts, Reject
<1>6. ASSUME NEW q \in Calls, ProcessResponse(q)
      PROVE  RequestInv'
  BY <1>6 DEF ProcessResponse, Reject
<1>7. ASSUME NEW q \in Calls, ProcessRequest(q)
      PROVE  RequestInv'
  BY <1>7 DEF ProcessRequest
<1>8. ASSUME NEW q \in Calls, CallbackThrows(q)
      PROVE  RequestInv'
  BY <1>8 DEF CallbackThrows
<1>9. ASSUME NEW q \in Calls, ResponseSend(q)
      PROVE  RequestInv'
  BY <1>9 DEF ResponseSend, SendResponse
<1>10. ASSUME NEW q \in Calls, CallbackRejects(q)
      PROVE  RequestInv'
  BY <1>10 DEF CallbackRejects
<1>11. ASSUME NEW q \in Calls, NEW b \in BOOLEAN, CallbackReturns(q, b)
      PROVE  RequestInv'
  BY <1>11, SMTT(30) DEF CallbackReturns, SendResponse
<1>12. ASSUME NEW w \in Waits, WaitForMessage(w)
      PROVE  RequestInv'
  BY <1>12 DEF WaitForMessage, waitRest
<1>13. ASSUME NEW w \in Waits, WaitFails(w)
      PROVE  RequestInv'
  BY <1>13 DEF WaitFails, waitRest
<1>14. ASSUME NEW w \in Waits, MessageArrives(w)
      PROVE  RequestInv'
  BY <1>14 DEF MessageArrives, Settle, waitRest
<1>15. ASSUME NEW w \in Waits, WaitTimesOut(w)
      PROVE  RequestInv'
  BY <1>15 DEF WaitTimesOut, Settle, waitRest
<1>16. ASSUME DestroyClient
      PROVE  RequestInv'
  BY <1>16 DEF DestroyClient
<1>17. ASSUME DestroyService
      PROVE  RequestInv'
  BY <1>17 DEF DestroyService
<1>18. CASE UNCHANGED vars
  BY <1>18 DEF vars
<1>19. ASSUME NEW q \in Calls, NEW s \in BOOLEAN, ParameterRequest(q, s)
      PROVE  RequestInv'
  BY <1>3, <1>19 DEF ParameterRequest, Options
<1> QED
  BY <1>1, <1>2, <1>3, <1>4, <1>5, <1>6, <1>7, <1>8, <1>9,
     <1>10, <1>11, <1>12, <1>13, <1>14, <1>15, <1>16, <1>17, <1>18, <1>19 DEF Next, Client, Service, Waiting

\* The invariant holds throughout.
LEMMA Invariance == Spec => []IInv
<1>1. Init => IInv
  BY DEF Init, IInv, PendingHolds, ErrorNamesCause, RequestInv
<1>2. TypeOK /\ IInv /\ [Next]_vars => IInv'
  BY HoldingKept, CauseKept, RequestKept DEF IInv
<1> QED
  BY <1>1, <1>2, TypeCorrect, PTL DEF Spec

\* The error of a request names what ended it, a timeout or the user, though both abort
\* one signal of lib/client.js.
THEOREM ErrorsAreTrue == Spec => []ErrorNamesCause
<1>1. IInv => ErrorNamesCause
  BY DEF IInv
<1> QED
  BY <1>1, Invariance, PTL

\* A request gets one response from lib/service.js and its callback in lib/client.js one
\* call, in whatever order the service callback sends and returns.
THEOREM AnsweredOnce == Spec => []OneAnswer
<1>1. TypeOK /\ IInv => OneAnswer
  <2> SUFFICES ASSUME TypeOK, IInv, NEW q \in Calls
               PROVE  answers[q] <= 1 /\ delivered[q] <= answers[q]
    BY DEF OneAnswer
  <2>1. delivered[q] \in Nat /\ responses[q] \in Nat /\ answers[q] \in Nat
    BY DEF TypeOK
  <2> QED
    BY <2>1 DEF IInv, RequestInv
<1> QED
  BY <1>1, TypeCorrect, Invariance, PTL

\* Every step is one of OneShot or leaves its variables alone.
LEMMA OneShotStep ==
  ASSUME TypeOK, IInv, [Next]_vars
  PROVE  [AsOneShot!Next]_<<state, table \cup subs>>
<1> USE DEF TypeOK, IInv, PendingHolds
<1>1. ASSUME NEW q \in Calls, SendRequest(q)
      PROVE  [AsOneShot!Next]_<<state, table \cup subs>>
  <2>1. AsOneShot!Begin(q)
    BY <1>1 DEF SendRequest, AsOneShot!Begin
  <2> QED
    BY <2>1, <1>1 DEF AsOneShot!Next
<1>2. ASSUME NEW q \in Calls, NEW o \in Options, SendFails(q, o)
      PROVE  [AsOneShot!Next]_<<state, table \cup subs>>
  BY <1>2 DEF SendFails, AsOneShot!Next, AsOneShot!Begin, AsOneShot!Refuse, AsOneShot!Settle
<1>3. ASSUME NEW q \in Calls, NEW o \in Options, SendRequestAsync(q, o)
      PROVE  [AsOneShot!Next]_<<state, table \cup subs>>
  <2>1. AsOneShot!Begin(q)
    BY <1>3 DEF SendRequestAsync, AsOneShot!Begin
  <2> QED
    BY <2>1, <1>3 DEF AsOneShot!Next
<1>4. ASSUME NEW q \in Calls, TimeoutFires(q)
      PROVE  [AsOneShot!Next]_<<state, table \cup subs>>
  BY <1>4 DEF TimeoutFires, TimerListeners, Reject, AsOneShot!Next, AsOneShot!Begin, AsOneShot!Refuse, AsOneShot!Settle
<1>5. ASSUME NEW q \in Calls, UserAborts(q)
      PROVE  [AsOneShot!Next]_<<state, table \cup subs>>
  BY <1>5 DEF UserAborts, Reject, AsOneShot!Next, AsOneShot!Begin, AsOneShot!Refuse, AsOneShot!Settle
<1>6. ASSUME NEW q \in Calls, ProcessResponse(q)
      PROVE  [AsOneShot!Next]_<<state, table \cup subs>>
  BY <1>6 DEF ProcessResponse, Reject, AsOneShot!Next, AsOneShot!Begin, AsOneShot!Refuse, AsOneShot!Settle
<1>7. ASSUME NEW q \in Calls, ProcessRequest(q)
      PROVE  [AsOneShot!Next]_<<state, table \cup subs>>
  BY <1>7 DEF ProcessRequest, AsOneShot!Next, AsOneShot!Begin, AsOneShot!Refuse, AsOneShot!Settle
<1>8. ASSUME NEW q \in Calls, CallbackThrows(q)
      PROVE  [AsOneShot!Next]_<<state, table \cup subs>>
  BY <1>8 DEF CallbackThrows, AsOneShot!Next, AsOneShot!Begin, AsOneShot!Refuse, AsOneShot!Settle
<1>9. ASSUME NEW q \in Calls, ResponseSend(q)
      PROVE  [AsOneShot!Next]_<<state, table \cup subs>>
  BY <1>9 DEF ResponseSend, SendResponse, AsOneShot!Next, AsOneShot!Begin, AsOneShot!Refuse, AsOneShot!Settle
<1>10. ASSUME NEW q \in Calls, CallbackRejects(q)
      PROVE  [AsOneShot!Next]_<<state, table \cup subs>>
  BY <1>10 DEF CallbackRejects, AsOneShot!Next, AsOneShot!Begin, AsOneShot!Refuse, AsOneShot!Settle
<1>11. ASSUME NEW q \in Calls, NEW b \in BOOLEAN, CallbackReturns(q, b)
      PROVE  [AsOneShot!Next]_<<state, table \cup subs>>
  BY <1>11 DEF CallbackReturns, SendResponse, AsOneShot!Next, AsOneShot!Begin, AsOneShot!Refuse, AsOneShot!Settle
<1>12. ASSUME NEW w \in Waits, WaitForMessage(w)
      PROVE  [AsOneShot!Next]_<<state, table \cup subs>>
  <2>1. AsOneShot!Begin(w)
    BY <1>12 DEF WaitForMessage, waitRest, AsOneShot!Begin
  <2> QED
    BY <2>1, <1>12 DEF AsOneShot!Next
<1>13. ASSUME NEW w \in Waits, WaitFails(w)
      PROVE  [AsOneShot!Next]_<<state, table \cup subs>>
  BY <1>13 DEF WaitFails, waitRest, AsOneShot!Next, AsOneShot!Begin, AsOneShot!Refuse, AsOneShot!Settle
<1>14. ASSUME NEW w \in Waits, MessageArrives(w)
      PROVE  [AsOneShot!Next]_<<state, table \cup subs>>
  <2>1. AsOneShot!Settle(w, "answered")
    BY <1>14 DEF MessageArrives, Settle, waitRest, AsOneShot!Settle
  <2> QED
    BY <2>1, <1>14 DEF AsOneShot!Next
<1>15. ASSUME NEW w \in Waits, WaitTimesOut(w)
      PROVE  [AsOneShot!Next]_<<state, table \cup subs>>
  <2>1. AsOneShot!Settle(w, "timeout")
    BY <1>15 DEF WaitTimesOut, Settle, waitRest, AsOneShot!Settle
  <2> QED
    BY <2>1, <1>15 DEF AsOneShot!Next
<1>16. ASSUME DestroyClient
      PROVE  [AsOneShot!Next]_<<state, table \cup subs>>
  BY <1>16 DEF DestroyClient, AsOneShot!Next, AsOneShot!Begin, AsOneShot!Refuse, AsOneShot!Settle
<1>17. ASSUME DestroyService
      PROVE  [AsOneShot!Next]_<<state, table \cup subs>>
  BY <1>17 DEF DestroyService, AsOneShot!Next, AsOneShot!Begin, AsOneShot!Refuse, AsOneShot!Settle
<1>18. CASE UNCHANGED vars
  BY <1>18 DEF vars
<1>19. ASSUME NEW q \in Calls, NEW s \in BOOLEAN, ParameterRequest(q, s)
      PROVE  [AsOneShot!Next]_<<state, table \cup subs>>
  BY <1>3, <1>19 DEF ParameterRequest, Options
<1> QED
  BY <1>1, <1>2, <1>3, <1>4, <1>5, <1>6, <1>7, <1>8, <1>9,
     <1>10, <1>11, <1>12, <1>13, <1>14, <1>15, <1>16, <1>17, <1>18, <1>19 DEF Next, Client, Service, Waiting

\* Requests and waits implement OneShot: each ends once, in one way, and gives back what
\* it holds.
THEOREM Implements == Spec => IsOneShot
<1>1. Init => AsOneShot!Init
  BY DEF Init, AsOneShot!Init
<1> QED
  BY <1>1, OneShotStep, TypeCorrect, Invariance, PTL DEF Spec, IsOneShot, AsOneShot!Spec
===============================================================================
