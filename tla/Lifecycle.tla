------------------------------ MODULE Lifecycle ------------------------------
(***************************************************************************)
(* A managed node: _changeState and the change_state service of            *)
(* LifecycleNode (lib/lifecycle.js) over the state machine of rcl          *)
(* (src/rcl_lifecycle_bindings.cpp).                                       *)
(*                                                                         *)
(* A transition is one synchronous call with up to two callbacks of user   *)
(* code in it.  A callback returns a code or throws; what it does besides  *)
(* is to register callbacks and to ask for transitions, which throws, for  *)
(* rcl has none out of the state it is in then.                            *)
(***************************************************************************)

CONSTANTS
  Requests,   \* requests of the change_state service
  Local       \* a call of configure(), activate(), ... in this process

ASSUME LocalAssumption == Local \notin Requests

VARIABLES
  state,      \* current_state of the state machine
  callbacks,  \* _callbackMap: the transition states that have one
  phase,      \* the call under way: "idle", in its "callback" or its "error" callback
  start,      \* initialState of _changeState
  caller,     \* who made it
  answer      \* of a request: "none", "lost", "success" or "failure"

lifeVars == <<state, callbacks, phase, start, caller, answer>>

Primary == {"unconfigured", "inactive", "active", "finalized"}
Busy == {"configuring", "activating", "deactivating", "cleaningup", "shuttingdown"}
Codes == {"SUCCESS", "FAILURE", "ERROR"}

-------------------------------------------------------------------------------
(* The state machine of rcl *)

Labels == {"configure", "activate", "deactivate", "cleanup", "shutdown"}

\* The transitions that may be asked for in a state.
Available(s) ==
  CASE s = "unconfigured" -> {"configure", "shutdown"}
    [] s = "inactive" -> {"activate", "cleanup", "shutdown"}
    [] s = "active" -> {"deactivate", "shutdown"}
    [] OTHER -> {}

Enters(label) ==
  CASE label = "configure" -> "configuring"
    [] label = "activate" -> "activating"
    [] label = "deactivate" -> "deactivating"
    [] label = "cleanup" -> "cleaningup"
    [] label = "shutdown" -> "shuttingdown"

\* transition_success, transition_failure and transition_error.
Leaves(s, code) ==
  IF s = "errorprocessing" THEN IF code = "SUCCESS" THEN "unconfigured" ELSE "finalized"
  ELSE IF code = "ERROR" THEN "errorprocessing"
  ELSE CASE s = "configuring" -> IF code = "SUCCESS" THEN "inactive" ELSE "unconfigured"
         [] s = "activating" -> IF code = "SUCCESS" THEN "active" ELSE "inactive"
         [] s = "deactivating" -> IF code = "SUCCESS" THEN "inactive" ELSE "active"
         [] s = "cleaningup" -> IF code = "SUCCESS" THEN "unconfigured" ELSE "inactive"
         [] s = "shuttingdown" -> "finalized"

-------------------------------------------------------------------------------
(* A transition *)

\* The call is over, with the code of the last callback; a request is answered.
Finish(who, code) ==
  /\ phase' = "idle"
  /\ answer' = [q \in Requests |->
                  IF q # who THEN answer[q]
                  ELSE IF code = "SUCCESS" THEN "success" ELSE "failure"]

\* Mutant: an error that is dealt with takes the node back to where it was.
ProceedBack(from, who, code) ==
  LET next == Leaves(from, code)
  IN IF code # "ERROR"
       THEN state' = next /\ Finish(who, code)
       ELSE IF next \in callbacks
         THEN state' = next /\ phase' = "error" /\ UNCHANGED answer
         ELSE state' = start /\ Finish(who, "SUCCESS")

\* _changeState from the return of the first callback: a second one processes an error.
\* Without a callback the code is SUCCESS.
Proceed(from, who, code) ==
  LET next == Leaves(from, code)
  IN IF code # "ERROR"
       THEN state' = next /\ Finish(who, code)
       ELSE IF next \in callbacks
         THEN state' = next /\ phase' = "error" /\ UNCHANGED answer
         ELSE state' = Leaves(next, "SUCCESS") /\ Finish(who, "SUCCESS")

\* _changeState up to the first callback.
ChangeState(who, label) ==
  /\ phase = "idle"
  /\ label \in Available(state)
  /\ start' = state
  /\ caller' = who
  /\ IF Enters(label) \in callbacks
       THEN state' = Enters(label) /\ phase' = "callback" /\ UNCHANGED answer
       ELSE Proceed(Enters(label), who, "SUCCESS")
  /\ UNCHANGED callbacks

\* configure(), activate(), deactivate(), cleanup(), shutdown().  They throw where the
\* transition is not available, in a callback always.
Call(label) == ChangeState(Local, label)

\* _onChangeState
OnChangeState(q, label) ==
  /\ answer[q] = "none"
  /\ ChangeState(q, label)

\* The transition is not available: given by its label that is answered, given by its
\* id _changeState throws past the answer.
OnChangeStateRefused(q, label, byLabel) ==
  /\ phase = "idle"
  /\ answer[q] = "none"
  /\ label \notin Available(state)
  /\ answer' = [answer EXCEPT ![q] = IF byLabel THEN "failure" ELSE "lost"]
  /\ UNCHANGED <<state, callbacks, phase, start, caller>>

\* The callback returns a code; it throws, which is an ERROR.
CallbackReturns(code) ==
  /\ phase = "callback"
  /\ Proceed(state, caller, code)
  /\ UNCHANGED <<callbacks, start, caller>>

ErrorCallbackReturns(code) ==
  /\ phase = "error"
  /\ state' = Leaves(state, code)
  /\ Finish(caller, code)
  /\ UNCHANGED <<callbacks, start, caller>>

\* registerOnConfigure and the others
Register(s) ==
  /\ s \notin callbacks
  /\ callbacks' = callbacks \cup {s}
  /\ UNCHANGED <<state, phase, start, caller, answer>>

LifeInit ==
  /\ state = "unconfigured" /\ start = "unconfigured"
  /\ callbacks = {} /\ phase = "idle" /\ caller = Local
  /\ answer = [q \in Requests |-> "none"]

LifeNext ==
  \/ \E label \in Labels :
       \/ Call(label)
       \/ \E q \in Requests : \/ OnChangeState(q, label)
                              \/ \E b \in BOOLEAN : OnChangeStateRefused(q, label, b)
  \/ \E code \in Codes : CallbackReturns(code) \/ ErrorCallbackReturns(code)
  \/ \E s \in Busy \cup {"errorprocessing"} : Register(s)

LifeSpec == LifeInit /\ [][LifeNext]_lifeVars

-------------------------------------------------------------------------------
(* Properties *)

LifeOK ==
  /\ state \in Primary \cup Busy \cup {"errorprocessing"}
  /\ phase \in {"idle", "callback", "error"}
  /\ callbacks \subseteq Busy \cup {"errorprocessing"}
  /\ start \in Primary /\ caller \in Requests \cup {Local}
  /\ answer \in [Requests -> {"none", "lost", "success", "failure"}]

\* Between transitions the node rests.  In the callback of one its state is that of a
\* transition which could start where the call began, or that of an error; and who made
\* the call has not been told anything.
LifeInv ==
  /\ LifeOK
  /\ phase = "idle" => state \in Primary
  /\ phase = "callback" => \E label \in Available(start) : state = Enters(label)
  /\ phase = "error" => state = "errorprocessing" /\ Available(start) # {}
  /\ phase # "idle" /\ caller \in Requests => answer[caller] = "none"

\* Seen from outside a transition happens at once, from one resting state to one that
\* the life cycle allows, and who asked for it is told in the same moment how it went:
\* as of the callback that ran last, so that an error which onError has dealt with is
\* a success, of a node that starts again (lib/lifecycle.js:735).
AsManagedNode == INSTANCE ManagedNode WITH state <- IF phase = "idle" THEN state ELSE start
IsManagedNode == AsManagedNode!Spec
================================================================================
