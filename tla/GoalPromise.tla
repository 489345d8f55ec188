---------------------------- MODULE GoalPromise ----------------------------
(***************************************************************************)
(* What an action server promises its clients: a goal goes through its     *)
(* states in order and stays where it ended; a result tells how the goal   *)
(* ended; a cancel response lists only goals that left their ordinary      *)
(* course.  No callbacks, tables or promises: lib/action/server.js is      *)
(* shown to implement this.                                                *)
(***************************************************************************)
CONSTANTS
  Goals,    \* accepted goals, one for each acceptance
  Headers,  \* result requests
  Cancels,  \* cancel requests
  None      \* no goal

Terminal == {"succeeded", "canceled", "aborted"}
Phases == {"none", "accepted", "executing", "canceling"} \cup Terminal

VARIABLES
  phase,   \* of every goal
  reply,   \* "none", "unknown", or the status a result request was told
  about,   \* the goal that a result request is about
  listed   \* the goals that the answer to a cancel request lists

vars == <<phase, reply, about, listed>>

Init ==
  /\ phase = [g \in Goals |-> "none"]
  /\ reply = [r \in Headers |-> "none"]
  /\ about = [r \in Headers |-> None]
  /\ listed = [c \in Cancels |-> {}]

\* The states that can follow each other.
Follows(old, new) ==
  \/ old = "none" /\ new \in {"accepted", "executing"}
  \/ old = "accepted" /\ new \in {"executing", "canceling"}
  \/ old = "executing" /\ new \in {"canceling", "succeeded", "aborted"}
  \/ old = "canceling" /\ new \in Terminal

Move(g, new) ==
  /\ Follows(phase[g], new)
  /\ phase' = [phase EXCEPT ![g] = new]
  /\ UNCHANGED <<reply, about, listed>>

Ask(r, g) ==
  /\ about[r] = None /\ reply[r] = "none"
  /\ phase[g] # "none"
  /\ about' = [about EXCEPT ![r] = g]
  /\ UNCHANGED <<phase, reply, listed>>

\* A result tells the state in which the goal ended.
Tell(r) ==
  /\ reply[r] = "none"
  /\ about[r] # None
  /\ phase[about[r]] \in Terminal
  /\ reply' = [reply EXCEPT ![r] = phase[about[r]]]
  /\ UNCHANGED <<phase, about, listed>>

TellUnknown(r) ==
  /\ reply[r] = "none"
  /\ about[r] = None
  /\ reply' = [reply EXCEPT ![r] = "unknown"]
  /\ UNCHANGED <<phase, about, listed>>

\* Only goals that are being canceled, or ended since, are listed.  The last of
\* them may begin to be canceled in the step that answers.
Acknowledge(c, gs) ==
  /\ listed[c] = {}
  /\ \/ UNCHANGED phase
     \/ \E g \in gs : /\ Follows(phase[g], "canceling")
                      /\ phase' = [phase EXCEPT ![g] = "canceling"]
  /\ \A g \in gs : phase'[g] \in Terminal \cup {"canceling"}
  /\ listed' = [listed EXCEPT ![c] = gs]
  /\ UNCHANGED <<reply, about>>

Next ==
  \/ \E g \in Goals, new \in Phases : Move(g, new)
  \/ \E r \in Headers, g \in Goals : Ask(r, g)
  \/ \E r \in Headers : Tell(r) \/ TellUnknown(r)
  \/ \E c \in Cancels, gs \in SUBSET Goals : Acknowledge(c, gs)

Spec == Init /\ [][Next]_vars
=============================================================================
