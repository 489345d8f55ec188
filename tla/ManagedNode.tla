----------------------------- MODULE ManagedNode -----------------------------
(***************************************************************************)
(* What others may rely on with a managed node: it rests in one of four    *)
(* states, moves between them as the life cycle says, and tells whoever    *)
(* asked for a move how that went.                                         *)
(***************************************************************************)

CONSTANTS
  Requests    \* requests to change the state

VARIABLES
  state,
  answer      \* of a request: none, lost, success or failure

\* From where a move starts and where it leads; a shutdown starts anywhere.
Starts(move) ==
  CASE move = "configure" -> {"unconfigured"}
    [] move \in {"activate", "cleanup"} -> {"inactive"}
    [] move = "deactivate" -> {"active"}
    [] move = "shutdown" -> {"unconfigured", "inactive", "active"}

Leads(move) ==
  CASE move \in {"configure", "deactivate"} -> "inactive"
    [] move = "activate" -> "active"
    [] move = "cleanup" -> "unconfigured"
    [] move = "shutdown" -> "finalized"

Moves == {"configure", "activate", "deactivate", "cleanup", "shutdown"}

\* The node is told of an error by no state of its own: it starts again or is done.
Succeeds(move) == state' \in {Leads(move), "unconfigured"}
Fails(move) == state' \in {state, "finalized"}

\* A move nobody waits for.
Move ==
  /\ \E move \in Moves : state \in Starts(move) /\ (Succeeds(move) \/ Fails(move))
  /\ UNCHANGED answer

Asked(q) ==
  /\ answer[q] = "none"
  /\ \E move \in Moves :
       /\ state \in Starts(move)
       /\ \/ Succeeds(move) /\ answer' = [answer EXCEPT ![q] = "success"]
          \/ Fails(move) /\ answer' = [answer EXCEPT ![q] = "failure"]

\* A request that the state does not allow is refused, or lost.
Refuse(q, outcome) ==
  /\ answer[q] = "none"
  /\ answer' = [answer EXCEPT ![q] = outcome]
  /\ UNCHANGED state

Init == state = "unconfigured" /\ answer = [q \in Requests |-> "none"]

Next ==
  \/ Move
  \/ \E q \in Requests : Asked(q) \/ Refuse(q, "failure") \/ Refuse(q, "lost")

Spec == Init /\ [][Next]_<<state, answer>>
================================================================================
