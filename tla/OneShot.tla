------------------------------- MODULE OneShot -------------------------------
(***************************************************************************)
(* What the code promises of an operation that answers once: it begins,    *)
(* holds a resource while it waits (an entry in a table, a subscription),  *)
(* and ends in one outcome, which gives the resource back.                 *)
(***************************************************************************)

CONSTANTS
  Ops,        \* operations
  Outcomes    \* how one may end, neither idle nor pending

VARIABLES
  state,      \* of an operation: idle, pending or an outcome
  held        \* the operations whose resource is held

Begin(o) ==
  /\ state[o] = "idle"
  /\ state' = [state EXCEPT ![o] = "pending"]
  /\ held' = held \cup {o}

\* It ends before it has begun: already aborted, or the first step failed.
Refuse(o, outcome) ==
  /\ state[o] = "idle"
  /\ state' = [state EXCEPT ![o] = outcome]
  /\ UNCHANGED held

Settle(o, outcome) ==
  /\ state[o] = "pending"
  /\ state' = [state EXCEPT ![o] = outcome]
  /\ held' = held \ {o}

Init == state = [o \in Ops |-> "idle"] /\ held = {}

Next ==
  \E o \in Ops : Begin(o) \/ \E outcome \in Outcomes : Refuse(o, outcome) \/ Settle(o, outcome)

Spec == Init /\ [][Next]_<<state, held>>
================================================================================
