------------------------------ MODULE TimeSwitch ------------------------------
(***************************************************************************)
(* What the parameters of a node (Parameters) and its clocks (SimTime)     *)
(* share: the switch of the time source between them.                      *)
(***************************************************************************)

CONSTANT
  None      \* no value

VARIABLE
  active    \* _isRosTimeActive of the time source

================================================================================
