------------------------------ MODULE MCTeardown ------------------------------
(* Small instances of Teardown for TLC. *)
EXTENDS Teardown, TLC

CONSTANTS n1, n2, e1, k1, k2, k3

MCClockOf == n1 :> k1 @@ n2 :> k2
================================================================================
