------------------------------ MODULE MCSimTime ------------------------------
(* A small instance of SimTime for TLC. *)
EXTENDS SimTime
================================================================================
