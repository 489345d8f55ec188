----------------------------- MODULE MCDispatcher -----------------------------
(* A small instance of Dispatcher for TLC: see Dispatcher_all.cfg. *)
EXTENDS Dispatcher
================================================================================
