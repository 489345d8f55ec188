--------------------------- MODULE MCActionClient ---------------------------
(* A small instance of ActionClient for TLC. *)
EXTENDS ActionClient
=============================================================================
