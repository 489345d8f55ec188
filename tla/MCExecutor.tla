----------------------------- MODULE MCExecutor -----------------------------
(***************************************************************************)
(* Executor on small instances: an entity or two, a timer, a few tokens.   *)
(***************************************************************************)
EXTENDS Executor, TLC

\* The entities are interchangeable; a timer is not an entity.
EntitySymmetry == Permutations(Handles \ Timers)
=============================================================================
