--------------------------- MODULE MCActionServer ---------------------------
(***************************************************************************)
(* ActionServer with a few goals, handles and requests.                    *)
(***************************************************************************)
EXTENDS ActionServer, TLC

\* Handles, UUIDs and requests of a kind are interchangeable.
Symmetry ==
  Permutations(Handles) \cup Permutations(Goals)
    \cup Permutations(Headers) \cup Permutations(Cancels)
=============================================================================
