-------------------------- MODULE MCGoogleConnection -------------------------
(* Model-checking instance of GoogleConnection. *)
EXTENDS GoogleConnection, TLC

Symmetry == Permutations(Auths) \cup Permutations(Handlers) \cup Permutations(Processes)
              \cup Permutations(Calls) \cup Permutations(Tokens)
=============================================================================
