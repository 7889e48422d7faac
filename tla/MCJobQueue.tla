----------------------------- MODULE MCJobQueue -----------------------------
(* Model-checking instance of JobQueue. *)
EXTENDS JobQueue, TLC

Symmetry == Permutations(Workers) \cup Permutations(Runs)
=============================================================================
