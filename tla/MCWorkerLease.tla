---------------------------- MODULE MCWorkerLease ----------------------------
(* Model-checking instance of Worker with the history variable of          *)
(* WorkerLease.                                                            *)
EXTENDS WorkerLease, TLC

Symmetry == Permutations(Workers) \cup Permutations(Runs)
RunSymmetry == Permutations(Runs)
=============================================================================
