-------------------------- MODULE MCDraftReservation -------------------------
(* Model-checking instance of DraftReservation. *)
EXTENDS DraftReservation, TLC

Symmetry == Permutations(Jobs) \cup Permutations(Executions) \cup Permutations(Keys)
=============================================================================
