------------------------------ MODULE MCWorker ------------------------------
(* Model-checking instance of Worker; no symmetry, for its runs check      *)
(* liveness.                                                               *)
EXTENDS Worker
=============================================================================
