---------------------------- MODULE MCGmailIntake ----------------------------
(* Model-checking instance of GmailIntake; no symmetry, for its run checks *)
(* liveness.                                                               *)
EXTENDS GmailIntake
=============================================================================
