--------------------------- MODULE MCJobDispatch ---------------------------
(* JobDispatch on small instances: see the .cfg files. *)
EXTENDS JobDispatch, TLC
CONSTANTS r1, r2, r3
=============================================================================
