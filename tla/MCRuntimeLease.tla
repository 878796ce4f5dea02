--------------------------- MODULE MCRuntimeLease ---------------------------
(* Finite instances of RuntimeLease. *)
EXTENDS RuntimeLease, TLC

CONSTANTS watch, sync, daemon, doctor
=============================================================================
