---------------------------- MODULE MCLogManager ----------------------------
(* LogManager on small sets of threads and a short log, for TLC. *)
EXTENDS LogManager
=============================================================================
