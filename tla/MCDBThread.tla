----------------------------- MODULE MCDBThread ------------------------------
(***************************************************************************)
(* DBThread for TLC: three requests, the thread is stopped twice.          *)
(***************************************************************************)
EXTENDS DBThread
=============================================================================
