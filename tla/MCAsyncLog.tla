----------------------------- MODULE MCAsyncLog ------------------------------
(***************************************************************************)
(* AsyncLog for TLC.                                                       *)
(***************************************************************************)
EXTENDS AsyncLog
=============================================================================
