---------------------------- MODULE MCProcessPool ----------------------------
(***************************************************************************)
(* ProcessPool for TLC: three children and three connections.             *)
(***************************************************************************)
EXTENDS ProcessPool
=============================================================================
