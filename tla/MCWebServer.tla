---------------------------- MODULE MCWebServer -----------------------------
(***************************************************************************)
(* WebServer for TLC: two connections, and two descriptors or one, so   *)
(* that they are used again while timers and workers still know them.      *)
(***************************************************************************)
EXTENDS WebServer
=============================================================================
