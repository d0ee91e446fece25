--------------------------- MODULE MCClientSocket ----------------------------
(***************************************************************************)
(* ClientSocket for TLC: three descriptors, a list of two ports, and three *)
(* calls of start().                                                       *)
(***************************************************************************)
EXTENDS ClientSocket

MCPorts == <<1, 2>>
=============================================================================
