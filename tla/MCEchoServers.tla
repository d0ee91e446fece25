---------------------------- MODULE MCEchoServers ----------------------------
(***************************************************************************)
(* EchoServers for TLC: three clients for two descriptors, one of which    *)
(* sends two messages, and one the word exit.                              *)
(***************************************************************************)
EXTENDS EchoServers

CONSTANTS c1, c2, c3

MCExits == {<<c2, 1>>}

MCMaxMsgs == [c \in Conns |-> IF c = c1 THEN 2 ELSE 1]
=============================================================================
