------------------------------ MODULE MCRBTree -------------------------------
(***************************************************************************)
(* RBTree for TLC: ten nodes, two of which have the same key.            *)
(***************************************************************************)
EXTENDS RBTree

MCKey == <<1, 2, 3, 3, 4, 5, 6, 7, 8, 9>>
=============================================================================
