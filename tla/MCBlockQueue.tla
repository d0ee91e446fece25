---------------------------- MODULE MCBlockQueue -----------------------------
(***************************************************************************)
(* BlockQueue for TLC.                                                     *)
(***************************************************************************)
EXTENDS BlockQueue

\* K is 1000 in the code; a small number keeps what matters of it: a second
\* has K * K microseconds, and K - 1 is the largest remainder of ms % K.
SmallK == 3
=============================================================================
