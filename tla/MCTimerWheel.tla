---------------------------- MODULE MCTimerWheel ----------------------------
(***************************************************************************)
(* TimerWheel for TLC: a wheel of three slots, so that one turn takes few  *)
(* ticks, and delays of up to two turns and a slot.                        *)
(***************************************************************************)
EXTENDS TimerWheel

\* Every number of ticks from 1 to 2 * N + 1, delays that are not a multiple
\* of TI, one below TI and one that is refused.
SomeTimeouts == {-1, TI - 1, TI + 1} \cup {TI * k : k \in 1 .. 2 * N + 1}
=============================================================================
