------------------------------ MODULE TimerSet ------------------------------
(***************************************************************************)
(* What the timing wheel promises its user: a set of one-shot timers, each *)
(* with the number of ticks it still lets pass.  The tick that finds a     *)
(* timer with none left expires it, and no other tick does.  A delay given *)
(* in seconds is rounded down to ticks, but never to none at all.          *)
(***************************************************************************)
EXTENDS Integers

CONSTANTS
    Timers,
    Off,        \* "not armed"
    TI,         \* seconds from one tick to the next
    Timeouts    \* the delays that are asked for, in seconds

VARIABLES
    remaining,   \* ticks each timer still lets pass, Off when it is not armed
    ticking      \* a tick is under way

vars == <<remaining, ticking>>

Armed == {t \in Timers : remaining[t] # Off}
Due   == {t \in Armed : remaining[t] = 0}

Init ==
    /\ remaining = [t \in Timers |-> Off]
    /\ ticking = FALSE

Delay(timeout) == IF timeout < TI THEN 1 ELSE timeout \div TI

\* Arm a timer, or give an armed one a new delay, whatever was left of the old.
Arm(t, timeout) ==
    /\ ~ticking
    /\ remaining' = [remaining EXCEPT ![t] = Delay(timeout)]
    /\ UNCHANGED ticking

Cancel(t) ==
    /\ ~ticking
    /\ t \in Armed
    /\ remaining' = [remaining EXCEPT ![t] = Off]
    /\ UNCHANGED ticking

BeginTick ==
    /\ ~ticking
    /\ ticking' = TRUE
    /\ UNCHANGED remaining

Expire(t) ==
    /\ ticking
    /\ t \in Due
    /\ remaining' = [remaining EXCEPT ![t] = Off]
    /\ UNCHANGED ticking

\* A tick may not end before everything that was due has expired.
EndTick ==
    /\ ticking
    /\ Due = {}
    /\ remaining' = [t \in Timers |-> IF t \in Armed THEN remaining[t] - 1 ELSE Off]
    /\ ticking' = FALSE

\* The user throws the whole set away.
Discard ==
    /\ ~ticking
    /\ remaining' = [t \in Timers |-> Off]
    /\ UNCHANGED ticking

Next ==
    \/ \E t \in Timers : (\E timeout \in Timeouts : Arm(t, timeout)) \/ Cancel(t) \/ Expire(t)
    \/ BeginTick
    \/ EndTick
    \/ Discard

Spec == Init /\ [][Next]_vars
=============================================================================
