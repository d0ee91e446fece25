----------------------------- MODULE TimerWheel -----------------------------
(***************************************************************************)
(* epoll/timerwheel.h: N slots, each the head of a doubly linked list of   *)
(* timers.  The wheel turns one slot per tick; a timer further away than   *)
(* one turn carries the number of whole turns it still has to wait.        *)
(*                                                                         *)
(* The lists are modelled as the code has them, pointer by pointer, and    *)
(* tick() as the walk of one list, one step per timer.  The wheel is used  *)
(* by one thread, so no other operation runs while a walk is under way.    *)
(***************************************************************************)
EXTENDS Integers

CONSTANTS
    Timers,     \* addresses a tw_timer may be allocated at
    Nil,        \* the null pointer
    N,          \* number of slots
    TI,         \* seconds from one slot to the next
    Timeouts    \* bound: the delays that are asked for

ASSUME WheelAssumption ==
    /\ Nil \notin Timers
    /\ N \in Nat \ {0}
    /\ TI \in Nat \ {0}
    /\ Timeouts \subseteq Int

VARIABLES
    slots,      \* head of the list of each slot
    cur_slot,   \* the slot of the next tick
    next,       \* tw_timer::next of every timer
    prev,       \* tw_timer::prev
    rotation,   \* tw_timer::rotation
    time_slot,  \* tw_timer::time_slot
    live,       \* the timers that are allocated
    walking,    \* tick() is under way
    tmp,        \* tick()'s local: the next timer of the walk
    passed      \* history: timers this walk has left in the list

lists  == <<slots, next, prev>>
timers == <<next, prev, rotation, time_slot, live>>
walk   == <<walking, tmp, passed>>
vars   == <<slots, cur_slot, next, prev, rotation, time_slot, live, walking, tmp, passed>>

Slots    == 0 .. N - 1
Pointers == Timers \cup {Nil}

-----------------------------------------------------------------------------
\* tw_timer::init()
Ticks(timeout) == IF timeout < TI THEN 1 ELSE timeout \div TI

\* Mutant: a delay of whole turns gets one turn less.
RotationRounded(timeout) == (Ticks(timeout) - 1) \div N

Rotation(timeout) == Ticks(timeout) \div N
Slot(timeout)     == (cur_slot + (Ticks(timeout) % N)) % N

\* The lists after timer t has been taken out of the one that holds it.  A head
\* is replaced in the slot, any other timer is bridged by its predecessor.
IsHead(t)       == slots[time_slot[t]] = t
SlotsWithout(t) == IF IsHead(t) THEN [slots EXCEPT ![time_slot[t]] = next[t]] ELSE slots
NextWithout(t)  == IF IsHead(t) THEN next ELSE [next EXCEPT ![prev[t]] = next[t]]
PrevWithout(t)  ==
    IF next[t] = Nil THEN prev
    ELSE [prev EXCEPT ![next[t]] = IF IsHead(t) THEN Nil ELSE prev[t]]

\* Push t at the head of slot s of lists whose heads and links are sl, nx, pv.
PushFront(t, s, sl, nx, pv) ==
    /\ slots' = [sl EXCEPT ![s] = t]
    /\ next' = [nx EXCEPT ![t] = sl[s]]
    /\ prev' = [u \in Timers |-> IF u = t THEN Nil ELSE IF u = sl[s] THEN t ELSE pv[u]]

\* Take t out of its list and free it.  The members of a freed timer are set
\* to the constructor's values: nothing may read them (NoDangling).
Free(t) ==
    /\ slots' = SlotsWithout(t)
    /\ next' = [NextWithout(t) EXCEPT ![t] = Nil]
    /\ prev' = [PrevWithout(t) EXCEPT ![t] = Nil]
    /\ rotation' = [rotation EXCEPT ![t] = 0]
    /\ time_slot' = [time_slot EXCEPT ![t] = 0]
    /\ live' = live \ {t}

Init ==
    /\ slots = [s \in Slots |-> Nil]
    /\ cur_slot = 0
    /\ next = [t \in Timers |-> Nil]
    /\ prev = [t \in Timers |-> Nil]
    /\ rotation = [t \in Timers |-> 0]
    /\ time_slot = [t \in Timers |-> 0]
    /\ live = {}
    /\ walking = FALSE
    /\ tmp = Nil
    /\ passed = {}

-----------------------------------------------------------------------------
\* Mutant: a timer that leaves the head of its slot stays the head.
AdjustKeepsHead(t, timeout) ==
    /\ ~walking /\ t \in live
    /\ PushFront(t, Slot(timeout), slots, [NextWithout(t) EXCEPT ![t] = Nil], PrevWithout(t))
    /\ rotation' = [rotation EXCEPT ![t] = Rotation(timeout)]
    /\ time_slot' = [time_slot EXCEPT ![t] = Slot(timeout)]
    /\ UNCHANGED <<cur_slot, live, walk>>

-----------------------------------------------------------------------------
AddTimer(t, timeout) ==
    /\ ~walking
    /\ ~(timeout < 0)
    /\ t \notin live
    /\ PushFront(t, Slot(timeout), slots, next, prev)
    /\ rotation' = [rotation EXCEPT ![t] = Rotation(timeout)]
    /\ time_slot' = [time_slot EXCEPT ![t] = Slot(timeout)]
    /\ live' = live \cup {t}
    /\ UNCHANGED <<cur_slot, walk>>

\* A negative delay gets a null pointer and no timer.
AddRefused(timeout) ==
    /\ ~walking
    /\ timeout < 0
    /\ UNCHANGED vars

\* del_timer() of a timer; a null pointer is ignored.
DelTimer(t) ==
    /\ ~walking
    /\ t \in live
    /\ Free(t)
    /\ UNCHANGED <<cur_slot, walk>>

\* adjust_timer() takes the timer out, computes its place again, pushes it.
AdjustTimer(t, timeout) ==
    /\ ~walking
    /\ t \in live
    /\ PushFront(t, Slot(timeout), SlotsWithout(t),
                 [NextWithout(t) EXCEPT ![t] = Nil], [PrevWithout(t) EXCEPT ![t] = Nil])
    /\ rotation' = [rotation EXCEPT ![t] = Rotation(timeout)]
    /\ time_slot' = [time_slot EXCEPT ![t] = Slot(timeout)]
    /\ UNCHANGED <<cur_slot, live, walk>>

TickBegin ==
    /\ ~walking
    /\ walking' = TRUE
    /\ tmp' = slots[cur_slot]
    /\ UNCHANGED <<slots, cur_slot, timers, passed>>

TickPass ==
    /\ walking /\ tmp # Nil
    /\ rotation[tmp] > 0
    /\ rotation' = [rotation EXCEPT ![tmp] = @ - 1]
    /\ passed' = passed \cup {tmp}
    /\ tmp' = next[tmp]
    /\ UNCHANGED <<slots, cur_slot, next, prev, time_slot, live, walking>>

\* cb_func() does not call the wheel; the timer is freed when it returns.
TickExpire ==
    /\ walking /\ tmp # Nil
    /\ ~(rotation[tmp] > 0)
    /\ Free(tmp)
    /\ tmp' = next[tmp]
    /\ UNCHANGED <<cur_slot, walking, passed>>

TickEnd ==
    /\ walking /\ tmp = Nil
    /\ cur_slot' = (cur_slot + 1) % N
    /\ walking' = FALSE /\ passed' = {}
    /\ UNCHANGED <<slots, timers, tmp>>

\* What a walk from the head of slot s finds: the smallest set that has the
\* head and, with a timer, the one after it.
FoundFrom(s, S) ==
    /\ slots[s] # Nil => slots[s] \in S
    /\ \A t \in S : next[t] # Nil => next[t] \in S

Reached(s) == {t \in Timers : \A S \in SUBSET Timers : FoundFrom(s, S) => t \in S}

Listed == UNION {Reached(s) : s \in Slots}

\* ~time_wheel() frees what it finds by walking the lists.
Destroy ==
    /\ ~walking
    /\ slots' = [s \in Slots |-> Nil]
    /\ live' = live \ Listed
    /\ next' = [t \in Timers |-> IF t \in Listed THEN Nil ELSE next[t]]
    /\ prev' = [t \in Timers |-> IF t \in Listed THEN Nil ELSE prev[t]]
    /\ rotation' = [t \in Timers |-> IF t \in Listed THEN 0 ELSE rotation[t]]
    /\ time_slot' = [t \in Timers |-> IF t \in Listed THEN 0 ELSE time_slot[t]]
    /\ UNCHANGED <<cur_slot, walk>>

Next ==
    \/ \E t \in Timers, timeout \in Timeouts : AddTimer(t, timeout) \/ AdjustTimer(t, timeout)
    \/ \E timeout \in Timeouts : AddRefused(timeout)
    \/ \E t \in Timers : DelTimer(t)
    \/ TickBegin \/ TickPass \/ TickExpire \/ TickEnd
    \/ Destroy

Spec == Init /\ [][Next]_vars

-----------------------------------------------------------------------------
\* Every variable holds a value of its type.
TypeOK ==
    /\ slots \in [Slots -> Pointers]
    /\ cur_slot \in Slots
    /\ next \in [Timers -> Pointers]
    /\ prev \in [Timers -> Pointers]
    /\ rotation \in [Timers -> Nat]
    /\ time_slot \in [Timers -> Slots]
    /\ live \in SUBSET Timers
    /\ walking \in BOOLEAN
    /\ tmp \in Pointers
    /\ passed \in SUBSET Timers

\* No pointer that the wheel may follow leads to a freed timer, and the links
\* in both directions agree: the next timer of t points back to t and is in
\* the same slot, the head of a slot has no predecessor, and a timer without
\* predecessor is the head of its slot.
HeadsOK == \A s \in Slots :
    slots[s] # Nil => /\ slots[s] \in live
                      /\ time_slot[slots[s]] = s
                      /\ prev[slots[s]] = Nil

NextOK == \A t \in live :
    next[t] # Nil => /\ next[t] \in live
                     /\ prev[next[t]] = t
                     /\ time_slot[next[t]] = time_slot[t]

PrevOK == \A t \in live :
    IF prev[t] = Nil THEN IsHead(t)
    ELSE /\ prev[t] \in live
         /\ next[prev[t]] = t
         /\ time_slot[prev[t]] = time_slot[t]

WalkOK ==
    /\ tmp # Nil => walking /\ tmp \in live /\ time_slot[tmp] = cur_slot
    /\ passed # {} => walking
    /\ passed \subseteq {t \in live : time_slot[t] = cur_slot}

NoDangling == HeadsOK /\ NextOK /\ PrevOK /\ WalkOK

\* Every allocated timer is in the list of its own slot, so that a tick finds
\* it and the destructor frees it.
EveryTimerIsListed == \A t \in live : t \in Reached(time_slot[t])

\* The wheel is a set of timers with a number of ticks to let pass: its turns
\* and its slots neither fire a timer early nor let one go by.  A timer that
\* the walk of this tick has passed was given its next turn already.
Ahead(t) == (time_slot[t] - cur_slot) % N

Remaining(t) == rotation[t] * N + Ahead(t) + (IF t \in passed THEN N ELSE 0)

TicksLeft == [t \in Timers |-> IF t \in live THEN Remaining(t) ELSE -1]

TS == INSTANCE TimerSet WITH Off <- -1, remaining <- TicksLeft, ticking <- walking

IsTimerSet == TS!Spec
=============================================================================
