----------------------------- MODULE BlockQueue ------------------------------
(***************************************************************************)
(* epoll/block_queue.h (log/block_queue.h is the same file): a ring of     *)
(* m_max_size slots behind a mutex and a condition variable.               *)
(*                                                                         *)
(* Every operation is one critical section and so one action, except the   *)
(* two pop()s, which give the mutex up inside cond::wait() and             *)
(* cond::timewait() and go on when they have it again, and the timed       *)
(* pop()'s look at the clock, which comes before the mutex is taken.       *)
(*                                                                         *)
(* Time is in microseconds, and K stands for the 1000 of the code:         *)
(* milliseconds in a second, microseconds in a millisecond.  How fast time *)
(* passes is left open: a timed pop() may time out at any moment.          *)
(***************************************************************************)
EXTENDS Integers, Sequences, FiniteSets

CONSTANTS
    Threads,     \* the users of the queue
    Values,      \* the items
    Unset,       \* what a slot or a variable holds before anything is stored
    MaxSize,     \* m_max_size
    K,
    Delays,      \* bound: the ms_timeout arguments of the timed pop()
    Moments      \* bound: what gettimeofday() may show

ASSUME QueueAssumption ==
    /\ Unset \notin Values
    /\ MaxSize \in Nat \ {0}         \* the constructor exits otherwise
    /\ K \in Nat \ {0}
    /\ Delays \subseteq Nat
    /\ Moments \subseteq Nat

VARIABLES
    m_array, m_size, m_front, m_back,
    pc,         \* where each thread is in a pop(), or idle
    item,       \* the T & each thread's pop()s store to
    value,      \* the T & of front() and back()
    deadline    \* what the last timed pop() of each thread gave to timewait()

ring == <<m_array, m_size, m_front, m_back>>
vars == <<ring, pc, item, value, deadline>>

Slots    == 0 .. MaxSize - 1
Contents == Values \cup {Unset}

Asleep(t) == pc[t] \in {"wait", "timewait"}

Init ==
    /\ m_array = [s \in Slots |-> Unset]
    /\ m_size = 0
    /\ m_front = -1
    /\ m_back = -1
    /\ pc = [t \in Threads |-> "idle"]
    /\ item = [t \in Threads |-> Unset]
    /\ value = Unset
    /\ deadline = [t \in Threads |-> 0]

\* The slot after one of the two indices, which start at -1.
After(index) == (index + 1) % MaxSize

\* Every thread inside wait() or timewait() is to take the mutex again.
Woken(u) == CASE pc[u] = "wait" -> "woken" [] pc[u] = "timewait" -> "timewoken" [] OTHER -> pc[u]

Broadcast == pc' = [u \in Threads |-> Woken(u)]

-----------------------------------------------------------------------------

\* Mutant: one thread is woken, and only when the queue was empty.
PushSignals(t, v) ==
    /\ pc[t] = "idle"
    /\ m_size < MaxSize
    /\ m_back' = After(m_back)
    /\ m_array' = [m_array EXCEPT ![After(m_back)] = v]
    /\ m_size' = m_size + 1
    /\ IF m_size = 0 /\ \E u \in Threads : Asleep(u)
       THEN \E u \in Threads : Asleep(u) /\ pc' = [pc EXCEPT ![u] = Woken(u)]
       ELSE UNCHANGED pc
    /\ UNCHANGED <<m_front, item, value, deadline>>

\* Mutant: clear() leaves m_back alone.
ClearKeepsBack(t) ==
    /\ pc[t] = "idle"
    /\ m_size' = 0 /\ m_front' = -1
    /\ UNCHANGED <<m_array, m_back, pc, item, value, deadline>>

-----------------------------------------------------------------------------
PushRefused(t) ==
    /\ pc[t] = "idle"
    /\ m_size >= MaxSize
    /\ Broadcast
    /\ UNCHANGED <<ring, item, value, deadline>>

PushAccepted(t, v) ==
    /\ pc[t] = "idle"
    /\ ~(m_size >= MaxSize)
    /\ m_back' = After(m_back)
    /\ m_array' = [m_array EXCEPT ![After(m_back)] = v]
    /\ m_size' = m_size + 1
    /\ Broadcast
    /\ UNCHANGED <<m_front, item, value, deadline>>

\* The end of both pop()s.
TakeFront(t) ==
    /\ m_size > 0
    /\ m_front' = After(m_front)
    /\ item' = [item EXCEPT ![t] = m_array[After(m_front)]]
    /\ m_size' = m_size - 1
    /\ pc' = [pc EXCEPT ![t] = "idle"]
    /\ UNCHANGED <<m_array, m_back, value, deadline>>

PopTakes(t) == pc[t] \in {"idle", "woken"} /\ TakeFront(t)

\* The mutex is free while the thread sleeps.
PopWaits(t) ==
    /\ pc[t] \in {"idle", "woken"}
    /\ m_size <= 0
    /\ pc' = [pc EXCEPT ![t] = "wait"]
    /\ UNCHANGED <<ring, item, value, deadline>>

\* pthread_cond_wait() and pthread_cond_timedwait() may return unasked.
SpuriousWakeup(t) ==
    /\ Asleep(t)
    /\ pc' = [pc EXCEPT ![t] = Woken(t)]
    /\ UNCHANGED <<ring, item, value, deadline>>

\* tv_sec is now.tv_sec + ms / 1000, tv_nsec is (ms % 1000) * 1000: what the
\* clock shows beyond the full second is lost, and milliseconds are taken for
\* microseconds.
Deadline(now, ms) == (now \div (K * K) + ms \div K) * (K * K) + (ms % K)

TimedPopCall(t, now, ms) ==
    /\ pc[t] = "idle"
    /\ deadline' = [deadline EXCEPT ![t] = Deadline(now, ms)]
    /\ pc' = [pc EXCEPT ![t] = "timed"]
    /\ UNCHANGED <<ring, item, value>>

TimedPopTakes(t) == pc[t] \in {"timed", "timewoken"} /\ TakeFront(t)

TimedPopWaits(t) ==
    /\ pc[t] = "timed"
    /\ m_size <= 0
    /\ pc' = [pc EXCEPT ![t] = "timewait"]
    /\ UNCHANGED <<ring, item, value, deadline>>

\* Woken, and another thread was faster: false, however early it is.
TimedPopFindsNothing(t) ==
    /\ pc[t] = "timewoken"
    /\ m_size <= 0
    /\ pc' = [pc EXCEPT ![t] = "idle"]
    /\ UNCHANGED <<ring, item, value, deadline>>

TimedPopTimesOut(t) ==
    /\ pc[t] = "timewait"
    /\ pc' = [pc EXCEPT ![t] = "idle"]
    /\ UNCHANGED <<ring, item, value, deadline>>

Clear(t) ==
    /\ pc[t] = "idle"
    /\ m_size' = 0 /\ m_front' = -1 /\ m_back' = -1
    /\ UNCHANGED <<m_array, pc, item, value, deadline>>

\* front() reads the slot of the item taken last, not the head.  Before the first pop() that
\* is m_array[-1], and anything may come out.
Front(t) ==
    /\ pc[t] = "idle"
    /\ m_size # 0
    /\ IF m_front \in Slots THEN value' = m_array[m_front] ELSE value' \in Contents
    /\ UNCHANGED <<ring, pc, item, deadline>>

Back(t) ==
    /\ pc[t] = "idle"
    /\ m_size # 0
    /\ value' = m_array[m_back]
    /\ UNCHANGED <<ring, pc, item, deadline>>

Push(t) == PushRefused(t) \/ \E v \in Values : PushAccepted(t, v)

\* What a thread does once it runs again inside a pop().
Resume(t) ==
    /\ pc[t] # "idle"
    /\ \/ PopTakes(t) \/ PopWaits(t)
       \/ TimedPopTakes(t) \/ TimedPopWaits(t) \/ TimedPopFindsNothing(t)

Pop(t) == PopTakes(t) \/ PopWaits(t)

TimedPop(t) ==
    \/ \E now \in Moments, ms \in Delays : TimedPopCall(t, now, ms)
    \/ TimedPopTakes(t) \/ TimedPopWaits(t)
    \/ TimedPopFindsNothing(t) \/ TimedPopTimesOut(t)

Next ==
    \E t \in Threads :
        \/ Push(t) \/ Pop(t) \/ TimedPop(t) \/ SpuriousWakeup(t)
        \/ Clear(t) \/ Front(t) \/ Back(t)

Spec == Init /\ [][Next]_vars

\* A thread that wants the mutex gets it.  Nobody has to call the queue, and
\* no sleeper is woken unasked.
FairSpec == Spec /\ \A t \in Threads : WF_vars(Resume(t))

-----------------------------------------------------------------------------
\* Every variable holds a value of its type.
TypeOK ==
    /\ m_array \in [Slots -> Contents]
    /\ m_size \in 0 .. MaxSize
    /\ m_front \in -1 .. MaxSize - 1
    /\ m_back \in -1 .. MaxSize - 1
    /\ pc \in [Threads -> {"idle", "wait", "woken", "timed", "timewait", "timewoken"}]
    /\ item \in [Threads -> Contents]
    /\ value \in Contents
    /\ deadline \in [Threads -> Nat]

\* The two indices and the size say the same of the ring: m_back is m_size slots
\* ahead of m_front, round and round, and is a slot when the queue is not empty.
RingAgrees ==
    /\ m_back % MaxSize = (m_front + m_size) % MaxSize
    /\ m_size > 0 => m_back # -1

\* No wakeup is lost: nobody sleeps inside a pop() while there is an item, with
\* as many threads as there may be and however the timed ones give up.
NoLostWakeup == (\E t \in Threads : Asleep(t)) => m_size = 0

\* A thread inside pop() gets an item, or finds that others took them all:
\* it is never left behind with items in the queue.
SleeperIsServed ==
    \A t \in Threads :
        (pc[t] \in {"wait", "woken"} /\ m_size > 0) ~> (pc[t] = "idle" \/ m_size = 0)

\* The ring is a bounded queue: what wraps around and what clear() leaves
\* behind in the slots never shows.
Queue == [i \in 1 .. m_size |-> m_array[(m_front + i) % MaxSize]]

Fifo == INSTANCE BoundedFifo WITH queue <- Queue, Capacity <- MaxSize

IsFifo == Fifo!Spec

\* back() gives what the last accepted push() stored, wherever the ring is.
BackIsLast == [][\A t \in Threads : Back(t) /\ m_size > 0 => value' = Queue[m_size]]_vars

=============================================================================
