-------------------------- MODULE BlockQueueProofs --------------------------
(***************************************************************************)
(* What BlockQueue promises, for every size of the ring, every number of   *)
(* threads and every delay: its types, the agreement of the indices, that  *)
(* no wakeup is lost, and that it implements BoundedFifo.                  *)
(*                                                                         *)
(* RingAgrees makes the rest inductive: with it push() and pop() name the  *)
(* slots of the abstract queue's end and head by arithmetic modulo         *)
(* MaxSize alone.                                                          *)
(***************************************************************************)
EXTENDS BlockQueue, SequenceTheorems, TLAPS

IInv == TypeOK /\ RingAgrees /\ NoLostWakeup

-----------------------------------------------------------------------------
\* Arithmetic of the ring.  No index is ever more than one round off.
LEMMA ModBelow ==
    ASSUME NEW M \in Nat \ {0}, NEW x \in -M .. -1
    PROVE  x % M = x + M
OBVIOUS

\* An index within the round is its own remainder.
LEMMA ModWithin ==
    ASSUME NEW M \in Nat \ {0}, NEW x \in 0 .. M - 1
    PROVE  x % M = x
OBVIOUS

\* An index of the next round is one round too large.
LEMMA ModAbove ==
    ASSUME NEW M \in Nat \ {0}, NEW x \in M .. M + M - 1
    PROVE  x % M = x - M
OBVIOUS

\* A remainder may be taken before or after adding.
LEMMA ModPlus ==
    ASSUME NEW M \in Nat \ {0}, NEW x \in -1 .. M + M - 1, NEW y \in 0 .. M, x + y < M + M
    PROVE  /\ x % M \in 0 .. M - 1
           /\ ((x % M) + y) % M = (x + y) % M
<1>1. CASE x = -1
  <2>1. x % M = M - 1
    BY <1>1, ModBelow
  <2>2. CASE y = 0
    BY <1>1, <2>1, <2>2, ModWithin
  <2>3. CASE y # 0
    <3>1. x + y \in 0 .. M - 1 /\ M - 1 + y \in M .. M + M - 1
      BY <1>1, <2>3
    <3>2. (x + y) % M = x + y /\ (M - 1 + y) % M = M - 1 + y - M
      BY <3>1, ModWithin, ModAbove
    <3> QED BY <1>1, <2>1, <3>2
  <2> QED BY <2>1, <2>2, <2>3
<1>2. CASE x \in 0 .. M - 1
  BY <1>2, ModWithin
<1>3. CASE x \in M .. M + M - 1
  <2>1. x % M = x - M
    BY <1>3, ModAbove
  <2>2. x + y \in M .. M + M - 1 /\ x - M + y \in 0 .. M - 1
    BY <1>3
  <2>3. (x + y) % M = x + y - M /\ (x - M + y) % M = x - M + y
    BY <2>2, ModWithin, ModAbove
  <2> QED BY <1>3, <2>1, <2>3
<1> QED BY <1>1, <1>2, <1>3

\* Slots less than a whole round apart are different slots.
LEMMA ModDistinct ==
    ASSUME NEW M \in Nat \ {0}, NEW x \in 0 .. M + M - 1, NEW d \in 1 .. M - 1, x + d < M + M
    PROVE  (x + d) % M # x % M
<1>1. CASE x >= M
  <2>1. x \in M .. M + M - 1 /\ x + d \in M .. M + M - 1
    BY <1>1
  <2>2. x % M = x - M
    BY <2>1, ModAbove
  <2>3. (x + d) % M = x + d - M
    BY <2>1, ModAbove
  <2> QED BY <2>2, <2>3
<1>2. CASE x + d < M
  <2>1. x \in 0 .. M - 1 /\ x + d \in 0 .. M - 1
    BY <1>2
  <2>2. x % M = x /\ (x + d) % M = x + d
    BY <2>1, ModWithin
  <2> QED BY <2>2
<1>3. CASE x < M /\ x + d >= M
  <2>1. x \in 0 .. M - 1 /\ x + d \in M .. M + M - 1
    BY <1>3
  <2>2. x % M = x /\ (x + d) % M = x + d - M
    BY <2>1, ModWithin, ModAbove
  <2> QED BY <2>2
<1> QED BY <1>1, <1>2, <1>3

\* After() is a slot, and the other indices count on from it.
LEMMA AfterIsSlot ==
    ASSUME NEW index \in -1 .. MaxSize - 1
    PROVE  /\ After(index) \in Slots
           /\ After(index) # -1
           /\ \A i \in 0 .. MaxSize - 1 : (After(index) + i) % MaxSize = (index + 1 + i) % MaxSize
<1>1. MaxSize \in Nat \ {0} /\ index + 1 \in 0 .. MaxSize
  BY QueueAssumption
<1>2. (index + 1) % MaxSize \in 0 .. MaxSize - 1
  BY <1>1
<1>3. ASSUME NEW i \in 0 .. MaxSize - 1
      PROVE  (After(index) + i) % MaxSize = (index + 1 + i) % MaxSize
  <2>1. /\ index + 1 \in -1 .. MaxSize + MaxSize - 1 /\ i \in 0 .. MaxSize
        /\ (index + 1) + i < MaxSize + MaxSize
    BY <1>1
  <2> QED BY <1>1, <2>1, ModPlus DEF After
<1> QED BY <1>2, <1>3 DEF After, Slots

-----------------------------------------------------------------------------
\* The two effects an operation may have on the ring, and what they do to the
\* abstract queue.

\* Storing behind m_back appends.
LEMMA StoreAppends ==
    ASSUME TypeOK, RingAgrees, NEW v \in Values,
           ~(m_size >= MaxSize),
           m_back' = After(m_back),
           m_array' = [m_array EXCEPT ![After(m_back)] = v],
           m_size' = m_size + 1,
           m_front' = m_front
    PROVE  RingAgrees' /\ Queue' = Append(Queue, v)
<1>1. /\ m_front \in -1 .. MaxSize - 1 /\ m_back \in -1 .. MaxSize - 1
      /\ m_size \in Nat /\ m_size < MaxSize
      /\ MaxSize \in Nat \ {0} /\ m_array \in [Slots -> Contents]
  BY QueueAssumption DEF TypeOK
<1>2. After(m_back) \in Slots /\ After(m_back) # -1 /\ After(m_back) \in Int
  BY <1>1, AfterIsSlot DEF Slots
<1>3. After(m_back) = (m_front + m_size + 1) % MaxSize
  <2>1. ((m_back % MaxSize) + 1) % MaxSize = (m_back + 1) % MaxSize
    <3>1. /\ m_back \in -1 .. MaxSize + MaxSize - 1 /\ 1 \in 0 .. MaxSize
          /\ m_back + 1 < MaxSize + MaxSize
      BY <1>1
    <3> QED BY <1>1, <3>1, ModPlus
  <2>2. (((m_front + m_size) % MaxSize) + 1) % MaxSize = (m_front + m_size + 1) % MaxSize
    <3>1. /\ m_front + m_size \in -1 .. MaxSize + MaxSize - 1 /\ 1 \in 0 .. MaxSize
          /\ m_front + m_size + 1 < MaxSize + MaxSize
      BY <1>1
    <3> QED BY <1>1, <3>1, ModPlus
  <2> QED BY <2>1, <2>2 DEF RingAgrees, After
<1>4. RingAgrees'
  <2>1. After(m_back) % MaxSize = After(m_back)
    BY <1>1, <1>2 DEF Slots
  <2>2. m_front + (m_size + 1) = m_front + m_size + 1
    BY <1>1
  <2> QED BY <1>2, <1>3, <2>1, <2>2 DEF RingAgrees
<1>5. ASSUME NEW i \in 1 .. m_size
      PROVE  m_array'[(m_front + i) % MaxSize] = m_array[(m_front + i) % MaxSize]
  <2>1. PICK d \in 1 .. MaxSize - 1 : m_front + m_size + 1 = (m_front + i) + d
    <3>1. m_size + 1 - i \in 1 .. MaxSize - 1 /\ m_front + m_size + 1 = (m_front + i) + (m_size + 1 - i)
      BY <1>1
    <3> QED BY <3>1
  <2>2. (m_front + i) % MaxSize # After(m_back)
    <3>1. m_front + i \in 0 .. MaxSize + MaxSize - 1 /\ (m_front + i) + d < MaxSize + MaxSize
      BY <1>1, <2>1
    <3>2. ((m_front + i) + d) % MaxSize # (m_front + i) % MaxSize
      BY <1>1, <3>1, ModDistinct
    <3> QED BY <1>3, <2>1, <3>2
  <2>3. (m_front + i) % MaxSize \in Slots
    BY <1>1, ModPlus DEF Slots
  <2> QED BY <1>1, <2>2, <2>3
<1>6. m_array'[(m_front + (m_size + 1)) % MaxSize] = v
  <2>1. m_front + (m_size + 1) = m_front + m_size + 1
    BY <1>1
  <2> QED BY <1>1, <1>2, <1>3, <2>1
<1>7. Queue' = [i \in 1 .. m_size + 1 |-> IF i \in 1 .. m_size THEN Queue[i] ELSE v]
  <2>1. ASSUME NEW i \in 1 .. m_size + 1
        PROVE  m_array'[(m_front + i) % MaxSize] = IF i \in 1 .. m_size THEN Queue[i] ELSE v
    <3>1. CASE i \in 1 .. m_size
      BY <1>5, <3>1 DEF Queue
    <3>2. CASE i \notin 1 .. m_size
      <4>1. i = m_size + 1
        BY <1>1, <3>2
      <4> QED BY <1>6, <3>2, <4>1
    <3> QED BY <3>1, <3>2
  <2> QED BY <2>1 DEF Queue
<1>8. Append(Queue, v) = [i \in 1 .. m_size + 1 |-> IF i \in 1 .. m_size THEN Queue[i] ELSE v]
  <2>1. Queue \in Seq(Contents) /\ Len(Queue) = m_size
    <3>1. Queue \in [1 .. m_size -> Contents]
      BY <1>1, ModPlus DEF Queue, Slots
    <3> QED BY <1>1, <3>1
  <2>2. v \in Contents
    BY DEF Contents
  <2>3. Append(Queue, v) \in Seq(Contents) /\ Len(Append(Queue, v)) = m_size + 1
    BY <2>1, <2>2
  <2>4. \A i \in 1 .. m_size + 1 : Append(Queue, v)[i] = IF i \in 1 .. m_size THEN Queue[i] ELSE v
    BY <1>1, <2>1, <2>2
  <2>5. Append(Queue, v) \in [1 .. m_size + 1 -> Contents]
    BY <2>3, LenProperties
  <2> QED BY <2>4, <2>5
<1> QED BY <1>4, <1>7, <1>8

\* Taking from the slot after m_front takes the head.
LEMMA TakeIsTail ==
    ASSUME TypeOK, RingAgrees,
           m_size > 0,
           m_front' = After(m_front),
           m_size' = m_size - 1,
           UNCHANGED <<m_array, m_back>>
    PROVE  /\ RingAgrees'
           /\ Queue # <<>>
           /\ m_array[After(m_front)] = Head(Queue)
           /\ Queue' = Tail(Queue)
<1>1. /\ m_front \in -1 .. MaxSize - 1 /\ m_size \in 1 .. MaxSize /\ m_back \in Int
      /\ MaxSize \in Nat \ {0} /\ m_array \in [Slots -> Contents]
  BY QueueAssumption DEF TypeOK
<1>2. \A i \in 0 .. MaxSize - 1 : (After(m_front) + i) % MaxSize = (m_front + 1 + i) % MaxSize
  BY <1>1, AfterIsSlot
<1>3. RingAgrees'
  <2>1. m_front + 1 + (m_size - 1) = m_front + m_size /\ m_size - 1 \in 0 .. MaxSize - 1
    BY <1>1
  <2> QED BY <1>1, <1>2, <2>1 DEF RingAgrees
<1>4. Queue \in [1 .. m_size -> Contents]
  BY <1>1, ModPlus DEF Queue, Slots
<1>5. Queue \in Seq(Contents) /\ Len(Queue) = m_size
  BY <1>1, <1>4
<1>6. Queue # <<>>
  BY <1>1, <1>5
<1>7. m_array[After(m_front)] = Head(Queue)
  <2>1. Head(Queue) = Queue[1]
    BY <1>5, <1>6
  <2> QED BY <1>1, <2>1 DEF Queue, After
<1>8. Queue' = Tail(Queue)
  <2>1. Tail(Queue) \in Seq(Contents) /\ Len(Tail(Queue)) = m_size - 1
    BY <1>1, <1>5, <1>6
  <2>2. \A i \in 1 .. m_size - 1 : Tail(Queue)[i] = Queue[i + 1]
    BY <1>1, <1>5, <1>6
  <2>3. ASSUME NEW i \in 1 .. m_size - 1
        PROVE  m_array[(After(m_front) + i) % MaxSize] = Queue[i + 1]
    <3>1. m_front + 1 + i = m_front + (i + 1) /\ i + 1 \in 1 .. m_size /\ i \in 0 .. MaxSize - 1
      BY <1>1
    <3> QED BY <1>2, <3>1 DEF Queue
  <2>4. Queue' = [i \in 1 .. m_size - 1 |-> Queue[i + 1]]
    BY <2>3 DEF Queue
  <2>5. Tail(Queue) = [i \in 1 .. m_size - 1 |-> Queue[i + 1]]
    <3>1. Tail(Queue) \in [1 .. m_size - 1 -> Contents]
      BY <2>1, LenProperties
    <3> QED BY <2>2, <3>1
  <2> QED BY <2>4, <2>5
<1> QED BY <1>3, <1>6, <1>7, <1>8

\* An empty ring is an empty queue.
LEMMA EmptyQueue == m_size = 0 => Queue = <<>>
  BY DEF Queue

-----------------------------------------------------------------------------
\* After a broadcast nobody is asleep.
LEMMA BroadcastWakes ==
    ASSUME TypeOK, Broadcast
    PROVE  /\ pc' \in [Threads -> {"idle", "wait", "woken", "timed", "timewait", "timewoken"}]
           /\ \A t \in Threads : ~Asleep(t)'
  BY DEF TypeOK, Broadcast, Woken, Asleep

\* An empty ring with nobody in it.
LEMMA InitInv == Init => IInv
<1> SUFFICES ASSUME Init PROVE IInv
  OBVIOUS
<1>1. TypeOK
  BY QueueAssumption DEF Init, TypeOK, Contents, Slots
<1>2. RingAgrees
  BY QueueAssumption DEF Init, RingAgrees
<1>3. NoLostWakeup
  BY DEF Init, NoLostWakeup
<1> QED BY <1>1, <1>2, <1>3 DEF IInv

\* push(): refused it only wakes, accepted it appends and wakes everybody.
LEMMA PushStep ==
    ASSUME IInv, NEW t \in Threads, Push(t)
    PROVE  IInv' /\ [Fifo!Next]_<<Queue, item>>
<1>1. TypeOK /\ RingAgrees
  BY DEF IInv
<1>2. CASE PushRefused(t)
  <2>1. TypeOK' /\ NoLostWakeup'
    BY <1>1, <1>2, BroadcastWakes DEF PushRefused, TypeOK, ring, NoLostWakeup
  <2>2. RingAgrees' /\ UNCHANGED <<Queue, item>>
    BY <1>1, <1>2 DEF PushRefused, ring, RingAgrees, Queue
  <2> QED BY <2>1, <2>2 DEF IInv
<1>3. ASSUME NEW v \in Values, PushAccepted(t, v)
      PROVE  IInv' /\ [Fifo!Next]_<<Queue, item>>
  <2>1. RingAgrees' /\ Queue' = Append(Queue, v)
    BY <1>1, <1>3, StoreAppends DEF PushAccepted
  <2>2. TypeOK'
    <3>1. After(m_back) \in Slots /\ v \in Contents
      BY <1>1, AfterIsSlot DEF TypeOK, Contents
    <3>2. m_array' \in [Slots -> Contents] /\ m_size' \in 0 .. MaxSize
      BY <1>1, <1>3, <3>1, QueueAssumption DEF PushAccepted, TypeOK
    <3>3. m_back' \in -1 .. MaxSize - 1
      BY <1>3, <3>1, QueueAssumption DEF PushAccepted, Slots
    <3> QED BY <1>1, <1>3, <3>2, <3>3, BroadcastWakes DEF PushAccepted, TypeOK
  <2>3. NoLostWakeup'
    BY <1>1, <1>3, BroadcastWakes DEF PushAccepted, NoLostWakeup
  <2>4. Len(Queue) < MaxSize
    BY <1>1, <1>3, QueueAssumption DEF PushAccepted, TypeOK, Queue
  <2>5. Fifo!Put(v)
    BY <1>3, <2>1, <2>4 DEF PushAccepted, Fifo!Put
  <2> QED BY <2>1, <2>2, <2>3, <2>5 DEF IInv, Fifo!Next
<1> QED BY <1>2, <1>3 DEF Push

\* The end of a pop() takes the head, and nobody was asleep before it.
LEMMA TakeStep ==
    ASSUME IInv, NEW t \in Threads, TakeFront(t)
    PROVE  IInv' /\ [Fifo!Next]_<<Queue, item>>
<1>1. TypeOK /\ RingAgrees /\ NoLostWakeup
  BY DEF IInv
<1>2. /\ RingAgrees'
      /\ Queue # <<>>
      /\ m_array[After(m_front)] = Head(Queue)
      /\ Queue' = Tail(Queue)
  BY <1>1, TakeIsTail DEF TakeFront
<1>3. After(m_front) \in Slots
  BY <1>1, AfterIsSlot DEF TypeOK
<1>4. TypeOK'
  <2>1. m_size' \in 0 .. MaxSize
    BY <1>1, QueueAssumption DEF TakeFront, TypeOK
  <2>2. m_front' \in -1 .. MaxSize - 1
    BY <1>3, QueueAssumption DEF TakeFront, Slots
  <2>3. item' \in [Threads -> Contents]
    BY <1>1, <1>3 DEF TakeFront, TypeOK
  <2> QED BY <1>1, <2>1, <2>2, <2>3 DEF TakeFront, TypeOK
<1>5. NoLostWakeup'
  <2>1. \A u \in Threads : ~Asleep(u)
    BY <1>1 DEF NoLostWakeup, TakeFront
  <2>2. \A u \in Threads : ~Asleep(u)'
    BY <1>1, <2>1 DEF Asleep, TakeFront, TypeOK
  <2> QED BY <2>2 DEF NoLostWakeup
<1>6. Fifo!Take(t)
  BY <1>2 DEF TakeFront, Fifo!Take
<1> QED BY <1>2, <1>4, <1>5, <1>6 DEF IInv, Fifo!Next

\* The steps that leave the ring and the items alone, and put nobody to sleep
\* who was not asleep, unless the queue is empty.
LEMMA QuietStep ==
    ASSUME IInv, TypeOK', UNCHANGED <<ring, item>>,
           m_size = 0 \/ \A u \in Threads : Asleep(u)' => Asleep(u)
    PROVE  IInv' /\ [Fifo!Next]_<<Queue, item>>
<1>1. RingAgrees' /\ UNCHANGED <<Queue, item>>
  BY DEF IInv, RingAgrees, ring, Queue
<1>2. NoLostWakeup'
  BY DEF IInv, NoLostWakeup, ring
<1> QED BY <1>1, <1>2 DEF IInv

\* Going to sleep, waking up and giving up: only an empty queue puts a thread
\* to sleep.
LEMMA SleepStep ==
    ASSUME IInv, NEW t \in Threads,
           \/ PopWaits(t) \/ SpuriousWakeup(t) \/ TimedPopWaits(t)
           \/ TimedPopFindsNothing(t) \/ TimedPopTimesOut(t)
    PROVE  IInv' /\ [Fifo!Next]_<<Queue, item>>
<1>1. TypeOK
  BY DEF IInv
<1>2. UNCHANGED <<ring, item, value, deadline>>
  BY DEF PopWaits, SpuriousWakeup, TimedPopWaits, TimedPopFindsNothing, TimedPopTimesOut
<1>3. PICK place \in {"idle", "wait", "woken", "timed", "timewait", "timewoken"} :
        /\ pc' = [pc EXCEPT ![t] = place]
        /\ m_size = 0 \/ place \notin {"wait", "timewait"}
  BY <1>1 DEF PopWaits, SpuriousWakeup, TimedPopWaits, TimedPopFindsNothing,
              TimedPopTimesOut, Woken, Asleep, TypeOK
<1>4. TypeOK'
  BY <1>1, <1>2, <1>3 DEF TypeOK, ring
<1>5. m_size = 0 \/ \A u \in Threads : Asleep(u)' => Asleep(u)
  BY <1>1, <1>3 DEF Asleep, TypeOK
<1> QED BY <1>2, <1>4, <1>5, QuietStep

\* Computing a deadline touches nothing shared.
LEMMA TimedPopCallStep ==
    ASSUME IInv, NEW t \in Threads, NEW now \in Moments, NEW ms \in Delays,
           TimedPopCall(t, now, ms)
    PROVE  IInv' /\ [Fifo!Next]_<<Queue, item>>
<1>1. TypeOK
  BY DEF IInv
<1>2. Deadline(now, ms) \in Nat
  <2>1. now \in Nat /\ ms \in Nat /\ K \in Nat \ {0}
    BY QueueAssumption
  <2>2. K * K \in Nat \ {0}
    BY <2>1
  <2>3. now \div (K * K) \in Nat /\ ms \div K \in Nat /\ ms % K \in Nat
    BY <2>1, <2>2
  <2>4. (now \div (K * K) + ms \div K) * (K * K) \in Nat
    BY <2>2, <2>3
  <2> QED BY <2>3, <2>4 DEF Deadline
<1>3. TypeOK'
  BY <1>1, <1>2 DEF TimedPopCall, TypeOK, ring
<1>4. \A u \in Threads : Asleep(u)' => Asleep(u)
  BY <1>1 DEF TimedPopCall, Asleep, TypeOK
<1> QED BY <1>3, <1>4, QuietStep DEF TimedPopCall

\* clear() resets both indices, so they agree on an empty ring.
LEMMA ClearStep ==
    ASSUME IInv, NEW t \in Threads, Clear(t)
    PROVE  IInv' /\ [Fifo!Next]_<<Queue, item>>
<1>1. TypeOK'
  BY QueueAssumption DEF IInv, Clear, TypeOK
<1>2. RingAgrees' /\ NoLostWakeup'
  BY QueueAssumption DEF Clear, RingAgrees, NoLostWakeup
<1>3. Queue' = <<>>
  BY DEF Clear, Queue
<1>4. Fifo!Clear
  BY <1>3 DEF Clear, Fifo!Clear
<1> QED BY <1>1, <1>2, <1>4 DEF IInv, Fifo!Next

\* front() and back() only look.
LEMMA LookStep ==
    ASSUME IInv, NEW t \in Threads, Front(t) \/ Back(t)
    PROVE  IInv' /\ [Fifo!Next]_<<Queue, item>>
<1>1. TypeOK /\ RingAgrees
  BY DEF IInv
<1>2. m_back \in Slots
  BY <1>1, QueueAssumption DEF Front, Back, TypeOK, RingAgrees, Slots
<1>3. value' \in Contents
  BY <1>1, <1>2 DEF Front, Back, TypeOK
<1>4. UNCHANGED <<ring, pc, item, deadline>>
  BY DEF Front, Back
<1>5. TypeOK'
  BY <1>1, <1>3, <1>4 DEF TypeOK, ring
<1> QED BY <1>4, <1>5, QuietStep DEF Asleep

\* Every step keeps the invariant and is a step of the bounded queue or none.
LEMMA StepOK == IInv /\ [Next]_vars => IInv' /\ [Fifo!Next]_<<Queue, item>>
<1> SUFFICES ASSUME IInv, [Next]_vars PROVE IInv' /\ [Fifo!Next]_<<Queue, item>>
  OBVIOUS
<1>1. ASSUME NEW t \in Threads, Push(t) PROVE IInv' /\ [Fifo!Next]_<<Queue, item>>
  BY <1>1, PushStep
<1>2. ASSUME NEW t \in Threads, Pop(t) PROVE IInv' /\ [Fifo!Next]_<<Queue, item>>
  BY <1>2, TakeStep, SleepStep DEF Pop, PopTakes
<1>3. ASSUME NEW t \in Threads, TimedPop(t) PROVE IInv' /\ [Fifo!Next]_<<Queue, item>>
  BY <1>3, TimedPopCallStep, TakeStep, SleepStep DEF TimedPop, TimedPopTakes
<1>4. ASSUME NEW t \in Threads, SpuriousWakeup(t) PROVE IInv' /\ [Fifo!Next]_<<Queue, item>>
  BY <1>4, SleepStep
<1>5. ASSUME NEW t \in Threads, Clear(t) PROVE IInv' /\ [Fifo!Next]_<<Queue, item>>
  BY <1>5, ClearStep
<1>6. ASSUME NEW t \in Threads, Front(t) \/ Back(t) PROVE IInv' /\ [Fifo!Next]_<<Queue, item>>
  BY <1>6, LookStep
<1>7. CASE UNCHANGED vars
  <2>1. TypeOK'
    BY <1>7 DEF IInv, TypeOK, vars, ring
  <2> QED BY <1>7, <2>1, QuietStep DEF vars, Asleep
<1> QED BY <1>1, <1>2, <1>3, <1>4, <1>5, <1>6, <1>7 DEF Next

\* The invariant holds in every reachable state.
LEMMA Invariance == Spec => []IInv
<1>1. IInv /\ [Next]_vars => IInv'
  BY StepOK
<1> QED BY InitInv, <1>1, PTL DEF Spec

-----------------------------------------------------------------------------
\* Type correctness.
THEOREM TypeCorrect == Spec => []TypeOK
<1>1. IInv => TypeOK
  BY DEF IInv
<1> QED BY Invariance, <1>1, PTL

\* m_front, m_back and m_size always agree, after any number of rounds.
THEOREM RingCorrect == Spec => []RingAgrees
<1>1. IInv => RingAgrees
  BY DEF IInv
<1> QED BY Invariance, <1>1, PTL

\* Nobody sleeps in a pop() of a queue that is not empty.
THEOREM NoLostWakeupCorrect == Spec => []NoLostWakeup
<1>1. IInv => NoLostWakeup
  BY DEF IInv
<1> QED BY Invariance, <1>1, PTL

\* The ring, its wakeups and its timeouts implement a bounded queue.
THEOREM Implements == Spec => IsFifo
<1>1. Init => Fifo!Init
  <2>1. Init => Queue = <<>>
    BY EmptyQueue DEF Init
  <2> QED BY <2>1 DEF Init, Fifo!Init
<1>2. IInv /\ [Next]_vars => [Fifo!Next]_<<Queue, item>>
  BY StepOK
<1> QED BY <1>1, <1>2, Invariance, PTL DEF Spec, IsFifo, Fifo!Spec

\* back() gives the item that went in last, wherever the ring stands.
THEOREM BackCorrect == Spec => BackIsLast
<1>1. IInv => (\A t \in Threads : Back(t) /\ m_size > 0 => value' = Queue[m_size])
  <2> SUFFICES ASSUME IInv, NEW t \in Threads, Back(t), m_size > 0
               PROVE  value' = Queue[m_size]
    OBVIOUS
  <2>1. /\ m_back \in 0 .. MaxSize - 1 /\ MaxSize \in Nat \ {0}
        /\ m_size \in Nat
        /\ m_back % MaxSize = (m_front + m_size) % MaxSize
    BY QueueAssumption DEF IInv, TypeOK, RingAgrees
  <2>2. m_back % MaxSize = m_back
    BY <2>1, ModWithin
  <2> QED BY <2>1, <2>2 DEF Back, Queue
<1> QED BY Invariance, <1>1, PTL DEF BackIsLast
=============================================================================
