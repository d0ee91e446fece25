-------------------------- MODULE TimerWheelProofs --------------------------
(***************************************************************************)
(* What TimerWheel promises, for every number of slots, every set of       *)
(* timers and every delay: the lists stay sound, no freed timer is reached *)
(* and none is lost, and the wheel implements TimerSet.                    *)
(*                                                                         *)
(* TypeOK and NoDangling are not inductive.  When tick() frees a timer it  *)
(* goes on with the next one, which must not be the same; so the lists     *)
(* have no cycle (Acyclic), and what the walk has passed is closed under   *)
(* both links (PassedOK).                                                  *)
(***************************************************************************)
EXTENDS TimerWheel, NaturalsInduction, WellFoundedInduction, TLAPS

USE DEF Slots, Pointers

\* The timers of L are soundly linked by heads sl, links nx and pv, slots ts.
Sound(sl, nx, pv, ts, L) ==
    /\ \A s \in Slots : sl[s] # Nil => sl[s] \in L /\ ts[sl[s]] = s /\ pv[sl[s]] = Nil
    /\ \A t \in L : nx[t] # Nil => nx[t] \in L /\ pv[nx[t]] = t /\ ts[nx[t]] = ts[t]
    /\ \A t \in L : pv[t] = Nil => sl[ts[t]] = t
    /\ \A t \in L : pv[t] # Nil => pv[t] \in L /\ nx[pv[t]] = t /\ ts[pv[t]] = ts[t]

\* Following nx from a timer of L never comes back: some rank grows on the way.
AcyclicOn(nx, L) ==
    \E rank \in [Timers -> Nat] : \A t \in L : nx[t] # Nil => rank[t] < rank[nx[t]]

Acyclic == AcyclicOn(next, live)

PassedOK ==
    /\ \A t \in passed : /\ prev[t] # Nil => prev[t] \in passed
                         /\ next[t] # Nil => next[t] \in passed \cup {tmp}
    /\ tmp # Nil => /\ tmp \notin passed
                    /\ prev[tmp] # Nil => prev[tmp] \in passed
    /\ walking /\ slots[cur_slot] # Nil => slots[cur_slot] \in passed \cup {tmp}

IInv == TypeOK /\ NoDangling /\ PassedOK /\ Acyclic

-----------------------------------------------------------------------------
\* The arithmetic of the wheel.
LEMMA ModType ==
    ASSUME NEW n \in Nat \ {0}, NEW x \in Int
    PROVE  x % n \in 0 .. n - 1
OBVIOUS

\* Quotient and remainder.
LEMMA DivType ==
    ASSUME NEW n \in Nat \ {0}, NEW x \in Nat
    PROVE  /\ x \div n \in Nat
           /\ (x \div n) * n + (x % n) = x
OBVIOUS

\* A slot m places ahead of the current one is m places ahead.
LEMMA AheadOfSlot ==
    ASSUME NEW n \in Nat \ {0}, NEW c \in 0 .. n - 1, NEW m \in 0 .. n - 1
    PROVE  (((c + m) % n) - c) % n = m
<1>1. CASE c + m < n
  <2>1. (c + m) % n = c + m
    BY <1>1
  <2>2. m % n = m
    OBVIOUS
  <2> QED BY <2>1, <2>2
<1>2. CASE c + m >= n
  <2>1. (c + m) % n = c + m - n
    BY <1>2
  <2>2. (m - n) % n = m
    OBVIOUS
  <2> QED BY <2>1, <2>2
<1> QED BY <1>1, <1>2

\* One turn of the wheel brings every slot one place nearer, except that the
\* current slot becomes the last one.
LEMMA AheadAfterTick ==
    ASSUME NEW n \in Nat \ {0}, NEW c \in 0 .. n - 1, NEW s \in 0 .. n - 1
    PROVE  /\ s = c => (s - c) % n = 0
           /\ s = c => (s - ((c + 1) % n)) % n = n - 1
           /\ s # c => /\ (s - c) % n # 0
                       /\ (s - ((c + 1) % n)) % n = ((s - c) % n) - 1
<1>1. CASE c = n - 1
  <2>1. (c + 1) % n = 0
    BY <1>1
  <2>2. s % n = s
    OBVIOUS
  <2>3. s < c => (s - c) % n = s - c + n
    OBVIOUS
  <2> QED BY <1>1, <2>1, <2>2, <2>3
<1>2. CASE c < n - 1
  <2>1. (c + 1) % n = c + 1
    BY <1>2
  <2>2. s > c => (s - c) % n = s - c /\ (s - (c + 1)) % n = s - (c + 1)
    OBVIOUS
  <2>3. s < c => (s - c) % n = s - c + n /\ (s - (c + 1)) % n = s - (c + 1) + n
    BY <1>2
  <2>4. s = c => (s - c) % n = 0 /\ (s - (c + 1)) % n = n - 1
    BY <1>2
  <2> QED BY <2>1, <2>2, <2>3, <2>4
<1> QED BY <1>1, <1>2

\* tw_timer::init() gives a place that is Ticks(timeout) ticks away.
LEMMA PlaceOfDelay ==
    ASSUME NEW timeout \in Int, cur_slot \in Slots
    PROVE  /\ Ticks(timeout) \in Nat \ {0}
           /\ Rotation(timeout) \in Nat
           /\ Slot(timeout) \in Slots
           /\ Rotation(timeout) * N + ((Slot(timeout) - cur_slot) % N) = Ticks(timeout)
<1>1. Ticks(timeout) \in Nat \ {0}
  BY WheelAssumption DEF Ticks
<1>2. Ticks(timeout) % N \in 0 .. N - 1
  BY <1>1, WheelAssumption, ModType
<1>3. Rotation(timeout) \in Nat /\ Rotation(timeout) * N + (Ticks(timeout) % N) = Ticks(timeout)
  BY <1>1, WheelAssumption, DivType DEF Rotation
<1>4. Slot(timeout) \in Slots
  BY <1>2, WheelAssumption, ModType DEF Slot
<1>5. (Slot(timeout) - cur_slot) % N = Ticks(timeout) % N
  BY <1>2, WheelAssumption, AheadOfSlot DEF Slot
<1> QED BY <1>1, <1>3, <1>4, <1>5

-----------------------------------------------------------------------------
\* The two list operations.

\* The three list invariants are Sound of the whole wheel.
LEMMA SoundLists ==
    HeadsOK /\ NextOK /\ PrevOK <=> Sound(slots, next, prev, time_slot, live)
BY DEF HeadsOK, NextOK, PrevOK, Sound, IsHead

\* Taking a timer out leaves sound lists of the others.
LEMMA WithoutSound ==
    ASSUME TypeOK, Sound(slots, next, prev, time_slot, live), NEW t \in live
    PROVE  /\ SlotsWithout(t) \in [Slots -> Pointers]
           /\ NextWithout(t) \in [Timers -> Pointers]
           /\ PrevWithout(t) \in [Timers -> Pointers]
           /\ Sound(SlotsWithout(t), NextWithout(t), PrevWithout(t), time_slot, live \ {t})
<1> USE WheelAssumption DEF TypeOK
<1>1. SlotsWithout(t) \in [Slots -> Pointers]
  BY DEF SlotsWithout
<1>2. NextWithout(t) \in [Timers -> Pointers]
  BY DEF NextWithout
<1>3. PrevWithout(t) \in [Timers -> Pointers]
  BY DEF PrevWithout
<1>4. CASE IsHead(t)
  BY <1>1, <1>2, <1>3, <1>4 DEF Sound, IsHead, SlotsWithout, NextWithout, PrevWithout
<1>5. CASE ~IsHead(t)
  BY <1>1, <1>2, <1>3, <1>5 DEF Sound, IsHead, SlotsWithout, NextWithout, PrevWithout
<1> QED BY <1>4, <1>5

\* It makes no cycle either.
LEMMA WithoutAcyclic ==
    ASSUME TypeOK, Sound(slots, next, prev, time_slot, live), Acyclic, NEW t \in live
    PROVE  AcyclicOn(NextWithout(t), live \ {t})
<1>1. PICK rank \in [Timers -> Nat] : \A u \in live : next[u] # Nil => rank[u] < rank[next[u]]
  BY DEF Acyclic, AcyclicOn
<1>2. \A u \in live \ {t} : NextWithout(t)[u] # Nil => rank[u] < rank[NextWithout(t)[u]]
  BY <1>1, WheelAssumption DEF TypeOK, Sound, IsHead, NextWithout
<1> QED BY <1>2 DEF AcyclicOn

\* Pushing a timer that is in no list leaves sound lists.
LEMMA PushSound ==
    ASSUME NEW L \in SUBSET Timers, NEW t \in Timers \ L, NEW s \in Slots,
           NEW sl \in [Slots -> Pointers],
           NEW nx \in [Timers -> Pointers],
           NEW pv \in [Timers -> Pointers],
           NEW ts \in [Timers -> Slots],
           Sound(sl, nx, pv, ts, L),
           PushFront(t, s, sl, nx, pv),
           time_slot' = [ts EXCEPT ![t] = s]
    PROVE  /\ slots' \in [Slots -> Pointers]
           /\ next' \in [Timers -> Pointers]
           /\ prev' \in [Timers -> Pointers]
           /\ Sound(slots', next', prev', time_slot', L \cup {t})
<1> USE WheelAssumption
<1>1. slots' \in [Slots -> Pointers] /\ next' \in [Timers -> Pointers]
  BY DEF PushFront
<1>2. prev' \in [Timers -> Pointers]
  BY DEF PushFront
<1>3. ASSUME NEW r \in Slots, slots'[r] # Nil
      PROVE  slots'[r] \in L \cup {t} /\ time_slot'[slots'[r]] = r /\ prev'[slots'[r]] = Nil
  BY <1>3 DEF PushFront, Sound
<1>4. ASSUME NEW u \in L \cup {t}, next'[u] # Nil
      PROVE  next'[u] \in L \cup {t} /\ prev'[next'[u]] = u /\ time_slot'[next'[u]] = time_slot'[u]
  BY <1>4 DEF PushFront, Sound
<1>5. ASSUME NEW u \in L \cup {t}, prev'[u] = Nil
      PROVE  slots'[time_slot'[u]] = u
  BY <1>5 DEF PushFront, Sound
<1>6. ASSUME NEW u \in L \cup {t}, prev'[u] # Nil
      PROVE  prev'[u] \in L \cup {t} /\ next'[prev'[u]] = u /\ time_slot'[prev'[u]] = time_slot'[u]
  BY <1>6 DEF PushFront, Sound
<1> QED BY <1>1, <1>2, <1>3, <1>4, <1>5, <1>6 DEF Sound

\* Pushing at the head makes no cycle.
LEMMA PushAcyclic ==
    ASSUME NEW L \in SUBSET Timers, NEW t \in Timers \ L, NEW s \in Slots,
           NEW sl \in [Slots -> Pointers],
           NEW nx \in [Timers -> Pointers],
           NEW pv, NEW ts,
           Sound(sl, nx, pv, ts, L),
           AcyclicOn(nx, L),
           PushFront(t, s, sl, nx, pv)
    PROVE  AcyclicOn(next', L \cup {t})
<1>1. PICK rank \in [Timers -> Nat] : \A u \in L : nx[u] # Nil => rank[u] < rank[nx[u]]
  BY DEF AcyclicOn
<1> DEFINE later == [u \in Timers |-> IF u = t THEN 0 ELSE rank[u] + 1]
<1>2. later \in [Timers -> Nat]
  OBVIOUS
<1>3. ASSUME NEW u \in L \cup {t}, next'[u] # Nil
      PROVE  later[u] < later[next'[u]]
  <2>1. CASE u = t
    <3>1. next'[u] = sl[s] /\ sl[s] \in L
      BY <1>3, <2>1 DEF PushFront, Sound
    <3>2. later[u] = 0 /\ later[sl[s]] = rank[sl[s]] + 1 /\ rank[sl[s]] \in Nat
      BY <2>1, <3>1
    <3> QED BY <3>1, <3>2
  <2>2. CASE u # t
    <3>1. next'[u] = nx[u] /\ nx[u] \in L
      BY <1>3, <2>2 DEF PushFront, Sound
    <3> QED BY <1>1, <1>3, <2>2, <3>1
  <2> QED BY <2>1, <2>2
<1> HIDE DEF later
<1> QED BY <1>2, <1>3 DEF AcyclicOn

-----------------------------------------------------------------------------
\* The walk of a list is complete: a set that holds the head and is closed
\* under next holds every timer of the slot.  Of the others, the one of the
\* lowest rank would have no predecessor.
LEMMA WalkIsComplete ==
    ASSUME TypeOK, Sound(slots, next, prev, time_slot, live), Acyclic,
           NEW s \in Slots, NEW S \in SUBSET Timers, FoundFrom(s, S)
    PROVE  \A t \in live : time_slot[t] = s => t \in S
<1> DEFINE R == {t \in live : time_slot[t] = s /\ t \notin S}
<1>1. PICK rank \in [Timers -> Nat] : \A t \in live : next[t] # Nil => rank[t] < rank[next[t]]
  BY DEF Acyclic, AcyclicOn
<1>2. SUFFICES ASSUME R # {} PROVE FALSE
  OBVIOUS
<1> DEFINE ranks == {rank[t] : t \in R}
<1>3. ranks \in SUBSET Nat /\ ranks # {}
  <2>1. R \subseteq Timers
    BY DEF TypeOK
  <2>2. \A t \in R : rank[t] \in Nat
    BY <1>1, <2>1
  <2> HIDE DEF R
  <2> QED BY <1>2, <2>2
<1>4. PICK m \in ranks : \A k \in ranks : <<k, m>> \notin OpToRel(<, Nat)
  <2> HIDE DEF ranks
  <2> QED BY <1>3, NatLessThanWellFounded, WFMin
<1>5. PICK t \in R : rank[t] = m
  BY <1>4
<1>6. \A u \in R : ~(rank[u] < rank[t])
  BY <1>1, <1>4, <1>5 DEF OpToRel, TypeOK
<1>7. CASE prev[t] = Nil
  <2>1. t \in live /\ time_slot[t] = s /\ t \notin S /\ t # Nil
    BY <1>5, WheelAssumption DEF TypeOK
  <2>2. slots[s] = t
    BY <1>7, <2>1 DEF Sound
  <2> QED BY <2>1, <2>2 DEF FoundFrom
<1>8. CASE prev[t] # Nil
  <2>1. /\ prev[t] \in live /\ next[prev[t]] = t
        /\ time_slot[prev[t]] = s
    BY <1>5, <1>8 DEF Sound
  <2>2. rank[prev[t]] < rank[t] /\ t # Nil
    BY <1>1, <2>1, <1>5, WheelAssumption DEF TypeOK
  <2>3. prev[t] \notin S
    BY <2>1, <2>2, <1>5 DEF FoundFrom
  <2> QED BY <1>6, <2>1, <2>2, <2>3
<1> QED BY <1>7, <1>8

\* So every timer is in the list of its slot, and nothing else is.
LEMMA ListedIsLive ==
    ASSUME IInv
    PROVE  EveryTimerIsListed /\ Listed = live
<1>1. TypeOK /\ Sound(slots, next, prev, time_slot, live) /\ Acyclic
  BY SoundLists DEF IInv, NoDangling
<1>2. EveryTimerIsListed
  BY <1>1, WalkIsComplete DEF EveryTimerIsListed, Reached, TypeOK
<1>3. ASSUME NEW s \in Slots PROVE FoundFrom(s, live)
  BY <1>1 DEF FoundFrom, Sound
<1>4. \A s \in Slots : Reached(s) \subseteq live
  BY <1>1, <1>3 DEF Reached, TypeOK
<1>5. live \subseteq Listed
  BY <1>1, <1>2 DEF Listed, EveryTimerIsListed, TypeOK
<1> QED BY <1>2, <1>4, <1>5 DEF Listed

-----------------------------------------------------------------------------
\* The invariant, action by action.

\* An empty wheel is sound.
LEMMA InitEstablishes == Init => IInv
<1> SUFFICES ASSUME Init PROVE IInv
  OBVIOUS
<1> USE WheelAssumption DEF Init
<1>1. TypeOK
  <2>1. slots \in [Slots -> Pointers] /\ cur_slot \in Slots
    OBVIOUS
  <2>2. next \in [Timers -> Pointers] /\ prev \in [Timers -> Pointers]
    OBVIOUS
  <2>3. rotation \in [Timers -> Nat] /\ time_slot \in [Timers -> Slots]
    OBVIOUS
  <2>4. live \in SUBSET Timers /\ walking \in BOOLEAN /\ tmp \in Pointers /\ passed \in SUBSET Timers
    OBVIOUS
  <2> QED BY <2>1, <2>2, <2>3, <2>4 DEF TypeOK
<1>2. NoDangling
  BY DEF NoDangling, HeadsOK, NextOK, PrevOK, WalkOK
<1>3. PassedOK
  BY DEF PassedOK
<1>4. Acyclic
  <2>1. [t \in Timers |-> 0] \in [Timers -> Nat]
    OBVIOUS
  <2> QED BY <2>1 DEF Acyclic, AcyclicOn
<1> QED BY <1>1, <1>2, <1>3, <1>4 DEF IInv

\* Outside a tick the walk says nothing.
LEMMA WalkAtRest ==
    ASSUME IInv, ~walking
    PROVE  tmp = Nil /\ passed = {}
BY DEF IInv, NoDangling, WalkOK

\* What remains to show of an operation that leaves the walk at rest.
LEMMA RestSuffices ==
    ASSUME IInv, ~walking, UNCHANGED walk,
           TypeOK', Sound(slots', next', prev', time_slot', live'), AcyclicOn(next', live')
    PROVE  IInv'
<1>1. tmp = Nil /\ passed = {}
  BY WalkAtRest
<1>2. HeadsOK' /\ NextOK' /\ PrevOK'
  BY DEF HeadsOK, NextOK, PrevOK, Sound, IsHead
<1>3. WalkOK' /\ PassedOK'
  BY <1>1 DEF WalkOK, PassedOK, walk
<1> QED BY <1>2, <1>3 DEF IInv, NoDangling, Acyclic

\* add_timer() pushes a timer that was in no list.
LEMMA AddTimerStep ==
    ASSUME IInv, NEW t \in Timers, NEW timeout \in Timeouts, AddTimer(t, timeout)
    PROVE  IInv'
<1>1. TypeOK /\ Sound(slots, next, prev, time_slot, live) /\ Acyclic
  BY SoundLists DEF IInv, NoDangling
<1>2. Slot(timeout) \in Slots /\ Rotation(timeout) \in Nat
  BY <1>1, PlaceOfDelay, WheelAssumption DEF TypeOK
<1>3. /\ slots' \in [Slots -> Pointers]
      /\ next' \in [Timers -> Pointers]
      /\ prev' \in [Timers -> Pointers]
      /\ Sound(slots', next', prev', time_slot', live')
  <2>1. /\ PushFront(t, Slot(timeout), slots, next, prev)
        /\ time_slot' = [time_slot EXCEPT ![t] = Slot(timeout)]
        /\ live' = live \cup {t} /\ t \notin live
    BY DEF AddTimer
  <2>2. /\ slots \in [Slots -> Pointers] /\ next \in [Timers -> Pointers]
        /\ prev \in [Timers -> Pointers] /\ time_slot \in [Timers -> Slots]
        /\ live \in SUBSET Timers
    BY <1>1 DEF TypeOK
  <2> QED BY <1>1, <1>2, <2>1, <2>2, PushSound
<1>4. AcyclicOn(next', live')
  BY <1>1, <1>2, PushAcyclic DEF AddTimer, TypeOK, Acyclic
<1>5. TypeOK'
  BY <1>1, <1>2, <1>3 DEF TypeOK, AddTimer, walk
<1> QED BY <1>3, <1>4, <1>5, RestSuffices DEF AddTimer

\* Free() leaves sound lists, and types.
LEMMA FreeSound ==
    ASSUME IInv, NEW t \in live, Free(t)
    PROVE  /\ slots' \in [Slots -> Pointers]
           /\ next' \in [Timers -> Pointers]
           /\ prev' \in [Timers -> Pointers]
           /\ rotation' \in [Timers -> Nat]
           /\ time_slot' \in [Timers -> Slots]
           /\ live' \in SUBSET Timers
           /\ Sound(slots', next', prev', time_slot', live')
           /\ AcyclicOn(next', live')
<1>1. TypeOK /\ Sound(slots, next, prev, time_slot, live) /\ Acyclic
  BY SoundLists DEF IInv, NoDangling
<1>2. /\ SlotsWithout(t) \in [Slots -> Pointers]
      /\ NextWithout(t) \in [Timers -> Pointers]
      /\ PrevWithout(t) \in [Timers -> Pointers]
      /\ Sound(SlotsWithout(t), NextWithout(t), PrevWithout(t), time_slot, live \ {t})
  BY <1>1, WithoutSound
<1>3. AcyclicOn(NextWithout(t), live \ {t})
  BY <1>1, WithoutAcyclic
<1>4. /\ slots' \in [Slots -> Pointers] /\ next' \in [Timers -> Pointers]
      /\ prev' \in [Timers -> Pointers] /\ live' \in SUBSET Timers
  BY <1>1, <1>2 DEF Free, TypeOK
<1>5. rotation' \in [Timers -> Nat] /\ time_slot' \in [Timers -> Slots]
  BY <1>1, WheelAssumption DEF Free, TypeOK
<1>6. Sound(slots', next', prev', time_slot', live')
  BY <1>1, <1>2, WheelAssumption DEF Free, Sound, TypeOK
<1>7. AcyclicOn(next', live')
  BY <1>1, <1>2, <1>3 DEF Free, AcyclicOn, TypeOK
<1> QED BY <1>4, <1>5, <1>6, <1>7

\* del_timer() takes out one timer between two walks.
LEMMA DelTimerStep ==
    ASSUME IInv, NEW t \in Timers, DelTimer(t)
    PROVE  IInv'
<1>1. t \in live /\ Free(t)
  BY DEF DelTimer
<1>2. TypeOK'
  BY <1>1, FreeSound DEF IInv, TypeOK, DelTimer, walk
<1> QED BY <1>1, <1>2, FreeSound, RestSuffices DEF DelTimer

\* adjust_timer() takes a timer out and pushes it, maybe into the same slot.
LEMMA AdjustTimerStep ==
    ASSUME IInv, NEW t \in Timers, NEW timeout \in Timeouts, AdjustTimer(t, timeout)
    PROVE  IInv'
<1> DEFINE sl == SlotsWithout(t)
           nx == [NextWithout(t) EXCEPT ![t] = Nil]
           pv == [PrevWithout(t) EXCEPT ![t] = Nil]
           s  == Slot(timeout)
           L  == live \ {t}
<1>1. TypeOK /\ Sound(slots, next, prev, time_slot, live) /\ Acyclic
  BY SoundLists DEF IInv, NoDangling
<1>2. s \in Slots /\ Rotation(timeout) \in Nat
  BY <1>1, PlaceOfDelay, WheelAssumption DEF TypeOK
<1>3. t \in live /\ PushFront(t, s, sl, nx, pv)
      /\ time_slot' = [time_slot EXCEPT ![t] = s]
      /\ live' = L \cup {t}
  BY DEF AdjustTimer
<1>4. /\ sl \in [Slots -> Pointers]
      /\ NextWithout(t) \in [Timers -> Pointers]
      /\ PrevWithout(t) \in [Timers -> Pointers]
      /\ Sound(sl, NextWithout(t), PrevWithout(t), time_slot, L)
  BY <1>1, <1>3, WithoutSound
<1>5. /\ nx \in [Timers -> Pointers]
      /\ pv \in [Timers -> Pointers]
      /\ Sound(sl, nx, pv, time_slot, L)
  <2>1. nx \in [Timers -> Pointers] /\ pv \in [Timers -> Pointers]
    BY <1>4
  <2>2. \A u \in L : nx[u] = NextWithout(t)[u] /\ pv[u] = PrevWithout(t)[u]
    BY <1>1, <1>4 DEF TypeOK
  <2> HIDE DEF nx, pv, sl
  <2> QED BY <1>4, <2>1, <2>2 DEF Sound
<1>6. AcyclicOn(nx, L)
  <2>1. AcyclicOn(NextWithout(t), L)
    BY <1>1, <1>3, WithoutAcyclic
  <2>2. \A u \in L : nx[u] = NextWithout(t)[u]
    BY <1>1, <1>4 DEF TypeOK
  <2> HIDE DEF nx
  <2> QED BY <2>1, <2>2 DEF AcyclicOn
<1>7. L \in SUBSET Timers /\ t \in Timers \ L /\ time_slot \in [Timers -> Slots]
  BY <1>1 DEF TypeOK
<1> HIDE DEF sl, nx, pv, s, L
<1>8. /\ slots' \in [Slots -> Pointers]
      /\ next' \in [Timers -> Pointers]
      /\ prev' \in [Timers -> Pointers]
      /\ Sound(slots', next', prev', time_slot', live')
  BY <1>2, <1>3, <1>4, <1>5, <1>7, PushSound
<1>9. AcyclicOn(next', live')
  BY <1>2, <1>3, <1>4, <1>5, <1>6, <1>7, PushAcyclic
<1>10. TypeOK'
  <2>1. rotation' \in [Timers -> Nat] /\ time_slot' \in [Timers -> Slots]
    BY <1>1, <1>2, <1>3 DEF TypeOK, AdjustTimer
  <2>2. UNCHANGED <<cur_slot, live, walking, tmp, passed>>
    BY DEF AdjustTimer, walk
  <2> QED BY <1>1, <1>8, <2>1, <2>2 DEF TypeOK
<1> QED BY <1>8, <1>9, <1>10, RestSuffices DEF AdjustTimer

\* The destructor frees everything, because every timer is listed.
LEMMA DestroyStep ==
    ASSUME IInv, Destroy
    PROVE  IInv'
<1>1. TypeOK /\ Listed = live
  BY ListedIsLive DEF IInv
<1>2. live' = {} /\ slots' = [s \in Slots |-> Nil]
  BY <1>1 DEF Destroy
<1>3. TypeOK'
  <2>1. slots' \in [Slots -> Pointers] /\ live' \in SUBSET Timers
    BY <1>2
  <2>2. next' \in [Timers -> Pointers] /\ prev' \in [Timers -> Pointers]
    BY <1>1 DEF Destroy, TypeOK
  <2>3. rotation' \in [Timers -> Nat] /\ time_slot' \in [Timers -> Slots]
    BY <1>1, WheelAssumption DEF Destroy, TypeOK
  <2> QED BY <1>1, <2>1, <2>2, <2>3 DEF Destroy, TypeOK, walk
<1>4. Sound(slots', next', prev', time_slot', live')
  BY <1>2 DEF Sound
<1>5. AcyclicOn(next', live')
  <2>1. [t \in Timers |-> 0] \in [Timers -> Nat]
    OBVIOUS
  <2> QED BY <1>2, <2>1 DEF AcyclicOn
<1> QED BY <1>3, <1>4, <1>5, RestSuffices DEF Destroy

\* The walk.
LEMMA TickBeginStep ==
    ASSUME IInv, TickBegin
    PROVE  IInv'
<1>1. TypeOK /\ NoDangling /\ Acyclic
  BY DEF IInv
<1>2. tmp = Nil /\ passed = {}
  BY WalkAtRest DEF TickBegin
<1>3. TypeOK'
  BY <1>1 DEF TickBegin, TypeOK, timers
<1>4. NoDangling'
  BY <1>1, <1>2 DEF NoDangling, HeadsOK, NextOK, PrevOK, WalkOK, IsHead, TickBegin, timers, TypeOK
<1>5. PassedOK'
  BY <1>1, <1>2 DEF PassedOK, TickBegin, timers, NoDangling, HeadsOK, TypeOK
<1>6. Acyclic'
  BY <1>1 DEF Acyclic, AcyclicOn, TickBegin, timers
<1> QED BY <1>3, <1>4, <1>5, <1>6 DEF IInv

\* A timer that is passed joins those behind the walk.
LEMMA TickPassStep ==
    ASSUME IInv, TickPass
    PROVE  IInv'
<1>1. TypeOK /\ NoDangling /\ PassedOK /\ Acyclic
  BY DEF IInv
<1>2. tmp \in live /\ time_slot[tmp] = cur_slot /\ tmp \in Timers
  BY <1>1 DEF NoDangling, WalkOK, TickPass, TypeOK
<1>3. next[tmp] # tmp
  BY <1>1, <1>2, WheelAssumption DEF NoDangling, NextOK, PassedOK, TypeOK
<1>4. TypeOK'
  BY <1>1, <1>2 DEF TickPass, TypeOK
<1>5. NoDangling'
  <2>1. HeadsOK' /\ NextOK' /\ PrevOK'
    BY <1>1 DEF NoDangling, HeadsOK, NextOK, PrevOK, IsHead, TickPass
  <2>2. WalkOK'
    BY <1>1, <1>2 DEF NoDangling, NextOK, WalkOK, TickPass, TypeOK
  <2> QED BY <2>1, <2>2 DEF NoDangling
<1>6. PassedOK'
  <2>1. \A t \in passed' : prev'[t] # Nil => prev'[t] \in passed'
    BY <1>1, <1>2 DEF PassedOK, TickPass
  <2>2. \A t \in passed' : next'[t] # Nil => next'[t] \in passed' \cup {tmp'}
    BY <1>1, <1>2 DEF PassedOK, TickPass
  <2>3. tmp' # Nil => tmp' \notin passed' /\ (prev'[tmp'] # Nil => prev'[tmp'] \in passed')
    BY <1>1, <1>2, <1>3, WheelAssumption DEF NoDangling, NextOK, PassedOK, TickPass, TypeOK
  <2>4. walking' /\ slots'[cur_slot'] # Nil => slots'[cur_slot'] \in passed' \cup {tmp'}
    BY <1>1 DEF PassedOK, TickPass
  <2> QED BY <2>1, <2>2, <2>3, <2>4 DEF PassedOK
<1>7. Acyclic'
  BY <1>1 DEF Acyclic, AcyclicOn, TickPass
<1> QED BY <1>4, <1>5, <1>6, <1>7 DEF IInv

\* The timer that expires leaves the list; the walk goes on with the one after
\* it, which is still allocated.
LEMMA TickExpireStep ==
    ASSUME IInv, TickExpire
    PROVE  IInv'
<1>1. TypeOK /\ NoDangling /\ PassedOK
  BY DEF IInv
<1>2. Sound(slots, next, prev, time_slot, live)
  BY <1>1, SoundLists DEF NoDangling
<1>3. /\ tmp \in live /\ time_slot[tmp] = cur_slot /\ tmp \in Timers /\ tmp # Nil
      /\ Free(tmp) /\ tmp' = next[tmp] /\ walking' = walking /\ walking
      /\ UNCHANGED <<cur_slot, passed>>
  BY <1>1 DEF NoDangling, WalkOK, TickExpire, TypeOK
<1>4. next[tmp] # tmp /\ next[tmp] \notin passed
  BY <1>1, <1>3, WheelAssumption DEF NoDangling, NextOK, PassedOK, TypeOK
<1>5. TypeOK'
  BY <1>1, <1>3, FreeSound DEF TypeOK
<1>6. HeadsOK' /\ NextOK' /\ PrevOK'
  <2>1. Sound(slots', next', prev', time_slot', live')
    BY <1>3, FreeSound
  <2> QED BY <2>1 DEF HeadsOK, NextOK, PrevOK, Sound, IsHead
<1>7. live' = live \ {tmp} /\ \A t \in live' : time_slot'[t] = time_slot[t]
  BY <1>1, <1>3 DEF Free, TypeOK
<1>8. WalkOK'
  <2>1. tmp' # Nil => walking' /\ tmp' \in live' /\ time_slot'[tmp'] = cur_slot'
    BY <1>1, <1>3, <1>4, <1>7 DEF NoDangling, NextOK
  <2>2. passed' \subseteq {t \in live' : time_slot'[t] = cur_slot'}
    BY <1>1, <1>3, <1>7 DEF NoDangling, WalkOK, PassedOK
  <2> QED BY <1>3, <2>1, <2>2 DEF WalkOK
<1>9. \A t \in passed : prev'[t] = prev[t]
  <2>1. \A t \in passed : t \in Timers /\ t # tmp /\ t # next[tmp]
    BY <1>1, <1>3, <1>4 DEF TypeOK, PassedOK
  <2>2. \A t \in passed : PrevWithout(tmp)[t] = prev[t]
    BY <1>1, <2>1 DEF PrevWithout, TypeOK
  <2>3. PrevWithout(tmp) \in [Timers -> Pointers]
    BY <1>1, <1>2, <1>3, WithoutSound
  <2> QED BY <1>3, <2>1, <2>2, <2>3 DEF Free
<1>10. \A t \in passed : next'[t] = IF next[t] = tmp THEN next[tmp] ELSE next[t]
  <2>1. \A t \in passed : t \in live /\ t \in Timers /\ t # tmp
    BY <1>1, <1>3 DEF TypeOK, PassedOK, NoDangling, WalkOK
  <2>2. \A t \in passed : next[t] = tmp => prev[tmp] = t /\ ~IsHead(tmp)
    BY <1>1, <1>2, <1>3, <2>1, WheelAssumption DEF Sound, IsHead, TypeOK
  <2>3. \A t \in passed : prev[tmp] = t => next[t] = tmp
    BY <1>2, <1>3, <2>1, WheelAssumption DEF Sound
  <2>4. \A t \in passed : NextWithout(tmp)[t] = IF next[t] = tmp THEN next[tmp] ELSE next[t]
    BY <1>1, <2>1, <2>2, <2>3 DEF NextWithout, TypeOK
  <2>5. NextWithout(tmp) \in [Timers -> Pointers]
    BY <1>1, <1>2, <1>3, WithoutSound
  <2> QED BY <1>3, <2>1, <2>4, <2>5 DEF Free
<1>11. PassedOK'
  <2>1. \A t \in passed' : prev'[t] # Nil => prev'[t] \in passed'
    BY <1>1, <1>3, <1>9 DEF PassedOK
  <2>2. \A t \in passed' : next'[t] # Nil => next'[t] \in passed' \cup {tmp'}
    BY <1>1, <1>3, <1>10 DEF PassedOK
  <2>3. ASSUME tmp' # Nil PROVE tmp' \notin passed' /\ (prev'[tmp'] # Nil => prev'[tmp'] \in passed')
    <3>1. tmp' \in Timers /\ tmp' # tmp
      BY <1>1, <1>3, <1>4, <2>3 DEF TypeOK
    <3>2. PrevWithout(tmp)[tmp'] = IF IsHead(tmp) THEN Nil ELSE prev[tmp]
      BY <1>1, <1>3, <2>3, <3>1 DEF PrevWithout, TypeOK
    <3>3. prev'[tmp'] = PrevWithout(tmp)[tmp']
      BY <1>1, <1>2, <1>3, <3>1, WithoutSound DEF Free
    <3> QED BY <1>1, <1>3, <1>4, <3>2, <3>3 DEF PassedOK
  <2>4. slots'[cur_slot'] # Nil => slots'[cur_slot'] \in passed' \cup {tmp'}
    <3>1. cur_slot \in Slots
      BY <1>1 DEF TypeOK
    <3>2. slots'[cur_slot] = IF IsHead(tmp) THEN next[tmp] ELSE slots[cur_slot]
      BY <1>1, <1>3, <3>1 DEF Free, SlotsWithout, TypeOK
    <3>3. ~IsHead(tmp) => slots[cur_slot] # tmp
      BY <1>3 DEF IsHead
    <3> QED BY <1>1, <1>3, <3>2, <3>3 DEF PassedOK
  <2> QED BY <1>3, <2>1, <2>2, <2>3, <2>4 DEF PassedOK
<1>12. Acyclic'
  BY <1>3, FreeSound DEF Acyclic
<1> QED BY <1>5, <1>6, <1>8, <1>11, <1>12 DEF IInv, NoDangling

\* When the walk is at its end the wheel turns by one slot.
LEMMA TickEndStep ==
    ASSUME IInv, TickEnd
    PROVE  IInv'
<1>1. TypeOK /\ NoDangling /\ Acyclic
  BY DEF IInv
<1>2. cur_slot' \in Slots
  BY <1>1, WheelAssumption, ModType DEF TickEnd, TypeOK
<1>3. TypeOK'
  BY <1>1, <1>2 DEF TickEnd, TypeOK, timers
<1>4. NoDangling'
  BY <1>1 DEF NoDangling, HeadsOK, NextOK, PrevOK, WalkOK, IsHead, TickEnd, timers
<1>5. PassedOK'
  BY DEF PassedOK, TickEnd
<1>6. Acyclic'
  BY <1>1 DEF Acyclic, AcyclicOn, TickEnd, timers
<1> QED BY <1>3, <1>4, <1>5, <1>6 DEF IInv

\* A step that changes nothing keeps everything.
LEMMA StutterStep ==
    ASSUME IInv, UNCHANGED vars
    PROVE  IInv'
<1>1. TypeOK'
  BY DEF IInv, TypeOK, vars
<1>2. NoDangling'
  BY DEF IInv, NoDangling, HeadsOK, NextOK, PrevOK, WalkOK, IsHead, vars
<1>3. PassedOK' /\ Acyclic'
  BY DEF IInv, PassedOK, Acyclic, AcyclicOn, vars
<1> QED BY <1>1, <1>2, <1>3 DEF IInv

\* Every step keeps the invariant.
LEMMA NextPreserves == IInv /\ [Next]_vars => IInv'
<1> SUFFICES ASSUME IInv, [Next]_vars PROVE IInv'
  OBVIOUS
<1>1. ASSUME NEW t \in Timers, NEW timeout \in Timeouts, AddTimer(t, timeout) PROVE IInv'
  BY <1>1, AddTimerStep
<1>2. ASSUME NEW t \in Timers, NEW timeout \in Timeouts, AdjustTimer(t, timeout) PROVE IInv'
  BY <1>2, AdjustTimerStep
<1>3. ASSUME NEW timeout \in Timeouts, AddRefused(timeout) PROVE IInv'
  BY <1>3, StutterStep DEF AddRefused
<1>4. ASSUME NEW t \in Timers, DelTimer(t) PROVE IInv'
  BY <1>4, DelTimerStep
<1>5. CASE TickBegin
  BY <1>5, TickBeginStep
<1>6. CASE TickPass
  BY <1>6, TickPassStep
<1>7. CASE TickExpire
  BY <1>7, TickExpireStep
<1>8. CASE TickEnd
  BY <1>8, TickEndStep
<1>9. CASE Destroy
  BY <1>9, DestroyStep
<1>10. CASE UNCHANGED vars
  BY <1>10, StutterStep
<1> QED BY <1>1, <1>2, <1>3, <1>4, <1>5, <1>6, <1>7, <1>8, <1>9, <1>10 DEF Next

\* The invariant holds in every reachable state.
LEMMA Invariance == Spec => []IInv
BY InitEstablishes, NextPreserves, PTL DEF Spec

\* Every variable holds a value of its type.
THEOREM TypeCorrect == Spec => []TypeOK
<1>1. IInv => TypeOK
  BY DEF IInv
<1> QED BY Invariance, <1>1, PTL

\* add_timer(), del_timer(), adjust_timer() and tick(), called in any order,
\* leave lists whose links agree and which lead to no freed timer.
THEOREM NoDanglingCorrect == Spec => []NoDangling
<1>1. IInv => NoDangling
  BY DEF IInv
<1> QED BY Invariance, <1>1, PTL

\* No timer is lost: each one allocated is in the list of its slot.
THEOREM ListedCorrect == Spec => []EveryTimerIsListed
<1>1. IInv => EveryTimerIsListed
  BY ListedIsLive
<1> QED BY Invariance, <1>1, PTL

-----------------------------------------------------------------------------
\* The wheel implements the set of timers.

\* What is left of a timer is a number of ticks, never Off.
LEMMA RemainingType ==
    ASSUME TypeOK, NEW t \in Timers
    PROVE  /\ Ahead(t) \in 0 .. N - 1
           /\ rotation[t] * N \in Nat
           /\ Remaining(t) \in Nat
<1>1. Ahead(t) \in 0 .. N - 1
  <2>1. time_slot[t] - cur_slot \in Int
    BY WheelAssumption DEF TypeOK
  <2> QED BY <2>1, WheelAssumption, ModType DEF Ahead
<1>2. rotation[t] * N \in Nat
  BY WheelAssumption DEF TypeOK
<1> QED BY <1>1, <1>2, WheelAssumption DEF Remaining

\* An operation of the user changes the ticks left of the timer it is about only.
LEMMA OthersKeep ==
    ASSUME TypeOK, NEW t, NEW u \in Timers \ {t}, NEW r, NEW s,
           UNCHANGED <<cur_slot, passed>>,
           rotation' = [rotation EXCEPT ![t] = r],
           time_slot' = [time_slot EXCEPT ![t] = s],
           u \in live' <=> u \in live
    PROVE  TicksLeft'[u] = TicksLeft[u]
<1>1. rotation'[u] = rotation[u] /\ time_slot'[u] = time_slot[u]
  BY DEF TypeOK
<1> QED BY <1>1 DEF TicksLeft, Remaining, Ahead

\* A timer just placed has the ticks of its delay left.
LEMMA PlacedIsArmed ==
    ASSUME IInv, ~walking, NEW t \in Timers, NEW timeout \in Timeouts,
           UNCHANGED <<cur_slot, walk>>,
           rotation' = [rotation EXCEPT ![t] = Rotation(timeout)],
           time_slot' = [time_slot EXCEPT ![t] = Slot(timeout)],
           live' = live \cup {t}
    PROVE  TS!Arm(t, timeout)
<1>1. TypeOK /\ passed = {}
  BY WalkAtRest DEF IInv
<1>2. passed' = {} /\ cur_slot' = cur_slot /\ walking' = walking
  BY <1>1 DEF walk
<1>3. rotation'[t] = Rotation(timeout) /\ time_slot'[t] = Slot(timeout)
  BY <1>1 DEF TypeOK
<1>4. /\ Ticks(timeout) \in Nat \ {0} /\ Rotation(timeout) \in Nat /\ Slot(timeout) \in Slots
      /\ Rotation(timeout) * N + ((Slot(timeout) - cur_slot) % N) = Ticks(timeout)
  BY <1>1, PlaceOfDelay, WheelAssumption DEF TypeOK
<1>5. Remaining(t)' = Ticks(timeout)
  <2>1. Remaining(t)' = Rotation(timeout) * N + ((Slot(timeout) - cur_slot) % N) + 0
    BY <1>2, <1>3 DEF Remaining, Ahead
  <2> QED BY <1>4, <2>1
<1>6. TicksLeft'[t] = Ticks(timeout)
  BY <1>5 DEF TicksLeft
<1>7. \A u \in Timers \ {t} : TicksLeft'[u] = TicksLeft[u]
  BY <1>1, <1>2, OthersKeep
<1>8. TicksLeft' = [TicksLeft EXCEPT ![t] = Ticks(timeout)]
  BY <1>6, <1>7 DEF TicksLeft
<1>9. TS!Delay(timeout) = Ticks(timeout)
  BY DEF TS!Delay, Ticks
<1> QED BY <1>2, <1>8, <1>9 DEF TS!Arm

\* A timer freed has none.
LEMMA FreedIsOff ==
    ASSUME IInv, NEW t \in live, Free(t), UNCHANGED <<cur_slot, passed>>
    PROVE  TicksLeft' = [TicksLeft EXCEPT ![t] = -1]
<1>1. TypeOK /\ t \in Timers
  BY DEF IInv, TypeOK
<1>2. \A u \in Timers \ {t} : TicksLeft'[u] = TicksLeft[u]
  BY <1>1, OthersKeep DEF Free
<1>3. TicksLeft'[t] = -1
  BY <1>1 DEF TicksLeft, Free
<1> QED BY <1>1, <1>2, <1>3 DEF TicksLeft

\* A timer that expires in the walk is due in the timer set.
LEMMA TickExpireIsExpire ==
    ASSUME IInv, TickExpire
    PROVE  TS!Expire(tmp)
<1>1. TypeOK /\ NoDangling /\ PassedOK
  BY DEF IInv
<1>2. tmp \in live /\ time_slot[tmp] = cur_slot /\ tmp \in Timers /\ tmp \notin passed
  BY <1>1 DEF NoDangling, WalkOK, PassedOK, TickExpire, TypeOK
<1>3. Ahead(tmp) = 0
  BY <1>1, <1>2, WheelAssumption, AheadAfterTick DEF Ahead, TypeOK
<1>4. rotation[tmp] = 0
  BY <1>1, <1>2 DEF TickExpire, TypeOK
<1>5. TicksLeft[tmp] = 0
  BY <1>2, <1>3, <1>4, WheelAssumption DEF TicksLeft, Remaining
<1>6. TicksLeft' = [TicksLeft EXCEPT ![tmp] = -1]
  BY <1>2, FreedIsOff DEF TickExpire
<1> QED BY <1>2, <1>5, <1>6 DEF TS!Expire, TS!Due, TS!Armed, TickExpire

\* Passing a timer changes nothing in the timer set: a turn is taken off its
\* rotation and owed to it as a passed timer.
LEMMA TickPassIsStutter ==
    ASSUME IInv, TickPass
    PROVE  UNCHANGED TS!vars
<1>1. TypeOK /\ NoDangling /\ PassedOK
  BY DEF IInv
<1>2. PICK t \in Timers : t = tmp
  BY <1>1 DEF TickPass, TypeOK
<1>3. t \in live /\ t \notin passed /\ rotation[t] \in Nat \ {0}
  BY <1>1, <1>2 DEF NoDangling, WalkOK, PassedOK, TickPass, TypeOK
<1>4. /\ rotation' = [rotation EXCEPT ![t] = rotation[t] - 1]
      /\ passed' = passed \cup {t}
      /\ UNCHANGED <<cur_slot, time_slot, live, walking>>
  BY <1>2 DEF TickPass
<1>5. ASSUME NEW u \in Timers \ {t} PROVE Remaining(u)' = Remaining(u)
  BY <1>1, <1>4 DEF Remaining, Ahead, TypeOK
<1>6. Remaining(t)' = Remaining(t)
  <2>1. Remaining(t) = rotation[t] * N + Ahead(t) + 0
    BY <1>3 DEF Remaining
  <2>2. Remaining(t)' = (rotation[t] - 1) * N + Ahead(t) + N
    BY <1>1, <1>3, <1>4 DEF Remaining, Ahead, TypeOK
  <2>3. (rotation[t] - 1) * N + N = rotation[t] * N
    BY <1>3, WheelAssumption
  <2>4. Ahead(t) \in Nat /\ rotation[t] * N \in Nat /\ (rotation[t] - 1) * N \in Int
    BY <1>1, <1>3, RemainingType, WheelAssumption
  <2> QED BY <2>1, <2>2, <2>3, <2>4, WheelAssumption
<1>7. \A u \in Timers : Remaining(u)' = Remaining(u)
  BY <1>5, <1>6
<1>8. TicksLeft' = TicksLeft
  BY <1>4, <1>7 DEF TicksLeft
<1> QED BY <1>4, <1>8 DEF TS!vars

\* At the end of the walk nothing is due any more, and every timer left has one
\* tick less to go.
LEMMA TickEndIsEndTick ==
    ASSUME IInv, TickEnd
    PROVE  TS!EndTick
<1>1. TypeOK /\ NoDangling /\ PassedOK /\ Acyclic
  BY DEF IInv
<1>2. \A t \in live : time_slot[t] = cur_slot <=> t \in passed
  <2>1. FoundFrom(cur_slot, passed)
    BY <1>1 DEF PassedOK, FoundFrom, TickEnd
  <2>2. \A t \in live : time_slot[t] = cur_slot => t \in passed
    BY <1>1, <2>1, SoundLists, WalkIsComplete DEF NoDangling, TypeOK
  <2> QED BY <1>1, <2>2 DEF NoDangling, WalkOK
<1>3. passed' = {} /\ cur_slot' = (cur_slot + 1) % N /\ UNCHANGED <<rotation, time_slot, live>>
  BY DEF TickEnd, timers
<1>4. ASSUME NEW t \in live
      PROVE  Remaining(t) # 0 /\ Remaining(t)' = Remaining(t) - 1
  <2>1. t \in Timers /\ rotation[t] * N \in Nat /\ Ahead(t) \in 0 .. N - 1
    BY <1>1, RemainingType DEF TypeOK
  <2>2. Remaining(t)' = rotation[t] * N + ((time_slot[t] - ((cur_slot + 1) % N)) % N) + 0
    BY <1>3 DEF Remaining, Ahead
  <2>3. cur_slot \in 0 .. N - 1 /\ time_slot[t] \in 0 .. N - 1
    BY <1>1, <2>1 DEF TypeOK
  <2>4. CASE time_slot[t] = cur_slot
    <3>1. Remaining(t) = rotation[t] * N + 0 + N
      BY <1>2, <2>3, <2>4, AheadAfterTick, WheelAssumption DEF Remaining, Ahead
    <3>2. (time_slot[t] - ((cur_slot + 1) % N)) % N = N - 1
      BY <2>3, <2>4, AheadAfterTick, WheelAssumption
    <3> QED BY <2>1, <2>2, <3>1, <3>2, WheelAssumption
  <2>5. CASE time_slot[t] # cur_slot
    <3>1. Remaining(t) = rotation[t] * N + Ahead(t) + 0
      BY <1>2, <2>5 DEF Remaining
    <3>2. /\ (time_slot[t] - cur_slot) % N # 0
          /\ (time_slot[t] - ((cur_slot + 1) % N)) % N = ((time_slot[t] - cur_slot) % N) - 1
      <4>1. PICK c \in 0 .. N - 1, s \in 0 .. N - 1 : c = cur_slot /\ s = time_slot[t]
        BY <2>3
      <4>2. (s - c) % N # 0 /\ (s - ((c + 1) % N)) % N = ((s - c) % N) - 1
        <5>1. N \in Nat \ {0} /\ s # c
          BY <2>5, <4>1, WheelAssumption
        <5> QED BY <4>1, <5>1, AheadAfterTick, ZenonT(40)
      <4> QED BY <4>1, <4>2
    <3>3. Ahead(t) # 0 /\ Remaining(t)' = rotation[t] * N + (Ahead(t) - 1) + 0
      BY <2>2, <3>2 DEF Ahead
    <3> QED BY <2>1, <3>1, <3>3
  <2> QED BY <2>4, <2>5
<1>5. ASSUME NEW t \in Timers PROVE TicksLeft[t] # -1 <=> t \in live
  <2>1. Remaining(t) \in Nat
    BY <1>1, RemainingType
  <2>2. Remaining(t) # -1
    BY <2>1
  <2> QED BY <2>2 DEF TicksLeft
<1>6. TS!Due = {}
  BY <1>4, <1>5 DEF TS!Due, TS!Armed, TicksLeft
<1>7. TicksLeft' = [t \in Timers |-> IF t \in TS!Armed THEN TicksLeft[t] - 1 ELSE -1]
  <2>1. \A t \in Timers : TicksLeft'[t] = IF t \in live THEN TicksLeft[t] - 1 ELSE -1
    BY <1>3, <1>4 DEF TicksLeft
  <2>2. TicksLeft' = [t \in Timers |-> IF t \in live THEN TicksLeft[t] - 1 ELSE -1]
    BY <2>1 DEF TicksLeft
  <2> QED BY <1>5, <2>2 DEF TS!Armed
<1> QED BY <1>6, <1>7 DEF TS!EndTick, TickEnd

\* An empty wheel is a set of timers that are all off.
LEMMA InitIsInit == Init => TS!Init
<1> SUFFICES ASSUME Init PROVE TS!Init
  OBVIOUS
<1>1. TicksLeft = [t \in Timers |-> -1]
  BY DEF Init, TicksLeft
<1> QED BY <1>1 DEF Init, TS!Init

\* Every step of the wheel is a step of the timer set, or none.
LEMMA NextIsNext == IInv /\ [Next]_vars => [TS!Next]_(TS!vars)
<1> SUFFICES ASSUME IInv, [Next]_vars PROVE [TS!Next]_(TS!vars)
  OBVIOUS
<1>1. ASSUME NEW t \in Timers, NEW timeout \in Timeouts, AddTimer(t, timeout) PROVE TS!Next
  BY <1>1, PlacedIsArmed DEF AddTimer, TS!Next
<1>2. ASSUME NEW t \in Timers, NEW timeout \in Timeouts, AdjustTimer(t, timeout) PROVE TS!Next
  <2>1. live' = live \cup {t}
    BY <1>2 DEF AdjustTimer
  <2> QED BY <1>2, <2>1, PlacedIsArmed DEF AdjustTimer, TS!Next
<1>3. ASSUME NEW t \in Timers, DelTimer(t) PROVE TS!Next
  <2>1. TicksLeft' = [TicksLeft EXCEPT ![t] = -1]
    BY <1>3, FreedIsOff DEF DelTimer, walk
  <2>2. t \in TS!Armed
    BY <1>3, RemainingType DEF DelTimer, TS!Armed, TicksLeft, IInv
  <2> QED BY <1>3, <2>1, <2>2 DEF TS!Next, TS!Cancel, DelTimer, walk
<1>4. CASE TickBegin
  <2>1. TicksLeft' = TicksLeft
    BY <1>4 DEF TickBegin, TicksLeft, Remaining, Ahead, timers
  <2> QED BY <1>4, <2>1 DEF TS!Next, TS!BeginTick, TickBegin
<1>5. CASE TickPass
  BY <1>5, TickPassIsStutter
<1>6. CASE TickExpire
  <2>1. tmp \in Timers
    BY <1>6 DEF IInv, TypeOK, TickExpire
  <2> QED BY <1>6, <2>1, TickExpireIsExpire DEF TS!Next
<1>7. CASE TickEnd
  BY <1>7, TickEndIsEndTick DEF TS!Next
<1>8. CASE Destroy
  <2>1. live' = {}
    BY <1>8, ListedIsLive DEF Destroy
  <2>2. TicksLeft' = [t \in Timers |-> -1]
    BY <2>1 DEF TicksLeft
  <2> QED BY <1>8, <2>2 DEF TS!Next, TS!Discard, Destroy, walk
<1>9. CASE UNCHANGED vars
  BY <1>9 DEF vars, TS!vars, TicksLeft, Remaining, Ahead
<1>10. ASSUME NEW timeout \in Timeouts, AddRefused(timeout) PROVE UNCHANGED TS!vars
  BY <1>10 DEF AddRefused, vars, TS!vars, TicksLeft, Remaining, Ahead
<1> QED BY <1>1, <1>2, <1>3, <1>4, <1>5, <1>6, <1>7, <1>8, <1>9, <1>10 DEF Next

\* The wheel is a set of one-shot timers: each expires in the tick its delay
\* asks for, neither earlier nor later, whatever the number of slots.
THEOREM Implements == Spec => IsTimerSet
BY InitIsInit, NextIsNext, Invariance, PTL DEF Spec, IsTimerSet, TS!Spec
=============================================================================
