-------------------------- MODULE ProcessPoolProofs --------------------------
(***************************************************************************)
(* The process pool, and what a child does for its connections.            *)
(*                                                                         *)
(* ProcessPool, for any number of children and connections: its types,     *)
(* that a child which handles its pipe finds a notification and a          *)
(* connection, and that the parent leaves no child behind.                 *)
(*                                                                         *)
(* Edges that merge lose notifications, never connections: the ones in all *)
(* pipes together, and the news the parent has or is about to pass on,     *)
(* never outnumber the backlog (Accounted).                                *)
(*                                                                         *)
(* EchoServers, for any numbers of clients, descriptors and messages:      *)
(* descriptors and entries stay together, and every client gets back its   *)
(* own messages in order.                                                  *)
(***************************************************************************)
EXTENDS ProcessPool, EchoServers, FiniteSetTheorems, SequenceTheorems, TLAPS

Bit(b) == IF b THEN 1 ELSE 0

\* The notifications in all pipes, each with its place in its pipe.
Notes == {n \in Children \X Nat : n[2] \in 1 .. pipe[n[1]]}

Accounted ==
    /\ IsFiniteSet(Notes)
    /\ Cardinality(Notes) + Bit(listening) + Bit("listen" \in batch) <= backlog

\* Before its loop the parent has sent nothing.
SilentStart ==
    parent = "starting" => batch = {} /\ \A i \in Children : pipe[i] = 0

\* Each news of a pipe, read or not, has a notification of its own in it.
PipesAgree ==
    \A i \in Children :
        /\ child[i] \in {"starting", "dead"} => cbatch[i] = {}
        /\ child[i] # "dead" => Bit(news[i]) + Bit("pipe" \in cbatch[i]) <= pipe[i]

\* Only the dead are forgotten, and the parent stops when all are.
NoneForgotten ==
    /\ Alive \subseteq known
    /\ m_stop => known = {}
    /\ parent = "stopped" => m_stop

IInv == TypeOK /\ Accounted /\ SilentStart /\ PipesAgree /\ NoneForgotten

USE PoolAssumption

-----------------------------------------------------------------------------
LEMMA NextInTurn ==
    ASSUME NEW i \in Children
    PROVE  (i + 1) % m_process_number \in Children
BY DEF Children

LEMMA InitEstablishes == Init => IInv
<1> SUFFICES ASSUME Init PROVE IInv
  OBVIOUS
<1>1. TypeOK
  <2>1. 0 \in Children /\ 0 \in 0 .. MaxConns /\ 0 \in 0 .. 0
    BY DEF Children
  <2>2. made \in 0 .. MaxConns /\ backlog \in 0 .. made /\ sub_process_counter \in Children
    BY <2>1 DEF Init
  <2>3. /\ child \in [Children -> {"starting", "running", "stopping", "dead"}]
        /\ cbatch \in [Children -> SUBSET {"pipe", "sig"}] /\ pipe \in [Children -> Nat]
        /\ news \in [Children -> BOOLEAN] /\ csig \in [Children -> BOOLEAN]
    BY DEF Init
  <2>4. /\ listening \in BOOLEAN /\ parent \in {"starting", "running", "stopped", "killed"}
        /\ batch \subseteq {"listen", "sig"} /\ m_stop \in BOOLEAN /\ known \subseteq Children
        /\ sigs \subseteq {"SIGCHLD", "SIGTERM"} /\ heard \in BOOLEAN /\ termed \in BOOLEAN
    BY DEF Init
  <2> QED BY <2>2, <2>3, <2>4 DEF TypeOK
<1>2. Notes = {}
  BY DEF Init, Notes
<1>3. Accounted
  BY <1>2, FS_EmptySet DEF Init, Accounted, Bit
<1> QED BY <1>1, <1>3 DEF Init, IInv, SilentStart, PipesAgree, NoneForgotten, Alive, Bit

\* Notifications of a pipe count.
LEMMA NoteIsThere ==
    ASSUME IInv, NEW i \in Children, pipe[i] > 0
    PROVE  /\ Cardinality(Notes) >= 1 /\ backlog > 0
           /\ <<i, pipe[i]>> \in Notes
<1>1. /\ pipe[i] \in Nat /\ IsFiniteSet(Notes) /\ backlog \in Nat
      /\ Cardinality(Notes) + Bit(listening) + Bit("listen" \in batch) <= backlog
  BY DEF IInv, TypeOK, Accounted
<1>2. <<i, pipe[i]>> \in Notes
  BY <1>1 DEF Notes
<1>3. Cardinality(Notes) \in Nat /\ Cardinality(Notes) # 0
  BY <1>1, <1>2, FS_EmptySet, FS_CardinalityType
<1> QED BY <1>1, <1>2, <1>3 DEF Bit

\* Fewer notifications, and at most the news there was, are still accounted for.
LEMMA FewerNotes ==
    ASSUME IInv, Notes' \subseteq Notes, backlog' = backlog,
           Bit(listening') + Bit("listen" \in batch') <= Bit(listening) + Bit("listen" \in batch)
    PROVE  Accounted'
<1>1. /\ IsFiniteSet(Notes) /\ backlog \in Nat
      /\ Cardinality(Notes) + Bit(listening) + Bit("listen" \in batch) <= backlog
  BY DEF IInv, TypeOK, Accounted
<1>2. /\ IsFiniteSet(Notes') /\ Cardinality(Notes') <= Cardinality(Notes)
      /\ Cardinality(Notes) \in Nat /\ Cardinality(Notes') \in Nat
  BY <1>1, FS_Subset, FS_CardinalityType
<1> QED BY <1>1, <1>2 DEF Accounted, Bit

\* Children that end take their notifications with them.
LEMMA BuryEffect ==
    ASSUME IInv, NEW S \in SUBSET Children, Bury(S)
    PROVE  /\ child' \in [Children -> {"starting", "running", "stopping", "dead"}]
           /\ cbatch' \in [Children -> SUBSET {"pipe", "sig"}] /\ pipe' \in [Children -> Nat]
           /\ heard' \in BOOLEAN
           /\ Notes' \subseteq Notes /\ Alive' = Alive \ S
           /\ \A i \in Children : pipe[i] = 0 => pipe'[i] = 0
           /\ news' = news => PipesAgree'
<1>1. TypeOK /\ PipesAgree
  BY DEF IInv
<1>2. /\ child' \in [Children -> {"starting", "running", "stopping", "dead"}]
      /\ cbatch' \in [Children -> SUBSET {"pipe", "sig"}] /\ pipe' \in [Children -> Nat]
      /\ heard' \in BOOLEAN
  BY <1>1 DEF Bury, TypeOK
<1>3. \A i \in Children :
         /\ i \in S => child'[i] = "dead" /\ pipe'[i] = 0 /\ cbatch'[i] = {}
         /\ i \notin S => child'[i] = child[i] /\ pipe'[i] = pipe[i] /\ cbatch'[i] = cbatch[i]
  BY DEF Bury
<1>4. Notes' \subseteq Notes
  <2> SUFFICES ASSUME NEW n \in Children \X Nat, n[2] \in 1 .. pipe'[n[1]]
               PROVE  n[2] \in 1 .. pipe[n[1]]
    BY DEF Notes
  <2>1. n[1] \in Children
    OBVIOUS
  <2> QED BY <2>1, <1>3
<1>5. Alive' = Alive \ S
  BY <1>3 DEF Alive
<1>6. news' = news => PipesAgree'
  BY <1>1, <1>3 DEF PipesAgree
<1> QED BY <1>2, <1>3, <1>4, <1>5, <1>6

-----------------------------------------------------------------------------
\* Connect: one more in the backlog, and at most one more news.
LEMMA ConnectStep ==
    ASSUME IInv, Connect
    PROVE  IInv'
<1>1. TypeOK /\ Accounted /\ SilentStart /\ PipesAgree /\ NoneForgotten
  BY DEF IInv
<1>2. /\ made' = made + 1 /\ made < MaxConns /\ backlog' = backlog + 1 /\ listening' = TRUE
      /\ UNCHANGED <<parents, sigs, kids, history>>
  BY DEF Connect
<1>3. TypeOK'
  BY <1>1, <1>2 DEF TypeOK, parents, kids, history
<1>4. Notes' = Notes
  BY <1>2 DEF Notes, kids
<1>5. Accounted'
  <2>1. IsFiniteSet(Notes) /\ Cardinality(Notes) \in Nat /\ backlog \in Nat
    BY <1>1, FS_CardinalityType DEF Accounted, TypeOK
  <2> QED BY <1>1, <1>2, <1>4, <2>1 DEF Accounted, Bit, parents
<1>6. SilentStart' /\ PipesAgree' /\ NoneForgotten'
  BY <1>1, <1>2 DEF SilentStart, PipesAgree, NoneForgotten, Alive, parents, kids
<1> QED BY <1>3, <1>5, <1>6 DEF IInv

\* A child crashes, or ends after SIGTERM.
LEMMA DeathStep ==
    ASSUME IInv, NEW i \in Children, Crash(i) \/ ChildStops(i)
    PROVE  IInv'
<1>1. TypeOK /\ Accounted /\ SilentStart /\ PipesAgree /\ NoneForgotten
  BY DEF IInv
<1>2. /\ Bury({i}) /\ sigs' = sigs \cup Chld({i})
      /\ UNCHANGED <<network, parents, news, csig, termed>>
  BY DEF Crash, ChildStops
<1>3. TypeOK'
  <2>1. sigs' \subseteq {"SIGCHLD", "SIGTERM"}
    BY <1>1, <1>2 DEF TypeOK, Chld
  <2> QED BY <1>1, <1>2, <2>1, BuryEffect DEF TypeOK, network, parents
<1>4. Accounted'
  <2>1. Notes' \subseteq Notes
    BY <1>2, BuryEffect
  <2> QED BY <1>2, <2>1, FewerNotes DEF network, parents, Bit
<1>5. SilentStart' /\ PipesAgree' /\ NoneForgotten'
  <2>1. /\ PipesAgree' /\ Alive' \subseteq Alive
        /\ \A j \in Children : pipe[j] = 0 => pipe'[j] = 0
    BY <1>2, BuryEffect
  <2> QED BY <1>1, <1>2, <2>1 DEF SilentStart, NoneForgotten, parents
<1> QED BY <1>3, <1>4, <1>5 DEF IInv

\* SIGTERM from outside, and what the parent does but for the events.
LEMMA ParentStep ==
    ASSUME IInv, Terminate \/ ParentSetup \/ ParentWait \/ ParentStops
    PROVE  IInv'
<1>1. TypeOK /\ Accounted /\ SilentStart /\ PipesAgree /\ NoneForgotten
  BY DEF IInv
<1>2. /\ UNCHANGED <<made, backlog, m_stop, sub_process_counter, known, kids, history>>
      /\ sigs' \subseteq {"SIGCHLD", "SIGTERM"}
  BY <1>1 DEF Terminate, ParentSetup, ParentWait, ParentStops, TypeOK, network
<1>3. TypeOK'
  <2>1. parent' \in {"starting", "running", "stopped", "killed"}
    BY <1>1 DEF TypeOK, Terminate, ParentSetup, ParentWait, ParentStops
  <2>2. batch' \subseteq {"listen", "sig"}
    BY <1>1 DEF TypeOK, Terminate, ParentSetup, ParentWait, ParentStops
  <2>3. listening' \in BOOLEAN
    <3>1. CASE ParentSetup
      BY <3>1, Z3 DEF ParentSetup
    <3>2. CASE Terminate \/ ParentWait \/ ParentStops
      BY <1>1, <3>2 DEF TypeOK, Terminate, ParentWait, ParentStops, network
    <3> QED BY <3>1, <3>2
  <2> QED BY <1>1, <1>2, <2>1, <2>2, <2>3 DEF TypeOK, kids, history
<1>4. Notes' = Notes
  BY <1>2 DEF Notes, kids
<1>5. PipesAgree' /\ Alive' = Alive
  BY <1>1, <1>2 DEF PipesAgree, Alive, kids
<1>6. SilentStart' /\ NoneForgotten'
  BY <1>1, <1>2, <1>5 DEF SilentStart, NoneForgotten, kids,
                          Terminate, ParentSetup, ParentWait, ParentStops
<1>7. CASE ParentSetup
  <2>1. Notes = {} /\ batch = {} /\ batch' = batch /\ listening' = (backlog > 0)
    BY <1>1, <1>7 DEF ParentSetup, SilentStart, Notes
  <2>2. Cardinality(Notes') = 0 /\ IsFiniteSet(Notes') /\ backlog \in Nat
    BY <1>1, <1>4, <2>1, FS_EmptySet DEF TypeOK
  <2>3. Bit("listen" \in batch') = 0 /\ Bit(listening') <= backlog /\ Bit(listening') \in Nat
    <3>1. Bit("listen" \in batch') = 0
      BY <2>1 DEF Bit
    <3>2. CASE backlog > 0
      <4>1. listening'
        BY <2>1, <3>2, Zenon
      <4> QED BY <2>2, <3>1, <3>2, <4>1 DEF Bit
    <3>3. CASE ~(backlog > 0)
      <4>1. ~listening'
        BY <2>1, <3>3, Zenon
      <4> QED BY <2>2, <3>1, <4>1 DEF Bit
    <3> QED BY <3>2, <3>3
  <2>4. Accounted'
    <3>1. backlog' = backlog
      BY <1>2
    <3>2. Cardinality(Notes') + Bit(listening') + Bit("listen" \in batch') <= backlog'
      BY <3>1, <2>2, <2>3
    <3> QED BY <2>2, <3>2 DEF Accounted, Bit
  <2> QED BY <1>3, <1>5, <1>6, <2>4 DEF IInv
<1>8. CASE ~ParentSetup
  <2>1. Bit(listening') + Bit("listen" \in batch') <= Bit(listening) + Bit("listen" \in batch)
    BY <1>1, <1>8 DEF TypeOK, Bit, Terminate, ParentWait, ParentStops, network
  <2>2. Accounted'
    BY <1>2, <1>4, <2>1, FewerNotes
  <2> QED BY <1>3, <1>5, <1>6, <2>2 DEF IInv
<1> QED BY <1>7, <1>8

\* A notification is added: the news "listen" pays for it.
LEMMA ListenStep ==
    ASSUME IInv, ListenEvent
    PROVE  IInv'
<1>1. TypeOK /\ Accounted /\ SilentStart /\ PipesAgree /\ NoneForgotten
  BY DEF IInv
<1>2. /\ "listen" \in batch
      /\ UNCHANGED <<made, backlog, listening, parent, known, sigs, child, cbatch, csig, heard, termed>>
  BY DEF ListenEvent, network, history
<1>3. parent # "starting" /\ Alive' = Alive
  BY <1>1, <1>2 DEF SilentStart, Alive
<1>4. CASE known = {} /\ m_stop' = TRUE /\ batch' = {} /\ UNCHANGED <<sub_process_counter, pipe, news>>
  <2>1. TypeOK'
    BY <1>1, <1>2, <1>4 DEF TypeOK
  <2>2. Notes' \subseteq Notes
    BY <1>4 DEF Notes
  <2>3. Accounted'
    BY <1>2, <1>4, <2>2, FewerNotes DEF Bit
  <2>4. SilentStart' /\ PipesAgree' /\ NoneForgotten'
    BY <1>1, <1>2, <1>3, <1>4 DEF SilentStart, PipesAgree, NoneForgotten
  <2> QED BY <2>1, <2>3, <2>4 DEF IInv
<1>5. ASSUME NEW i \in Children, IsNext(i), Notify(i), batch' = batch \ {"listen"}, UNCHANGED m_stop
      PROVE  IInv'
  <2>1. sub_process_counter' \in Children
    BY <1>5, NextInTurn DEF Notify
  <2>2. CASE i \notin Alive
    <3>1. UNCHANGED <<pipe, news>>
      BY <1>5, <2>2 DEF Notify
    <3>2. TypeOK'
      BY <1>1, <1>2, <1>5, <2>1, <3>1 DEF TypeOK
    <3>3. Notes' \subseteq Notes
      BY <3>1 DEF Notes
    <3>4. Accounted'
      BY <1>2, <1>5, <3>3, FewerNotes DEF Bit
    <3>5. SilentStart' /\ PipesAgree' /\ NoneForgotten'
      BY <1>1, <1>2, <1>3, <1>5, <3>1 DEF SilentStart, PipesAgree, NoneForgotten
    <3> QED BY <3>2, <3>4, <3>5 DEF IInv
  <2>3. CASE i \in Alive
    <3>1. pipe' = [pipe EXCEPT ![i] = @ + 1] /\ news' = [news EXCEPT ![i] = TRUE]
      BY <1>5, <2>3 DEF Notify
    <3>2. pipe \in [Children -> Nat] /\ news \in [Children -> BOOLEAN]
      BY <1>1 DEF TypeOK
    <3>3. pipe' \in [Children -> Nat] /\ news' \in [Children -> BOOLEAN]
      BY <3>1, <3>2
    <3>4. TypeOK'
      BY <1>1, <1>2, <1>5, <2>1, <3>3 DEF TypeOK
    <3> DEFINE note == <<i, pipe[i] + 1>>
    <3>5. Notes' = Notes \cup {note} /\ note \notin Notes
      <4>1. \A n \in Children \X Nat :
               n[2] \in 1 .. pipe'[n[1]] <=> n[2] \in 1 .. pipe[n[1]] \/ n = note
        <5> SUFFICES ASSUME NEW j \in Children, NEW k \in Nat
                     PROVE  k \in 1 .. pipe'[j] <=> k \in 1 .. pipe[j] \/ (j = i /\ k = pipe[i] + 1)
          OBVIOUS
        <5>1. CASE j = i
          <6>1. pipe'[i] = pipe[i] + 1 /\ pipe[i] \in Nat
            BY <3>1, <3>2
          <6> QED BY <5>1, <6>1
        <5>2. CASE j # i
          <6>1. pipe'[j] = pipe[j]
            BY <3>1, <3>2, <5>2
          <6> QED BY <5>2, <6>1
        <5> QED BY <5>1, <5>2
      <4>2. note \in Children \X Nat /\ pipe[i] \in Nat
        BY <3>2
      <4> QED BY <4>1, <4>2 DEF Notes
    <3>6. Accounted'
      <4>1. IsFiniteSet(Notes) /\ Cardinality(Notes) \in Nat /\ backlog \in Nat
        BY <1>1, FS_CardinalityType DEF Accounted, TypeOK
      <4>2. IsFiniteSet(Notes') /\ Cardinality(Notes') = Cardinality(Notes) + 1
        BY <3>5, <4>1, FS_AddElement
      <4>3. Cardinality(Notes) + Bit(listening) + 1 <= backlog
        BY <1>1, <1>2 DEF Accounted, Bit
      <4>4. Bit("listen" \in batch') = 0 /\ Bit(listening') = Bit(listening) /\ Bit(listening) \in Nat
        BY <1>2, <1>5 DEF Bit
      <4> HIDE DEF note
      <4>5. backlog' = backlog
        BY <1>2
      <4>6. Cardinality(Notes') + Bit(listening') + Bit("listen" \in batch') <= backlog'
        BY <4>1, <4>2, <4>3, <4>4, <4>5
      <4> QED BY <4>2, <4>6 DEF Accounted
    <3>7. PipesAgree'
      <4> SUFFICES ASSUME NEW j \in Children
                   PROVE  /\ child'[j] \in {"starting", "dead"} => cbatch'[j] = {}
                          /\ child'[j] # "dead" =>
                               Bit(news'[j]) + Bit("pipe" \in cbatch'[j]) <= pipe'[j]
        BY DEF PipesAgree
      <4>1. CASE j = i
        <5>1. pipe'[i] = pipe[i] + 1 /\ news'[i] = TRUE /\ pipe[i] \in Nat
          BY <3>1, <3>2
        <5> QED BY <1>1, <1>2, <4>1, <5>1 DEF PipesAgree, Bit
      <4>2. CASE j # i
        <5>1. pipe'[j] = pipe[j] /\ news'[j] = news[j]
          BY <3>1, <3>2, <4>2
        <5> QED BY <1>1, <1>2, <5>1 DEF PipesAgree
      <4> QED BY <4>1, <4>2
    <3>8. SilentStart' /\ NoneForgotten'
      BY <1>1, <1>2, <1>3, <1>5 DEF SilentStart, NoneForgotten
    <3> QED BY <3>4, <3>6, <3>7, <3>8 DEF IInv
  <2> QED BY <2>2, <2>3
<1> QED BY <1>4, <1>5 DEF ListenEvent

\* Children are killed and reaped: no notification is added, and only the dead
\* are forgotten.
LEMMA SignalStep ==
    ASSUME IInv, SignalEvent
    PROVE  IInv'
<1>1. TypeOK /\ Accounted /\ SilentStart /\ PipesAgree /\ NoneForgotten
  BY DEF IInv
<1>2. /\ "sig" \in batch /\ batch' = batch \ {"sig"}
      /\ UNCHANGED <<made, backlog, listening, parent, sub_process_counter, news>>
  BY DEF SignalEvent, network
<1>3. /\ known' \subseteq known /\ m_stop' \in BOOLEAN
      /\ Alive \subseteq known' /\ (m_stop' => known' = {}) /\ (m_stop => m_stop')
  BY <1>1 DEF SignalEvent, Reap, NoneForgotten, TypeOK
<1>4. /\ child' \in [Children -> {"starting", "running", "stopping", "dead"}]
      /\ cbatch' \in [Children -> SUBSET {"pipe", "sig"}] /\ pipe' \in [Children -> Nat]
      /\ csig' \in [Children -> BOOLEAN] /\ heard' \in BOOLEAN /\ termed' \in BOOLEAN
      /\ sigs' \subseteq {"SIGCHLD", "SIGTERM"}
      /\ Notes' \subseteq Notes /\ Alive' \subseteq Alive /\ PipesAgree'
  <2>1. CASE KillAll(known) /\ termed' = TRUE
    <3> DEFINE bare == {i \in known \cap Alive : child[i] = "starting"}
    <3>1. bare \in SUBSET Children /\ Bury(bare) /\ sigs' = Chld(bare)
      BY <2>1 DEF KillAll, Alive
    <3>2. csig' = [i \in Children |-> csig[i] \/ (i \in known /\ child[i] \in {"running", "stopping"})]
      BY <2>1 DEF KillAll
    <3> HIDE DEF bare
    <3>3. csig' \in [Children -> BOOLEAN]
      BY <3>2, Zenon
    <3>4. sigs' \subseteq {"SIGCHLD", "SIGTERM"} /\ termed' \in BOOLEAN
      BY <2>1, <3>1 DEF Chld
    <3>5. /\ child' \in [Children -> {"starting", "running", "stopping", "dead"}]
          /\ cbatch' \in [Children -> SUBSET {"pipe", "sig"}] /\ pipe' \in [Children -> Nat]
          /\ heard' \in BOOLEAN
          /\ Notes' \subseteq Notes /\ Alive' \subseteq Alive /\ PipesAgree'
      BY <1>2, <3>1, BuryEffect
    <3> QED BY <3>3, <3>4, <3>5
  <2>2. CASE sigs' = {} /\ UNCHANGED <<child, pipe, cbatch, csig, heard, termed>>
    <3>1. Notes' = Notes /\ Alive' = Alive /\ PipesAgree'
      BY <1>1, <1>2, <2>2 DEF Notes, Alive, PipesAgree
    <3> QED BY <1>1, <2>2, <3>1 DEF TypeOK
  <2> QED BY <2>1, <2>2 DEF SignalEvent
<1>5. TypeOK'
  BY <1>1, <1>2, <1>3, <1>4 DEF TypeOK
<1>6. Accounted'
  BY <1>2, <1>4, FewerNotes DEF Bit
<1>7. SilentStart' /\ NoneForgotten'
  BY <1>1, <1>2, <1>3, <1>4 DEF SilentStart, NoneForgotten
<1> QED BY <1>4, <1>5, <1>6, <1>7 DEF IInv

-----------------------------------------------------------------------------
\* A child sets up, waits for events or meets SIGTERM: its pipe stays as it is.
LEMMA ChildStep ==
    ASSUME IInv, NEW i \in Children, ChildSetup(i) \/ ChildWait(i) \/ ChildSignalEvent(i)
    PROVE  IInv'
<1>1. TypeOK /\ Accounted /\ SilentStart /\ PipesAgree /\ NoneForgotten
  BY DEF IInv
<1>2. /\ UNCHANGED <<made, backlog, listening, parent, batch, m_stop, sub_process_counter, known,
                     sigs, pipe, heard, termed>>
      /\ child[i] # "dead"
  BY <1>1 DEF ChildSetup, ChildWait, ChildSignalEvent, network, parents, history, PipesAgree
<1>3. /\ child' \in [Children -> {"starting", "running", "stopping", "dead"}]
      /\ cbatch' \in [Children -> SUBSET {"pipe", "sig"}]
      /\ news' \in [Children -> BOOLEAN] /\ csig' \in [Children -> BOOLEAN]
  <2>1. CASE ChildSetup(i)
    BY <1>1, <2>1 DEF TypeOK, ChildSetup
  <2>2. CASE ChildWait(i)
    BY <1>1, <2>2 DEF TypeOK, ChildWait
  <2>3. CASE ChildSignalEvent(i)
    BY <1>1, <2>3 DEF TypeOK, ChildSignalEvent
  <2> QED BY <2>1, <2>2, <2>3
<1>4. TypeOK'
  BY <1>1, <1>2, <1>3 DEF TypeOK
<1>5. Notes' \subseteq Notes
  BY <1>2 DEF Notes
<1>6. Accounted'
  BY <1>2, <1>5, FewerNotes DEF Bit
<1>7. \A j \in Children \ {i} : child'[j] = child[j] /\ cbatch'[j] = cbatch[j] /\ news'[j] = news[j]
  BY <1>1 DEF TypeOK, ChildSetup, ChildWait, ChildSignalEvent
<1>8. /\ child'[i] \notin {"starting", "dead"}
      /\ Bit(news'[i]) + Bit("pipe" \in cbatch'[i]) <= pipe[i]
  <2> USE <1>1 DEF TypeOK, PipesAgree, Bit
  <2>1. CASE ChildSetup(i)
    <3>1. child'[i] = "running" /\ news'[i] = (pipe[i] > 0) /\ cbatch'[i] = {} /\ pipe[i] \in Nat
      BY <2>1 DEF ChildSetup
    <3>2. CASE pipe[i] > 0
      <4>1. news'[i]
        BY <3>1, <3>2, Zenon
      <4> QED BY <3>1, <3>2, <4>1
    <3>3. CASE ~(pipe[i] > 0)
      <4>1. ~news'[i]
        BY <3>1, <3>3, Zenon
      <4> QED BY <3>1, <4>1
    <3> QED BY <3>2, <3>3
  <2>2. CASE ChildWait(i)
    <3>1. /\ child'[i] = "running" /\ news'[i] = FALSE /\ pipe[i] \in Nat
          /\ "pipe" \in cbatch'[i] => news[i]
      BY <2>2 DEF ChildWait
    <3>2. Bit(news[i]) <= pipe[i]
      BY <2>2 DEF ChildWait
    <3> QED BY <3>1, <3>2
  <2>3. CASE ChildSignalEvent(i)
    <3>1. /\ child'[i] = "stopping" /\ news'[i] = news[i] /\ child[i] # "dead"
          /\ "pipe" \in cbatch'[i] <=> "pipe" \in cbatch[i]
      BY <1>2, <2>3 DEF ChildSignalEvent
    <3> QED BY <3>1
  <2> QED BY <2>1, <2>2, <2>3
<1>9. PipesAgree'
  BY <1>1, <1>2, <1>7, <1>8 DEF PipesAgree
<1>10. Alive' = Alive
  BY <1>2, <1>7, <1>8 DEF Alive
<1>11. SilentStart' /\ NoneForgotten'
  BY <1>1, <1>2, <1>10 DEF SilentStart, NoneForgotten
<1> QED BY <1>4, <1>6, <1>9, <1>11 DEF IInv

\* A child reads one notification and accepts one connection.
LEMMA PipeStep ==
    ASSUME IInv, NEW i \in Children, PipeEvent(i)
    PROVE  IInv'
<1>1. TypeOK /\ Accounted /\ SilentStart /\ PipesAgree /\ NoneForgotten
  BY DEF IInv
<1>2. /\ "pipe" \in cbatch[i]
      /\ UNCHANGED <<made, listening, parent, batch, m_stop, sub_process_counter, known,
                     sigs, child, news, csig, heard, termed>>
      /\ cbatch' = [cbatch EXCEPT ![i] = @ \ {"pipe"}]
  BY DEF PipeEvent, parents, history
<1>3. pipe \in [Children -> Nat] /\ pipe[i] \in Nat /\ cbatch \in [Children -> SUBSET {"pipe", "sig"}]
  BY <1>1 DEF TypeOK
<1>4. child[i] # "dead" /\ child[i] # "starting" /\ Bit(news[i]) + 1 <= pipe[i] /\ pipe[i] > 0
  BY <1>1, <1>2, <1>3 DEF PipesAgree, Bit
<1>5. Cardinality(Notes) >= 1 /\ backlog > 0 /\ <<i, pipe[i]>> \in Notes
  BY <1>4, NoteIsThere
<1>6. pipe' = [pipe EXCEPT ![i] = pipe[i] - 1] /\ backlog' = backlog - 1
  BY <1>4, <1>5 DEF PipeEvent
<1>7. pipe' \in [Children -> Nat]
  BY <1>3, <1>4, <1>6
<1>8. TypeOK'
  <2>1. made \in Nat /\ backlog' \in 0 .. made
    BY <1>1, <1>5, <1>6 DEF TypeOK
  <2>2. cbatch' \in [Children -> SUBSET {"pipe", "sig"}]
    BY <1>2, <1>3
  <2> QED BY <1>1, <1>2, <1>7, <2>1, <2>2 DEF TypeOK
<1>9. Notes' = Notes \ {<<i, pipe[i]>>}
  <2>1. \A j \in Children : \A k \in Nat :
           k \in 1 .. pipe'[j] <=> k \in 1 .. pipe[j] /\ ~(j = i /\ k = pipe[i])
    <3> TAKE j \in Children
    <3> TAKE k \in Nat
    <3>1. CASE j = i
      <4>1. pipe'[i] = pipe[i] - 1
        BY <1>3, <1>6
      <4> QED BY <1>3, <1>4, <3>1, <4>1
    <3>2. CASE j # i
      <4>1. pipe'[j] = pipe[j]
        BY <1>3, <1>6, <3>2
      <4> QED BY <3>2, <4>1
    <3> QED BY <3>1, <3>2
  <2> QED BY <2>1, <1>3 DEF Notes
<1>10. Accounted'
  <2>1. IsFiniteSet(Notes) /\ Cardinality(Notes) \in Nat /\ backlog \in Nat
    BY <1>1, FS_CardinalityType DEF Accounted, TypeOK
  <2>2. IsFiniteSet(Notes') /\ Cardinality(Notes') = Cardinality(Notes) - 1
    BY <1>5, <1>9, <2>1, FS_RemoveElement
  <2>3. Cardinality(Notes) + Bit(listening) + Bit("listen" \in batch) <= backlog
    BY <1>1 DEF Accounted
  <2>4. /\ Bit(listening') = Bit(listening) /\ Bit("listen" \in batch') = Bit("listen" \in batch)
        /\ Bit(listening) \in Nat /\ Bit("listen" \in batch) \in Nat
    BY <1>2 DEF Bit
  <2>5. Cardinality(Notes') + Bit(listening') + Bit("listen" \in batch') <= backlog'
    BY <1>6, <2>1, <2>2, <2>3, <2>4
  <2> QED BY <2>2, <2>5 DEF Accounted
<1>11. PipesAgree'
  <2> SUFFICES ASSUME NEW j \in Children
               PROVE  /\ child'[j] \in {"starting", "dead"} => cbatch'[j] = {}
                      /\ child'[j] # "dead" => Bit(news'[j]) + Bit("pipe" \in cbatch'[j]) <= pipe'[j]
    BY DEF PipesAgree
  <2>1. CASE j = i
    <3>1. pipe'[i] = pipe[i] - 1 /\ "pipe" \notin cbatch'[i] /\ child'[i] = child[i] /\ news'[i] = news[i]
      BY <1>2, <1>3, <1>6
    <3>2. Bit(news[i]) \in Nat /\ Bit("pipe" \in cbatch'[i]) = 0
      BY <3>1 DEF Bit
    <3> QED BY <1>3, <1>4, <2>1, <3>1, <3>2
  <2>2. CASE j # i
    <3>1. pipe'[j] = pipe[j] /\ cbatch'[j] = cbatch[j] /\ child'[j] = child[j] /\ news'[j] = news[j]
      BY <1>2, <1>3, <1>6, <2>2
    <3> QED BY <1>1, <3>1 DEF PipesAgree
  <2> QED BY <2>1, <2>2
<1>12. SilentStart' /\ NoneForgotten'
  <2>1. parent # "starting" /\ Alive' = Alive
    BY <1>1, <1>2, <1>4 DEF SilentStart, Alive
  <2> QED BY <1>1, <1>2, <2>1 DEF SilentStart, NoneForgotten
<1> QED BY <1>8, <1>10, <1>11, <1>12 DEF IInv

-----------------------------------------------------------------------------
LEMMA StepKeeps ==
    ASSUME IInv, [Next]_vars
    PROVE  IInv'
<1>1. CASE UNCHANGED vars
  <2>1. UNCHANGED <<made, backlog, listening, parent, batch, m_stop, sub_process_counter, known,
                    sigs, child, cbatch, pipe, news, csig, heard, termed>>
    BY <1>1 DEF vars, network, parents, kids, history
  <2>2. TypeOK' /\ SilentStart' /\ PipesAgree' /\ NoneForgotten'
    BY <2>1 DEF IInv, TypeOK, SilentStart, PipesAgree, NoneForgotten, Alive
  <2>3. Accounted'
    BY <2>1 DEF IInv, Accounted, Notes
  <2> QED BY <2>2, <2>3 DEF IInv
<1>2. CASE Connect
  BY <1>2, ConnectStep
<1>3. CASE Terminate \/ ParentSetup \/ ParentWait \/ ParentStops
  BY <1>3, ParentStep
<1>4. CASE ListenEvent
  BY <1>4, ListenStep
<1>5. CASE SignalEvent
  BY <1>5, SignalStep
<1>6. ASSUME NEW i \in Children, Crash(i) \/ Child(i)
      PROVE  IInv'
  BY <1>6, DeathStep, ChildStep, PipeStep DEF Child
<1> QED BY <1>1, <1>2, <1>3, <1>4, <1>5, <1>6 DEF Next, Parent

\* The inductive invariant holds for any number of children and connections.
THEOREM Invariance == Spec => []IInv
<1>1. Init => IInv
  BY InitEstablishes
<1>2. IInv /\ [Next]_vars => IInv'
  BY StepKeeps
<1> QED BY <1>1, <1>2, PTL DEF Spec

\* A child that handles an event of its pipe finds a notification and a
\* connection (run_child(): recv() and accept()).
THEOREM AcceptFindsConnectionCorrect == Spec => []AcceptFindsConnection
<1>1. IInv => AcceptFindsConnection
  <2> SUFFICES ASSUME IInv PROVE AcceptFindsConnection
    OBVIOUS
  <2>1. ASSUME NEW i \in Children, "pipe" \in cbatch[i]
        PROVE  pipe[i] > 0
    BY <2>1 DEF IInv, TypeOK, PipesAgree, Bit
  <2> QED BY <2>1, NoteIsThere DEF IInv, AcceptFindsConnection
<1> QED BY <1>1, Invariance, PTL

\* The parent stops when its children are gone and not before, and reaps none
\* that is alive (run_parent(): waitpid() and m_stop).
THEOREM ParentOutlivesCorrect == Spec => []ParentOutlives
<1>1. IInv => ParentOutlives
  BY DEF IInv, NoneForgotten, ParentOutlives
<1> QED BY <1>1, Invariance, PTL

-----------------------------------------------------------------------------
(* EchoServers, what a child does for its connections.                     *)

Messages(c) == {c} \X Nat

\* Messages in the order of their numbers, those of one sequence before those
\* of another, and none behind the n-th.
Ordered(s)   == \A i, j \in DOMAIN s : i < j => s[i][2] < s[j][2]
Before(s, t) == \A i \in DOMAIN s, j \in DOMAIN t : s[i][2] < t[j][2]
Upto(s, n)   == \A i \in DOMAIN s : s[i][2] <= n

\* What came back to a client, what was not read, and what the server holds for
\* the client behind a descriptor.
Back(c) ==
    /\ fromServer[c] \in Seq(Messages(c)) /\ Ordered(fromServer[c])
    /\ Upto(fromServer[c], sent[c])
Unread(c) ==
    /\ toServer[c] \in Seq(Messages(c)) /\ Ordered(toServer[c])
    /\ Before(fromServer[c], toServer[c]) /\ Upto(toServer[c], sent[c])
Held(f) ==
    LET c == owner[f] IN
    /\ buf[f] \in Seq(Messages(c)) /\ Ordered(buf[f])
    /\ Before(fromServer[c], buf[f]) /\ Before(buf[f], toServer[c])
    /\ Upto(buf[f], sent[c])

InLine ==
    /\ \A c \in Conns : Back(c) /\ Unread(c)
    /\ \A f \in Fds : owner[f] # Nil => Held(f)
    /\ \A f \in Fds : owner[f] = Nil /\ mode = "user" => buf[f] = <<>>

EchoTypes ==
    /\ mode \in {"select", "epoll", "user"}
    /\ sent \in [Conns -> Nat]
    /\ DOMAIN fromServer = Conns /\ DOMAIN toServer = Conns /\ DOMAIN buf = Fds

\* Each client waits once, and has one descriptor at most.
OneEach ==
    /\ pending \in Seq(Conns)
    /\ \A i \in DOMAIN pending : conn[pending[i]] = "queued"
    /\ \A i, j \in DOMAIN pending : pending[i] = pending[j] => i = j
    /\ <<0, "in">> \in events => pending # <<>>
    /\ \A f \in Fds : owner[f] # Nil => conn[owner[f]] \in {"open", "fin", "gone"}
    /\ \A f, g \in Fds : owner[f] # Nil /\ owner[f] = owner[g] => f = g

EchoInv == EchoTypes /\ OneEach /\ InLine /\ ClientsAreOpen

USE EchoAssumption

\* What is behind in the order, in two parts.
LEMMA JoinedInOrder ==
    ASSUME NEW c, NEW s \in Seq(Messages(c)), NEW t \in Seq(Messages(c)),
           Ordered(s), Ordered(t), Before(s, t)
    PROVE  /\ s \o t \in Seq(Messages(c)) /\ Ordered(s \o t)
           /\ \A n : Upto(s, n) /\ Upto(t, n) => Upto(s \o t, n)
           /\ \A u : Before(u, s) /\ Before(u, t) => Before(u, s \o t)
           /\ \A u : Before(s, u) /\ Before(t, u) => Before(s \o t, u)
<1> DEFINE u == s \o t
<1>1. /\ u \in Seq(Messages(c)) /\ Len(s) \in Nat /\ Len(t) \in Nat /\ Len(u) = Len(s) + Len(t)
      /\ DOMAIN s = 1 .. Len(s) /\ DOMAIN t = 1 .. Len(t) /\ DOMAIN u = 1 .. Len(s) + Len(t)
      /\ \A i \in 1 .. Len(s) : u[i] = s[i]
      /\ \A i \in 1 .. Len(t) : u[Len(s) + i] = t[i]
  BY ConcatProperties
<1> HIDE DEF u
<1>2. \A i \in DOMAIN u : \/ i \in DOMAIN s /\ u[i] = s[i]
                          \/ i - Len(s) \in DOMAIN t /\ u[i] = t[i - Len(s)]
  <2> TAKE i \in DOMAIN u
  <2>1. CASE i <= Len(s)
    BY <1>1, <2>1
  <2>2. CASE i > Len(s)
    <3>1. i - Len(s) \in 1 .. Len(t) /\ Len(s) + (i - Len(s)) = i
      BY <1>1, <2>2
    <3> QED BY <1>1, <3>1
  <2> QED BY <1>1, <2>1, <2>2
<1>3. Ordered(u)
  <2> SUFFICES ASSUME NEW i \in DOMAIN u, NEW j \in DOMAIN u, i < j PROVE u[i][2] < u[j][2]
    BY DEF Ordered
  <2>1. CASE j <= Len(s)
    <3>1. i \in DOMAIN s /\ j \in DOMAIN s /\ u[i] = s[i] /\ u[j] = s[j]
      BY <1>1, <2>1
    <3> QED BY <3>1 DEF Ordered
  <2>2. CASE i > Len(s)
    <3>1. /\ i - Len(s) \in DOMAIN t /\ j - Len(s) \in DOMAIN t
          /\ i - Len(s) < j - Len(s)
          /\ Len(s) + (i - Len(s)) = i /\ Len(s) + (j - Len(s)) = j
      BY <1>1, <2>2
    <3>2. u[i] = t[i - Len(s)] /\ u[j] = t[j - Len(s)]
      BY <1>1, <3>1
    <3> QED BY <3>1, <3>2 DEF Ordered
  <2>3. CASE i <= Len(s) /\ j > Len(s)
    <3>1. i \in DOMAIN s /\ u[i] = s[i]
      BY <1>1, <2>3
    <3>2. j - Len(s) \in DOMAIN t /\ Len(s) + (j - Len(s)) = j
      BY <1>1, <2>3
    <3>3. u[j] = t[j - Len(s)]
      BY <1>1, <3>2
    <3> QED BY <3>1, <3>2, <3>3 DEF Before
  <2> QED BY <1>1, <2>1, <2>2, <2>3
<1>4. \A n : Upto(s, n) /\ Upto(t, n) => Upto(u, n)
  BY <1>2 DEF Upto
<1>5. \A v : Before(v, s) /\ Before(v, t) => Before(v, u)
  BY <1>2 DEF Before
<1>6. \A v : Before(s, v) /\ Before(t, v) => Before(u, v)
  BY <1>2 DEF Before
<1> QED BY <1>1, <1>3, <1>4, <1>5, <1>6 DEF u

\* A sequence in order, cut in two.
LEMMA CutInOrder ==
    ASSUME NEW c, NEW s \in Seq(Messages(c)), NEW n \in 0 .. Len(s), Ordered(s)
    PROVE  /\ SubSeq(s, 1, n) \in Seq(Messages(c)) /\ SubSeq(s, n + 1, Len(s)) \in Seq(Messages(c))
           /\ Ordered(SubSeq(s, 1, n)) /\ Ordered(SubSeq(s, n + 1, Len(s)))
           /\ Before(SubSeq(s, 1, n), SubSeq(s, n + 1, Len(s)))
           /\ \A k : Upto(s, k) => Upto(SubSeq(s, 1, n), k) /\ Upto(SubSeq(s, n + 1, Len(s)), k)
           /\ \A u : Before(u, s) => Before(u, SubSeq(s, 1, n)) /\ Before(u, SubSeq(s, n + 1, Len(s)))
           /\ \A u : Before(s, u) => Before(SubSeq(s, 1, n), u)
<1> DEFINE a == SubSeq(s, 1, n)
           b == SubSeq(s, n + 1, Len(s))
<1>1. /\ Len(s) \in Nat /\ n \in Nat /\ n <= Len(s) /\ DOMAIN s = 1 .. Len(s)
  OBVIOUS
<1>2. /\ a \in Seq(Messages(c)) /\ DOMAIN a = 1 .. n /\ \A i \in 1 .. n : a[i] = s[i]
  BY <1>1
<1>3. /\ b \in Seq(Messages(c)) /\ DOMAIN b = 1 .. Len(s) - n
      /\ \A i \in 1 .. Len(s) - n : b[i] = s[n + i]
  BY <1>1
<1> HIDE DEF a, b
<1>4. /\ \A i \in DOMAIN a : i \in DOMAIN s /\ a[i] = s[i] /\ i <= n
      /\ \A i \in DOMAIN b : n + i \in DOMAIN s /\ b[i] = s[n + i] /\ i > 0
  BY <1>1, <1>2, <1>3
<1>5. Ordered(a)
  BY <1>4 DEF Ordered
<1>6. Ordered(b)
  <2> SUFFICES ASSUME NEW i \in DOMAIN b, NEW j \in DOMAIN b, i < j PROVE b[i][2] < b[j][2]
    BY DEF Ordered
  <2>1. n + i < n + j
    BY <1>1, <1>3
  <2> QED BY <1>4, <2>1 DEF Ordered
<1>7. Before(a, b)
  <2> SUFFICES ASSUME NEW i \in DOMAIN a, NEW j \in DOMAIN b PROVE a[i][2] < b[j][2]
    BY DEF Before
  <2>1. i < n + j
    BY <1>1, <1>2, <1>3
  <2> QED BY <1>4, <2>1 DEF Ordered
<1>8. \A k : Upto(s, k) => Upto(a, k) /\ Upto(b, k)
  BY <1>4 DEF Upto
<1>9. \A u : Before(u, s) => Before(u, a) /\ Before(u, b)
  BY <1>4 DEF Before
<1>10. \A u : Before(s, u) => Before(a, u)
  BY <1>4 DEF Before
<1> QED BY <1>2, <1>3, <1>5, <1>6, <1>7, <1>8, <1>9, <1>10 DEF a, b

LEMMA NoneInOrder ==
    \A c, s, n : /\ <<>> \in Seq(Messages(c)) /\ Ordered(<<>>) /\ Upto(<<>>, n)
                 /\ Before(s, <<>>) /\ Before(<<>>, s)
BY DEF Ordered, Upto, Before

\* A step that touches the messages of one client and what the server holds for
\* it, and leaves them in order.
LEMMA LineKept ==
    ASSUME EchoTypes, OneEach, InLine, EchoTypeOK, Nil \notin Conns, UNCHANGED <<owner, mode, sent>>,
           NEW f \in Fds, NEW c \in Conns, owner[f] = c,
           NEW s \in Seq(Messages(c)), NEW t \in Seq(Messages(c)), NEW b \in Seq(Messages(c)),
           fromServer'[c] = s, toServer'[c] = t, buf'[f] = b,
           \A d \in Conns \ {c} : fromServer'[d] = fromServer[d] /\ toServer'[d] = toServer[d],
           \A g \in Fds \ {f} : buf'[g] = buf[g],
           Ordered(s), Ordered(t), Ordered(b), Before(s, t), Before(s, b), Before(b, t),
           Upto(s, sent[c]), Upto(t, sent[c]), Upto(b, sent[c])
    PROVE  InLine'
<1>1. ASSUME NEW d \in Conns PROVE Back(d)' /\ Unread(d)'
  <2>1. CASE d = c
    BY <2>1 DEF Back, Unread, Ordered, Before, Upto
  <2>2. CASE d # c
    <3>1. Back(d) /\ Unread(d) /\ fromServer'[d] = fromServer[d] /\ toServer'[d] = toServer[d]
      BY <2>2 DEF InLine
    <3> QED BY <3>1 DEF Back, Unread, Ordered, Before, Upto
  <2> QED BY <2>1, <2>2
<1>2. ASSUME NEW g \in Fds, owner[g] # Nil PROVE Held(g)'
  <2>1. CASE g = f
    BY <2>1 DEF Held, Ordered, Before, Upto
  <2>2. CASE g # f
    <3>1. owner[g] \in Conns \ {c} /\ owner' = owner /\ buf'[g] = buf[g] /\ Held(g)
      BY <1>2, <2>2 DEF EchoTypeOK, OneEach, InLine
    <3>2. PICK d \in Conns \ {c} : owner[g] = d
      BY <3>1
    <3>3. fromServer'[d] = fromServer[d] /\ toServer'[d] = toServer[d] /\ owner'[g] = d /\ sent' = sent
      BY <3>1, <3>2
    <3> QED BY <3>1, <3>2, <3>3 DEF Held, Ordered, Before, Upto
  <2> QED BY <2>1, <2>2
<1>3. ASSUME NEW g \in Fds, owner[g] = Nil, mode = "user" PROVE buf'[g] = <<>>
  BY <1>3 DEF InLine
<1> QED BY <1>1, <1>2, <1>3 DEF InLine

\* A step that touches neither messages nor what the server holds.
LEMMA LineUntouched ==
    ASSUME InLine, UNCHANGED <<owner, mode, sent, fromServer, toServer, buf>>
    PROVE  InLine'
<1>1. ASSUME NEW d \in Conns PROVE Back(d)' /\ Unread(d)'
  <2>1. Back(d) /\ Unread(d)
    BY DEF InLine
  <2> QED BY <2>1 DEF Back, Unread, Ordered, Before, Upto
<1>2. ASSUME NEW g \in Fds, owner[g] # Nil PROVE Held(g)'
  <2>1. Held(g)
    BY <1>2 DEF InLine
  <2> QED BY <2>1 DEF Held, Ordered, Before, Upto
<1> QED BY <1>1, <1>2 DEF InLine

\* write() of what is in front of the messages that are not read.
LEMMA DeliverInLine ==
    ASSUME EchoTypes, OneEach, InLine, EchoTypeOK, Nil \notin Conns,
           NEW f \in Fds, NEW c \in Conns, owner[f] = c,
           NEW text \in Seq(Messages(c)), NEW t \in Seq(Messages(c)),
           toServer'[c] = t, \A d \in Conns \ {c} : toServer'[d] = toServer[d],
           Ordered(text), Ordered(t), Before(text, t),
           Before(fromServer[c], text), Before(fromServer[c], t),
           Upto(text, sent[c]), Upto(t, sent[c]),
           Deliver(f, text), UNCHANGED <<owner, mode, sent>>
    PROVE  InLine'
<1>1. /\ fromServer[c] \in Seq(Messages(c)) /\ Ordered(fromServer[c]) /\ Upto(fromServer[c], sent[c])
      /\ DOMAIN fromServer = Conns /\ DOMAIN buf = Fds /\ sent[c] \in Nat
  BY DEF InLine, Back, EchoTypes
<1>2. PICK s0 \in Seq(Messages(c)), n0 \in Nat : s0 = fromServer[c] /\ n0 = sent[c]
  BY <1>1
<1>3. /\ buf' = [buf EXCEPT ![f] = <<>>] \/ buf' = [buf EXCEPT ![f] = text]
      /\ \/ fromServer' = fromServer
         \/ /\ \E n \in 0 .. Len(text) :
                  fromServer' = [fromServer EXCEPT ![c] = @ \o SubSeq(text, 1, n)]
            /\ buf' = [buf EXCEPT ![f] = <<>>]
  BY DEF Deliver
<1>4. PICK b \in Seq(Messages(c)) : b = buf'[f] /\ (b = <<>> \/ b = text)
  BY <1>1, <1>3, NoneInOrder
<1>5. Ordered(b) /\ Before(s0, b) /\ Before(b, t) /\ Upto(b, n0)
  <2>1. CASE b = text
    BY <1>2, <2>1
  <2>2. CASE b = <<>>
    BY <2>2, NoneInOrder
  <2> QED BY <1>4, <2>1, <2>2
<1>6. \A g \in Fds \ {f} : buf'[g] = buf[g]
  BY <1>1, <1>3
<1>7. CASE fromServer' = fromServer
  <2>1. /\ fromServer'[c] = s0 /\ Ordered(s0) /\ Before(s0, t) /\ Upto(s0, sent[c])
        /\ Before(s0, b) /\ Upto(b, sent[c])
        /\ \A d \in Conns \ {c} : fromServer'[d] = fromServer[d] /\ toServer'[d] = toServer[d]
    BY <1>1, <1>2, <1>5, <1>7
  <2> QED BY <1>4, <1>5, <1>6, <2>1, LineKept
<1>8. ASSUME NEW n \in 0 .. Len(text), fromServer' = [fromServer EXCEPT ![c] = @ \o SubSeq(text, 1, n)],
             buf' = [buf EXCEPT ![f] = <<>>]
      PROVE  InLine'
  <2>1. PICK p \in Seq(Messages(c)) : p = SubSeq(text, 1, n)
    BY CutInOrder
  <2>2. Ordered(p) /\ Upto(p, n0) /\ Before(s0, p) /\ Before(p, t)
    BY <1>2, <2>1, CutInOrder
  <2>3. PICK s \in Seq(Messages(c)) : s = s0 \o p
    BY <1>1, <1>2, <2>2, JoinedInOrder
  <2>4. Ordered(s0) /\ Upto(s0, n0) /\ Before(s0, t)
    BY <1>1, <1>2
  <2>5. Ordered(s) /\ Upto(s, n0) /\ Before(s, t)
    BY <2>2, <2>3, <2>4, JoinedInOrder
  <2>6. b = <<>> /\ fromServer'[c] = s
    BY <1>1, <1>2, <1>4, <1>8, <2>1, <2>3
  <2>7. Before(s, b) /\ Upto(s, sent[c]) /\ Upto(b, sent[c])
    BY <1>2, <1>5, <2>5, <2>6, NoneInOrder
  <2>8. \A d \in Conns \ {c} : fromServer'[d] = fromServer[d] /\ toServer'[d] = toServer[d]
    BY <1>1, <1>8
  <2> QED BY <1>4, <1>5, <1>6, <2>5, <2>6, <2>7, <2>8, LineKept
<1> QED BY <1>3, <1>7, <1>8

-----------------------------------------------------------------------------
(* The steps.                                                              *)

LEMMA EchoInitEstablishes ==
    ASSUME EchoInit
    PROVE  EchoInv
<1>1. /\ \A c \in Conns : sent[c] = 0 /\ fromServer[c] = <<>> /\ toServer[c] = <<>>
      /\ \A f \in Fds : owner[f] = Nil /\ buf[f] = <<>>
      /\ clients = {} /\ events = {} /\ pending = <<>> /\ mode \in {"select", "epoll", "user"}
  BY DEF EchoInit
<1>2. EchoTypes
  BY DEF EchoInit, EchoTypes
<1>3. OneEach
  <2>1. pending \in Seq(Conns) /\ DOMAIN pending = {}
    BY <1>1
  <2> QED BY <1>1, <2>1 DEF OneEach
<1>4. InLine
  <2>1. ASSUME NEW c \in Conns PROVE Back(c) /\ Unread(c)
    <3>1. sent[c] = 0 /\ fromServer[c] = <<>> /\ toServer[c] = <<>>
      BY <1>1
    <3> QED BY <3>1, NoneInOrder DEF Back, Unread
  <2> QED BY <1>1, <2>1 DEF InLine
<1>5. ClientsAreOpen
  <2>1. EchoTypeOK
    BY DEF EchoInit, EchoTypeOK
  <2> QED BY <1>1, <2>1 DEF ClientsAreOpen
<1> QED BY <1>2, <1>3, <1>4, <1>5 DEF EchoInv

\* A client connects: it was not known.
LEMMA ClientConnects ==
    ASSUME EchoInv, NEW c \in Conns, Arrives(c)
    PROVE  EchoInv'
<1>1. EchoTypes /\ OneEach /\ InLine /\ ClientsAreOpen /\ EchoTypeOK
  BY DEF EchoInv, ClientsAreOpen
<1>2. /\ UNCHANGED <<sent, toServer, fromServer, mode, pc, owner, events, clients, buf, out, shut>>
      /\ conn[c] = "away" /\ conn' = [conn EXCEPT ![c] = "queued"]
      /\ pending' = Append(pending, c)
      /\ conn \in [Conns -> {"away", "queued", "open", "fin", "gone", "closed"}]
  BY <1>1 DEF Arrives, EchoTypeOK
<1>3. InLine' /\ EchoTypes'
  BY <1>1, <1>2, LineUntouched DEF EchoTypes
<1>4. \A f \in Fds : owner[f] # Nil => owner[f] # c /\ conn'[owner[f]] = conn[owner[f]]
  BY <1>1, <1>2 DEF OneEach, EchoTypeOK
<1>5. OneEach'
  <2>1. /\ pending \in Seq(Conns) /\ pending' \in Seq(Conns) /\ pending' # <<>>
        /\ Len(pending) \in Nat /\ DOMAIN pending = 1 .. Len(pending)
        /\ DOMAIN pending' = 1 .. Len(pending) + 1
        /\ \A i \in 1 .. Len(pending) : pending'[i] = pending[i] /\ pending[i] \in Conns
        /\ pending'[Len(pending) + 1] = c
    BY <1>1, <1>2 DEF OneEach
  <2>2. \A i \in 1 .. Len(pending) : pending[i] # c /\ conn[pending[i]] = "queued"
    BY <1>1, <1>2, <2>1 DEF OneEach
  <2>3. \A i \in DOMAIN pending' : conn'[pending'[i]] = "queued"
    BY <1>2, <2>1, <2>2
  <2>4. \A i, j \in DOMAIN pending' : pending'[i] = pending'[j] => i = j
    <3>1. \A i, j \in 1 .. Len(pending) : pending[i] = pending[j] => i = j
      BY <1>1, <2>1 DEF OneEach
    <3> SUFFICES ASSUME NEW i \in 1 .. Len(pending) + 1, NEW j \in 1 .. Len(pending) + 1,
                        pending'[i] = pending'[j]
                 PROVE  i = j
      BY <2>1
    <3>2. i \in 1 .. Len(pending) \/ i = Len(pending) + 1
      BY <2>1
    <3>3. j \in 1 .. Len(pending) \/ j = Len(pending) + 1
      BY <2>1
    <3> QED BY <2>1, <2>2, <3>1, <3>2, <3>3
  <2>5. /\ \A f \in Fds : owner'[f] # Nil => conn'[owner'[f]] \in {"open", "fin", "gone"}
        /\ \A f, g \in Fds : owner'[f] # Nil /\ owner'[f] = owner'[g] => f = g
    BY <1>1, <1>2, <1>4 DEF OneEach
  <2> QED BY <1>2, <2>1, <2>3, <2>4, <2>5 DEF OneEach
<1>6. ClientsAreOpen'
  <2>1. EchoTypeOK'
    BY <1>1, <1>2 DEF EchoTypeOK
  <2> QED BY <1>1, <1>2, <1>4, <2>1 DEF ClientsAreOpen
<1> QED BY <1>3, <1>5, <1>6 DEF EchoInv

\* It sends the next message.
LEMMA ClientSends ==
    ASSUME EchoInv, NEW c \in Conns, Send(c)
    PROVE  EchoInv'
<1>1. EchoTypes /\ OneEach /\ InLine /\ ClientsAreOpen /\ EchoTypeOK
  BY DEF EchoInv, ClientsAreOpen
<1>2. /\ UNCHANGED <<conn, fromServer, mode, pc, owner, pending, events, clients, buf, out, shut>>
      /\ sent[c] \in Nat
      /\ sent' = [sent EXCEPT ![c] = @ + 1]
      /\ toServer' = [toServer EXCEPT ![c] = Append(@, <<c, sent[c] + 1>>)]
      /\ sent' \in [Conns -> Nat] /\ DOMAIN toServer = Conns
  BY <1>1 DEF Send, server, EchoTypes
<1>3. EchoTypes'
  BY <1>1, <1>2 DEF EchoTypes
<1>4. OneEach'
  BY <1>1, <1>2 DEF OneEach
<1>5. ClientsAreOpen'
  BY <1>1, <1>2 DEF ClientsAreOpen, EchoTypeOK
<1>6. PICK n \in Nat, s \in Seq(Messages(c)), t \in Seq(Messages(c)) :
         n = sent[c] /\ s = fromServer[c] /\ t = toServer[c]
  BY <1>1, <1>2 DEF InLine, Back, Unread
<1>7. Ordered(s) /\ Upto(s, n) /\ Ordered(t) /\ Before(s, t) /\ Upto(t, n)
  BY <1>1, <1>6 DEF InLine, Back, Unread
<1>8. PICK m \in Seq(Messages(c)) : m = <<<<c, n + 1>>>> /\ Len(m) = 1
  <2>1. PICK e \in Messages(c) : e = <<c, n + 1>>
    <3>1. PICK k \in Nat : k = n + 1
      BY <1>6
    <3>2. <<c, k>> \in {c} \X Nat
      BY <3>1
    <3>3. <<c, n + 1>> \in Messages(c)
      BY <3>1, <3>2 DEF Messages
    <3> QED BY <3>3
  <2>2. <<e>> \in Seq(Messages(c)) /\ Len(<<e>>) = 1
    OBVIOUS
  <2> QED BY <2>1, <2>2
<1>9. /\ Ordered(m) /\ Upto(m, n + 1)
      /\ \A v \in Seq(Messages(c)) : Upto(v, n) => Before(v, m)
  <2>1. DOMAIN m = 1 .. 1 /\ m[1] = <<c, n + 1>> /\ m[1][2] = n + 1
    BY <1>8
  <2>2. Ordered(m) /\ Upto(m, n + 1)
    BY <1>6, <2>1 DEF Ordered, Upto
  <2>3. ASSUME NEW v \in Seq(Messages(c)), Upto(v, n) PROVE Before(v, m)
    <3>1. \A i \in DOMAIN v : v[i][2] \in Nat /\ v[i][2] <= n
      BY <2>3 DEF Upto, Messages
    <3> QED BY <1>6, <2>1, <3>1 DEF Before
  <2> QED BY <2>2, <2>3
<1>10. \A v \in Seq(Messages(c)) : Upto(v, n) => Upto(v, n + 1)
  <2> SUFFICES ASSUME NEW v \in Seq(Messages(c)), Upto(v, n) PROVE Upto(v, n + 1)
    OBVIOUS
  <2>1. \A i \in DOMAIN v : v[i][2] \in Nat /\ v[i][2] <= n
    BY DEF Upto, Messages
  <2> QED BY <1>6, <2>1 DEF Upto
<1>11. PICK u \in Seq(Messages(c)) : u = t \o m
  BY <1>7, <1>9, JoinedInOrder
<1>12. Ordered(u) /\ Before(s, u) /\ Upto(u, n + 1)
       /\ \A v \in Seq(Messages(c)) : Before(v, t) /\ Upto(v, n) => Before(v, u)
  <2>1. Before(t, m) /\ Upto(t, n + 1) /\ Before(s, m)
    BY <1>7, <1>9, <1>10
  <2> QED BY <1>7, <1>9, <1>11, <2>1, JoinedInOrder
<1>13. toServer'[c] = u /\ sent'[c] = n + 1 /\ fromServer'[c] = s
  <2>1. toServer'[c] = Append(t, <<c, n + 1>>)
    BY <1>2, <1>6
  <2>2. Append(t, <<c, n + 1>>) = t \o <<<<c, n + 1>>>>
    <3>1. t \in Seq(Messages(c) \cup {<<c, n + 1>>}) /\ <<c, n + 1>> \in Messages(c) \cup {<<c, n + 1>>}
      BY <1>8
    <3> QED BY <3>1, AppendIsConcat
  <2> QED BY <1>2, <1>6, <1>8, <1>11, <2>1, <2>2
<1>14. \A d \in Conns \ {c} : toServer'[d] = toServer[d] /\ sent'[d] = sent[d]
  BY <1>1, <1>2 DEF EchoTypes
<1>15. ASSUME NEW d \in Conns PROVE Back(d)' /\ Unread(d)'
  <2>1. CASE d = c
    <3>1. Upto(s, n + 1)
      BY <1>7, <1>10
    <3> QED BY <1>7, <1>12, <1>13, <2>1, <3>1 DEF Back, Unread, Ordered, Before, Upto
  <2>2. CASE d # c
    <3>1. /\ Back(d) /\ Unread(d) /\ toServer'[d] = toServer[d] /\ sent'[d] = sent[d]
          /\ fromServer' = fromServer
      BY <1>1, <1>2, <1>14, <2>2 DEF InLine
    <3> QED BY <3>1 DEF Back, Unread, Ordered, Before, Upto
  <2> QED BY <2>1, <2>2
<1>16. ASSUME NEW f \in Fds, owner[f] # Nil PROVE Held(f)'
  <2>1. Held(f)
    BY <1>1, <1>16 DEF InLine
  <2>2. PICK d \in Conns : owner[f] = d /\ owner'[f] = d
    BY <1>1, <1>2, <1>16 DEF EchoTypeOK
  <2>3. CASE d = c
    <3>1. PICK b \in Seq(Messages(c)) : b = buf[f] /\ b = buf'[f]
      BY <1>2, <2>1, <2>2, <2>3 DEF Held
    <3>2. Ordered(b) /\ Before(s, b) /\ Before(b, t) /\ Upto(b, n)
      BY <1>6, <2>1, <2>2, <2>3, <3>1 DEF Held
    <3>3. Before(b, u) /\ Upto(b, n + 1)
      BY <1>10, <1>12, <3>2
    <3> QED BY <1>13, <2>2, <2>3, <3>1, <3>2, <3>3 DEF Held, Ordered, Before, Upto
  <2>4. CASE d # c
    <3>1. /\ toServer'[d] = toServer[d] /\ sent'[d] = sent[d] /\ fromServer' = fromServer
          /\ buf' = buf
      BY <1>2, <1>14, <2>2, <2>4
    <3> QED BY <2>1, <2>2, <3>1 DEF Held, Ordered, Before, Upto
  <2> QED BY <2>3, <2>4
<1>17. InLine'
  BY <1>1, <1>2, <1>15, <1>16 DEF InLine
<1> QED BY <1>3, <1>4, <1>5, <1>17 DEF EchoInv

\* It hangs up.
LEMMA ClientHangsUp ==
    ASSUME EchoInv, NEW c \in Conns, NEW how \in {"fin", "gone"},
           HangUp(c, how)
    PROVE  EchoInv'
<1>1. EchoTypes /\ OneEach /\ InLine /\ ClientsAreOpen /\ EchoTypeOK
  BY DEF EchoInv, ClientsAreOpen
<1>2. /\ UNCHANGED <<sent, toServer, fromServer, mode, pc, owner, pending, events, clients, buf,
                     out, shut>>
      /\ conn[c] \in {"open", "fin"} /\ conn' = [conn EXCEPT ![c] = how]
      /\ conn \in [Conns -> {"away", "queued", "open", "fin", "gone", "closed"}]
  BY <1>1 DEF HangUp, server, EchoTypeOK
<1>3. InLine' /\ EchoTypes'
  BY <1>1, <1>2, LineUntouched DEF EchoTypes
<1>4. \A d \in Conns : conn'[d] = conn[d] \/ (d = c /\ conn'[d] \in {"fin", "gone"})
  BY <1>2
<1>5. OneEach'
  <2>1. \A i \in DOMAIN pending : pending[i] \in Conns /\ conn'[pending[i]] = "queued"
    BY <1>1, <1>2, <1>4 DEF OneEach
  <2>2. \A f \in Fds : owner[f] # Nil => conn'[owner[f]] \in {"open", "fin", "gone"}
    BY <1>1, <1>4 DEF OneEach, EchoTypeOK
  <2> QED BY <1>1, <1>2, <2>1, <2>2 DEF OneEach
<1>6. ClientsAreOpen'
  <2>1. EchoTypeOK'
    BY <1>1, <1>2 DEF EchoTypeOK
  <2>2. \A f \in Fds \ clients : owner[f] # Nil => conn'[owner[f]] \in {"fin", "gone"}
    BY <1>1, <1>4 DEF ClientsAreOpen, EchoTypeOK
  <2> QED BY <1>1, <1>2, <2>1, <2>2 DEF ClientsAreOpen
<1> QED BY <1>3, <1>5, <1>6 DEF EchoInv

\* A step of the server that opens and closes no descriptor.
LEMMA SameOwners ==
    ASSUME EchoInv, UNCHANGED <<owner, conn, pending, mode>>,
           EchoTypes', InLine',
           events' \subseteq {<<0, "in">>} \cup (Fds \X {"in", "out"}),
           <<0, "in">> \in events' => pending # <<>>,
           pc' \in {"run", "ended", "killed"},
           out' \subseteq Fds, shut' \subseteq Fds,
           clients' \subseteq clients,
           clients' # clients => mode = "user",
           \A f \in clients \ clients' : owner[f] # Nil => conn[owner[f]] \in {"fin", "gone"}
    PROVE  EchoInv'
<1>1. OneEach /\ ClientsAreOpen /\ EchoTypeOK
  BY DEF EchoInv, ClientsAreOpen
<1>2. OneEach'
  BY <1>1 DEF OneEach
<1>3. EchoTypeOK'
  BY <1>1 DEF EchoTypeOK
<1>4. ClientsAreOpen'
  BY <1>1, <1>3 DEF ClientsAreOpen
<1> QED BY <1>2, <1>4 DEF EchoInv

LEMMA HandleShrinks ==
    ASSUME NEW f \in Fds, NEW event, Handle(f, event), EchoInv
    PROVE  /\ events' \subseteq events
           /\ events' \subseteq {<<0, "in">>} \cup (Fds \X {"in", "out"})
           /\ <<0, "in">> \in events' => pending # <<>>
<1>1. events' \subseteq events
  BY DEF Handle
<1>2. /\ events \subseteq {<<0, "in">>} \cup (Fds \X {"in", "out"})
      /\ <<0, "in">> \in events => pending # <<>>
  BY DEF EchoInv, ClientsAreOpen, EchoTypeOK, OneEach
<1> QED BY <1>1, <1>2

\* Steps that touch no message: what is ready, and what is not there.
LEMMA QuietStep ==
    ASSUME EchoInv,
           Wait \/ AcceptFails \/ (\E f \in Fds : ReadNothing(f))
           \/ UNCHANGED echoVars
    PROVE  EchoInv'
<1>1. EchoTypes /\ OneEach /\ InLine /\ ClientsAreOpen /\ EchoTypeOK
  BY DEF EchoInv, ClientsAreOpen
<1>2. /\ UNCHANGED <<conn, sent, toServer, fromServer, mode, owner, pending, clients, buf, out, shut>>
      /\ pc' \in {"run", "ended", "killed"}
  <2>1. pc \in {"run", "ended", "killed"}
    BY <1>1 DEF EchoTypeOK
  <2>2. CASE Wait
    BY <2>1, <2>2 DEF Wait, peers
  <2>3. CASE AcceptFails
    BY <2>1, <2>3 DEF AcceptFails, peers
  <2>4. CASE \E f \in Fds : ReadNothing(f)
    BY <2>1, <2>4 DEF ReadNothing, peers
  <2>5. CASE UNCHANGED echoVars
    BY <2>1, <2>5 DEF echoVars, peers, server
  <2> QED BY <2>2, <2>3, <2>4, <2>5
<1>3. /\ events' \subseteq {<<0, "in">>} \cup (Fds \X {"in", "out"})
      /\ <<0, "in">> \in events' => pending # <<>>
  <2>1. /\ events \subseteq {<<0, "in">>} \cup (Fds \X {"in", "out"})
        /\ <<0, "in">> \in events => pending # <<>>
    BY <1>1 DEF EchoTypeOK, OneEach
  <2>2. CASE Wait
    <3>1. events' = Ready
      BY <2>2 DEF Wait
    <3>2. Input \subseteq Fds /\ Output \subseteq Fds
      BY <1>1 DEF Input, Output, EchoTypeOK
    <3>3. 0 \notin Fds
      BY DEF Fds
    <3> QED BY <3>1, <3>2, <3>3 DEF Ready
  <2>3. CASE AcceptFails
    <3>1. events' \subseteq events
      BY <2>3 DEF AcceptFails
    <3> QED BY <2>1, <3>1
  <2>4. CASE \E f \in Fds : ReadNothing(f)
    BY <2>4, HandleShrinks DEF ReadNothing
  <2>5. CASE UNCHANGED echoVars
    BY <2>1, <2>5 DEF echoVars, server
  <2> QED BY <2>2, <2>3, <2>4, <2>5
<1>4. EchoTypes' /\ InLine'
  BY <1>1, <1>2, LineUntouched DEF EchoTypes
<1>5. out' \subseteq Fds /\ shut' \subseteq Fds /\ clients' = clients
  BY <1>1, <1>2 DEF EchoTypeOK
<1> QED BY <1>2, <1>3, <1>4, <1>5, SameOwners

\* accept(): a client that waited gets a descriptor that was closed, and what a
\* server other than the user held for that descriptor is forgotten.
LEMMA AcceptStep ==
    ASSUME EchoInv, NEW f \in Fds, Accept(f)
    PROVE  EchoInv'
<1>1. EchoTypes /\ OneEach /\ InLine /\ ClientsAreOpen /\ EchoTypeOK /\ Nil \notin Conns
  BY DEF EchoInv, ClientsAreOpen
<1>2. pending # <<>> /\ pending \in Seq(Conns)
  BY <1>1 DEF Accept, OneEach
<1>3. PICK c \in Conns : c = Head(pending) /\ c = pending[1] /\ 1 \in DOMAIN pending
  BY <1>2
<1>4. /\ owner[f] = Nil /\ owner' = [owner EXCEPT ![f] = c]
      /\ conn[c] = "queued" /\ conn' = [conn EXCEPT ![c] = "open"]
      /\ pending' = Tail(pending) /\ <<0, "in">> \notin events' /\ events' \subseteq events
      /\ clients' = clients \cup {f}
      /\ buf' = IF mode = "user" THEN buf ELSE [buf EXCEPT ![f] = <<>>]
      /\ UNCHANGED <<sent, toServer, fromServer, mode, pc, out, shut>>
      /\ conn \in [Conns -> {"away", "queued", "open", "fin", "gone", "closed"}]
      /\ owner \in [Fds -> Conns \cup {Nil}]
  BY <1>1, <1>3 DEF Accept, FreeFds, OneEach, EchoTypeOK
<1>5. \A g \in Fds : owner[g] # c
  BY <1>1, <1>4 DEF OneEach
<1>6. /\ owner'[f] = c /\ conn'[c] = "open"
      /\ \A g \in Fds \ {f} : owner'[g] = owner[g]
      /\ \A d \in Conns \ {c} : conn'[d] = conn[d]
  BY <1>4
<1>7. EchoTypes'
  BY <1>1, <1>4 DEF EchoTypes
<1>8. OneEach'
  <2>1. /\ pending' \in Seq(Conns) /\ Len(pending) \in Nat /\ Len(pending) > 0
        /\ DOMAIN pending = 1 .. Len(pending)
        /\ DOMAIN pending' = 1 .. Len(pending) - 1
        /\ \A i \in 1 .. Len(pending) - 1 : pending'[i] = pending[i + 1]
    BY <1>2, <1>4
  <2>2. \A i \in DOMAIN pending' : i + 1 \in DOMAIN pending /\ i + 1 # 1 /\ pending'[i] = pending[i + 1]
    BY <2>1
  <2>3. ASSUME NEW i \in DOMAIN pending' PROVE conn'[pending'[i]] = "queued"
    <3>1. pending[i + 1] \in Conns \ {c} /\ conn[pending[i + 1]] = "queued"
      BY <1>1, <1>2, <1>3, <2>2 DEF OneEach
    <3> QED BY <1>6, <2>2, <3>1
  <2>4. ASSUME NEW i \in DOMAIN pending', NEW j \in DOMAIN pending', pending'[i] = pending'[j]
        PROVE  i = j
    <3>1. i + 1 = j + 1
      BY <1>1, <2>2, <2>4 DEF OneEach
    <3> QED BY <2>1, <3>1
  <2>5. ASSUME NEW g \in Fds, owner'[g] # Nil PROVE conn'[owner'[g]] \in {"open", "fin", "gone"}
    <3>1. CASE g = f
      BY <1>6, <3>1
    <3>2. CASE g # f
      BY <1>1, <1>4, <1>5, <1>6, <2>5, <3>2 DEF OneEach
    <3> QED BY <3>1, <3>2
  <2>6. ASSUME NEW g \in Fds, NEW h \in Fds, owner'[g] # Nil, owner'[g] = owner'[h]
        PROVE  g = h
    BY <1>1, <1>5, <1>6, <2>6 DEF OneEach
  <2> QED BY <1>4, <2>1, <2>3, <2>4, <2>5, <2>6 DEF OneEach
<1>9. ClientsAreOpen'
  <2>1. EchoTypeOK'
    <3>1. owner' \in [Fds -> Conns \cup {Nil}]
      BY <1>4
    <3>2. conn' \in [Conns -> {"away", "queued", "open", "fin", "gone", "closed"}]
      BY <1>4
    <3>3. /\ events' \subseteq {<<0, "in">>} \cup (Fds \X {"in", "out"})
          /\ clients' \cup out' \cup shut' \subseteq Fds /\ pc' \in {"run", "ended", "killed"}
      BY <1>1, <1>4 DEF EchoTypeOK
    <3> QED BY <3>1, <3>2, <3>3 DEF EchoTypeOK
  <2>2. \A g \in clients' : owner'[g] # Nil
    BY <1>1, <1>4, <1>6 DEF ClientsAreOpen, EchoTypeOK
  <2>3. mode' # "user" => clients' = {g \in Fds : owner'[g] # Nil}
    <3>1. ASSUME mode # "user" PROVE clients = {g \in Fds : owner[g] # Nil}
      BY <1>1, <3>1 DEF ClientsAreOpen
    <3> QED BY <1>1, <1>4, <1>6, <3>1
  <2>4. ASSUME NEW g \in Fds \ clients', owner'[g] # Nil
        PROVE  conn'[owner'[g]] \in {"fin", "gone"}
    <3>1. g # f /\ g \in Fds \ clients /\ owner'[g] = owner[g]
      BY <1>4, <1>6
    <3>2. owner[g] \in Conns \ {c} /\ conn[owner[g]] \in {"fin", "gone"}
      BY <1>1, <1>4, <1>5, <2>4, <3>1 DEF ClientsAreOpen
    <3> QED BY <1>6, <3>1, <3>2
  <2> QED BY <2>1, <2>2, <2>3, <2>4 DEF ClientsAreOpen
<1>10. InLine'
  <2>1. ASSUME NEW d \in Conns PROVE Back(d)' /\ Unread(d)'
    <3>1. Back(d) /\ Unread(d)
      BY <1>1 DEF InLine
    <3> QED BY <1>4, <3>1 DEF Back, Unread, Ordered, Before, Upto
  <2>2. DOMAIN buf = Fds
    BY <1>1 DEF EchoTypes
  <2>3. buf'[f] = <<>>
    <3>1. CASE mode = "user"
      BY <1>1, <1>4, <3>1 DEF InLine
    <3>2. CASE mode # "user"
      BY <1>4, <2>2, <3>2
    <3> QED BY <3>1, <3>2
  <2>4. \A g \in Fds \ {f} : buf'[g] = buf[g]
    <3>1. CASE mode = "user"
      BY <1>4, <3>1
    <3>2. CASE mode # "user"
      BY <1>4, <2>2, <3>2
    <3> QED BY <3>1, <3>2
  <2>5. ASSUME NEW g \in Fds, owner'[g] # Nil PROVE Held(g)'
    <3>1. CASE g = f
      <4>1. buf'[g] = <<>>
        BY <2>3, <3>1
      <4>2. <<>> \in Seq(Messages(owner'[g]))
        BY NoneInOrder
      <4> QED BY <4>1, <4>2 DEF Held, Ordered, Before, Upto
    <3>2. CASE g # f
      <4>1. Held(g) /\ owner'[g] = owner[g] /\ buf'[g] = buf[g]
        BY <1>1, <1>6, <2>4, <2>5, <3>2 DEF InLine
      <4> QED BY <1>4, <4>1 DEF Held, Ordered, Before, Upto
    <3> QED BY <3>1, <3>2
  <2>6. ASSUME NEW g \in Fds, owner'[g] = Nil, mode' = "user" PROVE buf'[g] = <<>>
    <3>1. g # f
      BY <1>1, <1>6, <2>6
    <3>2. owner[g] = Nil /\ buf'[g] = buf[g] /\ mode = "user"
      BY <1>4, <1>6, <2>4, <2>6, <3>1
    <3> QED BY <1>1, <3>2 DEF InLine
  <2> QED BY <2>1, <2>5, <2>6 DEF InLine
<1> QED BY <1>7, <1>8, <1>9, <1>10 DEF EchoInv

\* closeClient(): with the descriptor the client and its messages are gone.
LEMMA CloseKeeps ==
    ASSUME EchoInv, NEW f \in Fds, owner[f] # Nil, CloseClient(f),
           mode # "user", UNCHANGED <<sent, fromServer, mode, pc, pending, buf, out, shut>>,
           events' \subseteq {<<0, "in">>} \cup (Fds \X {"in", "out"}),
           <<0, "in">> \in events' => pending # <<>>
    PROVE  EchoInv'
<1>1. EchoTypes /\ OneEach /\ InLine /\ ClientsAreOpen /\ EchoTypeOK /\ Nil \notin Conns
  BY DEF EchoInv, ClientsAreOpen
<1>2. PICK c \in Conns : owner[f] = c
  BY <1>1 DEF EchoTypeOK
<1>3. /\ owner' = [owner EXCEPT ![f] = Nil] /\ conn' = [conn EXCEPT ![c] = "closed"]
      /\ toServer' = [toServer EXCEPT ![c] = <<>>] /\ clients' = clients \ {f}
      /\ conn \in [Conns -> {"away", "queued", "open", "fin", "gone", "closed"}]
      /\ owner \in [Fds -> Conns \cup {Nil}] /\ DOMAIN toServer = Conns
  BY <1>1, <1>2 DEF CloseClient, EchoTypeOK, EchoTypes
<1>4. /\ owner'[f] = Nil /\ toServer'[c] = <<>>
      /\ \A g \in Fds \ {f} : owner'[g] = owner[g] /\ owner[g] # c
      /\ \A d \in Conns \ {c} : conn'[d] = conn[d] /\ toServer'[d] = toServer[d]
  BY <1>1, <1>2, <1>3 DEF OneEach
<1>5. EchoTypes'
  BY <1>1, <1>3 DEF EchoTypes
<1>6. OneEach'
  <2>1. \A i \in DOMAIN pending : pending[i] \in Conns \ {c}
    <3> TAKE i \in DOMAIN pending
    <3>1. pending \in Seq(Conns) /\ conn[pending[i]] = "queued"
      BY <1>1 DEF OneEach
    <3>2. pending[i] \in Conns
      BY <3>1
    <3>3. conn[c] # "queued"
      BY <1>1, <1>2 DEF OneEach
    <3> QED BY <3>1, <3>2, <3>3
  <2>2. \A i \in DOMAIN pending : conn'[pending[i]] = "queued"
    BY <1>1, <1>4, <2>1 DEF OneEach
  <2>3. ASSUME NEW g \in Fds, owner'[g] # Nil PROVE conn'[owner'[g]] \in {"open", "fin", "gone"}
    <3>1. g # f /\ owner'[g] = owner[g] /\ owner[g] \in Conns \ {c}
      BY <1>3, <1>4, <2>3
    <3> QED BY <1>1, <1>4, <2>3, <3>1 DEF OneEach
  <2>4. ASSUME NEW g \in Fds, NEW h \in Fds, owner'[g] # Nil, owner'[g] = owner'[h]
        PROVE  g = h
    <3>1. g # f /\ h # f
      BY <1>4, <2>4
    <3>2. owner[g] # Nil /\ owner[g] = owner[h]
      BY <1>4, <2>4, <3>1
    <3> QED BY <1>1, <3>2 DEF OneEach
  <2> QED BY <1>1, <2>2, <2>3, <2>4 DEF OneEach
<1>7. ClientsAreOpen'
  <2>1. EchoTypeOK'
    <3>1. owner' \in [Fds -> Conns \cup {Nil}]
      BY <1>3
    <3>2. conn' \in [Conns -> {"away", "queued", "open", "fin", "gone", "closed"}]
      BY <1>3
    <3>3. clients' \cup out' \cup shut' \subseteq Fds /\ pc' \in {"run", "ended", "killed"}
      BY <1>1, <1>3 DEF EchoTypeOK
    <3> QED BY <3>1, <3>2, <3>3 DEF EchoTypeOK
  <2>2. clients = {g \in Fds : owner[g] # Nil}
    BY <1>1 DEF ClientsAreOpen
  <2>3. clients' = {g \in Fds : owner'[g] # Nil}
    BY <1>3, <1>4, <2>2
  <2> QED BY <2>1, <2>3 DEF ClientsAreOpen
<1>8. InLine'
  <2>1. ASSUME NEW d \in Conns PROVE Back(d)' /\ Unread(d)'
    <3>1. Back(d) /\ Unread(d)
      BY <1>1 DEF InLine
    <3>2. CASE d = c
      <4>1. toServer'[d] = <<>> /\ <<>> \in Seq(Messages(d))
        BY <1>4, <3>2, NoneInOrder
      <4> QED BY <3>1, <4>1 DEF Back, Unread, Ordered, Before, Upto
    <3>3. CASE d # c
      <4>1. toServer'[d] = toServer[d]
        BY <1>4, <3>3
      <4> QED BY <3>1, <4>1 DEF Back, Unread, Ordered, Before, Upto
    <3> QED BY <3>2, <3>3
  <2>2. ASSUME NEW g \in Fds, owner'[g] # Nil PROVE Held(g)'
    <3>1. g # f /\ owner'[g] = owner[g] /\ owner[g] \in Conns \ {c} /\ Held(g)
      BY <1>1, <1>3, <1>4, <2>2 DEF InLine
    <3>2. PICK d \in Conns \ {c} : owner[g] = d
      BY <3>1
    <3>3. toServer'[d] = toServer[d] /\ owner'[g] = d
      BY <1>4, <3>1, <3>2
    <3> QED BY <3>1, <3>2, <3>3 DEF Held, Ordered, Before, Upto
  <2> QED BY <2>1, <2>2 DEF InLine
<1> QED BY <1>5, <1>6, <1>7, <1>8 DEF EchoInv

LEMMA ReadEndStep ==
    ASSUME EchoInv, NEW f \in Fds, ReadEnd(f)
    PROVE  EchoInv'
<1>1. /\ owner[f] # Nil /\ CloseClient(f) /\ mode # "user" /\ Handle(f, "in")
      /\ UNCHANGED <<sent, fromServer, mode, pc, pending, buf, out, shut>>
  BY DEF ReadEnd, AtEnd
<1> QED BY <1>1, HandleShrinks, CloseKeeps

\* The n messages that read() takes from f are added to what is held, text: it
\* is in front of what is left, t, and behind all that came back.
Cut(f, n, c, text, t) ==
    /\ text = buf[f] \o Got(f, n) /\ toServer'[c] = t
    /\ \A d \in Conns \ {c} : toServer'[d] = toServer[d]
    /\ DOMAIN toServer' = Conns
    /\ Ordered(text) /\ Ordered(t) /\ Before(text, t)
    /\ Before(fromServer[c], text) /\ Before(fromServer[c], t)
    /\ Upto(text, sent[c]) /\ Upto(t, sent[c])

LEMMA TakesCuts ==
    ASSUME EchoInv, NEW f \in Fds, NEW c \in Conns, owner[f] = c, Nil \notin Conns,
           NEW n \in Nat, Takes(f, n)
    PROVE  \E text \in Seq(Messages(c)), t \in Seq(Messages(c)) : Cut(f, n, c, text, t)
<1>1. InLine /\ EchoTypes
  BY DEF EchoInv
<1>2. Back(c) /\ Unread(c) /\ Held(f)
  BY <1>1 DEF InLine
<1>3. PICK s0 \in Seq(Messages(c)), t0 \in Seq(Messages(c)), b0 \in Seq(Messages(c)), n0 \in Nat :
         s0 = fromServer[c] /\ t0 = toServer[c] /\ b0 = buf[f] /\ n0 = sent[c]
  BY <1>1, <1>2 DEF Back, Unread, Held, EchoTypes
<1>4. /\ Ordered(t0) /\ Before(s0, t0) /\ Upto(t0, n0)
      /\ Ordered(b0) /\ Before(s0, b0) /\ Before(b0, t0) /\ Upto(b0, n0)
  BY <1>2, <1>3 DEF Unread, Held
<1>5. n \in 0 .. Len(t0) /\ toServer' = [toServer EXCEPT ![c] = SubSeq(t0, n + 1, Len(t0))]
  BY <1>3 DEF Takes
<1>6. PICK p \in Seq(Messages(c)), t \in Seq(Messages(c)) :
         p = SubSeq(t0, 1, n) /\ t = SubSeq(t0, n + 1, Len(t0))
  BY <1>4, <1>5, CutInOrder
<1>7. /\ Ordered(p) /\ Ordered(t) /\ Before(p, t) /\ Upto(p, n0) /\ Upto(t, n0)
      /\ Before(s0, p) /\ Before(s0, t) /\ Before(b0, p) /\ Before(b0, t)
  BY <1>4, <1>5, <1>6, CutInOrder
<1>8. PICK text \in Seq(Messages(c)) : text = b0 \o p
  BY <1>4, <1>7, JoinedInOrder
<1>9. Ordered(text) /\ Before(text, t) /\ Before(s0, text) /\ Upto(text, n0)
  BY <1>4, <1>7, <1>8, JoinedInOrder
<1>10. text = buf[f] \o Got(f, n)
  BY <1>3, <1>6, <1>8 DEF Got
<1>11. /\ toServer'[c] = t /\ DOMAIN toServer' = Conns
       /\ \A d \in Conns \ {c} : toServer'[d] = toServer[d]
  BY <1>1, <1>5, <1>6 DEF EchoTypes
<1>12. Cut(f, n, c, text, t)
  BY <1>3, <1>7, <1>9, <1>10, <1>11 DEF Cut
<1> QED BY <1>12

LEMMA DeliverTypes ==
    ASSUME EchoTypes, EchoTypeOK, NEW f \in Fds, NEW text, Deliver(f, text)
    PROVE  /\ DOMAIN fromServer' = Conns /\ DOMAIN buf' = Fds
           /\ pc' \in {"run", "ended", "killed"}
<1>1. DOMAIN fromServer = Conns /\ DOMAIN buf = Fds /\ pc \in {"run", "ended", "killed"}
  BY DEF EchoTypes, EchoTypeOK
<1>2. DOMAIN fromServer' = Conns
  BY <1>1 DEF Deliver
<1>3. DOMAIN buf' = Fds
  BY <1>1 DEF Deliver
<1>4. pc' \in {pc, "killed"}
  BY DEF Deliver
<1> QED BY <1>1, <1>2, <1>3, <1>4

LEMMA ReadAndResponseStep ==
    ASSUME EchoInv, NEW f \in Fds, NEW n \in Nat,
           readAndResponseSocket(f, n)
    PROVE  EchoInv'
<1>1. EchoTypes /\ OneEach /\ InLine /\ ClientsAreOpen /\ EchoTypeOK /\ Nil \notin Conns
  BY DEF EchoInv, ClientsAreOpen
<1>2. /\ mode # "user" /\ owner[f] # Nil /\ Handle(f, "in")
      /\ UNCHANGED <<sent, mode, pending, out, shut>>
  BY DEF readAndResponseSocket
<1>3. CASE CloseClient(f) /\ UNCHANGED <<fromServer, pc, buf>>
  BY <1>2, <1>3, HandleShrinks, CloseKeeps
<1>4. CASE /\ Takes(f, n) /\ Deliver(f, buf[f] \o Got(f, n))
           /\ UNCHANGED <<conn, owner, clients>>
  <2>1. PICK c \in Conns : owner[f] = c
    BY <1>1, <1>2 DEF EchoTypeOK
  <2>2. PICK text \in Seq(Messages(c)), t \in Seq(Messages(c)) : Cut(f, n, c, text, t)
    BY <1>1, <1>4, <2>1, TakesCuts
  <2>3. Deliver(f, text)
    BY <1>4, <2>2 DEF Cut
  <2>4. InLine'
    BY <1>1, <1>2, <1>4, <2>1, <2>2, <2>3, DeliverInLine DEF Cut
  <2>5. EchoTypes' /\ pc' \in {"run", "ended", "killed"}
    BY <1>1, <1>2, <2>2, <2>3, DeliverTypes DEF EchoTypes, Cut
  <2>6. out' \subseteq Fds /\ shut' \subseteq Fds /\ clients' = clients
    BY <1>1, <1>2, <1>4 DEF EchoTypeOK
  <2> QED BY <1>2, <1>4, <2>4, <2>5, <2>6, HandleShrinks, SameOwners
<1> QED BY <1>3, <1>4 DEF readAndResponseSocket

LEMMA ReadSocketStep ==
    ASSUME EchoInv, NEW f \in Fds, NEW n \in Nat, readSocket(f, n)
    PROVE  EchoInv'
<1>1. EchoTypes /\ OneEach /\ InLine /\ ClientsAreOpen /\ EchoTypeOK /\ Nil \notin Conns
  BY DEF EchoInv, ClientsAreOpen
<1>2. /\ mode = "user" /\ f \in clients /\ Handle(f, "in")
      /\ UNCHANGED <<conn, sent, fromServer, mode, pc, owner, pending>>
  BY DEF readSocket
<1>3. PICK c \in Conns : owner[f] = c
  BY <1>1, <1>2 DEF EchoTypeOK, ClientsAreOpen
<1>4. DOMAIN buf = Fds /\ pc \in {"run", "ended", "killed"}
  BY <1>1 DEF EchoTypes, EchoTypeOK
<1>5. PICK s \in Seq(Messages(c)) : s = fromServer[c] /\ Ordered(s) /\ Upto(s, sent[c])
  BY <1>1 DEF InLine, Back
<1>6. CASE /\ Takes(f, n) /\ buf' = [buf EXCEPT ![f] = @ \o Got(f, n)]
           /\ out' \in {out, out \cup {f}} /\ shut' \in {shut, shut \cup {f}}
           /\ UNCHANGED clients
  <2>1. PICK text \in Seq(Messages(c)), t \in Seq(Messages(c)) : Cut(f, n, c, text, t)
    BY <1>1, <1>3, <1>6, TakesCuts
  <2>2. /\ buf'[f] = text /\ DOMAIN buf' = Fds
        /\ \A g \in Fds \ {f} : buf'[g] = buf[g]
    BY <1>4, <1>6, <2>1 DEF Cut
  <2>3. /\ fromServer'[c] = s /\ Before(s, text) /\ Before(s, t)
        /\ \A d \in Conns \ {c} : fromServer'[d] = fromServer[d] /\ toServer'[d] = toServer[d]
    BY <1>2, <1>5, <2>1 DEF Cut
  <2>4. InLine'
    BY <1>1, <1>2, <1>3, <1>5, <2>1, <2>2, <2>3, LineKept DEF Cut
  <2>5. EchoTypes'
    BY <1>1, <1>2, <2>1, <2>2 DEF EchoTypes, Cut
  <2>6. out' \subseteq Fds /\ shut' \subseteq Fds
    BY <1>1, <1>6 DEF EchoTypeOK
  <2> QED BY <1>2, <1>4, <1>6, <2>4, <2>5, <2>6, HandleShrinks, SameOwners
<1>7. CASE /\ AtEnd(f) /\ clients' = clients \ {f} /\ buf' = [buf EXCEPT ![f] = <<>>]
           /\ UNCHANGED <<toServer, out, shut>>
  <2>1. PICK t \in Seq(Messages(c)), b \in Seq(Messages(c)) :
           t = toServer[c] /\ Ordered(t) /\ Before(s, t) /\ Upto(t, sent[c]) /\ b = <<>>
    BY <1>1, <1>5, NoneInOrder DEF InLine, Unread
  <2>2. Ordered(b) /\ Before(s, b) /\ Before(b, t) /\ Upto(b, sent[c])
    BY <2>1, NoneInOrder
  <2>3. /\ buf'[f] = b /\ DOMAIN buf' = Fds
        /\ \A g \in Fds \ {f} : buf'[g] = buf[g]
    BY <1>4, <1>7, <2>1
  <2>4. /\ fromServer'[c] = s /\ toServer'[c] = t
        /\ \A d \in Conns \ {c} : fromServer'[d] = fromServer[d] /\ toServer'[d] = toServer[d]
    BY <1>2, <1>5, <1>7, <2>1
  <2>5. InLine'
    BY <1>1, <1>2, <1>3, <1>5, <2>1, <2>2, <2>3, <2>4, LineKept
  <2>6. EchoTypes'
    BY <1>1, <1>2, <1>7, <2>3 DEF EchoTypes
  <2>7. out' \subseteq Fds /\ shut' \subseteq Fds
    BY <1>1, <1>7 DEF EchoTypeOK
  <2>8. conn[owner[f]] \in {"fin", "gone"} /\ clients \ clients' \subseteq {f}
    BY <1>7 DEF AtEnd
  <2> QED BY <1>2, <1>4, <1>7, <2>5, <2>6, <2>7, <2>8, HandleShrinks, SameOwners
<1> QED BY <1>6, <1>7 DEF readSocket

LEMMA WriteSocketStep ==
    ASSUME EchoInv, NEW f \in Fds, writeSocket(f)
    PROVE  EchoInv'
<1>1. EchoTypes /\ OneEach /\ InLine /\ ClientsAreOpen /\ EchoTypeOK /\ Nil \notin Conns
  BY DEF EchoInv, ClientsAreOpen
<1>2. /\ f \in clients /\ Handle(f, "out") /\ out' = out \ {f} /\ Deliver(f, buf[f])
      /\ UNCHANGED <<conn, sent, toServer, mode, owner, pending, clients, shut>>
  BY DEF writeSocket
<1>3. PICK c \in Conns : owner[f] = c
  BY <1>1, <1>2 DEF EchoTypeOK, ClientsAreOpen
<1>4. PICK text \in Seq(Messages(c)), t \in Seq(Messages(c)) : text = buf[f] /\ t = toServer[c]
  BY <1>1, <1>3 DEF InLine, Unread, Held
<1>5. /\ Ordered(text) /\ Ordered(t) /\ Before(text, t)
      /\ Before(fromServer[c], text) /\ Before(fromServer[c], t)
      /\ Upto(text, sent[c]) /\ Upto(t, sent[c])
  BY <1>1, <1>3, <1>4 DEF InLine, Unread, Held
<1>6. /\ toServer'[c] = t /\ Deliver(f, text)
      /\ \A d \in Conns \ {c} : toServer'[d] = toServer[d]
  BY <1>2, <1>4
<1>7. InLine'
  BY <1>1, <1>2, <1>3, <1>5, <1>6, DeliverInLine
<1>8. EchoTypes' /\ pc' \in {"run", "ended", "killed"}
  BY <1>1, <1>2, DeliverTypes DEF EchoTypes
<1>9. out' \subseteq Fds /\ shut' \subseteq Fds
  BY <1>1, <1>2 DEF EchoTypeOK
<1> QED BY <1>2, <1>7, <1>8, <1>9, HandleShrinks, SameOwners

LEMMA EchoStep == EchoInv /\ [EchoNext]_echoVars => EchoInv'
<1> SUFFICES ASSUME EchoInv, [EchoNext]_echoVars PROVE EchoInv'
  OBVIOUS
<1>1. ASSUME NEW c \in Conns,
             Arrives(c) \/ Send(c) \/ HangUp(c, "fin") \/ HangUp(c, "gone")
      PROVE  EchoInv'
  BY <1>1, ClientConnects, ClientSends, ClientHangsUp
<1>2. ASSUME NEW f \in Fds,
             Accept(f) \/ ReadNothing(f) \/ ReadEnd(f) \/ writeSocket(f)
      PROVE  EchoInv'
  BY <1>2, AcceptStep, QuietStep, ReadEndStep, WriteSocketStep
<1>3. ASSUME NEW f \in Fds, NEW n \in 1 .. Longest,
             readAndResponseSocket(f, n) \/ readSocket(f, n)
      PROVE  EchoInv'
  <2>1. n \in Nat
    OBVIOUS
  <2> QED BY <1>3, <2>1, ReadAndResponseStep, ReadSocketStep
<1>4. CASE Wait \/ AcceptFails \/ UNCHANGED echoVars
  BY <1>4, QuietStep
<1> QED BY <1>1, <1>2, <1>3, <1>4 DEF EchoNext, Server

\* The inductive invariant holds in every state.
THEOREM EchoInvariance == EchoSpec => []EchoInv
BY EchoInitEstablishes, EchoStep, PTL DEF EchoSpec

\* The descriptors of a server that sends back what it reads, and the entries it
\* has for its clients, stay together, for any number of both.
THEOREM ClientsAreOpenCorrect == EchoSpec => []ClientsAreOpen
<1>1. EchoInv => ClientsAreOpen
  BY DEF EchoInv
<1> QED BY <1>1, EchoInvariance, PTL

\* A client gets back its own messages only, in the order it sent them and none
\* twice, for any numbers of clients, descriptors and messages.
THEOREM EchoInOrderCorrect == EchoSpec => []EchoInOrder
<1>1. EchoInv => EchoInOrder
  <2> SUFFICES ASSUME EchoInv, NEW c \in Conns
               PROVE  LET back == fromServer[c] IN
                      /\ \A i \in DOMAIN back : back[i][1] = c
                      /\ \A i, j \in DOMAIN back : i < j => back[i][2] < back[j][2]
    BY DEF EchoInOrder
  <2>1. fromServer[c] \in Seq(Messages(c)) /\ Ordered(fromServer[c])
    BY DEF EchoInv, InLine, Back
  <2>2. \A i \in DOMAIN fromServer[c] : fromServer[c][i] \in Messages(c)
    BY <2>1
  <2>3. \A i \in DOMAIN fromServer[c] : fromServer[c][i][1] = c
    BY <2>2 DEF Messages
  <2> QED BY <2>1, <2>3 DEF Ordered
<1> QED BY <1>1, EchoInvariance, PTL
=============================================================================
