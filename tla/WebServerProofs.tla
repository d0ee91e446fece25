--------------------------- MODULE WebServerProofs --------------------------
(***************************************************************************)
(* What WebServer promises for any number of connections, descriptors and  *)
(* workers and any TIMEOUT: every open connection is watched by a timer of *)
(* its own, so that silence is bounded, and run() follows the pointer to a *)
(* freed timer only after a tick in the same batch.                        *)
(*                                                                         *)
(* The timers of closed connections are the difficulty: they stay in the   *)
(* wheel and close descriptors that belong to others by then.  What keeps  *)
(* OpenIsWatched true is that users[f] only knows timers made for f        *)
(* (KnownTimers), and that a connection is accepted once (BacklogOK).      *)
(***************************************************************************)
EXTENDS WebServer, TLAPS

\* A descriptor's connection is open.
OwnersAreOpen == \A f \in Fds : owner[f] # Nil => client[owner[f]] = "open"

\* The backlog holds queued connections, each once.
BacklogOK ==
    /\ \A i \in DOMAIN backlog : client[backlog[i]] = "queued"
    /\ \A i, j \in DOMAIN backlog : backlog[i] = backlog[j] => i = j

\* users[f] knows only timers of connections that were accepted, and only
\* timers made for f unless they are freed.
KnownTimers ==
    \A f \in Fds : m_pTimer[f] # Nil =>
        /\ client[m_pTimer[f]] \in {"open", "closed"}
        /\ left[m_pTimer[f]] # -1 => timerfd[m_pTimer[f]] = f

\* Silence is counted from the accept on.
SilenceStarts == \A c \in Conns : client[c] \in {"away", "queued"} => silent[c] = 0

Watch == /\ OpenIsWatched /\ ArmedIsOpen /\ OwnersAreOpen /\ BacklogOK /\ KnownTimers
         /\ SilenceStarts

IInv == TypeOK /\ Watch /\ FreedTimerOnlyAfterTick /\ SilenceBound /\ OneAlarm

USE ServerAssumption

-----------------------------------------------------------------------------
\* At the start nothing is open and the alarm is set.
LEMMA InitEstablishes == Init => IInv
<1> SUFFICES ASSUME Init PROVE IInv
  OBVIOUS
<1> USE DEF Init
<1>1. TypeOK
  <2>1. /\ client \in [Conns -> {"away", "queued", "open", "closed"}]
        /\ pending \in [Conns -> BOOLEAN] /\ hup \in [Conns -> BOOLEAN]
    OBVIOUS
  <2>2. owner \in [Fds -> Conns \cup {Nil}] /\ armed \in [Fds -> {"off", "spent", "in", "out"}]
    OBVIOUS
  <2>3. backlog \in Seq(Conns) /\ m_workqueue \in Seq(Fds)
    <3>1. \A S : <<>> \in Seq(S)
      OBVIOUS
    <3> QED BY <3>1
  <2>4. /\ edges \subseteq {listenfd, sig_pipefd} /\ pipe \subseteq {"SIGALRM", "SIGTERM"}
        /\ alarm \in BOOLEAN /\ stop_server \in BOOLEAN /\ ticked \in BOOLEAN
        /\ batch \subseteq (Fds \cup {listenfd, sig_pipefd}) \X {"in", "out", "hup"}
        /\ pc \in {"run", "stopped", "undefined"}
    OBVIOUS
  <2>5. m_sockfd \in [Fds -> Fds \cup {Nil}] /\ m_pTimer \in [Fds -> Conns \cup {Nil}]
    OBVIOUS
  <2>6. /\ timerfd \in [Conns -> Fds \cup {Nil}]
        /\ left \in [Conns -> -1 .. TIMEOUT] /\ silent \in [Conns -> 0 .. TIMEOUT + 1]
    OBVIOUS
  <2>7. /\ job \in [Workers -> Fds \cup {Nil}]
        /\ wpc \in [Workers -> {"idle", "process", "closing", "closed"}]
    OBVIOUS
  <2> QED BY <2>1, <2>2, <2>3, <2>4, <2>5, <2>6, <2>7 DEF TypeOK
<1>2. Watch
  BY DEF Watch, OpenIsWatched, ArmedIsOpen, OwnersAreOpen, BacklogOK, KnownTimers, SilenceStarts
<1>3. FreedTimerOnlyAfterTick /\ SilenceBound /\ OneAlarm
  BY DEF FreedTimerOnlyAfterTick, SilenceBound, OneAlarm
<1> QED BY <1>1, <1>2, <1>3 DEF IInv

\* What closing descriptors leaves of the table and of the clients.
LEMMA CloseEffect ==
    ASSUME IInv, NEW S, CloseFds(S)
    PROVE  /\ client' \in [Conns -> {"away", "queued", "open", "closed"}]
           /\ pending' \in [Conns -> BOOLEAN]
           /\ hup' \in [Conns -> BOOLEAN]
           /\ owner' \in [Fds -> Conns \cup {Nil}]
           /\ armed' \in [Fds -> {"off", "spent", "in", "out"}]
           /\ \A f \in Fds : owner'[f] # Nil => owner'[f] = owner[f] /\ f \notin S
           /\ \A c \in Conns : client'[c] = client[c] \/ (client[c] = "open" /\ client'[c] = "closed")
           /\ ArmedIsOpen'
           /\ OwnersAreOpen'
<1>0. /\ client \in [Conns -> {"away", "queued", "open", "closed"}]
      /\ pending \in [Conns -> BOOLEAN] /\ hup \in [Conns -> BOOLEAN]
      /\ owner \in [Fds -> Conns \cup {Nil}]
      /\ armed \in [Fds -> {"off", "spent", "in", "out"}]
      /\ OpenIsWatched /\ ArmedIsOpen /\ OwnersAreOpen
  BY DEF IInv, TypeOK, Watch
<1>1. /\ client' \in [Conns -> {"away", "queued", "open", "closed"}]
      /\ pending' \in [Conns -> BOOLEAN] /\ hup' \in [Conns -> BOOLEAN]
  BY <1>0 DEF CloseFds
<1>2. /\ owner' \in [Fds -> Conns \cup {Nil}]
      /\ armed' \in [Fds -> {"off", "spent", "in", "out"}]
  BY <1>0 DEF CloseFds
<1>3. \A f \in Fds : owner'[f] # Nil => owner'[f] = owner[f] /\ f \notin S
  BY DEF CloseFds
<1>4. \A c \in Conns : client'[c] = client[c] \/ (client[c] = "open" /\ client'[c] = "closed")
  BY <1>0 DEF CloseFds, Behind, OwnersAreOpen
<1>5. ArmedIsOpen'
  BY <1>0 DEF CloseFds, ArmedIsOpen
<1>6. OwnersAreOpen'
  <2> SUFFICES ASSUME NEW f \in Fds, owner'[f] # Nil PROVE client'[owner'[f]] = "open"
    BY DEF OwnersAreOpen
  <2>1. owner'[f] = owner[f] /\ f \notin S /\ owner[f] \in Conns /\ client[owner[f]] = "open"
    BY <1>0, <1>3 DEF OwnersAreOpen
  <2>2. owner[f] \notin Behind(S)
    BY <1>0, <2>1 DEF Behind, OpenIsWatched
  <2> QED BY <2>1, <2>2 DEF CloseFds
<1> QED BY <1>1, <1>2, <1>3, <1>4, <1>5, <1>6

\* Where connections are only closed, the backlog and what is known of the
\* clients are as sound as before.
LEMMA ClientsAfterClose ==
    ASSUME IInv, NEW S, CloseFds(S), UNCHANGED backlog
    PROVE  /\ BacklogOK'
           /\ \A c \in Conns : client[c] \in {"open", "closed"} => client'[c] \in {"open", "closed"}
           /\ \A c \in Conns : client'[c] \in {"away", "queued"} => client[c] \in {"away", "queued"}
<1>1. \A c \in Conns : client'[c] = client[c] \/ (client[c] = "open" /\ client'[c] = "closed")
  BY CloseEffect
<1>2. \A i \in DOMAIN backlog : backlog[i] \in Conns
  BY DEF IInv, TypeOK
<1> QED BY <1>1, <1>2 DEF BacklogOK, IInv, Watch

\* Steps that leave the connections alone, but for what they wait for.
LEMMA WatchKept ==
    ASSUME IInv,
           UNCHANGED <<client, owner, backlog, m_pTimer, timerfd, left, silent>>,
           \A f \in Fds : (armed'[f] = "off") <=> (armed[f] = "off")
    PROVE  Watch' /\ SilenceBound'
<1>1. OpenIsWatched' /\ OwnersAreOpen' /\ BacklogOK' /\ KnownTimers' /\ SilenceStarts'
  BY DEF IInv, Watch, OpenIsWatched, OwnersAreOpen, BacklogOK, KnownTimers, SilenceStarts
<1>2. ArmedIsOpen'
  BY DEF IInv, Watch, ArmedIsOpen
<1>3. SilenceBound'
  BY DEF IInv, SilenceBound
<1> QED BY <1>1, <1>2, <1>3 DEF Watch

\* A step that lets the batch shrink and frees no timer keeps FreedTimerOnlyAfterTick.
LEMMA FreedKept ==
    ASSUME IInv, UNCHANGED <<ticked, m_pTimer, left>>,
           pc' \in {pc, "stopped"}, batch' \subseteq batch
    PROVE  FreedTimerOnlyAfterTick'
BY DEF IInv, FreedTimerOnlyAfterTick, IsFreed

\* A step that leaves the clock alone keeps OneAlarm.
LEMMA AlarmKept ==
    ASSUME IInv, UNCHANGED <<alarm, pipe>>, Running' => Running
    PROVE  OneAlarm'
BY DEF IInv, OneAlarm

\* modfd() keeps the registrations in their type, and closed descriptors out.
LEMMA ModfdType ==
    ASSUME TypeOK, NEW f, NEW ev \in {"in", "out"}, armed' = Modfd(f, ev)
    PROVE  /\ armed' \in [Fds -> {"off", "spent", "in", "out"}]
           /\ \A g \in Fds : (armed'[g] = "off") <=> (armed[g] = "off")
<1>1. armed \in [Fds -> {"off", "spent", "in", "out"}]
  BY DEF TypeOK
<1>2. CASE armed' = armed
  BY <1>1, <1>2
<1>3. CASE armed[f] # "off" /\ armed' = [armed EXCEPT ![f] = ev]
  BY <1>1, <1>3
<1> QED BY <1>2, <1>3 DEF Modfd

-----------------------------------------------------------------------------
\* The clients and the signals.

\* A connection that queues up touches no descriptor.
LEMMA ConnectStep ==
    ASSUME IInv, NEW c \in Conns, Connect(c)
    PROVE  IInv'
<1>1. TypeOK /\ Watch
  BY DEF IInv
<1>2. TypeOK'
  BY <1>1 DEF TypeOK, Connect, reactor, users, wheel, pool
<1>3. \A d \in Conns \ {c} : client'[d] = client[d]
  BY <1>1 DEF Connect, TypeOK
<1>4. client[c] = "away" /\ client'[c] = "queued"
  BY <1>1 DEF Connect, TypeOK
<1>5. OpenIsWatched' /\ ArmedIsOpen'
  BY <1>1 DEF Watch, OpenIsWatched, ArmedIsOpen, Connect, users, wheel
<1>6. OwnersAreOpen' /\ KnownTimers' /\ SilenceStarts'
  BY <1>1, <1>3, <1>4 DEF Watch, OwnersAreOpen, KnownTimers, SilenceStarts, Connect, users, wheel, TypeOK
<1>7. BacklogOK'
  <2>1. backlog \in Seq(Conns) /\ backlog' = Append(backlog, c)
    BY <1>1 DEF TypeOK, Connect
  <2>2. \A i \in DOMAIN backlog : backlog[i] \in Conns /\ backlog[i] # c
    BY <1>1, <1>4, <2>1 DEF Watch, BacklogOK
  <2> QED BY <1>1, <1>3, <1>4, <2>1, <2>2 DEF Watch, BacklogOK
<1>8. FreedTimerOnlyAfterTick' /\ OneAlarm' /\ SilenceBound'
  BY FreedKept, AlarmKept DEF Connect, reactor, users, wheel, Running, SilenceBound, IInv
<1> QED BY <1>2, <1>5, <1>6, <1>7, <1>8 DEF IInv, Watch

\* Data and hang-ups of a client touch no descriptor either.
LEMMA SendStep ==
    ASSUME IInv, NEW c \in Conns, Send(c) \/ HangUp(c)
    PROVE  IInv'
<1>1. TypeOK'
  <2>1. TypeOK
    BY DEF IInv
  <2>2. pending \in [Conns -> BOOLEAN] /\ hup \in [Conns -> BOOLEAN]
    BY <2>1 DEF TypeOK
  <2>3. pending' \in [Conns -> BOOLEAN] /\ hup' \in [Conns -> BOOLEAN]
    <3>1. CASE Send(c)
      BY <2>2, <3>1 DEF Send
    <3>2. CASE HangUp(c)
      BY <2>2, <3>2 DEF HangUp
    <3> QED BY <3>1, <3>2
  <2>4. UNCHANGED <<client, silent, kernel, reactor, users, wheel, pool>>
    BY DEF Send, HangUp
  <2> QED BY <2>1, <2>3, <2>4 DEF TypeOK, kernel, reactor, users, wheel, pool
<1>2. Watch' /\ SilenceBound'
  BY WatchKept DEF Send, HangUp, kernel, reactor, users, wheel
<1>3. FreedTimerOnlyAfterTick' /\ OneAlarm'
  BY FreedKept, AlarmKept DEF Send, HangUp, kernel, reactor, users, wheel, Running
<1> QED BY <1>1, <1>2, <1>3 DEF IInv

\* A signal in the pipe: the alarm rings once, for itself.
LEMMA SignalStep ==
    ASSUME IInv, AlarmRings \/ Terminate
    PROVE  IInv'
<1> USE DEF AlarmRings, Terminate, Signal, clients, reactor, users, wheel, pool
<1>1. TypeOK'
  <2>1. /\ pipe' \subseteq {"SIGALRM", "SIGTERM"} /\ edges' \subseteq {listenfd, sig_pipefd}
        /\ alarm' \in BOOLEAN
    BY DEF IInv, TypeOK
  <2>2. UNCHANGED <<limit, clients, owner, armed, backlog, reactor, users, wheel, pool>>
    OBVIOUS
  <2> QED BY <2>1, <2>2 DEF IInv, TypeOK
<1>2. Watch' /\ SilenceBound'
  BY WatchKept
<1>3. FreedTimerOnlyAfterTick'
  BY FreedKept
<1>4. OneAlarm'
  BY DEF IInv, OneAlarm, Running, TypeOK
<1> QED BY <1>1, <1>2, <1>3, <1>4 DEF IInv

-----------------------------------------------------------------------------
\* The reactor.

\* A batch fetched before the tick names no freed timer: what is armed is open,
\* and what is open is watched.
LEMMA EpollWaitStep ==
    ASSUME IInv, EpollWait
    PROVE  IInv'
<1>1. TypeOK /\ Watch /\ FreedTimerOnlyAfterTick
  BY DEF IInv
<1> DEFINE News    == {x \in edges : IF x = listenfd THEN backlog # <<>> ELSE pipe # {}}
           Gone    == {f \in Fds : armed[f] \in {"in", "out"} /\ hup[owner[f]]}
           Input   == {f \in Fds : armed[f] = "in" /\ pending[owner[f]]} \ Gone
           Waiting == {f \in Fds : armed[f] = "out"} \ Gone
<1>2. PICK Output \in SUBSET Waiting :
        /\ batch' = {<<x, "in">> : x \in News \cup Input} \cup
                    {<<f, "hup">> : f \in Gone} \cup {<<f, "out">> : f \in Output}
        /\ armed' = [f \in Fds |-> IF f \in Gone \cup Input \cup Output THEN "spent" ELSE armed[f]]
  BY Zenon DEF EpollWait
<1>2a. /\ News \subseteq {listenfd, sig_pipefd}
      /\ Gone \subseteq Fds /\ Input \subseteq Fds /\ Output \subseteq Fds
      /\ \A f \in Gone \cup Input \cup Output : armed[f] \in {"in", "out"}
  BY <1>1 DEF TypeOK
<1> HIDE DEF News, Gone, Input, Waiting
<1>3. /\ armed' \in [Fds -> {"off", "spent", "in", "out"}]
      /\ \A f \in Fds : (armed'[f] = "off") <=> (armed[f] = "off")
  BY <1>1, <1>2, <1>2a DEF TypeOK
<1>4. batch' \subseteq (Fds \cup {listenfd, sig_pipefd}) \X {"in", "out", "hup"}
  BY <1>2, <1>2a
<1>5. TypeOK'
  BY <1>1, <1>3, <1>4 DEF TypeOK, EpollWait, clients, users, wheel, pool
<1>6. Watch' /\ SilenceBound'
  BY <1>3, WatchKept DEF EpollWait, clients, users, wheel
<1>7. OneAlarm'
  BY AlarmKept DEF EpollWait, Running
<1>8. FreedTimerOnlyAfterTick'
  <2>1. ASSUME NEW f \in Fds, owner[f] # Nil PROVE ~IsFreed(m_pTimer[f])
    BY <1>1, <2>1 DEF Watch, OpenIsWatched, IsFreed
  <2>2. \A event \in batch' : event[1] \in Fds => owner[event[1]] # Nil
    BY <1>1, <1>2, <1>2a DEF Watch, ArmedIsOpen
  <2>3. \A event \in batch' : event[1] \in Fds => ~IsFreed(m_pTimer[event[1]])'
    BY <2>1, <2>2 DEF EpollWait, users, wheel, IsFreed
  <2>4. pc' # "undefined"
    BY DEF EpollWait, Running
  <2> QED BY <2>3, <2>4 DEF FreedTimerOnlyAfterTick
<1> QED BY <1>5, <1>6, <1>7, <1>8 DEF IInv

\* Nothing to accept.
LEMMA AcceptFailsStep ==
    ASSUME IInv, AcceptFails
    PROVE  IInv'
<1> USE DEF AcceptFails, Handle, clients, kernel, users, wheel, pool
<1>1. TypeOK'
  BY DEF IInv, TypeOK
<1>2. Watch' /\ SilenceBound'
  BY WatchKept
<1>3. FreedTimerOnlyAfterTick' /\ OneAlarm'
  BY FreedKept, AlarmKept DEF Running
<1> QED BY <1>1, <1>2, <1>3 DEF IInv

\* The head of the backlog leaves it.
LEMMA BacklogHead ==
    ASSUME IInv, backlog # <<>>, backlog' = Tail(backlog), NEW c, c = Head(backlog),
           \A d \in Conns \ {c} : client'[d] = client[d]
    PROVE  /\ c \in Conns /\ client[c] = "queued"
           /\ backlog' \in Seq(Conns)
           /\ BacklogOK'
<1>1. backlog \in Seq(Conns) /\ BacklogOK
  BY DEF IInv, TypeOK, Watch
<1>2. c \in Conns /\ client[c] = "queued" /\ c = backlog[1]
  BY <1>1 DEF BacklogOK
<1>3. /\ backlog' \in Seq(Conns)
      /\ \A i \in DOMAIN backlog' : i + 1 \in DOMAIN backlog /\ backlog'[i] = backlog[i + 1]
                                                      /\ i \in Nat \ {0}
  BY <1>1
<1>4. \A i \in DOMAIN backlog' : backlog'[i] \in Conns \ {c}
  <2>1. 1 \in DOMAIN backlog
    BY <1>1
  <2>2. \A i \in DOMAIN backlog' : i + 1 # 1
    BY <1>3
  <2> QED BY <1>1, <1>2, <1>3, <2>1, <2>2 DEF BacklogOK
<1>5. BacklogOK'
  <2>1. \A i \in DOMAIN backlog' : client'[backlog'[i]] = "queued"
    BY <1>1, <1>3, <1>4 DEF BacklogOK
  <2>2. ASSUME NEW i \in DOMAIN backlog', NEW j \in DOMAIN backlog', backlog'[i] = backlog'[j]
        PROVE  i = j
    <3>1. i + 1 = j + 1
      BY <1>1, <1>3, <2>2 DEF BacklogOK
    <3> QED BY <1>3, <3>1
  <2> QED BY <2>1, <2>2 DEF BacklogOK
<1> QED BY <1>2, <1>3, <1>5

\* A refused connection never had a descriptor.
LEMMA AcceptRefusedStep ==
    ASSUME IInv, AcceptRefused
    PROVE  IInv'
<1>1. TypeOK /\ Watch
  BY DEF IInv
<1>2. PICK c \in Conns : c = Head(backlog)
  BY <1>1 DEF AcceptRefused, TypeOK
<1>3. /\ client' = [client EXCEPT ![c] = "closed"]
      /\ pending' = [pending EXCEPT ![c] = FALSE]
      /\ hup' = [hup EXCEPT ![c] = FALSE]
  BY <1>2 DEF AcceptRefused
<1>4. /\ client'[c] = "closed"
      /\ \A d \in Conns \ {c} : client'[d] = client[d]
  BY <1>1, <1>3 DEF TypeOK
<1>5. client[c] = "queued" /\ backlog' \in Seq(Conns) /\ BacklogOK'
  BY <1>2, <1>4, BacklogHead DEF AcceptRefused
<1> USE DEF AcceptRefused, Handle, users, wheel, pool
<1>6. TypeOK'
  BY <1>1, <1>3, <1>5 DEF TypeOK
<1>7. OpenIsWatched' /\ ArmedIsOpen' /\ SilenceBound'
  BY <1>1 DEF Watch, OpenIsWatched, ArmedIsOpen, SilenceBound, IInv
<1>8. OwnersAreOpen' /\ KnownTimers' /\ SilenceStarts'
  BY <1>1, <1>4, <1>5 DEF Watch, OwnersAreOpen, KnownTimers, SilenceStarts, TypeOK
<1>9. FreedTimerOnlyAfterTick' /\ OneAlarm'
  BY FreedKept, AlarmKept DEF Running
<1> QED BY <1>5, <1>6, <1>7, <1>8, <1>9 DEF IInv, Watch

\* A new connection gets a free descriptor and a timer of its own.
LEMMA AcceptClientStep ==
    ASSUME IInv, NEW f \in Fds, AcceptClient(f)
    PROVE  IInv'
<1>1. TypeOK /\ Watch /\ FreedTimerOnlyAfterTick /\ SilenceBound
  BY DEF IInv
<1>2. PICK c \in Conns : c = Head(backlog)
  BY <1>1 DEF AcceptClient, TypeOK
<1>3. /\ client' = [client EXCEPT ![c] = "open"]
      /\ owner' = [owner EXCEPT ![f] = c]
      /\ armed' = [armed EXCEPT ![f] = "in"]
      /\ m_sockfd' = [m_sockfd EXCEPT ![f] = f]
      /\ m_pTimer' = [m_pTimer EXCEPT ![f] = c]
      /\ timerfd' = [timerfd EXCEPT ![c] = f]
      /\ left' = [left EXCEPT ![c] = TIMEOUT]
      /\ owner[f] = Nil /\ backlog # <<>> /\ backlog' = Tail(backlog)
      /\ Running /\ batch' \subseteq batch
      /\ UNCHANGED <<limit, pending, hup, silent, edges, pipe, alarm, stop_server, pc,
                     ticked, m_workqueue, job, wpc>>
  BY <1>2 DEF AcceptClient, IsLowestFree, FreeFds, Handle, pool
<1>4. /\ \A d \in Conns \ {c} : client'[d] = client[d] /\ timerfd'[d] = timerfd[d] /\ left'[d] = left[d]
      /\ client'[c] = "open" /\ timerfd'[c] = f /\ left'[c] = TIMEOUT
      /\ \A g \in Fds \ {f} : /\ owner'[g] = owner[g] /\ armed'[g] = armed[g]
                              /\ m_pTimer'[g] = m_pTimer[g]
      /\ owner'[f] = c /\ armed'[f] = "in" /\ m_pTimer'[f] = c
  BY <1>1, <1>3 DEF TypeOK
<1>5. client[c] = "queued" /\ backlog' \in Seq(Conns) /\ BacklogOK'
  BY <1>2, <1>3, <1>4, BacklogHead
<1>6. TypeOK'
  <2>1. /\ client' \in [Conns -> {"away", "queued", "open", "closed"}]
        /\ timerfd' \in [Conns -> Fds \cup {Nil}] /\ left' \in [Conns -> -1 .. TIMEOUT]
    BY <1>1, <1>3 DEF TypeOK
  <2>2. /\ owner' \in [Fds -> Conns \cup {Nil}] /\ armed' \in [Fds -> {"off", "spent", "in", "out"}]
        /\ m_sockfd' \in [Fds -> Fds \cup {Nil}] /\ m_pTimer' \in [Fds -> Conns \cup {Nil}]
    BY <1>1, <1>3 DEF TypeOK
  <2>3. batch' \subseteq (Fds \cup {listenfd, sig_pipefd}) \X {"in", "out", "hup"}
    BY <1>1, <1>3 DEF TypeOK
  <2> QED BY <1>1, <1>3, <1>5, <2>1, <2>2, <2>3 DEF TypeOK
<1>7. \A g \in Fds \ {f} : (owner[g] # Nil => owner[g] \in Conns \ {c})
                        /\ (m_pTimer[g] # Nil => m_pTimer[g] \in Conns \ {c})
  <2>1. /\ owner \in [Fds -> Conns \cup {Nil}] /\ m_pTimer \in [Fds -> Conns \cup {Nil}]
        /\ OwnersAreOpen /\ KnownTimers
    BY <1>1 DEF TypeOK, Watch
  <2>2. ASSUME NEW g \in Fds, owner[g] # Nil PROVE owner[g] \in Conns \ {c}
    BY <1>5, <2>1, <2>2 DEF OwnersAreOpen
  <2>3. ASSUME NEW g \in Fds, m_pTimer[g] # Nil PROVE m_pTimer[g] \in Conns \ {c}
    BY <1>5, <2>1, <2>3 DEF KnownTimers
  <2> QED BY <2>2, <2>3
<1>8. OpenIsWatched'
  BY <1>1, <1>4, <1>7 DEF Watch, OpenIsWatched
<1>9. ArmedIsOpen'
  BY <1>1, <1>4, <1>7 DEF Watch, ArmedIsOpen
<1>10. OwnersAreOpen'
  BY <1>1, <1>4, <1>7 DEF Watch, OwnersAreOpen
<1>11. KnownTimers'
  BY <1>1, <1>4, <1>7 DEF Watch, KnownTimers
<1>12. SilenceStarts'
  BY <1>1, <1>3, <1>4 DEF Watch, SilenceStarts
<1>13. SilenceBound'
  <2>1. silent'[c] = 0
    BY <1>1, <1>3, <1>5 DEF Watch, SilenceStarts
  <2>2. \A g \in Fds \ {f} : owner'[g] # Nil => silent'[owner'[g]] + left'[owner'[g]] <= TIMEOUT
    BY <1>1, <1>3, <1>4, <1>7 DEF SilenceBound
  <2> QED BY <1>4, <2>1, <2>2 DEF SilenceBound
<1>14. FreedTimerOnlyAfterTick'
  <2>1. \A g \in Fds : IsFreed(m_pTimer[g])' => g # f /\ IsFreed(m_pTimer[g])
    BY <1>4, <1>7 DEF IsFreed
  <2> QED BY <1>1, <1>3, <2>1 DEF FreedTimerOnlyAfterTick
<1>15. OneAlarm'
  BY <1>3, AlarmKept
<1> QED BY <1>5, <1>6, <1>8, <1>9, <1>10, <1>11, <1>12, <1>13, <1>14, <1>15 DEF IInv, Watch

\* What is left to show of a step that closes descriptors and frees no timer.
LEMMA CloseStep ==
    ASSUME IInv, NEW S, CloseFds(S),
           UNCHANGED <<backlog, m_pTimer, wheel, silent, ticked, pipe, alarm>>,
           pc' = pc, batch' \subseteq batch, TypeOK'
    PROVE  IInv'
<1>1. TypeOK /\ Watch /\ SilenceBound
  BY DEF IInv
<1>2. /\ \A f \in Fds : owner'[f] # Nil => owner'[f] = owner[f] /\ f \notin S
      /\ ArmedIsOpen' /\ OwnersAreOpen'
  BY CloseEffect
<1>3. /\ BacklogOK'
      /\ \A c \in Conns : client[c] \in {"open", "closed"} => client'[c] \in {"open", "closed"}
      /\ \A c \in Conns : client'[c] \in {"away", "queued"} => client[c] \in {"away", "queued"}
  BY ClientsAfterClose
<1>4. OpenIsWatched'
  BY <1>1, <1>2 DEF Watch, OpenIsWatched, wheel
<1>5. KnownTimers'
  <2>1. m_pTimer \in [Fds -> Conns \cup {Nil}]
    BY <1>1 DEF TypeOK
  <2> QED BY <1>1, <1>3, <2>1 DEF Watch, KnownTimers, wheel
<1>6. SilenceStarts'
  BY <1>1, <1>3 DEF Watch, SilenceStarts
<1>7. SilenceBound'
  BY <1>1, <1>2 DEF SilenceBound, wheel
<1>8. FreedTimerOnlyAfterTick' /\ OneAlarm'
  BY FreedKept, AlarmKept DEF wheel, Running
<1> QED BY <1>2, <1>3, <1>4, <1>5, <1>6, <1>7, <1>8 DEF IInv, Watch

\* close_conn() alone leaves the timer in the wheel.
LEMMA HangUpEventStep ==
    ASSUME IInv, NEW f \in Fds, HangUpEvent(f)
    PROVE  IInv'
<1>1. PICK S : CloseFds(S)
  BY DEF HangUpEvent, CloseConn
<1>2. /\ m_sockfd' = [m_sockfd EXCEPT ![f] = Nil]
      /\ batch' \subseteq batch
      /\ UNCHANGED <<limit, silent, backlog, edges, pipe, alarm, stop_server, pc, ticked, m_pTimer,
                     wheel, pool>>
  BY DEF HangUpEvent, CloseConn, Handle
<1>3. TypeOK'
  BY <1>1, <1>2, CloseEffect DEF IInv, TypeOK, wheel, pool
<1> QED BY <1>1, <1>2, <1>3, CloseStep

\* A worker that closes leaves the timer in the wheel as well.
LEMMA ProcessClosesFdStep ==
    ASSUME IInv, NEW w \in Workers, ProcessClosesFd(w)
    PROVE  IInv'
<1>1. TypeOK'
  BY CloseEffect DEF ProcessClosesFd, IInv, TypeOK, reactor, users, wheel
<1> QED BY <1>1, CloseStep DEF ProcessClosesFd, reactor, users, wheel

\* read() restarts the silence and the timer together.
LEMMA ReadSucceedsStep ==
    ASSUME IInv, NEW f \in Fds, ReadSucceeds(f)
    PROVE  IInv'
<1>1. TypeOK /\ Watch /\ SilenceBound
  BY DEF IInv
<1>2. PICK c \in Conns : c = owner[f] /\ c # Nil
  BY <1>1 DEF ReadSucceeds, IsOpen, TypeOK
<1>3. m_pTimer[f] = c /\ left[c] # -1 /\ ~IsFreed(m_pTimer[f])
  BY <1>1, <1>2 DEF Watch, OpenIsWatched, IsFreed
<1>4. /\ pending' = [pending EXCEPT ![c] = FALSE]
      /\ silent' = [silent EXCEPT ![c] = 0]
      /\ left' = [left EXCEPT ![c] = TIMEOUT]
      /\ pc' = pc /\ batch' \subseteq batch
      /\ m_workqueue' \in {m_workqueue, Append(m_workqueue, f)}
      /\ UNCHANGED <<limit, client, hup, owner, armed, backlog, edges, pipe, alarm, stop_server,
                     ticked, m_sockfd, m_pTimer, timerfd, job, wpc>>
  BY <1>2, <1>3 DEF ReadSucceeds, Handle, kernel, users
<1>5. TypeOK'
  <2>1. /\ silent' \in [Conns -> 0 .. TIMEOUT + 1] /\ left' \in [Conns -> -1 .. TIMEOUT]
        /\ pending' \in [Conns -> BOOLEAN]
    BY <1>1, <1>4 DEF TypeOK
  <2>2. m_workqueue' \in Seq(Fds)
    <3>1. m_workqueue \in Seq(Fds)
      BY <1>1 DEF TypeOK
    <3>2. Append(m_workqueue, f) \in Seq(Fds)
      BY <3>1
    <3> QED BY <1>4, <3>1, <3>2
  <2>3. batch' \subseteq (Fds \cup {listenfd, sig_pipefd}) \X {"in", "out", "hup"}
    BY <1>1, <1>4 DEF TypeOK
  <2> QED BY <1>1, <1>4, <2>1, <2>2, <2>3 DEF TypeOK
<1>6. /\ left'[c] = TIMEOUT /\ silent'[c] = 0 /\ TIMEOUT # -1
      /\ \A d \in Conns \ {c} : left'[d] = left[d] /\ silent'[d] = silent[d]
  BY <1>1, <1>4 DEF TypeOK
<1>7. \A d \in Conns : left'[d] # -1 <=> left[d] # -1
  BY <1>3, <1>6
<1>8. owner \in [Fds -> Conns \cup {Nil}] /\ m_pTimer \in [Fds -> Conns \cup {Nil}]
  BY <1>1 DEF TypeOK
<1>9. Watch'
  <2>1. OpenIsWatched' /\ ArmedIsOpen' /\ OwnersAreOpen' /\ BacklogOK'
    BY <1>1, <1>4, <1>7, <1>8 DEF Watch, OpenIsWatched, ArmedIsOpen, OwnersAreOpen, BacklogOK
  <2>2. KnownTimers'
    BY <1>1, <1>4, <1>7, <1>8 DEF Watch, KnownTimers
  <2>3. SilenceStarts'
    BY <1>1, <1>4, <1>6 DEF Watch, SilenceStarts
  <2> QED BY <2>1, <2>2, <2>3 DEF Watch
<1>10. SilenceBound'
  BY <1>1, <1>4, <1>6, <1>8 DEF SilenceBound
<1>11. FreedTimerOnlyAfterTick'
  BY <1>4, <1>7, <1>8 DEF IInv, FreedTimerOnlyAfterTick, IsFreed
<1>12. OneAlarm'
  BY <1>4, AlarmKept DEF Running
<1> QED BY <1>5, <1>9, <1>10, <1>11, <1>12 DEF IInv

\* The three cases of CleanUp(): no timer, a timer, a freed timer.
LEMMA CleanUpStep ==
    ASSUME IInv, NEW f \in Fds, NEW kind, Handle(<<f, kind>>), CleanUp(f),
           UNCHANGED <<limit, silent, backlog, edges, pipe, alarm, stop_server, ticked, pool>>
    PROVE  IInv'
<1>1. TypeOK /\ Watch /\ SilenceBound /\ FreedTimerOnlyAfterTick
  BY DEF IInv
<1>2. Running /\ batch' \subseteq batch /\ <<f, kind>> \in batch
  BY DEF Handle
<1>3. CASE m_pTimer[f] = Nil /\ CloseConn(f) /\ UNCHANGED <<pc, m_pTimer, wheel>>
  <2>1. PICK S : CloseFds(S)
    BY <1>3 DEF CloseConn
  <2>2. TypeOK'
    BY <1>1, <1>2, <1>3, <2>1, CloseEffect DEF TypeOK, CloseConn, wheel, pool
  <2> QED BY <1>2, <1>3, <2>1, <2>2, CloseStep
<1>4. CASE IsFreed(m_pTimer[f]) /\ pc' = "undefined"
           /\ UNCHANGED <<client, pending, hup, owner, armed, m_sockfd, m_pTimer, wheel>>
  <2>1. TypeOK'
    BY <1>1, <1>2, <1>4 DEF TypeOK, wheel, pool
  <2>2. Watch' /\ SilenceBound'
    BY <1>4, WatchKept DEF wheel
  <2>3. ticked
    BY <1>1, <1>2, <1>4 DEF FreedTimerOnlyAfterTick
  <2>4. FreedTimerOnlyAfterTick' /\ OneAlarm'
    BY <1>4, <2>3 DEF FreedTimerOnlyAfterTick, OneAlarm, Running
  <2> QED BY <2>1, <2>2, <2>4 DEF IInv
<1>5. ASSUME NEW p \in Conns, p = m_pTimer[f], ~IsFreed(p), p # Nil,
             NEW S, timerfd[p] \in S, CloseFds(S),
             m_sockfd' = [m_sockfd EXCEPT ![f] = Nil],
             m_pTimer' = [m_pTimer EXCEPT ![f] = Nil],
             timerfd' = [timerfd EXCEPT ![p] = Nil],
             left' = [left EXCEPT ![p] = -1],
             UNCHANGED pc
      PROVE  IInv'
  <2>1. TypeOK'
    BY <1>1, <1>2, <1>5, CloseEffect DEF TypeOK, pool
  <2>2. /\ \A g \in Fds : owner'[g] # Nil => owner'[g] = owner[g] /\ g \notin S
        /\ ArmedIsOpen' /\ OwnersAreOpen'
    BY <1>5, CloseEffect
  <2>3. /\ BacklogOK'
        /\ \A c \in Conns : client[c] \in {"open", "closed"} => client'[c] \in {"open", "closed"}
        /\ \A c \in Conns : client'[c] \in {"away", "queued"} => client[c] \in {"away", "queued"}
    BY <1>5, ClientsAfterClose
  <2>4. /\ owner \in [Fds -> Conns \cup {Nil}] /\ m_pTimer \in [Fds -> Conns \cup {Nil}]
        /\ m_pTimer'[f] = Nil /\ \A g \in Fds \ {f} : m_pTimer'[g] = m_pTimer[g]
        /\ left'[p] = -1 /\ \A c \in Conns \ {p} : left'[c] = left[c] /\ timerfd'[c] = timerfd[c]
    BY <1>1, <1>5 DEF TypeOK
  <2>5. left[p] # -1 /\ timerfd[p] = f
    BY <1>1, <1>5 DEF IsFreed, Watch, KnownTimers
  <2>6. \A g \in Fds : owner'[g] # Nil => /\ owner'[g] = owner[g] /\ owner[g] \in Conns \ {p}
                                         /\ g # f
    BY <1>1, <1>5, <2>2, <2>4, <2>5 DEF Watch, OpenIsWatched
  <2>7. \A g \in Fds \ {f} : m_pTimer[g] # p
    BY <1>1, <1>5, <2>5 DEF Watch, KnownTimers
  <2>8. OpenIsWatched'
    BY <1>1, <2>4, <2>6 DEF Watch, OpenIsWatched
  <2>9. KnownTimers'
    BY <1>1, <2>3, <2>4, <2>7 DEF Watch, KnownTimers
  <2>10. SilenceStarts'
    BY <1>1, <2>3 DEF Watch, SilenceStarts
  <2>11. SilenceBound'
    BY <1>1, <2>4, <2>6 DEF SilenceBound
  <2>12. FreedTimerOnlyAfterTick'
    <3>1. \A g \in Fds : IsFreed(m_pTimer[g])' => IsFreed(m_pTimer[g])
      BY <2>4, <2>7 DEF IsFreed
    <3> QED BY <1>1, <1>2, <1>5, <3>1 DEF FreedTimerOnlyAfterTick
  <2>13. OneAlarm'
    BY <1>5, AlarmKept DEF Running
  <2> QED BY <2>1, <2>2, <2>3, <2>8, <2>9, <2>10, <2>11, <2>12, <2>13 DEF IInv, Watch
<1>6. m_pTimer[f] \in Conns \cup {Nil}
  BY <1>1 DEF TypeOK
<1> QED BY <1>3, <1>4, <1>5, <1>6 DEF CleanUp

\* A failed read() or write() cleans up, whoever owns the descriptor by now.
LEMMA EventStep ==
    ASSUME IInv, NEW f \in Fds, ReadFails(f) \/ WriteFails(f)
    PROVE  IInv'
BY CleanUpStep DEF ReadFails, WriteFails

\* The tick: what it frees, it closes; what it leaves has one tick less.
LEMMA SignalEventStep ==
    ASSUME IInv, SignalEvent
    PROVE  IInv'
<1>1. TypeOK /\ Watch /\ SilenceBound /\ FreedTimerOnlyAfterTick /\ OneAlarm
  BY DEF IInv
<1>2. /\ Running /\ batch' \subseteq batch /\ pipe' = {}
      /\ UNCHANGED <<limit, backlog, edges, pc, users, pool>>
  BY DEF SignalEvent, Handle
<1>3. CASE "SIGALRM" \notin pipe /\ UNCHANGED <<clients, owner, armed, wheel, alarm, ticked>>
  <2>1. TypeOK'
    BY <1>1, <1>2, <1>3 DEF SignalEvent, TypeOK, clients, users, wheel, pool
  <2>2. Watch' /\ SilenceBound'
    BY <1>2, <1>3, WatchKept DEF clients, users, wheel
  <2>3. FreedTimerOnlyAfterTick'
    BY <1>2, <1>3, FreedKept DEF users, wheel
  <2>4. OneAlarm'
    BY <1>1, <1>2, <1>3 DEF OneAlarm, Running
  <2> QED BY <2>1, <2>2, <2>3, <2>4 DEF IInv
<1>4. CASE TurnWheel
  <2> DEFINE due == {t \in Conns : left[t] = 0}
             S   == {timerfd[t] : t \in due}
  <2>1. /\ CloseFds(S)
        /\ timerfd' = [t \in Conns |-> IF t \in due THEN Nil ELSE timerfd[t]]
        /\ left' = [t \in Conns |-> IF left[t] = -1 THEN -1 ELSE left[t] - 1]
        /\ silent' = [c \in Conns |-> IF client'[c] = "open" THEN Older(silent[c]) ELSE 0]
        /\ alarm' = TRUE /\ ticked' = TRUE
    BY <1>4 DEF TurnWheel
  <2>2. \A c \in Conns : /\ left[c] \in -1 .. TIMEOUT
                        /\ silent[c] \in 0 .. TIMEOUT + 1
                        /\ Older(silent[c]) \in 0 .. TIMEOUT + 1
                        /\ Older(silent[c]) <= silent[c] + 1
    BY <1>1 DEF TypeOK, Older
  <2> HIDE DEF S
  <2>3. TypeOK'
    <3>1. timerfd' \in [Conns -> Fds \cup {Nil}]
      BY <1>1, <2>1 DEF TypeOK
    <3>2. left' \in [Conns -> -1 .. TIMEOUT] /\ silent' \in [Conns -> 0 .. TIMEOUT + 1]
      BY <2>1, <2>2
    <3>3. stop_server' \in BOOLEAN
      BY <1>1 DEF SignalEvent, TypeOK
    <3> QED BY <1>1, <1>2, <2>1, <3>1, <3>2, <3>3, CloseEffect DEF TypeOK, users, pool
  <2>4. /\ \A g \in Fds : owner'[g] # Nil => owner'[g] = owner[g] /\ g \notin S
        /\ ArmedIsOpen' /\ OwnersAreOpen'
    BY <2>1, CloseEffect
  <2>5. /\ BacklogOK'
        /\ \A c \in Conns : client[c] \in {"open", "closed"} => client'[c] \in {"open", "closed"}
        /\ \A c \in Conns : client'[c] \in {"away", "queued"} => client[c] \in {"away", "queued"}
    BY <1>2, <2>1, ClientsAfterClose
  <2>6. ASSUME NEW g \in Fds, owner'[g] # Nil
        PROVE  /\ owner[g] \in Conns /\ owner'[g] = owner[g]
               /\ m_pTimer[g] = owner[g] /\ timerfd[owner[g]] = g /\ left[owner[g]] \in 1 .. TIMEOUT
    <3>1. owner'[g] = owner[g] /\ g \notin S /\ owner[g] \in Conns
      BY <1>1, <2>4, <2>6 DEF TypeOK
    <3>2. m_pTimer[g] = owner[g] /\ timerfd[owner[g]] = g /\ left[owner[g]] # -1
      BY <1>1, <2>6, <3>1 DEF Watch, OpenIsWatched
    <3>3. owner[g] \notin due
      BY <3>1, <3>2 DEF S
    <3>4. left[owner[g]] # 0
      BY <3>1, <3>3
    <3> QED BY <2>2, <3>1, <3>2, <3>4
  <2>7. OpenIsWatched'
    <3> SUFFICES ASSUME NEW g \in Fds, owner'[g] # Nil
                 PROVE  /\ m_pTimer'[g] = owner'[g]
                        /\ left'[owner'[g]] # -1
                        /\ timerfd'[owner'[g]] = g
      BY DEF OpenIsWatched
    <3>1. left'[owner[g]] = left[owner[g]] - 1 /\ timerfd'[owner[g]] = timerfd[owner[g]]
      BY <2>1, <2>6
    <3> QED BY <1>2, <2>6, <3>1 DEF users
  <2>8. KnownTimers'
    <3> SUFFICES ASSUME NEW g \in Fds, m_pTimer'[g] # Nil
                 PROVE  /\ client'[m_pTimer'[g]] \in {"open", "closed"}
                        /\ left'[m_pTimer'[g]] # -1 => timerfd'[m_pTimer'[g]] = g
      BY DEF KnownTimers
    <3>1. m_pTimer'[g] = m_pTimer[g] /\ m_pTimer[g] \in Conns
      BY <1>1, <1>2 DEF TypeOK, users
    <3>2. left'[m_pTimer[g]] # -1 => left[m_pTimer[g]] \notin {-1, 0}
      BY <2>1, <2>2, <3>1
    <3>3. left'[m_pTimer[g]] # -1 => timerfd'[m_pTimer[g]] = timerfd[m_pTimer[g]]
      BY <2>1, <3>1, <3>2
    <3> QED BY <1>1, <2>5, <3>1, <3>2, <3>3 DEF Watch, KnownTimers
  <2>9. SilenceStarts'
    BY <2>1, <2>5 DEF SilenceStarts
  <2>10. SilenceBound'
    <3> SUFFICES ASSUME NEW g \in Fds, owner'[g] # Nil
                 PROVE  silent'[owner'[g]] + left'[owner'[g]] <= TIMEOUT
      BY DEF SilenceBound
    <3>1. silent[owner[g]] + left[owner[g]] <= TIMEOUT
      BY <1>1, <2>6 DEF SilenceBound
    <3>2. left'[owner[g]] = left[owner[g]] - 1 /\ silent'[owner[g]] = Older(silent[owner[g]])
      BY <2>1, <2>4, <2>6 DEF OwnersAreOpen
    <3> QED BY <2>2, <2>6, <3>1, <3>2
  <2>11. FreedTimerOnlyAfterTick' /\ OneAlarm'
    BY <1>2, <2>1 DEF FreedTimerOnlyAfterTick, OneAlarm
  <2> QED BY <2>3, <2>4, <2>5, <2>7, <2>8, <2>9, <2>10, <2>11 DEF IInv, Watch
<1> QED BY <1>3, <1>4 DEF SignalEvent

\* A write() that goes on only arms the descriptor again.
LEMMA WriteSucceedsStep ==
    ASSUME IInv, NEW f \in Fds, WriteSucceeds(f)
    PROVE  IInv'
<1>1. PICK ev \in {"in", "out"} : armed' = Modfd(f, ev)
  BY DEF WriteSucceeds
<1>2. /\ armed' \in [Fds -> {"off", "spent", "in", "out"}]
      /\ \A g \in Fds : (armed'[g] = "off") <=> (armed[g] = "off")
  BY <1>1, ModfdType DEF IInv
<1>3. TypeOK'
  BY <1>2 DEF IInv, TypeOK, WriteSucceeds, Handle, clients, users, wheel, pool
<1>4. Watch' /\ SilenceBound'
  BY <1>2, WatchKept DEF WriteSucceeds, clients, users, wheel
<1>5. FreedTimerOnlyAfterTick' /\ OneAlarm'
  BY FreedKept, AlarmKept DEF WriteSucceeds, Handle, users, wheel, Running
<1> QED BY <1>3, <1>4, <1>5 DEF IInv

\* run() returns.
LEMMA StopServerStep ==
    ASSUME IInv, StopServer
    PROVE  IInv'
<1>1. TypeOK'
  BY DEF IInv, TypeOK, StopServer, clients, kernel, users, wheel, pool
<1>2. Watch' /\ SilenceBound'
  BY WatchKept DEF StopServer, clients, kernel, users, wheel
<1>3. FreedTimerOnlyAfterTick' /\ OneAlarm'
  BY FreedKept, AlarmKept DEF StopServer, kernel, users, wheel, Running
<1> QED BY <1>1, <1>2, <1>3 DEF IInv

-----------------------------------------------------------------------------
\* The workers.

\* The workers touch no timer and no clock.
LEMMA WorkerStep ==
    ASSUME IInv, NEW w \in Workers, Worker(w)
    PROVE  IInv'
<1>1. CASE TakeRequest(w)
  <2>1. TypeOK'
    <3>1. m_workqueue \in Seq(Fds) /\ m_workqueue # <<>>
      BY <1>1 DEF IInv, TypeOK, TakeRequest
    <3>2. Head(m_workqueue) \in Fds /\ Tail(m_workqueue) \in Seq(Fds)
      BY <3>1
    <3> QED BY <1>1, <3>2 DEF IInv, TypeOK, TakeRequest, clients, kernel, reactor, users, wheel
  <2>2. Watch' /\ SilenceBound'
    BY <1>1, WatchKept DEF TakeRequest, clients, kernel, users, wheel
  <2>3. FreedTimerOnlyAfterTick' /\ OneAlarm'
    BY <1>1, FreedKept, AlarmKept DEF TakeRequest, kernel, reactor, users, wheel, Running
  <2> QED BY <2>1, <2>2, <2>3 DEF IInv
<1>2. CASE ProcessNoRequest(w) \/ ProcessWaitsForOutput(w)
  <2>1. PICK ev \in {"in", "out"} : armed' = Modfd(job[w], ev)
    BY <1>2 DEF ProcessNoRequest, ProcessWaitsForOutput
  <2>2. /\ Done(w)
        /\ UNCHANGED <<limit, clients, owner, backlog, edges, pipe, alarm, reactor, users, wheel>>
    BY <1>2 DEF ProcessNoRequest, ProcessWaitsForOutput
  <2>3. /\ armed' \in [Fds -> {"off", "spent", "in", "out"}]
        /\ \A g \in Fds : (armed'[g] = "off") <=> (armed[g] = "off")
    BY <2>1, ModfdType DEF IInv
  <2>4. TypeOK'
    BY <2>2, <2>3 DEF IInv, TypeOK, Done, clients, reactor, users, wheel
  <2>5. Watch' /\ SilenceBound'
    BY <2>2, <2>3, WatchKept DEF clients, users, wheel
  <2>6. FreedTimerOnlyAfterTick' /\ OneAlarm'
    BY <2>2, FreedKept, AlarmKept DEF reactor, users, wheel, Running
  <2> QED BY <2>4, <2>5, <2>6 DEF IInv
<1>3. CASE ProcessClosesFd(w)
  BY <1>3, ProcessClosesFdStep
<1>4. CASE ProcessForgetsFd(w)
  <2>1. TypeOK'
    BY <1>4 DEF IInv, TypeOK, ProcessForgetsFd, clients, kernel, reactor, wheel
  <2>2. Watch' /\ SilenceBound'
    BY <1>4, WatchKept DEF ProcessForgetsFd, clients, kernel, wheel
  <2>3. FreedTimerOnlyAfterTick' /\ OneAlarm'
    BY <1>4, FreedKept, AlarmKept DEF ProcessForgetsFd, kernel, reactor, wheel, Running
  <2> QED BY <2>1, <2>2, <2>3 DEF IInv
<1> QED BY <1>1, <1>2, <1>3, <1>4 DEF Worker

\* A step that changes nothing keeps everything.
LEMMA StutterStep ==
    ASSUME IInv, UNCHANGED vars
    PROVE  IInv'
<1> USE DEF vars, clients, kernel, reactor, users, wheel, pool
<1>1. TypeOK'
  BY DEF IInv, TypeOK
<1>2. Watch' /\ SilenceBound'
  BY WatchKept
<1>3. FreedTimerOnlyAfterTick' /\ OneAlarm'
  BY FreedKept, AlarmKept DEF Running
<1> QED BY <1>1, <1>2, <1>3 DEF IInv

\* Every step keeps the invariant.
LEMMA NextPreserves == IInv /\ [Next]_vars => IInv'
<1> SUFFICES ASSUME IInv, [Next]_vars PROVE IInv'
  OBVIOUS
<1>1. ASSUME NEW c \in Conns, Connect(c) \/ Send(c) \/ HangUp(c) PROVE IInv'
  BY <1>1, ConnectStep, SendStep
<1>2. CASE AlarmRings \/ Terminate
  BY <1>2, SignalStep
<1>3. CASE EpollWait \/ StopServer
  BY <1>3, EpollWaitStep, StopServerStep
<1>4. CASE HandleEvent
  BY <1>4, AcceptFailsStep, AcceptRefusedStep, AcceptClientStep, SignalEventStep, HangUpEventStep,
     ReadSucceedsStep, WriteSucceedsStep, EventStep DEF HandleEvent
<1>5. ASSUME NEW w \in Workers, Worker(w) PROVE IInv'
  BY <1>5, WorkerStep
<1>6. CASE UNCHANGED vars
  BY <1>6, StutterStep
<1> QED BY <1>1, <1>2, <1>3, <1>4, <1>5, <1>6 DEF Next, Reactor

\* The invariant holds in every reachable state.
LEMMA Invariance == Spec => []IInv
BY InitEstablishes, NextPreserves, PTL DEF Spec

-----------------------------------------------------------------------------
\* Every variable holds a value of its type.
THEOREM TypeCorrect == Spec => []TypeOK
<1>1. IInv => TypeOK
  BY DEF IInv
<1> QED BY Invariance, <1>1, PTL

\* Every open connection has its own timer in the wheel, known to users[].
THEOREM OpenIsWatchedCorrect == Spec => []OpenIsWatched
<1>1. IInv => OpenIsWatched
  BY DEF IInv, Watch
<1> QED BY Invariance, <1>1, PTL

\* What epoll has registered is open, and what is open is registered.
THEOREM ArmedIsOpenCorrect == Spec => []ArmedIsOpen
<1>1. IInv => ArmedIsOpen
  BY DEF IInv, Watch
<1> QED BY Invariance, <1>1, PTL

\* No connection outlives TIMEOUT ticks without a successful read().
THEOREM SilenceBoundCorrect == Spec => []SilenceBound
<1>1. IInv => SilenceBound
  BY DEF IInv
<1> QED BY Invariance, <1>1, PTL

\* A freed timer is followed only for an event fetched before the tick that
\* freed it, in the same batch.
THEOREM FreedTimerCorrect == Spec => []FreedTimerOnlyAfterTick
<1>1. IInv => FreedTimerOnlyAfterTick
  BY DEF IInv
<1> QED BY Invariance, <1>1, PTL

\* The alarm is set or its signal is waiting, never both, never none.
THEOREM OneAlarmCorrect == Spec => []OneAlarm
<1>1. IInv => OneAlarm
  BY DEF IInv
<1> QED BY Invariance, <1>1, PTL
=============================================================================
