----------------------------- MODULE WebServer ------------------------------
(***************************************************************************)
(* epoll/webserver.cpp with the connections of epoll/http_conn.cpp: one    *)
(* reactor thread accepts, reads, writes and runs the timing wheel, the    *)
(* workers of the thread pool parse requests and prepare responses, and    *)
(* both close connections.                                                 *)
(*                                                                         *)
(* What the parts do on their own is in modules of their own.  Here        *)
(*  - the pool is its list of requests (ThreadPool shows that a request in *)
(*    it is taken by a worker),                                            *)
(*  - the wheel is a set of timers with ticks to go (TimerWheel shows that *)
(*    it implements TimerSet),                                             *)
(*  - the bytes of a request and of its response are left out: read(),     *)
(*    process() and write() have each of the outcomes their code has.      *)
(* The kernel is modelled as far as the server sees it: the table of file  *)
(* descriptors, whose lowest free entry is the next to be used, one-shot   *)
(* registrations, edge-triggered listening, the alarm and its signal pipe. *)
(***************************************************************************)
EXTENDS Integers, Sequences, FiniteSets

CONSTANTS
    Conns,         \* the clients' connections; also names the timer made for each
    MaxFd,         \* bound: file descriptors 1 .. MaxFd, of which
    Limits,        \* one of these numbers is left for connections
    Workers,       \* the pool's threads
    MaxRequests,   \* the pool's m_max_requests
    TIMEOUT,       \* ticks a connection may be silent
    Nil,
    listenfd, sig_pipefd

Fds == 1 .. MaxFd

ASSUME ServerAssumption ==
    /\ IsFiniteSet(Conns)
    /\ MaxFd \in Nat \ {0} /\ Limits \subseteq Fds
    /\ MaxRequests \in Nat \ {0}
    /\ TIMEOUT \in Nat \ {0}
    /\ Nil \notin Conns \cup Fds
    /\ listenfd # sig_pipefd
    /\ {listenfd, sig_pipefd} \cap Fds = {}

VARIABLES
    \* the clients
    client,       \* where each connection is: away, queued, open, closed
    pending,      \* it has sent data that was not read
    hup,          \* it has shut its side down
    \* the kernel
    limit,        \* descriptors it has for connections
    owner,        \* the connection behind each file descriptor, Nil if it is closed
    armed,        \* what the epoll registration of a descriptor waits for
    backlog,      \* connections to be accepted
    edges,        \* which of listenfd and sig_pipefd has news for epoll_wait
    pipe,         \* signals in the pipe
    alarm,        \* the alarm clock is running
    \* the reactor thread
    batch,        \* events of the last epoll_wait not handled yet
    stop_server,
    pc,           \* run: in the loop, stopped: left it, undefined: followed a freed pointer
    \* users[], the wheel, the pool
    m_sockfd,     \* users[f].m_sockfd: f or Nil (-1)
    m_pTimer,     \* users[f].m_pTimer: the timer made for a connection, or Nil
    timerfd,      \* user_data->sockfd of each timer
    left,         \* ticks each timer lets pass, -1 when it is freed or not made yet
    m_workqueue,  \* requests: descriptors f standing for users + f
    job,          \* the request each worker processes
    wpc,          \* where the worker is in process()
    \* history
    silent,       \* ticks since the connection was accepted or read() last succeeded
    ticked        \* the batch under way has turned the wheel

clients == <<client, pending, hup, silent>>
kernel  == <<limit, owner, armed, backlog, edges, pipe, alarm>>
reactor == <<batch, stop_server, pc, ticked>>
users   == <<m_sockfd, m_pTimer>>
wheel   == <<timerfd, left>>
pool    == <<m_workqueue, job, wpc>>
vars    == <<clients, kernel, reactor, users, wheel, pool>>

Running == pc = "run"

Init ==
    /\ client = [c \in Conns |-> "away"]
    /\ pending = [c \in Conns |-> FALSE]
    /\ hup = [c \in Conns |-> FALSE]
    /\ limit \in Limits
    /\ owner = [f \in Fds |-> Nil]
    /\ armed = [f \in Fds |-> "off"]
    /\ backlog = <<>>
    /\ edges = {}
    /\ pipe = {}
    /\ alarm = TRUE
    /\ batch = {}
    /\ stop_server = FALSE
    /\ pc = "run"
    /\ m_sockfd = [f \in Fds |-> Nil]
    /\ m_pTimer = [f \in Fds |-> Nil]
    /\ timerfd = [c \in Conns |-> Nil]
    /\ left = [c \in Conns |-> -1]
    /\ m_workqueue = <<>>
    /\ job = [w \in Workers |-> Nil]
    /\ wpc = [w \in Workers |-> "idle"]
    /\ silent = [c \in Conns |-> 0]
    /\ ticked = FALSE

-----------------------------------------------------------------------------
(* The clients, and the signals.                                           *)

Connect(c) ==
    /\ Running /\ client[c] = "away"
    /\ client' = [client EXCEPT ![c] = "queued"]
    /\ backlog' = Append(backlog, c)
    /\ edges' = edges \cup {listenfd}
    /\ UNCHANGED <<limit, pending, hup, silent, owner, armed, pipe, alarm, reactor, users, wheel, pool>>

Send(c) ==
    /\ Running /\ client[c] \in {"queued", "open"} /\ ~pending[c] /\ ~hup[c]
    /\ pending' = [pending EXCEPT ![c] = TRUE]
    /\ UNCHANGED <<client, hup, silent, kernel, reactor, users, wheel, pool>>

HangUp(c) ==
    /\ Running /\ client[c] \in {"queued", "open"} /\ ~hup[c]
    /\ hup' = [hup EXCEPT ![c] = TRUE]
    /\ UNCHANGED <<client, pending, silent, kernel, reactor, users, wheel, pool>>

\* sig_handler() writes the signal to the pipe.
Signal(s) ==
    /\ pipe' = pipe \cup {s}
    /\ edges' = edges \cup {sig_pipefd}
    /\ UNCHANGED <<limit, clients, owner, armed, backlog, reactor, users, wheel, pool>>

AlarmRings ==
    /\ Running /\ alarm
    /\ alarm' = FALSE
    /\ Signal("SIGALRM")

Terminate ==
    /\ Running /\ ~stop_server /\ "SIGTERM" \notin pipe
    /\ Signal("SIGTERM")
    /\ UNCHANGED alarm

-----------------------------------------------------------------------------
(* Calls the code makes from several places.                               *)

Behind(S) == {owner[f] : f \in S \cap Fds} \cap Conns

\* close() of a set of descriptors, with EPOLL_CTL_DEL or without: closing
\* ends the registration, and what the peer sent is lost.  Nothing happens to
\* a descriptor that is closed already.
CloseFds(S) ==
    /\ owner' = [f \in Fds |-> IF f \in S THEN Nil ELSE owner[f]]
    /\ armed' = [f \in Fds |-> IF f \in S THEN "off" ELSE armed[f]]
    /\ client' = [c \in Conns |-> IF c \in Behind(S) THEN "closed" ELSE client[c]]
    /\ pending' = [c \in Conns |-> pending[c] /\ c \notin Behind(S)]
    /\ hup' = [c \in Conns |-> hup[c] /\ c \notin Behind(S)]

\* modfd( m_epollfd, users[f].m_sockfd, ev ) fails on what is not registered.
Modfd(f, ev) ==
    IF m_sockfd[f] # Nil /\ armed[f] # "off" THEN [armed EXCEPT ![f] = ev] ELSE armed

\* http_conn::close_conn() when the reactor calls it.
CloseConn(f) ==
    /\ CloseFds(IF m_sockfd[f] = Nil THEN {} ELSE {f})
    /\ m_sockfd' = [m_sockfd EXCEPT ![f] = Nil]

IsFreed(t) == t # Nil /\ left[t] = -1

\* What run() does when read() or write() returned false: the callback of the
\* timer closes the descriptor, the timer is deleted and forgotten, and
\* close_conn() closes the descriptor again.
CleanUp(f) ==
    LET p == m_pTimer[f] IN
    \/ /\ p = Nil
       /\ CloseConn(f)
       /\ UNCHANGED <<pc, m_pTimer, wheel>>
    \/ /\ p # Nil /\ ~IsFreed(p)
       /\ CloseFds({timerfd[p]} \cup (IF m_sockfd[f] = Nil THEN {} ELSE {f}))
       /\ m_sockfd' = [m_sockfd EXCEPT ![f] = Nil]
       /\ m_pTimer' = [m_pTimer EXCEPT ![f] = Nil]
       /\ timerfd' = [timerfd EXCEPT ![p] = Nil]
       /\ left' = [left EXCEPT ![p] = -1]
       /\ UNCHANGED pc
    \/ /\ IsFreed(p)
       /\ pc' = "undefined"
       /\ UNCHANGED <<client, pending, hup, owner, armed, m_sockfd, m_pTimer, wheel>>

\* Bound: silence is not counted beyond TIMEOUT + 1 ticks.
Older(ticks) == IF ticks > TIMEOUT THEN ticks ELSE ticks + 1

\* Mutant: the wheel turns, the alarm is not set again.
TurnWheelWithoutAlarm ==
    LET due == {t \in Conns : left[t] = 0} IN
    /\ CloseFds({timerfd[t] : t \in due})
    /\ timerfd' = [t \in Conns |-> IF t \in due THEN Nil ELSE timerfd[t]]
    /\ left' = [t \in Conns |-> IF left[t] = -1 THEN -1 ELSE left[t] - 1]
    /\ silent' = [c \in Conns |-> IF client'[c] = "open" THEN Older(silent[c]) ELSE 0]
    /\ ticked' = TRUE
    /\ UNCHANGED alarm

\* Mutant: the timers that are due are freed and their connections left open.
TurnWheelWithoutCallback ==
    LET due == {t \in Conns : left[t] = 0} IN
    /\ CloseFds({})
    /\ timerfd' = [t \in Conns |-> IF t \in due THEN Nil ELSE timerfd[t]]
    /\ left' = [t \in Conns |-> IF left[t] = -1 THEN -1 ELSE left[t] - 1]
    /\ silent' = [c \in Conns |-> IF client'[c] = "open" THEN Older(silent[c]) ELSE 0]
    /\ alarm' = TRUE
    /\ ticked' = TRUE

\* timer_handler(): time_wheel::tick() runs cb_func() of the timers that are
\* due, which closes the descriptor they were made for and leaves users[]
\* alone, frees them, and the alarm is set again.
TurnWheel ==
    LET due == {t \in Conns : left[t] = 0} IN
    /\ CloseFds({timerfd[t] : t \in due})
    /\ timerfd' = [t \in Conns |-> IF t \in due THEN Nil ELSE timerfd[t]]
    /\ left' = [t \in Conns |-> IF left[t] = -1 THEN -1 ELSE left[t] - 1]
    /\ silent' = [c \in Conns |-> IF client'[c] = "open" THEN Older(silent[c]) ELSE 0]
    /\ alarm' = TRUE
    /\ ticked' = TRUE

-----------------------------------------------------------------------------
(* The reactor thread: run().                                              *)

\* Mutant: room for one event only, and the others are not asked for again.
EpollWaitOneEvent ==
    /\ Running /\ batch = {} /\ ~stop_server
    /\ \E x \in {y \in edges : IF y = listenfd THEN backlog # <<>> ELSE pipe # {}} :
          batch' = {<<x, "in">>}
    /\ edges' = {}
    /\ ticked' = FALSE
    /\ UNCHANGED <<limit, clients, owner, armed, backlog, pipe, alarm, stop_server, pc, users, wheel,
                   pool>>

\* epoll_wait() returns everything that is ready.  A one-shot registration is
\* spent by its event; listenfd and sig_pipefd report only what is new.
EpollWait ==
    /\ Running /\ batch = {} /\ ~stop_server
    /\ LET News    == {x \in edges : IF x = listenfd THEN backlog # <<>> ELSE pipe # {}}
           Gone    == {f \in Fds : armed[f] \in {"in", "out"} /\ hup[owner[f]]}
           Input   == {f \in Fds : armed[f] = "in" /\ pending[owner[f]]} \ Gone
           Waiting == {f \in Fds : armed[f] = "out"} \ Gone
       IN  \E Output \in SUBSET Waiting :
             /\ batch' = {<<x, "in">> : x \in News \cup Input} \cup
                         {<<f, "hup">> : f \in Gone} \cup {<<f, "out">> : f \in Output}
             /\ batch' # {}
             /\ armed' = [f \in Fds |-> IF f \in Gone \cup Input \cup Output THEN "spent" ELSE armed[f]]
    /\ edges' = {}
    /\ ticked' = FALSE
    /\ UNCHANGED <<limit, clients, owner, backlog, pipe, alarm, stop_server, pc, users, wheel, pool>>

Handle(event) ==
    /\ Running
    /\ event \in batch
    /\ batch' = batch \ {event}

FreeFds == {f \in 1 .. limit : owner[f] = Nil}

\* The kernel hands out the lowest descriptor that is free.
IsLowestFree(f) == f \in FreeFds /\ \A g \in FreeFds : f <= g

\* accept() finds no connection or no free descriptor: continue.
AcceptFails ==
    /\ Handle(<<listenfd, "in">>)
    /\ ~(backlog # <<>> /\ FreeFds # {})
    /\ UNCHANGED <<clients, kernel, stop_server, pc, ticked, users, wheel, pool>>

\* m_user_count >= MAX_FD: show_error() and close().  The count is not
\* modelled: it is not reduced when a timer closes a connection, and the
\* threads change it without a lock, so the test may come out either way.
AcceptRefused ==
    /\ Handle(<<listenfd, "in">>)
    /\ backlog # <<>> /\ FreeFds # {}
    /\ client' = [client EXCEPT ![Head(backlog)] = "closed"]
    /\ pending' = [pending EXCEPT ![Head(backlog)] = FALSE]
    /\ hup' = [hup EXCEPT ![Head(backlog)] = FALSE]
    /\ backlog' = Tail(backlog)
    /\ UNCHANGED <<limit, silent, owner, armed, edges, pipe, alarm,
                   stop_server, pc, ticked, users, wheel, pool>>

\* Mutant: the new timer is not given to users[connfd].
AcceptWithoutSetTimer(f) ==
    /\ Handle(<<listenfd, "in">>)
    /\ backlog # <<>> /\ IsLowestFree(f)
    /\ LET c == Head(backlog)
       IN  /\ client' = [client EXCEPT ![c] = "open"]
           /\ owner' = [owner EXCEPT ![f] = c]
           /\ armed' = [armed EXCEPT ![f] = "in"]
           /\ m_sockfd' = [m_sockfd EXCEPT ![f] = f]
           /\ timerfd' = [timerfd EXCEPT ![c] = f]
           /\ left' = [left EXCEPT ![c] = TIMEOUT]
    /\ backlog' = Tail(backlog)
    /\ UNCHANGED <<limit, pending, hup, silent, edges, pipe, alarm, stop_server, pc, ticked, m_pTimer,
                   pool>>

\* http_conn::init( connfd ), a timer of TIMEOUT for connfd, setTimer().
AcceptClient(f) ==
    /\ Handle(<<listenfd, "in">>)
    /\ backlog # <<>> /\ IsLowestFree(f)
    /\ LET c == Head(backlog)
       IN  /\ client' = [client EXCEPT ![c] = "open"]
           /\ owner' = [owner EXCEPT ![f] = c]
           /\ armed' = [armed EXCEPT ![f] = "in"]
           /\ m_sockfd' = [m_sockfd EXCEPT ![f] = f]
           /\ m_pTimer' = [m_pTimer EXCEPT ![f] = c]
           /\ timerfd' = [timerfd EXCEPT ![c] = f]
           /\ left' = [left EXCEPT ![c] = TIMEOUT]
    /\ backlog' = Tail(backlog)
    /\ UNCHANGED <<limit, pending, hup, silent, edges, pipe, alarm, stop_server, pc, ticked, pool>>

\* recv() takes all signals, or finds none.  SIGALRM makes the wheel turn at
\* the end of this very iteration, SIGTERM ends run() after the batch.
SignalEvent ==
    /\ Handle(<<sig_pipefd, "in">>)
    /\ pipe' = {}
    /\ stop_server' = (stop_server \/ "SIGTERM" \in pipe)
    /\ \/ /\ "SIGALRM" \in pipe
          /\ TurnWheel
       \/ /\ "SIGALRM" \notin pipe
          /\ UNCHANGED <<clients, owner, armed, wheel, alarm, ticked>>
    /\ UNCHANGED <<limit, backlog, edges, pc, users, pool>>

\* EPOLLRDHUP: close_conn(), and the timer stays in the wheel.
HangUpEvent(f) ==
    /\ Handle(<<f, "hup">>)
    /\ CloseConn(f)
    /\ UNCHANGED <<limit, silent, backlog, edges, pipe, alarm,
                   stop_server, pc, ticked, m_pTimer, wheel, pool>>

\* recv() works on users[f].m_sockfd.
IsOpen(f) == m_sockfd[f] # Nil /\ owner[f] # Nil

\* Mutant: the new time is added to what was left.
ReadSucceedsAdds(f) ==
    /\ Handle(<<f, "in">>)
    /\ IsOpen(f) /\ ~hup[owner[f]]
    /\ pending' = [pending EXCEPT ![owner[f]] = FALSE]
    /\ silent' = [silent EXCEPT ![owner[f]] = 0]
    /\ m_workqueue' = IF Len(m_workqueue) > MaxRequests THEN m_workqueue ELSE Append(m_workqueue, f)
    /\ LET p == m_pTimer[f]
       IN  IF IsFreed(p)
           THEN pc' = "undefined" /\ UNCHANGED left
           ELSE /\ left' = IF p = Nil THEN left ELSE [left EXCEPT ![p] = @ + TIMEOUT]
                /\ UNCHANGED pc
    /\ UNCHANGED <<client, hup, kernel, stop_server, ticked, users, timerfd, job, wpc>>

\* read() drained the socket: append() hands users + f to the pool, which may
\* refuse it without a word, and the timer starts again.
ReadSucceeds(f) ==
    /\ Handle(<<f, "in">>)
    /\ IsOpen(f) /\ ~hup[owner[f]]
    /\ pending' = [pending EXCEPT ![owner[f]] = FALSE]
    /\ silent' = [silent EXCEPT ![owner[f]] = 0]
    /\ m_workqueue' = IF Len(m_workqueue) > MaxRequests THEN m_workqueue ELSE Append(m_workqueue, f)
    /\ LET p == m_pTimer[f]
       IN  IF IsFreed(p)
           THEN pc' = "undefined" /\ UNCHANGED left
           ELSE /\ left' = IF p = Nil THEN left ELSE [left EXCEPT ![p] = TIMEOUT]
                /\ UNCHANGED pc
    /\ UNCHANGED <<client, hup, kernel, stop_server, ticked, users, timerfd, job, wpc>>

\* read() fails: the peer is gone, the descriptor is closed, the connection
\* has an error, or its buffer is full.
ReadFails(f) ==
    /\ Handle(<<f, "in">>)
    /\ IsOpen(f) => hup[owner[f]] \/ pending[owner[f]]
    /\ CleanUp(f)
    /\ UNCHANGED <<limit, silent, backlog, edges, pipe, alarm, stop_server, ticked, pool>>

\* write(): the response is sent and the connection kept, or there is nothing
\* to send; or the socket is full.
WriteSucceeds(f) ==
    /\ Handle(<<f, "out">>)
    /\ \E ev \in {"in"} \cup (IF IsOpen(f) THEN {"out"} ELSE {}) : armed' = Modfd(f, ev)
    /\ UNCHANGED <<limit, clients, owner, backlog, edges, pipe, alarm, stop_server, pc, ticked, users,
                   wheel, pool>>

\* write() fails, or the response is sent and the connection not to be kept.
WriteFails(f) ==
    /\ Handle(<<f, "out">>)
    /\ CleanUp(f)
    /\ UNCHANGED <<limit, silent, backlog, edges, pipe, alarm, stop_server, ticked, pool>>

\* run() returns: users[] and the pool are deleted under the workers' feet.
StopServer ==
    /\ Running /\ batch = {} /\ stop_server
    /\ pc' = "stopped"
    /\ UNCHANGED <<clients, kernel, batch, stop_server, ticked, users, wheel, pool>>

HandleEvent ==
    \/ AcceptFails \/ AcceptRefused
    \/ SignalEvent
    \/ \E f \in Fds : \/ AcceptClient(f)
                     \/ HangUpEvent(f)
                     \/ ReadSucceeds(f) \/ ReadFails(f)
                     \/ WriteSucceeds(f) \/ WriteFails(f)

Reactor == EpollWait \/ HandleEvent \/ StopServer

-----------------------------------------------------------------------------
(* The workers: http_conn::process().                                      *)

TakeRequest(w) ==
    /\ Running /\ wpc[w] = "idle" /\ m_workqueue # <<>>
    /\ job' = [job EXCEPT ![w] = Head(m_workqueue)]
    /\ wpc' = [wpc EXCEPT ![w] = "process"]
    /\ m_workqueue' = Tail(m_workqueue)
    /\ UNCHANGED <<clients, kernel, reactor, users, wheel>>

Done(w) ==
    /\ job' = [job EXCEPT ![w] = Nil]
    /\ wpc' = [wpc EXCEPT ![w] = "idle"]
    /\ UNCHANGED m_workqueue

\* NO_REQUEST: wait for more input.
ProcessNoRequest(w) ==
    /\ Running /\ wpc[w] = "process"
    /\ armed' = Modfd(job[w], "in")
    /\ Done(w)
    /\ UNCHANGED <<limit, clients, owner, backlog, edges, pipe, alarm, reactor, users, wheel>>

\* The response is ready, or could not be made and close_conn() is done with:
\* wait until it can be sent.
ProcessWaitsForOutput(w) ==
    /\ Running
    /\ wpc[w] \in {"process", "closed"}
    /\ armed' = Modfd(job[w], "out")
    /\ Done(w)
    /\ UNCHANGED <<limit, clients, owner, backlog, edges, pipe, alarm, reactor, users, wheel>>

\* process_write() failed.  The reactor may run between the two halves of
\* close_conn(), and accept a connection on the descriptor.
ProcessClosesFd(w) ==
    /\ Running /\ wpc[w] = "process"
    /\ m_sockfd[job[w]] # Nil
    /\ CloseFds({job[w]})
    /\ wpc' = [wpc EXCEPT ![w] = "closing"]
    /\ UNCHANGED <<limit, silent, backlog, edges, pipe, alarm, reactor, users, wheel, m_workqueue, job>>

ProcessForgetsFd(w) ==
    /\ Running /\ wpc[w] = "closing"
    /\ m_sockfd' = [m_sockfd EXCEPT ![job[w]] = Nil]
    /\ wpc' = [wpc EXCEPT ![w] = "closed"]
    /\ UNCHANGED <<clients, kernel, reactor, m_pTimer, wheel, m_workqueue, job>>

Worker(w) ==
    \/ TakeRequest(w)
    \/ ProcessNoRequest(w) \/ ProcessWaitsForOutput(w)
    \/ ProcessClosesFd(w) \/ ProcessForgetsFd(w)

Next ==
    \/ \E c \in Conns : Connect(c) \/ Send(c) \/ HangUp(c)
    \/ AlarmRings \/ Terminate
    \/ Reactor
    \/ \E w \in Workers : Worker(w)

Spec == Init /\ [][Next]_vars

\* The kernel delivers the alarm, and every thread that can run does.
Fairness ==
    /\ WF_vars(AlarmRings)
    /\ WF_vars(Reactor)
    /\ \A w \in Workers : WF_vars(Worker(w))

FairSpec == Spec /\ Fairness

-----------------------------------------------------------------------------
\* Every variable holds a value of its type.
TypeOK ==
    /\ client \in [Conns -> {"away", "queued", "open", "closed"}]
    /\ pending \in [Conns -> BOOLEAN]
    /\ hup \in [Conns -> BOOLEAN]
    /\ limit \in Limits
    /\ owner \in [Fds -> Conns \cup {Nil}]
    /\ armed \in [Fds -> {"off", "spent", "in", "out"}]
    /\ backlog \in Seq(Conns)
    /\ edges \subseteq {listenfd, sig_pipefd}
    /\ pipe \subseteq {"SIGALRM", "SIGTERM"}
    /\ alarm \in BOOLEAN
    /\ batch \subseteq (Fds \cup {listenfd, sig_pipefd}) \X {"in", "out", "hup"}
    /\ stop_server \in BOOLEAN
    /\ pc \in {"run", "stopped", "undefined"}
    /\ m_sockfd \in [Fds -> Fds \cup {Nil}]
    /\ m_pTimer \in [Fds -> Conns \cup {Nil}]
    /\ timerfd \in [Conns -> Fds \cup {Nil}]
    /\ left \in [Conns -> -1 .. TIMEOUT]
    /\ m_workqueue \in Seq(Fds)
    /\ job \in [Workers -> Fds \cup {Nil}]
    /\ wpc \in [Workers -> {"idle", "process", "closing", "closed"}]
    /\ silent \in [Conns -> 0 .. TIMEOUT + 1]
    /\ ticked \in BOOLEAN

\* Every open connection is watched: the timer users[] knows for its
\* descriptor is the one made when it was accepted, it is in the wheel, and
\* its callback closes that descriptor.  So no connection stays open for ever.
OpenIsWatched ==
    \A f \in Fds : owner[f] # Nil =>
        /\ m_pTimer[f] = owner[f]
        /\ left[owner[f]] # -1
        /\ timerfd[owner[f]] = f

\* A registration that can still report an event belongs to an open descriptor.
ArmedIsOpen == \A f \in Fds : (armed[f] = "off") <=> (owner[f] = Nil)

\* No connection outlives TIMEOUT ticks of silence: what it has been silent
\* and what its timer has left never exceed TIMEOUT together.
SilenceBound ==
    \A f \in Fds : owner[f] # Nil => silent[owner[f]] + left[owner[f]] <= TIMEOUT

\* run() follows the pointer to a freed timer only for an event that was
\* fetched together with the tick that freed it.
FreedTimerOnlyAfterTick ==
    /\ pc = "undefined" => ticked
    /\ \A event \in batch : event[1] \in Fds /\ IsFreed(m_pTimer[event[1]]) => ticked

\* The clock neither stops nor doubles: while run() loops, either the alarm is
\* set or its signal is in the pipe, never both, never none.
OneAlarm == Running => (alarm <=> "SIGALRM" \notin pipe)

\* A connection that says nothing is closed in the end, whatever happened to
\* its registration, its request and its response meanwhile.
SilentIsClosed ==
    \A c \in Conns :
        (client[c] = "open" /\ ~pending[c]) ~> (client[c] = "closed" \/ pending[c] \/ ~Running)

\* Data that arrived on an open connection does not stay unread for ever: it is
\* read, or the connection is closed, even when append() dropped the request
\* and nothing arms the descriptor again.
DataIsSettled ==
    \A c \in Conns : (client[c] = "open" /\ pending[c]) ~> (~pending[c] \/ ~Running)

\* The connection whose arrival is the news of listenfd, and which is first in
\* the backlog, is accepted or refused, unless there is no descriptor left.
NewsIsAccepted ==
    \A c \in Conns :
        (listenfd \in edges /\ backlog # <<>> /\ Head(backlog) = c)
            ~> (client[c] # "queued" \/ ~Running \/ FreeFds = {})

\* "5 seconds without receiving data, then this connection is disconnected":
\* the tick closes no connection that was accepted or read more recently.
TickClosesOnlySilent ==
    [][\A c \in Conns :
          SignalEvent /\ client[c] = "open" /\ client'[c] = "closed" => silent[c] >= TIMEOUT]_vars
=============================================================================
