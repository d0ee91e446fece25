---------------------------- MODULE ClientSocket -----------------------------
(***************************************************************************)
(* epoll/clientsocket.cpp: a caller that starts, stops and sends, and the  *)
(* thread that connects, reads and connects again, over one m_socket.      *)
(*                                                                         *)
(* m_mutex protects some of the accesses to m_socket: a section under it   *)
(* is one step, and so is each access outside it that decides anything.    *)
(* The results of setBlock() are not looked at, and it has no step.        *)
(* Whether a connect() succeeds and what read() returns is the peer's      *)
(* choice.  The rest of the program opens and closes descriptors of its    *)
(* own.  m_socket is 0 or -1 where it is no descriptor.                    *)
(***************************************************************************)
EXTENDS Integers, Sequences, FiniteSets

CONSTANTS
    MaxFd,        \* bound: descriptors 1 .. MaxFd can be open
    m_portList,   \* the ports of setServerAddr()
    FirstPort,    \* m_port before the first round
    MaxStarts     \* bound: calls of start()

Fds == 1 .. MaxFd

ASSUME ClientAssumption ==
    /\ MaxFd \in Nat \ {0} /\ MaxStarts \in Nat
    /\ m_portList \in Seq(Nat) /\ FirstPort \in Nat

VARIABLES
    own,          \* open descriptors that socket() returned
    foreign,      \* open descriptors of the rest of the program
    m_socket, m_bStop, m_bConnect, m_port,
    cpc,          \* the caller: idle, or where it is in start() or stop()
    tpc,          \* the thread: none, where it is in threadRun(), or undefined
    rfd,          \* the descriptor its read() was called with
    portList,     \* ports left in its round
    waiting,      \* it waits on m_condition
    \* history
    starts, stops,
    restarted,    \* start() was called while the thread was running
    harm          \* a descriptor of the rest of the program was closed

sock       == <<own, foreign, m_socket, harm>>
flags      == <<m_bStop, m_bConnect>>
caller     == <<cpc, starts, stops, restarted>>
thread     == <<tpc, rfd, portList, waiting, m_port>>
socketVars == <<sock, flags, caller, thread>>

SocketInit ==
    /\ own = {} /\ foreign = {} /\ m_socket = 0 /\ harm = FALSE
    /\ m_bStop = FALSE /\ m_bConnect = FALSE /\ m_port = FirstPort
    /\ cpc = "idle" /\ starts = 0 /\ stops = 0 /\ restarted = FALSE
    /\ tpc = "none" /\ rfd = 0 /\ portList = <<>> /\ waiting = FALSE

-----------------------------------------------------------------------------
Free == Fds \ (own \cup foreign)
Lowest(f) == f \in Free /\ \A g \in Free : f <= g

\* The rest of the program.
ForeignOpen ==
    /\ \E f \in Fds : Lowest(f) /\ foreign' = foreign \cup {f}
    /\ UNCHANGED <<own, m_socket, harm, flags, caller, thread>>

ForeignClose ==
    /\ \E f \in foreign : foreign' = foreign \ {f}
    /\ UNCHANGED <<own, m_socket, harm, flags, caller, thread>>

\* close( f ), whoever has f now.
Close(f) ==
    /\ own' = own \ {f} /\ foreign' = foreign \ {f}
    /\ harm' = (harm \/ f \in foreign)

\* createSocket(): under the mutex what m_socket names is closed and a new
\* descriptor opened, if there is one.
createSocket ==
    LET taken == IF m_socket > 0 THEN {m_socket} ELSE {}
        free  == Fds \ ((own \cup foreign) \ taken)
    IN  /\ foreign' = foreign \ taken
        /\ harm' = (harm \/ taken \cap foreign # {})
        /\ IF free = {} THEN own' = own \ taken /\ m_socket' = -1
           ELSE \E f \in free :
                   /\ \A g \in free : f <= g
                   /\ own' = (own \ taken) \cup {f} /\ m_socket' = f

-----------------------------------------------------------------------------
(* The caller.                                                             *)

start ==
    /\ cpc = "idle" /\ starts < MaxStarts
    /\ starts' = starts + 1 /\ restarted' = (restarted \/ tpc # "none")
    /\ createSocket /\ cpc' = "startMade"
    /\ UNCHANGED <<flags, stops, thread>>

\* createSocket() looks at m_socket once more, without the mutex.
StartMade ==
    /\ cpc = "startMade"
    /\ cpc' = IF m_socket = -1 THEN "idle" ELSE "start"
    /\ UNCHANGED <<sock, flags, starts, stops, restarted, thread>>

\* m_bStop is reset before the join: a thread that is running goes on, and
\* start() does not return.
StartClears ==
    /\ cpc = "start"
    /\ m_bStop' = FALSE /\ cpc' = "startJoin"
    /\ UNCHANGED <<sock, m_bConnect, starts, stops, restarted, thread>>

StartThread ==
    /\ cpc = "startJoin" /\ tpc = "none"
    /\ cpc' = "idle" /\ tpc' = "top"
    /\ UNCHANGED <<sock, flags, starts, stops, restarted, rfd, portList, waiting, m_port>>

\* Mutant: the thread is not told.
stop_silently ==
    /\ cpc = "idle" /\ starts > 0 /\ stops < starts
    /\ cpc' = "stop"
    /\ UNCHANGED <<sock, flags, starts, stops, restarted, thread>>

\* Also the destructor's: it calls stop() if m_bStop is not set.
stop ==
    /\ cpc = "idle" /\ starts > 0 /\ stops < starts
    /\ m_bStop' = TRUE /\ cpc' = "stop"
    /\ UNCHANGED <<sock, m_bConnect, starts, stops, restarted, thread>>

StopNotifies ==
    /\ cpc = "stop"
    /\ waiting' = FALSE /\ cpc' = "forget"
    /\ UNCHANGED <<sock, flags, starts, stops, restarted, tpc, rfd, portList, m_port>>

\* Mutant: as on Windows the descriptor is closed.
StopCloses ==
    /\ cpc = "forget"
    /\ IF m_socket > 0 THEN Close(m_socket) ELSE UNCHANGED <<own, foreign, harm>>
    /\ m_socket' = -1 /\ cpc' = "join"
    /\ UNCHANGED <<flags, starts, stops, restarted, thread>>

\* On Linux the descriptor is forgotten, not closed.
StopForgets ==
    /\ cpc = "forget"
    /\ m_socket' = -1 /\ cpc' = "join"
    /\ UNCHANGED <<own, foreign, harm, flags, starts, stops, restarted, thread>>

StopJoins ==
    /\ cpc = "join" /\ tpc = "none"
    /\ cpc' = "idle" /\ stops' = stops + 1
    /\ UNCHANGED <<sock, flags, starts, restarted, thread>>

-----------------------------------------------------------------------------
(* The thread.                                                             *)

Goes(from, to) == tpc = from /\ tpc' = to

\* The name is resolved, to one address, or is not.
Top ==
    /\ \/ m_bStop /\ Goes("top", "exit") /\ UNCHANGED portList
       \/ ~m_bStop /\ Goes("top", "round") /\ portList' = m_portList
       \/ ~m_bStop /\ Goes("top", "pause") /\ UNCHANGED portList
    /\ UNCHANGED <<sock, flags, caller, rfd, waiting, m_port>>

\* An iteration for m_port: connectToServer() makes a socket if it has none.
TryPort ==
    /\ tpc = "round"
    /\ portList' = SelectSeq(portList, LAMBDA p : p # m_port)
    /\ tpc' = IF m_socket <= 0 THEN "make" ELSE "connect"
    /\ UNCHANGED <<sock, flags, caller, rfd, waiting, m_port>>

MakeSocket ==
    /\ Goes("make", "made") /\ createSocket
    /\ UNCHANGED <<flags, caller, rfd, portList, waiting, m_port>>

SocketMade ==
    /\ \/ m_socket = -1 /\ Goes("made", "failed")
       \/ m_socket # -1 /\ Goes("made", "connect")
    /\ UNCHANGED <<sock, flags, caller, rfd, portList, waiting, m_port>>

\* The first connect(), which does not wait.
ConnectCalled ==
    /\ \/ Goes("connect", "fdset") /\ UNCHANGED m_bConnect
       \/ m_socket > 0 /\ Goes("connect", "connected") /\ m_bConnect' = TRUE
    /\ UNCHANGED <<sock, m_bStop, caller, rfd, portList, waiting, m_port>>

\* FD_SET() of what stop() has made -1 writes outside the set, or goes unnoticed.
FdSet ==
    /\ \/ Goes("fdset", "select")
       \/ m_socket <= 0 /\ Goes("fdset", "undefined")
    /\ UNCHANGED <<sock, flags, caller, rfd, portList, waiting, m_port>>

\* select() of nothing, and of a connection that is not made, ends with its time.
Select ==
    /\ \/ Goes("select", "failed")
       \/ m_socket > 0 /\ Goes("select", "isset")
    /\ UNCHANGED <<sock, flags, caller, rfd, portList, waiting, m_port>>

\* FD_ISSET(), of -1 as well.
IsSet ==
    /\ \/ \E to \in {"failed", "confirm"} : Goes("isset", to)
       \/ m_socket <= 0 /\ Goes("isset", "undefined")
    /\ UNCHANGED <<sock, flags, caller, rfd, portList, waiting, m_port>>

\* The second connect().  A socket that failed is kept, and used for the next
\* port.
Confirm ==
    /\ \/ Goes("confirm", "failed") /\ UNCHANGED m_bConnect
       \/ m_socket > 0 /\ Goes("confirm", "connected") /\ m_bConnect' = TRUE
    /\ UNCHANGED <<sock, m_bStop, caller, rfd, portList, waiting, m_port>>

\* The condition of the loop that reads.
AskStop ==
    /\ \/ m_bStop /\ Goes("connected", "failed")
       \/ ~m_bStop /\ Goes("connected", "read")
    /\ UNCHANGED <<sock, flags, caller, rfd, portList, waiting, m_port>>

\* read() keeps the descriptor it was called with.
ReadCalled ==
    /\ Goes("read", "reading") /\ rfd' = m_socket
    /\ UNCHANGED <<sock, flags, caller, portList, waiting, m_port>>

ReadData ==
    /\ rfd \in Fds /\ Goes("reading", "connected")
    /\ UNCHANGED <<sock, flags, caller, rfd, portList, waiting, m_port>>

\* What follows a read() of nothing or an error: closeSocket() without the mutex.
Disconnected ==
    /\ Goes("reading", "closeSocket")
    /\ m_bConnect' = FALSE
    /\ UNCHANGED <<sock, m_bStop, caller, rfd, portList, waiting, m_port>>

PeerCloses == rfd \in Fds /\ Disconnected

\* The descriptor is none.
ReadFails == rfd \notin Fds /\ Disconnected

CloseSocket ==
    /\ Goes("closeSocket", "closed")
    /\ IF m_socket > 0 THEN Close(m_socket) ELSE UNCHANGED <<own, foreign, harm>>
    /\ UNCHANGED <<m_socket, flags, caller, rfd, portList, waiting, m_port>>

Closed ==
    /\ Goes("closed", "failed") /\ m_socket' = -1
    /\ UNCHANGED <<own, foreign, harm, flags, caller, rfd, portList, waiting, m_port>>

\* The end of an iteration, after a connection as after a failure.
NextPort ==
    /\ tpc = "failed"
    /\ m_bConnect' = FALSE
    /\ m_port' = IF portList # <<>> THEN Head(portList) ELSE m_port
    /\ tpc' = IF portList # <<>> /\ ~m_bStop THEN "round" ELSE "pause"
    /\ UNCHANGED <<sock, m_bStop, caller, rfd, portList, waiting>>

\* m_bStop is asked once more under the mutex, which stop() notifies under.
Pause ==
    /\ \/ m_bStop /\ Goes("pause", "exit") /\ UNCHANGED waiting
       \/ ~m_bStop /\ Goes("pause", "wait") /\ waiting' = TRUE
    /\ UNCHANGED <<sock, flags, caller, rfd, portList, m_port>>

\* Notified, or three seconds have passed.
Resume ==
    /\ Goes("wait", "top") /\ waiting' = FALSE
    /\ UNCHANGED <<sock, flags, caller, rfd, portList, m_port>>

\* threadRun() looks at m_socket, and then closes under the mutex what it names.
LeaveLoop ==
    /\ \/ m_socket > 0 /\ Goes("exit", "exitClose")
       \/ m_socket <= 0 /\ Goes("exit", "end")
    /\ UNCHANGED <<sock, flags, caller, rfd, portList, waiting, m_port>>

ExitCloses ==
    /\ Goes("exitClose", "end")
    /\ IF m_socket > 0 THEN Close(m_socket) ELSE UNCHANGED <<own, foreign, harm>>
    /\ m_socket' = -1
    /\ UNCHANGED <<flags, caller, rfd, portList, waiting, m_port>>

Exit ==
    /\ Goes("end", "none") /\ m_bConnect' = FALSE
    /\ UNCHANGED <<sock, m_bStop, caller, rfd, portList, waiting, m_port>>

Waits == StartMade \/ StartClears \/ StartThread \/ StopNotifies \/ StopForgets \/ StopJoins

\* What the thread does without the peer: the time of connect() and of select()
\* is bounded, that of a read() is not.
Thread ==
    \/ Top \/ TryPort \/ MakeSocket \/ SocketMade \/ ConnectCalled \/ FdSet \/ Select
    \/ IsSet \/ Confirm \/ AskStop \/ ReadCalled \/ ReadFails \/ CloseSocket \/ Closed
    \/ NextPort \/ Pause \/ Resume \/ LeaveLoop \/ ExitCloses \/ Exit

Peer == ReadData \/ PeerCloses

SocketNext == ForeignOpen \/ ForeignClose \/ start \/ stop \/ Waits \/ Thread \/ Peer

\* Nothing is assumed of the peer.
SocketSpec ==
    SocketInit /\ [][SocketNext]_socketVars /\ WF_socketVars(Waits) /\ WF_socketVars(Thread)

-----------------------------------------------------------------------------
CallerPlaces == {"idle", "startMade", "start", "startJoin", "stop", "forget", "join"}
ThreadPlaces ==
    {"none", "top", "round", "make", "made", "connect", "fdset", "select", "isset", "confirm",
     "connected", "read", "reading", "closeSocket", "closed", "failed", "pause", "wait",
     "exit", "exitClose", "end", "undefined"}

SocketTypeOK ==
    /\ own \subseteq Fds /\ foreign \subseteq Fds /\ own \cap foreign = {}
    /\ m_socket \in Fds \cup {0, -1} /\ rfd \in Fds \cup {0, -1}
    /\ {m_bStop, m_bConnect, waiting, restarted, harm} \subseteq BOOLEAN
    /\ cpc \in CallerPlaces /\ tpc \in ThreadPlaces

\* While start() is only called when no thread runs, the thread and its caller
\* close no descriptor of the rest of the program, although closeSocket() does
\* not take the mutex; and a stop() leaves one descriptor open at most.
OwnDescriptors ==
    /\ SocketTypeOK
    /\ ~restarted =>
          /\ ~harm
          /\ Cardinality(own \ {m_socket}) <= stops + (IF cpc = "join" THEN 1 ELSE 0)

Blocked == tpc = "reading" /\ rfd \in Fds

\* stop() returns wherever it meets the thread, in a connection attempt, in the
\* pause between two, or between two reads; unless the thread is in a read()
\* for ever, of a peer that neither sends nor closes, or in a set of
\* descriptors with -1, where it may do anything.
StopReturns == [](cpc = "stop" => <>(cpc = "idle" \/ tpc = "undefined") \/ <>[]Blocked)
=============================================================================
