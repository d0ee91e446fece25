----------------------------- MODULE EchoServers -----------------------------
(***************************************************************************)
(* The servers that send back what they read: CHelloServer of              *)
(* epoll/helloserver.cpp with select and with epoll, and CProcessUser of   *)
(* epoll/processuser.cpp, what a child of the process pool (ProcessPool)   *)
(* does for its connections.                                               *)
(*                                                                         *)
(* The n-th message of client c is <<c, n>>, some are the word exit.       *)
(* read() takes whole messages, some of those that are there, write()      *)
(* sends a prefix of them.  Which server runs is the variable mode.  An    *)
(* entry of m_clientMap and of the child's users[] is named by its         *)
(* descriptor.                                                             *)
(***************************************************************************)
EXTENDS Integers, Sequences, FiniteSets, SequencesExt

CONSTANTS
    Conns, Nil,
    MaxFd,            \* bound: descriptors there are for connections
    MaxMsgs,          \* bound: messages each client sends
    Exits             \* those that are the word exit

Fds == 1 .. MaxFd

ASSUME EchoAssumption ==
    /\ IsFiniteSet(Conns) /\ Nil \notin Conns
    /\ MaxFd \in Nat \ {0} /\ MaxMsgs \in [Conns -> Nat] /\ Exits \subseteq Conns \X Nat

VARIABLES
    mode,         \* select, epoll, user
    pc,           \* run, ended: left the loop, killed: by SIGPIPE
    conn,         \* of each client: away, queued, open, fin: half-closed, gone, closed: by the server
    sent,         \* messages it has sent
    toServer,     \* those that were not read
    fromServer,   \* messages that came back
    owner,        \* the client behind each descriptor, Nil if it is closed
    pending,      \* clients to be accepted
    events,       \* what select() or epoll_wait() returned and is not handled
    clients,      \* keys of m_clientMap; users[] with m_fd # -1
    buf,          \* recv of a client's entity; m_writebuf of a user
    out,          \* users that registered EPOLLOUT
    shut          \* users that have shut their socket for writing

peers    == <<conn, sent, toServer, fromServer>>
server   == <<mode, pc, owner, pending, events, clients, buf, out, shut>>
echoVars == <<peers, server>>

EchoInit ==
    /\ mode \in {"select", "epoll", "user"} /\ pc = "run"
    /\ conn = [c \in Conns |-> "away"] /\ sent = [c \in Conns |-> 0]
    /\ toServer = [c \in Conns |-> <<>>] /\ fromServer = [c \in Conns |-> <<>>]
    /\ owner = [f \in Fds |-> Nil] /\ pending = <<>> /\ events = {}
    /\ clients = {} /\ buf = [f \in Fds |-> <<>>] /\ out = {} /\ shut = {}

-----------------------------------------------------------------------------
Arrives(c) ==
    /\ conn[c] = "away"
    /\ conn' = [conn EXCEPT ![c] = "queued"] /\ pending' = Append(pending, c)
    /\ UNCHANGED <<sent, toServer, fromServer, mode, pc, owner, events, clients, buf, out, shut>>

Send(c) ==
    /\ conn[c] \in {"queued", "open"} /\ sent[c] < MaxMsgs[c]
    /\ sent' = [sent EXCEPT ![c] = @ + 1]
    /\ toServer' = [toServer EXCEPT ![c] = Append(@, <<c, sent'[c]>>)]
    /\ UNCHANGED <<conn, fromServer, server>>

\* A client that is accepted ends its sending, or leaves altogether.
HangUp(c, how) ==
    /\ conn[c] \in {"open", "fin"} /\ conn[c] # how
    /\ conn' = [conn EXCEPT ![c] = how]
    /\ UNCHANGED <<sent, toServer, fromServer, server>>

-----------------------------------------------------------------------------
Readable(f) == owner[f] # Nil /\ (toServer[owner[f]] # <<>> \/ conn[owner[f]] \in {"fin", "gone"})

Input  == {f \in Fds : Readable(f)}
Output == {f \in out : owner[f] # Nil} \ Input

\* Mutant: room for one event only, input first.
ReadyOne ==
    IF pending # <<>> THEN {<<0, "in">>}
    ELSE IF Input # {} THEN {<<Min(Input), "in">>} ELSE Output \X {"out"}

\* What is ready, input before output.  In all modes input is reported as long
\* as it is there: a user registers again without EPOLLET after each read.
Ready ==
    (IF pending # <<>> THEN {<<0, "in">>} ELSE {}) \cup (Input \X {"in"}) \cup (Output \X {"out"})

Wait ==
    /\ pc = "run" /\ events = {}
    /\ events' = Ready /\ events' # {}
    /\ UNCHANGED <<peers, mode, pc, owner, pending, clients, buf, out, shut>>

FreeFds == {f \in Fds : owner[f] = Nil}

\* The entry is new in m_clientMap; init() of a user leaves its buffers alone.
Accept(f) ==
    /\ pc = "run" /\ <<0, "in">> \in events
    /\ f \in FreeFds /\ \A g \in FreeFds : f <= g
    /\ owner' = [owner EXCEPT ![f] = Head(pending)]
    /\ conn' = [conn EXCEPT ![Head(pending)] = "open"]
    /\ pending' = Tail(pending) /\ events' = events \ {<<0, "in">>}
    /\ clients' = clients \cup {f}
    /\ buf' = IF mode = "user" THEN buf ELSE [buf EXCEPT ![f] = <<>>]
    /\ UNCHANGED <<sent, toServer, fromServer, mode, pc, out, shut>>

\* With select a break leaves the loop for good, with epoll it drops the other
\* events, which are reported again.
AcceptFails ==
    /\ pc = "run" /\ <<0, "in">> \in events /\ FreeFds = {}
    /\ pc' = IF mode = "select" THEN "ended" ELSE pc
    /\ events' = IF mode = "epoll" THEN {} ELSE events \ {<<0, "in">>}
    /\ UNCHANGED <<peers, mode, owner, pending, clients, buf, out, shut>>

\* An event of f is handled.  The lists of the select loop are never emptied:
\* it accepts first, then reads f once for each round f has been in a list, and
\* does so after f was closed too.
Handle(f, event) ==
    /\ pc = "run" /\ <<f, event>> \in events
    /\ mode = "select" => <<0, "in">> \notin events
    /\ events' \in {events \ {<<f, event>>}} \cup (IF mode = "select" THEN {events} ELSE {})

\* Mutant: the descriptor is closed, its entry is kept.
CloseKeepsClient(f) ==
    /\ owner' = [owner EXCEPT ![f] = Nil]
    /\ conn' = [conn EXCEPT ![owner[f]] = "closed"]
    /\ toServer' = [toServer EXCEPT ![owner[f]] = <<>>]
    /\ UNCHANGED clients

\* closeClient()
CloseClient(f) ==
    /\ owner' = [owner EXCEPT ![f] = Nil]
    /\ conn' = [conn EXCEPT ![owner[f]] = "closed"]
    /\ toServer' = [toServer EXCEPT ![owner[f]] = <<>>]
    /\ clients' = clients \ {f}

\* Mutant: what is written is kept as well.
DeliverKeeps(f, text) ==
    LET c == owner[f] IN
    /\ buf' = [buf EXCEPT ![f] = text]
    /\ \/ /\ conn[c] \in {"open", "fin"} /\ f \notin shut
          /\ \E n \in 0 .. Len(text) : fromServer' = [fromServer EXCEPT ![c] = @ \o SubSeq(text, 1, n)]
          /\ UNCHANGED pc
       \/ /\ pc' \in {pc} \cup (IF conn[c] = "gone" /\ mode # "user" THEN {"killed"} ELSE {})
          /\ UNCHANGED fromServer

\* write( f, text ): what is not taken at once is dropped, a failure keeps it
\* all.  To a client that has gone it may succeed once more, and then raises
\* SIGPIPE, which only the children of the pool ignore.
Deliver(f, text) ==
    LET c == owner[f] IN
    \/ /\ conn[c] \in {"open", "fin"} /\ f \notin shut
       /\ \E n \in 0 .. Len(text) : fromServer' = [fromServer EXCEPT ![c] = @ \o SubSeq(text, 1, n)]
       /\ buf' = [buf EXCEPT ![f] = <<>>]
       /\ UNCHANGED pc
    \/ /\ conn[c] = "gone" /\ f \notin shut /\ text # <<>>
       /\ buf' = [buf EXCEPT ![f] = <<>>]
       /\ UNCHANGED <<fromServer, pc>>
    \/ /\ buf' = [buf EXCEPT ![f] = text]
       /\ pc' \in {pc} \cup (IF conn[c] = "gone" /\ mode # "user" THEN {"killed"} ELSE {})
       /\ UNCHANGED fromServer

\* read() takes the first n messages there are.
Takes(f, n) ==
    /\ n \in 1 .. Len(toServer[owner[f]])
    /\ toServer' = [toServer EXCEPT ![owner[f]] = SubSeq(@, n + 1, Len(@))]

Got(f, n) == SubSeq(toServer[owner[f]], 1, n)
IsExit(f, n) == n = 1 /\ Got(f, n)[1] \in Exits

\* read() fails: nothing there (EAGAIN), or the descriptor is closed.
ReadNothing(f) ==
    /\ Handle(f, "in")
    /\ ~Readable(f) \/ f \notin clients
    /\ UNCHANGED <<peers, mode, pc, owner, pending, clients, buf, out, shut>>

AtEnd(f) == owner[f] # Nil /\ toServer[owner[f]] = <<>> /\ conn[owner[f]] \in {"fin", "gone"}

\* readAndResponseSocket()
readAndResponseSocket(f, n) ==
    /\ mode \in {"select", "epoll"} /\ Handle(f, "in") /\ owner[f] # Nil
    /\ \/ /\ Len(toServer[owner[f]]) >= n /\ IsExit(f, n)
          /\ CloseClient(f)
          /\ UNCHANGED <<fromServer, pc, buf>>
       \/ /\ Takes(f, n) /\ ~IsExit(f, n)
          /\ Deliver(f, buf[f] \o Got(f, n))
          /\ UNCHANGED <<conn, owner, clients>>
    /\ UNCHANGED <<sent, mode, pending, out, shut>>

ReadEnd(f) ==
    /\ mode \in {"select", "epoll"} /\ Handle(f, "in") /\ AtEnd(f)
    /\ CloseClient(f)
    /\ UNCHANGED <<sent, fromServer, mode, pc, pending, buf, out, shut>>

\* CProcessUser::readSocket().  The word exit stays in m_readbuf, which goes to
\* m_writebuf with the next message: nothing can be written then.
readSocket(f, n) ==
    /\ mode = "user" /\ Handle(f, "in") /\ f \in clients
    /\ \/ /\ Takes(f, n)
          /\ buf' = [buf EXCEPT ![f] = @ \o Got(f, n)]
          /\ IF IsExit(f, n) THEN shut' = shut \cup {f} /\ UNCHANGED out
                             ELSE out' = out \cup {f} /\ UNCHANGED shut
          /\ UNCHANGED clients
       \/ /\ n = 1 /\ AtEnd(f)
          /\ clients' = clients \ {f} /\ buf' = [buf EXCEPT ![f] = <<>>]
          /\ UNCHANGED <<toServer, out, shut>>
    /\ UNCHANGED <<conn, sent, fromServer, mode, pc, owner, pending>>

\* CProcessUser::writeSocket()
writeSocket(f) ==
    /\ mode = "user" /\ Handle(f, "out") /\ f \in clients
    /\ out' = out \ {f}
    /\ Deliver(f, buf[f])
    /\ UNCHANGED <<conn, sent, toServer, mode, owner, pending, clients, shut>>

Longest == Max({MaxMsgs[c] : c \in Conns} \cup {1})

Server ==
    \/ Wait \/ AcceptFails
    \/ \E f \in Fds :
          \/ Accept(f) \/ ReadNothing(f) \/ ReadEnd(f) \/ writeSocket(f)
          \/ \E n \in 1 .. Longest : readAndResponseSocket(f, n) \/ readSocket(f, n)

EchoNext ==
    \/ \E c \in Conns : Arrives(c) \/ Send(c) \/ HangUp(c, "fin") \/ HangUp(c, "gone")
    \/ Server

EchoSpec == EchoInit /\ [][EchoNext]_echoVars /\ WF_echoVars(Server)

-----------------------------------------------------------------------------
EchoTypeOK ==
    /\ pc \in {"run", "ended", "killed"}
    /\ conn \in [Conns -> {"away", "queued", "open", "fin", "gone", "closed"}]
    /\ owner \in [Fds -> Conns \cup {Nil}]
    /\ events \subseteq {<<0, "in">>} \cup (Fds \X {"in", "out"})
    /\ clients \cup out \cup shut \subseteq Fds

\* Descriptors and entries stay together, however lists, batches and descriptors
\* are reused: find( fd ) has a result wherever it is dereferenced, no entry is
\* left of a client that was closed, and no descriptor without an entry but
\* those that a user leaves open when its client closes.
ClientsAreOpen ==
    /\ EchoTypeOK
    /\ \A f \in clients : owner[f] # Nil
    /\ mode # "user" => clients = {f \in Fds : owner[f] # Nil}
    /\ \A f \in Fds \ clients : owner[f] # Nil => conn[owner[f]] \in {"fin", "gone"}

\* A client gets back its own messages, in the order it sent them and none
\* twice, whatever write() drops or keeps and whoever had the descriptor before.
EchoInOrder ==
    \A c \in Conns :
        LET back == fromServer[c] IN
        /\ \A i \in DOMAIN back : back[i][1] = c
        /\ \A i, j \in DOMAIN back : i < j => back[i][2] < back[j][2]

\* What an accepted client sends is read, unless the server has ended, or no
\* descriptor is left and accept() fails in front of it in every batch.
EverythingIsRead ==
    \A c \in Conns :
        (conn[c] \in {"open", "fin", "gone"} /\ toServer[c] # <<>>)
            ~> (toServer[c] = <<>> \/ pc # "run" \/ (pending # <<>> /\ FreeFds = {}))
=============================================================================
