----------------------------- MODULE ProcessPool -----------------------------
(***************************************************************************)
(* epoll/processpoolserver.h with util.h: a parent that watches the        *)
(* listening socket and tells one of its children, in turn, to accept, and *)
(* children that die and are reaped, or are told to stop.                  *)
(*                                                                         *)
(* Connections are counted: which one a child gets does not matter, and    *)
(* what it does with it is in EchoServers.  A notification is the four     *)
(* bytes send() writes and recv() reads.  Every socket is registered       *)
(* edge-triggered: an event is news since the last epoll_wait(), which     *)
(* returns all there is at once.                                           *)
(***************************************************************************)
EXTENDS Integers, FiniteSets

CONSTANTS
    m_process_number,
    MaxConns             \* bound: connections that are made

ASSUME PoolAssumption == m_process_number \in Nat \ {0} /\ MaxConns \in Nat

Children == 0 .. m_process_number - 1

VARIABLES
    made, backlog,       \* connections made, and of them those not accepted
    listening,           \* m_listenfd has news for the parent
    parent,              \* starting: before setup_sig_pipe(), running, stopped, killed
    batch,               \* the parent's events not handled yet
    m_stop,              \* the parent's
    sub_process_counter,
    known,               \* children i whose m_sub_process[i].m_pid is not -1
    sigs,                \* signals in the parent's pipe
    child,               \* starting, running, stopping: m_stop of the child, dead
    cbatch,              \* of each child: its events not handled yet
    pipe,                \* of each child: notifications in m_pipefd
    news,                \* of each child: m_pipefd[1] has news
    csig,                \* of each child: SIGTERM is in its signal pipe
    heard,               \* history: a child died after the parent's setup_sig_pipe()
    termed               \* history: the parent has handled SIGTERM

network == <<made, backlog, listening>>
parents == <<parent, batch, m_stop, sub_process_counter, known>>
kids    == <<child, cbatch, pipe, news, csig>>
history == <<heard, termed>>
vars    == <<network, parents, sigs, kids, history>>

Alive == {i \in Children : child[i] # "dead"}

Init ==
    /\ made = 0 /\ backlog = 0 /\ listening = FALSE
    /\ parent = "starting" /\ batch = {} /\ m_stop = FALSE
    /\ sub_process_counter = 0 /\ known = Children /\ sigs = {}
    /\ child = [i \in Children |-> "starting"]
    /\ cbatch = [i \in Children |-> {}]
    /\ pipe = [i \in Children |-> 0]
    /\ news = [i \in Children |-> FALSE] /\ csig = [i \in Children |-> FALSE]
    /\ heard = FALSE /\ termed = FALSE

-----------------------------------------------------------------------------
(* The outside.                                                            *)

Connect ==
    /\ made < MaxConns
    /\ made' = made + 1 /\ backlog' = backlog + 1 /\ listening' = TRUE
    /\ UNCHANGED <<parents, sigs, kids, history>>

\* SIGTERM or SIGINT: without the handler it kills, and the children stay.
Terminate ==
    /\ parent \in {"starting", "running"} /\ ~termed
    /\ IF parent = "starting"
       THEN parent' = "killed" /\ UNCHANGED sigs
       ELSE sigs' = sigs \cup {"SIGTERM"} /\ UNCHANGED parent
    /\ UNCHANGED <<network, batch, m_stop, sub_process_counter, known, kids, history>>

\* These children end, and what is in their pipes is lost.  Without the
\* handler SIGCHLD is ignored.
Bury(S) ==
    /\ child' = [i \in Children |-> IF i \in S THEN "dead" ELSE child[i]]
    /\ pipe' = [i \in Children |-> IF i \in S THEN 0 ELSE pipe[i]]
    /\ cbatch' = [i \in Children |-> IF i \in S THEN {} ELSE cbatch[i]]
    /\ heard' = (heard \/ (S # {} /\ parent = "running"))

Chld(S) == IF S # {} /\ parent = "running" THEN {"SIGCHLD"} ELSE {}

Crash(i) ==
    /\ i \in Alive
    /\ Bury({i}) /\ sigs' = sigs \cup Chld({i})
    /\ UNCHANGED <<network, parents, news, csig, termed>>

-----------------------------------------------------------------------------
(* The parent.                                                             *)

\* setup_sig_pipe(), and m_listenfd is registered with what it has.
ParentSetup ==
    /\ parent = "starting"
    /\ parent' = "running" /\ listening' = (backlog > 0)
    /\ UNCHANGED <<made, backlog, batch, m_stop, sub_process_counter, known, sigs, kids, history>>

ParentWait ==
    /\ parent = "running" /\ batch = {} /\ ~m_stop
    /\ batch' = (IF listening /\ backlog > 0 THEN {"listen"} ELSE {}) \cup (IF sigs # {} THEN {"sig"} ELSE {})
    /\ batch' # {}
    /\ listening' = FALSE
    /\ UNCHANGED <<made, backlog, parent, m_stop, sub_process_counter, known, sigs, kids, history>>

\* The first child from sub_process_counter on that has not been reaped.
IsNext(i) ==
    LET turn(j) == (j - sub_process_counter) % m_process_number
    IN  i \in known /\ \A j \in known : turn(i) <= turn(j)

\* One notification, however many connections are new; to a child that died and
\* was not reaped yet, or that has stopped, it is lost (EPIPE).
Notify(i) ==
    /\ sub_process_counter' = (i + 1) % m_process_number
    /\ IF i \in Alive
       THEN pipe' = [pipe EXCEPT ![i] = @ + 1] /\ news' = [news EXCEPT ![i] = TRUE]
       ELSE UNCHANGED <<pipe, news>>

ListenEvent ==
    /\ "listen" \in batch
    /\ \/ /\ known = {}
          /\ m_stop' = TRUE /\ batch' = {}
          /\ UNCHANGED <<sub_process_counter, pipe, news>>
       \/ /\ \E i \in Children : IsNext(i) /\ Notify(i)
          /\ batch' = batch \ {"listen"}
          /\ UNCHANGED m_stop
    /\ UNCHANGED <<network, parent, known, sigs, child, cbatch, csig, history>>

\* Mutant: the last child is passed over.
KillAllButLast(S) ==
    LET some == S \ {m_process_number - 1}
        bare == {i \in some \cap Alive : child[i] = "starting"} IN
    /\ Bury(bare) /\ sigs' = Chld(bare)
    /\ csig' = [i \in Children |-> csig[i] \/ (i \in some /\ child[i] \in {"running", "stopping"})]

\* kill( SIGTERM ): a child without the handler dies of it.
KillAll(S) ==
    LET bare == {i \in S \cap Alive : child[i] = "starting"} IN
    /\ Bury(bare) /\ sigs' = Chld(bare)
    /\ csig' = [i \in Children |-> csig[i] \/ (i \in S /\ child[i] \in {"running", "stopping"})]

\* Mutant: one waitpid() for each SIGCHLD.
ReapOne ==
    /\ known' = IF known \subseteq Alive THEN known ELSE known \ {CHOOSE i \in known : i \notin Alive}
    /\ m_stop' = (known' = {})

\* Mutant: m_stop is not reset for the children that are left.
ReapStops == known' = known \cap Alive /\ m_stop' = TRUE

Reap == known' = known \cap Alive /\ m_stop' = (known' = {})

\* All signals in the pipe.  SIGCHLD: every dead child is reaped, whichever
\* death the signal was for.  SIGTERM: the children that are not are killed.
SignalEvent ==
    /\ "sig" \in batch /\ batch' = batch \ {"sig"}
    /\ \/ /\ "SIGTERM" \in sigs
          /\ KillAll(known) /\ termed' = TRUE
       \/ /\ "SIGTERM" \notin sigs
          /\ sigs' = {} /\ UNCHANGED <<child, pipe, cbatch, csig, heard, termed>>
    /\ IF "SIGCHLD" \in sigs
       THEN Reap
       ELSE UNCHANGED <<known, m_stop>>
    /\ UNCHANGED <<network, parent, sub_process_counter, news>>

\* The loop ends after the batch.
ParentStops ==
    /\ parent = "running" /\ m_stop /\ batch = {}
    /\ parent' = "stopped"
    /\ UNCHANGED <<network, batch, m_stop, sub_process_counter, known, sigs, kids, history>>

-----------------------------------------------------------------------------
(* A child.                                                                *)

ChildSetup(i) ==
    /\ child[i] = "starting"
    /\ child' = [child EXCEPT ![i] = "running"]
    /\ news' = [news EXCEPT ![i] = pipe[i] > 0]
    /\ UNCHANGED <<network, parents, sigs, cbatch, pipe, csig, history>>

ChildWait(i) ==
    /\ child[i] = "running" /\ cbatch[i] = {}
    /\ cbatch' = [cbatch EXCEPT ![i] = (IF news[i] THEN {"pipe"} ELSE {}) \cup
                                       (IF csig[i] THEN {"sig"} ELSE {})]
    /\ cbatch'[i] # {}
    /\ news' = [news EXCEPT ![i] = FALSE]
    /\ UNCHANGED <<network, parents, sigs, child, pipe, csig, history>>

\* Mutant: the child accepts until there is no connection left.
PipeEventAcceptsAll(i) ==
    /\ "pipe" \in cbatch[i]
    /\ cbatch' = [cbatch EXCEPT ![i] = @ \ {"pipe"}]
    /\ pipe' = [pipe EXCEPT ![i] = IF @ > 0 THEN @ - 1 ELSE 0]
    /\ backlog' = 0
    /\ UNCHANGED <<made, listening, parents, sigs, child, news, csig, history>>

\* One notification is read, others stay without news.  If there is none
\* (EAGAIN) the child accepts all the same.
PipeEvent(i) ==
    /\ "pipe" \in cbatch[i]
    /\ cbatch' = [cbatch EXCEPT ![i] = @ \ {"pipe"}]
    /\ pipe' = [pipe EXCEPT ![i] = IF @ > 0 THEN @ - 1 ELSE 0]
    /\ backlog' = IF backlog > 0 THEN backlog - 1 ELSE 0
    /\ UNCHANGED <<made, listening, parents, sigs, child, news, csig, history>>

ChildSignalEvent(i) ==
    /\ "sig" \in cbatch[i]
    /\ cbatch' = [cbatch EXCEPT ![i] = @ \ {"sig"}]
    /\ child' = [child EXCEPT ![i] = "stopping"]
    /\ csig' = [csig EXCEPT ![i] = FALSE]
    /\ UNCHANGED <<network, parents, sigs, pipe, news, history>>

ChildStops(i) ==
    /\ child[i] = "stopping" /\ cbatch[i] = {}
    /\ Bury({i}) /\ sigs' = sigs \cup Chld({i})
    /\ UNCHANGED <<network, parents, news, csig, termed>>

Parent == ParentSetup \/ ParentWait \/ ListenEvent \/ SignalEvent \/ ParentStops
Child(i) == ChildSetup(i) \/ ChildWait(i) \/ PipeEvent(i) \/ ChildSignalEvent(i) \/ ChildStops(i)

Next ==
    \/ Connect \/ Terminate
    \/ Parent
    \/ \E i \in Children : Crash(i) \/ Child(i)

Spec == Init /\ [][Next]_vars /\ WF_vars(Parent) /\ \A i \in Children : WF_vars(Child(i))

-----------------------------------------------------------------------------
TypeOK ==
    /\ made \in 0 .. MaxConns /\ backlog \in 0 .. made /\ listening \in BOOLEAN
    /\ parent \in {"starting", "running", "stopped", "killed"}
    /\ batch \subseteq {"listen", "sig"} /\ m_stop \in BOOLEAN
    /\ sub_process_counter \in Children /\ known \subseteq Children
    /\ sigs \subseteq {"SIGCHLD", "SIGTERM"}
    /\ child \in [Children -> {"starting", "running", "stopping", "dead"}]
    /\ cbatch \in [Children -> SUBSET {"pipe", "sig"}] /\ pipe \in [Children -> Nat]
    /\ news \in [Children -> BOOLEAN] /\ csig \in [Children -> BOOLEAN]
    /\ heard \in BOOLEAN /\ termed \in BOOLEAN

\* A child that handles an event of its pipe has a notification and a connection
\* to accept, however edges are merged and whichever children die: neither
\* recv() nor accept() ever finds nothing.
AcceptFindsConnection ==
    /\ TypeOK
    /\ \A i \in Children : "pipe" \in cbatch[i] => pipe[i] > 0 /\ backlog > 0

\* The parent does not leave a child behind when it stops, and sends to none
\* that it has reaped.
ParentOutlives ==
    /\ known = {} => Alive = {}
    /\ parent = "stopped" => known = {}

\* When the last child is gone the parent stops, however SIGCHLD signals
\* coalesce, if it was listening for them when one of the children died.
StopsWithLastChild ==
    (Alive = {} /\ heard /\ parent = "running") ~> parent = "stopped"

\* SIGTERM to the parent, once it handles it, ends all children, also those
\* that have not installed a handler yet.
TerminateEndsAll == termed ~> Alive = {}
=============================================================================
