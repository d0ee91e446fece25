----------------------------- MODULE ThreadPool -----------------------------
(***************************************************************************)
(* epoll/threadpool.h: a fixed set of detached worker threads fed by a     *)
(* list behind a mutex (m_queuelocker) and a semaphore (m_queuestat) that  *)
(* is posted once for every request accepted.                              *)
(*                                                                         *)
(* A critical section of m_queuelocker is one action: until the pool ends  *)
(* the list is touched nowhere else.  The post that follows append()'s     *)
(* critical section and the sem_wait that precedes the worker's are        *)
(* actions of their own, so every interleaving of the mutex with the       *)
(* semaphore is a behaviour.                                               *)
(***************************************************************************)
EXTENDS Integers, Sequences, FiniteSets

CONSTANTS
    Workers,       \* the threads the constructor creates (m_thread_number)
    Callers,       \* the threads that call append()
    Requests,      \* the requests they may append
    NullRequest,   \* the null T*, which append() does not refuse
    None,          \* "holds no request"
    MaxRequests,   \* m_max_requests
    SemBound       \* bound: an interrupt is not modelled above this count

ASSUME PoolAssumption ==
    /\ Workers # {} /\ IsFiniteSet(Workers)
    /\ Callers # {} /\ IsFiniteSet(Callers)
    /\ Workers \cap Callers = {}
    /\ NullRequest \notin Requests
    /\ None \notin Requests \cup {NullRequest}
    /\ MaxRequests \in Nat \ {0}     \* the constructor throws otherwise
    /\ SemBound \in Nat

VARIABLES
    m_workqueue,   \* the std::list of pending requests
    m_queuestat,   \* the semaphore's count
    m_stop,        \* set by the destructor
    freed,         \* the members have ended and the object is given back
    pc,            \* where each thread is
    request,       \* the request each thread has in hand
    interrupts     \* sem_wait() may fail with EINTR: a signal handler of the process
                   \* was installed without SA_RESTART, which addsig() sets by default

vars == <<m_workqueue, m_queuestat, m_stop, freed, pc, request, interrupts>>

Pointers == Requests \cup {NullRequest}
Threads  == Workers \cup Callers

Awake   == {w \in Workers : pc[w] = "awake"}    \* sem_wait took a unit, list not locked yet
Posting == {a \in Callers : pc[a] = "post"}     \* list unlocked, semaphore not posted yet

-----------------------------------------------------------------------------
\* State after the constructor: every worker is about to test m_stop.
Init ==
    /\ m_workqueue = <<>>
    /\ m_queuestat = 0
    /\ m_stop = FALSE
    /\ freed = FALSE
    /\ pc = [t \in Threads |-> IF t \in Workers THEN "loop" ELSE "idle"]
    /\ request = [t \in Threads |-> None]
    /\ interrupts \in BOOLEAN

\* Mutant: the early return of the refusal is lost, the semaphore is posted.
AppendRefusedPosts(a) ==
    /\ pc[a] = "idle" /\ ~m_stop
    /\ Len(m_workqueue) > MaxRequests
    /\ pc' = [pc EXCEPT ![a] = "post"]
    /\ UNCHANGED <<m_workqueue, m_queuestat, m_stop, freed, request, interrupts>>

\* Mutant: append() returns without posting the semaphore.
AppendWithoutPost(a, r) ==
    /\ pc[a] = "idle" /\ ~m_stop
    /\ ~(Len(m_workqueue) > MaxRequests)
    /\ m_workqueue' = Append(m_workqueue, r)
    /\ UNCHANGED <<m_queuestat, m_stop, freed, pc, request, interrupts>>

-----------------------------------------------------------------------------
\* append(): the size test lets the list grow to m_max_requests + 1.
AppendRefused(a) ==
    /\ pc[a] = "idle" /\ ~m_stop
    /\ Len(m_workqueue) > MaxRequests
    /\ UNCHANGED vars

AppendAccepted(a, r) ==
    /\ pc[a] = "idle" /\ ~m_stop
    /\ ~(Len(m_workqueue) > MaxRequests)
    /\ m_workqueue' = Append(m_workqueue, r)
    /\ pc' = [pc EXCEPT ![a] = "post"]
    /\ UNCHANGED <<m_queuestat, m_stop, freed, request, interrupts>>

AppendPost(a) ==
    /\ pc[a] = "post"
    /\ m_queuestat' = m_queuestat + 1
    /\ pc' = [pc EXCEPT ![a] = "idle"]
    /\ UNCHANGED <<m_workqueue, m_stop, freed, request, interrupts>>

\* run(): while( ! m_stop )
TestStop(w) ==
    /\ pc[w] = "loop" /\ ~freed
    /\ pc' = [pc EXCEPT ![w] = IF m_stop THEN "exited" ELSE "wait"]
    /\ UNCHANGED <<m_workqueue, m_queuestat, m_stop, freed, request, interrupts>>

SemWait(w) ==
    /\ pc[w] = "wait" /\ ~freed
    /\ m_queuestat > 0
    /\ m_queuestat' = m_queuestat - 1
    /\ pc' = [pc EXCEPT ![w] = "awake"]
    /\ UNCHANGED <<m_workqueue, m_stop, freed, request, interrupts>>

\* sem_wait() fails with EINTR and run() does not look at the result.
SemInterrupted(w) ==
    /\ interrupts
    /\ pc[w] = "wait" /\ ~freed
    /\ m_queuestat < SemBound
    /\ pc' = [pc EXCEPT ![w] = "spurious"]
    /\ UNCHANGED <<m_workqueue, m_queuestat, m_stop, freed, request, interrupts>>

FoundEmpty(w) ==
    /\ pc[w] \in {"awake", "spurious"} /\ ~freed
    /\ m_workqueue = <<>>
    /\ pc' = [pc EXCEPT ![w] = "loop"]
    /\ UNCHANGED <<m_workqueue, m_queuestat, m_stop, freed, request, interrupts>>

TakeFront(w) ==
    /\ pc[w] \in {"awake", "spurious"} /\ ~freed
    /\ m_workqueue # <<>>
    /\ m_workqueue' = Tail(m_workqueue)
    /\ IF Head(m_workqueue) = NullRequest
       THEN /\ pc' = [pc EXCEPT ![w] = "loop"]
            /\ UNCHANGED request
       ELSE /\ pc' = [pc EXCEPT ![w] = "process"]
            /\ request' = [request EXCEPT ![w] = Head(m_workqueue)]
    /\ UNCHANGED <<m_queuestat, m_stop, freed, interrupts>>

\* request->process() returns.
ProcessReturns(w) ==
    /\ pc[w] = "process"
    /\ pc' = [pc EXCEPT ![w] = "loop"]
    /\ request' = [request EXCEPT ![w] = None]
    /\ UNCHANGED <<m_workqueue, m_queuestat, m_stop, freed, interrupts>>

\* ~threadpool() sets m_stop, posts nothing and joins nobody.
Destroy ==
    /\ ~m_stop
    /\ \A a \in Callers : pc[a] = "idle"
    /\ m_stop' = TRUE
    /\ UNCHANGED <<m_workqueue, m_queuestat, freed, pc, request, interrupts>>

\* Behind the destructor's body the semaphore, the mutex and the list end, and
\* delete gives the object back, whatever the workers are doing.
MembersEnd ==
    /\ m_stop /\ ~freed
    /\ freed' = TRUE
    /\ m_workqueue' = <<>>
    /\ m_queuestat' = 0
    /\ UNCHANGED <<m_stop, pc, request, interrupts>>

\* A worker that is in run() then uses what is no more, one between lock() and
\* unlock() included.  That has no meaning in the language, and the model follows
\* the worker no further.
UseAfterFree(w) ==
    /\ freed
    /\ pc[w] \in {"loop", "wait", "awake", "spurious"}
    /\ pc' = [pc EXCEPT ![w] = "undefined"]
    /\ UNCHANGED <<m_workqueue, m_queuestat, m_stop, freed, request, interrupts>>

AppendCall(a) == AppendRefused(a) \/ \E r \in Pointers : AppendAccepted(a, r)

RunWorker(w) ==
    \/ TestStop(w)
    \/ SemWait(w)
    \/ FoundEmpty(w)
    \/ TakeFront(w)
    \/ ProcessReturns(w)

Next ==
    \/ \E a \in Callers : AppendCall(a) \/ AppendPost(a)
    \/ \E w \in Workers : RunWorker(w) \/ SemInterrupted(w) \/ UseAfterFree(w)
    \/ Destroy
    \/ MembersEnd

Spec == Init /\ [][Next]_vars

\* The scheduler runs every thread that can run, and process() returns.
\* Nothing forces a caller to append, nor sem_wait to be interrupted.
Fairness ==
    /\ \A a \in Callers : WF_vars(AppendPost(a))
    /\ \A w \in Workers : WF_vars(RunWorker(w))

FairSpec == Spec /\ Fairness

-----------------------------------------------------------------------------
\* Every variable holds a value of its type; a thread has a request in hand
\* exactly while it is inside process().
TypeOK ==
    /\ m_workqueue \in Seq(Pointers)
    /\ m_queuestat \in Nat
    /\ m_stop \in BOOLEAN
    /\ freed \in BOOLEAN
    /\ pc \in [Threads -> {"idle", "post", "loop", "wait", "awake", "spurious",
                           "process", "exited", "undefined"}]
    /\ \A a \in Callers : pc[a] \in {"idle", "post"}
    /\ \A w \in Workers : pc[w] \notin {"idle", "post"}
    /\ request \in [Threads -> Requests \cup {None}]
    /\ interrupts \in BOOLEAN
    /\ \A t \in Threads : request[t] # None <=> pc[t] = "process"

\* No wakeup is lost: there are never more requests in the list than units
\* in the semaphore, workers already woken and callers about to post.  So a
\* request can not stay in the list while all the workers sleep.
NoLostWakeup ==
    Len(m_workqueue) <= m_queuestat + Cardinality(Awake) + Cardinality(Posting)

\* When sem_wait is never interrupted, the accounting is exact as long as the
\* pool is there: the empty test of run() never succeeds for a worker that was
\* woken by a post.
WokenFindsWork ==
    ~interrupts /\ ~freed =>
        /\ Len(m_workqueue) = m_queuestat + Cardinality(Awake) + Cardinality(Posting)
        /\ Awake # {} => m_workqueue # <<>>

\* append() refuses only above m_max_requests, so the list may reach one
\* more than m_max_requests, and never two.
CapacityBound == Len(m_workqueue) <= MaxRequests + 1

\* While the pool is not destroyed, a request that append() accepted is
\* handed to a worker's process().
AcceptedIsServed ==
    \A r \in Requests :
        (\E i \in DOMAIN m_workqueue : m_workqueue[i] = r)
            ~> (m_stop \/ \E w \in Workers : request[w] = r)
=============================================================================
