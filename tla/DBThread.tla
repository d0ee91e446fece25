------------------------------ MODULE DBThread -------------------------------
(***************************************************************************)
(* TestDB/dbthread.cpp: a thread with a list of requests, one caller that  *)
(* adds to it, stops the thread and starts it again (CDBManager has two of *)
(* these threads, which share nothing).  Requests are numbered; what one   *)
(* does in the database is left out, but for the time it takes.            *)
(***************************************************************************)
EXTENDS Integers, Sequences, SequencesExt

CONSTANTS
    MaxReqs,      \* bound: calls of addReq()
    MaxStops      \* bound: calls of stop()

ASSUME DBAssumption == MaxReqs \in Nat /\ MaxStops \in Nat

VARIABLES
    m_bStop, m_reqList,
    tpc,          \* the thread: none, top, waiting, woken, process; locked, held: it has m_mutex;
                  \* torn: the list changed under it while it used it, what follows is undefined
    item,         \* the request it processes, 0 if it has none
    cpc,          \* the caller: idle, wait: in wait( THREAD_WAIT_TIEMOUT ), reset, clear, torn
    \* history
    added, done,  \* number of requests added, those processed
    dropped,      \* those stop() has cleared
    stops,
    late          \* a stop() gave up waiting for the thread

thread  == <<tpc, item>>
history == <<added, done, dropped, stops, late>>
dbVars  == <<m_bStop, m_reqList, thread, cpc, history>>

DBInit ==
    /\ m_bStop = FALSE /\ m_reqList = <<>>
    /\ tpc = "top" /\ item = 0 /\ cpc = "idle"
    /\ added = 0 /\ done = <<>> /\ dropped = {} /\ stops = 0
    /\ late = FALSE

Goes(from, to) == tpc = from /\ tpc' = to
MutexFree == tpc \notin {"locked", "held", "torn"}

-----------------------------------------------------------------------------
(* The caller.  wakeOne() and wakeAll() meet one thread.                   *)

Wakes == tpc' = IF tpc = "waiting" THEN "woken" ELSE tpc

\* Mutant: nobody is woken.
addReqSilently ==
    /\ cpc = "idle" /\ MutexFree /\ added < MaxReqs
    /\ added' = added + 1 /\ m_reqList' = Append(m_reqList, added')
    /\ UNCHANGED <<m_bStop, thread, cpc, done, dropped, stops, late>>

addReq ==
    /\ cpc = "idle" /\ MutexFree /\ added < MaxReqs
    /\ added' = added + 1 /\ m_reqList' = Append(m_reqList, added')
    /\ Wakes
    /\ UNCHANGED <<m_bStop, item, cpc, done, dropped, stops, late>>

wake ==
    /\ cpc = "idle" /\ MutexFree /\ tpc = "waiting"
    /\ Wakes
    /\ UNCHANGED <<m_bStop, m_reqList, item, cpc, history>>

stop ==
    /\ cpc = "idle" /\ MutexFree /\ stops < MaxStops
    /\ stops' = stops + 1
    /\ m_bStop' = TRUE /\ cpc' = "wait"
    /\ Wakes
    /\ UNCHANGED <<m_reqList, item, added, done, dropped, late>>

\* Mutant: the list is cleared before the thread has ended.
StopWaitsNot ==
    /\ cpc = "wait"
    /\ cpc' = "reset"
    /\ UNCHANGED <<m_bStop, m_reqList, thread, history>>

\* wait() returns when the thread has ended, or too late.
StopWaits ==
    /\ cpc = "wait"
    /\ cpc' = "reset" /\ late' = (late \/ tpc # "none")
    /\ UNCHANGED <<m_bStop, m_reqList, thread, added, done, dropped, stops>>

\* A thread that has not seen m_bStop by now goes on.
StopResets ==
    /\ cpc = "reset"
    /\ m_bStop' = FALSE /\ cpc' = "clear"
    /\ UNCHANGED <<m_reqList, thread, history>>

\* Without the mutex: a thread that works on the list meets it half cleared.
StopClears ==
    /\ cpc = "clear"
    /\ dropped' = dropped \cup ToSet(m_reqList) /\ m_reqList' = <<>>
    /\ IF MutexFree THEN cpc' = "idle" /\ tpc' = tpc ELSE cpc' = "torn" /\ tpc' = "torn"
    /\ UNCHANGED <<m_bStop, item, added, done, stops, late>>

\* QThread::start() does nothing while the thread runs.
startRun ==
    /\ cpc = "idle" /\ tpc = "none"
    /\ m_bStop' = FALSE /\ tpc' = "top"
    /\ UNCHANGED <<m_reqList, item, cpc, history>>

-----------------------------------------------------------------------------
(* run()                                                                   *)

Top ==
    /\ Goes("top", IF m_bStop THEN "none" ELSE "locked")
    /\ UNCHANGED <<m_bStop, m_reqList, item, cpc, history>>

\* One wait(), whatever wakes it.
Waits ==
    /\ m_reqList = <<>> /\ ~m_bStop /\ Goes("locked", "waiting")
    /\ UNCHANGED <<m_bStop, m_reqList, item, cpc, history>>

Reacquires ==
    /\ Goes("woken", "held")
    /\ UNCHANGED <<m_bStop, m_reqList, item, cpc, history>>

Takes ==
    /\ tpc \in {"locked", "held"}
    /\ \/ m_bStop /\ tpc' = "none" /\ UNCHANGED <<m_reqList, item>>
       \/ /\ ~m_bStop /\ m_reqList # <<>>
          /\ item' = Head(m_reqList) /\ m_reqList' = Tail(m_reqList)
          /\ tpc' = "process"
       \/ ~m_bStop /\ m_reqList = <<>> /\ Goes("held", "top") /\ UNCHANGED <<m_reqList, item>>
    /\ UNCHANGED <<m_bStop, cpc, history>>

processItem ==
    /\ Goes("process", "top")
    /\ done' = Append(done, item) /\ item' = 0
    /\ UNCHANGED <<m_bStop, m_reqList, cpc, added, dropped, stops, late>>

Stops  == StopWaits \/ StopResets \/ StopClears
Thread == Top \/ Waits \/ Reacquires \/ Takes \/ processItem

DBNext == addReq \/ wake \/ stop \/ startRun \/ Stops \/ Thread

DBSpec == DBInit /\ [][DBNext]_dbVars /\ WF_dbVars(Stops) /\ WF_dbVars(Thread)

-----------------------------------------------------------------------------
DBTypeOK ==
    /\ m_bStop \in BOOLEAN /\ late \in BOOLEAN
    /\ tpc \in {"none", "top", "locked", "held", "waiting", "woken", "process", "torn"}
    /\ cpc \in {"idle", "wait", "reset", "clear", "torn"}
    /\ m_reqList \in Seq(Nat) /\ done \in Seq(Nat) /\ item \in Nat
    /\ added \in 0 .. MaxReqs /\ stops \in 0 .. MaxStops

\* Requests that were not dropped, in the order they are served in.
Taken == IF item = 0 THEN done ELSE Append(done, item)
Rest  == Taken \o m_reqList

Increasing(s) == \A i, j \in DOMAIN s : i < j => s[i] < s[j]

\* Every request is processed once, in order, or was dropped by stop(); the
\* thread meets the list while stop() clears it only if stop() gave up waiting
\* for it, and else it has ended when stop() returns.
OnceInOrder ==
    /\ DBTypeOK
    /\ tpc # "torn" => /\ Increasing(Rest)
                       /\ ToSet(Rest) \cap dropped = {} /\ ToSet(Rest) \cup dropped = 1 .. added
    /\ ~late => tpc # "torn" /\ (cpc \in {"reset", "clear"} => tpc = "none")

\* A request is processed or dropped, unless the thread has ended: no wakeup is
\* lost between addReq() and the thread.
RequestIsServed ==
    \A r \in 1 .. MaxReqs :
        (r <= added /\ tpc # "none") ~> (r \in ToSet(done) \cup dropped \/ tpc \in {"none", "torn"})
=============================================================================
