------------------------------ MODULE AsyncLog -------------------------------
(***************************************************************************)
(* log/log.cpp and log/log.h (epoll/ has the same files): threads that log *)
(* lines, the file they go to, and, when the log is asynchronous, a queue  *)
(* and a thread that writes from the queue to the file.                    *)
(*                                                                         *)
(* The queue is the abstract BoundedFifo, which BlockQueue implements.     *)
(* write_log() has four critical sections, two of m_mutex and two of the   *)
(* queue's mutex, and another one for a line that does not go through the  *)
(* queue: one action each, but the second is taken together with the test  *)
(* of full(), as the line it formats is the thread's own afterwards.       *)
(*                                                                         *)
(* A line is <<w, n>>, the n-th of writer w.  What stdio holds back is the *)
(* part of written beyond synced; it may write earlier on its own.         *)
(***************************************************************************)
EXTENDS Integers, Sequences, FiniteSets

CONSTANTS
    Writers,      \* the threads that log
    MaxQueue,     \* max_queue_size
    SplitLines,   \* m_split_lines
    MaxLines,     \* bound: lines logged by all writers together
    LastDay,      \* bound: days are 1 .. LastDay
    FlushThread, NoLine

ASSUME LogAssumption ==
    /\ Writers # {} /\ IsFiniteSet(Writers)
    /\ MaxQueue \in Nat \ {0}
    /\ SplitLines \in Nat \ {0}
    /\ MaxLines \in Nat
    /\ LastDay \in Nat \ {0}
    /\ FlushThread \notin Writers
    /\ NoLine \notin Writers \X Nat

VARIABLES
    m_is_async,    \* init() was given a queue size
    m_log_queue,   \* the lines in the blocking queue
    single_log,    \* what the flush thread took from it last
    flusher,       \* the flush thread: pop, fputs
    m_count,       \* lines counted since the file of the day was opened
    m_today,       \* the day of the current file
    m_fp,          \* the current file: its day and its number, or closed
    opened,        \* history: how much was written when the file was opened
    late,          \* history: and how many lines had been counted and were not written
    written,       \* what fputs() was given: the line, its file, the thread
    synced,        \* how much of it has left the buffer of m_fp
    pc,            \* where each writer is
    calls,         \* lines each writer has begun to log
    stamp,         \* the day each writer read from the clock
    day,           \* the clock
    process,       \* run, exit: main() has returned, undefined: wrote to a closed file
    lost,          \* history: lines the queue refused
    rival          \* history: another writer has pushed since this one saw room

log   == <<m_count, m_today, m_fp, opened, late, written, synced>>
queue == <<m_log_queue, single_log>>
vars  == <<m_is_async, queue, flusher, log, pc, calls, stamp, day, process, lost, rival>>

Days     == 1 .. LastDay
Lines    == Writers \X (1 .. MaxLines)
Files    == Days \X (0 .. MaxLines)
Closed   == <<0, 0>>

LineOf(w) == <<w, calls[w]>>
Begun     == {l \in Lines : l[2] <= calls[l[1]]}

Queue == INSTANCE BoundedFifo WITH
    Threads <- {FlushThread}, Values <- Lines, Unset <- NoLine, Capacity <- MaxQueue,
    queue <- m_log_queue, item <- single_log

\* After init().
Init ==
    /\ m_is_async \in BOOLEAN
    /\ Queue!Init
    /\ flusher = "pop"
    /\ m_count = 0
    /\ m_today = 1
    /\ m_fp = <<1, 0>>
    /\ opened = 0
    /\ late = 0
    /\ written = <<>>
    /\ synced = 0
    /\ pc = [w \in Writers |-> "idle"]
    /\ calls = [w \in Writers |-> 0]
    /\ stamp = [w \in Writers |-> 1]
    /\ day = 1
    /\ process = "run"
    /\ lost = {}
    /\ rival = [w \in Writers |-> FALSE]

NextDay ==
    /\ process = "run" /\ day < LastDay
    /\ day' = day + 1
    /\ UNCHANGED <<m_is_async, queue, flusher, log, pc, calls, stamp, process, lost, rival>>

Go(w, from, to) == pc[w] = from /\ pc' = [pc EXCEPT ![w] = to]

\* fputs( line, m_fp )
Fputs(t, line) == written' = Append(written, [line |-> line, file |-> m_fp, by |-> t])

\* Lines that are counted and not written: they go to whatever file is open then.
InHand == IF flusher = "fputs" THEN {single_log[FlushThread]} ELSE {}

Late ==
    Cardinality({w \in Writers : pc[w] \in {"counted", "push", "direct"}})
        + Len(m_log_queue) + Cardinality(InHand)

\* fclose( m_fp ) and fopen() of another file, which is appended to.
Reopen(file) ==
    /\ m_fp' = file /\ synced' = Len(written)
    /\ opened' = Len(written) /\ late' = Late

-----------------------------------------------------------------------------
\* Mutant: the file is not split.
CountLineUnsplit(w) ==
    /\ Go(w, "stamped", "counted")
    /\ IF m_today # stamp[w]
       THEN m_today' = stamp[w] /\ m_count' = 0 /\ Reopen(<<stamp[w], 0>>)
       ELSE m_count' = m_count + 1 /\ UNCHANGED <<m_today, m_fp, opened, late, synced>>
    /\ UNCHANGED <<m_is_async, queue, flusher, written, calls, stamp, day, process, lost, rival>>

\* Mutant: full() is off by one.
TestFullLate(w) ==
    /\ Go(w, "counted", IF m_is_async /\ Len(m_log_queue) <= MaxQueue THEN "push" ELSE "direct")
    /\ rival' = [rival EXCEPT ![w] = FALSE]
    /\ UNCHANGED <<m_is_async, queue, flusher, log, calls, stamp, day, process, lost>>

\* Mutant: the macro does not call flush().
WriteDirectUnflushed(w) ==
    /\ Go(w, "direct", "idle")
    /\ Fputs(w, LineOf(w))
    /\ UNCHANGED <<m_is_async, queue, flusher, m_count, m_today, m_fp, opened, late, synced,
                   calls, stamp, day, process, lost, rival>>

\* Mutant: the line is looked at and left in the queue.
PopLineKeeps ==
    /\ flusher = "pop" /\ m_log_queue # <<>>
    /\ single_log' = [single_log EXCEPT ![FlushThread] = Head(m_log_queue)]
    /\ flusher' = "fputs"
    /\ UNCHANGED <<m_is_async, m_log_queue, log, pc, calls, stamp, day, process, lost, rival>>

\* Mutant: the thread ends after one line.
FlushThreadWritesOnce ==
    /\ flusher = "fputs" /\ process = "run"
    /\ Fputs(FlushThread, single_log[FlushThread])
    /\ flusher' = "ended"
    /\ UNCHANGED <<m_is_async, queue, m_count, m_today, m_fp, opened, late, synced,
                   pc, calls, stamp, day, process, lost, rival>>

\* Mutant: what waits is taken before the line in hand is written, and comes
\* out in the order of a stack.
FlushThreadWritesNewest ==
    /\ process = "run" /\ flusher = "fputs"
    /\ \/ /\ m_log_queue = <<>>
          /\ Fputs(FlushThread, single_log[FlushThread])
          /\ flusher' = "pop" /\ UNCHANGED m_log_queue
       \/ /\ m_log_queue # <<>>
          /\ Fputs(FlushThread, m_log_queue[Len(m_log_queue)])
          /\ m_log_queue' = SubSeq(m_log_queue, 1, Len(m_log_queue) - 1)
          /\ UNCHANGED flusher
    /\ UNCHANGED <<m_is_async, single_log, m_count, m_today, m_fp, opened, late, synced,
                   pc, calls, stamp, day, process, lost, rival>>

-----------------------------------------------------------------------------
(* A LOG_ macro: write_log(), then flush().                                *)

\* The time is read before the mutex is taken: around midnight a thread with
\* yesterday's date may come second, and CountLine turns m_today back.
WriteLog(w) ==
    /\ process = "run" /\ Cardinality(Begun) < MaxLines
    /\ Go(w, "idle", "stamped")
    /\ calls' = [calls EXCEPT ![w] = @ + 1]
    /\ stamp' = [stamp EXCEPT ![w] = day]
    /\ UNCHANGED <<m_is_async, queue, flusher, log, day, process, lost, rival>>

\* m_count++; another day starts its own file and count, and so does every
\* SplitLines-th line of a day with a file of that number.
CountLine(w) ==
    /\ Go(w, "stamped", "counted")
    /\ LET count == m_count + 1 IN
       \/ /\ m_today # stamp[w]
          /\ m_today' = stamp[w] /\ m_count' = 0
          /\ Reopen(<<stamp[w], 0>>)
       \/ /\ m_today = stamp[w] /\ count % SplitLines = 0
          /\ m_count' = count
          /\ Reopen(<<m_today, count \div SplitLines>>)
          /\ UNCHANGED m_today
       \/ /\ m_today = stamp[w] /\ count % SplitLines # 0
          /\ m_count' = count
          /\ UNCHANGED <<m_today, m_fp, opened, late, synced>>
    /\ UNCHANGED <<m_is_async, queue, flusher, written, calls, stamp, day, process, lost, rival>>

\* The line is formatted; m_is_async && !m_log_queue->full()
TestFull(w) ==
    /\ Go(w, "counted", IF m_is_async /\ Len(m_log_queue) < MaxQueue THEN "push" ELSE "direct")
    /\ rival' = [rival EXCEPT ![w] = FALSE]
    /\ UNCHANGED <<m_is_async, queue, flusher, log, calls, stamp, day, process, lost>>

\* push() may refuse what full() had room for, and nobody looks at the result.
PushLine(w) ==
    /\ Go(w, "push", "flush")
    /\ \/ /\ Queue!Put(LineOf(w))
          /\ rival' = [v \in Writers |-> rival[v] \/ v # w]
          /\ UNCHANGED lost
       \/ /\ Len(m_log_queue) >= MaxQueue
          /\ lost' = lost \cup {LineOf(w)}
          /\ UNCHANGED <<queue, rival>>
    /\ UNCHANGED <<m_is_async, flusher, log, calls, stamp, day, process>>

WriteDirect(w) ==
    /\ Go(w, "direct", "flush")
    /\ Fputs(w, LineOf(w))
    /\ UNCHANGED <<m_is_async, queue, flusher, m_count, m_today, m_fp, opened, late, synced,
                   calls, stamp, day, process, lost, rival>>

Flush(w) ==
    /\ Go(w, "flush", "idle")
    /\ synced' = Len(written)
    /\ UNCHANGED <<m_is_async, queue, flusher, m_count, m_today, m_fp, opened, late, written,
                   calls, stamp, day, process, lost, rival>>

-----------------------------------------------------------------------------
(* The flush thread: async_write_log().                                    *)

PopLine ==
    /\ process # "undefined" /\ flusher = "pop"
    /\ Queue!Take(FlushThread)
    /\ flusher' = "fputs"
    /\ UNCHANGED <<m_is_async, log, pc, calls, stamp, day, process, lost, rival>>

FlushThreadWrites ==
    /\ process = "run" /\ flusher = "fputs"
    /\ Fputs(FlushThread, single_log[FlushThread])
    /\ flusher' = "pop"
    /\ UNCHANGED <<m_is_async, queue, m_count, m_today, m_fp, opened, late, synced,
                   pc, calls, stamp, day, process, lost, rival>>

\* The log was destroyed under the thread.
FlushThreadFails ==
    /\ process = "exit" /\ flusher = "fputs"
    /\ process' = "undefined"
    /\ UNCHANGED <<m_is_async, queue, flusher, log, pc, calls, stamp, day, lost, rival>>

\* main() returns when nobody logs any more: ~Log() closes the file and
\* neither empties the queue nor stops the thread.
Exit ==
    /\ process = "run" /\ \A w \in Writers : pc[w] = "idle"
    /\ process' = "exit"
    /\ Reopen(Closed)
    /\ UNCHANGED <<m_is_async, queue, flusher, m_count, m_today, written,
                   pc, calls, stamp, day, lost, rival>>

LogLine(w) ==
    \/ WriteLog(w) \/ CountLine(w) \/ TestFull(w)
    \/ PushLine(w) \/ WriteDirect(w) \/ Flush(w)

FlushLoop == PopLine \/ FlushThreadWrites \/ FlushThreadFails

Next ==
    \/ \E w \in Writers : LogLine(w)
    \/ FlushLoop
    \/ NextDay
    \/ Exit

Spec == Init /\ [][Next]_vars

\* The flush thread runs when it can.
FairSpec == Spec /\ WF_vars(FlushLoop)

-----------------------------------------------------------------------------
Entries == [line : Lines, file : Files, by : Writers \cup {FlushThread}]

\* Every variable holds a value of its type, no line is counted twice, and a
\* synchronous log leaves queue and flush thread alone.
TypeOK ==
    /\ m_is_async \in BOOLEAN
    /\ m_log_queue \in Seq(Lines)
    /\ single_log \in [{FlushThread} -> Lines \cup {NoLine}]
    /\ flusher \in {"pop", "fputs"}
    /\ m_count \in 0 .. MaxLines
    /\ m_today \in Days
    /\ m_fp \in Files \cup {Closed}
    /\ written \in Seq(Entries)
    /\ opened \in 0 .. Len(written)
    /\ late \in Nat
    /\ synced \in 0 .. Len(written)
    /\ pc \in [Writers -> {"idle", "stamped", "counted", "push", "direct", "flush"}]
    /\ calls \in [Writers -> 0 .. MaxLines]
    /\ stamp \in [Writers -> Days]
    /\ day \in Days
    /\ process \in {"run", "exit", "undefined"}
    /\ lost \subseteq Lines
    /\ rival \in [Writers -> BOOLEAN]
    /\ ~m_is_async => m_log_queue = <<>> /\ flusher = "pop" /\ lost = {}

InWork  == {LineOf(w) : w \in {v \in Writers : pc[v] \notin {"idle", "flush"}}}
Queued  == {m_log_queue[i] : i \in DOMAIN m_log_queue}
Written == {written[i].line : i \in DOMAIN written}

\* Every line that was begun is in exactly one place: its writer works on it,
\* it is in the queue, the flush thread has it, fputs() got it, or it is lost.
EachLineOnce ==
    /\ TypeOK
    /\ Begun = InWork \cup Queued \cup InHand \cup Written \cup lost
    /\ Cardinality(Begun) = Cardinality(InWork) + Len(m_log_queue) + Cardinality(InHand)
                              + Len(written) + Cardinality(lost)

\* When a LOG_ macro of a synchronous log returns the line has left the buffer:
\* a process killed then does not lose it.
SyncIsDurable ==
    ~m_is_async =>
        \A l \in Begun \ InWork :
            (pc[l[1]] = "idle" \/ l[2] < calls[l[1]]) => \E i \in 1 .. synced : written[i].line = l

\* Lines of one writer change places only when a line that found the queue full
\* overtakes lines in the queue, and no more of them than the queue and the
\* flush thread hold.
Overtaken(i) ==
    {j \in i + 1 .. Len(written) : /\ written[j].line[1] = written[i].line[1]
                                   /\ written[j].line[2] < written[i].line[2]}

OvertakingBound ==
    \A i \in DOMAIN written :
        /\ Cardinality(Overtaken(i)) <= MaxQueue + 1
        /\ Overtaken(i) # {} => written[i].by # FlushThread
        /\ \A j \in Overtaken(i) : written[j].by = FlushThread

\* A line is lost only when another writer has taken the room that its own
\* saw: a single writer loses none.
LossNeedsRival ==
    \A w \in Writers : pc[w] = "push" /\ Len(m_log_queue) >= MaxQueue => rival[w]

\* Between one opening of a file and the next, at a split or at midnight, it gets
\* m_split_lines lines and those that were late when it was opened, and no more.
\* So m_split_lines alone, "the most lines" in log.h, is not the bound of a file.
FileBound == Len(written) - opened <= SplitLines + late

\* A line in the queue is written, unless the process ends first.
QueuedIsWritten ==
    \A l \in Lines : (l \in Queued) ~> (l \in Written \/ process # "run")

=============================================================================
