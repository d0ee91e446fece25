---------------------------- MODULE AsyncLogProofs ----------------------------
(***************************************************************************)
(* The log, for every number of writers, every size of the queue and of a  *)
(* file, and every number of lines and days: where each line is, what a    *)
(* synchronous log has made durable, how far lines change places, who can  *)
(* lose one, and how much a file gets.                                     *)
(*                                                                         *)
(* The properties of a run are too weak to be inductive.  What is missing: *)
(* the count is not ahead of the lines begun (CountOK), a line that a      *)
(* writer works on is nowhere else (PlacesOK), lines of one writer wait in *)
(* the order they were begun (OrderOK), each line that was overtaken       *)
(* uses up one of the places in the queue (OvertakeOK), and the current    *)
(* file has what was counted since it was opened (FileOK).                 *)
(***************************************************************************)
EXTENDS AsyncLog, FiniteSetTheorems, FunctionTheorems, SequenceTheorems, TLAPS

In(ps)  == {w \in Writers : pc[w] \in ps}
Busy    == {"stamped", "counted", "push", "direct"}
Hand    == single_log[FlushThread]
Waiting == Queued \cup InHand

\* The writers whose line has been counted and is not written yet.
After == {"counted", "push", "direct"}

CountOK ==
    /\ m_count + Cardinality(In({"stamped"})) <= Cardinality(Begun)
    /\ Cardinality(Begun) <= MaxLines

PlacesOK ==
    /\ flusher = "fputs" => m_is_async /\ Hand \in Lines
    /\ Len(m_log_queue) <= MaxQueue
    /\ \A w \in Writers : pc[w] = "push" => m_is_async
    /\ Begun = InWork \cup Queued \cup InHand \cup Written \cup lost
    /\ InWork \cap (Queued \cup InHand \cup Written \cup lost) = {}
    /\ Cardinality(Begun) = Cardinality(In(Busy)) + Len(m_log_queue) + Cardinality(InHand)
                              + Len(written) + Cardinality(lost)

OrderOK ==
    /\ \A i, j \in DOMAIN m_log_queue :
          i < j /\ m_log_queue[i][1] = m_log_queue[j][1] => m_log_queue[i][2] < m_log_queue[j][2]
    /\ flusher = "fputs" =>
          \A i \in DOMAIN m_log_queue : m_log_queue[i][1] = Hand[1] => Hand[2] < m_log_queue[i][2]

Ahead(i) == {l \in Waiting : l[1] = written[i].line[1] /\ l[2] < written[i].line[2]}

OvertakeOK ==
    \A i \in DOMAIN written :
        /\ Cardinality(Overtaken(i)) + Cardinality(Ahead(i)) <= MaxQueue + 1
        /\ written[i].by = FlushThread => Overtaken(i) = {} /\ Ahead(i) = {}
        /\ \A j \in Overtaken(i) : written[j].by = FlushThread

FileOK ==
    process = "run" => Len(written) - opened + Late <= (m_count % SplitLines) + 1 + late

ProcessOK ==
    /\ process = "run" => m_fp # Closed
    /\ process # "run" => \A w \in Writers : pc[w] = "idle"

-----------------------------------------------------------------------------
\* The sets that are counted are finite.
LEMMA FiniteSets ==
    ASSUME TypeOK
    PROVE  /\ IsFiniteSet(Lines)
           /\ IsFiniteSet(Begun) /\ Cardinality(Begun) \in Nat
           /\ IsFiniteSet(lost) /\ Cardinality(lost) \in Nat
           /\ Cardinality(Writers) \in Nat \ {0}
<1>1. IsFiniteSet(Writers) /\ MaxLines \in Nat
  BY LogAssumption
<1>2. IsFiniteSet(1 .. MaxLines)
  BY <1>1, FS_Interval
<1>3. IsFiniteSet(Lines)
  BY <1>1, <1>2, FS_Product DEF Lines
<1>4. Begun \in SUBSET Lines /\ lost \in SUBSET Lines
  BY DEF Begun, TypeOK
<1>5. IsFiniteSet(Begun) /\ IsFiniteSet(lost)
  BY <1>3, <1>4, FS_Subset
<1>6. Cardinality(Writers) \in Nat /\ Cardinality(Writers) # 0
  BY <1>1, FS_CardinalityType, FS_EmptySet, LogAssumption
<1> QED BY <1>3, <1>5, <1>6, FS_CardinalityType

LEMMA InIsFinite ==
    ASSUME NEW ps
    PROVE  IsFiniteSet(In(ps)) /\ Cardinality(In(ps)) \in 0 .. Cardinality(Writers)
<1>1. IsFiniteSet(Writers) /\ In(ps) \in SUBSET Writers
  BY LogAssumption DEF In
<1> QED BY <1>1, FS_Subset, FS_CardinalityType

LEMMA HandIsOne ==
    /\ IsFiniteSet(InHand)
    /\ flusher = "fputs" => InHand = {Hand} /\ Cardinality(InHand) = 1
    /\ flusher # "fputs" => InHand = {} /\ Cardinality(InHand) = 0
BY FS_Singleton, FS_EmptySet DEF InHand, Hand

\* The writers in some places, when one of them moves.
LEMMA GoMoves ==
    ASSUME TypeOK, NEW w \in Writers, NEW from, NEW to, Go(w, from, to), NEW ps
    PROVE  /\ (from \in ps) = (w \in In(ps))
           /\ to \in ps => In(ps)' = In(ps) \cup {w}
           /\ to \notin ps => In(ps)' = In(ps) \ {w}
<1>1. pc[w] = from /\ pc \in [Writers -> {"idle", "stamped", "counted", "push", "direct", "flush"}]
  BY DEF Go, TypeOK
<1>2. \A v \in Writers : pc'[v] = IF v = w THEN to ELSE pc[v]
  BY <1>1 DEF Go
<1>3. (from \in ps) = (w \in In(ps))
  BY <1>1 DEF In
<1>4. ASSUME to \in ps PROVE In(ps)' = In(ps) \cup {w}
  BY <1>2, <1>4 DEF In
<1>5. ASSUME to \notin ps PROVE In(ps)' = In(ps) \ {w}
  BY <1>2, <1>5 DEF In
<1> QED BY <1>3, <1>4, <1>5

\* ... and how many they are.
LEMMA GoCounts ==
    ASSUME TypeOK, NEW w \in Writers, NEW from, NEW to, Go(w, from, to), NEW ps
    PROVE  /\ from \in ps /\ to \in ps => Cardinality(In(ps)') = Cardinality(In(ps))
           /\ from \in ps /\ to \notin ps => Cardinality(In(ps)') = Cardinality(In(ps)) - 1
           /\ from \notin ps /\ to \in ps => Cardinality(In(ps)') = Cardinality(In(ps)) + 1
           /\ from \notin ps /\ to \notin ps => Cardinality(In(ps)') = Cardinality(In(ps))
<1>1. IsFiniteSet(In(ps))
  BY InIsFinite
<1>2. /\ Cardinality(In(ps) \cup {w})
            = IF w \in In(ps) THEN Cardinality(In(ps)) ELSE Cardinality(In(ps)) + 1
      /\ Cardinality(In(ps) \ {w})
            = IF w \in In(ps) THEN Cardinality(In(ps)) - 1 ELSE Cardinality(In(ps))
  BY <1>1, FS_AddElement, FS_RemoveElement
<1>3. /\ (from \in ps) = (w \in In(ps))
      /\ to \in ps => In(ps)' = In(ps) \cup {w}
      /\ to \notin ps => In(ps)' = In(ps) \ {w}
  BY GoMoves
<1> QED BY <1>2, <1>3

\* A writer works on a line of its own.
LEMMA WorkLines ==
    ASSUME TypeOK
    PROVE  /\ InWork = {LineOf(w) : w \in In(Busy)}
           /\ \A w \in Writers : LineOf(w) \in InWork <=> w \in In(Busy)
<1>1. \A w \in Writers : w \in In(Busy) <=> pc[w] \notin {"idle", "flush"}
  BY DEF TypeOK, In, Busy
<1>2. \A v, w \in Writers : LineOf(v) = LineOf(w) => v = w
  BY DEF LineOf
<1>3. \A w \in In(Busy) : w \in Writers
  BY DEF In
<1> QED BY <1>1, <1>2, <1>3 DEF InWork

\* It has been begun: its number is the writer's last.
LEMMA WorkIsBegun ==
    ASSUME TypeOK, PlacesOK, NEW w \in In(Busy)
    PROVE  /\ w \in Writers /\ LineOf(w) \in Begun /\ LineOf(w) \in Lines
           /\ LineOf(w) \notin Queued \cup InHand \cup Written \cup lost
<1>1. w \in Writers /\ LineOf(w) \in InWork
  BY WorkLines DEF In
<1>2. LineOf(w) \in Begun
  BY <1>1 DEF PlacesOK
<1>3. LineOf(w) \in Lines
  BY <1>2 DEF Begun
<1>4. LineOf(w) \notin Queued \cup InHand \cup Written \cup lost
  BY <1>1 DEF PlacesOK
<1> QED BY <1>1, <1>2, <1>3, <1>4

\* A line that is not in work any more is older than what its writer works on.
LEMMA WaitingIsOlder ==
    ASSUME TypeOK, PlacesOK, NEW l \in Waiting \cup Written
    PROVE  /\ l \in Lines /\ l[1] \in Writers /\ l[2] \in 1 .. MaxLines
           /\ l[2] <= calls[l[1]]
           /\ l[1] \in In(Busy) => l[2] < calls[l[1]]
<1>1. l \in Begun /\ l \notin InWork
  BY DEF PlacesOK, Waiting
<1>2. l \in Lines /\ l[2] <= calls[l[1]]
  BY <1>1 DEF Begun
<1>3. l = <<l[1], l[2]>> /\ l[1] \in Writers /\ l[2] \in 1 .. MaxLines
  BY <1>2 DEF Lines
<1>4. ASSUME l[1] \in In(Busy), l[2] = calls[l[1]] PROVE FALSE
  <2>1. l = LineOf(l[1])
    BY <1>3, <1>4 DEF LineOf
  <2> QED BY <2>1, <1>1, <1>3, <1>4, WorkLines
<1>5. calls[l[1]] \in Nat
  BY <1>3, LogAssumption DEF TypeOK
<1> QED BY <1>2, <1>3, <1>4, <1>5

\* The effects of an operation on the queue ...
LEMMA PutEffect ==
    ASSUME TypeOK, NEW v \in Lines, m_log_queue' = Append(m_log_queue, v)
    PROVE  /\ m_log_queue' \in Seq(Lines)
           /\ Len(m_log_queue) \in Nat /\ Len(m_log_queue') = Len(m_log_queue) + 1
           /\ DOMAIN m_log_queue = 1 .. Len(m_log_queue)
           /\ DOMAIN m_log_queue' = 1 .. Len(m_log_queue) + 1
           /\ \A i \in DOMAIN m_log_queue : m_log_queue'[i] = m_log_queue[i]
           /\ m_log_queue'[Len(m_log_queue) + 1] = v
           /\ Queued' = Queued \cup {v}
<1>1. m_log_queue \in Seq(Lines)
  BY DEF TypeOK
<1>2. /\ m_log_queue' \in Seq(Lines)
      /\ Len(m_log_queue) \in Nat /\ Len(m_log_queue') = Len(m_log_queue) + 1
      /\ \A i \in 1 .. Len(m_log_queue) : m_log_queue'[i] = m_log_queue[i]
      /\ m_log_queue'[Len(m_log_queue) + 1] = v
  BY <1>1, AppendProperties, LenProperties
<1>3. /\ DOMAIN m_log_queue = 1 .. Len(m_log_queue)
      /\ DOMAIN m_log_queue' = 1 .. Len(m_log_queue) + 1
  BY <1>1, <1>2, LenProperties
<1>4. DOMAIN m_log_queue' = DOMAIN m_log_queue \cup {Len(m_log_queue) + 1}
  BY <1>2, <1>3
<1>5. Queued' = Queued \cup {v}
  BY <1>2, <1>3, <1>4 DEF Queued
<1> QED BY <1>2, <1>3, <1>5

LEMMA TakeEffect ==
    ASSUME TypeOK, m_log_queue # <<>>, m_log_queue' = Tail(m_log_queue)
    PROVE  /\ m_log_queue' \in Seq(Lines)
           /\ Len(m_log_queue') \in Nat /\ Len(m_log_queue) = Len(m_log_queue') + 1
           /\ DOMAIN m_log_queue = 1 .. Len(m_log_queue') + 1
           /\ DOMAIN m_log_queue' = 1 .. Len(m_log_queue')
           /\ \A i \in DOMAIN m_log_queue' : m_log_queue'[i] = m_log_queue[i + 1]
           /\ Head(m_log_queue) = m_log_queue[1] /\ Head(m_log_queue) \in Lines
           /\ Queued = Queued' \cup {Head(m_log_queue)}
<1>1. m_log_queue \in Seq(Lines)
  BY DEF TypeOK
<1>2. /\ m_log_queue' \in Seq(Lines) /\ Head(m_log_queue) \in Lines
      /\ Len(m_log_queue') = Len(m_log_queue) - 1
      /\ \A i \in 1 .. Len(m_log_queue') : m_log_queue'[i] = m_log_queue[i + 1]
  BY <1>1, HeadTailProperties
<1>3. Head(m_log_queue) = m_log_queue[1]
  BY <1>1
<1>4. /\ Len(m_log_queue) \in Nat /\ DOMAIN m_log_queue = 1 .. Len(m_log_queue)
      /\ Len(m_log_queue') \in Nat /\ DOMAIN m_log_queue' = 1 .. Len(m_log_queue')
  BY <1>1, <1>2, LenProperties
<1>5. \A i \in DOMAIN m_log_queue : i = 1 \/ (i - 1 \in DOMAIN m_log_queue' /\ i = (i - 1) + 1)
  BY <1>2, <1>4
<1>6. \A i \in DOMAIN m_log_queue' : i + 1 \in DOMAIN m_log_queue
  BY <1>2, <1>4
<1>7. 1 \in DOMAIN m_log_queue
  BY <1>2, <1>4
<1>8. Queued \subseteq Queued' \cup {Head(m_log_queue)}
  <2> SUFFICES ASSUME NEW i \in DOMAIN m_log_queue
               PROVE  m_log_queue[i] \in Queued' \cup {Head(m_log_queue)}
    BY DEF Queued
  <2>1. CASE i = 1
    BY <2>1, <1>3
  <2>2. CASE i # 1
    <3>1. i - 1 \in DOMAIN m_log_queue' /\ i = (i - 1) + 1
      BY <2>2, <1>5
    <3>2. m_log_queue'[i - 1] = m_log_queue[i]
      BY <3>1, <1>2, <1>4
    <3> QED BY <3>1, <3>2 DEF Queued
  <2> QED BY <2>1, <2>2
<1>9. Queued' \cup {Head(m_log_queue)} \subseteq Queued
  BY <1>2, <1>3, <1>4, <1>6, <1>7 DEF Queued
<1> QED BY <1>2, <1>3, <1>4, <1>8, <1>9

\* ... and of fputs() on what was written.
LEMMA FputsEffect ==
    ASSUME TypeOK, m_fp \in Files, NEW l \in Lines, NEW t \in Writers \cup {FlushThread},
           written' = Append(written, [line |-> l, file |-> m_fp, by |-> t])
    PROVE  /\ written' \in Seq(Entries)
           /\ Len(written) \in Nat /\ Len(written') = Len(written) + 1
           /\ DOMAIN written = 1 .. Len(written)
           /\ DOMAIN written' = 1 .. Len(written) + 1
           /\ \A i \in DOMAIN written : written'[i] = written[i]
           /\ written'[Len(written) + 1] = [line |-> l, file |-> m_fp, by |-> t]
           /\ Written' = Written \cup {l}
<1> DEFINE entry == [line |-> l, file |-> m_fp, by |-> t]
<1>1. written \in Seq(Entries) /\ entry \in Entries
  BY DEF TypeOK, Entries
<1>2. /\ written' \in Seq(Entries)
      /\ Len(written) \in Nat /\ Len(written') = Len(written) + 1
      /\ \A i \in 1 .. Len(written) : written'[i] = written[i]
      /\ written'[Len(written) + 1] = entry
  <2> HIDE DEF entry
  <2>1. written' = Append(written, entry)
    BY DEF entry
  <2> QED BY <2>1, <1>1, AppendProperties, LenProperties
<1>3. /\ DOMAIN written = 1 .. Len(written)
      /\ DOMAIN written' = 1 .. Len(written) + 1
  BY <1>1, <1>2, LenProperties
<1>4. DOMAIN written' = DOMAIN written \cup {Len(written) + 1}
  BY <1>2, <1>3
<1>5. entry.line = l
  OBVIOUS
<1>6. Written' = Written \cup {l}
  <2> HIDE DEF entry
  <2> QED BY <1>2, <1>3, <1>4, <1>5 DEF Written
<1> QED BY <1>2, <1>3, <1>6

-----------------------------------------------------------------------------
\* Where the lines are: the part of the invariant that the others need.
Base == TypeOK /\ CountOK /\ PlacesOK /\ ProcessOK

\* Only while the process runs is anybody busy; the file is open then.
LEMMA BusyRuns ==
    ASSUME Base, NEW w \in Writers, pc[w] # "idle"
    PROVE  process = "run" /\ m_fp \in Files
BY DEF Base, ProcessOK, TypeOK

\* A writer begins a line that nobody has.
LEMMA WriteLogEffect ==
    ASSUME Base, NEW w \in Writers, WriteLog(w)
    PROVE  /\ calls[w] + 1 \in 1 .. MaxLines
           /\ <<w, calls[w] + 1>> \in Lines \ Begun
           /\ Begun' = Begun \cup {<<w, calls[w] + 1>>}
           /\ InWork' = InWork \cup {<<w, calls[w] + 1>>}
           /\ Cardinality(Begun') = Cardinality(Begun) + 1
           /\ Cardinality(Begun') <= MaxLines
<1>1. TypeOK /\ MaxLines \in Nat /\ calls \in [Writers -> 0 .. MaxLines]
  BY LogAssumption DEF Base, TypeOK
<1>2. /\ Cardinality(Begun) < MaxLines /\ pc[w] = "idle"
      /\ calls' = [calls EXCEPT ![w] = calls[w] + 1]
      /\ Go(w, "idle", "stamped")
  BY DEF WriteLog, Go
<1>3. IsFiniteSet(Begun) /\ Cardinality(Begun) \in Nat
  BY <1>1, FiniteSets
<1>4. calls[w] # MaxLines
  <2> SUFFICES ASSUME calls[w] = MaxLines PROVE FALSE
    OBVIOUS
  <2> DEFINE own == {w} \X (1 .. MaxLines)
  <2>1. own \in SUBSET Begun
    BY <1>1 DEF Begun, Lines
  <2>2. IsFiniteSet({w}) /\ Cardinality({w}) = 1
    BY FS_Singleton
  <2>3. IsFiniteSet(1 .. MaxLines) /\ Cardinality(1 .. MaxLines) = MaxLines
    BY <1>1, FS_Interval
  <2>4. Cardinality(own) = 1 * MaxLines
    BY <2>2, <2>3, FS_Product
  <2>5. Cardinality(own) <= Cardinality(Begun)
    BY <2>1, <1>3, FS_Subset
  <2> HIDE DEF own
  <2> QED BY <2>4, <2>5, <1>1, <1>2, <1>3
<1>5. calls[w] + 1 \in 1 .. MaxLines
  BY <1>1, <1>4
<1>6. <<w, calls[w] + 1>> \in Lines
  BY <1>5 DEF Lines
<1>7. <<w, calls[w] + 1>> \notin Begun
  BY <1>1 DEF Begun
<1>8. Begun' = Begun \cup {<<w, calls[w] + 1>>}
  <2>1. \A v \in Writers : calls'[v] = IF v = w THEN calls[w] + 1 ELSE calls[v]
    BY <1>1, <1>2
  <2>2. ASSUME NEW l \in Lines
        PROVE  l \in Begun' <=> (l \in Begun \/ l = <<w, calls[w] + 1>>)
    <3>1. l = <<l[1], l[2]>> /\ l[1] \in Writers /\ l[2] \in 1 .. MaxLines
      BY DEF Lines
    <3>2. calls[l[1]] \in Nat
      BY <1>1, <3>1
    <3>3. l \in Begun <=> l[2] <= calls[l[1]]
      BY DEF Begun
    <3>4. l \in Begun' <=> l[2] <= calls'[l[1]]
      BY DEF Begun, Lines
    <3>5. CASE l[1] # w
      BY <3>1, <3>3, <3>4, <3>5, <2>1
    <3>6. CASE l[1] = w
      <4>1. l = <<w, calls[w] + 1>> <=> l[2] = calls[w] + 1
        BY <3>1, <3>6
      <4> QED BY <3>1, <3>2, <3>3, <3>4, <3>6, <4>1, <2>1
    <3> QED BY <3>5, <3>6
  <2>3. Begun \subseteq Lines /\ Begun' \subseteq Lines
    BY DEF Begun, Lines
  <2> QED BY <2>2, <2>3, <1>6
<1>9. InWork' = InWork \cup {<<w, calls[w] + 1>>}
  <2>1. \A v \in Writers : pc'[v] = IF v = w THEN "stamped" ELSE pc[v]
    BY <1>1, <1>2 DEF Go, TypeOK
  <2>2. \A v \in Writers : LineOf(v)' = IF v = w THEN <<w, calls[w] + 1>> ELSE LineOf(v)
    BY <1>1, <1>2 DEF LineOf
  <2>3. InWork' = {LineOf(v)' : v \in {u \in Writers : pc'[u] \notin {"idle", "flush"}}}
    BY DEF InWork
  <2>4. {u \in Writers : pc'[u] \notin {"idle", "flush"}}
          = {u \in Writers : pc[u] \notin {"idle", "flush"}} \cup {w}
    BY <2>1
  <2>5. w \notin {u \in Writers : pc[u] \notin {"idle", "flush"}}
    BY <1>2
  <2> QED BY <2>2, <2>3, <2>4, <2>5 DEF InWork
<1>10. Cardinality(Begun') = Cardinality(Begun) + 1
  BY <1>3, <1>7, <1>8, FS_AddElement
<1> QED BY <1>1, <1>2, <1>3, <1>5, <1>6, <1>7, <1>8, <1>9, <1>10

\* The steps that begin no line change neither what was begun nor, unless a
\* writer lets go of its line, what is worked on.
LEMMA SameBegun ==
    ASSUME UNCHANGED calls
    PROVE  Begun' = Begun /\ \A w \in Writers : LineOf(w)' = LineOf(w)
BY DEF Begun, LineOf, Lines

LEMMA WorkGoes ==
    ASSUME TypeOK, UNCHANGED calls, NEW w \in Writers, NEW from, NEW to, Go(w, from, to), from \in Busy
    PROVE  /\ to \in Busy => InWork' = InWork
           /\ to \in {"idle", "flush"} => InWork' = InWork \ {LineOf(w)}
<1>1. \A v \in Writers : pc'[v] = IF v = w THEN to ELSE pc[v]
  BY DEF Go, TypeOK
<1>2. \A v \in Writers : LineOf(v)' = LineOf(v)
  BY SameBegun
<1>3. \A v \in Writers : v # w => LineOf(v) # LineOf(w)
  BY DEF LineOf
<1>4. pc[w] \notin {"idle", "flush"}
  BY DEF Go, Busy
<1>5. InWork' = {LineOf(v)' : v \in {u \in Writers : pc'[u] \notin {"idle", "flush"}}}
  BY DEF InWork
<1>6. InWork' = {LineOf(v) : v \in {u \in Writers : pc'[u] \notin {"idle", "flush"}}}
  BY <1>2, <1>5
<1>7. ASSUME to \in Busy
      PROVE  InWork' = InWork
  <2>1. {u \in Writers : pc'[u] \notin {"idle", "flush"}}
          = {u \in Writers : pc[u] \notin {"idle", "flush"}}
    BY <1>1, <1>4, <1>7 DEF Busy
  <2> QED BY <1>6, <2>1 DEF InWork
<1>8. ASSUME to \in {"idle", "flush"}
      PROVE  InWork' = InWork \ {LineOf(w)}
  <2>1. {u \in Writers : pc'[u] \notin {"idle", "flush"}}
          = {u \in Writers : pc[u] \notin {"idle", "flush"}} \ {w}
    BY <1>1, <1>8
  <2> QED BY <1>3, <1>6, <2>1 DEF InWork
<1> QED BY <1>7, <1>8

\* The quotient and the remainder when one more is counted.
LEMMA CountOn ==
    ASSUME NEW d \in Nat \ {0}, NEW n \in Nat
    PROVE  /\ n \div d \in 0 .. n /\ n % d \in 0 .. d - 1
           /\ (n + 1) % d # 0 =>
                 /\ (n + 1) \div d = n \div d
                 /\ (n + 1) % d = (n % d) + 1
           /\ (n + 1) % d = 0 => (n + 1) \div d = (n \div d) + 1
<1>1. n \div d \in 0 .. n /\ n % d \in 0 .. d - 1 /\ n = d * (n \div d) + (n % d)
  OBVIOUS
<1>2. PICK q \in Nat, r \in 0 .. d - 1 : q = n \div d /\ r = n % d /\ n = d * q + r
  BY <1>1
<1>3. CASE r + 1 < d
  <2>1. n + 1 = d * q + (r + 1) /\ r + 1 \in 0 .. d - 1
    BY <1>2, <1>3
  <2>2. (n + 1) \div d = q /\ (n + 1) % d = r + 1
    BY <2>1
  <2> QED BY <1>1, <1>2, <2>2
<1>4. CASE r + 1 = d
  <2>1. PICK p \in Nat : p = q + 1
    OBVIOUS
  <2>2. d * p = d * q + d
    BY <2>1
  <2>3. n + 1 = d * p + 0 /\ 0 \in 0 .. d - 1
    BY <1>2, <1>4, <2>2
  <2>4. (n + 1) \div d = p /\ (n + 1) % d = 0
    BY <2>3
  <2> QED BY <1>1, <1>2, <2>1, <2>4
<1> QED BY <1>3, <1>4

\* Base holds at first, and each kind of step keeps it.
LEMMA BaseInit == Init => Base
<1> SUFFICES ASSUME Init PROVE Base
  OBVIOUS
<1> USE LogAssumption
<1>1. /\ m_log_queue = <<>> /\ single_log = [t \in {FlushThread} |-> NoLine]
      /\ written = <<>> /\ lost = {} /\ flusher = "pop" /\ m_count = 0 /\ process = "run"
      /\ pc = [w \in Writers |-> "idle"] /\ calls = [w \in Writers |-> 0]
  BY DEF Init, Queue!Init
<1>2. TypeOK
  BY <1>1 DEF Init, TypeOK, Days, Files
<1>3. Begun = {}
  BY <1>1 DEF Begun, Lines
<1>4. \A ps : "idle" \notin ps => In(ps) = {}
  BY <1>1 DEF In
<1>5. In({"stamped"}) = {} /\ In(Busy) = {}
  BY <1>4 DEF Busy
<1>6. CountOK
  <2>1. m_count = 0 /\ Cardinality(In({"stamped"})) = 0 /\ Cardinality(Begun) = 0
    BY <1>1, <1>3, <1>5, FS_EmptySet
  <2> QED BY <2>1 DEF CountOK
<1>7. Queued = {} /\ Written = {} /\ InHand = {} /\ InWork = {}
  BY <1>1 DEF Queued, Written, InHand, InWork
<1>8. Len(m_log_queue) = 0 /\ Len(written) = 0
  BY <1>1
<1>9. PlacesOK
  BY <1>1, <1>3, <1>5, <1>7, <1>8, FS_EmptySet DEF PlacesOK
<1>10. ProcessOK
  BY <1>1 DEF Init, ProcessOK, Closed
<1> QED BY <1>2, <1>6, <1>9, <1>10 DEF Base

LEMMA BaseWriteLog == ASSUME Base, NEW w \in Writers, WriteLog(w) PROVE Base'
<1> USE LogAssumption
<1>1. TypeOK /\ CountOK /\ PlacesOK /\ ProcessOK
  BY DEF Base
<1>2. /\ Go(w, "idle", "stamped") /\ process = "run"
      /\ calls' = [calls EXCEPT ![w] = calls[w] + 1]
      /\ stamp' = [stamp EXCEPT ![w] = day]
      /\ UNCHANGED <<m_is_async, queue, flusher, log, day, process, lost, rival>>
  BY DEF WriteLog
<1>3. /\ calls[w] + 1 \in 1 .. MaxLines
      /\ <<w, calls[w] + 1>> \in Lines \ Begun
      /\ Begun' = Begun \cup {<<w, calls[w] + 1>>}
      /\ InWork' = InWork \cup {<<w, calls[w] + 1>>}
      /\ Cardinality(Begun') = Cardinality(Begun) + 1
      /\ Cardinality(Begun') <= MaxLines
  BY WriteLogEffect
<1>4. UNCHANGED <<m_is_async, m_log_queue, single_log, flusher, m_count, m_today, m_fp,
                  opened, late, written, synced, day, process, lost, rival>>
  BY <1>2 DEF queue, log
<1>5. /\ calls' \in [Writers -> 0 .. MaxLines] /\ stamp' \in [Writers -> Days]
      /\ pc' \in [Writers -> {"idle", "stamped", "counted", "push", "direct", "flush"}]
  BY <1>1, <1>2, <1>3 DEF TypeOK, Go
<1>6. TypeOK'
  BY <1>1, <1>4, <1>5 DEF TypeOK
<1>7. /\ Cardinality(In({"stamped"})') = Cardinality(In({"stamped"})) + 1
      /\ Cardinality(In(Busy)') = Cardinality(In(Busy)) + 1
  BY <1>1, <1>2, GoCounts DEF Busy
<1>8. Cardinality(In({"stamped"})) \in Nat /\ Cardinality(Begun) \in Nat /\ m_count \in Nat
  BY <1>1, InIsFinite, FiniteSets DEF TypeOK
<1>9. CountOK'
  BY <1>1, <1>3, <1>4, <1>7, <1>8 DEF CountOK
<1>10. Queued' = Queued /\ InHand' = InHand /\ Written' = Written /\ Hand' = Hand
  BY <1>4 DEF Queued, InHand, Written, Hand
<1>11. PlacesOK'
  <2>1. \A v \in Writers : pc'[v] = "push" => pc[v] = "push"
    BY <1>1, <1>2 DEF Go, TypeOK
  <2>2. \A v \in Writers : pc'[v] = "push" => m_is_async'
    BY <1>1, <1>4, <2>1 DEF PlacesOK
  <2>3. Begun' = InWork' \cup Queued' \cup InHand' \cup Written' \cup lost'
    BY <1>1, <1>3, <1>4, <1>10 DEF PlacesOK
  <2>4. InWork' \cap (Queued' \cup InHand' \cup Written' \cup lost') = {}
    BY <1>1, <1>3, <1>4, <1>10 DEF PlacesOK
  <2>5. Cardinality(In(Busy)) \in Nat /\ Cardinality(InHand) \in Nat /\ Cardinality(lost) \in Nat
        /\ Len(m_log_queue) \in Nat /\ Len(written) \in Nat
    BY <1>1, InIsFinite, FiniteSets, HandIsOne, FS_CardinalityType, LenProperties DEF TypeOK
  <2>6. Cardinality(Begun') = Cardinality(In(Busy)') + Len(m_log_queue') + Cardinality(InHand')
                                + Len(written') + Cardinality(lost')
    BY <1>1, <1>3, <1>4, <1>7, <1>10, <2>5 DEF PlacesOK
  <2>7. /\ flusher' = "fputs" => m_is_async' /\ Hand' \in Lines'
        /\ Len(m_log_queue') <= MaxQueue
    BY <1>1, <1>4, <1>10 DEF PlacesOK, Lines
  <2> QED BY <2>2, <2>3, <2>4, <2>6, <2>7 DEF PlacesOK
<1>12. ProcessOK'
  BY <1>1, <1>2, <1>4 DEF ProcessOK
<1> QED BY <1>6, <1>9, <1>11, <1>12 DEF Base

LEMMA Sizes ==
    ASSUME TypeOK
    PROVE  /\ Cardinality(In(Busy)) \in Nat /\ Cardinality(InHand) \in Nat
           /\ Cardinality(In({"stamped"})) \in Nat
           /\ Cardinality(lost) \in Nat /\ Cardinality(Begun) \in Nat
           /\ Len(m_log_queue) \in Nat /\ Len(written) \in Nat
           /\ MaxLines \in Nat /\ m_count \in Nat /\ synced \in Nat
<1>1. Len(m_log_queue) \in Nat /\ Len(written) \in Nat
  BY LenProperties DEF TypeOK
<1>2. m_count \in Nat /\ synced \in Nat /\ MaxLines \in Nat
  BY LogAssumption, <1>1 DEF TypeOK
<1> QED BY <1>1, <1>2, InIsFinite, FiniteSets, HandIsOne, FS_CardinalityType

LEMMA LateIsNat ==
    ASSUME TypeOK
    PROVE  /\ Late = Cardinality(In(After)) + Len(m_log_queue) + Cardinality(InHand)
           /\ Late \in Nat
<1>1. Late = Cardinality(In(After)) + Len(m_log_queue) + Cardinality(InHand)
  BY DEF Late, In, After
<1>2. Cardinality(In(After)) \in Nat
  BY InIsFinite, FS_CardinalityType
<1> QED BY <1>1, <1>2, Sizes

LEMMA SamePlaces ==
    ASSUME Base, UNCHANGED <<m_is_async, m_log_queue, single_log, flusher, calls, written, lost>>,
           InWork' = InWork, Cardinality(In(Busy)') = Cardinality(In(Busy)),
           \A v \in Writers : pc'[v] = "push" => m_is_async
    PROVE  /\ PlacesOK'
           /\ Begun' = Begun /\ Queued' = Queued /\ InHand' = InHand
           /\ Written' = Written /\ Hand' = Hand /\ Waiting' = Waiting
<1>1. Begun' = Begun /\ Lines' = Lines
  BY SameBegun DEF Lines
<1>2. Queued' = Queued /\ InHand' = InHand /\ Written' = Written /\ Hand' = Hand
  BY DEF Queued, InHand, Written, Hand
<1>3. PlacesOK
  BY DEF Base
<1>4. PlacesOK'
  BY <1>1, <1>2, <1>3 DEF PlacesOK
<1> QED BY <1>1, <1>2, <1>4 DEF Waiting

LEMMA BaseCountLine == ASSUME Base, NEW w \in Writers, CountLine(w) PROVE Base'
<1>1. TypeOK /\ CountOK /\ PlacesOK /\ ProcessOK
  BY DEF Base
<1>2. /\ Go(w, "stamped", "counted")
      /\ UNCHANGED <<m_is_async, queue, flusher, written, calls, stamp, day, process, lost, rival>>
  BY DEF CountLine
<1>3. UNCHANGED <<m_is_async, m_log_queue, single_log, flusher, written, calls, stamp, day,
                  process, lost, rival>>
  BY <1>2 DEF queue
<1>4. /\ Cardinality(In({"stamped"})') = Cardinality(In({"stamped"})) - 1
      /\ Cardinality(In(Busy)') = Cardinality(In(Busy))
      /\ w \in In({"stamped"})
  <2>1. "stamped" \in {"stamped"} /\ "counted" \notin {"stamped"} /\ "stamped" \in Busy /\ "counted" \in Busy
    BY DEF Busy
  <2> QED BY <1>1, <1>2, <2>1, GoCounts, GoMoves
<1>5. InWork' = InWork
  BY <1>1, <1>2, <1>3, WorkGoes DEF Busy
<1>6. m_count + 1 \in 0 .. MaxLines /\ m_count + Cardinality(In({"stamped"})) <= Cardinality(Begun)
  <2>1. Cardinality(In({"stamped"})) # 0
    BY <1>4, InIsFinite, FS_EmptySet
  <2> QED BY <1>1, <2>1, Sizes DEF CountOK
<1>7. m_count' \in {0, m_count + 1} /\ m_today' \in Days /\ m_fp' \in Files
      /\ synced' \in {synced, Len(written)} /\ opened' \in {opened, Len(written)}
      /\ late' \in {late, Late}
  <2>1. stamp[w] \in Days /\ m_today \in Days
    BY <1>1 DEF TypeOK
  <2>2. pc[w] # "idle"
    BY <1>2 DEF Go
  <2>3. m_fp \in Files
    BY <2>2, BusyRuns
  <2>4. SplitLines \in Nat \ {0} /\ MaxLines \in Nat
    BY LogAssumption
  <2>5. (m_count + 1) \div SplitLines \in 0 .. MaxLines
    <3>1. PICK n \in 0 .. MaxLines : n = m_count + 1
      BY <1>6
    <3>2. n \div SplitLines \in 0 .. n
      BY <2>4, CountOn
    <3> QED BY <3>1, <3>2, <2>4
  <2>6. CASE m_today # stamp[w] /\ m_today' = stamp[w] /\ m_count' = 0 /\ Reopen(<<stamp[w], 0>>)
    BY <2>1, <2>4, <2>6 DEF Reopen, Files
  <2>7. CASE /\ m_today = stamp[w] /\ m_count' = m_count + 1
             /\ Reopen(<<m_today, (m_count + 1) \div SplitLines>>)
             /\ UNCHANGED m_today
    BY <2>1, <2>5, <2>7 DEF Reopen, Files
  <2>8. CASE m_today = stamp[w] /\ m_count' = m_count + 1 /\ UNCHANGED <<m_today, m_fp, opened, late, synced>>
    BY <2>1, <2>3, <2>8
  <2> QED BY <2>6, <2>7, <2>8 DEF CountLine
<1>8. TypeOK'
  <2>1. pc' \in [Writers -> {"idle", "stamped", "counted", "push", "direct", "flush"}]
    BY <1>1, <1>2 DEF TypeOK, Go
  <2>2. m_count' \in 0 .. MaxLines
    BY <1>6, <1>7, Sizes, <1>1
  <2>3. synced' \in 0 .. Len(written') /\ opened' \in 0 .. Len(written')
    BY <1>1, <1>3, <1>7, Sizes DEF TypeOK
  <2>4. late' \in Nat
    BY <1>1, <1>7, LateIsNat DEF TypeOK
  <2> QED BY <1>1, <1>3, <1>7, <2>1, <2>2, <2>3, <2>4 DEF TypeOK
<1>9. \A v \in Writers : pc'[v] = "push" => m_is_async
  BY <1>1, <1>2 DEF Go, TypeOK, PlacesOK
<1>10. PlacesOK' /\ Begun' = Begun
  BY <1>3, <1>4, <1>5, <1>9, SamePlaces
<1>11. CountOK'
  <2>1. m_count' <= m_count + 1
    BY <1>1, <1>7, Sizes
  <2>2. m_count' \in Nat
    BY <1>1, <1>7, Sizes
  <2> QED BY <1>1, <1>4, <1>6, <1>10, <2>1, <2>2, Sizes DEF CountOK
<1>12. ProcessOK'
  <2>1. process = "run"
    BY <1>2, BusyRuns DEF Go
  <2>2. <<0, 0>> \notin Files
    BY LogAssumption DEF Files, Days
  <2> QED BY <1>3, <1>7, <2>1, <2>2 DEF ProcessOK, Closed
<1> QED BY <1>8, <1>10, <1>11, <1>12 DEF Base

LEMMA BaseTestFull == ASSUME Base, NEW w \in Writers, TestFull(w) PROVE Base'
<1> DEFINE next == IF m_is_async /\ Len(m_log_queue) < MaxQueue THEN "push" ELSE "direct"
<1>1. TypeOK /\ CountOK /\ PlacesOK /\ ProcessOK
  BY DEF Base
<1>2. /\ Go(w, "counted", next)
      /\ rival' = [rival EXCEPT ![w] = FALSE]
      /\ UNCHANGED <<m_is_async, queue, flusher, log, calls, stamp, day, process, lost>>
  BY DEF TestFull
<1>3. UNCHANGED <<m_is_async, m_log_queue, single_log, flusher, m_count, m_today, m_fp, opened, late,
                  written, synced, calls, stamp, day, process, lost>>
  BY <1>2 DEF queue, log
<1>4. next \in {"push", "direct"} /\ (next = "push" => m_is_async)
  OBVIOUS
<1>5. PICK to \in {"push", "direct"} : to = next
  BY <1>4
<1> HIDE DEF next
<1>6. Go(w, "counted", to) /\ (to = "push" => m_is_async)
  BY <1>2, <1>4, <1>5
<1>7. /\ Cardinality(In({"stamped"})') = Cardinality(In({"stamped"}))
      /\ Cardinality(In(Busy)') = Cardinality(In(Busy))
  <2>1. to \notin {"stamped"} /\ "counted" \notin {"stamped"} /\ to \in Busy /\ "counted" \in Busy
    BY DEF Busy
  <2> QED BY <1>1, <1>6, <2>1, GoCounts
<1>8. InWork' = InWork
  BY <1>1, <1>3, <1>6, WorkGoes DEF Busy
<1>9. TypeOK'
  <2>1. pc' \in [Writers -> {"idle", "stamped", "counted", "push", "direct", "flush"}]
    BY <1>1, <1>6 DEF TypeOK, Go
  <2>2. rival' \in [Writers -> BOOLEAN]
    BY <1>1, <1>2 DEF TypeOK
  <2> QED BY <1>1, <1>3, <2>1, <2>2 DEF TypeOK
<1>10. \A v \in Writers : pc'[v] = "push" => m_is_async
  BY <1>1, <1>6 DEF Go, TypeOK, PlacesOK
<1>11. PlacesOK' /\ Begun' = Begun
  BY <1>3, <1>7, <1>8, <1>10, SamePlaces
<1>12. CountOK'
  BY <1>1, <1>3, <1>7, <1>11 DEF CountOK
<1>13. process = "run"
  BY <1>6, BusyRuns DEF Go
<1>14. ProcessOK'
  BY <1>1, <1>3, <1>13 DEF ProcessOK
<1> QED BY <1>9, <1>11, <1>12, <1>14 DEF Base

LEMMA BaseFlush == ASSUME Base, NEW w \in Writers, Flush(w) PROVE Base'
<1>1. TypeOK /\ CountOK /\ PlacesOK /\ ProcessOK
  BY DEF Base
<1>2. /\ Go(w, "flush", "idle")
      /\ synced' = Len(written)
      /\ UNCHANGED <<m_is_async, queue, flusher, m_count, m_today, m_fp, opened, late, written,
                     calls, stamp, day, process, lost, rival>>
  BY DEF Flush
<1>3. UNCHANGED <<m_is_async, m_log_queue, single_log, flusher, m_count, m_today, m_fp, opened, late,
                  written, calls, stamp, day, process, lost, rival>>
  BY <1>2 DEF queue
<1>4. /\ Cardinality(In({"stamped"})') = Cardinality(In({"stamped"}))
      /\ Cardinality(In(Busy)') = Cardinality(In(Busy))
  BY <1>1, <1>2, GoCounts DEF Busy
<1>5. \A v \in Writers : pc'[v] = IF v = w THEN "idle" ELSE pc[v]
  BY <1>1, <1>2 DEF Go, TypeOK
<1>6. InWork' = InWork
  <2>1. \A v \in Writers : pc'[v] \notin {"idle", "flush"} <=> pc[v] \notin {"idle", "flush"}
    BY <1>2, <1>5 DEF Go
  <2>2. \A v \in Writers : LineOf(v)' = LineOf(v)
    BY <1>3, SameBegun
  <2> QED BY <2>1, <2>2 DEF InWork
<1>7. TypeOK'
  <2>1. pc' \in [Writers -> {"idle", "stamped", "counted", "push", "direct", "flush"}]
    BY <1>1, <1>2 DEF TypeOK, Go
  <2>2. synced' \in 0 .. Len(written') /\ opened' \in 0 .. Len(written')
    BY <1>1, <1>2, <1>3, Sizes DEF TypeOK
  <2> QED BY <1>1, <1>3, <2>1, <2>2 DEF TypeOK
<1>8. PlacesOK' /\ Begun' = Begun
  <2>1. \A v \in Writers : pc'[v] = "push" => m_is_async
    BY <1>1, <1>5 DEF PlacesOK
  <2> QED BY <1>3, <1>4, <1>6, <2>1, SamePlaces
<1>9. CountOK'
  BY <1>1, <1>3, <1>4, <1>8 DEF CountOK
<1>10. ProcessOK'
  BY <1>1, <1>3, <1>5 DEF ProcessOK
<1> QED BY <1>7, <1>8, <1>9, <1>10 DEF Base

\* A line that leaves its writer is in one of three places next.
LEMMA LineGoes ==
    ASSUME Base, NEW w \in Writers, NEW from \in {"push", "direct"}, Go(w, from, "flush"),
           UNCHANGED <<m_is_async, single_log, flusher, calls, process>>
    PROVE  /\ LineOf(w) \in Lines /\ LineOf(w) \in Begun /\ LineOf(w) \in InWork
           /\ LineOf(w) \notin Queued \cup InHand \cup Written \cup lost
           /\ InWork' = InWork \ {LineOf(w)}
           /\ Begun' = Begun /\ InHand' = InHand /\ Hand' = Hand
           /\ Cardinality(In(Busy)') = Cardinality(In(Busy)) - 1
           /\ Cardinality(In({"stamped"})') = Cardinality(In({"stamped"}))
           /\ pc' \in [Writers -> {"idle", "stamped", "counted", "push", "direct", "flush"}]
           /\ \A v \in Writers : pc'[v] = "push" => m_is_async
           /\ process = "run" /\ m_fp \in Files
<1>1. TypeOK /\ PlacesOK
  BY DEF Base
<1>2. from \in Busy /\ "flush" \notin Busy /\ from \notin {"stamped"} /\ "flush" \notin {"stamped"}
  BY DEF Busy
<1>3. /\ Cardinality(In(Busy)') = Cardinality(In(Busy)) - 1
      /\ Cardinality(In({"stamped"})') = Cardinality(In({"stamped"}))
      /\ w \in In(Busy)
  BY <1>1, <1>2, GoCounts, GoMoves
<1>4. InWork' = InWork \ {LineOf(w)}
  BY <1>1, <1>2, WorkGoes
<1>5. /\ LineOf(w) \in Lines /\ LineOf(w) \in Begun /\ LineOf(w) \in InWork
      /\ LineOf(w) \notin Queued \cup InHand \cup Written \cup lost
  BY <1>1, <1>3, WorkIsBegun, WorkLines
<1>6. Begun' = Begun /\ InHand' = InHand /\ Hand' = Hand
  BY SameBegun DEF InHand, Hand
<1>7. /\ pc' \in [Writers -> {"idle", "stamped", "counted", "push", "direct", "flush"}]
      /\ \A v \in Writers : pc'[v] = "push" => m_is_async
  BY <1>1 DEF TypeOK, PlacesOK, Go
<1>8. process = "run" /\ m_fp \in Files
  BY BusyRuns DEF Go
<1> QED BY <1>3, <1>4, <1>5, <1>6, <1>7, <1>8

LEMMA BasePushLine == ASSUME Base, NEW w \in Writers, PushLine(w) PROVE Base'
<1>1. TypeOK /\ CountOK /\ PlacesOK /\ ProcessOK
  BY DEF Base
<1>2. /\ Go(w, "push", "flush")
      /\ UNCHANGED <<m_is_async, flusher, log, calls, stamp, day, process>>
      /\ \/ /\ Len(m_log_queue) < MaxQueue
            /\ m_log_queue' = Append(m_log_queue, LineOf(w))
            /\ UNCHANGED <<single_log, lost>>
            /\ rival' = [v \in Writers |-> rival[v] \/ v # w]
         \/ /\ Len(m_log_queue) >= MaxQueue
            /\ lost' = lost \cup {LineOf(w)}
            /\ UNCHANGED <<m_log_queue, single_log, rival>>
  BY DEF PushLine, Queue!Put, queue
<1>3. UNCHANGED <<m_is_async, single_log, flusher, m_count, m_today, m_fp, opened, late, written, synced, calls,
                  stamp, day, process>>
  BY <1>2 DEF log
<1>4. /\ LineOf(w) \in Lines /\ LineOf(w) \in Begun /\ LineOf(w) \in InWork
      /\ LineOf(w) \notin Queued \cup InHand \cup Written \cup lost
      /\ InWork' = InWork \ {LineOf(w)}
      /\ Begun' = Begun /\ InHand' = InHand /\ Hand' = Hand
      /\ Cardinality(In(Busy)') = Cardinality(In(Busy)) - 1
      /\ Cardinality(In({"stamped"})') = Cardinality(In({"stamped"}))
      /\ pc' \in [Writers -> {"idle", "stamped", "counted", "push", "direct", "flush"}]
      /\ \A v \in Writers : pc'[v] = "push" => m_is_async
      /\ process = "run"
  BY <1>2, <1>3, LineGoes
<1>5. Written' = Written /\ Len(written') = Len(written)
  BY <1>3 DEF Written
<1>6. m_is_async
  BY <1>1, <1>2 DEF PlacesOK, Go
<1>7. CountOK'
  BY <1>1, <1>3, <1>4 DEF CountOK
<1>8. ProcessOK'
  BY <1>1, <1>3, <1>4 DEF ProcessOK
<1>9. CASE /\ Len(m_log_queue) < MaxQueue
           /\ m_log_queue' = Append(m_log_queue, LineOf(w))
           /\ UNCHANGED <<single_log, lost>>
           /\ rival' = [v \in Writers |-> rival[v] \/ v # w]
  <2>1. /\ m_log_queue' \in Seq(Lines) /\ Len(m_log_queue') = Len(m_log_queue) + 1
        /\ Queued' = Queued \cup {LineOf(w)}
    BY <1>1, <1>4, <1>9, PutEffect
  <2>2. rival' \in [Writers -> BOOLEAN]
    <3>1. \A v \in Writers : (rival[v] \/ v # w) \in BOOLEAN
      OBVIOUS
    <3> QED BY <3>1, <1>9, Zenon
  <2>3. TypeOK'
    BY <1>1, <1>3, <1>4, <1>6, <1>9, <2>1, <2>2 DEF TypeOK
  <2>4. PlacesOK'
    <3>1. Len(m_log_queue') <= MaxQueue
      BY <1>1, <1>9, <2>1, LogAssumption, Sizes
    <3>2. Begun' = InWork' \cup Queued' \cup InHand' \cup Written' \cup lost'
      BY <1>1, <1>4, <1>5, <1>9, <2>1 DEF PlacesOK
    <3>3. InWork' \cap (Queued' \cup InHand' \cup Written' \cup lost') = {}
      BY <1>1, <1>4, <1>5, <1>9, <2>1 DEF PlacesOK
    <3>4. Cardinality(Begun') = Cardinality(In(Busy)') + Len(m_log_queue') + Cardinality(InHand')
                                + Len(written') + Cardinality(lost')
      <4>1. /\ Cardinality(Begun') = Cardinality(Begun) /\ Len(m_log_queue') = Len(m_log_queue) + 1
            /\ Cardinality(InHand') = Cardinality(InHand) /\ Len(written') = Len(written)
            /\ Cardinality(lost') = Cardinality(lost)
            /\ Cardinality(In(Busy)') = Cardinality(In(Busy)) - 1
        BY <1>4, <1>5, <1>9, <2>1
      <4>2. Cardinality(Begun) = Cardinality(In(Busy)) + Len(m_log_queue) + Cardinality(InHand)
                                   + Len(written) + Cardinality(lost)
        BY <1>1 DEF PlacesOK
      <4>3. /\ Cardinality(In(Busy)) \in Nat /\ Cardinality(InHand) \in Nat /\ Cardinality(lost) \in Nat
            /\ Len(m_log_queue) \in Nat /\ Len(written) \in Nat
        BY <1>1, Sizes
      <4> QED BY <4>1, <4>2, <4>3
    <3>5. flusher' = "fputs" => m_is_async' /\ Hand' \in Lines'
      BY <1>1, <1>3, <1>4 DEF PlacesOK, Lines
    <3> QED BY <1>3, <1>4, <3>1, <3>2, <3>3, <3>4, <3>5 DEF PlacesOK
  <2> QED BY <1>7, <1>8, <2>3, <2>4 DEF Base
<1>10. CASE /\ Len(m_log_queue) >= MaxQueue
            /\ lost' = lost \cup {LineOf(w)}
            /\ UNCHANGED <<m_log_queue, single_log, rival>>
  <2>1. Queued' = Queued
    BY <1>10 DEF Queued
  <2>2. Cardinality(lost') = Cardinality(lost) + 1
    BY <1>1, <1>4, <1>10, FiniteSets, FS_AddElement
  <2>3. lost' \subseteq Lines
    BY <1>1, <1>4, <1>10 DEF TypeOK
  <2>4. TypeOK'
    BY <1>1, <1>3, <1>4, <1>6, <1>10, <2>3 DEF TypeOK
  <2>5. PlacesOK'
    <3>1. Begun' = InWork' \cup Queued' \cup InHand' \cup Written' \cup lost'
      BY <1>1, <1>4, <1>5, <1>10, <2>1 DEF PlacesOK
    <3>2. InWork' \cap (Queued' \cup InHand' \cup Written' \cup lost') = {}
      BY <1>1, <1>4, <1>5, <1>10, <2>1 DEF PlacesOK
    <3>3. Cardinality(Begun') = Cardinality(In(Busy)') + Len(m_log_queue') + Cardinality(InHand')
                                + Len(written') + Cardinality(lost')
      <4>1. /\ Cardinality(Begun') = Cardinality(Begun) /\ Len(m_log_queue') = Len(m_log_queue)
            /\ Cardinality(InHand') = Cardinality(InHand) /\ Len(written') = Len(written)
            /\ Cardinality(In(Busy)') = Cardinality(In(Busy)) - 1
        BY <1>4, <1>5, <1>10
      <4>2. Cardinality(Begun) = Cardinality(In(Busy)) + Len(m_log_queue) + Cardinality(InHand)
                                   + Len(written) + Cardinality(lost)
        BY <1>1 DEF PlacesOK
      <4>3. /\ Cardinality(In(Busy)) \in Nat /\ Cardinality(InHand) \in Nat /\ Cardinality(lost) \in Nat
            /\ Len(m_log_queue) \in Nat /\ Len(written) \in Nat
        BY <1>1, Sizes
      <4> QED BY <2>2, <4>1, <4>2, <4>3
    <3>4. flusher' = "fputs" => m_is_async' /\ Hand' \in Lines'
      BY <1>1, <1>3, <1>4 DEF PlacesOK, Lines
    <3> QED BY <1>1, <1>3, <1>4, <1>10, <3>1, <3>2, <3>3, <3>4 DEF PlacesOK
  <2> QED BY <1>7, <1>8, <2>4, <2>5 DEF Base
<1> QED BY <1>2, <1>9, <1>10

LEMMA BaseWriteDirect == ASSUME Base, NEW w \in Writers, WriteDirect(w) PROVE Base'
<1>1. TypeOK /\ CountOK /\ PlacesOK /\ ProcessOK
  BY DEF Base
<1>2. /\ Go(w, "direct", "flush")
      /\ written' = Append(written, [line |-> LineOf(w), file |-> m_fp, by |-> w])
      /\ UNCHANGED <<m_is_async, m_log_queue, single_log, flusher, m_count, m_today, m_fp, opened, late, synced,
                     calls, stamp, day, process, lost, rival>>
  BY DEF WriteDirect, Fputs, queue
<1>3. /\ LineOf(w) \in Lines /\ LineOf(w) \in Begun /\ LineOf(w) \in InWork
      /\ LineOf(w) \notin Queued \cup InHand \cup Written \cup lost
      /\ InWork' = InWork \ {LineOf(w)}
      /\ Begun' = Begun /\ InHand' = InHand /\ Hand' = Hand
      /\ Cardinality(In(Busy)') = Cardinality(In(Busy)) - 1
      /\ Cardinality(In({"stamped"})') = Cardinality(In({"stamped"}))
      /\ pc' \in [Writers -> {"idle", "stamped", "counted", "push", "direct", "flush"}]
      /\ \A v \in Writers : pc'[v] = "push" => m_is_async
      /\ process = "run" /\ m_fp \in Files
  BY <1>2, LineGoes
<1>4. /\ written' \in Seq(Entries) /\ Len(written') = Len(written) + 1
      /\ Written' = Written \cup {LineOf(w)}
  BY <1>1, <1>2, <1>3, FputsEffect
<1>5. CountOK'
  BY <1>1, <1>2, <1>3 DEF CountOK
<1>6. ProcessOK'
  BY <1>1, <1>2, <1>3 DEF ProcessOK
<1>7. TypeOK'
  <2>1. synced' \in 0 .. Len(written') /\ opened' \in 0 .. Len(written')
    BY <1>1, <1>2, <1>4, Sizes DEF TypeOK
  <2> QED BY <1>1, <1>2, <1>3, <1>4, <2>1 DEF TypeOK
<1>8. Queued' = Queued
  BY <1>2 DEF Queued
<1>9. PlacesOK'
  <2>1. Begun' = InWork' \cup Queued' \cup InHand' \cup Written' \cup lost'
    BY <1>1, <1>2, <1>3, <1>4, <1>8 DEF PlacesOK
  <2>2. InWork' \cap (Queued' \cup InHand' \cup Written' \cup lost') = {}
    BY <1>1, <1>2, <1>3, <1>4, <1>8 DEF PlacesOK
  <2>3. Cardinality(Begun') = Cardinality(In(Busy)') + Len(m_log_queue') + Cardinality(InHand')
                              + Len(written') + Cardinality(lost')
    <3>1. /\ Cardinality(Begun') = Cardinality(Begun) /\ Len(m_log_queue') = Len(m_log_queue)
          /\ Cardinality(InHand') = Cardinality(InHand) /\ Cardinality(lost') = Cardinality(lost)
      BY <1>2, <1>3
    <3>2. /\ Cardinality(In(Busy)') = Cardinality(In(Busy)) - 1
          /\ Len(written') = Len(written) + 1
      BY <1>3, <1>4
    <3>3. Cardinality(Begun) = Cardinality(In(Busy)) + Len(m_log_queue) + Cardinality(InHand)
                                 + Len(written) + Cardinality(lost)
      BY <1>1 DEF PlacesOK
    <3>4. /\ Cardinality(In(Busy)) \in Nat /\ Cardinality(InHand) \in Nat /\ Cardinality(lost) \in Nat
          /\ Len(m_log_queue) \in Nat /\ Len(written) \in Nat
      BY <1>1, Sizes
    <3> QED BY <3>1, <3>2, <3>3, <3>4
  <2>4. flusher' = "fputs" => m_is_async' /\ Hand' \in Lines'
    BY <1>1, <1>2, <1>3 DEF PlacesOK, Lines
  <2> QED BY <1>1, <1>2, <1>3, <2>1, <2>2, <2>3, <2>4 DEF PlacesOK
<1> QED BY <1>5, <1>6, <1>7, <1>9 DEF Base

LEMMA BasePopLine == ASSUME Base, PopLine PROVE Base' /\ Waiting' = Waiting /\ Written' = Written
<1>1. TypeOK /\ CountOK /\ PlacesOK /\ ProcessOK
  BY DEF Base
<1>2. /\ process # "undefined" /\ flusher = "pop" /\ flusher' = "fputs"
      /\ m_log_queue # <<>> /\ m_log_queue' = Tail(m_log_queue)
      /\ single_log' = [single_log EXCEPT ![FlushThread] = Head(m_log_queue)]
      /\ UNCHANGED <<m_is_async, m_count, m_today, m_fp, opened, late, written, synced, pc, calls, stamp, day,
                     process, lost, rival>>
  BY DEF PopLine, Queue!Take, log
<1>3. /\ m_log_queue' \in Seq(Lines) /\ Len(m_log_queue') \in Nat
      /\ Len(m_log_queue) = Len(m_log_queue') + 1
      /\ Head(m_log_queue) \in Lines /\ Queued = Queued' \cup {Head(m_log_queue)}
  BY <1>1, <1>2, TakeEffect
<1>4. Hand' = Head(m_log_queue) /\ single_log' \in [{FlushThread} -> Lines \cup {NoLine}]
  BY <1>1, <1>2, <1>3 DEF Hand, TypeOK
<1>5. InHand = {} /\ InHand' = {Head(m_log_queue)}
  BY <1>2, <1>4 DEF InHand, Hand
<1>6. Cardinality(InHand) = 0 /\ Cardinality(InHand') = 1
  BY <1>5, FS_EmptySet, FS_Singleton
<1>7. Waiting' = Waiting /\ Written' = Written /\ Begun' = Begun
  BY <1>2, <1>3, <1>5, SameBegun DEF Waiting, Written
<1>8. InWork' = InWork /\ \A ps : In(ps)' = In(ps)
  BY <1>2, SameBegun DEF InWork, In
<1>9. m_is_async
  BY <1>1, <1>2 DEF TypeOK
<1>10. TypeOK'
  BY <1>1, <1>2, <1>3, <1>4, <1>9 DEF TypeOK
<1>11. CountOK'
  BY <1>1, <1>2, <1>7, <1>8 DEF CountOK
<1>12. PlacesOK'
  <2>1. Begun' = InWork' \cup Queued' \cup InHand' \cup Written' \cup lost'
    BY <1>1, <1>2, <1>7, <1>8 DEF PlacesOK, Waiting
  <2>2. InWork' \cap (Queued' \cup InHand' \cup Written' \cup lost') = {}
    BY <1>1, <1>2, <1>7, <1>8 DEF PlacesOK, Waiting
  <2>3. Cardinality(Begun') = Cardinality(In(Busy)') + Len(m_log_queue') + Cardinality(InHand')
                              + Len(written') + Cardinality(lost')
    <3>1. /\ Cardinality(Begun') = Cardinality(Begun) /\ Len(written') = Len(written)
          /\ Cardinality(In(Busy)') = Cardinality(In(Busy)) /\ Cardinality(lost') = Cardinality(lost)
      BY <1>2, <1>7, <1>8
    <3>2. Cardinality(Begun) = Cardinality(In(Busy)) + Len(m_log_queue) + Cardinality(InHand)
                                 + Len(written) + Cardinality(lost)
      BY <1>1 DEF PlacesOK
    <3> QED BY <1>1, <1>3, <1>6, <3>1, <3>2, Sizes
  <2>4. m_is_async' /\ Hand' \in Lines' /\ Len(m_log_queue') <= MaxQueue
    BY <1>1, <1>2, <1>3, <1>4, <1>9, LogAssumption DEF PlacesOK, Lines
  <2>5. \A v \in Writers : pc'[v] = "push" => m_is_async'
    BY <1>2, <1>9
  <2> QED BY <2>1, <2>2, <2>3, <2>4, <2>5 DEF PlacesOK
<1>13. ProcessOK'
  BY <1>1, <1>2 DEF ProcessOK
<1> QED BY <1>7, <1>10, <1>11, <1>12, <1>13 DEF Base

LEMMA BaseFlushThreadWrites == ASSUME Base, FlushThreadWrites PROVE Base'
<1>1. TypeOK /\ CountOK /\ PlacesOK /\ ProcessOK
  BY DEF Base
<1>2. /\ process = "run" /\ flusher = "fputs" /\ flusher' = "pop"
      /\ written' = Append(written, [line |-> Hand, file |-> m_fp, by |-> FlushThread])
      /\ UNCHANGED <<m_is_async, m_log_queue, single_log, m_count, m_today, m_fp, opened, late, synced,
                     pc, calls, stamp, day, process, lost, rival>>
  BY DEF FlushThreadWrites, Fputs, queue, Hand
<1>3. m_fp \in Files /\ m_is_async /\ Hand \in Lines
  BY <1>1, <1>2 DEF TypeOK, ProcessOK, PlacesOK
<1>4. /\ written' \in Seq(Entries) /\ Len(written') = Len(written) + 1
      /\ Written' = Written \cup {Hand}
  BY <1>1, <1>2, <1>3, FputsEffect
<1>5. InHand = {Hand} /\ InHand' = {} /\ Queued' = Queued /\ Begun' = Begun
  BY <1>2, SameBegun DEF InHand, Hand, Queued
<1>6. Cardinality(InHand) = 1 /\ Cardinality(InHand') = 0
  BY <1>5, FS_EmptySet, FS_Singleton
<1>7. InWork' = InWork /\ \A ps : In(ps)' = In(ps)
  BY <1>2, SameBegun DEF InWork, In
<1>8. TypeOK'
  <2>1. synced' \in 0 .. Len(written') /\ opened' \in 0 .. Len(written')
    BY <1>1, <1>2, <1>4, Sizes DEF TypeOK
  <2> QED BY <1>1, <1>2, <1>3, <1>4, <2>1 DEF TypeOK
<1>9. CountOK'
  BY <1>1, <1>2, <1>5, <1>7 DEF CountOK
<1>10. PlacesOK'
  <2>1. Begun' = InWork' \cup Queued' \cup InHand' \cup Written' \cup lost'
    BY <1>1, <1>2, <1>4, <1>5, <1>7 DEF PlacesOK
  <2>2. InWork' \cap (Queued' \cup InHand' \cup Written' \cup lost') = {}
    BY <1>1, <1>2, <1>4, <1>5, <1>7 DEF PlacesOK
  <2>3. Cardinality(Begun') = Cardinality(In(Busy)') + Len(m_log_queue') + Cardinality(InHand')
                              + Len(written') + Cardinality(lost')
    <3>1. /\ Cardinality(Begun') = Cardinality(Begun) /\ Len(m_log_queue') = Len(m_log_queue)
          /\ Cardinality(In(Busy)') = Cardinality(In(Busy)) /\ Cardinality(lost') = Cardinality(lost)
      BY <1>2, <1>5, <1>7
    <3>2. Cardinality(Begun) = Cardinality(In(Busy)) + Len(m_log_queue) + Cardinality(InHand)
                                 + Len(written) + Cardinality(lost)
      BY <1>1 DEF PlacesOK
    <3>3. /\ Cardinality(In(Busy)) \in Nat /\ Cardinality(InHand) \in Nat /\ Cardinality(lost) \in Nat
          /\ Len(m_log_queue) \in Nat /\ Len(written) \in Nat
      BY <1>1, Sizes
    <3>4. Len(written') = Len(written) + 1
      BY <1>4
    <3> QED BY <1>6, <3>1, <3>2, <3>3, <3>4
  <2>4. /\ flusher' # "fputs" /\ Len(m_log_queue') <= MaxQueue
        /\ \A v \in Writers : pc'[v] = "push" => m_is_async'
    BY <1>1, <1>2, <1>3 DEF PlacesOK
  <2> QED BY <2>1, <2>2, <2>3, <2>4 DEF PlacesOK
<1>11. ProcessOK'
  BY <1>1, <1>2 DEF ProcessOK
<1> QED BY <1>8, <1>9, <1>10, <1>11 DEF Base

\* The steps that move no line.
LEMMA BaseRest ==
    ASSUME Base, NextDay \/ FlushThreadFails \/ Exit \/ UNCHANGED vars
    PROVE  Base'
<1>1. TypeOK /\ CountOK /\ PlacesOK /\ ProcessOK
  BY DEF Base
<1>2. /\ UNCHANGED <<m_is_async, m_log_queue, single_log, flusher, m_count, m_today, written,
                     pc, calls, stamp, lost, rival>>
      /\ day' \in {day, day + 1} /\ (day' # day => day < LastDay)
      /\ \/ UNCHANGED <<m_fp, opened, late, synced>> /\ (process' = process \/ (process' # "run" /\ process = "exit"))
         \/ /\ m_fp' = Closed /\ synced' = Len(written) /\ opened' = Len(written) /\ late' = Late
            /\ process' = "exit"
            /\ \A w \in Writers : pc[w] = "idle"
      /\ process' \in {process, "exit", "undefined"}
  BY DEF NextDay, FlushThreadFails, Exit, Reopen, vars, queue, log
<1>3. InWork' = InWork /\ \A ps : In(ps)' = In(ps)
  BY <1>2, SameBegun DEF InWork, In
<1>4. TypeOK'
  <2>1. day' \in Days
    BY <1>1, <1>2, LogAssumption DEF TypeOK, Days
  <2>2. synced' \in 0 .. Len(written') /\ opened' \in 0 .. Len(written')
    BY <1>1, <1>2, Sizes DEF TypeOK
  <2>3. m_fp' \in Files \cup {Closed} /\ process' \in {"run", "exit", "undefined"}
    BY <1>1, <1>2 DEF TypeOK
  <2>4. late' \in Nat
    BY <1>1, <1>2, LateIsNat DEF TypeOK
  <2> QED BY <1>1, <1>2, <2>1, <2>2, <2>3, <2>4 DEF TypeOK
<1>5. PlacesOK' /\ Begun' = Begun
  <2>1. \A v \in Writers : pc'[v] = "push" => m_is_async
    BY <1>1, <1>2 DEF PlacesOK
  <2> QED BY <1>2, <1>3, <2>1, SamePlaces
<1>6. CountOK'
  BY <1>1, <1>2, <1>3, <1>5 DEF CountOK
<1>7. ProcessOK'
  BY <1>1, <1>2 DEF ProcessOK
<1> QED BY <1>4, <1>5, <1>6, <1>7 DEF Base

LEMMA BaseStep == Base /\ [Next]_vars => Base'
<1> SUFFICES ASSUME Base, [Next]_vars PROVE Base'
  OBVIOUS
<1>1. ASSUME NEW w \in Writers, LogLine(w) PROVE Base'
  BY <1>1, BaseWriteLog, BaseCountLine, BaseTestFull, BasePushLine, BaseWriteDirect, BaseFlush
     DEF LogLine
<1>2. CASE FlushLoop
  BY <1>2, BasePopLine, BaseFlushThreadWrites, BaseRest DEF FlushLoop
<1>3. CASE NextDay \/ Exit \/ UNCHANGED vars
  BY <1>3, BaseRest
<1> QED BY <1>1, <1>2, <1>3 DEF Next

\* Every variable has its type, the count is not ahead of the lines begun, each
\* line is in one place, and the file is open while anybody logs.
THEOREM BaseCorrect == Spec => []Base
<1> QED BY BaseInit, BaseStep, PTL DEF Spec

\* EachLineOnce counts the lines in work, and Base the writers that work.
LEMMA WorkCount ==
    ASSUME TypeOK
    PROVE  Cardinality(InWork) = Cardinality(In(Busy))
<1> DEFINE f == [w \in In(Busy) |-> LineOf(w)]
<1>1. InWork = {LineOf(w) : w \in In(Busy)}
  BY WorkLines
<1>2. f \in Bijection(In(Busy), InWork)
  <2>1. f \in [In(Busy) -> InWork]
    BY <1>1
  <2>2. \A v, w \in In(Busy) : f[v] = f[w] => v = w
    BY DEF LineOf
  <2>3. \A l \in InWork : \E w \in In(Busy) : f[w] = l
    BY <1>1
  <2> QED BY <2>1, <2>2, <2>3, Fun_IsBij
<1>3. ExistsBijection(In(Busy), InWork)
  BY <1>2 DEF ExistsBijection
<1> QED BY <1>3, InIsFinite, FS_Bijection

\* Each line that was begun is in exactly one place: in its writer's hands, in
\* the queue, in the flush thread's, in the file, or lost.
THEOREM EachLineOnceCorrect == Spec => []EachLineOnce
<1>1. Base => EachLineOnce
  <2> SUFFICES ASSUME Base PROVE EachLineOnce
    OBVIOUS
  <2>1. TypeOK /\ PlacesOK
    BY DEF Base
  <2>2. Cardinality(InWork) = Cardinality(In(Busy))
    BY <2>1, WorkCount
  <2> QED BY <2>1, <2>2 DEF EachLineOnce, PlacesOK
<1> QED BY <1>1, BaseCorrect, PTL

-----------------------------------------------------------------------------
\* Who can lose a line.  Only a writer that is about to push has seen room, and
\* only another one's push takes the room away.
LEMMA LossStep == TypeOK /\ LossNeedsRival /\ [Next]_vars => LossNeedsRival'
<1> SUFFICES ASSUME TypeOK, LossNeedsRival, [Next]_vars,
                    NEW v \in Writers, pc'[v] = "push", Len(m_log_queue') >= MaxQueue
             PROVE  rival'[v]
  BY DEF LossNeedsRival
<1> USE LogAssumption
<1>1. Len(m_log_queue) \in Nat
  BY Sizes
<1>2. ASSUME pc' = pc \/ (\E w \in Writers, to \in {"idle", "stamped", "counted", "flush"} :
                              pc' = [pc EXCEPT ![w] = to]),
             m_log_queue' = m_log_queue, rival' = rival
      PROVE  rival'[v]
  <2>1. pc[v] = "push"
    BY <1>2 DEF TypeOK
  <2> QED BY <2>1, <1>2 DEF LossNeedsRival
<1>3. ASSUME NEW w \in Writers, WriteLog(w) \/ CountLine(w) \/ WriteDirect(w) \/ Flush(w)
      PROVE  rival'[v]
  BY <1>2, <1>3 DEF WriteLog, CountLine, WriteDirect, Flush, Go, queue
<1>4. ASSUME NEW w \in Writers, TestFull(w)
      PROVE  rival'[v]
  <2>1. /\ Go(w, "counted", IF m_is_async /\ Len(m_log_queue) < MaxQueue THEN "push" ELSE "direct")
        /\ rival' = [rival EXCEPT ![w] = FALSE] /\ UNCHANGED m_log_queue
    BY <1>4 DEF TestFull, queue
  <2>2. CASE v = w
    <3>1. pc'[w] = IF m_is_async /\ Len(m_log_queue) < MaxQueue THEN "push" ELSE "direct"
      BY <2>1 DEF Go, TypeOK
    <3>2. Len(m_log_queue) < MaxQueue
      BY <2>2, <3>1
    <3> QED BY <1>1, <2>1, <3>2
  <2>3. CASE v # w
    <3>1. pc[v] = "push" /\ Len(m_log_queue) >= MaxQueue
      BY <2>1, <2>3 DEF Go, TypeOK
    <3>2. rival[v]
      BY <3>1 DEF LossNeedsRival
    <3>3. rival'[v] = rival[v]
      BY <2>1, <2>3 DEF TypeOK
    <3> QED BY <3>2, <3>3
  <2> QED BY <2>2, <2>3
<1>5. ASSUME NEW w \in Writers, PushLine(w)
      PROVE  rival'[v]
  <2>1. /\ Go(w, "push", "flush")
        /\ \/ rival' = [u \in Writers |-> rival[u] \/ u # w]
           \/ UNCHANGED <<m_log_queue, rival>>
    BY <1>5 DEF PushLine, queue
  <2>2. v # w /\ pc[v] = "push"
    BY <2>1 DEF Go, TypeOK
  <2>3. CASE rival' = [u \in Writers |-> rival[u] \/ u # w]
    BY <2>2, <2>3, Zenon
  <2>4. CASE UNCHANGED <<m_log_queue, rival>>
    BY <2>2, <2>4 DEF LossNeedsRival
  <2> QED BY <2>1, <2>3, <2>4
<1>6. CASE PopLine
  <2>1. /\ m_log_queue # <<>> /\ m_log_queue' = Tail(m_log_queue) /\ UNCHANGED <<pc, rival>>
    BY <1>6 DEF PopLine, Queue!Take
  <2>2. Len(m_log_queue') \in Nat /\ Len(m_log_queue) = Len(m_log_queue') + 1
    BY <2>1, TakeEffect
  <2> QED BY <2>1, <2>2 DEF LossNeedsRival
<1>7. CASE FlushThreadWrites \/ FlushThreadFails \/ NextDay \/ Exit \/ UNCHANGED vars
  BY <1>2, <1>7 DEF FlushThreadWrites, FlushThreadFails, NextDay, Exit, vars, queue
<1> QED BY <1>3, <1>4, <1>5, <1>6, <1>7 DEF Next, LogLine, FlushLoop

\* A line is lost only when another writer has taken the room that its own saw.
THEOREM LossNeedsRivalCorrect == Spec => []LossNeedsRival
<1>1. Init => LossNeedsRival
  BY DEF Init, LossNeedsRival
<1>2. Base => TypeOK
  BY DEF Base
<1> QED BY <1>1, <1>2, LossStep, BaseCorrect, PTL DEF Spec

-----------------------------------------------------------------------------
\* What a synchronous log has made durable.
LEMMA SyncInit == Init => SyncIsDurable
<1> SUFFICES ASSUME Init PROVE Begun = {}
  BY DEF SyncIsDurable
<1> QED BY DEF Init, Begun, Lines

\* A line that stays out of work keeps its place.
LEMMA SyncKeeps ==
    ASSUME Base, SyncIsDurable, m_is_async' = m_is_async, calls' = calls,
           \A l \in Begun \ InWork' :
              l \notin InWork /\ (pc'[l[1]] = "idle" => pc[l[1]] = "idle"),
           synced' >= synced, synced' \in Nat,
           \A i \in 1 .. synced : written'[i] = written[i]
    PROVE  SyncIsDurable'
<1> SUFFICES ASSUME ~m_is_async', NEW l \in Begun' \ InWork', pc'[l[1]] = "idle" \/ l[2] < calls'[l[1]]
             PROVE  \E i \in 1 .. synced' : written'[i].line = l
  BY DEF SyncIsDurable
<1>1. Begun' = Begun
  BY SameBegun
<1>2. l \in Begun \ InWork /\ (pc[l[1]] = "idle" \/ l[2] < calls[l[1]])
  BY <1>1
<1>3. PICK i \in 1 .. synced : written[i].line = l
  BY <1>2 DEF SyncIsDurable
<1>4. i \in 1 .. synced'
  BY <1>3, Sizes DEF Base
<1> QED BY <1>3, <1>4

LEMMA SyncStep == Base /\ SyncIsDurable /\ [Next]_vars => SyncIsDurable'
<1> SUFFICES ASSUME Base, SyncIsDurable, [Next]_vars, ~m_is_async
             PROVE  SyncIsDurable'
  <2>1. ASSUME [Next]_vars PROVE m_is_async' = m_is_async
    BY <2>1 DEF Next, LogLine, FlushLoop, WriteLog, CountLine, TestFull, PushLine, WriteDirect,
       Flush, PopLine, FlushThreadWrites, FlushThreadFails, NextDay, Exit, vars
  <2> QED BY <2>1 DEF SyncIsDurable
<1>1. TypeOK /\ PlacesOK
  BY DEF Base
<1>2. m_log_queue = <<>> /\ flusher = "pop" /\ lost = {}
  BY <1>1 DEF TypeOK
<1>3. Len(written) \in Nat /\ synced \in 0 .. Len(written) /\ synced \in Nat
  BY <1>1, Sizes DEF TypeOK
<1>4. ASSUME NEW w \in Writers, WriteLog(w)
      PROVE  SyncIsDurable'
  <2>1. /\ Go(w, "idle", "stamped") /\ calls' = [calls EXCEPT ![w] = calls[w] + 1]
        /\ UNCHANGED <<m_is_async, written, synced>>
    BY <1>4 DEF WriteLog, log
  <2>2. /\ Begun' = Begun \cup {<<w, calls[w] + 1>>} /\ InWork' = InWork \cup {<<w, calls[w] + 1>>}
    BY <1>4, WriteLogEffect
  <2> SUFFICES ASSUME NEW l \in Begun' \ InWork', pc'[l[1]] = "idle" \/ l[2] < calls'[l[1]]
               PROVE  \E i \in 1 .. synced : written[i].line = l
    BY <2>1 DEF SyncIsDurable
  <2>3. l \in Begun \ InWork /\ l[1] \in Writers
    BY <2>2 DEF Begun, Lines
  <2>4. pc[l[1]] = "idle" \/ l[2] < calls[l[1]]
    <3>1. CASE l[1] = w
      BY <2>1, <3>1 DEF Go
    <3>2. CASE l[1] # w
      BY <1>1, <2>1, <2>3, <3>2 DEF Go, TypeOK
    <3> QED BY <3>1, <3>2
  <2> QED BY <2>3, <2>4 DEF SyncIsDurable
<1>5. ASSUME NEW w \in Writers, CountLine(w)
      PROVE  SyncIsDurable'
  <2>1. /\ Go(w, "stamped", "counted") /\ UNCHANGED <<m_is_async, written, calls>>
        /\ synced' \in {synced, Len(written)} /\ opened' \in {opened, Len(written)}
    BY <1>5 DEF CountLine, Reopen
  <2>2. InWork' = InWork
    BY <1>1, <2>1, WorkGoes DEF Busy
  <2>3. \A v \in Writers : pc'[v] = "idle" => pc[v] = "idle"
    BY <1>1, <2>1 DEF Go, TypeOK
  <2>4. \A l \in Begun \ InWork' : l \notin InWork /\ (pc'[l[1]] = "idle" => pc[l[1]] = "idle")
    BY <2>2, <2>3 DEF Begun, Lines
  <2> QED BY <2>1, <2>4, <1>3, SyncKeeps
<1>6. ASSUME NEW w \in Writers, TestFull(w)
      PROVE  SyncIsDurable'
  <2>1. /\ Go(w, "counted", "direct") /\ UNCHANGED <<m_is_async, written, calls, synced>>
    BY <1>6 DEF TestFull, log
  <2>2. InWork' = InWork
    BY <1>1, <2>1, WorkGoes DEF Busy
  <2>3. \A v \in Writers : pc'[v] = "idle" => pc[v] = "idle"
    BY <1>1, <2>1 DEF Go, TypeOK
  <2>4. \A l \in Begun \ InWork' : l \notin InWork /\ (pc'[l[1]] = "idle" => pc[l[1]] = "idle")
    BY <2>2, <2>3 DEF Begun, Lines
  <2> QED BY <2>1, <2>4, <1>3, SyncKeeps
<1>7. ASSUME NEW w \in Writers, PushLine(w)
      PROVE  FALSE
  BY <1>1, <1>7 DEF PushLine, Go, PlacesOK
<1>8. ASSUME NEW w \in Writers, WriteDirect(w)
      PROVE  SyncIsDurable'
  <2>1. /\ Go(w, "direct", "flush") /\ UNCHANGED <<m_is_async, calls, synced>>
        /\ written' = Append(written, [line |-> LineOf(w), file |-> m_fp, by |-> w])
    BY <1>8 DEF WriteDirect, Fputs
  <2>2. LineOf(w) \in Lines /\ m_fp \in Files
    <3>1. w \in In(Busy)
      BY <1>1, <2>1, GoMoves DEF Busy
    <3> QED BY <1>1, <3>1, <2>1, WorkIsBegun, BusyRuns DEF Go
  <2>3. \A i \in 1 .. synced : written'[i] = written[i]
    <3>1. \A i \in DOMAIN written : written'[i] = written[i]
      BY <1>1, <2>1, <2>2, FputsEffect
    <3>2. \A i \in 1 .. synced : i \in DOMAIN written
      BY <1>1, <1>3, LenProperties DEF TypeOK
    <3> QED BY <3>1, <3>2
  <2>4. ~m_is_async /\ InWork' = InWork \ {LineOf(w)}
    BY <1>1, <2>1, WorkGoes DEF Busy
  <2>5. \A v \in Writers : pc'[v] = IF v = w THEN "flush" ELSE pc[v]
    BY <1>1, <2>1 DEF Go, TypeOK
  <2> SUFFICES ASSUME NEW l \in Begun' \ InWork', pc'[l[1]] = "idle" \/ l[2] < calls'[l[1]]
               PROVE  \E i \in 1 .. synced : written'[i].line = l
    BY <2>1 DEF SyncIsDurable
  <2>6. Begun' = Begun /\ l \in Begun /\ l[1] \in Writers
    BY <2>1, SameBegun DEF Begun, Lines
  <2>7. pc[l[1]] = "idle" \/ l[2] < calls[l[1]]
    BY <2>1, <2>5, <2>6
  <2>8. l \notin InWork
    <3>1. CASE l = LineOf(w)
      <4>1. l[1] = w /\ l[2] = calls[w] /\ calls[w] \in Nat
        BY <3>1, <1>1, LogAssumption DEF LineOf, TypeOK
      <4> QED BY <4>1, <2>1, <2>7 DEF Go
    <3>2. CASE l # LineOf(w)
      BY <2>4, <3>2
    <3> QED BY <3>1, <3>2
  <2>9. \E i \in 1 .. synced : written[i].line = l
    BY <2>6, <2>7, <2>8 DEF SyncIsDurable
  <2> QED BY <2>3, <2>9
<1>9. ASSUME NEW w \in Writers, Flush(w)
      PROVE  SyncIsDurable'
  <2>1. /\ UNCHANGED <<m_is_async, written, calls>> /\ synced' = Len(written)
        /\ Go(w, "flush", "idle")
    BY <1>9 DEF Flush
  <2>2. InWork' = InWork
    <3>1. \A v \in Writers : pc'[v] \notin {"idle", "flush"} <=> pc[v] \notin {"idle", "flush"}
      BY <1>1, <2>1 DEF Go, TypeOK
    <3>2. \A v \in Writers : LineOf(v)' = LineOf(v)
      BY <2>1, SameBegun
    <3> QED BY <3>1, <3>2 DEF InWork
  <2> SUFFICES ASSUME NEW l \in Begun' \ InWork'
               PROVE  \E i \in 1 .. Len(written) : written[i].line = l
    BY <2>1 DEF SyncIsDurable
  <2>3. l \in Begun \ InWork
    BY <2>1, <2>2, SameBegun
  <2>4. l \in Written
    BY <1>1, <1>2, <2>3 DEF PlacesOK, Queued, InHand
  <2>5. DOMAIN written = 1 .. Len(written)
    BY <1>1, LenProperties DEF TypeOK
  <2> QED BY <2>4, <2>5 DEF Written
<1>10. CASE FlushLoop
  BY <1>2, <1>10 DEF FlushLoop, PopLine, FlushThreadWrites, FlushThreadFails, Queue!Take
<1>11. CASE NextDay \/ Exit \/ UNCHANGED vars
  <2>1. /\ UNCHANGED <<m_is_async, written, calls, pc>> /\ synced' \in {synced, Len(written)}
    BY <1>11 DEF NextDay, Exit, Reopen, vars, log
  <2>2. InWork' = InWork
    BY <2>1, SameBegun DEF InWork
  <2> QED BY <2>1, <2>2, <1>3, SyncKeeps
<1> QED BY <1>4, <1>5, <1>6, <1>7, <1>8, <1>9, <1>10, <1>11 DEF Next, LogLine

\* When a LOG_ macro of a synchronous log returns its line has left the buffer.
THEOREM SyncIsDurableCorrect == Spec => []SyncIsDurable
<1> QED BY SyncInit, SyncStep, BaseCorrect, PTL DEF Spec

-----------------------------------------------------------------------------
\* How far lines change places.  In the queue they do not.
LEMMA OrderStep == Base /\ OrderOK /\ [Next]_vars => OrderOK'
<1> SUFFICES ASSUME Base, OrderOK, [Next]_vars PROVE OrderOK'
  OBVIOUS
<1>1. TypeOK /\ PlacesOK
  BY DEF Base
<1>2. ASSUME UNCHANGED <<m_log_queue, single_log>>, flusher' = flusher \/ flusher' = "pop"
      PROVE  OrderOK'
  BY <1>2 DEF OrderOK, Hand
<1>3. ASSUME NEW w \in Writers, LogLine(w), ~PushLine(w)
      PROVE  OrderOK'
  BY <1>2, <1>3 DEF LogLine, WriteLog, CountLine, TestFull, WriteDirect, Flush, queue
<1>4. ASSUME NEW w \in Writers, PushLine(w)
      PROVE  OrderOK'
  <2>1. /\ Go(w, "push", "flush") /\ UNCHANGED <<flusher, single_log>>
        /\ m_log_queue' = Append(m_log_queue, LineOf(w)) \/ m_log_queue' = m_log_queue
    BY <1>4 DEF PushLine, Queue!Put, queue
  <2>2. CASE m_log_queue' = m_log_queue
    BY <1>2, <2>1, <2>2
  <2>3. CASE m_log_queue' = Append(m_log_queue, LineOf(w))
    <3>1. w \in In(Busy) /\ LineOf(w) \in Lines
      <4>1. w \in In(Busy)
        BY <1>1, <2>1, GoMoves DEF Busy
      <4> QED BY <1>1, <4>1, WorkIsBegun
    <3>2. /\ Len(m_log_queue) \in Nat
          /\ DOMAIN m_log_queue = 1 .. Len(m_log_queue)
          /\ DOMAIN m_log_queue' = 1 .. Len(m_log_queue) + 1
          /\ \A i \in DOMAIN m_log_queue : m_log_queue'[i] = m_log_queue[i]
          /\ m_log_queue'[Len(m_log_queue) + 1] = LineOf(w)
      BY <1>1, <2>3, <3>1, PutEffect
    <3>3. ASSUME NEW l \in Waiting, l[1] = LineOf(w)[1]
          PROVE  l[2] < LineOf(w)[2]
      <4>1. LineOf(w)[1] = w /\ LineOf(w)[2] = calls[w]
        BY DEF LineOf
      <4> QED BY <1>1, <3>1, <3>3, <4>1, WaitingIsOlder
    <3>4. \A i \in DOMAIN m_log_queue :
             m_log_queue[i][1] = LineOf(w)[1] => m_log_queue[i][2] < LineOf(w)[2]
      BY <3>3 DEF Waiting, Queued
    <3>5. flusher = "fputs" => (LineOf(w)[1] = Hand[1] => Hand[2] < LineOf(w)[2])
      BY <3>3 DEF Waiting, InHand, Hand
    <3>6. ASSUME NEW i \in DOMAIN m_log_queue', NEW j \in DOMAIN m_log_queue', i < j,
                 m_log_queue'[i][1] = m_log_queue'[j][1]
          PROVE  m_log_queue'[i][2] < m_log_queue'[j][2]
      <4>1. i \in DOMAIN m_log_queue /\ m_log_queue'[i] = m_log_queue[i]
        BY <3>2, <3>6
      <4>2. CASE j = Len(m_log_queue) + 1
        BY <3>2, <3>4, <3>6, <4>1, <4>2
      <4>3. CASE j # Len(m_log_queue) + 1
        <5>1. j \in DOMAIN m_log_queue /\ m_log_queue'[j] = m_log_queue[j]
          BY <3>2, <4>3
        <5> QED BY <3>6, <4>1, <5>1 DEF OrderOK
      <4> QED BY <4>2, <4>3
    <3>7. ASSUME flusher' = "fputs", NEW i \in DOMAIN m_log_queue', m_log_queue'[i][1] = Hand'[1]
          PROVE  Hand'[2] < m_log_queue'[i][2]
      <4>1. Hand' = Hand /\ flusher = "fputs"
        BY <2>1, <3>7 DEF Hand
      <4>2. CASE i = Len(m_log_queue) + 1
        BY <3>2, <3>5, <3>7, <4>1, <4>2
      <4>3. CASE i # Len(m_log_queue) + 1
        <5>1. i \in DOMAIN m_log_queue /\ m_log_queue'[i] = m_log_queue[i]
          BY <3>2, <4>3
        <5> QED BY <3>7, <4>1, <5>1 DEF OrderOK
      <4> QED BY <4>2, <4>3
    <3> QED BY <3>6, <3>7 DEF OrderOK
  <2> QED BY <2>1, <2>2, <2>3
<1>5. CASE PopLine
  <2>1. /\ m_log_queue # <<>> /\ m_log_queue' = Tail(m_log_queue)
        /\ single_log' = [single_log EXCEPT ![FlushThread] = Head(m_log_queue)]
    BY <1>5 DEF PopLine, Queue!Take
  <2>2. /\ Len(m_log_queue') \in Nat
        /\ DOMAIN m_log_queue = 1 .. Len(m_log_queue') + 1
        /\ DOMAIN m_log_queue' = 1 .. Len(m_log_queue')
        /\ \A i \in DOMAIN m_log_queue' : m_log_queue'[i] = m_log_queue[i + 1]
        /\ Head(m_log_queue) = m_log_queue[1]
    BY <1>1, <2>1, TakeEffect
  <2>3. Hand' = m_log_queue[1]
    BY <1>1, <2>1, <2>2 DEF Hand, TypeOK
  <2>4. \A i \in DOMAIN m_log_queue' : i + 1 \in DOMAIN m_log_queue /\ 1 < i + 1 /\ 1 \in DOMAIN m_log_queue
    BY <2>2
  <2>5. \A i, j \in DOMAIN m_log_queue' : i < j => i + 1 < j + 1
    BY <2>2
  <2>6. ASSUME NEW i \in DOMAIN m_log_queue', NEW j \in DOMAIN m_log_queue', i < j,
               m_log_queue'[i][1] = m_log_queue'[j][1]
        PROVE  m_log_queue'[i][2] < m_log_queue'[j][2]
    BY <2>2, <2>4, <2>5, <2>6 DEF OrderOK
  <2>7. ASSUME NEW i \in DOMAIN m_log_queue', m_log_queue'[i][1] = Hand'[1]
        PROVE  Hand'[2] < m_log_queue'[i][2]
    BY <2>2, <2>3, <2>4, <2>7 DEF OrderOK
  <2> QED BY <2>6, <2>7 DEF OrderOK
<1>6. CASE FlushThreadWrites \/ FlushThreadFails \/ NextDay \/ Exit \/ UNCHANGED vars
  BY <1>2, <1>6 DEF FlushThreadWrites, FlushThreadFails, NextDay, Exit, vars, queue
<1> QED BY <1>3, <1>4, <1>5, <1>6 DEF Next, FlushLoop

\* The lines that wait are no more than the queue and the flush thread hold.
LEMMA WaitingIsBounded ==
    ASSUME Base
    PROVE  IsFiniteSet(Waiting) /\ Cardinality(Waiting) <= MaxQueue + 1
<1>1. TypeOK /\ PlacesOK
  BY DEF Base
<1>2. Len(m_log_queue) \in Nat /\ DOMAIN m_log_queue = 1 .. Len(m_log_queue)
  BY <1>1, LenProperties DEF TypeOK
<1>3. IsFiniteSet(1 .. Len(m_log_queue)) /\ Cardinality(1 .. Len(m_log_queue)) = Len(m_log_queue)
  <2>1. PICK n \in Nat : n = Len(m_log_queue)
    BY <1>2
  <2>2. IsFiniteSet(1 .. n) /\ Cardinality(1 .. n) = n
    BY FS_Interval
  <2> QED BY <2>1, <2>2
<1>4. m_log_queue \in Surjection(DOMAIN m_log_queue, Queued)
  <2>1. m_log_queue \in [DOMAIN m_log_queue -> Queued]
    BY <1>1, <1>2, LenProperties DEF Queued, TypeOK
  <2> QED BY <2>1, Fun_IsSurj DEF Queued
<1>5. IsFiniteSet(Queued) /\ Cardinality(Queued) <= Len(m_log_queue)
  BY <1>2, <1>3, <1>4, FS_Surjection
<1>6. IsFiniteSet(InHand) /\ Cardinality(InHand) \in 0 .. 1
  BY HandIsOne
<1>7. /\ IsFiniteSet(Waiting)
      /\ Cardinality(Waiting) = Cardinality(Queued) + Cardinality(InHand) - Cardinality(Queued \cap InHand)
  BY <1>5, <1>6, FS_Union DEF Waiting
<1>8. Cardinality(Queued \cap InHand) \in Nat
  BY <1>5, FS_Intersection, FS_CardinalityType
<1>9. Cardinality(Queued) \in Nat /\ MaxQueue \in Nat /\ Len(m_log_queue) <= MaxQueue
  BY <1>1, <1>5, FS_CardinalityType, LogAssumption DEF PlacesOK
<1> QED BY <1>2, <1>5, <1>6, <1>7, <1>8, <1>9

LEMMA CountedFinite ==
    ASSUME Base, NEW i \in DOMAIN written
    PROVE  /\ IsFiniteSet(Overtaken(i)) /\ Cardinality(Overtaken(i)) \in Nat
           /\ IsFiniteSet(Ahead(i)) /\ Cardinality(Ahead(i)) \in 0 .. MaxQueue + 1
           /\ i \in 1 .. Len(written) /\ Len(written) \in Nat
           /\ Overtaken(i) \subseteq DOMAIN written
<1>1. i \in 1 .. Len(written) /\ Len(written) \in Nat /\ DOMAIN written = 1 .. Len(written)
  BY LenProperties DEF Base, TypeOK
<1>2. Overtaken(i) \in SUBSET (i + 1 .. Len(written)) /\ Ahead(i) \in SUBSET Waiting
  BY DEF Overtaken, Ahead
<1>3. IsFiniteSet(i + 1 .. Len(written))
  BY <1>1, FS_Interval
<1>4. /\ IsFiniteSet(Overtaken(i)) /\ IsFiniteSet(Ahead(i))
      /\ Cardinality(Ahead(i)) <= Cardinality(Waiting)
  BY <1>2, <1>3, WaitingIsBounded, FS_Subset
<1>5. Overtaken(i) \subseteq DOMAIN written
  BY <1>1, <1>2
<1> QED BY <1>1, <1>4, <1>5, WaitingIsBounded, FS_CardinalityType, LogAssumption

\* What one more call of fputs() does to the count of what a line was overtaken by.
LEMMA OvertakenGrows ==
    ASSUME Base, m_fp \in Files, NEW l \in Lines, NEW t \in Writers \cup {FlushThread},
           written' = Append(written, [line |-> l, file |-> m_fp, by |-> t]),
           NEW n, n = Len(written) + 1
    PROVE  /\ DOMAIN written' = DOMAIN written \cup {n} /\ n \notin DOMAIN written
           /\ written'[n] = [line |-> l, file |-> m_fp, by |-> t]
           /\ Overtaken(n)' = {}
           /\ \A i \in DOMAIN written :
                 /\ written'[i] = written[i]
                 /\ n \notin Overtaken(i)
                 /\ Overtaken(i)' = IF l[1] = written[i].line[1] /\ l[2] < written[i].line[2]
                                    THEN Overtaken(i) \cup {n} ELSE Overtaken(i)
<1>1. TypeOK
  BY DEF Base
<1>2. /\ Len(written) \in Nat /\ DOMAIN written = 1 .. Len(written)
      /\ DOMAIN written' = 1 .. Len(written) + 1 /\ Len(written') = n
      /\ \A i \in DOMAIN written : written'[i] = written[i]
      /\ written'[n] = [line |-> l, file |-> m_fp, by |-> t]
  BY <1>1, FputsEffect
<1>3. DOMAIN written' = DOMAIN written \cup {n} /\ n \notin DOMAIN written /\ n \in Nat
  BY <1>2
<1>4. Overtaken(n)' = {}
  BY <1>2, <1>3 DEF Overtaken
<1>5. ASSUME NEW i \in DOMAIN written
      PROVE  /\ n \notin Overtaken(i)
             /\ Overtaken(i)' = IF l[1] = written[i].line[1] /\ l[2] < written[i].line[2]
                                THEN Overtaken(i) \cup {n} ELSE Overtaken(i)
  <2>1. i \in 1 .. Len(written) /\ written'[i] = written[i]
    BY <1>2
  <2>2. n \notin i + 1 .. Len(written) /\ i + 1 .. n = (i + 1 .. Len(written)) \cup {n}
    BY <1>2, <2>1
  <2>3. \A j \in i + 1 .. Len(written) : written'[j] = written[j]
    BY <1>2, <2>1
  <2>4. Overtaken(i)' = {j \in i + 1 .. n : /\ written'[j].line[1] = written[i].line[1]
                                            /\ written'[j].line[2] < written[i].line[2]}
    BY <1>2, <2>1 DEF Overtaken
  <2>5. written'[n].line = l
    BY <1>2
  <2> QED BY <2>2, <2>3, <2>4, <2>5 DEF Overtaken
<1> QED BY <1>2, <1>3, <1>4, <1>5

\* No writer works on a line that is older than one it wrote.
LEMMA WorkIsNewest ==
    ASSUME Base, NEW w \in In(Busy), NEW i \in DOMAIN written
    PROVE  ~(LineOf(w)[1] = written[i].line[1] /\ LineOf(w)[2] < written[i].line[2])
<1>1. TypeOK /\ PlacesOK /\ w \in Writers
  BY DEF Base, In
<1>2. LineOf(w)[1] = w /\ LineOf(w)[2] = calls[w] /\ calls[w] \in Nat
  BY <1>1, LogAssumption DEF LineOf, TypeOK
<1>3. written[i].line \in Written
  BY DEF Written
<1>4. written[i].line[2] \in Nat /\ written[i].line[2] <= calls[written[i].line[1]]
  BY <1>1, <1>3, LogAssumption, WaitingIsOlder
<1> QED BY <1>2, <1>4

\* Every writer writes lines that are newer than what it wrote, and a line that
\* fputs() gets overtakes exactly the older lines that still wait.
LEMMA OvertakeStep == Base /\ OrderOK /\ OvertakeOK /\ [Next]_vars => OvertakeOK'
<1> SUFFICES ASSUME Base, OrderOK, OvertakeOK, [Next]_vars PROVE OvertakeOK'
  OBVIOUS
<1>1. TypeOK /\ PlacesOK
  BY DEF Base
<1>2. DOMAIN written = 1 .. Len(written) /\ Len(written) \in Nat
  BY <1>1, LenProperties DEF TypeOK
<1>3. ASSUME written' = written, Waiting' = Waiting
      PROVE  OvertakeOK'
  <2>1. \A i \in DOMAIN written : Overtaken(i)' = Overtaken(i) /\ Ahead(i)' = Ahead(i)
    BY <1>3 DEF Overtaken, Ahead
  <2> QED BY <1>3, <2>1 DEF OvertakeOK
<1>4. ASSUME UNCHANGED <<m_log_queue, single_log, flusher>>
      PROVE  Waiting' = Waiting
  BY <1>4 DEF Waiting, Queued, InHand
<1>5. ASSUME NEW w \in Writers, LogLine(w), ~PushLine(w), ~WriteDirect(w)
      PROVE  OvertakeOK'
  BY <1>3, <1>4, <1>5 DEF LogLine, WriteLog, CountLine, TestFull, Flush, queue, log
<1>6. ASSUME NEW w \in Writers, PushLine(w)
      PROVE  OvertakeOK'
  <2>1. /\ Go(w, "push", "flush") /\ UNCHANGED <<flusher, single_log, written>>
        /\ m_log_queue' = Append(m_log_queue, LineOf(w)) \/ m_log_queue' = m_log_queue
    BY <1>6 DEF PushLine, Queue!Put, queue, log
  <2>2. CASE m_log_queue' = m_log_queue
    BY <1>3, <1>4, <2>1, <2>2
  <2>3. CASE m_log_queue' = Append(m_log_queue, LineOf(w))
    <3>1. w \in In(Busy)
      BY <1>1, <2>1, GoMoves DEF Busy
    <3>2. LineOf(w) \in Lines
      BY <1>1, <3>1, WorkIsBegun
    <3>3. Waiting' = Waiting \cup {LineOf(w)}
      <4>1. Queued' = Queued \cup {LineOf(w)}
        BY <1>1, <2>3, <3>2, PutEffect
      <4>2. InHand' = InHand
        BY <2>1 DEF InHand
      <4> QED BY <4>1, <4>2 DEF Waiting
    <3>4. ASSUME NEW i \in DOMAIN written
          PROVE  Overtaken(i)' = Overtaken(i) /\ Ahead(i)' = Ahead(i)
      <4>3. ~(LineOf(w)[1] = written[i].line[1] /\ LineOf(w)[2] < written[i].line[2])
        BY <3>1, WorkIsNewest
      <4>4. Ahead(i)' = {l \in Waiting' : l[1] = written[i].line[1] /\ l[2] < written[i].line[2]}
        BY <2>1 DEF Ahead
      <4>5. Ahead(i)' = Ahead(i)
        BY <3>3, <4>3, <4>4 DEF Ahead
      <4>6. Overtaken(i)' = Overtaken(i)
        BY <2>1 DEF Overtaken
      <4> QED BY <4>5, <4>6
    <3> QED BY <2>1, <3>4 DEF OvertakeOK
  <2> QED BY <2>1, <2>2, <2>3
<1>7. ASSUME NEW w \in Writers, WriteDirect(w)
      PROVE  OvertakeOK'
  <2>1. /\ Go(w, "direct", "flush") /\ UNCHANGED <<m_log_queue, single_log, flusher, m_fp>>
        /\ written' = Append(written, [line |-> LineOf(w), file |-> m_fp, by |-> w])
    BY <1>7 DEF WriteDirect, Fputs, queue
  <2>2. w \in In(Busy) /\ m_fp \in Files
    <3>1. w \in In(Busy)
      BY <1>1, <2>1, GoMoves DEF Busy
    <3>2. pc[w] # "idle"
      BY <2>1 DEF Go
    <3> QED BY <3>1, <3>2, BusyRuns
  <2>3. LineOf(w) \in Lines
    BY <1>1, <2>2, WorkIsBegun
  <2>4. PICK n \in Nat : n = Len(written) + 1
    BY <1>2
  <2>5. /\ DOMAIN written' = DOMAIN written \cup {n}
        /\ written'[n] = [line |-> LineOf(w), file |-> m_fp, by |-> w]
        /\ Overtaken(n)' = {}
        /\ \A i \in DOMAIN written :
              /\ written'[i] = written[i]
              /\ Overtaken(i)' = IF LineOf(w)[1] = written[i].line[1] /\ LineOf(w)[2] < written[i].line[2]
                                 THEN Overtaken(i) \cup {n} ELSE Overtaken(i)
    BY <2>1, <2>2, <2>3, <2>4, OvertakenGrows
  <2>6. Waiting' = Waiting
    BY <1>4, <2>1
  <2>7. \A i \in DOMAIN written :
           written'[i] = written[i] /\ Overtaken(i)' = Overtaken(i) /\ Ahead(i)' = Ahead(i)
    BY <2>2, <2>5, <2>6, WorkIsNewest DEF Ahead
  <2>8. /\ Overtaken(n)' = {} /\ Cardinality(Overtaken(n)') = 0
        /\ Cardinality(Ahead(n)') \in 0 .. MaxQueue + 1
    <3>1. Ahead(n)' \in SUBSET Waiting
      BY <2>6 DEF Ahead
    <3>2. IsFiniteSet(Waiting) /\ Cardinality(Waiting) <= MaxQueue + 1
      BY WaitingIsBounded
    <3> QED BY <2>5, <3>1, <3>2, FS_Subset, FS_EmptySet, FS_CardinalityType, LogAssumption
  <2>9. written'[n].by # FlushThread
    BY <2>5, LogAssumption
  <2>10. ASSUME NEW i \in DOMAIN written'
         PROVE  /\ Cardinality(Overtaken(i)') + Cardinality(Ahead(i)') <= MaxQueue + 1
                /\ written'[i].by = FlushThread => Overtaken(i)' = {} /\ Ahead(i)' = {}
                /\ \A j \in Overtaken(i)' : written'[j].by = FlushThread
    <3>1. CASE i = n
      BY <2>8, <2>9, <3>1, LogAssumption
    <3>2. CASE i \in DOMAIN written
      BY <2>7, <3>2, CountedFinite DEF OvertakeOK
    <3> QED BY <2>5, <3>1, <3>2
  <2> QED BY <2>10 DEF OvertakeOK
<1>8. CASE PopLine
  BY <1>3, <1>8, BasePopLine DEF PopLine, log
<1>9. CASE FlushThreadWrites
  <2>1. /\ flusher = "fputs" /\ flusher' = "pop" /\ UNCHANGED <<m_log_queue, single_log, m_fp>>
        /\ written' = Append(written, [line |-> Hand, file |-> m_fp, by |-> FlushThread])
        /\ process = "run"
    BY <1>9 DEF FlushThreadWrites, Fputs, queue, Hand
  <2>2. m_fp \in Files /\ Hand \in Lines
    BY <1>1, <2>1 DEF Base, ProcessOK, TypeOK, PlacesOK
  <2>3. PICK n \in Nat : n = Len(written) + 1
    BY <1>2
  <2>4. PICK l \in Lines : l = Hand
    BY <2>2
  <2>5. /\ DOMAIN written' = DOMAIN written \cup {n}
        /\ written'[n] = [line |-> l, file |-> m_fp, by |-> FlushThread]
        /\ Overtaken(n)' = {}
        /\ \A i \in DOMAIN written :
              /\ written'[i] = written[i] /\ n \notin Overtaken(i)
              /\ Overtaken(i)' = IF l[1] = written[i].line[1] /\ l[2] < written[i].line[2]
                                 THEN Overtaken(i) \cup {n} ELSE Overtaken(i)
    BY <2>1, <2>2, <2>3, <2>4, OvertakenGrows
  <2>6. Waiting' = Queued /\ Waiting = Queued \cup {l}
    BY <2>1, <2>4 DEF Waiting, InHand, Hand, Queued
  <2>7. \A k \in Queued : k[1] = l[1] => l[2] < k[2] /\ k[2] \in Nat
    <3>1. \A k \in Queued : k \in Waiting
      BY DEF Waiting
    <3>2. \A k \in Queued : k[2] \in Nat
      BY <1>1, <3>1, LogAssumption, WaitingIsOlder
    <3> QED BY <2>1, <2>4, <3>2 DEF OrderOK, Queued
  <2>8. l[2] \in Nat /\ l \notin Queued
    <3>1. l[2] \in Nat
      BY LogAssumption DEF Lines
    <3> QED BY <2>7, <3>1
  <2>9. Ahead(n)' = {}
    <3>1. Ahead(n)' = {k \in Queued : k[1] = l[1] /\ k[2] < l[2]}
      BY <2>5, <2>6 DEF Ahead
    <3> QED BY <2>7, <2>8, <3>1
  <2>10. ASSUME NEW i \in DOMAIN written
         PROVE  /\ Cardinality(Overtaken(i)') + Cardinality(Ahead(i)') <= MaxQueue + 1
                /\ written'[i].by = FlushThread => Overtaken(i)' = {} /\ Ahead(i)' = {}
                /\ \A j \in Overtaken(i)' : written'[j].by = FlushThread
    <3>1. /\ written'[i] = written[i] /\ n \notin Overtaken(i)
          /\ Overtaken(i)' = IF l[1] = written[i].line[1] /\ l[2] < written[i].line[2]
                             THEN Overtaken(i) \cup {n} ELSE Overtaken(i)
      BY <2>5
    <3>2. /\ Cardinality(Overtaken(i)) + Cardinality(Ahead(i)) <= MaxQueue + 1
          /\ written[i].by = FlushThread => Overtaken(i) = {} /\ Ahead(i) = {}
          /\ \A j \in Overtaken(i) : written[j].by = FlushThread
      BY DEF OvertakeOK
    <3>3. /\ IsFiniteSet(Overtaken(i)) /\ Cardinality(Overtaken(i)) \in Nat
          /\ IsFiniteSet(Ahead(i)) /\ Cardinality(Ahead(i)) \in Nat
          /\ Overtaken(i) \subseteq DOMAIN written
      BY CountedFinite
    <3>4. \A j \in Overtaken(i) : written'[j] = written[j]
      BY <2>5, <3>3
    <3>5. Ahead(i)' = {k \in Queued : k[1] = written[i].line[1] /\ k[2] < written[i].line[2]}
      BY <2>6, <3>1 DEF Ahead
    <3>6. CASE l[1] = written[i].line[1] /\ l[2] < written[i].line[2]
      <4>1. l \in Ahead(i) /\ Ahead(i)' = Ahead(i) \ {l}
        BY <2>6, <2>8, <3>5, <3>6 DEF Ahead
      <4>2. Cardinality(Ahead(i)') = Cardinality(Ahead(i)) - 1
        BY <3>3, <4>1, FS_RemoveElement
      <4>3. Overtaken(i)' = Overtaken(i) \cup {n}
        BY <3>1, <3>6
      <4>4. Cardinality(Overtaken(i)') = Cardinality(Overtaken(i)) + 1
        BY <3>1, <3>3, <4>3, FS_AddElement
      <4>5. written[i].by # FlushThread
        BY <3>2, <4>1
      <4>6. \A j \in Overtaken(i)' : written'[j].by = FlushThread
        BY <2>5, <3>2, <3>4, <4>3
      <4>7. Cardinality(Overtaken(i)') + Cardinality(Ahead(i)') <= MaxQueue + 1
        BY <3>2, <3>3, <4>2, <4>4, LogAssumption
      <4> QED BY <3>1, <4>5, <4>6, <4>7
    <3>7. CASE ~(l[1] = written[i].line[1] /\ l[2] < written[i].line[2])
      <4>1. Ahead(i)' = Ahead(i)
        BY <2>6, <3>5, <3>7 DEF Ahead
      <4>2. Overtaken(i)' = Overtaken(i)
        BY <3>1, <3>7
      <4> QED BY <3>1, <3>2, <3>4, <4>1, <4>2
    <3> QED BY <3>6, <3>7
  <2>11. /\ Cardinality(Overtaken(n)') + Cardinality(Ahead(n)') <= MaxQueue + 1
         /\ Overtaken(n)' = {} /\ Ahead(n)' = {}
    BY <2>5, <2>9, FS_EmptySet, LogAssumption
  <2>12. \A i \in DOMAIN written' : i = n \/ i \in DOMAIN written
    BY <2>5
  <2> QED BY <2>10, <2>11, <2>12 DEF OvertakeOK
<1>10. CASE FlushThreadFails \/ NextDay \/ Exit \/ UNCHANGED vars
  BY <1>3, <1>4, <1>10 DEF FlushThreadFails, NextDay, Exit, vars, queue, log
<1> QED BY <1>5, <1>6, <1>7, <1>8, <1>9, <1>10 DEF Next, FlushLoop

\* Lines of one writer change places only when a line that found the queue full
\* overtakes what waits, and no more lines than the queue and the thread hold.
THEOREM OvertakingBoundCorrect == Spec => []OvertakingBound
<1>1. Init => OrderOK /\ OvertakeOK
  BY DEF Init, Queue!Init, OrderOK, OvertakeOK
<1>2. Base /\ OvertakeOK => OvertakingBound
  <2> SUFFICES ASSUME Base, OvertakeOK, NEW i \in DOMAIN written
               PROVE  /\ Cardinality(Overtaken(i)) <= MaxQueue + 1
                      /\ Overtaken(i) # {} => written[i].by # FlushThread
                      /\ \A j \in Overtaken(i) : written[j].by = FlushThread
    BY DEF OvertakingBound
  <2>1. Cardinality(Overtaken(i)) \in Nat /\ Cardinality(Ahead(i)) \in Nat
    BY CountedFinite
  <2> QED BY <2>1, LogAssumption DEF OvertakeOK
<1> QED BY <1>1, <1>2, OrderStep, OvertakeStep, BaseCorrect, PTL DEF Spec

-----------------------------------------------------------------------------
\* How much a file gets.  What is late has been counted and is not written yet:
\* it may still go to a later file than the one it counted for.
LEMMA LateAfterStep ==
    ASSUME TypeOK'
    PROVE  Late' \in Nat
<1>1. IsFiniteSet(In(After)') /\ Cardinality(In(After)') \in Nat
  <2>1. IsFiniteSet(Writers) /\ In(After)' \in SUBSET Writers
    BY LogAssumption DEF In
  <2> QED BY <2>1, FS_Subset, FS_CardinalityType
<1>2. Len(m_log_queue') \in Nat
  BY LenProperties DEF TypeOK, Lines
<1>3. Cardinality(InHand') \in Nat
  <2>1. InHand' = {} \/ InHand' = {Hand'}
    BY DEF InHand, Hand
  <2>2. CASE InHand' = {}
    BY <2>2, FS_EmptySet
  <2>3. CASE InHand' = {Hand'}
    <3>1. Cardinality({Hand'}) = 1
      BY FS_Singleton
    <3> QED BY <2>3, <3>1
  <2> QED BY <2>1, <2>2, <2>3
<1>4. Late' = Cardinality(In(After)') + Len(m_log_queue') + Cardinality(InHand')
  BY DEF Late, After, In
<1> QED BY <1>1, <1>2, <1>3, <1>4

\* What the file has got since it was opened, and how far the count is.
LEMMA FileSizes ==
    ASSUME Base
    PROVE  /\ Len(written) \in Nat /\ opened \in 0 .. Len(written)
           /\ m_count \in Nat /\ SplitLines \in Nat \ {0}
           /\ m_count % SplitLines \in 0 .. SplitLines - 1
           /\ Late \in Nat /\ late \in Nat
<1>1. Len(written) \in Nat
  BY LenProperties DEF Base, TypeOK
<1>2. m_count \in Nat /\ SplitLines \in Nat \ {0}
  BY Sizes, LogAssumption DEF Base
<1>3. m_count % SplitLines \in 0 .. SplitLines - 1
  BY <1>2
<1>4. Late \in Nat /\ late \in Nat
  BY LateIsNat DEF Base, TypeOK
<1> QED BY <1>1, <1>2, <1>3, <1>4 DEF Base, TypeOK

\* A step that neither counts a line nor writes one to the file keeps the bound
\* as long as no more is late than was; a line more in the file is one late less.
LEMMA FileKeeps ==
    ASSUME Base, Base', FileOK, process' = "run" => process = "run",
           UNCHANGED <<m_count, opened, late>>,
           \/ Len(written') = Len(written) /\ Late' <= Late
           \/ Len(written') = Len(written) + 1 /\ Late' = Late - 1
    PROVE  FileOK'
<1> SUFFICES ASSUME process' = "run"
             PROVE  Len(written') - opened' + Late'
                      <= (m_count' % SplitLines) + 1 + late'
  BY DEF FileOK
<1>1. Len(written) - opened + Late <= (m_count % SplitLines) + 1 + late
  BY DEF FileOK
<1>2. Late \in Nat /\ late \in Nat
  BY FileSizes
<1>3. Late' \in Nat
  BY LateAfterStep DEF Base
<1>4. Len(written) \in Nat /\ opened \in Nat /\ m_count % SplitLines \in Nat
  BY FileSizes
<1>5. Len(written') - opened + Late' <= (m_count % SplitLines) + 1 + late
  BY <1>1, <1>2, <1>3, <1>4
<1> QED BY <1>5

\* Counting a line makes one more late, and the file has one more to get; where
\* the file is opened anew, nothing has been written to it.
LEMMA FileCountLine == ASSUME Base, FileOK, NEW w \in Writers, CountLine(w) PROVE FileOK'
<1>1. /\ Go(w, "stamped", "counted") /\ process = "run"
      /\ UNCHANGED <<m_is_async, m_log_queue, single_log, flusher, written, process>>
  BY BusyRuns DEF CountLine, queue, Go
<1>2. Len(written) - opened + Late <= (m_count % SplitLines) + 1 + late
  BY <1>1 DEF FileOK
<1>3. /\ Len(written) \in Nat /\ opened \in 0 .. Len(written)
      /\ m_count \in Nat /\ SplitLines \in Nat \ {0} /\ m_count % SplitLines \in Nat
  BY FileSizes
<1>4. Late \in Nat /\ late \in Nat /\ Cardinality(In(After)) \in Nat
  BY FileSizes, InIsFinite, FS_CardinalityType
<1>5. Late' = Late + 1
  <2>1. Cardinality(In(After)') = Cardinality(In(After)) + 1
    BY <1>1, GoCounts DEF Base, After
  <2>2. InHand' = InHand /\ Len(m_log_queue') = Len(m_log_queue)
    BY <1>1 DEF InHand
  <2>3. /\ Late' = Cardinality(In(After)') + Len(m_log_queue') + Cardinality(InHand')
        /\ Late = Cardinality(In(After)) + Len(m_log_queue) + Cardinality(InHand)
    BY DEF Late, After, In
  <2>4. Len(m_log_queue) \in Nat /\ Cardinality(InHand) \in Nat
    BY Sizes DEF Base
  <2> QED BY <1>4, <2>1, <2>2, <2>3, <2>4
<1>6. Base'
  BY BaseCountLine
<1>7. m_count' \in Nat /\ m_count' % SplitLines \in Nat
  <2>1. m_count' = 0 \/ m_count' = m_count + 1
    <3>1. CASE m_today # stamp[w]
      BY <3>1 DEF CountLine
    <3>2. CASE m_today = stamp[w]
      BY <3>2 DEF CountLine
    <3> QED BY <3>1, <3>2
  <2>2. m_count' \in Nat
    BY <1>3, <2>1
  <2>3. PICK n \in Nat : n = m_count'
    BY <2>2
  <2>4. n % SplitLines \in 0 .. SplitLines - 1
    BY <1>3, CountOn
  <2>5. m_count' % SplitLines = n % SplitLines
    BY <2>3
  <2>6. \A k \in 0 .. SplitLines - 1 : k \in Nat
    BY <1>3
  <2>7. m_count' % SplitLines \in Nat
    BY <2>4, <2>5, <2>6
  <2> QED BY <2>2, <2>7
<1>8. CASE opened' = Len(written') /\ late' = Late
  BY <1>1, <1>3, <1>4, <1>5, <1>7, <1>8 DEF FileOK
<1>9. CASE opened' = opened /\ late' = late /\ m_count' = m_count + 1 /\ (m_count + 1) % SplitLines # 0
  <2>1. m_count' % SplitLines = (m_count % SplitLines) + 1
    BY <1>3, <1>9, CountOn
  <2>2. Len(written) - opened + Late' <= (m_count' % SplitLines) + 1 + late
    BY <1>2, <1>3, <1>4, <1>5, <2>1
  <2> QED BY <1>1, <1>9, <2>2 DEF FileOK
<1> QED BY <1>1, <1>8, <1>9 DEF CountLine, Reopen

LEMMA FileStep == Base /\ FileOK /\ [Next]_vars => FileOK'
<1> SUFFICES ASSUME Base, FileOK, [Next]_vars PROVE FileOK'
  OBVIOUS
<1>1. TypeOK /\ PlacesOK /\ Base'
  BY BaseStep DEF Base
<1>2. Late = Cardinality(In(After)) + Len(m_log_queue) + Cardinality(InHand)
  BY DEF Late, After, In
<1>3. Late' = Cardinality(In(After)') + Len(m_log_queue') + Cardinality(InHand')
  BY DEF Late, After, In
<1>4. /\ Cardinality(In(After)) \in Nat /\ Len(m_log_queue) \in Nat /\ Cardinality(InHand) \in Nat
      /\ Late \in Nat
  BY <1>1, FileSizes, InIsFinite, FS_CardinalityType, Sizes
<1>5. ASSUME NEW w \in Writers, WriteLog(w)
      PROVE  FileOK'
  <2>1. /\ Go(w, "idle", "stamped") /\ stamp' = [stamp EXCEPT ![w] = day]
        /\ UNCHANGED <<m_is_async, m_log_queue, single_log, flusher, m_count, m_today, m_fp, opened, late, written,
                       day, process>>
    BY <1>5 DEF WriteLog, queue, log
  <2>2. Cardinality(In(After)') = Cardinality(In(After))
    BY <1>1, <2>1, GoCounts DEF After
  <2>3. InHand' = InHand
    BY <2>1 DEF InHand
  <2>4. Late' <= Late
    BY <1>2, <1>3, <1>4, <2>1, <2>2, <2>3
  <2> QED BY <1>1, <2>1, <2>4, FileKeeps
<1>6. ASSUME NEW w \in Writers, TestFull(w)
      PROVE  FileOK'
  <2>1. PICK to \in {"push", "direct"} : Go(w, "counted", to)
    BY <1>6 DEF TestFull
  <2>2. UNCHANGED <<m_is_async, m_log_queue, single_log, flusher, m_count, m_today, m_fp, opened, late, written,
                    stamp, day, process>>
    BY <1>6 DEF TestFull, queue, log
  <2>3. Cardinality(In(After)') = Cardinality(In(After))
    BY <1>1, <2>1, GoCounts DEF After
  <2>4. InHand' = InHand
    BY <2>2 DEF InHand
  <2>5. Late' <= Late
    BY <1>2, <1>3, <1>4, <2>2, <2>3, <2>4
  <2> QED BY <1>1, <2>2, <2>5, FileKeeps
<1>7. ASSUME NEW w \in Writers, PushLine(w)
      PROVE  FileOK'
  <2>1. /\ Go(w, "push", "flush")
        /\ UNCHANGED <<m_is_async, single_log, flusher, m_count, m_today, m_fp, opened, late, written,
                       calls, stamp, day, process>>
        /\ m_log_queue' = Append(m_log_queue, LineOf(w)) \/ m_log_queue' = m_log_queue
    BY <1>7 DEF PushLine, Queue!Put, queue, log
  <2>2. Cardinality(In(After)') = Cardinality(In(After)) - 1
    BY <1>1, <2>1, GoCounts DEF After
  <2>3. InHand' = InHand
    BY <2>1 DEF InHand
  <2>4. Len(m_log_queue') \in {Len(m_log_queue), Len(m_log_queue) + 1}
    <3>1. LineOf(w) \in Lines
      BY <2>1, LineGoes
    <3> QED BY <1>1, <2>1, <3>1, PutEffect
  <2>5. Late' <= Late
    BY <1>2, <1>3, <1>4, <2>2, <2>3, <2>4
  <2> QED BY <1>1, <2>1, <2>5, FileKeeps
<1>8. ASSUME NEW w \in Writers, WriteDirect(w)
      PROVE  FileOK'
  <2>1. /\ Go(w, "direct", "flush")
        /\ written' = Append(written, [line |-> LineOf(w), file |-> m_fp, by |-> w])
        /\ UNCHANGED <<m_is_async, m_log_queue, single_log, flusher, m_count, m_today, m_fp, opened, late,
                       calls, stamp, day, process>>
    BY <1>8 DEF WriteDirect, Fputs, queue
  <2>2. LineOf(w) \in Lines /\ process = "run" /\ m_fp \in Files
    BY <2>1, LineGoes
  <2>3. Cardinality(In(After)') = Cardinality(In(After)) - 1
    BY <1>1, <2>1, GoCounts DEF After
  <2>4. InHand' = InHand
    BY <2>1 DEF InHand
  <2>5. Late' = Late - 1
    BY <1>2, <1>3, <1>4, <2>1, <2>3, <2>4
  <2> QED BY <1>1, <2>1, <2>2, <2>5, FileKeeps
<1>9. ASSUME NEW w \in Writers, Flush(w)
      PROVE  FileOK'
  <2>1. /\ Go(w, "flush", "idle")
        /\ UNCHANGED <<m_is_async, m_log_queue, single_log, flusher, m_count, m_today, m_fp, opened, late, written,
                       stamp, day, process>>
    BY <1>9 DEF Flush, queue
  <2>2. Cardinality(In(After)') = Cardinality(In(After))
    BY <1>1, <2>1, GoCounts DEF After
  <2>3. InHand' = InHand
    BY <2>1 DEF InHand
  <2>4. Late' <= Late
    BY <1>2, <1>3, <1>4, <2>1, <2>2, <2>3
  <2> QED BY <1>1, <2>1, <2>4, FileKeeps
<1>10. CASE PopLine
  <2>1. /\ UNCHANGED <<m_is_async, m_count, m_today, m_fp, opened, late, written, pc, stamp, day, process>>
        /\ flusher = "pop" /\ flusher' = "fputs"
        /\ m_log_queue # <<>> /\ m_log_queue' = Tail(m_log_queue)
    BY <1>10 DEF PopLine, Queue!Take, log
  <2>2. In(After)' = In(After)
    BY <2>1 DEF In
  <2>3. Cardinality(InHand) = 0 /\ Cardinality(InHand') = 1
    <3>1. InHand' = {Hand'}
      BY <2>1 DEF InHand, Hand
    <3>2. Cardinality({Hand'}) = 1
      BY FS_Singleton
    <3> QED BY <2>1, <3>1, <3>2, HandIsOne
  <2>4. Len(m_log_queue') \in Nat /\ Len(m_log_queue) = Len(m_log_queue') + 1
    BY <1>1, <2>1, TakeEffect
  <2>5. Late' <= Late
    BY <1>2, <1>3, <1>4, <2>2, <2>3, <2>4
  <2> QED BY <1>1, <2>1, <2>5, FileKeeps
<1>11. CASE FlushThreadWrites
  <2>1. /\ process = "run" /\ flusher = "fputs" /\ flusher' = "pop"
        /\ written' = Append(written, [line |-> Hand, file |-> m_fp, by |-> FlushThread])
        /\ UNCHANGED <<m_is_async, m_log_queue, single_log, m_count, m_today, m_fp, opened, late,
                       pc, stamp, day, process>>
    BY <1>11 DEF FlushThreadWrites, Fputs, queue, Hand
  <2>2. m_fp \in Files /\ Hand \in Lines
    BY <1>1, <2>1 DEF Base, ProcessOK, TypeOK, PlacesOK
  <2>3. In(After)' = In(After)
    BY <2>1 DEF In
  <2>4. Cardinality(InHand) = 1 /\ Cardinality(InHand') = 0
    <3>1. InHand' = {}
      BY <2>1 DEF InHand
    <3> QED BY <2>1, <3>1, HandIsOne, FS_EmptySet
  <2>5. Late' = Late - 1
    BY <1>2, <1>3, <1>4, <2>1, <2>3, <2>4
  <2> QED BY <1>1, <2>1, <2>2, <2>5, FileKeeps
<1>12. CASE NextDay \/ FlushThreadFails \/ UNCHANGED vars
  <2>1. /\ UNCHANGED <<m_is_async, m_log_queue, single_log, flusher, m_count, opened, late, written, pc>>
        /\ process' = process \/ process' # "run"
    BY <1>12 DEF NextDay, FlushThreadFails, vars, queue, log
  <2>2. In(After)' = In(After) /\ InHand' = InHand
    BY <2>1 DEF In, InHand
  <2>3. Late' <= Late
    BY <1>2, <1>3, <1>4, <2>1, <2>2
  <2> QED BY <1>1, <2>1, <2>3, FileKeeps
<1>13. CASE Exit
  BY <1>13 DEF Exit, FileOK
<1>14. ASSUME NEW w \in Writers, CountLine(w)
       PROVE  FileOK'
  BY <1>14, FileCountLine
<1> QED BY <1>5, <1>6, <1>7, <1>8, <1>9, <1>10, <1>11, <1>12, <1>13, <1>14
        DEF Next, LogLine, FlushLoop

LEMMA FileInit == Init => FileOK
<1> SUFFICES ASSUME Init PROVE FileOK
  OBVIOUS
<1>1. /\ m_count = 0 /\ written = <<>> /\ opened = 0 /\ late = 0
      /\ m_log_queue = <<>> /\ flusher = "pop" /\ pc = [w \in Writers |-> "idle"]
  BY DEF Init, Queue!Init
<1>2. Base
  BY BaseInit
<1>3. Late = 0
  <2>1. In(After) = {} /\ Cardinality(In(After)) = 0
    BY <1>1, FS_EmptySet DEF In, After
  <2>2. Cardinality(InHand) = 0 /\ Len(m_log_queue) = 0
    BY <1>1, HandIsOne
  <2> QED BY <1>2, <2>1, <2>2, LateIsNat DEF Base
<1>4. m_count % SplitLines \in Nat
  <2>1. m_count % SplitLines \in 0 .. SplitLines - 1 /\ SplitLines \in Nat \ {0}
    BY <1>2, FileSizes
  <2> QED BY <2>1
<1> QED BY <1>1, <1>3, <1>4 DEF FileOK

\* ~Log() closes the file, and nothing is written after it.
ClosedOK == process # "run" => opened = Len(written)

LEMMA ClosedStep == Base /\ ClosedOK /\ [Next]_vars => ClosedOK'
<1> SUFFICES ASSUME Base, ClosedOK, [Next]_vars, process' # "run" PROVE opened' = Len(written')
  BY DEF ClosedOK
<1>1. CASE Exit
  BY <1>1 DEF Exit, Reopen
<1>2. CASE FlushThreadFails \/ UNCHANGED vars
  BY <1>2 DEF FlushThreadFails, ClosedOK, vars, log
<1>3. CASE NextDay \/ FlushThreadWrites
  BY <1>3 DEF NextDay, FlushThreadWrites
<1>4. CASE PopLine
  BY <1>4 DEF PopLine, ClosedOK, log
<1>5. ASSUME NEW w \in Writers, LogLine(w) PROVE process' = "run"
  <2>1. process = "run"
    BY <1>5, BusyRuns DEF LogLine, WriteLog, CountLine, TestFull, PushLine, WriteDirect, Flush, Go
  <2> QED BY <1>5, <2>1 DEF LogLine, WriteLog, CountLine, TestFull, PushLine, WriteDirect, Flush
<1> QED BY <1>1, <1>2, <1>3, <1>4, <1>5 DEF Next, FlushLoop

\* From one opening of a file to the next, at a split or at midnight, no more
\* goes to it than its lines and those that were late when it was opened.
THEOREM FileBoundCorrect == Spec => []FileBound
<1>1. Base /\ FileOK /\ ClosedOK => FileBound
  <2> SUFFICES ASSUME Base, FileOK, ClosedOK PROVE FileBound
    OBVIOUS
  <2>1. /\ Late \in Nat /\ late \in Nat
        /\ Len(written) \in Nat /\ opened \in 0 .. Len(written)
        /\ SplitLines \in Nat \ {0} /\ m_count % SplitLines \in 0 .. SplitLines - 1
    BY FileSizes
  <2>2. CASE process = "run"
    BY <2>1, <2>2 DEF FileOK, FileBound
  <2>3. CASE process # "run"
    BY <2>1, <2>3 DEF ClosedOK, FileBound
  <2> QED BY <2>2, <2>3
<1>2. Init => ClosedOK
  BY DEF Init, ClosedOK
<1> QED BY <1>1, <1>2, FileInit, FileStep, ClosedStep, BaseCorrect, PTL DEF Spec
=============================================================================
