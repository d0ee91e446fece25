---------------------------- MODULE ThreadProofs -----------------------------
(***************************************************************************)
(* The two parts that hand requests to threads of their own.               *)
(*                                                                         *)
(* ThreadPool, for any number of workers and callers and any               *)
(* m_max_requests: type correctness, that no wakeup is lost, that a worker *)
(* woken by a post finds a request, and the bound on the list.             *)
(*                                                                         *)
(* DBThread: its types, and that requests are served once and in order,    *)
(* for any number of requests and of calls of stop().  The argument        *)
(* follows Rest, the requests that were not dropped: adding one appends to *)
(* it, taking and processing one leave it alone, and stop() cuts it off    *)
(* behind what was taken.                                                  *)
(***************************************************************************)
EXTENDS ThreadPool, DBThread, FiniteSetTheorems, SequenceTheorems, TLAPS

\* The constructor leaves every variable in its type.
LEMMA TypeInit == Init => TypeOK
<1> USE PoolAssumption DEF Threads, Pointers
<1> SUFFICES ASSUME Init
             PROVE  TypeOK
  OBVIOUS
<1>1. /\ m_workqueue \in Seq(Pointers)
      /\ m_queuestat \in Nat
      /\ m_stop \in BOOLEAN /\ freed \in BOOLEAN
  <2>1. \A S : <<>> \in Seq(S)
    OBVIOUS
  <2>2. m_workqueue = <<>> /\ m_queuestat = 0 /\ m_stop = FALSE /\ freed = FALSE
    BY DEF Init
  <2>3. QED
    BY <2>1, <2>2
<1>2. /\ pc \in [Threads -> {"idle", "post", "loop", "wait", "awake", "spurious",
                            "process", "exited", "undefined"}]
      /\ \A t \in Threads : pc[t] = IF t \in Workers THEN "loop" ELSE "idle"
  BY DEF Init
<1>3. /\ request \in [Threads -> Requests \cup {None}]
      /\ \A t \in Threads : request[t] = None /\ pc[t] # "process"
  BY <1>2 DEF Init
<1>4. /\ \A a \in Callers : pc[a] \in {"idle", "post"}
      /\ \A w \in Workers : pc[w] \notin {"idle", "post"}
  BY <1>2
<1>5. interrupts \in BOOLEAN
  BY DEF Init
<1>6. QED
  BY <1>1, <1>2, <1>3, <1>4, <1>5 DEF TypeOK

\* Every step keeps every variable, the threads' positions included, in its type.
LEMMA TypeStep == TypeOK /\ [Next]_vars => TypeOK'
<1> USE PoolAssumption DEF Threads, Pointers
<1> SUFFICES ASSUME TypeOK, [Next]_vars
             PROVE  TypeOK'
  OBVIOUS
<1> USE DEF TypeOK
<1>1. CASE UNCHANGED vars
  BY <1>1 DEF vars
<1>2. ASSUME NEW a \in Callers, AppendCall(a)
      PROVE  TypeOK'
  <2>1. CASE AppendRefused(a)
    BY <2>1 DEF AppendRefused, vars
  <2>2. ASSUME NEW r \in Pointers, AppendAccepted(a, r)
        PROVE  TypeOK'
    BY <2>2 DEF AppendAccepted
  <2>3. QED
    BY <1>2, <2>1, <2>2 DEF AppendCall
<1>3. ASSUME NEW a \in Callers, AppendPost(a)
      PROVE  TypeOK'
  BY <1>3 DEF AppendPost
<1>4. ASSUME NEW w \in Workers, TestStop(w)
      PROVE  TypeOK'
  BY <1>4 DEF TestStop
<1>5. ASSUME NEW w \in Workers, SemWait(w)
      PROVE  TypeOK'
  BY <1>5 DEF SemWait
<1>6. ASSUME NEW w \in Workers, FoundEmpty(w)
      PROVE  TypeOK'
  BY <1>6 DEF FoundEmpty
<1>7. ASSUME NEW w \in Workers, TakeFront(w)
      PROVE  TypeOK'
  <2>1. Head(m_workqueue) \in Pointers /\ Tail(m_workqueue) \in Seq(Pointers)
    BY <1>7 DEF TakeFront
  <2>2. CASE Head(m_workqueue) = NullRequest
    BY <1>7, <2>1, <2>2 DEF TakeFront
  <2>3. CASE Head(m_workqueue) # NullRequest
    BY <1>7, <2>1, <2>3 DEF TakeFront
  <2>4. QED
    BY <2>2, <2>3
<1>8. ASSUME NEW w \in Workers, ProcessReturns(w)
      PROVE  TypeOK'
  BY <1>8 DEF ProcessReturns
<1>9. ASSUME NEW w \in Workers, SemInterrupted(w)
      PROVE  TypeOK'
  BY <1>9 DEF SemInterrupted
<1>10. CASE Destroy
  BY <1>10 DEF Destroy
<1>11. CASE MembersEnd
  <2>1. \A S : <<>> \in Seq(S)
    OBVIOUS
  <2>2. QED
    BY <1>11, <2>1 DEF MembersEnd
<1>12. ASSUME NEW w \in Workers, UseAfterFree(w)
       PROVE  TypeOK'
  BY <1>12 DEF UseAfterFree
<1>13. QED
  BY <1>1, <1>2, <1>3, <1>4, <1>5, <1>6, <1>7, <1>8, <1>9, <1>10, <1>11, <1>12
     DEF Next, RunWorker

\* Type correctness of every reachable state.
THEOREM TypeCorrect == Spec => []TypeOK
<1>1. QED
  BY TypeInit, TypeStep, PTL DEF Spec

-----------------------------------------------------------------------------
\* The two populations counted by the wakeup accounting are finite.
LEMMA CountsAreNat ==
    /\ IsFiniteSet(Awake) /\ Cardinality(Awake) \in Nat
    /\ IsFiniteSet(Posting) /\ Cardinality(Posting) \in Nat
<1>1. Awake \subseteq Workers /\ Posting \subseteq Callers
  BY DEF Awake, Posting
<1>2. IsFiniteSet(Awake) /\ IsFiniteSet(Posting)
  BY <1>1, FS_Subset, PoolAssumption
<1>3. QED
  BY <1>2, FS_CardinalityType

\* A worker that moves between positions other than "awake" changes no count.
LEMMA MoveAsleep ==
    ASSUME TypeOK, NEW w \in Workers, pc[w] # "awake",
           NEW l \in {"loop", "wait", "spurious", "process", "exited", "undefined"},
           pc' = [pc EXCEPT ![w] = l]
    PROVE  Awake' = Awake /\ Posting' = Posting
  BY PoolAssumption DEF TypeOK, Threads, Awake, Posting

\* A worker that gets a unit of the semaphore joins the woken ones.
LEMMA MoveWake ==
    ASSUME TypeOK, NEW w \in Workers, pc[w] # "awake",
           pc' = [pc EXCEPT ![w] = "awake"]
    PROVE  Cardinality(Awake') = Cardinality(Awake) + 1 /\ Posting' = Posting
<1>1. Awake' = Awake \cup {w} /\ w \notin Awake /\ Posting' = Posting
  BY PoolAssumption DEF TypeOK, Threads, Awake, Posting
<1>2. QED
  BY <1>1, FS_AddElement, CountsAreNat

\* A woken worker that has looked at the list leaves the woken ones.
LEMMA MoveLook ==
    ASSUME TypeOK, NEW w \in Workers, pc[w] = "awake",
           NEW l \in {"loop", "process"},
           pc' = [pc EXCEPT ![w] = l]
    PROVE  Cardinality(Awake') = Cardinality(Awake) - 1 /\ Posting' = Posting
<1>1. Awake' = Awake \ {w} /\ w \in Awake /\ Posting' = Posting
  BY PoolAssumption DEF TypeOK, Threads, Awake, Posting
<1>2. QED
  BY <1>1, FS_RemoveElement, CountsAreNat

\* A caller whose request was accepted owes the semaphore a post.
LEMMA MoveAccept ==
    ASSUME TypeOK, NEW a \in Callers, pc[a] = "idle",
           pc' = [pc EXCEPT ![a] = "post"]
    PROVE  Cardinality(Posting') = Cardinality(Posting) + 1 /\ Awake' = Awake
<1>1. Posting' = Posting \cup {a} /\ a \notin Posting /\ Awake' = Awake
  BY PoolAssumption DEF TypeOK, Threads, Awake, Posting
<1>2. QED
  BY <1>1, FS_AddElement, CountsAreNat

\* The post pays the debt.
LEMMA MovePost ==
    ASSUME TypeOK, NEW a \in Callers, pc[a] = "post",
           pc' = [pc EXCEPT ![a] = "idle"]
    PROVE  Cardinality(Posting') = Cardinality(Posting) - 1 /\ Awake' = Awake
<1>1. Posting' = Posting \ {a} /\ a \in Posting /\ Awake' = Awake
  BY PoolAssumption DEF TypeOK, Threads, Awake, Posting
<1>2. QED
  BY <1>1, FS_RemoveElement, CountsAreNat

-----------------------------------------------------------------------------
\* The strengthening that makes the accounting inductive: without interrupts
\* no worker is at the list without a unit of the semaphore.
NoSpurious == ~interrupts => \A w \in Workers : pc[w] # "spurious"

\* The members end behind m_stop, and the list is empty from then on.
Ended == freed => m_stop /\ m_workqueue = <<>>

Accounting == TypeOK /\ NoLostWakeup /\ NoSpurious /\ Ended /\ WokenFindsWork

\* A worker that is awake finds the list non-empty once the sums agree.
LEMMA AwakeIsCounted == Awake # {} => Cardinality(Awake) >= 1
<1>1. ASSUME NEW w \in Awake
      PROVE  Cardinality(Awake) >= 1
  <2>1. Cardinality(Awake \ {w}) = Cardinality(Awake) - 1
    BY FS_RemoveElement, CountsAreNat
  <2>2. Cardinality(Awake \ {w}) \in Nat
    BY CountsAreNat, FS_RemoveElement, FS_CardinalityType
  <2>3. QED
    BY <2>1, <2>2, CountsAreNat
<1>2. QED
  BY <1>1

\* An empty list, no unit, nobody awake: the accounts start even.
LEMMA AccountingInit == Init => Accounting
<1> SUFFICES ASSUME Init
             PROVE  Accounting
  OBVIOUS
<1>1. TypeOK
  BY TypeInit
<1>2. Awake = {} /\ Posting = {}
  BY PoolAssumption DEF Init, Awake, Posting, Threads
<1>3. Cardinality(Awake) = 0 /\ Cardinality(Posting) = 0
  BY <1>2, FS_EmptySet
<1>4. Len(m_workqueue) = 0 /\ m_queuestat = 0
  BY DEF Init
<1>5. NoSpurious /\ Ended
  BY DEF Init, NoSpurious, Ended, Threads
<1>6. QED
  BY <1>1, <1>2, <1>3, <1>4, <1>5 DEF Accounting, NoLostWakeup, WokenFindsWork

\* When the sums agree, an awake worker implies a queued request.
LEMMA SumsSuffice ==
    ASSUME TypeOK,
           Len(m_workqueue) = m_queuestat + Cardinality(Awake) + Cardinality(Posting)
    PROVE  Awake # {} => m_workqueue # <<>>
<1>1. m_queuestat \in Nat
  BY DEF TypeOK
<1>2. QED
  BY <1>1, AwakeIsCounted, CountsAreNat

\* Where the requests of the list are accounted for.
Sum == m_queuestat + Cardinality(Awake) + Cardinality(Posting)

Balance ==
    /\ Len(m_workqueue) <= Sum
    /\ ~interrupts /\ ~freed => Len(m_workqueue) = Sum

\* The balance says what the two properties say.
LEMMA AccountingFromBalance == TypeOK /\ Balance /\ NoSpurious /\ Ended <=> Accounting
<1>1. TypeOK /\ Balance /\ ~interrupts /\ ~freed => (Awake # {} => m_workqueue # <<>>)
  BY SumsSuffice DEF Balance, Sum
<1>2. QED
  BY <1>1 DEF Balance, Sum, Accounting, NoLostWakeup, WokenFindsWork

\* A worker that uses the pool after its end is counted no longer, like the
\* list, which is empty: no step fills it again.
LEMMA EndedStep == TypeOK /\ Ended /\ [Next]_vars => Ended'
<1> SUFFICES ASSUME TypeOK, Ended, [Next]_vars, freed'
             PROVE  m_stop' /\ m_workqueue' = <<>>
  BY DEF Ended
<1>1. CASE MembersEnd
  BY <1>1 DEF MembersEnd
<1>2. CASE ~MembersEnd
  <2>1. freed /\ m_stop /\ m_workqueue = <<>>
    BY <1>2 DEF Ended, Next, AppendCall, AppendRefused, AppendAccepted, AppendPost,
       RunWorker, TestStop, SemWait, FoundEmpty, TakeFront, ProcessReturns,
       SemInterrupted, Destroy, UseAfterFree, vars
  <2>2. QED
    BY <1>2, <2>1 DEF Next, AppendCall, AppendRefused, AppendAccepted, AppendPost,
       RunWorker, TestStop, SemWait, FoundEmpty, TakeFront, ProcessReturns,
       SemInterrupted, Destroy, UseAfterFree, vars
<1> QED BY <1>1, <1>2

\* Every step moves one unit between the list, the semaphore, the woken
\* workers and the callers about to post, or leaves the sums alone.
LEMMA BalanceStep ==
    ASSUME TypeOK, Balance, NoSpurious, Ended, [Next]_vars
    PROVE  Balance' /\ NoSpurious'
<1>0. interrupts' = interrupts
  BY DEF Next, AppendCall, AppendRefused, AppendAccepted, AppendPost, RunWorker, TestStop,
         SemWait, FoundEmpty, TakeFront, ProcessReturns, SemInterrupted, Destroy,
         MembersEnd, UseAfterFree, vars
<1>Freed. freed => freed'
  BY DEF Next, AppendCall, AppendRefused, AppendAccepted, AppendPost, RunWorker, TestStop,
         SemWait, FoundEmpty, TakeFront, ProcessReturns, SemInterrupted, Destroy,
         MembersEnd, UseAfterFree, vars
<1>1. /\ m_queuestat \in Nat /\ Len(m_workqueue) \in Nat
      /\ Cardinality(Awake) \in Nat /\ Cardinality(Posting) \in Nat
  BY CountsAreNat DEF TypeOK
<1>2. CASE UNCHANGED vars
  <2>1. Awake' = Awake /\ Posting' = Posting
    BY <1>2 DEF vars, Awake, Posting
  <2>2. QED
    BY <1>2, <2>1 DEF vars, Balance, Sum, NoSpurious
<1>3. ASSUME NEW a \in Callers, NEW r \in Pointers, AppendAccepted(a, r)
      PROVE  Balance' /\ NoSpurious'
  <2>1. Len(m_workqueue') = Len(m_workqueue) + 1 /\ m_queuestat' = m_queuestat
    BY <1>3 DEF AppendAccepted, TypeOK
  <2>2. Cardinality(Posting') = Cardinality(Posting) + 1 /\ Awake' = Awake
    BY <1>3, MoveAccept DEF AppendAccepted
  <2>3. NoSpurious'
    BY <1>0, <1>3, PoolAssumption DEF AppendAccepted, NoSpurious, TypeOK, Threads
  <2>4. QED
    BY <1>0, <1>Freed, <1>1, <2>1, <2>2, <2>3 DEF Balance, Sum
<1>4. ASSUME NEW a \in Callers, AppendPost(a)
      PROVE  Balance' /\ NoSpurious'
  <2>1. m_workqueue' = m_workqueue /\ m_queuestat' = m_queuestat + 1
    BY <1>4 DEF AppendPost
  <2>2. Cardinality(Posting') = Cardinality(Posting) - 1 /\ Awake' = Awake
    BY <1>4, MovePost DEF AppendPost
  <2>3. NoSpurious'
    BY <1>0, <1>4, PoolAssumption DEF AppendPost, NoSpurious, TypeOK, Threads
  <2>4. QED
    BY <1>0, <1>Freed, <1>1, <2>1, <2>2, <2>3 DEF Balance, Sum
<1>5. ASSUME NEW w \in Workers, TestStop(w) \/ ProcessReturns(w) \/ SemInterrupted(w)
      PROVE  Balance' /\ NoSpurious'
  <2>1. UNCHANGED <<m_workqueue, m_queuestat>>
    BY <1>5 DEF TestStop, ProcessReturns, SemInterrupted
  <2>2. PICK l \in {"loop", "wait", "spurious", "exited"} :
               /\ pc[w] # "awake" /\ pc' = [pc EXCEPT ![w] = l]
               /\ l = "spurious" => interrupts
    BY <1>5 DEF TestStop, ProcessReturns, SemInterrupted
  <2>3. Awake' = Awake /\ Posting' = Posting
    BY <2>2, MoveAsleep
  <2>4. NoSpurious'
    BY <1>0, <2>2, PoolAssumption DEF NoSpurious, TypeOK, Threads
  <2>5. QED
    BY <1>0, <1>Freed, <2>1, <2>3, <2>4 DEF Balance, Sum
<1>6. ASSUME NEW w \in Workers, SemWait(w)
      PROVE  Balance' /\ NoSpurious'
  <2>1. m_workqueue' = m_workqueue /\ m_queuestat' = m_queuestat - 1
    BY <1>6 DEF SemWait
  <2>2. Cardinality(Awake') = Cardinality(Awake) + 1 /\ Posting' = Posting
    BY <1>6, MoveWake DEF SemWait
  <2>3. NoSpurious'
    BY <1>0, <1>6, PoolAssumption DEF SemWait, NoSpurious, TypeOK, Threads
  <2>4. QED
    BY <1>0, <1>Freed, <1>1, <2>1, <2>2, <2>3 DEF Balance, Sum
<1>7. ASSUME NEW w \in Workers, FoundEmpty(w)
      PROVE  Balance' /\ NoSpurious'
  <2>1. m_workqueue' = <<>> /\ m_workqueue = <<>> /\ m_queuestat' = m_queuestat
    BY <1>7 DEF FoundEmpty
  <2>2. NoSpurious'
    BY <1>0, <1>7, PoolAssumption DEF FoundEmpty, NoSpurious, TypeOK, Threads
  <2>3. CASE pc[w] = "awake"
    <3>1. w \in Awake
      BY <2>3 DEF Awake
    <3>2. Cardinality(Awake) >= 1
      BY <3>1, AwakeIsCounted
    <3>3. interrupts
      BY <1>0, <1>1, <1>7, <2>1, <3>2 DEF FoundEmpty, Balance, Sum
    <3>4. Cardinality(Awake') = Cardinality(Awake) - 1 /\ Posting' = Posting
      BY <1>7, <2>3, MoveLook DEF FoundEmpty
    <3>5. QED
      BY <1>0, <1>Freed, <1>1, <2>1, <2>2, <3>2, <3>3, <3>4 DEF Balance, Sum
  <2>4. CASE pc[w] = "spurious"
    <3>1. Awake' = Awake /\ Posting' = Posting
      BY <1>7, <2>4, MoveAsleep DEF FoundEmpty
    <3>2. QED
      BY <1>0, <1>Freed, <2>1, <2>2, <3>1 DEF Balance, Sum
  <2>5. QED
    BY <1>7, <2>3, <2>4 DEF FoundEmpty
<1>8. ASSUME NEW w \in Workers, TakeFront(w)
      PROVE  Balance' /\ NoSpurious'
  <2>1. Len(m_workqueue') = Len(m_workqueue) - 1 /\ m_queuestat' = m_queuestat
    BY <1>8 DEF TakeFront, TypeOK
  <2>2. PICK l \in {"loop", "process"} : pc' = [pc EXCEPT ![w] = l]
    BY <1>8 DEF TakeFront
  <2>3. NoSpurious'
    BY <1>0, <2>2, PoolAssumption DEF NoSpurious, TypeOK, Threads
  <2>4. CASE pc[w] = "awake"
    <3>1. Cardinality(Awake') = Cardinality(Awake) - 1 /\ Posting' = Posting
      BY <2>2, <2>4, MoveLook
    <3>2. QED
      BY <1>0, <1>Freed, <1>1, <2>1, <2>3, <3>1 DEF Balance, Sum
  <2>5. CASE pc[w] = "spurious"
    <3>1. Awake' = Awake /\ Posting' = Posting
      BY <2>2, <2>5, MoveAsleep
    <3>2. interrupts
      BY <1>0, <2>5 DEF NoSpurious
    <3>3. QED
      BY <1>0, <1>Freed, <1>1, <2>1, <2>3, <3>1, <3>2 DEF Balance, Sum
  <2>6. QED
    BY <1>8, <2>4, <2>5 DEF TakeFront
<1>9. CASE Destroy
  <2>1. Awake' = Awake /\ Posting' = Posting
    BY <1>9 DEF Destroy, Awake, Posting
  <2>2. QED
    BY <1>0, <1>Freed, <1>9, <2>1 DEF Destroy, Balance, Sum, NoSpurious
<1>10. CASE MembersEnd
  <2>1. Awake' = Awake /\ Posting' = Posting
    BY <1>10 DEF MembersEnd, Awake, Posting
  <2>2. Len(m_workqueue') = 0 /\ m_queuestat' = 0 /\ freed'
    BY <1>10 DEF MembersEnd
  <2>3. NoSpurious'
    BY <1>10 DEF MembersEnd, NoSpurious
  <2>4. QED
    BY <1>1, <2>1, <2>2, <2>3 DEF Balance, Sum
<1>12. ASSUME NEW w \in Workers, UseAfterFree(w)
       PROVE  Balance' /\ NoSpurious'
  <2>1. freed' /\ m_workqueue' = <<>> /\ m_queuestat' = m_queuestat
    BY <1>12 DEF UseAfterFree, Ended
  <2>2. Len(m_workqueue') = 0
    BY <2>1
  <2>3. Awake' = Awake \ {w} /\ Posting' = Posting
    BY <1>12, PoolAssumption DEF UseAfterFree, TypeOK, Threads, Awake, Posting
  <2>4. Cardinality(Awake') \in Nat
    BY <2>3, CountsAreNat, FS_Subset, FS_CardinalityType
  <2>5. NoSpurious'
    BY <1>0, <1>12, PoolAssumption DEF UseAfterFree, NoSpurious, TypeOK, Threads
  <2>6. QED
    BY <1>1, <2>1, <2>2, <2>3, <2>4, <2>5 DEF Balance, Sum
<1>13. QED
  BY <1>2, <1>3, <1>4, <1>5, <1>6, <1>7, <1>8, <1>9, <1>10, <1>12
     DEF Next, AppendCall, AppendRefused, RunWorker

\* The accounting holds in every reachable state.
THEOREM AccountingCorrect == Spec => []Accounting
<1>1. Accounting /\ [Next]_vars => Accounting'
  <2>1. Accounting => TypeOK /\ Balance /\ NoSpurious /\ Ended
    BY AccountingFromBalance
  <2>2. TypeOK' /\ Balance' /\ NoSpurious' /\ Ended' => Accounting'
    BY AccountingFromBalance, PTL
  <2>3. QED
    BY <2>1, <2>2, TypeStep, BalanceStep, EndedStep
<1>2. QED
  BY <1>1, AccountingInit, PTL DEF Spec

\* No wakeup is lost, whatever interrupts sem_wait.
THEOREM NoLostWakeupCorrect == Spec => []NoLostWakeup
<1>1. Accounting => NoLostWakeup
  BY DEF Accounting
<1>2. QED
  BY <1>1, AccountingCorrect, PTL

\* A worker woken by a post finds a request, when sem_wait is not interrupted.
THEOREM WokenFindsWorkCorrect == Spec => []WokenFindsWork
<1>1. Accounting => WokenFindsWork
  BY DEF Accounting
<1>2. QED
  BY <1>1, AccountingCorrect, PTL

-----------------------------------------------------------------------------
\* The list never holds more than m_max_requests + 1 requests.
THEOREM CapacityCorrect == Spec => []CapacityBound
<1>1. TypeOK /\ Init => CapacityBound
  BY PoolAssumption DEF Init, CapacityBound
<1>2. TypeOK /\ CapacityBound /\ [Next]_vars => CapacityBound'
  <2> SUFFICES ASSUME TypeOK, CapacityBound, [Next]_vars
               PROVE  CapacityBound'
    OBVIOUS
  <2>1. Len(m_workqueue) \in Nat /\ MaxRequests \in Nat
    BY PoolAssumption DEF TypeOK
  <2>2. ASSUME NEW a \in Callers, NEW r \in Pointers, AppendAccepted(a, r)
        PROVE  CapacityBound'
    <3>1. Len(m_workqueue') = Len(m_workqueue) + 1 /\ Len(m_workqueue) <= MaxRequests
      BY <2>1, <2>2 DEF AppendAccepted, TypeOK
    <3>2. QED
      BY <2>1, <3>1 DEF CapacityBound
  <2>3. ASSUME NEW w \in Workers, TakeFront(w)
        PROVE  CapacityBound'
    <3>1. Len(m_workqueue') = Len(m_workqueue) - 1
      BY <2>3 DEF TakeFront, TypeOK
    <3>2. QED
      BY <2>1, <3>1 DEF CapacityBound
  <2>4. CASE UNCHANGED m_workqueue
    BY <2>4 DEF CapacityBound
  <2>5. CASE MembersEnd
    BY <2>1, <2>5 DEF MembersEnd, CapacityBound
  <2>6. QED
    BY <2>2, <2>3, <2>4, <2>5 DEF Next, AppendCall, AppendRefused, AppendPost, RunWorker,
       TestStop, SemWait, SemInterrupted, FoundEmpty, ProcessReturns, Destroy,
       UseAfterFree, vars
<1>3. QED
  BY <1>1, <1>2, TypeInit, TypeCorrect, PTL DEF Spec
-----------------------------------------------------------------------------
(* DBThread.                                                               *)

\* The thread has a request in its hand while it processes it.
ItemInHand == item # 0 <=> tpc = "process"

InOrder ==
    /\ Increasing(Rest)
    /\ ToSet(Rest) \cap dropped = {} /\ ToSet(Rest) \cup dropped = 1 .. added

\* Only a stop() that gave up meets the thread.
EndedInTime == ~late => tpc # "torn" /\ (cpc \in {"reset", "clear"} => tpc = "none")

DBInv == DBTypeOK /\ ItemInHand /\ InOrder /\ EndedInTime

USE DBAssumption

-----------------------------------------------------------------------------
\* What ToSet() and Increasing() say of a sequence with a new last element.
LEMMA AppendNext ==
    ASSUME NEW s \in Seq(Nat), NEW n \in Nat, \A x \in ToSet(s) : x <= n, Increasing(s)
    PROVE  /\ Append(s, n + 1) \in Seq(Nat)
           /\ Increasing(Append(s, n + 1))
           /\ ToSet(Append(s, n + 1)) = ToSet(s) \cup {n + 1}
<1> DEFINE t == Append(s, n + 1)
<1>1. /\ t \in Seq(Nat) /\ Len(s) \in Nat /\ Len(t) = Len(s) + 1
      /\ DOMAIN s = 1 .. Len(s) /\ DOMAIN t = 1 .. Len(s) + 1
      /\ \A i \in 1 .. Len(s) : t[i] = s[i] /\ s[i] \in Nat
      /\ t[Len(s) + 1] = n + 1
  OBVIOUS
<1> HIDE DEF t
<1>2. \A i \in 1 .. Len(s) : t[i] <= n
  BY <1>1 DEF ToSet
<1>3. ASSUME NEW i \in DOMAIN t, NEW j \in DOMAIN t, i < j
      PROVE  t[i] < t[j]
  <2>1. i \in 1 .. Len(s) /\ j \in 1 .. Len(s) + 1
    BY <1>1, <1>3
  <2>2. CASE j = Len(s) + 1
    BY <1>1, <1>2, <2>1, <2>2
  <2>3. CASE j # Len(s) + 1
    <3>1. j \in DOMAIN s /\ i \in DOMAIN s
      BY <1>1, <2>1, <2>3
    <3>2. s[i] < s[j]
      BY <3>1, <1>3 DEF Increasing
    <3> QED BY <1>1, <3>1, <3>2
  <2> QED BY <2>2, <2>3
<1>4. ToSet(t) = ToSet(s) \cup {n + 1}
  BY <1>1 DEF ToSet
<1>5. Increasing(t)
  BY <1>3 DEF Increasing
<1> QED BY <1>1, <1>4, <1>5 DEF t

\* Cutting an increasing sequence in two.
LEMMA CutOff ==
    ASSUME NEW s \in Seq(Nat), NEW t \in Seq(Nat), Increasing(s \o t)
    PROVE  /\ Increasing(s)
           /\ ToSet(s \o t) = ToSet(s) \cup ToSet(t)
           /\ ToSet(s) \cap ToSet(t) = {}
<1> DEFINE u == s \o t
<1>1. /\ Len(s) \in Nat /\ Len(t) \in Nat /\ Len(u) = Len(s) + Len(t)
      /\ DOMAIN s = 1 .. Len(s) /\ DOMAIN t = 1 .. Len(t) /\ DOMAIN u = 1 .. Len(s) + Len(t)
      /\ \A i \in 1 .. Len(s) : u[i] = s[i]
      /\ \A i \in 1 .. Len(t) : u[Len(s) + i] = t[i]
      /\ \A i \in 1 .. Len(s) + Len(t) : u[i] \in Nat
  BY ConcatProperties
<1>2. Increasing(u)
  OBVIOUS
<1> HIDE DEF u
<1>3. Increasing(s)
  BY <1>1, <1>2 DEF Increasing
<1>4. \A i \in 1 .. Len(s), j \in 1 .. Len(t) : s[i] # t[j]
  <2> TAKE i \in 1 .. Len(s), j \in 1 .. Len(t)
  <2>1. i \in DOMAIN u /\ Len(s) + j \in DOMAIN u /\ i < Len(s) + j
    BY <1>1
  <2>2. u[i] < u[Len(s) + j]
    BY <1>2, <2>1 DEF Increasing
  <2>3. u[i] = s[i] /\ u[Len(s) + j] = t[j] /\ u[i] \in Nat
    BY <1>1, <2>1
  <2> QED BY <2>2, <2>3
<1>5. ToSet(s) \cap ToSet(t) = {}
  BY <1>1, <1>4 DEF ToSet
<1>6. ToSet(u) = ToSet(s) \cup ToSet(t)
  <2>1. ToSet(u) \subseteq ToSet(s) \cup ToSet(t)
    <3> SUFFICES ASSUME NEW i \in 1 .. Len(s) + Len(t) PROVE u[i] \in ToSet(s) \cup ToSet(t)
      BY <1>1 DEF ToSet
    <3>1. CASE i <= Len(s)
      <4>1. i \in DOMAIN s /\ u[i] = s[i]
        BY <1>1, <3>1
      <4> QED BY <4>1 DEF ToSet
    <3>2. CASE i > Len(s)
      <4>1. i - Len(s) \in 1 .. Len(t) /\ Len(s) + (i - Len(s)) = i
        BY <1>1, <3>2
      <4> QED BY <1>1, <4>1 DEF ToSet
    <3> QED BY <1>1, <3>1, <3>2
  <2>2. ToSet(s) \subseteq ToSet(u)
    BY <1>1 DEF ToSet
  <2>3. ToSet(t) \subseteq ToSet(u)
    <3> SUFFICES ASSUME NEW j \in 1 .. Len(t) PROVE t[j] \in ToSet(u)
      BY <1>1 DEF ToSet
    <3>1. Len(s) + j \in DOMAIN u /\ u[Len(s) + j] = t[j]
      BY <1>1
    <3> QED BY <3>1 DEF ToSet
  <2> QED BY <2>1, <2>2, <2>3
<1> QED BY <1>3, <1>5, <1>6 DEF u

\* What was taken, and what is left with it, are sequences of requests.
LEMMA SequencesOfRequests ==
    ASSUME DBTypeOK
    PROVE  Taken \in Seq(Nat) /\ m_reqList \in Seq(Nat) /\ Rest \in Seq(Nat)
<1>1. done \in Seq(Nat) /\ m_reqList \in Seq(Nat) /\ item \in Nat
  BY DEF DBTypeOK
<1>2. Append(done, item) \in Seq(Nat)
  BY <1>1
<1>3. Taken \in Seq(Nat)
  BY <1>1, <1>2 DEF Taken
<1> QED BY <1>1, <1>3, ConcatProperties DEF Rest

-----------------------------------------------------------------------------
\* At the start nothing was added.
LEMMA DBInitEstablishes == DBInit => DBInv
<1> SUFFICES ASSUME DBInit PROVE DBInv
  OBVIOUS
<1>1. <<>> \in Seq(Nat) /\ ToSet(<<>>) = {} /\ Increasing(<<>>)
  BY DEF ToSet, Increasing
<1>2. DBTypeOK
  <2>1. m_reqList \in Seq(Nat) /\ done \in Seq(Nat)
    BY <1>1 DEF DBInit
  <2>2. item \in Nat /\ added \in 0 .. MaxReqs /\ stops \in 0 .. MaxStops
    BY DEF DBInit
  <2> QED BY <2>1, <2>2 DEF DBInit, DBTypeOK
<1>3. Rest = <<>>
  BY <1>1, ConcatEmptySeq DEF DBInit, Rest, Taken
<1>4. InOrder
  BY <1>1, <1>3 DEF DBInit, InOrder
<1> QED BY <1>2, <1>4 DEF DBInit, DBInv, ItemInHand, EndedInTime

\* A step that leaves the requests alone keeps their order.
LEMMA RequestsKept ==
    ASSUME InOrder, UNCHANGED <<m_reqList, item, done, added, dropped>>
    PROVE  InOrder'
<1>1. Rest' = Rest
  BY DEF Rest, Taken
<1> QED BY <1>1 DEF InOrder, Increasing, ToSet

\* addReq() appends to Rest.
LEMMA AddReqStep ==
    ASSUME DBInv, addReq
    PROVE  DBInv'
<1>1. DBTypeOK /\ ItemInHand /\ InOrder /\ EndedInTime
  BY DEF DBInv
<1>2. /\ added' = added + 1 /\ m_reqList' = Append(m_reqList, added + 1)
      /\ added \in Nat /\ added' \in 0 .. MaxReqs
      /\ UNCHANGED <<m_bStop, item, cpc, done, dropped, stops, late>>
      /\ tpc' = IF tpc = "waiting" THEN "woken" ELSE tpc
  BY <1>1 DEF addReq, DBTypeOK, Wakes
<1>3. DBTypeOK'
  <2>1. m_reqList' \in Seq(Nat)
    BY <1>1, <1>2 DEF DBTypeOK
  <2> QED BY <1>1, <1>2, <2>1 DEF DBTypeOK
<1>4. Rest' = Append(Rest, added + 1)
  <2>1. Taken' = Taken
    BY <1>2 DEF Taken
  <2>2. /\ Taken \in Seq(Nat) /\ m_reqList \in Seq(Nat) /\ <<added + 1>> \in Seq(Nat)
        /\ Rest \in Seq(Nat) /\ added + 1 \in Nat
    BY <1>1, <1>2, SequencesOfRequests
  <2>3. m_reqList' = m_reqList \o <<added + 1>>
    BY <1>2, <2>2, AppendIsConcat
  <2>4. Rest' = Rest \o <<added + 1>>
    BY <2>1, <2>2, <2>3, ConcatAssociative DEF Rest
  <2> QED BY <2>2, <2>4, AppendIsConcat
<1>5. InOrder'
  <2>1. Rest \in Seq(Nat) /\ Increasing(Rest) /\ \A x \in ToSet(Rest) : x <= added
    BY <1>1, <1>2, SequencesOfRequests DEF InOrder
  <2>2. Increasing(Rest') /\ ToSet(Rest') = ToSet(Rest) \cup {added + 1}
    BY <1>2, <1>4, <2>1, AppendNext
  <2>3. /\ ToSet(Rest') \cap dropped' = {}
        /\ ToSet(Rest') \cup dropped' = 1 .. added'
    BY <1>1, <1>2, <2>2 DEF InOrder
  <2> QED BY <2>2, <2>3 DEF InOrder, Increasing, ToSet
<1>6. ItemInHand' /\ EndedInTime'
  BY <1>1, <1>2 DEF ItemInHand, EndedInTime, addReq, MutexFree
<1> QED BY <1>3, <1>5, <1>6 DEF DBInv

\* The steps of stop(), of which only StopClears touches the requests.
LEMMA StopClearsStep ==
    ASSUME DBInv, StopClears
    PROVE  DBInv'
<1>1. DBTypeOK /\ ItemInHand /\ InOrder /\ EndedInTime
  BY DEF DBInv
<1>2. /\ dropped' = dropped \cup ToSet(m_reqList) /\ m_reqList' = <<>> /\ <<>> \in Seq(Nat)
      /\ UNCHANGED <<m_bStop, item, added, done, stops, late>>
      /\ Taken \in Seq(Nat) /\ m_reqList \in Seq(Nat)
  BY <1>1, SequencesOfRequests DEF StopClears
<1>3. DBTypeOK' /\ ItemInHand' /\ EndedInTime'
  BY <1>1, <1>2 DEF StopClears, MutexFree, DBTypeOK, ItemInHand, EndedInTime
<1>4. Rest' = Taken
  <2>1. Taken' = Taken
    BY <1>2 DEF Taken
  <2> QED BY <1>2, <2>1, ConcatEmptySeq DEF Rest
<1>5. /\ Increasing(Taken) /\ ToSet(Rest) = ToSet(Taken) \cup ToSet(m_reqList)
      /\ ToSet(Taken) \cap ToSet(m_reqList) = {}
  BY <1>1, <1>2, CutOff DEF InOrder, Rest
<1>6. /\ Increasing(Rest') /\ ToSet(Rest') = ToSet(Taken)
  BY <1>4, <1>5
<1>7. ToSet(Rest') \cap dropped' = {} /\ ToSet(Rest') \cup dropped' = 1 .. added'
  BY <1>1, <1>2, <1>5, <1>6 DEF InOrder
<1> QED BY <1>3, <1>6, <1>7 DEF DBInv, InOrder, Increasing, ToSet

\* Taking the head of the list moves it within Rest.
LEMMA TakesStep ==
    ASSUME DBInv, Takes
    PROVE  DBInv'
<1>1. DBTypeOK /\ ItemInHand /\ InOrder /\ EndedInTime
  BY DEF DBInv
<1>2. /\ tpc \in {"locked", "held"} /\ item = 0
      /\ UNCHANGED <<m_bStop, cpc, added, done, dropped, stops, late>>
      /\ done \in Seq(Nat) /\ m_reqList \in Seq(Nat)
  BY <1>1 DEF Takes, history, ItemInHand, DBTypeOK
<1>3. EndedInTime'
  BY <1>1, <1>2 DEF Takes, Goes, EndedInTime
<1>4. CASE tpc' # "process"
  <2>1. UNCHANGED <<m_reqList, item>> /\ tpc' \in {"none", "top"}
    BY <1>4 DEF Takes, Goes
  <2>2. DBTypeOK' /\ ItemInHand'
    BY <1>1, <1>2, <1>4, <2>1 DEF DBTypeOK, ItemInHand
  <2>3. InOrder'
    BY <1>1, <1>2, <2>1, RequestsKept
  <2> QED BY <1>3, <2>2, <2>3 DEF DBInv
<1>5. CASE tpc' = "process"
  <2>1. m_reqList # <<>> /\ item' = Head(m_reqList) /\ m_reqList' = Tail(m_reqList)
    BY <1>2, <1>5 DEF Takes, Goes
  <2>2. /\ Head(m_reqList) \in Nat /\ Tail(m_reqList) \in Seq(Nat)
        /\ <<Head(m_reqList)>> \in Seq(Nat)
        /\ m_reqList = <<Head(m_reqList)>> \o Tail(m_reqList)
    BY <1>2, <2>1
  <2>3. Rest = done \o m_reqList
    BY <1>2 DEF Rest, Taken
  <2>4. item' # 0
    <3>1. Rest \in Seq(Nat) /\ ToSet(Rest) = ToSet(done) \cup ToSet(m_reqList)
      BY <1>1, <1>2, <2>3, CutOff, SequencesOfRequests DEF InOrder
    <3>2. Head(m_reqList) \in ToSet(m_reqList)
      BY <1>2, <2>1 DEF ToSet
    <3>3. Head(m_reqList) \in 1 .. added
      BY <1>1, <3>1, <3>2 DEF InOrder
    <3> QED BY <2>1, <3>3
  <2>5. Rest' = Rest
    <3>1. Taken' = done \o <<Head(m_reqList)>>
      BY <1>2, <2>1, <2>2, <2>4, AppendIsConcat DEF Taken
    <3>2. (done \o <<Head(m_reqList)>>) \o Tail(m_reqList)
             = done \o (<<Head(m_reqList)>> \o Tail(m_reqList))
      <4>1. done \in Seq(Nat) /\ <<Head(m_reqList)>> \in Seq(Nat) /\ Tail(m_reqList) \in Seq(Nat)
        BY <1>2, <2>2
      <4> QED BY <4>1, ConcatAssociative
    <3>3. Rest' = (done \o <<Head(m_reqList)>>) \o Tail(m_reqList)
      BY <2>1, <3>1, Zenon DEF Rest
    <3>4. (done \o <<Head(m_reqList)>>) \o Tail(m_reqList) = done \o m_reqList
      BY <2>2, <3>2, Zenon
    <3> QED BY <2>3, <3>3, <3>4, Zenon
  <2>6. DBTypeOK' /\ ItemInHand'
    BY <1>1, <1>2, <1>5, <2>1, <2>2, <2>4 DEF DBTypeOK, ItemInHand
  <2>7. InOrder'
    BY <1>1, <1>2, <2>5 DEF InOrder, Increasing, ToSet
  <2> QED BY <1>3, <2>6, <2>7 DEF DBInv
<1> QED BY <1>4, <1>5

\* Processing it moves it on.
LEMMA ProcessItemStep ==
    ASSUME DBInv, processItem
    PROVE  DBInv'
<1>1. DBTypeOK /\ ItemInHand /\ InOrder /\ EndedInTime
  BY DEF DBInv
<1>2. /\ tpc = "process" /\ tpc' = "top" /\ item # 0
      /\ done' = Append(done, item) /\ item' = 0
      /\ UNCHANGED <<m_bStop, m_reqList, cpc, added, dropped, stops, late>>
  BY <1>1 DEF processItem, Goes, ItemInHand
<1>3. Rest' = Rest
  BY <1>2 DEF Rest, Taken
<1>4. DBTypeOK' /\ ItemInHand' /\ EndedInTime'
  <2>1. done' \in Seq(Nat)
    BY <1>1, <1>2 DEF DBTypeOK
  <2> QED BY <1>1, <1>2, <2>1 DEF DBTypeOK, ItemInHand, EndedInTime
<1>5. InOrder'
  BY <1>1, <1>2, <1>3 DEF InOrder, Increasing, ToSet
<1> QED BY <1>4, <1>5 DEF DBInv

\* Every step keeps the inductive invariant.
LEMMA DBStepKeeps == DBInv /\ [DBNext]_dbVars => DBInv'
<1> SUFFICES ASSUME DBInv, [DBNext]_dbVars PROVE DBInv'
  OBVIOUS
<1>1. DBTypeOK /\ ItemInHand /\ InOrder /\ EndedInTime
  BY DEF DBInv
<1>2. CASE wake \/ stop \/ startRun
  <2>1. UNCHANGED <<m_reqList, item, done, added, dropped>>
    BY <1>2 DEF wake, stop, startRun, Wakes, history
  <2>2. ASSUME wake \/ startRun PROVE DBTypeOK' /\ ItemInHand' /\ EndedInTime'
    BY <1>1, <2>1, <2>2 DEF wake, startRun, Wakes, history, DBTypeOK, ItemInHand, EndedInTime
  <2>3. ASSUME stop PROVE DBTypeOK' /\ ItemInHand' /\ EndedInTime'
    <3>1. stops' \in 0 .. MaxStops
      BY <1>1, <2>3 DEF stop, DBTypeOK
    <3> QED BY <1>1, <2>1, <2>3, <3>1 DEF stop, Wakes, MutexFree, DBTypeOK, ItemInHand, EndedInTime
  <2>4. DBTypeOK' /\ ItemInHand' /\ EndedInTime'
    BY <1>2, <2>2, <2>3
  <2> QED BY <1>1, <2>1, <2>4, RequestsKept DEF DBInv
<1>3. CASE StopWaits \/ StopResets
  <2>1. UNCHANGED <<m_reqList, item, done, added, dropped>>
    BY <1>3 DEF StopWaits, StopResets, thread, history
  <2>2. DBTypeOK' /\ ItemInHand' /\ EndedInTime'
    BY <1>1, <1>3 DEF StopWaits, StopResets, thread, history, DBTypeOK, ItemInHand, EndedInTime
  <2> QED BY <1>1, <2>1, <2>2, RequestsKept DEF DBInv
<1>4. CASE Top \/ Waits \/ Reacquires
  <2>1. UNCHANGED <<m_reqList, item, done, added, dropped>>
    BY <1>4 DEF Top, Waits, Reacquires, history
  <2>2. DBTypeOK' /\ ItemInHand' /\ EndedInTime'
    BY <1>1, <1>4 DEF Top, Waits, Reacquires, Goes, history, DBTypeOK, ItemInHand, EndedInTime
  <2> QED BY <1>1, <2>1, <2>2, RequestsKept DEF DBInv
<1>5. CASE UNCHANGED dbVars
  <2>1. UNCHANGED <<m_reqList, item, done, added, dropped>>
    BY <1>5 DEF dbVars, thread, history
  <2>2. DBTypeOK' /\ ItemInHand' /\ EndedInTime'
    BY <1>1, <1>5 DEF dbVars, thread, history, DBTypeOK, ItemInHand, EndedInTime
  <2> QED BY <1>1, <2>1, <2>2, RequestsKept DEF DBInv
<1> QED BY <1>2, <1>3, <1>4, <1>5, AddReqStep, StopClearsStep, TakesStep, ProcessItemStep
        DEF DBNext, Stops, Thread

\* The inductive invariant holds in every state.
THEOREM DBInvariance == DBSpec => []DBInv
BY DBInitEstablishes, DBStepKeeps, PTL DEF DBSpec

-----------------------------------------------------------------------------
\* Every request of addReq() is processed once and in order, or dropped by
\* stop(); only a stop() that gave up waiting changes the list under the thread.
THEOREM OnceInOrderCorrect == DBSpec => []OnceInOrder
<1>1. DBInv => OnceInOrder
  BY DEF DBInv, InOrder, EndedInTime, OnceInOrder
<1> QED BY DBInvariance, <1>1, PTL
=============================================================================
