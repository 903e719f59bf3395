-------------------------- MODULE IOManagerProofs --------------------------
(***************************************************************************)
(* Theorems about the I/O manager.  m_pendingEventCount and the counters   *)
(* of the scheduler, alone and under the I/O manager, are exact, no        *)
(* waiting fiber is forgotten, what holds of the scheduler still holds,    *)
(* and with one thread stop() leaves nothing behind.                       *)
(***************************************************************************)
EXTENDS IOManagerSteps, SchedulerStopProofs, FiniteSetTheorems

(***************************************************************************)
(* The scheduler's counters are exact, for any number of threads.          *)
(***************************************************************************)
InIdle == {"idle", "idleret"}
ThreadsIn(C) == {t \in Thread : pc[t] \in C}

LEMMA ThreadsInFinite ==
  ASSUME NEW C
  PROVE  IsFiniteSet(ThreadsIn(C)) /\ Cardinality(ThreadsIn(C)) \in Nat
<1>1. IsFiniteSet(Worker \cup {Root}) /\ IsFiniteSet(Worker)
  BY Zenon, FS_AddElement, SchedulerAssumption
<1>2. IsFiniteSet(Thread)
  BY Zenon, <1>1 DEF Thread
<1>3. ThreadsIn(C) \subseteq Thread
  BY Zenon DEF ThreadsIn
<1> QED
  BY Zenon, <1>2, <1>3, FS_Subset, FS_CardinalityType

\* One thread moves: the number of threads in C changes by its entry or exit.
LEMMA ThreadsInMove ==
  ASSUME TypeOK, NEW C, NEW t \in Thread, NEW x \in PC, pc' = [pc EXCEPT ![t] = x]
  PROVE  Cardinality(ThreadsIn(C))' =
           Cardinality(ThreadsIn(C)) + (IF x \in C THEN 1 ELSE 0) - (IF pc[t] \in C THEN 1 ELSE 0)
<1> DEFINE A == ThreadsIn(C)
           B == ThreadsIn(C)'
<1>0. IsFiniteSet(A) /\ Cardinality(A) \in Nat
  BY Zenon, ThreadsInFinite
<1>1. B = (IF x \in C THEN A \cup {t} ELSE A \ {t})
  BY Zenon DEF ThreadsIn, TypeOK
<1>2. t \in A <=> pc[t] \in C
  BY Zenon DEF ThreadsIn
<1> HIDE DEF A
<1>3. Cardinality(A \cup {t}) = IF t \in A THEN Cardinality(A) ELSE Cardinality(A) + 1
  BY Zenon, <1>0, FS_AddElement
<1>4. Cardinality(A \ {t}) = IF t \in A THEN Cardinality(A) - 1 ELSE Cardinality(A)
  BY Zenon, <1>0, FS_RemoveElement
<1>5. Cardinality(B) = Cardinality(A) + (IF x \in C THEN 1 ELSE 0) - (IF pc[t] \in C THEN 1 ELSE 0)
  <2> HIDE DEF B
  <2>1. CASE x \in C
    BY <2>1, <1>0, <1>1, <1>2, <1>3
  <2>2. CASE x \notin C
    BY <2>2, <1>0, <1>1, <1>2, <1>4
  <2> QED
    BY Zenon, <2>1, <2>2
<1> QED
  BY Zenon, <1>5 DEF A

LEMMA CountersStep ==
  ASSUME IInv, CountersExact, NEW pins \in SUBSET (Thread \cup {None}), [Core(pins)]_vars
  PROVE  CountersExact'
<1> USE SchedulerAssumption
<1>0. /\ TypeOK
      /\ m_active_thread_count = Cardinality(ThreadsIn(Active))
      /\ m_idle_thread_count = Cardinality(ThreadsIn(InIdle))
  BY Zenon DEF IInv, CountersExact, ThreadsIn, InIdle
<1>1. SUFFICES /\ m_active_thread_count' = Cardinality(ThreadsIn(Active))'
               /\ m_idle_thread_count' = Cardinality(ThreadsIn(InIdle))'
  BY Zenon DEF CountersExact, ThreadsIn, InIdle
<1>2. Cardinality(ThreadsIn(Active)) \in Nat /\ Cardinality(ThreadsIn(InIdle)) \in Nat
  BY Zenon, ThreadsInFinite
\* Steps that move no thread across the boundary of either set.
<1>3. ASSUME UNCHANGED <<m_active_thread_count, m_idle_thread_count>>,
             \A t \in Thread : \/ pc'[t] = pc[t]
                               \/ {pc[t], pc'[t]} \cap (Active \cup InIdle) = {}
                               \/ {pc[t], pc'[t]} \subseteq Active
      PROVE  /\ m_active_thread_count' = Cardinality(ThreadsIn(Active))'
             /\ m_idle_thread_count' = Cardinality(ThreadsIn(InIdle))'
  <2>1. ThreadsIn(Active)' = ThreadsIn(Active)
    BY Zenon, <1>3 DEF ThreadsIn
  <2>2. ThreadsIn(InIdle)' = ThreadsIn(InIdle)
    BY Zenon, <1>3 DEF ThreadsIn, Active, InIdle
  <2> QED
    BY Zenon, <1>0, <1>3, <2>1, <2>2
<1>4. CASE \E k \in Task, cb \in BOOLEAN, p \in Thread \cup {None} : OwnerSchedule(k, cb, p)
  BY Zenon, <1>3, <1>4 DEF OwnerSchedule
<1>5. CASE start
  <2>1. \A t \in Thread : t \in Worker => pc[t] \in {"off", "exit"} /\ pc'[t] = "scan"
    BY Zenon, <1>5 DEF start, IInv, OwnerInv
  <2>2. \A t \in Thread : t \notin Worker => pc'[t] = pc[t]
    BY Zenon, <1>5 DEF start
  <2>3. UNCHANGED <<m_active_thread_count, m_idle_thread_count>>
    BY Zenon, <1>5 DEF start
  <2> QED
    BY Zenon, <1>3, <2>1, <2>2, <2>3 DEF Active, InIdle
<1>6. CASE CoreStop
  <2>1. UNCHANGED <<m_active_thread_count, m_idle_thread_count>>
    BY Zenon, <1>6 DEF CoreStop, StopBegin, StopFlag, StopRoot, StopJoin
  <2>2. CASE ~\E d \in BOOLEAN : StopRoot(d)
    BY Zenon, <1>3, <1>6, <2>1, <2>2 DEF CoreStop, StopBegin, StopFlag, StopJoin
  <2>3. CASE \E d \in BOOLEAN : StopRoot(d)
    <3>1. owner = "root" /\ (pc' = pc \/ pc' = [pc EXCEPT ![Root] = "scan"])
      BY Zenon, <2>3 DEF StopRoot
    <3>2. \A t \in Thread : t = Root => pc[t] \in {"off", "exit"}
      BY Zenon, <3>1 DEF IInv, OwnerInv, Thread
    <3> QED
      BY Zenon, <1>0, <1>3, <2>1, <3>1, <3>2 DEF TypeOK, Active, InIdle
  <2> QED
    BY Zenon, <2>2, <2>3
<1>7. ASSUME NEW t \in Thread, CoreRun(t, pins)
      PROVE  /\ m_active_thread_count' = Cardinality(ThreadsIn(Active))'
             /\ m_idle_thread_count' = Cardinality(ThreadsIn(InIdle))'
  <2> DEFINE Moves(x) == pc' = [pc EXCEPT ![t] = x]
  <2>m. ASSUME NEW x \in PC, Moves(x)
        PROVE  /\ Cardinality(ThreadsIn(Active))' = Cardinality(ThreadsIn(Active))
                    + (IF x \in Active THEN 1 ELSE 0) - (IF pc[t] \in Active THEN 1 ELSE 0)
               /\ Cardinality(ThreadsIn(InIdle))' = Cardinality(ThreadsIn(InIdle))
                    + (IF x \in InIdle THEN 1 ELSE 0) - (IF pc[t] \in InIdle THEN 1 ELSE 0)
    BY Zenon, <1>0, <2>m, ThreadsInMove
  <2>1. CASE Take(t)
    <3>1. /\ pc[t] = "scan" /\ Moves("dispatch") /\ "dispatch" \in PC
          /\ m_active_thread_count' = m_active_thread_count + 1
          /\ m_idle_thread_count' = m_idle_thread_count
      BY Zenon, <2>1 DEF Take, PC
    <3> HIDE DEF Moves
    <3> QED
      BY <1>0, <1>2, <2>m, <3>1 DEF Active, InIdle
  <2>2. CASE TakeNothing(t)
    <3>1. /\ pc[t] = "scan" /\ m_active_thread_count' = m_active_thread_count
          /\ \/ Moves("exit") /\ m_idle_thread_count' = m_idle_thread_count
             \/ Moves("idle") /\ m_idle_thread_count' = m_idle_thread_count + 1
      BY Zenon, <2>2 DEF TakeNothing
    <3>2. {"idle", "exit"} \subseteq PC
      BY Zenon DEF PC
    <3> HIDE DEF Moves
    <3> QED
      BY <1>0, <1>2, <2>m, <3>1, <3>2 DEF Active, InIdle
  <2>3. CASE DropFinished(t) \/ Uncount(t)
    <3>1. /\ pc[t] \in {"dispatch", "ret"}
          /\ \E x \in {"scan", "post"} : Moves(x)
          /\ m_active_thread_count' = m_active_thread_count - 1
          /\ m_idle_thread_count' = m_idle_thread_count
      BY Zenon, <2>3 DEF DropFinished, Uncount
    <3>2. {"scan", "post"} \subseteq PC
      BY Zenon DEF PC
    <3> HIDE DEF Moves
    <3> QED
      BY <1>0, <1>2, <2>m, <3>1, <3>2 DEF Active, InIdle
  <2>4. CASE swapIn(t) \/ CoreBody(t, pins) \/ swapOut(t) \/ Requeue(t)
    <3>1. /\ UNCHANGED <<m_active_thread_count, m_idle_thread_count>>
          /\ \/ pc' = pc
             \/ /\ pc[t] \in Active
                /\ \E x \in Active : pc' = [pc EXCEPT ![t] = x]
             \/ pc[t] = "post" /\ pc' = [pc EXCEPT ![t] = "scan"]
      BY Zenon, <2>4 DEF swapIn, CoreBody, TaskSchedule, YieldToReady, YieldToHold, MainFunc,
         swapOut,
         Requeue, Active
    <3>2. \A u \in Thread : \/ pc'[u] = pc[u]
                            \/ {pc[u], pc'[u]} \cap (Active \cup InIdle) = {}
                            \/ {pc[u], pc'[u]} \subseteq Active
      BY Zenon, <1>0, <3>1 DEF TypeOK, Active, InIdle
    <3> QED
      BY Zenon, <1>3, <3>1, <3>2
  <2>5. CASE IdleBack(t)
    <3>1. /\ pc[t] = "idle" /\ Moves("idleret") /\ "idleret" \in PC
          /\ UNCHANGED <<m_active_thread_count, m_idle_thread_count>>
      BY Zenon, <2>5 DEF IdleBack, PC
    <3> HIDE DEF Moves
    <3> QED
      BY <1>0, <1>2, <2>m, <3>1 DEF Active, InIdle
  <2>6. CASE IdleReturn(t)
    <3>1. /\ pc[t] = "idleret" /\ Moves("scan") /\ "scan" \in PC
          /\ m_active_thread_count' = m_active_thread_count
          /\ m_idle_thread_count' = m_idle_thread_count - 1
      BY Zenon, <2>6 DEF IdleReturn, PC
    <3> HIDE DEF Moves
    <3> QED
      BY <1>0, <1>2, <2>m, <3>1 DEF Active, InIdle
  <2> QED
    BY Zenon, <1>7, <2>1, <2>2, <2>3, <2>4, <2>5, <2>6 DEF CoreRun
<1>8. CASE \E k \in Task : Wake(k)
  BY Zenon, <1>3, <1>8 DEF Wake
<1>9. CASE UNCHANGED vars
  BY Zenon, <1>3, <1>9 DEF vars
<1> QED
  BY Zenon, <1>4, <1>5, <1>6, <1>7, <1>8, <1>9 DEF Core

----------------------------------------------------------------------------
LEMMA InitCounters == Init => CountersExact
<1> SUFFICES ASSUME Init PROVE CountersExact
  BY Zenon
<1>1. {t \in Thread : pc[t] \in Active} = {}
  BY Zenon DEF Init, Active
<1>2. {t \in Thread : pc[t] \in {"idle", "idleret"}} = {}
  BY Zenon DEF Init
<1> QED
  BY Zenon, <1>1, <1>2, FS_EmptySet DEF Init, CountersExact

\* m_active_thread_count_ and m_idle_thread_count_ are exact in every state.
THEOREM CountersCorrect == Spec => []CountersExact
<1>1. Init => CountersExact
  BY Zenon, InitCounters
<1>2. IInv /\ CountersExact /\ [Next]_vars => CountersExact'
  <2> SUFFICES ASSUME IInv, CountersExact, [Next]_vars PROVE CountersExact'
    BY Zenon
  <2>1. [Core(TaskPins)]_vars /\ TaskPins \in SUBSET (Thread \cup {None})
    BY Zenon, NextIsCore, SchedulerAssumption DEF IInv
  <2> QED
    BY Zenon, <2>1, CountersStep
<1> QED
  BY <1>1, <1>2, Inductive, PTL DEF Spec

(***************************************************************************)
(* The facts about finite sets that the steps assume.                      *)
(***************************************************************************)
LEMMA FiniteLawsHold == FiniteLaws
<1>1. ASSUME NEW S, IsFiniteSet(S)
      PROVE  Cardinality(S) \in Nat /\ (Cardinality(S) = 0 <=> S = {})
  BY Zenon, <1>1, FS_CardinalityType, FS_EmptySet
<1>2. ASSUME NEW S, NEW T, IsFiniteSet(S), T \subseteq S PROVE IsFiniteSet(T)
  BY Zenon, <1>2, FS_Subset
<1>3. ASSUME NEW S, NEW x, IsFiniteSet(S)
      PROVE  /\ IsFiniteSet(S \cup {x})
             /\ Cardinality(S \cup {x}) = IF x \in S THEN Cardinality(S) ELSE Cardinality(S) + 1
  BY Zenon, <1>3, FS_AddElement
<1>4. ASSUME NEW S, NEW x, IsFiniteSet(S)
      PROVE  /\ IsFiniteSet(S \ {x})
             /\ Cardinality(S \ {x}) = IF x \in S THEN Cardinality(S) - 1 ELSE Cardinality(S)
  BY Zenon, <1>4, FS_RemoveElement
<1> QED
  BY Zenon, FS_EmptySet, <1>1, <1>2, <1>3, <1>4 DEF FiniteLaws

(***************************************************************************)
(* schedule(cbs.begin(), cbs.end()): a batch of new tasks at the back of   *)
(* the queue, in any order, each once.                                     *)
(***************************************************************************)
Batch(s) == [i \in DOMAIN s |-> [task |-> s[i], cb |-> TRUE, thread |-> None]]

LEMMA ListIsSeq ==
  ASSUME NEW E, NEW n \in Nat, NEW b \in [1..n -> E]
  PROVE  b \in Seq(E) /\ Len(b) = n /\ DOMAIN b = 1..n
BY SMTT(30)

LEMMA ConcatQueue ==
  ASSUME NEW q \in Seq(Entry), NEW b \in Seq(Entry)
  PROVE  /\ q \o b \in Seq(Entry)
         /\ Range(q \o b) = Range(q) \cup Range(b)
         /\ DistinctTasks(q) /\ DistinctTasks(b)
              /\ (\A d \in Range(q), e \in Range(b) : d.task # e.task)
              => DistinctTasks(q \o b)
<1> DEFINE r == q \o b
           m == Len(q)
           n == Len(b)
<1>1. /\ m \in Nat /\ n \in Nat /\ DOMAIN q = 1..m /\ DOMAIN b = 1..n
      /\ r \in Seq(Entry) /\ DOMAIN r = 1..(m + n)
      /\ \A j \in 1..(m + n) : r[j] = IF j <= m THEN q[j] ELSE b[j - m]
  BY SMTT(30), ConcatProperties
<1> HIDE DEF r, m, n
<1>2. ASSUME NEW j \in DOMAIN r, j <= m PROVE j \in DOMAIN q /\ r[j] = q[j] /\ r[j] \in Range(q)
  BY SMTT(30), <1>1, <1>2 DEF Range
<1>3. ASSUME NEW j \in DOMAIN r, ~(j <= m) PROVE j - m \in DOMAIN b /\ r[j] = b[j - m]
  BY SMTT(30), <1>1, <1>3
<1>4. ASSUME NEW j \in DOMAIN r, ~(j <= m) PROVE r[j] \in Range(b)
  BY Zenon, <1>3, <1>4 DEF Range
<1>5. ASSUME NEW e \in Range(q) PROVE e \in Range(r)
  <2>1. PICK j \in DOMAIN q : e = q[j]
    BY Zenon DEF Range
  <2>2. j \in DOMAIN r /\ r[j] = e
    BY SMTT(30), <1>1, <2>1
  <2> QED
    BY Zenon, <2>2 DEF Range
<1>6. ASSUME NEW e \in Range(b) PROVE e \in Range(r)
  <2>1. PICK j \in DOMAIN b : e = b[j]
    BY Zenon DEF Range
  <2>2. m + j \in DOMAIN r /\ ~(m + j <= m) /\ (m + j) - m = j
    BY SMTT(30), <1>1
  <2>3. r[m + j] = e
    BY Zenon, <1>3, <2>1, <2>2
  <2> QED
    BY Zenon, <2>2, <2>3 DEF Range
<1>7. Range(r) = Range(q) \cup Range(b)
  <2>1. \A e \in Range(r) : e \in Range(q) \cup Range(b)
    BY Zenon, <1>2, <1>4 DEF Range
  <2> QED
    BY Zenon, <1>5, <1>6, <2>1
<1>8. ASSUME DistinctTasks(q), DistinctTasks(b), \A d \in Range(q), e \in Range(b) : d.task # e.task
      PROVE  DistinctTasks(r)
  <2> SUFFICES ASSUME NEW i \in DOMAIN r, NEW j \in DOMAIN r, r[i].task = r[j].task
               PROVE  i = j
    BY Zenon DEF DistinctTasks
  <2>1. CASE i <= m /\ j <= m
    BY Zenon, <1>2, <1>8, <2>1 DEF DistinctTasks
  <2>2. CASE (i <= m) # (j <= m)
    BY SMTT(30), <1>2, <1>4, <1>8, <2>2
  <2>3. CASE ~(i <= m) /\ ~(j <= m)
    <3>1. i - m = j - m
      BY SMTT(30), <1>3, <1>8, <2>3 DEF DistinctTasks
    <3>2. i \in 1..(m + n) /\ j \in 1..(m + n)
      BY Zenon, <1>1
    <3> QED
      BY SMTT(30), <1>1, <3>1, <3>2
  <2> QED
    BY Zenon, <2>1, <2>2, <2>3
<1> QED
  BY Zenon, <1>1, <1>7, <1>8 DEF r

LEMMA BatchEntries ==
  ASSUME NEW S \in SUBSET Task, IsFiniteSet(S), NEW s \in [1..Cardinality(S) -> S], Range(s) = S,
         NEW b, b = Batch(s)
  PROVE  b \in Seq(Entry) /\ DistinctTasks(b) /\ Range(b) = {CbEntry(k) : k \in S}
<1> DEFINE n == Cardinality(S)
<1>1. n \in Nat /\ DOMAIN s = 1..n /\ \A i \in 1..n : s[i] \in S
  BY Zenon, FS_CardinalityType
<1>2. \A i, j \in 1..n : s[i] = s[j] => i = j
  <2>1. IsFiniteSet(1..n) /\ Cardinality(1..n) = n
    BY SMTT(30), <1>1, FS_Interval
  <2>2. s \in Surjection(1..n, S)
    BY Zenon, <1>1 DEF Surjection, Range
  <2>3. s \in Injection(1..n, S)
    BY Zenon, <2>1, <2>2, FS_SurjSameCardinalityImpliesInj
  <2> QED
    BY Zenon, <1>1, <2>3 DEF Injection, IsInjective
<1> HIDE DEF n
<1>3. /\ b \in [1..n -> Entry] /\ DOMAIN b = 1..n
      /\ \A i \in 1..n : b[i] = CbEntry(s[i]) /\ b[i].task = s[i]
  BY Zenon, <1>1, SchedulerAssumption DEF CbEntry, Entry, Batch
<1>4. b \in Seq(Entry)
  BY Zenon, <1>1, <1>3, ListIsSeq
<1>5. DistinctTasks(b)
  BY SMTT(30), <1>2, <1>3 DEF DistinctTasks
<1>6. ASSUME NEW k \in S PROVE CbEntry(k) \in Range(b)
  <2>1. PICK i \in 1..n : s[i] = k
    BY Zenon, <1>1 DEF Range
  <2> QED
    BY Zenon, <1>3, <2>1 DEF Range
<1>7. ASSUME NEW e \in Range(b) PROVE \E k \in S : e = CbEntry(k)
  <2>1. PICK i \in 1..n : e = b[i]
    BY Zenon, <1>3 DEF Range
  <2> QED
    BY Zenon, <1>1, <1>3, <2>1
<1> QED
  BY Zenon, <1>4, <1>5, <1>6, <1>7

LEMMA BatchQueue ==
  ASSUME NEW q \in Seq(Entry), DistinctTasks(q),
         NEW S \in SUBSET Task, IsFiniteSet(S), \A d \in Range(q) : d.task \notin S,
         NEW s \in [1..Cardinality(S) -> S], Range(s) = S,
         NEW b, b = Batch(s),
         NEW r, r = q \o b
  PROVE  /\ r \in Seq(Entry) /\ DistinctTasks(r)
         /\ Range(r) = Range(q) \cup {CbEntry(k) : k \in S}
<1>1. b \in Seq(Entry) /\ DistinctTasks(b) /\ Range(b) = {CbEntry(k) : k \in S}
  BY Zenon, BatchEntries
<1>3. \A e \in Range(b) : e.task \in S
  BY SMTT(30), <1>1 DEF CbEntry
<1>4. \A d \in Range(q), e \in Range(b) : d.task # e.task
  BY Zenon, <1>3
<1> QED
  BY Zenon, <1>1, <1>4, ConcatQueue

LEMMA ExpiredShape ==
  ASSUME IInv, TimerInv, NEW t \in Thread, ScheduleExpired(t)
  PROVE  /\ cbs[t] \subseteq Task
         /\ m_fibers' \in Seq(Entry) /\ DistinctTasks(m_fibers')
         /\ Range(m_fibers') = Range(m_fibers) \cup {CbEntry(k) : k \in cbs[t]}
         /\ state' \in [Task -> State]
         /\ \A k \in cbs[t] : state'[k] = "CB"
         /\ \A k \in Task \ cbs[t] : state'[k] = state[k]
<1> DEFINE S == cbs[t]
<1>1. S \in SUBSET Task /\ IsFiniteSet(S) /\ \A k \in S : state[k] = "NEW"
  BY Zenon DEF TimerInv
<1>2. \A k \in S : ~Queued(k)
  BY Zenon, <1>1, NewIsFree
<1>3. \A d \in Range(m_fibers) : d.task \notin S
  BY Zenon, <1>2 DEF Queued
<1>4. PICK s \in [1..Cardinality(S) -> S] : Range(s) = S /\ m_fibers' = m_fibers \o Batch(s)
  BY Zenon DEF ScheduleExpired, Batch
<1>5. state' = [k \in Task |-> IF k \in S THEN "CB" ELSE state[k]]
  BY Zenon DEF ScheduleExpired
<1>6. m_fibers \in Seq(Entry) /\ DistinctTasks(m_fibers) /\ state \in [Task -> State]
  BY Zenon DEF IInv, TypeOK
<1> HIDE DEF S
<1>7. /\ m_fibers' \in Seq(Entry) /\ DistinctTasks(m_fibers')
      /\ Range(m_fibers') = Range(m_fibers) \cup {CbEntry(k) : k \in S}
  BY Zenon, <1>1, <1>3, <1>4, <1>6, BatchQueue
<1>8. state' \in [Task -> State] /\ (\A k \in S : state'[k] = "CB")
      /\ \A k \in Task \ S : state'[k] = state[k]
  BY Zenon, <1>1, <1>5, <1>6 DEF State
<1> QED
  BY Zenon, <1>1, <1>7, <1>8 DEF S

\* The scheduler's invariants survive it: the tasks were nobody's before.
LEMMA ExpiredIInv ==
  ASSUME IInv, TimerInv, NEW t \in Thread, ScheduleExpired(t)
  PROVE  IInv'
<1> DEFINE S == cbs[t]
<1>a. /\ TypeOK /\ DistinctTasks(m_fibers) /\ HandInv /\ OneHolder
      /\ WakeInv /\ QueueInv /\ PlaceInv /\ OwnerInv /\ "assert_not_EXEC" \notin failed
  BY Zenon DEF IInv
<1>b. /\ m_fibers \in Seq(Entry) /\ state \in [Task -> State]
      /\ pc \in [Thread -> PC] /\ ft \in [Thread -> Entry \cup {NoEntry}]
  BY Zenon, <1>a DEF TypeOK
<1>c. UNCHANGED <<m_active_thread_count, m_idle_thread_count, m_stopping, m_auto_stop, pc, ft,
                  idle_term, owner, starts, waiting, yields, failed>>
  BY Zenon DEF ScheduleExpired
<1>1. /\ S \subseteq Task
      /\ m_fibers' \in Seq(Entry) /\ DistinctTasks(m_fibers')
      /\ Range(m_fibers') = Range(m_fibers) \cup {CbEntry(k) : k \in S}
      /\ state' \in [Task -> State]
      /\ \A k \in S : state'[k] = "CB"
      /\ \A k \in Task \ S : state'[k] = state[k]
  BY Zenon, ExpiredShape
<1>2. \A k \in S : state[k] = "NEW"
  BY Zenon DEF TimerInv
<1>3. \A k \in S : ~Queued(k) /\ k \notin waiting /\ \A u \in Thread : ft[u].task # k
  BY Zenon, <1>1, <1>2, NewIsFree
<1> HIDE DEF S
<1> USE <1>c, NoEntryProperties
<1>4. TypeOK' /\ OwnerInv'
  BY Zenon, <1>a, <1>1 DEF TypeOK, OwnerInv
<1>5. \A k \in S : CbEntry(k).task = k /\ CbEntry(k).cb = TRUE
  BY Zenon DEF CbEntry
<1>6. \A j \in Task : Queued(j)' <=> Queued(j) \/ j \in S
  BY SMTT(30), <1>1, <1>5 DEF Queued
<1>7. \A u \in Thread : ft[u] \in Entry => ft[u].task \in Task \ S
  BY Zenon, <1>3
<1>8. HandInv' /\ OneHolder'
  BY <1>a, <1>b, <1>1, <1>7 DEF HandInv, OneHolder, Active
<1>9. QueueInv'
  <2> SUFFICES ASSUME NEW d \in Range(m_fibers)'
               PROVE  state'[d.task] \in IF d.cb THEN {"CB"} ELSE {"INIT", "HOLD", "READY", "EXEC"}
    BY Zenon DEF QueueInv
  <2>1. CASE d \in Range(m_fibers)
    <3>1. d.task \in Task \ S
      BY SMTT(30), <1>b, <1>3, <2>1 DEF Range, Queued
    <3> QED
      BY Zenon, <1>a, <1>1, <2>1, <3>1 DEF QueueInv
  <2>2. CASE \E k \in S : d = CbEntry(k)
    BY SMTT(30), <1>1, <1>5, <2>2
  <2> QED
    BY Zenon, <1>1, <2>1, <2>2
<1>10. \A u \in Thread, j \in Task : Holds(u, j) => (Parking(u)' <=> Parking(u))
  BY <1>b, <1>1, <1>7 DEF Holds, Parking
<1>11. WakeInv'
  BY Zenon, <1>a, <1>3, <1>6, <1>10 DEF WakeInv, Holds
<1>12. PlaceInv'
  BY Zenon, <1>a, <1>1, <1>3, <1>6, <1>10 DEF PlaceInv, Holds
<1> QED
  BY <1>a, <1>1, <1>4, <1>8, <1>9, <1>11, <1>12 DEF IInv

LEMMA ExpiredDrain ==
  ASSUME IInv, TimerInv, DrainInv, NEW t \in Thread, ScheduleExpired(t)
  PROVE  DrainInv'
<1>1. /\ UNCHANGED <<m_stopping, pc, idle_term, owner>> /\ pc[t] = "idle"
  BY Zenon DEF ScheduleExpired
<1>2. /\ cbs[t] \subseteq Task
      /\ Range(m_fibers') = Range(m_fibers) \cup {CbEntry(k) : k \in cbs[t]}
      /\ \A k \in Task \ cbs[t] : state'[k] = state[k]
  BY Zenon, ExpiredShape
<1>3. \A k \in cbs[t] : ~Queued(k)
  <2>1. \A k \in cbs[t] : state[k] = "NEW"
    BY Zenon DEF TimerInv
  <2> QED
    BY Zenon, <1>2, <2>1, NewIsFree
<1>4. \A e \in Range(m_fibers)' : e \in Range(m_fibers) \/ e.thread = None
  BY SMTT(30), <1>2 DEF CbEntry
<1>5. \A e \in Range(m_fibers) : state'[e.task] = state[e.task]
  <2>1. \A e \in Range(m_fibers) : e.task \in Task \ cbs[t]
    BY SMTT(30), <1>3, NoEntryProperties DEF IInv, TypeOK, Range, Queued
  <2> QED
    BY Zenon, <1>2, <2>1
<1>6. \A u \in Thread : CanTake(u)' <=> CanTake(u)
  BY Zenon, <1>1 DEF CanTake
<1>7. CanTake(t)'
  BY Zenon, <1>1 DEF CanTake
<1>8. TakerInv'
  BY Zenon, <1>4, <1>5, <1>6, <1>7, TakerStep DEF DrainInv
<1>9. PinInv'
  BY Zenon, <1>1, <1>4 DEF DrainInv, PinInv
<1> QED
  BY Zenon, <1>8, <1>9 DEF DrainInv

(***************************************************************************)
(* The invariant holds in every state.                                     *)
(***************************************************************************)
LEMMA InitIO == IOInit => IOInv
<1> SUFFICES ASSUME IOInit PROVE IOInv
  OBVIOUS
<1>0. Init /\ IInv
  BY Zenon, InitIInv DEF IOInit
<1>1. IdleInv
  BY Zenon, <1>0 DEF Init, IdleInv
<1>2. EventInv
  BY SMTT(30), <1>0, FS_EmptySet DEF IOInit, EventInv, PendingCounted
<1>3. TimerInv
  BY Zenon, FS_EmptySet DEF IOInit, TimerInv, Place, Actor
<1>4. SleepInv
  BY Zenon, <1>0, SchedulerAssumption DEF IOInit, Init, SleepInv, HeldHasWaker
<1> QED
  BY Zenon, <1>0, <1>1, <1>2, <1>3, <1>4 DEF IOInv

\* Every step is one of the scheduler's or schedules expired callbacks.
LEMMA IOStepKinds ==
  ASSUME IOInv, [IONext]_allvars
  PROVE  [Core({None})]_vars \/ \E t \in Thread : ScheduleExpired(t)
BY Zenon, IOIsCore DEF IOInv, allvars

LEMMA NextIO ==
  ASSUME IOInv, [IONext]_allvars
  PROVE  IOInv'
<1> USE SchedulerAssumption
<1>1. IInv' /\ IdleInv'
  <2>1. CASE [Core({None})]_vars
    <3>1. {None} \in SUBSET (Thread \cup {None})
      BY Zenon
    <3> QED
      BY Zenon, <2>1, <3>1, CoreIInv, IdleStep DEF IOInv
  <2>2. ASSUME NEW t \in Thread, ScheduleExpired(t) PROVE IInv' /\ IdleInv'
    BY Zenon, <2>2, ExpiredIInv DEF IOInv, IdleInv, ScheduleExpired
  <2> QED
    BY Zenon, <2>1, <2>2, IOStepKinds
<1>2. EventInv' /\ TimerInv' /\ SleepInv'
  <2>1. ExpiredQueued
    BY Zenon, ExpiredShape DEF ExpiredQueued, IOInv
  <2> QED
    BY Zenon, <2>1, FiniteLawsHold, EventStep, TimerStep, SleepStep
<1> QED
  BY Zenon, <1>1, <1>2 DEF IOInv

LEMMA IOInductive == IOSpec => []IOInv
<1>1. IOInv /\ [IONext]_allvars => IOInv'
  BY Zenon, NextIO
<1> QED
  BY InitIO, <1>1, PTL DEF IOSpec

\* m_pendingEventCount is the number of waits plus the number of triggers
\* that have yet to lower it: stopping() never reads a count that misses a wait.
THEOREM PendingExact == IOSpec => []PendingCounted
<1>1. IOInv => PendingCounted
  BY Zenon DEF IOInv, EventInv
<1> QED
  BY <1>1, IOInductive, PTL

\* A fiber in HOLD has a registered event, or its timer's callback is armed,
\* expired, queued or running.
THEOREM NoWaiterForgotten == IOSpec => []HeldHasWaker
<1>1. IOInv => HeldHasWaker
  BY Zenon DEF IOInv, SleepInv
<1> QED
  BY <1>1, IOInductive, PTL

\* What holds of the scheduler holds of the I/O manager: no fiber runs on two
\* threads, none is lost, and the two counters are exact.
THEOREM IOFiberExclusion == IOSpec => [](OneThreadPerFiber /\ NoFiberLost)
<1>1. IOInv => OneThreadPerFiber /\ NoFiberLost
  <2>1. IInv => OneThreadPerFiber
    BY SMTT(30), NoEntryProperties DEF IInv, OneThreadPerFiber, OnCpu, HandInv, OneHolder, Active
  <2>2. IInv => NoFiberLost
    BY Zenon DEF IInv, PlaceInv, NoFiberLost, Holds
  <2> QED
    BY Zenon, <2>1, <2>2 DEF IOInv
<1> QED
  BY <1>1, IOInductive, PTL

LEMMA DrainKept ==
  ASSUME IOInv, DrainInv, [IONext]_allvars
  PROVE  DrainInv'
<1>1. CASE [Core({None})]_vars
  BY Zenon, <1>1, DrainStep DEF IOInv
<1>2. ASSUME NEW t \in Thread, ScheduleExpired(t) PROVE DrainInv'
  BY Zenon, <1>2, ExpiredDrain DEF IOInv
<1> QED
  BY Zenon, <1>1, <1>2, IOStepKinds

\* When stop() returns, no accepted task is unstarted, runnable or half run,
\* although every thread decides to leave on three reads taken at different
\* times, and timers and events go on scheduling.
THEOREM IOStopIsComplete == IOSpec => []StopDrains
<1>1. IOInit => DrainInv
  BY Zenon, InitDrain DEF IOInit
<1>2. IOInv /\ DrainInv /\ [IONext]_allvars => DrainInv'
  BY DrainKept
<1>3. IOInv /\ DrainInv => StopDrains
  BY Zenon, DrainedAtEnd DEF IOInv
<1> QED
  BY <1>1, <1>2, <1>3, IOInductive, PTL DEF IOSpec

\* m_active_thread_count_ and m_idle_thread_count_, which stopping() and
\* tickle() read, are exact.
THEOREM IOCountersCorrect == IOSpec => []CountersExact
<1>1. IOInit => CountersExact
  BY Zenon, InitCounters DEF IOInit
<1>2. IOInv /\ CountersExact /\ [IONext]_allvars => CountersExact'
  <2> SUFFICES ASSUME IOInv, CountersExact, [IONext]_allvars PROVE CountersExact'
    BY Zenon
  <2>1. CASE [Core({None})]_vars
    <3>1. {None} \in SUBSET (Thread \cup {None})
      BY Zenon
    <3> QED
      BY Zenon, <2>1, <3>1, CountersStep DEF IOInv
  <2>2. ASSUME NEW t \in Thread, ScheduleExpired(t) PROVE CountersExact'
    BY Zenon, <2>2 DEF ScheduleExpired, CountersExact
  <2> QED
    BY Zenon, <2>1, <2>2, IOStepKinds
<1> QED
  BY <1>1, <1>2, IOInductive, PTL DEF IOSpec

\* The assertions of the fibers hold under the I/O manager: however events,
\* timers and yields race, no thread enters a fiber that executes, and the root
\* fiber is not called after it has returned.
THEOREM IOAssertionsHold ==
  ASSUME ~UseCaller \/ MaxStarts <= 1
  PROVE  IOSpec => []NoAssertionFails
<1> USE SchedulerAssumption
<1>1. IOInit => RootInv
  BY DEF IOInit, Init, RootInv, Thread
<1>2. IOInv /\ RootInv /\ [IONext]_allvars => RootInv'
  <2> SUFFICES ASSUME IOInv, RootInv, [IONext]_allvars PROVE RootInv'
    BY Zenon
  <2>1. CASE [Core({None})]_vars
    <3>1. {None} \in SUBSET (Thread \cup {None})
      BY Zenon
    <3> QED
      BY Zenon, <2>1, <3>1, RootStep DEF IOInv
  <2>2. ASSUME NEW t \in Thread, ScheduleExpired(t) PROVE RootInv'
    BY Zenon, <2>2 DEF ScheduleExpired, RootInv
  <2> QED
    BY Zenon, <2>1, <2>2, IOStepKinds
<1>3. IOInv /\ RootInv => NoAssertionFails
  BY Zenon, RootSound DEF IOInv
<1> QED
  BY <1>1, <1>2, <1>3, IOInductive, PTL DEF IOSpec

\* A function that has returned or thrown is never entered again, also when it
\* is the callback of a timer or has waited for events.
THEOREM IOFinishedOnce == IOSpec => FinishedForGood
<1>1. IOInv /\ [IONext]_allvars => [\A k \in Task : state[k] \in Finished => state'[k] = state[k]]_vars
  <2> SUFFICES ASSUME IOInv, [IONext]_allvars, NEW k \in Task, state[k] \in Finished
               PROVE  state'[k] = state[k]
    BY Zenon
  <2>1. CASE [Core({None})]_vars
    <3>1. {None} \in SUBSET (Thread \cup {None}) /\ TypeOK
      BY Zenon DEF IOInv, IInv
    <3> QED
      BY Zenon, <2>1, <3>1, HandsFit, FinishedStep DEF IOInv
  <2>2. ASSUME NEW t \in Thread, ScheduleExpired(t) PROVE state'[k] = state[k]
    <3>1. k \notin cbs[t]
      BY Zenon DEF IOInv, TimerInv, Finished
    <3> QED
      BY Zenon, <2>2, <3>1 DEF ScheduleExpired
  <2> QED
    BY Zenon, <2>1, <2>2, IOStepKinds
<1> QED
  BY <1>1, IOInductive, PTL DEF IOSpec, FinishedForGood

(***************************************************************************)
(* One thread: stop() leaves nothing behind.                               *)
(***************************************************************************)
LEMMA SingleEnd ==
  ASSUME UseCaller, Worker = {}, IOInv, SingleInv
  PROVE  IOStopComplete
<1> USE SchedulerAssumption
<1>1. SUFFICES ASSUME owner = "stopped"
               PROVE  /\ timers = {} /\ evwait = {}
                      /\ \A t \in Thread : cbs[t] = {}
                      /\ \A k \in Task : state[k] \in {"NEW"} \cup Finished
  BY Zenon DEF IOStopComplete
<1>2. Settled /\ Thread = {Root}
  BY Zenon, <1>1 DEF SingleInv, Thread
<1>3. evwait = {}
  <2>1. IsFiniteSet(evwait) /\ IsFiniteSet(counting)
    BY Zenon, ThreadFinite, FiniteLawsHold, FS_Subset DEF IOInv, EventInv
  <2>2. Cardinality(evwait) \in Nat /\ Cardinality(counting) \in Nat
    BY Zenon, <2>1, FS_CardinalityType
  <2>3. 0 = Cardinality(evwait) + Cardinality(counting)
    BY Zenon, <1>2 DEF IOInv, EventInv, PendingCounted, Settled
  <2> QED
    BY SMTT(30), <2>1, <2>2, <2>3, FS_EmptySet
<1>4. \A k : ~Queued(k)
  BY SMTT(30), <1>2 DEF Settled, Queued, Range
<1>5. \A k \in Task, t \in Thread : ft[t].task # k
  BY Zenon, <1>2, NoEntryProperties DEF Settled
<1>6. \A k : k \notin waiting
  <2>1. waiting \subseteq Task
    BY Zenon DEF IOInv, IInv, TypeOK
  <2> QED
    BY Zenon, <1>2, <1>3, <1>4, <1>5, <2>1 DEF IOInv, SleepInv, HeldHasWaker, Settled
<1>7. \A k \in Task : state[k] \notin {"CB", "INIT", "HOLD", "READY", "EXEC"}
  BY SMTT(30), <1>4, <1>5, <1>6 DEF IOInv, IInv, PlaceInv, Holds
<1>8. \A k \in Task : state[k] \in State
  BY Zenon DEF IOInv, IInv, TypeOK
<1> QED
  BY Zenon, <1>2, <1>3, <1>7, <1>8 DEF Settled, State, Finished

\* An I/O manager that runs on its owner's thread alone has, when stop()
\* returns, no timer, no event and no unfinished task left, for any number of
\* tasks and over restarts.
THEOREM SingleStopComplete ==
  ASSUME UseCaller, Worker = {}
  PROVE  IOSpec => []IOStopComplete
<1>1. IOInit => DrainInv /\ SingleInv
  <2>1. ASSUME IOInit PROVE SingleInv
    <3>1. /\ owner = "new" /\ pc = [t \in Thread |-> "off"] /\ Root \in Thread
          /\ iopc = [a \in Actor |-> "timers"] /\ Root \in Actor
      BY Zenon, <2>1 DEF IOInit, Init, Thread, Actor
    <3> QED
      BY Zenon, <3>1 DEF SingleInv
  <2> QED
    BY Zenon, <2>1, InitDrain DEF IOInit
<1>2. IOInv /\ DrainInv /\ SingleInv /\ [IONext]_allvars => DrainInv' /\ SingleInv'
  <2> SUFFICES ASSUME IOInv, DrainInv, SingleInv, [IONext]_allvars PROVE DrainInv' /\ SingleInv'
    BY Zenon
  <2>1. SingleInv'
    BY Zenon, FiniteLawsHold, SingleStep DEF DrainInv
  <2>2. DrainInv'
    BY Zenon, DrainKept
  <2> QED
    BY Zenon, <2>1, <2>2
<1>3. IOInv /\ SingleInv => IOStopComplete
  BY Zenon, SingleEnd
<1> QED
  BY <1>1, <1>2, <1>3, IOInductive, PTL DEF IOSpec
=============================================================================
