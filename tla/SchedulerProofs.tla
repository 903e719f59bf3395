-------------------------- MODULE SchedulerProofs --------------------------
(***************************************************************************)
(* Proofs about the scheduler, for any number of threads and tasks.        *)
(***************************************************************************)
EXTENDS SchedulerInv, TLAPS

(***************************************************************************)
(* The queue.                                                              *)
(***************************************************************************)

LEMMA ConcatProperties ==
  ASSUME NEW S, NEW a \in Seq(S), NEW b \in Seq(S)
  PROVE  /\ a \o b \in Seq(S)
         /\ Len(a \o b) = Len(a) + Len(b)
         /\ \A j \in 1..(Len(a) + Len(b)) : (a \o b)[j] = IF j <= Len(a) THEN a[j] ELSE b[j - Len(a)]
BY SMTT(30)

\* Erasing an entry from m_fibers_ keeps the others, in their order.
LEMMA EraseProperties ==
  ASSUME NEW S, NEW q \in Seq(S), NEW i \in 1..Len(q)
  PROVE  /\ erase(q, i) \in Seq(S)
         /\ Len(erase(q, i)) = Len(q) - 1
         /\ \A j \in 1..(Len(q) - 1) :
              erase(q, i)[j] = IF j < i THEN q[j] ELSE q[j + 1]
<1> DEFINE a == SubSeq(q, 1, i - 1)
           b == SubSeq(q, i + 1, Len(q))
<1>0. Len(q) \in Nat /\ \A j \in 1..Len(q) : q[j] \in S
  BY SMTT(30)
<1>1. a \in Seq(S) /\ Len(a) = i - 1 /\ \A j \in 1..(i - 1) : a[j] = q[j]
  BY SMTT(30), <1>0
<1>2. b \in Seq(S) /\ Len(b) = Len(q) - i /\ \A j \in 1..(Len(q) - i) : b[j] = q[j + i]
  BY SMTT(30), <1>0
<1> HIDE DEF a, b
<1>3. /\ a \o b \in Seq(S)
      /\ Len(a \o b) = Len(a) + Len(b)
      /\ \A j \in 1..(Len(a) + Len(b)) : (a \o b)[j] = IF j <= Len(a) THEN a[j] ELSE b[j - Len(a)]
  BY Zenon, <1>1, <1>2, ConcatProperties
<1>4. erase(q, i) = a \o b
  BY Zenon DEF erase, a, b
<1>5. Len(a \o b) = Len(q) - 1
  BY SMTT(30), <1>0, <1>1, <1>2, <1>3
<1>6. ASSUME NEW j \in 1..(Len(q) - 1)
      PROVE  (a \o b)[j] = IF j < i THEN q[j] ELSE q[j + 1]
  <2>1. j \in 1..(Len(a) + Len(b))
    BY SMTT(30), <1>0, <1>1, <1>2
  <2>2. CASE j < i
    BY SMTT(30), <2>1, <2>2, <1>0, <1>1, <1>3
  <2>3. CASE ~(j < i)
    <3>1. (a \o b)[j] = b[j - (i - 1)] /\ j - (i - 1) \in 1..(Len(q) - i)
      BY SMTT(30), <2>1, <2>3, <1>0, <1>1, <1>2, <1>3
    <3>2. b[j - (i - 1)] = q[j - (i - 1) + i]
      BY Zenon, <3>1, <1>2
    <3>3. j - (i - 1) + i = j + 1
      BY SMTT(30), <1>0
    <3> QED
      BY Zenon, <3>1, <3>2, <3>3, <2>3, <1>0
  <2> QED
    BY Zenon, <2>2, <2>3
<1> QED
  BY Zenon, <1>3, <1>4, <1>5, <1>6

LEMMA EraseQueue ==
  ASSUME NEW q \in Seq(Entry), DistinctTasks(q), NEW i \in DOMAIN q
  PROVE  /\ erase(q, i) \in Seq(Entry)
         /\ DistinctTasks(erase(q, i))
         /\ Range(erase(q, i)) = {e \in Range(q) : e.task # q[i].task}
<1> DEFINE r == erase(q, i)
<1>0. DOMAIN q = 1..Len(q) /\ Len(q) \in Nat /\ i \in 1..Len(q)
  BY SMTT(30)
<1>1. /\ r \in Seq(Entry)
      /\ Len(r) = Len(q) - 1
      /\ \A j \in 1..(Len(q) - 1) : r[j] = IF j < i THEN q[j] ELSE q[j + 1]
  BY Zenon, <1>0, EraseProperties
<1> HIDE DEF r
<1>2. DOMAIN r = 1..(Len(q) - 1)
  BY SMTT(30), <1>1
<1> DEFINE g(j) == IF j < i THEN j ELSE j + 1
<1>g. \A j \in DOMAIN r : g(j) \in DOMAIN q /\ g(j) # i /\ r[j] = q[g(j)]
  BY SMTT(30), <1>0, <1>1, <1>2
<1>h. \A j, h \in DOMAIN r : g(j) = g(h) => j = h
  BY SMTT(30), <1>0, <1>2
<1> HIDE DEF g
<1>3. DistinctTasks(r)
  BY <1>g, <1>h DEF DistinctTasks
<1>4. ASSUME NEW j \in DOMAIN r
      PROVE  r[j] \in Range(q) /\ r[j].task # q[i].task
  BY Zenon, <1>g DEF DistinctTasks, Range
<1>5. ASSUME NEW h \in DOMAIN q, q[h].task # q[i].task
      PROVE  q[h] \in Range(r)
  <2>1. CASE h < i
    <3>1. h \in DOMAIN r /\ r[h] = q[h]
      BY SMTT(30), <2>1, <1>0, <1>1, <1>2
    <3> QED
      BY Zenon, <3>1 DEF Range
  <2>2. CASE h > i
    <3>1. h - 1 \in DOMAIN r /\ r[h - 1] = q[h]
      BY SMTT(30), <2>2, <1>0, <1>1, <1>2
    <3> QED
      BY Zenon, <3>1 DEF Range
  <2> QED
    BY SMTT(30), <2>1, <2>2, <1>5, <1>0
<1>6. Range(r) = {e \in Range(q) : e.task # q[i].task}
  BY Zenon, <1>4, <1>5 DEF Range
<1> QED
  BY Zenon, <1>1, <1>3, <1>6 DEF r

\* schedule() adds one entry; a task that had none keeps the queue distinct.
LEMMA AppendQueue ==
  ASSUME NEW q \in Seq(Entry), NEW e \in Entry
  PROVE  /\ Append(q, e) \in Seq(Entry)
         /\ Range(Append(q, e)) = Range(q) \cup {e}
         /\ DistinctTasks(q) /\ (\A d \in Range(q) : d.task # e.task)
              => DistinctTasks(Append(q, e))
<1> DEFINE r == Append(q, e)
<1>1. /\ r \in Seq(Entry)
      /\ DOMAIN q = 1..Len(q)
      /\ Len(q) \in Nat
      /\ DOMAIN r = 1..(Len(q) + 1)
      /\ \A j \in 1..Len(q) : r[j] = q[j]
      /\ r[Len(q) + 1] = e
  BY SMTT(30)
<1> HIDE DEF r
<1>2. Range(r) = Range(q) \cup {e}
  <2>1. ASSUME NEW j \in DOMAIN r PROVE r[j] \in Range(q) \cup {e}
    BY SMTT(30), <1>1 DEF Range
  <2>2. ASSUME NEW j \in DOMAIN q PROVE q[j] \in Range(r)
    <3>1. j \in DOMAIN r /\ r[j] = q[j]
      BY SMTT(30), <1>1
    <3> QED
      BY Zenon, <3>1 DEF Range
  <2>3. e \in Range(r)
    <3>1. Len(q) + 1 \in DOMAIN r
      BY SMTT(30), <1>1
    <3> QED
      BY Zenon, <3>1, <1>1 DEF Range
  <2> QED
    BY Zenon, <2>1, <2>2, <2>3 DEF Range
<1>3. ASSUME DistinctTasks(q), \A d \in Range(q) : d.task # e.task
      PROVE  DistinctTasks(r)
  <2>1. \A j \in 1..Len(q) : q[j] \in Range(q)
    BY Zenon, <1>1 DEF Range
  <2> QED
    BY SMTT(30), <1>1, <1>3, <2>1 DEF DistinctTasks
<1> QED
  BY Zenon, <1>1, <1>2, <1>3 DEF r

(***************************************************************************)
(* The inductive invariant.                                                *)
(***************************************************************************)
LEMMA EntryProperties ==
  ASSUME NEW k \in Task, NEW cb \in BOOLEAN, NEW p \in Thread \cup {None}
  PROVE  /\ [task |-> k, cb |-> cb, thread |-> p] \in Entry
         /\ [task |-> k, cb |-> cb, thread |-> p].task = k
         /\ [task |-> k, cb |-> cb, thread |-> p].cb = cb
BY Zenon DEF Entry

LEMMA NoEntryProperties ==
  /\ NoEntry \notin Entry
  /\ NoEntry.task = None /\ None \notin Task
  /\ \A e \in Entry : e.task \in Task
BY Zenon, SchedulerAssumption DEF NoEntry, Entry

LEMMA InitIInv == Init => IInv
<1> SUFFICES ASSUME Init PROVE IInv
  BY Zenon
<1>1. TypeOK
  <2>1. m_fibers \in Seq(Entry)
    BY SMTT(30) DEF Init
  <2>2. m_stopping \in BOOLEAN /\ m_auto_stop \in BOOLEAN
    BY Zenon DEF Init
  <2>3. idle_term \in [Thread -> BOOLEAN]
    BY Zenon DEF Init
  <2>4. state \in [Task -> State] /\ pc \in [Thread -> PC] /\ owner \in Owner
    BY Zenon DEF Init, State, PC, Owner
  <2> QED
    BY SMTT(30), <2>1, <2>2, <2>3, <2>4 DEF Init, TypeOK
<1>2. m_fibers = <<>> /\ DOMAIN m_fibers = {} /\ Range(m_fibers) = {}
  BY SMTT(30) DEF Init, Range
<1>3. DistinctTasks(m_fibers) /\ QueueInv
  BY Zenon, <1>2 DEF DistinctTasks, QueueInv
<1>4. HandInv /\ OneHolder /\ OwnerInv
  BY Zenon, SchedulerAssumption DEF Init, HandInv, OneHolder, OwnerInv, Active, Thread
<1>5. WakeInv /\ PlaceInv
  BY Zenon, <1>2, SchedulerAssumption, NoEntryProperties
     DEF Init, WakeInv, PlaceInv, Queued, Holds, Parking
<1> QED
  BY Zenon, <1>1, <1>3, <1>4, <1>5 DEF IInv, Init

(***************************************************************************)
(* What Scheduler does, and every class derived from it: Core leaves open  *)
(* which threads the owner and the tasks pin their tasks to, and what the  *)
(* virtual stopping() and idle() look at beyond the queue, the flags and   *)
(* m_active_thread_count_.                                                 *)
(***************************************************************************)

\* The idle fiber yields to run(); it has returned only if stopping().
IdleBack(t) ==
  /\ pc[t] = "idle"
  /\ \E b \in BOOLEAN : (b => stopping) /\ idle_term' = [idle_term EXCEPT ![t] = b]
  /\ pc' = [pc EXCEPT ![t] = "idleret"]
  /\ UNCHANGED <<m_fibers, m_active_thread_count, m_idle_thread_count,
                 m_stopping, m_auto_stop, state, ft, owner, starts, waiting,
                 yields, failed>>

CoreBody(t, pins) ==
  \/ \E k \in Task, cb \in BOOLEAN, p \in pins : TaskSchedule(t, k, cb, p)
  \/ YieldToReady(t) \/ YieldToHold(t) \/ MainFunc(t)

CoreRun(t, pins) ==
  \/ Take(t) \/ TakeNothing(t) \/ DropFinished(t) \/ swapIn(t)
  \/ CoreBody(t, pins) \/ swapOut(t) \/ Uncount(t) \/ Requeue(t)
  \/ IdleBack(t) \/ IdleReturn(t)

CoreStop ==
  \/ \E d \in BOOLEAN : (d => m_fibers = <<>>) /\ StopBegin(d)
  \/ StopFlag
  \/ \E d \in BOOLEAN : (d => m_fibers = <<>>) /\ StopRoot(d)
  \/ StopJoin

Core(pins) ==
  \/ \E k \in Task, cb \in BOOLEAN, p \in Thread \cup {None} : OwnerSchedule(k, cb, p)
  \/ start
  \/ CoreStop
  \/ \E t \in Thread : CoreRun(t, pins)
  \/ \E k \in Task : Wake(k)

LEMMA NextIsCore == TypeOK /\ Next => Core(TaskPins)
<1> SUFFICES ASSUME TypeOK, Next PROVE Core(TaskPins)
  BY Zenon
<1>1. CASE \E k \in Task, cb \in BOOLEAN, p \in OwnerPins : OwnerSchedule(k, cb, p)
  BY Zenon, <1>1, SchedulerAssumption DEF Core
<1>2. CASE stop
  <2>1. stopping \in BOOLEAN /\ (stopping => m_fibers = <<>>)
    BY Zenon DEF stopping, TypeOK
  <2>2. StopRoot(stopping) => CoreStop
    BY <2>1, Zenon DEF CoreStop
  <2>3. (m_fibers = <<>> /\ m_active_thread_count = 0) \in BOOLEAN
    BY Zenon
  <2>4. StopBegin(m_fibers = <<>> /\ m_active_thread_count = 0) => CoreStop
    BY <2>3, Zenon DEF CoreStop
  <2> QED
    BY Zenon, <1>2, <2>2, <2>4 DEF stop, CoreStop, Core
<1>3. ASSUME NEW t \in Thread, run(t) PROVE Core(TaskPins)
  <2>1. stopping \in BOOLEAN
    BY Zenon DEF stopping, TypeOK
  <2>2. idle(t) => IdleBack(t)
    BY <2>1, Zenon DEF idle, IdleBack
  <2> QED
    BY Zenon, <1>3, <2>2 DEF run, RunLoop, Body, CoreRun, CoreBody, Core
<1> QED
  BY Zenon, <1>1, <1>2, <1>3 DEF Next, Core

\* A thread between Take and Requeue holds an entry.
HandType == \A t \in Thread : pc[t] \in Active \cup {"post"} => ft[t] \in Entry

\* Every step of the scheduler keeps the types.
LEMMA TypeStep ==
  ASSUME TypeOK, HandType,
         NEW pins \in SUBSET (Thread \cup {None}), [Core(pins)]_vars
  PROVE  TypeOK'
<1> USE SchedulerAssumption, NoEntryProperties DEF TypeOK
<1>1. ASSUME NEW k \in Task, NEW cb \in BOOLEAN, NEW p \in Thread \cup {None}, scheduleNoLock(k, cb, p)
      PROVE  m_fibers' \in Seq(Entry)
  BY Zenon, <1>1, AppendQueue, EntryProperties DEF scheduleNoLock
<1>2. ASSUME NEW k \in Task, NEW cb \in BOOLEAN, NEW p \in Thread \cup {None}, OwnerSchedule(k, cb, p)
      PROVE  TypeOK'
  BY <1>1, <1>2 DEF OwnerSchedule, ScheduleNew, State
<1>3. ASSUME start PROVE TypeOK'
  <2>1. m_stopping' \in BOOLEAN /\ m_auto_stop' \in BOOLEAN
    BY Zenon, <1>3 DEF start
  <2>2. idle_term' \in [Thread -> BOOLEAN]
    BY Zenon, <1>3 DEF start
  <2>3. pc' \in [Thread -> PC] /\ owner' \in Owner
    BY Zenon, <1>3 DEF start, PC, Owner
  <2>4. starts' \in Nat /\ UNCHANGED <<m_fibers, m_active_thread_count, m_idle_thread_count,
                                       state, ft, waiting, yields, failed>>
    BY SMTT(30), <1>3 DEF start
  <2> QED
    BY Zenon, <2>1, <2>2, <2>3, <2>4
<1>4. ASSUME CoreStop PROVE TypeOK'
  <2>1. CASE \E d \in BOOLEAN : StopBegin(d)
    BY Zenon, <2>1 DEF StopBegin, Owner
  <2>2. CASE StopFlag
    BY Zenon, <2>2 DEF StopFlag, Owner
  <2>3. CASE \E d \in BOOLEAN : StopRoot(d)
    <3>1. owner' \in {owner, "join", "incall"}
      BY Zenon, <2>3 DEF StopRoot
    <3>2. pc' = pc \/ pc' = [pc EXCEPT ![Root] = "scan"]
      BY Zenon, <2>3 DEF StopRoot
    <3>3. failed' = failed \/ failed' = {"never_reach"}
      BY Zenon, <2>3 DEF StopRoot
    <3>4. owner' \in Owner
      BY Zenon, <3>1 DEF Owner
    <3>5. pc' \in [Thread -> PC]
      BY Zenon, <3>2 DEF PC
    <3>6. failed' \subseteq Assertion
      BY Zenon, <3>3 DEF Assertion
    <3> QED
      BY <2>3, <3>4, <3>5, <3>6 DEF StopRoot
  <2>4. CASE StopJoin
    BY Zenon, <2>4 DEF StopJoin, Owner
  <2> QED
    BY Zenon, <1>4, <2>1, <2>2, <2>3, <2>4 DEF CoreStop
<1>5. ASSUME NEW t \in Thread, CoreRun(t, pins) PROVE TypeOK'
  <2>1. CASE Take(t)
    <3> PICK i \in DOMAIN m_fibers :
          ft' = [ft EXCEPT ![t] = m_fibers[i]] /\ m_fibers' = erase(m_fibers, i)
      BY Zenon, <2>1 DEF Take
    <3>1. m_fibers[i] \in Entry
      BY SMTT(30)
    <3>2. m_fibers \in Seq(Entry) /\ i \in 1..Len(m_fibers)
      BY SMTT(30)
    <3>3. m_fibers' \in Seq(Entry)
      BY Zenon, <3>2, EraseProperties
    <3> QED
      BY SMTT(30), <2>1, <3>1, <3>3 DEF Take, PC
  <2>2. CASE TakeNothing(t)
    <3>1. m_idle_thread_count' \in Int /\ pc' \in [Thread -> PC]
      <4>1. CASE idle_term[t]
        BY <2>2, <4>1 DEF TakeNothing, PC
      <4>2. CASE ~idle_term[t]
        BY SMTT(30), <2>2, <4>2 DEF TakeNothing, PC
      <4> QED
        BY Zenon, <4>1, <4>2
    <3> QED
      BY Zenon, <2>2, <3>1 DEF TakeNothing
  <2>3. CASE DropFinished(t)
    BY SMTT(30), <2>3 DEF DropFinished, PC
  <2>4. CASE swapIn(t)
    <3>1. ft[t].task \in Task
      BY Zenon, <2>4 DEF swapIn, HandType, Active
    <3>2. CASE state[ft[t].task] = "EXEC"
      BY Zenon, <2>4, <3>2 DEF swapIn, Assertion
    <3>3. CASE state[ft[t].task] # "EXEC"
      <4>0. /\ state' = [state EXCEPT ![ft[t].task] = "EXEC"]
            /\ pc' = [pc EXCEPT ![t] = "exec"] /\ failed' = failed
        BY Zenon, <2>4, <3>3 DEF swapIn
      <4>1. state' \in [Task -> State] /\ pc' \in [Thread -> PC]
        BY Zenon, <3>1, <4>0 DEF PC, State
      <4> QED
        BY Zenon, <2>4, <4>0, <4>1 DEF swapIn
    <3> QED
      BY Zenon, <3>2, <3>3
  <2>5. CASE CoreBody(t, pins)
    <3>1. ft[t].task \in Task
      BY Zenon, <2>5 DEF CoreBody, TaskSchedule, YieldToReady, YieldToHold, MainFunc, HandType,
         Active
    <3>2. ASSUME NEW k \in Task, NEW cb \in BOOLEAN, NEW p \in pins, TaskSchedule(t, k, cb, p)
          PROVE  TypeOK'
      BY Zenon, <1>1, <3>2 DEF TaskSchedule, ScheduleNew, State
    <3>3. CASE YieldToReady(t)
      BY SMTT(30), <3>1, <3>3 DEF YieldToReady, PC, State
    <3>4. CASE YieldToHold(t)
      BY SMTT(30), <3>1, <3>4 DEF YieldToHold, PC
    <3>5. CASE MainFunc(t)
      BY SMTT(30), <3>1, <3>5 DEF MainFunc, PC, State, Finished
    <3> QED
      BY <2>5, <3>2, <3>3, <3>4, <3>5 DEF CoreBody
  <2>6. CASE swapOut(t)
    BY Zenon, <2>6 DEF swapOut, PC
  <2>7. CASE Uncount(t)
    BY SMTT(30), <2>7 DEF Uncount, PC
  <2>8. CASE Requeue(t)
    <3>0. ft[t].task \in Task
      BY Zenon, <2>8 DEF HandType, Requeue
    <3>1. state' = state \/ state' = [state EXCEPT ![ft[t].task] = "HOLD"]
      BY Zenon, <2>8 DEF Requeue
    <3>2. state' \in [Task -> State]
      BY Zenon, <3>0, <3>1 DEF State
    <3>3. m_fibers' = m_fibers \/ \E cb \in BOOLEAN : scheduleNoLock(ft[t].task, cb, None)
      BY Zenon, <2>8 DEF Requeue
    <3>4. m_fibers' \in Seq(Entry)
      BY Zenon, <3>0, <3>3, <1>1
    <3> QED
      BY Zenon, <2>8, <3>2, <3>4 DEF Requeue, PC
  <2>9. CASE IdleBack(t)
    <3>1. idle_term' \in [Thread -> BOOLEAN]
      BY Zenon, <2>9 DEF IdleBack
    <3> QED
      BY Zenon, <2>9, <3>1 DEF IdleBack, PC
  <2>10. CASE IdleReturn(t)
    BY SMTT(30), <2>10 DEF IdleReturn, PC
  <2> QED
    BY Zenon, <1>5, <2>1, <2>2, <2>3, <2>4, <2>5, <2>6, <2>7, <2>8, <2>9, <2>10 DEF CoreRun
<1>6. ASSUME NEW k \in Task, Wake(k) PROVE TypeOK'
  BY Zenon, <1>1, <1>6 DEF Wake
<1>7. CASE UNCHANGED vars
  BY Zenon, <1>7 DEF vars
<1> QED
  BY SMTT(30), <1>2, <1>3, <1>4, <1>5, <1>6, <1>7 DEF Core

\* A step that moves threads outside of Take ... Requeue only.
LEMMA QuietStep ==
  ASSUME IInv, TypeOK', OwnerInv', UNCHANGED <<m_fibers, state, ft, waiting>>,
         "assert_not_EXEC" \notin failed',
         \A t \in Thread :
           \/ pc'[t] = pc[t]
           \/ pc[t] \notin Active \cup {"post"} /\ pc'[t] \notin Active \cup {"post"}
  PROVE  IInv'
<1>a. /\ DistinctTasks(m_fibers) /\ HandInv /\ OneHolder
      /\ WakeInv /\ QueueInv /\ PlaceInv
  BY Zenon DEF IInv
<1> USE <1>a
<1>1. DistinctTasks(m_fibers)' /\ QueueInv'
  BY Zenon DEF DistinctTasks, QueueInv
<1>2. HandInv' /\ OneHolder'
  BY Zenon DEF HandInv, OneHolder, Active
<1>3. \A t \in Thread : Parking(t)' <=> Parking(t)
  BY Zenon DEF Parking, Active
<1>4. WakeInv' /\ PlaceInv'
  BY Zenon, <1>3 DEF WakeInv, PlaceInv, Holds, Queued
<1> QED
  BY Zenon, <1>1, <1>2, <1>4 DEF IInv

\* schedule() of a task that is neither queued nor with a waker, and that no
\* thread holds unless it is parking it.
LEMMA PushStep ==
  ASSUME IInv, TypeOK', OwnerInv', UNCHANGED <<ft, pc>>, failed' = failed,
         NEW k \in Task, NEW cb \in BOOLEAN, NEW p \in Thread \cup {None},
         scheduleNoLock(k, cb, p), ~Queued(k),
         waiting' = waiting \ {k},
         \A j \in Task \ {k} : state'[j] = state[j],
         \/ k \in waiting /\ state' = state /\ ~cb
         \/ /\ state[k] = "NEW" /\ \A t \in Thread : ft[t].task # k
            /\ state'[k] = IF cb THEN "CB" ELSE "INIT"
  PROVE  IInv'
<1>a. /\ TypeOK /\ DistinctTasks(m_fibers) /\ HandInv /\ OneHolder
      /\ WakeInv /\ QueueInv /\ PlaceInv /\ OwnerInv /\ "assert_not_EXEC" \notin failed
  BY Zenon DEF IInv
<1>b. /\ m_fibers \in Seq(Entry) /\ state \in [Task -> State]
      /\ pc \in [Thread -> PC] /\ ft \in [Thread -> Entry \cup {NoEntry}]
  BY Zenon, <1>a DEF TypeOK
<1> USE <1>a, <1>b, NoEntryProperties
<1> DEFINE e == [task |-> k, cb |-> cb, thread |-> p]
<1>1. e \in Entry /\ e.task = k /\ e.cb = cb
  BY Zenon, EntryProperties
<1> HIDE DEF e
<1>2. \A d \in Range(m_fibers) : d.task # k
  BY Zenon DEF Queued
<1>3. Range(m_fibers') = Range(m_fibers) \cup {e} /\ DistinctTasks(m_fibers')
  BY Zenon, <1>1, <1>2, AppendQueue DEF scheduleNoLock, e
<1>4. \A j \in Task : Queued(j)' <=> Queued(j) \/ j = k
  BY Zenon, <1>1, <1>3 DEF Queued
<1>5. \A t \in Thread : ft[t].task # k => state'[ft[t].task] = state[ft[t].task] \/ ft[t] = NoEntry
  BY Zenon
<1>6. HandInv'
  BY SMTT(30), <1>5 DEF HandInv, Active
<1>7. OneHolder'
  BY Zenon DEF OneHolder
<1>8. QueueInv'
  <2> SUFFICES ASSUME NEW d \in Range(m_fibers)'
               PROVE  state'[d.task] \in IF d.cb THEN {"CB"} ELSE {"INIT", "HOLD", "READY", "EXEC"}
    BY Zenon DEF QueueInv
  <2>1. CASE d = e
    BY Zenon, <2>1, <1>1 DEF PlaceInv
  <2>2. CASE d \in Range(m_fibers)
    <3>1. d \in Entry
      BY SMTT(30), <2>2 DEF Range
    <3> QED
      BY Zenon, <2>2, <3>1, <1>2 DEF QueueInv
  <2> QED
    BY Zenon, <2>1, <2>2, <1>3
<1>9. \A t \in Thread, j \in Task : Holds(t, j) => (Parking(t)' <=> Parking(t))
  BY Zenon DEF Holds, Parking
<1>10. WakeInv'
  BY Zenon, <1>4, <1>9 DEF WakeInv, Holds
<1>11. PlaceInv'
  BY Zenon, <1>4, <1>9 DEF PlaceInv, Holds
<1> QED
  BY Zenon, <1>3, <1>6, <1>7, <1>8, <1>10, <1>11 DEF IInv

LEMMA TakeStep ==
  ASSUME IInv, TypeOK', OwnerInv', NEW t \in Thread, Take(t)
  PROVE  IInv'
<1>a. /\ TypeOK /\ DistinctTasks(m_fibers) /\ HandInv /\ OneHolder
      /\ WakeInv /\ QueueInv /\ PlaceInv /\ OwnerInv /\ "assert_not_EXEC" \notin failed
  BY Zenon DEF IInv
<1>b. /\ m_fibers \in Seq(Entry) /\ state \in [Task -> State]
      /\ pc \in [Thread -> PC] /\ ft \in [Thread -> Entry \cup {NoEntry}]
  BY Zenon, <1>a DEF TypeOK
<1> USE <1>a, <1>b, NoEntryProperties
<1> PICK i \in DOMAIN m_fibers :
      /\ Takeable(t, m_fibers[i])
      /\ ft' = [ft EXCEPT ![t] = m_fibers[i]]
      /\ m_fibers' = erase(m_fibers, i)
  BY Zenon DEF Take
<1> DEFINE e == m_fibers[i]
           k == e.task
<1>1. e \in Entry /\ k \in Task /\ e \in Range(m_fibers)
  BY SMTT(30) DEF Range
<1>2. Range(m_fibers') = {d \in Range(m_fibers) : d.task # k} /\ DistinctTasks(m_fibers')
  BY Zenon, EraseQueue
<1>3. Queued(k) /\ k \notin waiting
  BY Zenon, <1>1 DEF Queued, WakeInv
<1>4. state[k] \in IF e.cb THEN {"CB"} ELSE {"INIT", "HOLD", "READY"}
  BY Zenon, <1>1 DEF QueueInv, Takeable
<1>5. \A u \in Thread : ft[u].task # k
  <2>1. state[k] # "EXEC"
    BY Zenon, <1>4
  <2> QED
    BY SMTT(30), <2>1, <1>1, <1>3 DEF WakeInv, Holds, Parking
<1>6. ft[t] = NoEntry /\ pc[t] = "scan"
  BY Zenon DEF Take, HandInv, Active
<1>7. UNCHANGED <<state, waiting, failed>> /\ pc' = [pc EXCEPT ![t] = "dispatch"]
  BY Zenon DEF Take
<1>8. ft'[t] = e /\ \A u \in Thread \ {t} : ft'[u] = ft[u]
  BY Zenon
<1> HIDE DEF e, k
<1>9. \A j \in Task : Queued(j)' <=> Queued(j) /\ j # k
  BY Zenon, <1>2 DEF Queued
<1>10. \A u \in Thread : Parking(u)' <=> Parking(u)
  BY Zenon, <1>4, <1>6, <1>7, <1>8 DEF Parking, k
<1>11. HandInv'
  BY SMTT(30), <1>1, <1>4, <1>7, <1>8 DEF HandInv, Active, k
<1>12. OneHolder'
  BY Zenon, <1>1, <1>5, <1>8 DEF OneHolder, k
<1>13. QueueInv'
  BY Zenon, <1>2, <1>7 DEF QueueInv
<1>14. WakeInv'
  BY Zenon, <1>7, <1>8, <1>9, <1>10, <1>3 DEF WakeInv, Holds, k
<1>15. PlaceInv'
  <2>1. \A j \in Task : (\E u \in Thread : Holds(u, j)) => \E u \in Thread : Holds(u, j)'
    BY Zenon, <1>6, <1>8 DEF Holds
  <2>2. \A j \in Task : j = k => Holds(t, j)'
    BY Zenon, <1>8 DEF Holds, k
  <2>3. ~Parking(t)'
    BY Zenon, <1>7 DEF Parking
  <2>4. \A u \in Thread \ {t}, j \in Task : Holds(u, j)' <=> Holds(u, j)
    BY Zenon, <1>8 DEF Holds
  <2>5. \A u \in Thread, j \in Task : Holds(u, j)' /\ Parking(u)' => Queued(j)' \/ j \in waiting'
    BY SMTT(30), <2>3, <2>4, <1>5, <1>7, <1>9, <1>10 DEF PlaceInv, Holds
  <2> QED
    BY Zenon, <2>1, <2>2, <2>5, <1>7, <1>9 DEF PlaceInv
<1> QED
  BY Zenon, <1>2, <1>7, <1>11, <1>12, <1>13, <1>14, <1>15 DEF IInv

\* The running fiber changes its state, the holder moves on, nobody else is
\* concerned: swapIn, YieldToReady and the end of MainFunc.
LEMMA RunStep ==
  ASSUME IInv, TypeOK', OwnerInv', UNCHANGED <<m_fibers, ft, waiting>>, failed' = failed,
         NEW t \in Thread, pc[t] \in {"dispatch", "exec"},
         NEW x \in {"exec", "leave"}, pc' = [pc EXCEPT ![t] = x],
         NEW s \in State, state' = [state EXCEPT ![ft[t].task] = s],
         IF x = "exec" THEN s = "EXEC" ELSE s \in Finished \cup {"READY"}
  PROVE  IInv'
<1>a. /\ TypeOK /\ DistinctTasks(m_fibers) /\ HandInv /\ OneHolder
      /\ WakeInv /\ QueueInv /\ PlaceInv /\ OwnerInv /\ "assert_not_EXEC" \notin failed
  BY Zenon DEF IInv
<1>b. /\ m_fibers \in Seq(Entry) /\ state \in [Task -> State]
      /\ pc \in [Thread -> PC] /\ ft \in [Thread -> Entry \cup {NoEntry}]
  BY Zenon, <1>a DEF TypeOK
<1> USE <1>a, <1>b, NoEntryProperties
<1> DEFINE k == ft[t].task
<1>1. ft[t] \in Entry /\ k \in Task
  BY Zenon DEF HandInv, Active
<1>2. ~Queued(k) /\ k \notin waiting
  BY Zenon, <1>1 DEF WakeInv, Holds, Parking
<1>3. \A u \in Thread \ {t} : ft[u].task # k
  BY Zenon, <1>1 DEF OneHolder
<1>4. \A u \in Thread \ {t} : ft[u] \in Entry => state'[ft[u].task] = state[ft[u].task]
  BY Zenon, <1>1, <1>3
<1>5. state'[k] = s /\ \A j \in Task \ {k} : state'[j] = state[j]
  BY Zenon, <1>1
<1> HIDE DEF k
<1>6. DistinctTasks(m_fibers)' /\ OneHolder'
  BY Zenon DEF DistinctTasks, OneHolder
<1>7. HandInv'
  BY SMTT(30), <1>1, <1>4, <1>5 DEF HandInv, Active, k
<1>8. QueueInv'
  <2>1. \A d \in Range(m_fibers) : d \in Entry /\ d.task # k
    BY SMTT(30), <1>2 DEF Range, Queued
  <2> QED
    BY Zenon, <2>1, <1>5 DEF QueueInv
<1>9. \A u \in Thread, j \in Task : Holds(u, j)' <=> Holds(u, j)
  BY Zenon DEF Holds
<1>10. \A j \in Task : Queued(j)' <=> Queued(j)
  BY Zenon DEF Queued
<1>11. ~Parking(t)' /\ ~Parking(t)
  BY Zenon DEF Parking
<1>12. \A u \in Thread, j \in Task : Holds(u, j) => (Parking(u)' <=> Parking(u))
  BY SMTT(30), <1>11, <1>4, <1>1 DEF Parking, Holds, HandInv
<1>13. WakeInv'
  BY Zenon, <1>9, <1>10, <1>12 DEF WakeInv
<1>14. PlaceInv'
  <2>1. Holds(t, k)
    BY Zenon DEF Holds, k
  <2> QED
    BY SMTT(30), <2>1, <1>2, <1>5, <1>9, <1>10, <1>12 DEF PlaceInv
<1> QED
  BY Zenon, <1>6, <1>7, <1>8, <1>13, <1>14 DEF IInv

\* A fiber hands itself to a waker while it is still executing.
LEMMA YieldToHoldStep ==
  ASSUME IInv, TypeOK', OwnerInv', NEW t \in Thread, YieldToHold(t)
  PROVE  IInv'
<1>a. /\ TypeOK /\ DistinctTasks(m_fibers) /\ HandInv /\ OneHolder
      /\ WakeInv /\ QueueInv /\ PlaceInv /\ OwnerInv /\ "assert_not_EXEC" \notin failed
  BY DEF IInv
<1>b. /\ m_fibers \in Seq(Entry) /\ state \in [Task -> State]
      /\ pc \in [Thread -> PC] /\ ft \in [Thread -> Entry \cup {NoEntry}]
  BY <1>a DEF TypeOK
<1> USE <1>a, <1>b, NoEntryProperties
<1>1. /\ pc[t] = "exec"
      /\ pc' = [pc EXCEPT ![t] = "wait"]
      /\ waiting' = waiting \cup {ft[t].task}
      /\ UNCHANGED <<m_fibers, state, ft, failed>>
  BY Zenon DEF YieldToHold
<1>2. ft[t] \in Entry /\ ft[t].task \in Task /\ state[ft[t].task] = "EXEC"
  BY Zenon, <1>1 DEF HandInv, Active
<1>3. ~Queued(ft[t].task) /\ ft[t].task \notin waiting
  BY Zenon, <1>1, <1>2 DEF WakeInv, Holds, Parking
<1>4. \A u \in Thread \ {t} : ft[u].task # ft[t].task
  BY Zenon, <1>2 DEF OneHolder
<1>5. DistinctTasks(m_fibers)' /\ OneHolder' /\ QueueInv'
  BY Zenon, <1>1 DEF DistinctTasks, OneHolder, QueueInv
<1>6. HandInv'
  BY SMTT(30), <1>1, <1>2 DEF HandInv, Active
<1>7. \A u \in Thread, j \in Task : Holds(u, j)' <=> Holds(u, j)
  BY Zenon, <1>1 DEF Holds
<1>8. \A j \in Task : Queued(j)' <=> Queued(j)
  BY Zenon, <1>1 DEF Queued
<1>9. Parking(t)' /\ \A u \in Thread \ {t} : Parking(u)' <=> Parking(u)
  BY Zenon, <1>1, <1>2 DEF Parking
<1>10. WakeInv'
  BY <1>1, <1>3, <1>4, <1>7, <1>8, <1>9 DEF WakeInv, Holds
<1>11. PlaceInv'
  BY <1>1, <1>2, <1>7, <1>8, <1>9 DEF PlaceInv, Holds
<1> QED
  BY Zenon, <1>1, <1>5, <1>6, <1>10, <1>11 DEF IInv

\* swapOut() and the decrement of m_active_thread_count_.
LEMMA LeaveStep ==
  ASSUME IInv, TypeOK', OwnerInv', NEW t \in Thread, swapOut(t) \/ Uncount(t)
  PROVE  IInv'
<1>a. /\ TypeOK /\ DistinctTasks(m_fibers) /\ HandInv /\ OneHolder
      /\ WakeInv /\ QueueInv /\ PlaceInv /\ OwnerInv /\ "assert_not_EXEC" \notin failed
  BY Zenon DEF IInv
<1>b. /\ m_fibers \in Seq(Entry) /\ state \in [Task -> State]
      /\ pc \in [Thread -> PC] /\ ft \in [Thread -> Entry \cup {NoEntry}]
  BY Zenon, <1>a DEF TypeOK
<1> USE <1>a, <1>b, NoEntryProperties
<1>1. /\ \/ pc[t] \in {"wait", "leave"} /\ pc' = [pc EXCEPT ![t] = "ret"]
         \/ pc[t] = "ret" /\ pc' = [pc EXCEPT ![t] = "post"]
      /\ UNCHANGED <<m_fibers, state, ft, waiting, failed>>
  BY Zenon DEF swapOut, Uncount
<1>2. DistinctTasks(m_fibers)' /\ OneHolder' /\ QueueInv'
  BY Zenon, <1>1 DEF DistinctTasks, OneHolder, QueueInv
<1>3. HandInv'
  BY SMTT(30), <1>1 DEF HandInv, Active
<1>4. \A u \in Thread : Parking(u)' <=> Parking(u)
  <2>1. \A u \in Thread \ {t} : Parking(u)' <=> Parking(u)
    BY Zenon, <1>1 DEF Parking
  <2>2. pc[t] = "leave" => state[ft[t].task] # "EXEC"
    BY Zenon DEF HandInv, Finished
  <2>3. Parking(t)' <=> Parking(t)
    BY Zenon, <1>1, <2>2 DEF Parking
  <2> QED
    BY Zenon, <2>1, <2>3
<1>5. WakeInv' /\ PlaceInv'
  BY Zenon, <1>1, <1>4 DEF WakeInv, PlaceInv, Queued, Holds
<1> QED
  BY Zenon, <1>1, <1>2, <1>3, <1>5 DEF IInv

\* run() gives the entry back: it queues the fiber, forgets it or holds it.
LEMMA RequeueStep ==
  ASSUME IInv, TypeOK', OwnerInv', NEW t \in Thread, Requeue(t)
  PROVE  IInv'
<1>a. /\ TypeOK /\ DistinctTasks(m_fibers) /\ HandInv /\ OneHolder
      /\ WakeInv /\ QueueInv /\ PlaceInv /\ OwnerInv /\ "assert_not_EXEC" \notin failed
  BY DEF IInv
<1>b. /\ m_fibers \in Seq(Entry) /\ state \in [Task -> State]
      /\ pc \in [Thread -> PC] /\ ft \in [Thread -> Entry \cup {NoEntry}]
  BY <1>a DEF TypeOK
<1> USE <1>a, <1>b, NoEntryProperties
<1> PICK k \in Task : k = ft[t].task
  BY Zenon DEF Requeue, HandInv
<1>1. /\ pc[t] = "post" /\ pc' = [pc EXCEPT ![t] = "scan"]
      /\ ft' = [ft EXCEPT ![t] = NoEntry]
      /\ UNCHANGED <<waiting, failed>>
  BY Zenon DEF Requeue
<1>2. \A u \in Thread \ {t} : ft[u].task # k /\ ft'[u] = ft[u] /\ pc'[u] = pc[u]
  BY SMTT(30), <1>1 DEF OneHolder, HandInv
<1>3. ft[t] \in Entry /\ ft'[t] = NoEntry /\ pc'[t] = "scan"
  BY Zenon, <1>1 DEF HandInv
<1>4. OneHolder'
  <2> SUFFICES ASSUME NEW u \in Thread, NEW v \in Thread,
                      ft'[u] # NoEntry, ft'[u].task = ft'[v].task
               PROVE  u = v
    BY Zenon DEF OneHolder
  <2>1. u # t /\ ft[u] \in Entry
    BY Zenon, <1>2, <1>3
  <2>2. v # t
    BY Zenon, <1>2, <1>3, <2>1
  <2> QED
    BY Zenon, <1>2, <2>1, <2>2 DEF OneHolder
<1>5. \A j \in Task : ~Holds(t, j)' /\ \A u \in Thread \ {t} : Holds(u, j)' <=> Holds(u, j)
  BY Zenon, <1>2, <1>3 DEF Holds
<1>6. \A u \in Thread \ {t} : ft[u] \in Entry => ft[u].task \in Task \ {k}
  BY Zenon, <1>2
<1>7. ASSUME \A j \in Task \ {k} : state'[j] = state[j]
      PROVE  HandInv'
  <2>1. \A u \in Thread \ {t} : ft[u] \in Entry => state'[ft[u].task] = state[ft[u].task]
    BY Zenon, <1>6, <1>7
  <2> SUFFICES ASSUME NEW u \in Thread
               PROVE  (/\ pc[u] \in Active \cup {"post"} => ft[u] \in Entry
                       /\ pc[u] \notin Active \cup {"post"} => ft[u] = NoEntry
                       /\ pc[u] = "dispatch" =>
                            state[ft[u].task] \in IF ft[u].cb THEN {"CB"} ELSE {"INIT", "HOLD", "READY"}
                       /\ pc[u] \in {"exec", "wait"} => state[ft[u].task] = "EXEC"
                       /\ pc[u] = "leave" => state[ft[u].task] \in Finished \cup {"READY"}
                       /\ pc[u] \in {"ret", "post"} => state[ft[u].task] \in Finished \cup {"READY", "EXEC"})'
    BY Zenon DEF HandInv
  <2>2. CASE u = t
    BY Zenon, <2>2, <1>3 DEF Active
  <2>3. CASE u # t
    BY SMTT(30), <2>1, <2>3, <1>2 DEF HandInv, Active
  <2> QED
    BY Zenon, <2>2, <2>3
<1>r. CASE state[k] = "READY" /\ scheduleNoLock(k, FALSE, None) /\ UNCHANGED state
  <2> DEFINE e == [task |-> k, cb |-> FALSE, thread |-> None]
  <2>1. e \in Entry /\ e.task = k /\ ~e.cb
    BY Zenon DEF Entry
  <2>2. ~Queued(k) /\ k \notin waiting
    BY Zenon, <1>r DEF WakeInv, Holds, Parking
  <2>3. Range(m_fibers') = Range(m_fibers) \cup {e} /\ DistinctTasks(m_fibers')
    BY Zenon, <1>r, <2>1, <2>2, AppendQueue DEF scheduleNoLock, Queued
  <2> HIDE DEF e
  <2>4. \A j \in Task : Queued(j)' <=> Queued(j) \/ j = k
    BY Zenon, <2>1, <2>3 DEF Queued
  <2>5. HandInv'
    BY Zenon, <1>7, <1>r
  <2>6. QueueInv'
    BY Zenon, <1>r, <2>1, <2>3 DEF QueueInv
  <2>7. \A u \in Thread : Parking(u)' => Parking(u) /\ u # t
    BY Zenon, <1>r, <1>2, <1>3 DEF Parking
  <2>7a. \A u \in Thread \ {t} : Parking(u) => Parking(u)'
    BY Zenon, <1>r, <1>2 DEF Parking
  <2>8. WakeInv'
    BY <1>1, <1>2, <1>5, <2>2, <2>4, <2>7a DEF WakeInv, Holds
  <2>9. PlaceInv'
    BY SMTT(30), <1>1, <1>5, <1>r, <2>4, <2>7 DEF PlaceInv, Holds
  <2> QED
    BY Zenon, <1>1, <1>4, <2>3, <2>5, <2>6, <2>8, <2>9 DEF IInv
<1>f. CASE state[k] \in Finished /\ UNCHANGED <<m_fibers, state>>
  <2>1. DistinctTasks(m_fibers)' /\ QueueInv'
    BY Zenon, <1>f DEF DistinctTasks, QueueInv
  <2>2. HandInv'
    BY Zenon, <1>7, <1>f
  <2>3. \A j \in Task : Queued(j)' <=> Queued(j)
    BY Zenon, <1>f DEF Queued
  <2>4. \A u \in Thread \ {t} : Parking(u)' <=> Parking(u)
    BY Zenon, <1>f, <1>2 DEF Parking
  <2>5. ~Parking(t)'
    BY Zenon, <1>3 DEF Parking
  <2>6. WakeInv'
    BY Zenon, <1>1, <1>5, <2>3, <2>4 DEF WakeInv
  <2>7. PlaceInv'
    BY SMTT(30), <1>1, <1>5, <1>f, <2>3, <2>4, <2>5 DEF PlaceInv, Holds, Finished
  <2> QED
    BY Zenon, <1>1, <1>4, <2>1, <2>2, <2>6, <2>7 DEF IInv
<1>h. CASE /\ state[k] \notin Finished \cup {"READY"}
           /\ state' = [state EXCEPT ![k] = "HOLD"]
           /\ UNCHANGED m_fibers
  <2>1. state[k] = "EXEC" /\ state'[k] = "HOLD" /\ \A j \in Task \ {k} : state'[j] = state[j]
    BY <1>1, <1>h DEF HandInv
  <2>2. Queued(k) \/ k \in waiting
    BY Zenon, <1>1, <2>1 DEF PlaceInv, Holds, Parking
  <2>3. DistinctTasks(m_fibers)'
    BY Zenon, <1>h DEF DistinctTasks
  <2>4. QueueInv'
    <3>1. \A d \in Range(m_fibers) : d \in Entry
      BY SMTT(30) DEF Range
    <3> QED
      BY Zenon, <3>1, <1>h, <2>1 DEF QueueInv
  <2>5. HandInv'
    BY Zenon, <1>7, <2>1
  <2>6. \A j \in Task : Queued(j)' <=> Queued(j)
    BY Zenon, <1>h DEF Queued
  <2>7. ASSUME NEW u \in Thread \ {t}, NEW j \in Task, Holds(u, j)
        PROVE  Parking(u)' <=> Parking(u)
    <3>1. j # k /\ ft[u].task = j
      BY Zenon, <1>2, <2>7 DEF Holds
    <3> QED
      BY Zenon, <1>2, <2>1, <3>1 DEF Parking
  <2>8. WakeInv'
    BY Zenon, <1>1, <1>5, <2>6, <2>7 DEF WakeInv
  <2>9. PlaceInv'
    <3>1. Holds(t, k) /\ \A j \in Task \ {k} : ~Holds(t, j)
      BY Zenon DEF Holds
    <3>2. \A j \in Task : (\E u \in Thread : Holds(u, j)) => j = k \/ \E u \in Thread : Holds(u, j)'
      BY Zenon, <1>5, <3>1
    <3>3. \A u \in Thread, j \in Task : Holds(u, j)' /\ Parking(u)' => Queued(j)' \/ j \in waiting'
      BY Zenon, <1>1, <1>5, <2>6, <2>7 DEF PlaceInv
    <3> QED
      BY Zenon, <1>1, <2>1, <2>2, <2>6, <3>2, <3>3 DEF PlaceInv
  <2> QED
    BY Zenon, <1>1, <1>4, <2>3, <2>4, <2>5, <2>8, <2>9 DEF IInv
<1> QED
  BY Zenon, <1>r, <1>f, <1>h DEF Requeue

\* No thread but those the owner let in is in run().
LEMMA OwnerKept ==
  ASSUME IInv, NEW pins \in SUBSET (Thread \cup {None}), [Core(pins)]_vars
  PROVE  OwnerInv'
<1>a. OwnerInv /\ pc \in [Thread -> PC] /\ owner \in Owner
  BY Zenon DEF IInv, TypeOK
<1> USE <1>a, SchedulerAssumption
<1>1. ASSUME NEW k \in Task, NEW cb \in BOOLEAN, NEW p \in Thread \cup {None}, OwnerSchedule(k, cb, p)
      PROVE  OwnerInv'
  BY Zenon, <1>1 DEF OwnerSchedule, OwnerInv
<1>2. ASSUME start PROVE OwnerInv'
  <2>1. owner' = "started" /\ (UseCaller => Root \in Thread /\ pc'[Root] = pc[Root])
    BY Zenon, <1>2 DEF start, Thread
  <2> QED
    BY Zenon, <1>2, <2>1 DEF OwnerInv, start
<1>3. ASSUME CoreStop PROVE OwnerInv'
  <2>1. CASE \E d \in BOOLEAN : StopBegin(d)
    BY Zenon, <2>1 DEF StopBegin, OwnerInv
  <2>2. CASE StopFlag
    BY Zenon, <2>2 DEF StopFlag, OwnerInv
  <2>3. CASE \E d \in BOOLEAN : StopRoot(d)
    BY Zenon, <2>3 DEF StopRoot, OwnerInv
  <2>4. CASE StopJoin
    BY Zenon, <2>4 DEF StopJoin, OwnerInv
  <2> QED
    BY Zenon, <1>3, <2>1, <2>2, <2>3, <2>4 DEF CoreStop
<1>4. ASSUME NEW t \in Thread, CoreRun(t, pins) PROVE OwnerInv'
  <2>1. pc[t] \notin {"off", "exit"}
    BY Zenon, <1>4 DEF CoreRun, CoreBody, Take, TakeNothing, DropFinished, swapIn, TaskSchedule,
       YieldToReady, YieldToHold, MainFunc, swapOut, Uncount, Requeue, IdleBack, IdleReturn
  <2>2. owner' = owner /\ \A u \in Thread \ {t} : pc'[u] = pc[u]
    BY Zenon, <1>4 DEF CoreRun, CoreBody, Take, TakeNothing, DropFinished, swapIn, TaskSchedule,
       YieldToReady, YieldToHold, MainFunc, swapOut, Uncount, Requeue, IdleBack, IdleReturn
  <2>3. owner # "new"
    BY Zenon, <2>1 DEF OwnerInv
  <2>4. owner = "stopped" => t \notin Worker
    BY Zenon, <2>1 DEF OwnerInv
  <2>5. UseCaller /\ owner # "incall" => t # Root
    BY Zenon, <2>1 DEF OwnerInv
  <2> QED
    BY Zenon, <2>2, <2>3, <2>4, <2>5 DEF OwnerInv, Thread
<1>5. ASSUME NEW k \in Task, Wake(k) PROVE OwnerInv'
  BY Zenon, <1>5 DEF Wake, OwnerInv
<1>6. CASE UNCHANGED vars
  BY Zenon, <1>6 DEF vars, OwnerInv
<1> QED
  BY Zenon, <1>1, <1>2, <1>3, <1>4, <1>5, <1>6 DEF Core

\* A task nobody has scheduled is in no queue and in nobody's hand.
LEMMA NewIsFree ==
  ASSUME IInv, NEW k \in Task, state[k] = "NEW"
  PROVE  ~Queued(k) /\ k \notin waiting /\ \A t \in Thread : ft[t].task # k
<1>1. k \notin waiting
  BY Zenon DEF IInv, PlaceInv
<1>2. ~Queued(k)
  BY Zenon DEF IInv, QueueInv, Queued
<1>3. ASSUME NEW t \in Thread, ft[t].task = k PROVE FALSE
  <2>1. ft[t] # NoEntry
    BY Zenon, <1>3, NoEntryProperties
  <2> QED
    BY Zenon, <2>1, <1>3 DEF IInv, TypeOK, HandInv, Active, Finished, PC
<1> QED
  BY Zenon, <1>1, <1>2, <1>3

LEMMA CoreIInv ==
  ASSUME IInv, NEW pins \in SUBSET (Thread \cup {None}), [Core(pins)]_vars
  PROVE  IInv'
<1>0. TypeOK' /\ OwnerInv'
  BY Zenon, TypeStep, OwnerKept DEF IInv, HandInv, HandType
<1>a. /\ TypeOK /\ DistinctTasks(m_fibers) /\ HandInv /\ OneHolder
      /\ WakeInv /\ QueueInv /\ PlaceInv /\ OwnerInv /\ "assert_not_EXEC" \notin failed
  BY Zenon DEF IInv
<1>b. /\ m_fibers \in Seq(Entry) /\ state \in [Task -> State]
      /\ pc \in [Thread -> PC] /\ ft \in [Thread -> Entry \cup {NoEntry}]
      /\ waiting \subseteq Task
  BY Zenon, <1>a DEF TypeOK
<1> USE <1>a, <1>b
<1>n. ASSUME NEW k \in Task, state[k] = "NEW"
      PROVE  ~Queued(k) /\ k \notin waiting /\ \A t \in Thread : ft[t].task # k
  BY Zenon, <1>n, NewIsFree
<1>1. ASSUME NEW k \in Task, NEW cb \in BOOLEAN, NEW p \in Thread \cup {None}, OwnerSchedule(k, cb, p)
      PROVE  IInv'
  <2>1. /\ state[k] = "NEW" /\ scheduleNoLock(k, cb, p)
        /\ state' = [state EXCEPT ![k] = IF cb THEN "CB" ELSE "INIT"]
        /\ UNCHANGED <<ft, pc, waiting, failed>>
    BY Zenon, <1>1 DEF OwnerSchedule, ScheduleNew
  <2>2. /\ waiting' = waiting \ {k} /\ p \in Thread \cup {None}
        /\ state'[k] = (IF cb THEN "CB" ELSE "INIT")
        /\ \A j \in Task \ {k} : state'[j] = state[j]
    BY Zenon, <2>1, <1>n
  <2> QED
    BY SMTT(30), <1>0, <2>1, <2>2, <1>n, PushStep
<1>2. ASSUME start PROVE IInv'
  <2>1. UNCHANGED <<m_fibers, state, ft, waiting, failed>>
    BY Zenon, <1>2 DEF start
  <2>2. ASSUME NEW t \in Thread
        PROVE  \/ pc'[t] = pc[t]
               \/ pc[t] \notin Active \cup {"post"} /\ pc'[t] \notin Active \cup {"post"}
    <3>1. CASE t \in Worker
      BY Zenon, <3>1, <1>2 DEF start, OwnerInv, Active
    <3>2. CASE t \notin Worker
      BY Zenon, <3>2, <1>2 DEF start
    <3> QED
      BY Zenon, <3>1, <3>2
  <2> QED
    BY Zenon, <1>0, <2>1, <2>2, QuietStep
<1>3. ASSUME CoreStop PROVE IInv'
  <2>1. UNCHANGED <<m_fibers, state, ft, waiting>>
    BY Zenon, <1>3 DEF CoreStop, StopBegin, StopFlag, StopRoot, StopJoin
  <2>2. failed' = failed \/ failed' = {"never_reach"}
    BY Zenon, <1>3 DEF CoreStop, StopBegin, StopFlag, StopRoot, StopJoin
  <2>3. ASSUME NEW t \in Thread
        PROVE  \/ pc'[t] = pc[t]
               \/ pc[t] \notin Active \cup {"post"} /\ pc'[t] \notin Active \cup {"post"}
    <3>1. CASE ~\E d \in BOOLEAN : StopRoot(d)
      BY Zenon, <3>1, <1>3 DEF CoreStop, StopBegin, StopFlag, StopJoin
    <3>2. CASE \E d \in BOOLEAN : StopRoot(d)
      <4>1. owner = "root" /\ (pc' = pc \/ pc' = [pc EXCEPT ![Root] = "scan"])
        BY Zenon, <3>2 DEF StopRoot
      <4>2. t = Root => pc[t] \in {"off", "exit"}
        BY Zenon, <4>1, SchedulerAssumption DEF OwnerInv, Thread
      <4> QED
        BY Zenon, <4>1, <4>2 DEF Active
    <3> QED
      BY Zenon, <3>1, <3>2
  <2> QED
    BY Zenon, <1>0, <2>1, <2>2, <2>3, QuietStep
<1>4. ASSUME NEW t \in Thread, CoreRun(t, pins) PROVE IInv'
  <2>1. CASE Take(t)
    BY Zenon, <1>0, <2>1, TakeStep
  <2>2. CASE TakeNothing(t) \/ IdleBack(t) \/ IdleReturn(t)
    <3>1. UNCHANGED <<m_fibers, state, ft, waiting, failed>>
      BY Zenon, <2>2 DEF TakeNothing, IdleBack, IdleReturn
    <3>2. /\ pc[t] \in {"scan", "idle", "idleret"}
          /\ \E x \in {"scan", "idle", "idleret", "exit"} : pc' = [pc EXCEPT ![t] = x]
      BY Zenon, <2>2 DEF TakeNothing, IdleBack, IdleReturn
    <3>3. \A u \in Thread :
           \/ pc'[u] = pc[u]
           \/ pc[u] \notin Active \cup {"post"} /\ pc'[u] \notin Active \cup {"post"}
      BY Zenon, <3>2 DEF Active
    <3> QED
      BY Zenon, <1>0, <3>1, <3>3, QuietStep
  <2>3. CASE DropFinished(t)
    BY Zenon, <2>3 DEF DropFinished, HandInv, Finished
  <2>4. CASE swapIn(t)
    <3>1. state[ft[t].task] # "EXEC"
      BY Zenon, <2>4 DEF swapIn, HandInv
    <3> QED
      BY Zenon, <1>0, <2>4, <3>1, RunStep DEF swapIn, State
  <2>5. CASE CoreBody(t, pins)
    <3>1. ASSUME NEW k \in Task, NEW cb \in BOOLEAN, NEW p \in pins, TaskSchedule(t, k, cb, p)
          PROVE  IInv'
      <4>1. /\ state[k] = "NEW" /\ scheduleNoLock(k, cb, p)
            /\ state' = [state EXCEPT ![k] = IF cb THEN "CB" ELSE "INIT"]
            /\ UNCHANGED <<ft, pc, waiting, failed>>
        BY Zenon, <3>1 DEF TaskSchedule, ScheduleNew
      <4>2. /\ waiting' = waiting \ {k} /\ p \in Thread \cup {None}
            /\ state'[k] = (IF cb THEN "CB" ELSE "INIT")
            /\ \A j \in Task \ {k} : state'[j] = state[j]
        <5>1. k \notin waiting
          BY Zenon, <4>1, <1>n
        <5> QED
          BY Zenon, <4>1, <5>1
      <4> QED
        BY SMTT(30), <1>0, <4>1, <4>2, <1>n, PushStep
    <3>2. CASE YieldToReady(t)
      BY Zenon, <1>0, <3>2, RunStep DEF YieldToReady, State
    <3>3. CASE YieldToHold(t)
      BY <1>0, <3>3, YieldToHoldStep
    <3>4. CASE MainFunc(t)
      BY Zenon, <1>0, <3>4, RunStep DEF MainFunc, State, Finished
    <3> QED
      BY Zenon, <2>5, <3>1, <3>2, <3>3, <3>4 DEF CoreBody
  <2>6. CASE swapOut(t) \/ Uncount(t)
    BY Zenon, <1>0, <2>6, LeaveStep
  <2>7. CASE Requeue(t)
    BY <1>0, <2>7, RequeueStep
  <2> QED
    BY Zenon, <1>4, <2>1, <2>2, <2>3, <2>4, <2>5, <2>6, <2>7 DEF CoreRun
<1>5. ASSUME NEW k \in Task, Wake(k) PROVE IInv'
  <2>1. ~Queued(k)
    BY Zenon, <1>5 DEF Wake, WakeInv
  <2> QED
    BY Zenon, <1>0, <1>5, <2>1, PushStep DEF Wake
<1>6. CASE UNCHANGED vars
  <2>1. UNCHANGED <<m_fibers, state, ft, waiting, failed, pc>>
    BY Zenon, <1>6 DEF vars
  <2> QED
    BY Zenon, <1>0, <2>1, QuietStep
<1> QED
  BY Zenon, <1>1, <1>2, <1>3, <1>4, <1>5, <1>6 DEF Core

----------------------------------------------------------------------------
(***************************************************************************)
(* The theorems.                                                           *)
(***************************************************************************)

LEMMA NextIInv == IInv /\ [Next]_vars => IInv'
<1> SUFFICES ASSUME IInv, [Next]_vars PROVE IInv'
  BY Zenon
<1>1. [Core(TaskPins)]_vars
  BY Zenon, NextIsCore DEF IInv
<1>2. TaskPins \in SUBSET (Thread \cup {None})
  BY Zenon, SchedulerAssumption
<1> QED
  BY Zenon, <1>1, <1>2, CoreIInv

\* IInv is an invariant of the scheduler.
THEOREM Inductive == Spec => []IInv
BY InitIInv, NextIInv, PTL DEF Spec

\* Every entry of m_fibers_, every counter and every fiber state that run(),
\* stop() and the tasks produce has its type.
THEOREM TypeCorrect == Spec => []TypeOK
<1>1. IInv => TypeOK
  BY Zenon DEF IInv
<1> QED
  BY <1>1, Inductive, PTL

\* No two threads ever execute on one fiber's stack, for any number of
\* threads, tasks, yields and restarts.
THEOREM FiberExclusion == Spec => []OneThreadPerFiber
<1>1. IInv => OneThreadPerFiber
  <2> SUFFICES ASSUME IInv, NEW t \in Thread, NEW u \in Thread, NEW k \in Task,
                      OnCpu(t, k), OnCpu(u, k)
               PROVE  t = u
    BY Zenon DEF OneThreadPerFiber
  <2>1. ft[t].task = ft[u].task /\ pc[t] \in Active
    BY Zenon DEF OnCpu, Active
  <2>2. ft[t] # NoEntry
    BY Zenon, <2>1, NoEntryProperties DEF IInv, HandInv
  <2> QED
    BY Zenon, <2>1, <2>2 DEF IInv, OneHolder
<1> QED
  BY <1>1, Inductive, PTL

\* A fiber that has to run again is always in the queue, in a thread's hand or
\* with its waker.
THEOREM NothingLost == Spec => []NoFiberLost
<1>1. IInv => NoFiberLost
  BY Zenon DEF IInv, PlaceInv, NoFiberLost, Holds
<1> QED
  BY <1>1, Inductive, PTL
----------------------------------------------------------------------------
(***************************************************************************)
(* What has finished stays finished.                                       *)
(***************************************************************************)

\* A thread about to enter a function finds it unstarted, and the fiber a
\* thread executes is EXEC.
HandFits ==
  \A t \in Thread :
    /\ pc[t] = "dispatch" /\ ft[t].cb => state[ft[t].task] = "CB"
    /\ pc[t] = "exec" => state[ft[t].task] = "EXEC"

LEMMA FinishedStep ==
  ASSUME TypeOK, HandType, HandFits,
         NEW pins \in SUBSET (Thread \cup {None}), [Core(pins)]_vars,
         NEW k \in Task, state[k] \in Finished
  PROVE  state'[k] = state[k]
<1> USE DEF TypeOK
<1>1. ASSUME NEW j \in Task, NEW cb \in BOOLEAN, NEW p, ScheduleNew(j, cb, p)
      PROVE  state'[k] = state[k]
  BY Zenon, <1>1 DEF ScheduleNew, Finished
<1>2. ASSUME NEW t \in Thread, CoreRun(t, pins)
      PROVE  state'[k] = state[k]
  <2>1. CASE CoreBody(t, pins)
    <3>1. CASE \E j \in Task, cb \in BOOLEAN, p \in pins : TaskSchedule(t, j, cb, p)
      BY Zenon, <3>1, <1>1 DEF TaskSchedule
    <3>2. CASE YieldToReady(t) \/ MainFunc(t)
      BY Zenon, <3>2 DEF YieldToReady, MainFunc, HandFits, Finished
    <3>3. CASE YieldToHold(t)
      BY Zenon, <3>3 DEF YieldToHold
    <3> QED
      BY Zenon, <2>1, <3>1, <3>2, <3>3 DEF CoreBody
  <2>2. CASE swapIn(t)
    BY Zenon, <2>2 DEF swapIn, HandFits, Finished
  <2>3. CASE Requeue(t)
    BY Zenon, <2>3 DEF Requeue, Finished
  <2> QED
    BY Zenon, <1>2, <2>1, <2>2, <2>3
       DEF CoreRun, Take, TakeNothing, DropFinished, swapOut, Uncount, IdleBack, IdleReturn
<1>3. CASE start \/ CoreStop
  BY Zenon, <1>3 DEF start, CoreStop, StopBegin, StopFlag, StopRoot, StopJoin
<1>4. CASE \E j \in Task, cb \in BOOLEAN, p \in Thread \cup {None} : OwnerSchedule(j, cb, p)
  BY Zenon, <1>4, <1>1 DEF OwnerSchedule
<1>5. CASE \E j \in Task : Wake(j)
  BY Zenon, <1>5 DEF Wake
<1>6. CASE UNCHANGED vars
  BY Zenon, <1>6 DEF vars
<1> QED
  BY Zenon, <1>2, <1>3, <1>4, <1>5, <1>6 DEF Core

LEMMA HandsFit == IInv => HandType /\ HandFits
BY Zenon DEF IInv, HandInv, HandType, HandFits

\* A function that has returned or thrown is never entered again, on any
\* number of threads, as long as nobody schedules a fiber that is scheduled.
THEOREM FinishedOnce == Spec => FinishedForGood
<1>1. IInv /\ [Next]_vars => [\A k \in Task : state[k] \in Finished => state'[k] = state[k]]_vars
  <2> SUFFICES ASSUME IInv, [Next]_vars, NEW k \in Task, state[k] \in Finished
               PROVE  state'[k] = state[k]
    BY Zenon
  <2>1. TypeOK /\ [Core(TaskPins)]_vars
    BY Zenon, NextIsCore DEF IInv
  <2>2. TaskPins \in SUBSET (Thread \cup {None})
    BY Zenon, SchedulerAssumption
  <2> QED
    BY Zenon, <2>1, <2>2, HandsFit, FinishedStep
<1> QED
  BY <1>1, Inductive, PTL DEF Spec, FinishedForGood
============================================================================
