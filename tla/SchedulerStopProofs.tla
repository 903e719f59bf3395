------------------------ MODULE SchedulerStopProofs ------------------------
(***************************************************************************)
(* Proofs about start() and stop(): a returned stop() has drained the      *)
(* queue, and the assertions in swapIn() and CallerMainFunc() hold.  And   *)
(* about a fiber that is scheduled again while it is queued: what has      *)
(* finished stays finished.                                                *)
(***************************************************************************)
EXTENDS SchedulerProofs

\* The states of a fiber that is owed a turn.
Need == {"CB", "INIT", "READY"}

LEMMA InitDrain == Init => DrainInv
<1> SUFFICES ASSUME Init PROVE DrainInv
  BY Zenon
<1>1. Range(m_fibers) = {}
  BY SMTT(30) DEF Init, Range
<1> QED
  BY Zenon, <1>1 DEF Init, DrainInv, TakerInv, PinInv

\* A step keeps TakerInv if each entry it leaves in the queue was owed a turn
\* before, is owed none, or has a taker, and no taker is lost.
LEMMA TakerStep ==
  ASSUME TakerInv,
         \A e \in Range(m_fibers)' :
            \/ e \in Range(m_fibers) /\ (state'[e.task] \in Need => state[e.task] \in Need)
            \/ state'[e.task] \notin Need
            \/ \E t \in Thread : e.thread \in {None, t} /\ CanTake(t)',
         \A t \in Thread : CanTake(t) => CanTake(t)'
  PROVE  TakerInv'
<1> SUFFICES ASSUME NEW e \in Range(m_fibers)', state'[e.task] \in Need
             PROVE  \E t \in Thread : e.thread \in {None, t} /\ CanTake(t)'
  BY Zenon DEF TakerInv, Need
<1>1. CASE e \in Range(m_fibers) /\ state[e.task] \in Need
  <2>1. PICK t \in Thread : e.thread \in {None, t} /\ CanTake(t)
    BY Zenon, <1>1 DEF TakerInv, Need
  <2> QED
    BY Zenon, <2>1
<1> QED
  BY Zenon, <1>1

\* Facts about single steps that both parts of the invariant use.
LEMMA QueueShape ==
  ASSUME IInv, NEW pins \in SUBSET {None}, [Core(pins)]_vars
  PROVE  \A e \in Range(m_fibers)' :
            \/ e \in Range(m_fibers)
            \/ e.thread = None
            \/ owner \in {"new", "started"} /\ owner' = owner /\ e.thread \in Thread
               /\ UNCHANGED <<pc, idle_term>>
<1> USE SchedulerAssumption, NoEntryProperties
<1>0. m_fibers \in Seq(Entry)
  BY Zenon DEF IInv, TypeOK
<1>1. ASSUME NEW k \in Task, NEW cb \in BOOLEAN, NEW p \in Thread \cup {None},
             scheduleNoLock(k, cb, p)
      PROVE  \A e \in Range(m_fibers)' : e \in Range(m_fibers) \/ e.thread = p
  <2>1. Range(m_fibers') = Range(m_fibers) \cup {[task |-> k, cb |-> cb, thread |-> p]}
    BY Zenon, <1>0, <1>1, AppendQueue, EntryProperties DEF scheduleNoLock
  <2> QED
    BY SMTT(30), <2>1
<1>2. CASE \E k \in Task, cb \in BOOLEAN, p \in Thread \cup {None} : OwnerSchedule(k, cb, p)
  <2>1. PICK k \in Task, cb \in BOOLEAN, p \in Thread \cup {None} : OwnerSchedule(k, cb, p)
    BY Zenon, <1>2
  <2>2. /\ \A e \in Range(m_fibers)' : e \in Range(m_fibers) \/ e.thread = p
        /\ owner \in {"new", "started"} /\ owner' = owner /\ UNCHANGED <<pc, idle_term>>
    BY Zenon, <2>1, <1>1 DEF OwnerSchedule, ScheduleNew
  <2> QED
    BY Zenon, <2>2
<1>3. CASE \E k \in Task : Wake(k)
  BY Zenon, <1>3, <1>1 DEF Wake
<1>4. ASSUME NEW t \in Thread, CoreRun(t, pins)
      PROVE  \A e \in Range(m_fibers)' : e \in Range(m_fibers) \/ e.thread = None
  <2>1. CASE Take(t)
    <3>1. PICK i \in DOMAIN m_fibers : m_fibers' = erase(m_fibers, i)
      BY Zenon, <2>1 DEF Take
    <3>2. Range(m_fibers') \subseteq Range(m_fibers)
      BY Zenon, <1>0, <3>1, EraseQueue DEF IInv
    <3> QED
      BY Zenon, <3>2
  <2>2. CASE Requeue(t)
    <3>1. m_fibers' = m_fibers \/ scheduleNoLock(ft[t].task, FALSE, None)
      BY Zenon, <2>2 DEF Requeue
    <3>2. ft[t].task \in Task
      BY Zenon, <2>2 DEF Requeue, IInv, HandInv
    <3> QED
      BY Zenon, <1>1, <3>1, <3>2
  <2>3. CASE \E k \in Task, cb \in BOOLEAN, p \in pins : TaskSchedule(t, k, cb, p)
    BY SMTT(30), <2>3, <1>1 DEF TaskSchedule, ScheduleNew
  <2>4. CASE ~Take(t) /\ ~Requeue(t)
             /\ ~\E k \in Task, cb \in BOOLEAN, p \in pins : TaskSchedule(t, k, cb, p)
    <3>1. m_fibers' = m_fibers
      BY Zenon, <1>4, <2>4 DEF CoreRun, CoreBody, TakeNothing, DropFinished, swapIn, YieldToReady,
         YieldToHold, MainFunc, swapOut, Uncount, IdleBack, IdleReturn
    <3> QED
      BY Zenon, <3>1
  <2> QED
    BY Zenon, <2>1, <2>2, <2>3, <2>4
<1>5. CASE start \/ CoreStop \/ UNCHANGED vars
  <2>1. m_fibers' = m_fibers
    BY Zenon, <1>5 DEF start, CoreStop, StopBegin, StopFlag, StopRoot, StopJoin, vars
  <2> QED
    BY Zenon, <2>1
<1> QED
  BY Zenon, <1>2, <1>3, <1>4, <1>5 DEF Core

\* What a step may do to a thread's decision to leave run().
LEMMA TermShape ==
  ASSUME IInv, PinInv, NEW pins \in SUBSET (Thread \cup {None}), [Core(pins)]_vars
  PROVE  /\ \A t \in Thread : (pc[t] = "exit" \/ ~idle_term[t]) /\ ~stopping
                             => (pc'[t] = "exit" \/ ~idle_term'[t])
         /\ \A t \in Thread : pc'[t] = "off" => ~idle_term'[t]
         /\ owner' = "started" => ~m_stopping'
         /\ owner' = "started" => \A t \in Thread : pc'[t] = "exit" \/ ~idle_term'[t]
         /\ owner' = "started" => \A t \in Worker : pc'[t] \notin {"off", "exit"}
<1> USE SchedulerAssumption
<1> USE DEF PinInv
<1>0. /\ pc \in [Thread -> PC] /\ idle_term \in [Thread -> BOOLEAN]
      /\ Worker \subseteq Thread
  BY Zenon DEF IInv, TypeOK, Thread
<1>1. CASE start
  BY Zenon, <1>0, <1>1 DEF start, IInv, OwnerInv, Thread
<1>2. CASE \E d \in BOOLEAN : StopRoot(d)
  BY Zenon, <1>0, <1>2 DEF StopRoot, IInv, OwnerInv, Thread
<1>3. CASE (\E d \in BOOLEAN : StopBegin(d)) \/ StopFlag \/ StopJoin
  BY Zenon, <1>0, <1>3 DEF StopBegin, StopFlag, StopJoin
<1>4. ASSUME NEW t \in Thread, CoreRun(t, pins)
      PROVE  /\ \A u \in Thread : (pc[u] = "exit" \/ ~idle_term[u]) /\ ~stopping
                                 => (pc'[u] = "exit" \/ ~idle_term'[u])
             /\ \A u \in Thread : pc'[u] = "off" => ~idle_term'[u]
             /\ owner' = "started" => ~m_stopping'
             /\ owner' = "started" => \A u \in Thread : pc'[u] = "exit" \/ ~idle_term'[u]
             /\ owner' = "started" => \A u \in Worker : pc'[u] \notin {"off", "exit"}
  <2>0. UNCHANGED <<owner, m_stopping>>
    BY Zenon, <1>4 DEF CoreRun, CoreBody, Take, TakeNothing, DropFinished, swapIn, TaskSchedule,
       YieldToReady, YieldToHold, MainFunc, swapOut, Uncount, Requeue, IdleBack, IdleReturn
  <2>1. CASE IdleBack(t)
    <3>1. owner = "started" => ~stopping
      BY Zenon DEF stopping
    <3>2. PICK b \in BOOLEAN : (b => stopping) /\ idle_term' = [idle_term EXCEPT ![t] = b]
      BY Zenon, <2>1 DEF IdleBack
    <3>3. pc[t] = "idle" /\ pc' = [pc EXCEPT ![t] = "idleret"]
      BY Zenon, <2>1 DEF IdleBack
    <3> QED
      BY Zenon, <1>0, <2>0, <3>1, <3>2, <3>3
  <2>2. CASE TakeNothing(t)
    <3>1. /\ idle_term' = idle_term
          /\ \/ pc' = [pc EXCEPT ![t] = "exit"] /\ pc[t] = "scan" /\ idle_term[t]
             \/ pc' = [pc EXCEPT ![t] = "idle"] /\ pc[t] = "scan"
      BY Zenon, <2>2 DEF TakeNothing
    <3> QED
      BY Zenon, <1>0, <2>0, <3>1
  <2>3. CASE ~IdleBack(t) /\ ~TakeNothing(t)
    <3>1. /\ idle_term' = idle_term
          /\ \/ pc' = pc
             \/ /\ pc[t] \notin {"off", "exit"}
                /\ \E x \in PC \ {"off", "exit"} : pc' = [pc EXCEPT ![t] = x]
      BY Zenon, <1>4, <2>3 DEF CoreRun, CoreBody, Take, DropFinished, swapIn, TaskSchedule,
         YieldToReady, YieldToHold, MainFunc, swapOut, Uncount, Requeue, IdleReturn, PC
    <3> QED
      BY Zenon, <1>0, <2>0, <3>1
  <2> QED
    BY Zenon, <2>1, <2>2, <2>3
<1>5. CASE \/ \E k \in Task, cb \in BOOLEAN, p \in Thread \cup {None} : OwnerSchedule(k, cb, p)
           \/ \E k \in Task : Wake(k)
           \/ UNCHANGED vars
  <2>1. UNCHANGED <<pc, idle_term, owner, m_stopping>>
    BY Zenon, <1>5 DEF OwnerSchedule, Wake, vars
  <2> QED
    BY Zenon, <1>0, <2>1
<1> QED
  BY Zenon, <1>1, <1>2, <1>3, <1>4, <1>5 DEF Core, CoreStop

LEMMA PinStep ==
  ASSUME IInv, PinInv, NEW pins \in SUBSET {None}, [Core(pins)]_vars
  PROVE  PinInv'
<1> USE SchedulerAssumption, NoEntryProperties
<1>0. m_fibers \in Seq(Entry) /\ \A e \in Range(m_fibers) : e \in Entry
  BY SMTT(30) DEF IInv, TypeOK, Range
<1>1. SUFFICES ASSUME NEW e \in Range(m_fibers)', e.thread # None
               PROVE  pc'[e.thread] = "exit" \/ ~idle_term'[e.thread]
  BY Zenon, TermShape DEF PinInv
<1>2. CASE e \in Range(m_fibers)
  <2>1. e.thread \in Thread /\ (pc[e.thread] = "exit" \/ ~idle_term[e.thread])
    BY Zenon, <1>0, <1>1, <1>2 DEF PinInv, Entry
  <2>2. ~stopping
    BY SMTT(30), <1>2 DEF stopping, Range
  <2> QED
    BY Zenon, <2>1, <2>2, TermShape
<1>3. CASE e \notin Range(m_fibers)
  <2>1. /\ owner \in {"new", "started"} /\ e.thread \in Thread
        /\ UNCHANGED <<pc, idle_term>>
    BY Zenon, <1>1, <1>3, QueueShape
  <2>2. pc[e.thread] = "exit" \/ ~idle_term[e.thread]
    BY Zenon, <2>1 DEF PinInv, IInv, OwnerInv
  <2> QED
    BY Zenon, <2>1, <2>2
<1> QED
  BY Zenon, <1>2, <1>3

LEMMA TakerNext ==
  ASSUME IInv, DrainInv, NEW pins \in SUBSET {None}, [Core(pins)]_vars
  PROVE  TakerInv'
<1> USE SchedulerAssumption, NoEntryProperties
<1>0. /\ TakerInv /\ PinInv
      /\ m_fibers \in Seq(Entry)
      /\ \A e \in Range(m_fibers) : e \in Entry
      /\ pc \in [Thread -> PC] /\ state \in [Task -> State]
      /\ Worker \subseteq Thread
  BY SMTT(30) DEF IInv, TypeOK, Range, DrainInv, Thread
\* A push keeps the other entries.
<1>p. ASSUME NEW k \in Task, NEW cb \in BOOLEAN, NEW p \in Thread \cup {None},
             scheduleNoLock(k, cb, p)
      PROVE  \A e \in Range(m_fibers)' : e \in Range(m_fibers) \/ (e.task = k /\ e.thread = p)
  <2>1. Range(m_fibers') = Range(m_fibers) \cup {[task |-> k, cb |-> cb, thread |-> p]}
    BY SMTT(30), <1>0, <1>p, AppendQueue, EntryProperties DEF scheduleNoLock
  <2> QED
    BY SMTT(30), <2>1
\* A new task is in no entry.
<1>n. ASSUME NEW k \in Task, state[k] = "NEW"
      PROVE  \A e \in Range(m_fibers) : e.task # k
  BY Zenon, <1>n DEF IInv, QueueInv
<1>1. CASE \E k \in Task, cb \in BOOLEAN, p \in Thread \cup {None} : OwnerSchedule(k, cb, p)
  <2>1. PICK k \in Task, cb \in BOOLEAN, p \in Thread \cup {None} : OwnerSchedule(k, cb, p)
    BY Zenon, <1>1
  <2>2. /\ owner \in {"new", "started"} /\ UNCHANGED <<owner, pc>>
        /\ state[k] = "NEW" /\ scheduleNoLock(k, cb, p)
        /\ \A j \in Task : j # k => state'[j] = state[j]
    BY Zenon, <1>0, <2>1 DEF OwnerSchedule, ScheduleNew
  <2>3. \A t \in Thread : CanTake(t) /\ CanTake(t)'
    BY Zenon, <2>2, <1>0 DEF CanTake, PinInv
  <2>4. \A e \in Range(m_fibers)' :
           e \in Range(m_fibers) \/ \E t \in Thread : e.thread \in {None, t}
    BY <1>p, <2>2, ThreadAssumption, SMTT(20)
  <2>5. \A e \in Range(m_fibers) : state'[e.task] = state[e.task]
    BY Zenon, <1>0, <1>n, <2>2
  <2> QED
    BY Zenon, <1>0, <2>3, <2>4, <2>5, TakerStep
<1>2. CASE start
  <2>1. /\ owner \in {"new", "stopped"} /\ owner' = "started"
        /\ UNCHANGED <<m_fibers, state>>
        /\ \A t \in Thread : pc'[t] = IF t \in Worker THEN "scan" ELSE pc[t]
    BY Zenon, <1>2 DEF start
  <2>2. \A t \in Thread : CanTake(t)'
    BY Zenon, <2>1 DEF CanTake
  <2> QED
    BY Zenon, <1>0, <2>1, <2>2, TakerStep
<1>3. CASE \E d \in BOOLEAN : (d => m_fibers = <<>>) /\ StopBegin(d)
  <2>1. /\ UNCHANGED <<m_fibers, state, pc>> /\ owner = "started"
        /\ owner' = "flag" \/ m_fibers = <<>>
    BY Zenon, <1>3 DEF StopBegin
  <2>2. CASE m_fibers = <<>>
    BY SMTT(30), <2>1, <2>2 DEF TakerInv, Range
  <2>3. CASE owner' = "flag"
    <3>1. \A t \in Thread : CanTake(t) => CanTake(t)'
      BY Zenon, <2>1, <2>3 DEF CanTake
    <3> QED
      BY Zenon, <1>0, <2>1, <3>1, TakerStep
  <2> QED
    BY Zenon, <2>1, <2>2, <2>3
<1>4. CASE StopFlag \/ StopJoin
  <2>1. /\ UNCHANGED <<m_fibers, state, pc>>
        /\ \/ owner = "flag" /\ owner' = IF UseCaller THEN "root" ELSE "join"
           \/ owner \in {"join", "incall"} /\ owner' = "stopped"
    BY Zenon, <1>4 DEF StopFlag, StopJoin
  <2>2. \A t \in Thread : CanTake(t) => CanTake(t)'
    BY Zenon, <2>1 DEF CanTake, Thread
  <2> QED
    BY Zenon, <1>0, <2>1, <2>2, TakerStep
<1>5. CASE \E d \in BOOLEAN : (d => m_fibers = <<>>) /\ StopRoot(d)
  <2>1. /\ UNCHANGED <<m_fibers, state>> /\ owner = "root"
        /\ \/ m_fibers = <<>>
           \/ UNCHANGED <<pc, owner>>
           \/ pc' = [pc EXCEPT ![Root] = "scan"] /\ owner' = "incall"
    BY Zenon, <1>5 DEF StopRoot, stopping
  <2>2. CASE m_fibers = <<>>
    BY SMTT(30), <2>1, <2>2 DEF TakerInv, Range
  <2>3. CASE m_fibers # <<>>
    <3>1. \A t \in Thread : CanTake(t) => CanTake(t)'
      BY Zenon, <1>0, <2>1, <2>3 DEF CanTake, Thread
    <3> QED
      BY Zenon, <1>0, <2>1, <3>1, TakerStep
  <2> QED
    BY Zenon, <2>2, <2>3
<1>6. ASSUME NEW t \in Thread, CoreRun(t, pins)
      PROVE  TakerInv'
  <2>0. UNCHANGED owner
    BY Zenon, <1>6 DEF CoreRun, CoreBody, Take, TakeNothing, DropFinished, swapIn, TaskSchedule,
       YieldToReady, YieldToHold, MainFunc, swapOut, Uncount, Requeue, IdleBack, IdleReturn
  <2>1. CASE TakeNothing(t)
    <3>0. UNCHANGED <<m_fibers, state, owner>>
      BY Zenon, <2>1 DEF TakeNothing
    <3>1. CASE pc' = [pc EXCEPT ![t] = "idle"]
      <4>1. \A u \in Thread : CanTake(u) => CanTake(u)'
        BY Zenon, <1>0, <3>0, <3>1 DEF CanTake
      <4> QED
        BY Zenon, <1>0, <3>0, <4>1, TakerStep
    <3>2. CASE pc' = [pc EXCEPT ![t] = "exit"] /\ idle_term[t] /\ pc[t] = "scan"
      <4> SUFFICES ASSUME NEW e \in Range(m_fibers), state[e.task] \in Need
                   PROVE  \E u \in Thread : e.thread \in {None, u} /\ CanTake(u)'
        BY Zenon, <3>0 DEF TakerInv, Need
      <4>1. PICK u \in Thread : e.thread \in {None, u} /\ CanTake(u)
        BY Zenon, <1>0 DEF TakerInv, Need
      <4>2. e.thread \notin {None, t}
        <5>1. PICK i \in DOMAIN m_fibers : e = m_fibers[i]
          BY Zenon DEF Range
        <5>2. ~Takeable(t, e)
          BY Zenon, <2>1, <5>1 DEF TakeNothing
        <5> QED
          BY Zenon, <5>2 DEF Takeable, Need
      <4>3. CanTake(u)'
        BY Zenon, <1>0, <3>0, <3>2, <4>1, <4>2 DEF CanTake
      <4> QED
        BY Zenon, <4>1, <4>3
    <3> QED
      BY Zenon, <2>1, <3>1, <3>2 DEF TakeNothing
  <2>2. CASE ~TakeNothing(t)
    <3>1. \/ pc' = pc
          \/ /\ pc[t] \notin {"off", "exit"}
             /\ \E x \in PC \ {"off", "exit"} : pc' = [pc EXCEPT ![t] = x]
      BY Zenon, <1>6, <2>2 DEF CoreRun, CoreBody, Take, DropFinished, swapIn, TaskSchedule,
         YieldToReady, YieldToHold, MainFunc, swapOut, Uncount, Requeue, IdleBack, IdleReturn, PC
    <3>2. \A u \in Thread : CanTake(u) => CanTake(u)'
      BY Zenon, <1>0, <2>0, <3>1 DEF CanTake
    <3>3. pc[t] \notin {"off", "exit"} => CanTake(t)'
      BY Zenon, <1>0, <3>1 DEF CanTake
    <3>4. CASE Take(t)
      <4>1. PICK i \in DOMAIN m_fibers : m_fibers' = erase(m_fibers, i)
        BY Zenon, <3>4 DEF Take
      <4>2. Range(m_fibers') \subseteq Range(m_fibers) /\ UNCHANGED state
        BY Zenon, <1>0, <3>4, <4>1, EraseQueue DEF IInv, Take
      <4> QED
        BY Zenon, <1>0, <3>2, <4>2, TakerStep
    <3>5. CASE Requeue(t)
      <4>1. /\ pc[t] = "post" /\ ft[t].task \in Task
            /\ m_fibers' = m_fibers \/ scheduleNoLock(ft[t].task, FALSE, None)
            /\ state' = state \/ state' = [state EXCEPT ![ft[t].task] = "HOLD"]
        BY Zenon, <3>5 DEF Requeue, IInv, HandInv
      <4>2. \A e \in Range(m_fibers)' : e \in Range(m_fibers) \/ e.thread = None
        <5>1. CASE m_fibers' = m_fibers
          BY Zenon, <5>1
        <5>2. CASE scheduleNoLock(ft[t].task, FALSE, None)
          <6>1. PICK k \in Task, cb \in BOOLEAN : scheduleNoLock(k, cb, None)
            BY Zenon, <4>1, <5>2
          <6>2. \A e \in Range(m_fibers)' : e \in Range(m_fibers) \/ (e.task = k /\ e.thread = None)
            BY SMTT(30), <1>p, <6>1
          <6> QED
            BY Zenon, <6>2
        <5> QED
          BY Zenon, <4>1, <5>1, <5>2
      <4>3. \A e \in Range(m_fibers) : state'[e.task] \in Need => state[e.task] \in Need
        BY Zenon, <1>0, <4>1 DEF Need
      <4> QED
        BY Zenon, <1>0, <3>2, <3>3, <4>1, <4>2, <4>3, TakerStep
    <3>6. CASE \E k \in Task, cb \in BOOLEAN, p \in pins : TaskSchedule(t, k, cb, p)
      <4>1. PICK k \in Task, cb \in BOOLEAN : TaskSchedule(t, k, cb, None)
        BY Zenon, <3>6
      <4>2. /\ pc[t] = "exec" /\ state[k] = "NEW" /\ scheduleNoLock(k, cb, None)
            /\ \A j \in Task : j # k => state'[j] = state[j]
        BY Zenon, <1>0, <4>1 DEF TaskSchedule, ScheduleNew
      <4>3. \A e \in Range(m_fibers)' : e \in Range(m_fibers) \/ e.thread = None
        BY SMTT(30), <1>p, <4>2
      <4>4. \A e \in Range(m_fibers) : state'[e.task] = state[e.task]
        BY Zenon, <1>0, <1>n, <4>2
      <4> QED
        BY Zenon, <1>0, <3>2, <3>3, <4>2, <4>3, <4>4, TakerStep
    <3>7. CASE YieldToReady(t)
      <4>1. /\ pc[t] = "exec" /\ m_fibers' = m_fibers /\ ft[t].task \in Task
            /\ state' = [state EXCEPT ![ft[t].task] = "READY"]
        BY Zenon, <3>7 DEF YieldToReady, IInv, HandInv, Active
      <4>2. \A e \in Range(m_fibers) : e.task # ft[t].task
        <5>1. ~Queued(ft[t].task)
          BY Zenon, <4>1 DEF IInv, WakeInv, Holds, Parking
        <5> QED
          BY Zenon, <5>1 DEF Queued
      <4>3. \A e \in Range(m_fibers) : state'[e.task] = state[e.task]
        BY Zenon, <1>0, <4>1, <4>2
      <4> QED
        BY Zenon, <1>0, <3>2, <4>1, <4>3, TakerStep
    <3>8. CASE \/ DropFinished(t) \/ swapIn(t) \/ YieldToHold(t) \/ MainFunc(t)
               \/ swapOut(t) \/ Uncount(t) \/ IdleBack(t) \/ IdleReturn(t)
      <4>1. /\ m_fibers' = m_fibers
            /\ \/ state' = state
               \/ \E s \in Finished \cup {"EXEC"} : state' = [state EXCEPT ![ft[t].task] = s]
        BY Zenon, <3>8 DEF DropFinished, swapIn, YieldToHold, MainFunc, swapOut, Uncount, IdleBack,
           IdleReturn
      <4>2. \A e \in Range(m_fibers) : state'[e.task] \in Need => state[e.task] \in Need
        BY Zenon, <1>0, <4>1 DEF Need, Finished
      <4> QED
        BY Zenon, <1>0, <3>2, <4>1, <4>2, TakerStep
    <3> QED
      BY <1>6, <2>2, <3>4, <3>5, <3>6, <3>7, <3>8, SMTT(20) DEF CoreRun, CoreBody
  <2> QED
    BY Zenon, <2>1, <2>2
<1>7. CASE \E k \in Task : Wake(k)
  <2>1. PICK k \in Task : Wake(k)
    BY Zenon, <1>7
  <2>2. /\ k \in waiting /\ scheduleNoLock(k, FALSE, None) /\ UNCHANGED <<state, pc, owner>>
    BY Zenon, <2>1 DEF Wake
  <2>3. state[k] \notin Need
    BY Zenon, <2>2 DEF IInv, PlaceInv, Need
  <2>4. \A e \in Range(m_fibers)' : e \in Range(m_fibers) \/ state'[e.task] \notin Need
    BY Zenon, <1>p, <2>2, <2>3
  <2>5. \A t \in Thread : CanTake(t) => CanTake(t)'
    BY Zenon, <2>2 DEF CanTake
  <2> QED
    BY Zenon, <1>0, <2>2, <2>4, <2>5, TakerStep
<1>8. CASE UNCHANGED vars
  BY Zenon, <1>0, <1>8 DEF vars, TakerInv, CanTake
<1> QED
  BY Zenon, <1>1, <1>2, <1>3, <1>4, <1>5, <1>6, <1>7, <1>8 DEF Core, CoreStop

LEMMA DrainStep ==
  ASSUME IInv, DrainInv, NEW pins \in SUBSET {None}, [Core(pins)]_vars
  PROVE  DrainInv'
BY Zenon, PinStep, TakerNext DEF DrainInv

LEMMA DrainedAtEnd == IInv /\ DrainInv => StopDrains
<1> SUFFICES ASSUME IInv, DrainInv, owner = "stopped", NEW k \in Task,
                    state[k] \notin {"NEW", "HOLD"} \cup Finished
             PROVE  FALSE
  BY Zenon DEF StopDrains
<1>1. \A t \in Thread : pc[t] \in {"off", "exit"}
  BY Zenon DEF IInv, OwnerInv, Thread
<1>2. \A t \in Thread : ft[t] = NoEntry /\ ft[t].task # k
  BY SMTT(30), <1>1, NoEntryProperties, SchedulerAssumption DEF IInv, HandInv, Active
<1>3. state[k] \in Need \cup {"EXEC"}
  BY Zenon DEF IInv, TypeOK, State, Finished, Need
<1>4. state[k] \in Need /\ Queued(k)
  BY Zenon, <1>2, <1>3 DEF IInv, PlaceInv, Holds, Need
<1>5. PICK e \in Range(m_fibers) : e.task = k
  BY Zenon, <1>4 DEF Queued
<1>6. \E t \in Thread : CanTake(t)
  BY Zenon, <1>4, <1>5 DEF DrainInv, TakerInv, Need
<1> QED
  BY Zenon, <1>1, <1>6 DEF CanTake

\* When stop() has returned, no task that was scheduled is left unstarted,
\* runnable or half run, for any number of threads and tasks, with any pins of
\* the owner, with or without use_caller and over restarts; tasks must not pin
\* the tasks they schedule.
THEOREM StopIsComplete ==
  ASSUME TaskPins \subseteq {None}
  PROVE  Spec => []StopDrains
<1>1. Init => DrainInv
  BY Zenon, InitDrain
<1>2. IInv /\ DrainInv /\ [Next]_vars => DrainInv'
  <2> SUFFICES ASSUME IInv, DrainInv, [Next]_vars PROVE DrainInv'
    BY Zenon
  <2>1. [Core(TaskPins)]_vars
    BY Zenon, NextIsCore DEF IInv
  <2> QED
    BY Zenon, <2>1, DrainStep
<1>3. IInv /\ DrainInv => StopDrains
  BY Zenon, DrainedAtEnd
<1> QED
  BY <1>1, <1>2, <1>3, Inductive, PTL DEF Spec

\* A root fiber is called only before it has returned.
LEMMA RootStep ==
  ASSUME ~UseCaller \/ MaxStarts <= 1, IInv, RootInv,
         NEW pins \in SUBSET (Thread \cup {None}), [Core(pins)]_vars
  PROVE  RootInv'
<1> USE SchedulerAssumption
<1>0. pc \in [Thread -> PC] /\ starts \in Nat
  BY Zenon DEF IInv, TypeOK
<1>1. CASE start
  BY SMTT(30), <1>0, <1>1 DEF start, RootInv, Thread
<1>2. CASE CoreStop
  BY Zenon, <1>0, <1>2 DEF CoreStop, StopBegin, StopFlag, StopRoot, StopJoin, RootInv, Thread
<1>3. ASSUME NEW t \in Thread, CoreRun(t, pins) PROVE RootInv'
  <2>1. /\ UNCHANGED <<owner, starts>>
        /\ failed' = failed \/ failed' = {"assert_not_EXEC"}
        /\ \/ pc' = pc
           \/ pc[t] # "off" /\ \E x \in PC : pc' = [pc EXCEPT ![t] = x]
    BY Zenon, <1>3 DEF CoreRun, CoreBody, Take, TakeNothing, DropFinished, swapIn, TaskSchedule,
       YieldToReady, YieldToHold, MainFunc, swapOut, Uncount, Requeue, IdleBack, IdleReturn, PC
  <2> QED
    BY <1>0, <2>1, SMTT(20) DEF RootInv, Thread
<1>4. CASE \/ \E k \in Task, cb \in BOOLEAN, p \in Thread \cup {None} : OwnerSchedule(k, cb, p)
           \/ \E k \in Task : Wake(k)
           \/ UNCHANGED vars
  BY Zenon, <1>4 DEF OwnerSchedule, Wake, vars, RootInv
<1> QED
  BY Zenon, <1>1, <1>2, <1>3, <1>4 DEF Core

LEMMA RootSound == IInv /\ RootInv => NoAssertionFails
BY Zenon DEF IInv, RootInv, TypeOK, Assertion, NoAssertionFails

\* The assertions hold: swapIn() never enters an executing fiber, and with one
\* start() (or without use_caller) stop() never calls a finished root fiber.
THEOREM AssertionsHold ==
  ASSUME ~UseCaller \/ MaxStarts <= 1
  PROVE  Spec => []NoAssertionFails
<1> USE SchedulerAssumption
<1>1. Init => RootInv
  BY Zenon DEF Init, RootInv, Thread
<1>2. IInv /\ RootInv /\ [Next]_vars => RootInv'
  <2> SUFFICES ASSUME IInv, RootInv, [Next]_vars PROVE RootInv'
    BY Zenon
  <2>1. [Core(TaskPins)]_vars /\ TaskPins \in SUBSET (Thread \cup {None})
    BY Zenon, NextIsCore DEF IInv
  <2> QED
    BY Zenon, <2>1, RootStep
<1>3. IInv /\ RootInv => NoAssertionFails
  BY Zenon, RootSound
<1> QED
  BY <1>1, <1>2, <1>3, Inductive, PTL DEF Spec

(***************************************************************************)
(* The owner may schedule a fiber again that is waiting to be started.     *)
(* IInv is lost, for the queue may then hold a fiber twice, and two        *)
(* threads may get hold of it.  On one thread the invariant is this one:   *)
(* only an entry with a function stands for a task without a fiber, and it *)
(* is that task's only entry.                                              *)
(***************************************************************************)

\* The task's function has been given a fiber.
HasFiber(k) == state[k] \notin {"NEW", "CB"}

EntryFits(e) == IF e.cb THEN state[e.task] = "CB" ELSE HasFiber(e.task)

\* No task has two entries with a function.
OneFunction(q) ==
  \A i, j \in DOMAIN q : q[i].cb /\ q[j].cb /\ q[i].task = q[j].task => i = j

AgainHand ==
  \A t \in Thread :
    /\ pc[t] = "dispatch" =>
         /\ EntryFits(ft[t])
         /\ ft[t].cb => \A e \in Range(m_fibers) : e.task # ft[t].task
    /\ pc[t] \in Active \cup {"post"} /\ pc[t] # "dispatch" => HasFiber(ft[t].task)
    /\ pc[t] \in {"exec", "wait"} => state[ft[t].task] = "EXEC"

AgainInv ==
  /\ TypeOK
  /\ HandType
  /\ AgainHand
  /\ OneFunction(m_fibers)
  /\ \A e \in Range(m_fibers) : EntryFits(e)
  /\ \A k \in waiting : HasFiber(k)

\* A step that moves the thread outside of Take and leaves all tasks alone.
LEMMA AgainQuiet ==
  ASSUME AgainInv, TypeOK', UNCHANGED <<m_fibers, state, ft, waiting>>,
         \A t \in Thread : pc'[t] = pc[t] \/ pc'[t] \notin Active \cup {"post"}
  PROVE  AgainInv'
<1> USE DEF AgainInv
<1>1. HandType' /\ AgainHand'
  BY Zenon DEF HandType, AgainHand, EntryFits, HasFiber, Active
<1>2. OneFunction(m_fibers)' /\ (\A e \in Range(m_fibers) : EntryFits(e))'
  BY Zenon DEF OneFunction, EntryFits, HasFiber
<1>3. (\A k \in waiting : HasFiber(k))'
  BY Zenon DEF HasFiber
<1> QED
  BY Zenon, <1>1, <1>2, <1>3

LEMMA RangeEntries ==
  ASSUME NEW q \in Seq(Entry)
  PROVE  \A d \in Range(q) : d \in Entry /\ d.task \in Task
BY SMTT(30), NoEntryProperties DEF Range

\* Of the entries that are left when run() takes a function, none is for its task.
LEMMA EraseFunction ==
  ASSUME NEW q \in Seq(Entry), OneFunction(q), NEW i \in DOMAIN q,
         \A d \in Range(q) : q[i].cb /\ d.task = q[i].task => d.cb,
         NEW r, r = erase(q, i)
  PROVE  /\ q[i] \in Entry /\ q[i] \in Range(q)
         /\ OneFunction(r)
         /\ \A d \in Range(r) : d \in Range(q) /\ (q[i].cb => d.task # q[i].task)
<1> DEFINE g(j) == IF j < i THEN j ELSE j + 1
<1>0. DOMAIN q = 1..Len(q) /\ Len(q) \in Nat /\ i \in 1..Len(q)
  BY SMTT(30)
<1>1. q[i] \in Entry /\ q[i] \in Range(q)
  BY SMTT(30) DEF Range
<1>2. /\ r \in Seq(Entry)
      /\ Len(r) = Len(q) - 1
      /\ \A j \in 1..(Len(q) - 1) : r[j] = IF j < i THEN q[j] ELSE q[j + 1]
  BY Zenon, <1>0, EraseProperties
<1>3. \A j \in DOMAIN r : g(j) \in DOMAIN q /\ g(j) # i /\ r[j] = q[g(j)]
  BY SMTT(30), <1>0, <1>2
<1>4. \A j, h \in DOMAIN r : g(j) = g(h) => j = h
  BY SMTT(30), <1>0, <1>2
<1> HIDE DEF g
<1>5. OneFunction(r)
  <2>1. ASSUME NEW j \in DOMAIN r, NEW h \in DOMAIN r, r[j].cb, r[h].cb, r[j].task = r[h].task
        PROVE  j = h
    <3>1. g(j) = g(h)
      BY <1>3, <2>1 DEF OneFunction
    <3> QED
      BY Zenon, <1>4, <3>1
  <2> QED
    BY Zenon, <2>1 DEF OneFunction
<1>6. ASSUME NEW j \in DOMAIN r PROVE r[j] \in Range(q) /\ (q[i].cb => r[j].task # q[i].task)
  BY Zenon, <1>3 DEF Range, OneFunction
<1>7. \A d \in Range(r) : \E j \in DOMAIN r : d = r[j]
  BY Zenon DEF Range
<1> QED
  BY SMTT(30), <1>1, <1>5, <1>6, <1>7

\* schedule() of a task that nobody has scheduled, or once more of a fiber.
LEMMA AgainPush ==
  ASSUME AgainInv, TypeOK',
         NEW k \in Task, NEW cb \in BOOLEAN, NEW p \in Thread \cup {None},
         scheduleNoLock(k, cb, p),
         \A t \in Thread : (pc'[t] = pc[t] /\ ft'[t] = ft[t]) \/ pc'[t] = "scan",
         waiting' \subseteq waiting,
         \/ /\ state[k] = "NEW"
            /\ state' = [state EXCEPT ![k] = IF cb THEN "CB" ELSE "INIT"]
         \/ HasFiber(k) /\ ~cb /\ state' = state
  PROVE  AgainInv'
<1> USE DEF AgainInv
<1> DEFINE e == [task |-> k, cb |-> cb, thread |-> p]
<1>0. state \in [Task -> State] /\ m_fibers \in Seq(Entry)
  BY Zenon DEF TypeOK
<1>1. e \in Entry /\ e.task = k /\ e.cb = cb
  BY Zenon, EntryProperties
<1>2. m_fibers' = Append(m_fibers, e)
  BY Zenon DEF scheduleNoLock
<1> HIDE DEF e
<1>3. Range(m_fibers') = Range(m_fibers) \cup {e}
  BY Zenon, <1>0, <1>1, <1>2, AppendQueue
<1>4. \A j \in Task : j # k => state'[j] = state[j]
  BY Zenon, <1>0
<1>5. IF cb THEN state'[k] = "CB" /\ state[k] = "NEW" ELSE HasFiber(k)'
  BY Zenon, <1>0 DEF HasFiber
<1>6. \A d \in Range(m_fibers) : d \in Entry /\ d.task \in Task
  BY Zenon, <1>0, RangeEntries
<1>7. \A j \in Task : HasFiber(j) => HasFiber(j)'
  BY Zenon, <1>4, <1>5 DEF HasFiber
<1>8. \A j \in Task : state[j] = "CB" => j # k /\ state'[j] = "CB"
  BY Zenon, <1>4, <1>5 DEF HasFiber
<1>9. \A d \in Entry : EntryFits(d) => EntryFits(d)'
  BY Zenon, <1>7, <1>8, NoEntryProperties DEF EntryFits
<1>10. (\A d \in Range(m_fibers) : EntryFits(d))'
  BY Zenon, <1>1, <1>3, <1>5, <1>6, <1>9 DEF EntryFits
<1>11. OneFunction(m_fibers)'
  <2>1. /\ DOMAIN m_fibers = 1..Len(m_fibers) /\ Len(m_fibers) \in Nat
        /\ DOMAIN m_fibers' = 1..(Len(m_fibers) + 1)
        /\ \A j \in 1..Len(m_fibers) : m_fibers'[j] = m_fibers[j]
        /\ m_fibers'[Len(m_fibers) + 1] = e
    BY SMTT(30), <1>0, <1>1, <1>2
  <2>2. ASSUME NEW i \in 1..Len(m_fibers), m_fibers[i].cb, cb PROVE m_fibers[i].task # k
    <3>1. m_fibers[i] \in Range(m_fibers)
      BY Zenon, <2>1 DEF Range
    <3> QED
      BY Zenon, <2>2, <3>1, <1>5 DEF EntryFits
  <2>3. ASSUME NEW i \in 1..Len(m_fibers), NEW j \in 1..Len(m_fibers), m_fibers[i].cb, m_fibers[j].cb,
               m_fibers[i].task = m_fibers[j].task
        PROVE  i = j
    BY Zenon, <2>1, <2>3 DEF OneFunction
  <2>4. \A i \in DOMAIN m_fibers' : i \in 1..Len(m_fibers) \/ i = Len(m_fibers) + 1
    BY SMTT(30), <2>1
  <2> HIDE DEF AgainInv
  <2> QED
    BY Zenon, <2>1, <2>2, <2>3, <2>4, <1>1 DEF OneFunction
<1>12. HandType'
  BY Zenon DEF HandType, Active
<1>13. ASSUME NEW t \in Thread, pc'[t] # "scan"
       PROVE  /\ pc'[t] = "dispatch" =>
                   /\ EntryFits(ft[t])'
                   /\ ft'[t].cb => \A d \in Range(m_fibers') : d.task # ft'[t].task
              /\ pc'[t] \in Active \cup {"post"} /\ pc'[t] # "dispatch" => HasFiber(ft[t].task)'
              /\ pc'[t] \in {"exec", "wait"} => state'[ft'[t].task] = "EXEC"
  <2>1. pc'[t] = pc[t] /\ ft'[t] = ft[t]
    BY Zenon, <1>13
  <2>2. pc[t] \in Active \cup {"post"} => ft[t] \in Entry /\ ft[t].task \in Task
    BY Zenon, NoEntryProperties DEF HandType
  <2>3. CASE pc[t] = "dispatch"
    <3>1. EntryFits(ft[t]) /\ EntryFits(ft[t])'
      BY Zenon, <2>1, <2>2, <2>3, <1>9 DEF AgainHand, Active, EntryFits, HasFiber
    <3>2. ASSUME ft[t].cb PROVE ft[t].task # k
      BY Zenon, <3>1, <3>2, <2>2, <2>3, <1>8 DEF EntryFits, Active
    <3> QED
      BY Zenon, <2>1, <2>3, <3>1, <3>2, <1>1, <1>3 DEF AgainHand
  <2>4. CASE pc[t] \in {"exec", "wait"}
    <3>1. state[ft[t].task] = "EXEC" /\ HasFiber(ft[t].task)
      BY Zenon, <2>4 DEF AgainHand, Active
    <3>2. state'[ft[t].task] = "EXEC"
      BY Zenon, <2>2, <2>4, <3>1, <1>0 DEF Active
    <3> QED
      BY Zenon, <2>1, <2>4, <3>2 DEF HasFiber
  <2>5. CASE pc[t] \notin {"dispatch", "exec", "wait"}
    BY Zenon, <2>1, <2>2, <2>5, <1>7 DEF AgainHand, HasFiber
  <2> QED
    BY Zenon, <2>3, <2>4, <2>5
<1>14. AgainHand'
  BY Zenon, <1>13 DEF AgainHand, Active, EntryFits, HasFiber
<1>15. (\A j \in waiting : HasFiber(j))'
  BY Zenon, <1>7 DEF TypeOK, HasFiber
<1> QED
  BY Zenon, <1>10, <1>11, <1>12, <1>14, <1>15

\* A step of the only thread with the task it has in hand.
LEMMA AgainRun ==
  ASSUME AgainInv, TypeOK', m_fibers' = m_fibers,
         NEW t, Thread = {t}, pc[t] \in Active \cup {"post"},
         ft'[t] = ft[t] \/ pc'[t] = "scan",
         \A j \in Task : j # ft[t].task => state'[j] = state[j],
         state'[ft[t].task] \notin {"NEW", "CB"},
         waiting' \subseteq waiting \cup {ft[t].task},
         pc[t] = "dispatch" \/ HasFiber(ft[t].task),
         pc'[t] # "dispatch",
         pc'[t] \in {"exec", "wait"} => state'[ft[t].task] = "EXEC"
  PROVE  AgainInv'
<1> USE DEF AgainInv
<1>0. ft[t] \in Entry /\ ft[t].task \in Task
  BY Zenon, NoEntryProperties DEF HandType
<1>1. \A d \in Range(m_fibers) : d \in Entry /\ d.task \in Task
  BY Zenon, RangeEntries DEF TypeOK
<1>2. ASSUME NEW d \in Range(m_fibers) PROVE EntryFits(d)'
  <2>1. CASE d.task = ft[t].task
    <3>1. ~d.cb
      BY Zenon, <1>2, <2>1 DEF EntryFits, AgainHand, HasFiber
    <3> QED
      BY Zenon, <2>1, <3>1 DEF EntryFits, HasFiber
  <2>2. CASE d.task # ft[t].task
    BY Zenon, <1>1, <1>2, <2>2 DEF EntryFits, HasFiber
  <2> QED
    BY Zenon, <2>1, <2>2
<1>3. HandType' /\ AgainHand'
  BY Zenon, <1>0 DEF HandType, AgainHand, HasFiber, Active
<1>4. (\A j \in waiting : HasFiber(j))'
  BY Zenon DEF TypeOK, HasFiber
<1>5. OneFunction(m_fibers)'
  BY Zenon DEF OneFunction
<1> QED
  BY Zenon, <1>2, <1>3, <1>4, <1>5

\* run() takes an entry: if it is a function, no other entry is for its task.
LEMMA AgainTake ==
  ASSUME AgainInv, TypeOK', NEW t, Thread = {t}, Take(t)
  PROVE  AgainInv'
<1> USE DEF AgainInv
<1>0. m_fibers \in Seq(Entry) /\ ft \in [Thread -> Entry \cup {NoEntry}]
  BY Zenon DEF TypeOK
<1>p. PICK i \in DOMAIN m_fibers :
        ft' = [ft EXCEPT ![t] = m_fibers[i]] /\ m_fibers' = erase(m_fibers, i)
  BY Zenon DEF Take
<1> DEFINE e == m_fibers[i]
<1>2. pc'[t] = "dispatch" /\ UNCHANGED <<state, waiting>>
  BY Zenon DEF Take, TypeOK
<1>3. \A d \in Range(m_fibers) : e.cb /\ d.task = e.task => d.cb
  BY Zenon, <1>0, <1>p DEF EntryFits, HasFiber, Range
<1>4. /\ e \in Entry /\ e \in Range(m_fibers) /\ OneFunction(m_fibers')
      /\ \A d \in Range(m_fibers') : d \in Range(m_fibers) /\ (e.cb => d.task # e.task)
  BY Zenon, <1>0, <1>p, <1>3, EraseFunction
<1>5. ft'[t] = e
  BY Zenon, <1>0, <1>p
<1> HIDE DEF e
<1>10. (\A d \in Range(m_fibers) : EntryFits(d))'
  BY Zenon, <1>2, <1>4 DEF EntryFits, HasFiber
<1>11. HandType' /\ AgainHand'
  BY Zenon, <1>2, <1>4, <1>5 DEF HandType, AgainHand, EntryFits, HasFiber
<1>12. (\A j \in waiting : HasFiber(j))'
  BY Zenon, <1>2 DEF HasFiber
<1> QED
  BY Zenon, <1>4, <1>10, <1>11, <1>12

LEMMA AgainType ==
  ASSUME TypeOK, NEW k \in Task, OwnerScheduleAgain(k)
  PROVE  TypeOK'
<1>1. [task |-> k, cb |-> FALSE, thread |-> None] \in Entry
  BY Zenon, EntryProperties
<1>2. m_fibers' \in Seq(Entry)
  BY Zenon, <1>1, AppendQueue DEF OwnerScheduleAgain, scheduleNoLock, TypeOK
<1> QED
  BY Zenon, <1>2 DEF OwnerScheduleAgain, TypeOK

LEMMA AgainStep ==
  ASSUME NEW x, Thread = {x}, AgainInv, [NextAgain]_vars
  PROVE  AgainInv'
<1>a. TypeOK /\ HandType /\ state \in [Task -> State] /\ ft \in [Thread -> Entry \cup {NoEntry}]
      /\ pc \in [Thread -> PC] /\ None \in Thread \cup {None}
  BY Zenon DEF AgainInv, TypeOK
<1>b. TaskPins \in SUBSET (Thread \cup {None}) /\ FALSE \in BOOLEAN
  BY Zenon, SchedulerAssumption
<1>1. CASE \E k \in Task : OwnerScheduleAgain(k)
  <2> PICK k \in Task : OwnerScheduleAgain(k)
    BY Zenon, <1>1
  <2>1. TypeOK'
    BY Zenon, <1>a, AgainType
  <2>2. /\ HasFiber(k) /\ state' = state /\ waiting' \subseteq waiting
        /\ scheduleNoLock(k, FALSE, None)
        /\ \A t \in Thread : pc'[t] = pc[t] /\ ft'[t] = ft[t]
    BY Zenon DEF OwnerScheduleAgain, HasFiber
  <2> QED
    BY Zenon, <2>1, <2>2, <1>a, <1>b, AgainPush
<1>2. CASE [Core(TaskPins)]_vars
  <2>0. TypeOK'
    BY Zenon, <1>2, <1>a, <1>b, TypeStep
  <2>1. ASSUME NEW k \in Task, NEW cb \in BOOLEAN, NEW p \in Thread \cup {None},
               ScheduleNew(k, cb, p), UNCHANGED <<pc, ft, waiting>>
        PROVE  AgainInv'
    <3>1. /\ state[k] = "NEW" /\ state' = [state EXCEPT ![k] = IF cb THEN "CB" ELSE "INIT"]
          /\ scheduleNoLock(k, cb, p)
          /\ \A t \in Thread : pc'[t] = pc[t] /\ ft'[t] = ft[t]
      BY Zenon, <2>1 DEF ScheduleNew
    <3> QED
      BY Zenon, <3>1, <2>0, <2>1, AgainPush
  <2>2. CASE \E k \in Task, cb \in BOOLEAN, p \in Thread \cup {None} : OwnerSchedule(k, cb, p)
    BY Zenon, <2>1, <2>2 DEF OwnerSchedule
  <2>3. CASE start
    <3>1. \A t \in Thread : pc'[t] = pc[t] \/ pc'[t] = "scan"
      BY Zenon, <2>3 DEF start
    <3> QED
      BY Zenon, <2>0, <2>3, <3>1, AgainQuiet DEF start, Active
  <2>4. CASE CoreStop
    <3>1. \A t \in Thread : pc'[t] = pc[t] \/ pc'[t] = "scan"
      BY Zenon, <2>4, <1>a DEF CoreStop, StopBegin, StopFlag, StopRoot, StopJoin
    <3>2. UNCHANGED <<m_fibers, state, ft, waiting>>
      BY Zenon, <2>4 DEF CoreStop, StopBegin, StopFlag, StopRoot, StopJoin
    <3> QED
      BY Zenon, <2>0, <3>1, <3>2, AgainQuiet DEF Active
  <2>5. CASE \E k \in Task : Wake(k)
    <3> PICK k \in Task : Wake(k)
      BY <2>5
    <3>1. /\ HasFiber(k) /\ state' = state /\ waiting' \subseteq waiting
          /\ scheduleNoLock(k, FALSE, None)
          /\ \A t \in Thread : pc'[t] = pc[t] /\ ft'[t] = ft[t]
      BY Zenon DEF Wake, AgainInv
    <3> QED
      BY Zenon, <2>0, <3>1, <1>a, <1>b, AgainPush
  <2>6. ASSUME CoreRun(x, TaskPins) PROVE AgainInv'
    <3>0. pc[x] \in Active \cup {"post"} => ft[x].task \in Task
      BY Zenon, <1>a, NoEntryProperties DEF HandType
    <3>1. CASE Take(x)
      BY Zenon, <2>0, <3>1, AgainTake
    <3>2. CASE TakeNothing(x) \/ IdleBack(x) \/ IdleReturn(x)
      <4>1. pc'[x] \notin Active \cup {"post"} /\ UNCHANGED <<m_fibers, state, ft, waiting>>
        BY Zenon, <3>2, <1>a DEF TakeNothing, IdleBack, IdleReturn, Active
      <4> QED
        BY Zenon, <2>0, <4>1, AgainQuiet
    <3>3. CASE DropFinished(x)
      BY Zenon, <2>0, <3>0, <3>3, <1>a, AgainRun DEF DropFinished, HasFiber, Finished, Active
    <3>4. CASE swapIn(x)
      <4>1. CASE state[ft[x].task] = "EXEC"
        <5>1. UNCHANGED <<m_fibers, state, ft, waiting, pc>>
          BY Zenon, <3>4, <4>1 DEF swapIn
        <5> QED
          BY Zenon, <2>0, <5>1, AgainQuiet
      <4>2. CASE state[ft[x].task] # "EXEC"
        BY SMTT(30), <2>0, <3>0, <3>4, <4>2, <1>a, AgainRun DEF swapIn, HasFiber, Active
      <4> QED
        BY Zenon, <4>1, <4>2
    <3>5. CASE CoreBody(x, TaskPins)
      <4>0. pc[x] = "exec" => HasFiber(ft[x].task) /\ state[ft[x].task] = "EXEC"
        BY Zenon DEF AgainInv, AgainHand, Active
      <4>1. CASE \E k \in Task, cb \in BOOLEAN, p \in TaskPins : TaskSchedule(x, k, cb, p)
        BY Zenon, <2>1, <4>1, <1>b DEF TaskSchedule
      <4>2. CASE YieldToReady(x)
        BY Zenon, <2>0, <3>0, <4>0, <4>2, <1>a, AgainRun DEF YieldToReady, HasFiber, Active
      <4>3. CASE YieldToHold(x)
        BY Zenon, <2>0, <3>0, <4>0, <4>3, <1>a, AgainRun DEF YieldToHold, HasFiber, Active
      <4>4. CASE MainFunc(x)
        BY Zenon, <2>0, <3>0, <4>0, <4>4, <1>a, AgainRun DEF MainFunc, HasFiber, Active, Finished
      <4> QED
        BY Zenon, <3>5, <4>1, <4>2, <4>3, <4>4 DEF CoreBody
    <3>6. CASE swapOut(x) \/ Uncount(x)
      <4>1. HasFiber(ft[x].task)
        BY Zenon, <3>6 DEF AgainInv, AgainHand, swapOut, Uncount, Active
      <4> QED
        BY Zenon, <2>0, <3>0, <3>6, <4>1, <1>a, AgainRun DEF swapOut, Uncount, HasFiber, Active
    <3>7. CASE Requeue(x)
      <4>1. HasFiber(ft[x].task) /\ ft[x].task \in Task /\ pc'[x] = "scan" /\ waiting' = waiting
        BY Zenon, <3>0, <3>7, <1>a DEF AgainInv, AgainHand, Requeue, Active
      <4>2. CASE scheduleNoLock(ft[x].task, FALSE, None) /\ state' = state
        BY Zenon, <2>0, <4>1, <4>2, <1>a, <1>b, AgainPush
      <4>3. CASE m_fibers' = m_fibers /\ (state' = state \/ state' = [state EXCEPT ![ft[x].task] = "HOLD"])
        BY Zenon, <2>0, <3>7, <4>1, <4>3, <1>a, AgainRun DEF Requeue, HasFiber, Active
      <4> QED
        BY Zenon, <3>7, <4>2, <4>3 DEF Requeue
    <3> QED
      BY Zenon, <2>6, <3>1, <3>2, <3>3, <3>4, <3>5, <3>6, <3>7 DEF CoreRun
  <2>7. CASE UNCHANGED vars
    BY Zenon, <2>0, <2>7, AgainQuiet DEF vars
  <2> QED
    BY Zenon, <1>2, <2>2, <2>3, <2>4, <2>5, <2>6, <2>7 DEF Core
<1> QED
  BY Zenon, <1>1, <1>2, <1>a, NextIsCore DEF NextAgain

\* A function that has returned or thrown is never entered again, even if its
\* fiber was scheduled more than once: on one thread, run() drops the entries
\* that find it in TERM or EXCEPT.
THEOREM FinishedAgain ==
  ASSUME NEW x, Thread = {x}
  PROVE  SpecAgain => FinishedForGood
<1>1. Init => AgainInv
  <2>1. Init => TypeOK /\ HandType
    BY Zenon, InitIInv, HandsFit DEF IInv
  <2>2. Init => m_fibers = <<>> /\ DOMAIN m_fibers = {} /\ Range(m_fibers) = {}
    BY SMTT(30) DEF Init, Range
  <2>3. Init => AgainHand
    BY Zenon DEF Init, AgainHand, Active
  <2> QED
    BY Zenon, <2>1, <2>2, <2>3 DEF Init, AgainInv, OneFunction
<1>2. AgainInv /\ [NextAgain]_vars => AgainInv'
  BY Zenon, AgainStep
<1>3. AgainInv /\ [NextAgain]_vars
        => [\A k \in Task : state[k] \in Finished => state'[k] = state[k]]_vars
  <2> SUFFICES ASSUME AgainInv, [NextAgain]_vars, NEW k \in Task, state[k] \in Finished
               PROVE  state'[k] = state[k]
    BY Zenon
  <2>1. TypeOK /\ HandType /\ HandFits
    BY Zenon DEF AgainInv, AgainHand, HandFits, EntryFits
  <2>2. CASE [Core(TaskPins)]_vars
    <3>1. TaskPins \in SUBSET (Thread \cup {None})
      BY Zenon, SchedulerAssumption
    <3> QED
      BY Zenon, <2>1, <2>2, <3>1, FinishedStep
  <2>3. CASE \E j \in Task : OwnerScheduleAgain(j)
    BY Zenon, <2>3 DEF OwnerScheduleAgain
  <2> QED
    BY Zenon, <2>1, <2>2, <2>3, NextIsCore DEF NextAgain
<1> QED
  BY <1>1, <1>2, <1>3, PTL DEF SpecAgain, FinishedForGood
============================================================================
