--------------------------- MODULE IOManagerSteps ---------------------------
(***************************************************************************)
(* The inductive invariant of the I/O manager, and the steps that keep it. *)
(* Its overrides of idle(), stopping() and tickle() leave what is proved   *)
(* about the scheduler true, for every step of the I/O manager is one of   *)
(* Core, or the schedule(begin, end) of the expired callbacks.             *)
(***************************************************************************)
EXTENDS IOManager, SchedulerProofs

(***************************************************************************)
(* The inductive invariant, beside that of the scheduler.                  *)
(***************************************************************************)

\* Who waits for an event is with a waker, and is counted.
EventInv ==
  /\ evwait \subseteq waiting /\ IsFiniteSet(evwait)
  /\ counting \subseteq Thread
  /\ PendingCounted

\* A timer's callback is a task nobody has scheduled; listExpiredCb() takes it
\* from the timers, and it is in the hands of one thread until that thread
\* schedules it.
Place == {"timers", "pending", "sched", "wait", "list", "cbs", "events"}
TimerInv ==
  /\ timers \subseteq Task /\ IsFiniteSet(timers) /\ due \subseteq timers
  /\ cbs \in [Thread -> SUBSET Task] /\ iopc \in [Actor -> Place]
  /\ \A t \in Thread : IsFiniteSet(cbs[t])
  /\ \A t \in Thread : iopc[t] # "cbs" => cbs[t] = {}
  /\ \A k \in timers : state[k] = "NEW"
  /\ \A t \in Thread : \A k \in cbs[t] : state[k] = "NEW" /\ k \notin timers
  /\ \A t, u \in Thread : \A k \in cbs[t] : k \in cbs[u] => t = u

\* A sleeper is held for its timer alone, and the callback of that timer
\* schedules it before it does anything else.
SleepInv ==
  /\ sleeper \in [Task -> Task \cup {None}]
  /\ \A c \in Task : sleeper[c] # None => sleeper[c] \in waiting \ evwait
  /\ \A c, d \in Task : sleeper[c] = sleeper[d] /\ sleeper[c] # None => c = d
  /\ \A t \in Thread : pc[t] \in {"wait", "leave", "ret", "post"} => sleeper[ft[t].task] = None
  /\ HeldHasWaker

\* A thread whose idle fiber has returned leaves run() without entering it.
IdleInv == \A t \in Thread : pc[t] = "idle" => ~idle_term[t]

IOInv == IInv /\ IdleInv /\ EventInv /\ TimerInv /\ SleepInv

\* What the proofs use of finite sets; the library's theorems say so.
FiniteLaws ==
  /\ IsFiniteSet({})
  /\ \A S : IsFiniteSet(S) => Cardinality(S) \in Nat /\ (Cardinality(S) = 0 <=> S = {})
  /\ \A S, T : IsFiniteSet(S) /\ T \subseteq S => IsFiniteSet(T)
  /\ \A S, x : IsFiniteSet(S) =>
       /\ IsFiniteSet(S \cup {x})
       /\ Cardinality(S \cup {x}) = IF x \in S THEN Cardinality(S) ELSE Cardinality(S) + 1
  /\ \A S, x : IsFiniteSet(S) =>
       /\ IsFiniteSet(S \ {x})
       /\ Cardinality(S \ {x}) = IF x \in S THEN Cardinality(S) - 1 ELSE Cardinality(S)

\* The entry of an expired callback in the scheduler's queue.
CbEntry(k) == [task |-> k, cb |-> TRUE, thread |-> None]
ExpiredQueued ==
  \A t \in Thread :
    ScheduleExpired(t) => Range(m_fibers') = Range(m_fibers) \cup {CbEntry(k) : k \in cbs[t]}

(***************************************************************************)
(* Every other step of the I/O manager is one of the scheduler's.          *)
(***************************************************************************)
LEMMA IOIsCore ==
  ASSUME IInv, IdleInv, IONext, \A t \in Thread : ~ScheduleExpired(t)
  PROVE  [Core({None})]_vars
<1> USE SchedulerAssumption
<1>1. ASSUME NEW t \in Thread, IORun(t) PROVE [Core({None})]_vars
  <2>1. CASE tickle(t) \/ write(t) \/ Lower(t)
    BY Zenon, <2>1 DEF tickle, write, Lower
  <2>2. CASE TakeAndTickle(t) \/ NothingAndTickle(t) \/ RequeueAndTickle(t) \/ Step(t)
    BY Zenon, <2>2 DEF TakeAndTickle, NothingAndTickle, RequeueAndTickle, Step, Core, CoreRun
  <2>3. CASE TaskStep(t)
    <3>1. CASE WakeSleeper(t)
      <4>1. Wake(sleeper[ft[t].task]) /\ sleeper[ft[t].task] \in Task
        BY Zenon, <3>1 DEF WakeSleeper, Wake, IInv, TypeOK
      <4> QED
        BY Zenon, <4>1 DEF Core
    <3>2. CASE YieldToReady(t) \/ MainFunc(t) \/ YieldToHold(t)
      BY Zenon, <3>2 DEF Core, CoreRun, CoreBody
    <3>3. ASSUME NEW k \in Task, Schedule(t, k, TRUE) PROVE [Core({None})]_vars
      <4>1. TaskSchedule(t, k, TRUE, None)
        BY Zenon, <3>3 DEF Schedule
      <4> QED
        BY Zenon, <4>1 DEF Core, CoreRun, CoreBody
    <3>4. ASSUME NEW k \in Task, cancelEvent(t, k) PROVE [Core({None})]_vars
      BY Zenon, <3>4 DEF cancelEvent, triggerEvent, Core
    <3>5. ASSUME NEW k \in Task, addTimer(t, k) PROVE [Core({None})]_vars
      BY Zenon, <3>5 DEF addTimer
    <3> QED
      BY Zenon, <2>3, <3>1, <3>2, <3>3, <3>4, <3>5 DEF TaskStep, addEvent, sleep
  <2>4. CASE Poll(t)
    <3>1. CASE IdleCheck(t)
      <4>1. CASE idle(t)
        <5>1. stopping \in BOOLEAN
          BY Zenon DEF stopping, IInv, TypeOK
        <5>2. IdleBack(t)
          BY <4>1, <5>1, Zenon DEF idle, IdleBack
        <5> QED
          BY Zenon, <5>2 DEF Core, CoreRun
      <4> QED
        BY Zenon, <3>1, <4>1 DEF IdleCheck, Stay
    <3>2. CASE epoll_wait(t) \/ listExpiredCb(t) \/ DrainPipe(t)
      BY Zenon, <3>2 DEF epoll_wait, listExpiredCb, DrainPipe
    <3>3. ASSUME NEW k \in Task, HandleEvent(t, k) PROVE [Core({None})]_vars
      BY Zenon, <3>3 DEF HandleEvent, triggerEvent, Core
    <3>4. CASE IdleOut(t)
      <4>1. idle_term[t] = FALSE /\ idle_term \in [Thread -> BOOLEAN]
        BY Zenon, <3>4 DEF IdleOut, IdleInv, IInv, TypeOK
      <4>2. idle_term' = [idle_term EXCEPT ![t] = FALSE]
        BY Zenon, <3>4, <4>1 DEF IdleOut
      <4>3. IdleBack(t)
        BY <3>4, <4>2, Zenon DEF IdleOut, IdleBack
      <4> QED
        BY <4>3 DEF Core, CoreRun
    <3> QED
      BY Zenon, <2>4, <3>1, <3>2, <3>3, <3>4 DEF Poll
  <2> QED
    BY Zenon, <1>1, <2>1, <2>2, <2>3, <2>4 DEF IORun
<1>2. CASE OwnerTickle
  BY Zenon, <1>2 DEF OwnerTickle, tickle, write
<1>3. CASE OwnerStep
  <2>1. ASSUME NEW k \in Task, OwnerSchedule(k, TRUE, None) PROVE [Core({None})]_vars
    BY Zenon, <2>1 DEF Core
  <2> QED
    BY Zenon, <1>3, <2>1 DEF OwnerStep, Core
<1>4. CASE IOStop
  <2>1. ASSUME NEW d \in BOOLEAN, d => m_fibers = <<>>, StopBegin(d) \/ StopRoot(d)
        PROVE  Core({None})
    BY Zenon, <2>1 DEF Core, CoreStop
  <2>2. (timers = {} /\ m_pendingEventCount = 0 /\ m_fibers = <<>> /\ m_active_thread_count = 0) \in BOOLEAN
    BY Zenon
  <2>3. CASE StopBegin(timers = {} /\ m_pendingEventCount = 0 /\ m_fibers = <<>>
                       /\ m_active_thread_count = 0)
    BY <2>1, <2>2, <2>3, Zenon
  <2>4. CASE StopFlag \/ StopJoin
    BY Zenon, <2>4 DEF Core, CoreStop
  <2>5. CASE StopRoot(FALSE)
    BY Zenon, <2>1, <2>5
  <2>6. CASE stopping /\ StopRoot(TRUE)
    BY Zenon, <2>1, <2>6 DEF stopping
  <2> QED
    BY Zenon, <1>4, <2>3, <2>4, <2>5, <2>6 DEF IOStop, Stay
<1>5. CASE \E k \in Task : Due(k) \/ Ready(k)
  BY Zenon, <1>5 DEF Due, Ready
<1> QED
  BY Zenon, <1>1, <1>2, <1>3, <1>4, <1>5 DEF IONext

\* A thread enters its idle fiber only while that fiber has not returned.
LEMMA IdleStep ==
  ASSUME IInv, IdleInv, [Core({None})]_vars
  PROVE  IdleInv'
<1> USE SchedulerAssumption
<1>0. pc \in [Thread -> PC] /\ idle_term \in [Thread -> BOOLEAN]
  BY Zenon DEF IInv, TypeOK
<1>1. ASSUME NEW t \in Thread, CoreRun(t, {None}) PROVE IdleInv'
  <2>1. CASE IdleBack(t)
    <3>1. PICK b \in BOOLEAN : idle_term' = [idle_term EXCEPT ![t] = b]
      BY Zenon, <2>1 DEF IdleBack
    <3>2. pc' = [pc EXCEPT ![t] = "idleret"]
      BY Zenon, <2>1 DEF IdleBack
    <3> QED
      BY Zenon, <1>0, <3>1, <3>2 DEF IdleInv
  <2>2. CASE ~IdleBack(t)
    <3>1. /\ idle_term' = idle_term
          /\ \/ pc' = pc
             \/ pc' = [pc EXCEPT ![t] = "idle"] /\ ~idle_term[t]
             \/ \E x \in PC \ {"idle"} : pc' = [pc EXCEPT ![t] = x]
      BY Zenon, <1>1, <2>2
         DEF CoreRun, CoreBody, Take, TakeNothing, DropFinished, swapIn, TaskSchedule,
         YieldToReady, YieldToHold, MainFunc, swapOut, Uncount, Requeue, IdleReturn, PC
    <3> QED
      BY Zenon, <1>0, <3>1 DEF IdleInv
  <2> QED
    BY Zenon, <2>1, <2>2
<1>2. CASE start
  BY Zenon, <1>0, <1>2 DEF start, IdleInv
<1>3. CASE CoreStop
  <2>1. idle_term' = idle_term /\ (pc' = pc \/ pc' = [pc EXCEPT ![Root] = "scan"])
    BY Zenon, <1>3 DEF CoreStop, StopBegin, StopFlag, StopRoot, StopJoin
  <2> QED
    BY Zenon, <1>0, <2>1 DEF IdleInv
<1>4. CASE \/ \E k \in Task, cb \in BOOLEAN, p \in Thread \cup {None} : OwnerSchedule(k, cb, p)
           \/ \E k \in Task : Wake(k)
           \/ UNCHANGED vars
  BY Zenon, <1>4 DEF OwnerSchedule, Wake, vars, IdleInv
<1> QED
  BY Zenon, <1>1, <1>2, <1>3, <1>4 DEF Core

(***************************************************************************)
(* Events: the count is exact.                                             *)
(***************************************************************************)
LEMMA ThreadFinite ==
  ASSUME FiniteLaws
  PROVE  IsFiniteSet(Thread)
<1>1. IsFiniteSet(Worker \cup {Root}) /\ IsFiniteSet(Worker)
  BY Zenon, SchedulerAssumption DEF FiniteLaws
<1> QED
  BY Zenon, <1>1 DEF Thread

\* The steps of run() and of stop() outside of tasks and events.
LEMMA LoopWaits ==
  ASSUME NEW t,
         \/ Take(t) \/ TakeNothing(t) \/ Requeue(t)
         \/ DropFinished(t) \/ swapIn(t) \/ swapOut(t) \/ Uncount(t) \/ IdleReturn(t)
         \/ YieldToReady(t) \/ MainFunc(t) \/ idle(t)
         \/ start \/ StopFlag \/ StopJoin \/ (\E d \in BOOLEAN : StopRoot(d) \/ StopBegin(d))
         \/ (\E k \in Task : OwnerSchedule(k, TRUE, None) \/ TaskSchedule(t, k, TRUE, None))
  PROVE  waiting' = waiting
BY Zenon DEF Take, TakeNothing, Requeue, DropFinished, swapIn, swapOut, Uncount, IdleReturn,
   YieldToReady, MainFunc, idle, start, StopFlag, StopJoin, StopRoot, StopBegin, OwnerSchedule,
   TaskSchedule

\* triggerEvent() turns a wait into a decrement that is still to come.
LEMMA TriggerEvents ==
  ASSUME FiniteLaws, EventInv, NEW t \in Thread, t \notin counting, NEW k \in evwait, triggerEvent(t, k)
  PROVE  EventInv'
<1> DEFINE A == evwait
           B == counting
<1>1. IsFiniteSet(A) /\ IsFiniteSet(B) /\ Cardinality(A) \in Nat /\ Cardinality(B) \in Nat
  BY Zenon, ThreadFinite DEF EventInv, FiniteLaws
<1>2. evwait' = A \ {k} /\ counting' = B \cup {t} /\ waiting' = waiting \ {k}
      /\ m_pendingEventCount' = m_pendingEventCount
  BY Zenon DEF triggerEvent, Wake
<1>3. m_pendingEventCount = Cardinality(A) + Cardinality(B) /\ A \subseteq waiting /\ B \subseteq Thread
  BY Zenon DEF EventInv, PendingCounted
<1>4. k \in A /\ t \notin B
  BY Zenon
<1> HIDE DEF A, B
<1>5. IsFiniteSet(A \ {k}) /\ Cardinality(A \ {k}) = Cardinality(A) - 1
  BY Zenon, <1>1, <1>4 DEF FiniteLaws
<1>6. Cardinality(B \cup {t}) = Cardinality(B) + 1
  BY Zenon, <1>1, <1>4 DEF FiniteLaws
<1>7. PendingCounted'
  BY SMTT(30), <1>1, <1>2, <1>3, <1>5, <1>6 DEF PendingCounted
<1> QED
  BY Zenon, <1>2, <1>3, <1>5, <1>7 DEF EventInv

LEMMA EventStep ==
  ASSUME FiniteLaws, IOInv, [IONext]_allvars
  PROVE  EventInv'
<1> USE SchedulerAssumption
<1>0. EventInv /\ evwait \subseteq waiting
  BY Zenon DEF IOInv, EventInv
<1>q. ASSUME UNCHANGED <<m_pendingEventCount, evwait, counting>>, evwait \subseteq waiting'
      PROVE  EventInv'
  BY Zenon, <1>0, <1>q DEF EventInv, PendingCounted
<1>v. ASSUME UNCHANGED <<m_pendingEventCount, evwait, counting, waiting>>
      PROVE  EventInv'
  BY Zenon, <1>0, <1>q, <1>v
<1>1. ASSUME NEW t \in Thread, IORun(t) PROVE EventInv'
  <2>1. CASE tickle(t) \/ write(t)
    BY Zenon, <1>v, <2>1 DEF tickle, write, vars, eventsv
  <2>2. CASE Lower(t)
    <3> DEFINE B == counting
    <3>1. IsFiniteSet(B) /\ Cardinality(B) \in Nat /\ Cardinality(evwait) \in Nat
      BY Zenon, <1>0, ThreadFinite DEF EventInv, FiniteLaws
    <3>2. /\ t \in B /\ counting' = B \ {t} /\ UNCHANGED <<evwait, waiting>>
          /\ m_pendingEventCount' = m_pendingEventCount - 1
          /\ m_pendingEventCount = Cardinality(evwait) + Cardinality(B)
      BY Zenon, <1>0, <2>2 DEF Lower, vars, EventInv, PendingCounted
    <3> HIDE DEF B
    <3>3. Cardinality(B \ {t}) = Cardinality(B) - 1
      BY Zenon, <3>1, <3>2 DEF FiniteLaws
    <3>4. PendingCounted'
      BY SMTT(30), <3>1, <3>2, <3>3 DEF PendingCounted
    <3> QED
      BY Zenon, <1>0, <3>2, <3>4 DEF EventInv, B
  <2>3. CASE TakeAndTickle(t) \/ NothingAndTickle(t) \/ RequeueAndTickle(t) \/ Step(t)
    <3>1. waiting' = waiting
      BY Zenon, <2>3, LoopWaits DEF TakeAndTickle, NothingAndTickle, RequeueAndTickle, Step
    <3> QED
      BY Zenon, <1>v, <2>3, <3>1
         DEF TakeAndTickle, NothingAndTickle, RequeueAndTickle, Step, iovars, eventsv
  <2>4. CASE t \notin counting /\ TaskStep(t)
    <3>1. CASE WakeSleeper(t)
      <4>1. /\ UNCHANGED <<m_pendingEventCount, evwait, counting>>
            /\ waiting' = waiting \ {sleeper[ft[t].task]}
            /\ pc[t] = "exec" /\ sleeper[ft[t].task] # None
        BY Zenon, <3>1 DEF WakeSleeper, Wake, eventsv
      <4>2. ft[t].task \in Task
        BY Zenon, <4>1, NoEntryProperties DEF IOInv, IInv, HandInv, Active
      <4>3. sleeper[ft[t].task] \notin evwait
        BY Zenon, <4>1, <4>2 DEF IOInv, SleepInv
      <4> QED
        BY Zenon, <1>0, <1>q, <4>1, <4>3
    <3>2. CASE (YieldToReady(t) \/ MainFunc(t)) /\ UNCHANGED iovars
      <4>1. waiting' = waiting
        BY Zenon, <3>2, LoopWaits
      <4> QED
        BY Zenon, <1>v, <3>2, <4>1 DEF iovars, eventsv
    <3>3. CASE addEvent(t)
      <4> DEFINE A == evwait
                 k == ft[t].task
      <4>1. IsFiniteSet(A) /\ Cardinality(A) \in Nat /\ Cardinality(counting) \in Nat
        BY Zenon, <1>0, ThreadFinite DEF EventInv, FiniteLaws
      <4>2. /\ evwait' = A \cup {k} /\ waiting' = waiting \cup {k} /\ UNCHANGED counting
            /\ m_pendingEventCount' = m_pendingEventCount + 1
            /\ m_pendingEventCount = Cardinality(A) + Cardinality(counting)
            /\ pc[t] = "exec"
        BY Zenon, <1>0, <3>3 DEF addEvent, YieldToHold, EventInv, PendingCounted
      <4>3. k \notin A
        <5>1. k \in Task /\ Holds(t, k) /\ ~Parking(t)
          BY Zenon, <4>2, NoEntryProperties DEF IOInv, IInv, HandInv, Active, Holds, Parking
        <5> QED
          BY Zenon, <1>0, <5>1 DEF IOInv, IInv, WakeInv
      <4> HIDE DEF A, k
      <4>4. IsFiniteSet(A \cup {k}) /\ Cardinality(A \cup {k}) = Cardinality(A) + 1
        BY Zenon, <4>1, <4>3 DEF FiniteLaws
      <4>5. PendingCounted'
        BY SMTT(30), <4>1, <4>2, <4>4 DEF PendingCounted
      <4> QED
        BY Zenon, <1>0, <4>2, <4>4, <4>5 DEF EventInv, A
    <3>4. ASSUME NEW k \in Task, Schedule(t, k, TRUE) \/ addTimer(t, k) PROVE EventInv'
      <4>1. waiting' = waiting
        BY Zenon, <3>4, LoopWaits DEF Schedule, addTimer, vars
      <4> QED
        BY Zenon, <1>v, <3>4, <4>1 DEF Schedule, addTimer, Arm, eventsv
    <3>5. ASSUME NEW k \in Task, sleep(t, k) PROVE EventInv'
      BY Zenon, <1>0, <1>q, <3>5 DEF sleep, Arm, YieldToHold, eventsv
    <3>6. ASSUME NEW k \in Task, cancelEvent(t, k) PROVE EventInv'
      BY Zenon, <1>0, <2>4, <3>6, TriggerEvents DEF cancelEvent
    <3> QED
      BY Zenon, <2>4, <3>1, <3>2, <3>3, <3>4, <3>5, <3>6 DEF TaskStep
  <2>5. CASE t \notin counting /\ Poll(t)
    <3>1. CASE IdleCheck(t)
      <4>1. waiting' = waiting
        BY Zenon, <3>1, LoopWaits DEF IdleCheck, Stay, vars
      <4> QED
        BY Zenon, <1>v, <3>1, <4>1 DEF IdleCheck, Stay, eventsv
    <3>2. CASE epoll_wait(t) \/ listExpiredCb(t) \/ ScheduleExpired(t) \/ DrainPipe(t) \/ IdleOut(t)
      BY Zenon, <1>v, <3>2
         DEF epoll_wait, listExpiredCb, ScheduleExpired, DrainPipe, IdleOut, eventsv, vars
    <3>3. ASSUME NEW k \in Task, HandleEvent(t, k) PROVE EventInv'
      <4>1. CASE k \in evwait
        BY Zenon, <1>0, <2>5, <3>3, <4>1, TriggerEvents DEF HandleEvent
      <4>2. CASE k \notin evwait
        BY Zenon, <1>v, <3>3, <4>2 DEF HandleEvent, eventsv, vars
      <4> QED
        BY Zenon, <4>1, <4>2
    <3> QED
      BY Zenon, <2>5, <3>1, <3>2, <3>3 DEF Poll
  <2> QED
    BY Zenon, <1>1, <2>1, <2>2, <2>3, <2>4, <2>5 DEF IORun
<1>2. CASE OwnerTickle
  BY Zenon, <1>v, <1>2 DEF OwnerTickle, tickle, write, vars, eventsv
<1>3. CASE OwnerStep
  <2>1. waiting' = waiting
    BY Zenon, <1>3, LoopWaits DEF OwnerStep, vars
  <2> QED
    BY Zenon, <1>v, <1>3, <2>1 DEF OwnerStep, Arm, iovars, eventsv
<1>4. CASE IOStop
  <2>1. waiting' = waiting
    <3>1. CASE StopBegin(timers = {} /\ m_pendingEventCount = 0 /\ m_fibers = <<>>
                         /\ m_active_thread_count = 0)
      BY Zenon, <3>1 DEF StopBegin
    <3> QED
      BY Zenon, <1>4, <3>1 DEF IOStop, Stay, StopFlag, StopRoot, StopJoin, vars
  <2> QED
    BY Zenon, <1>v, <1>4, <2>1 DEF IOStop, Stay, iovars, eventsv
<1>5. CASE \E k \in Task : Due(k) \/ Ready(k)
  BY Zenon, <1>v, <1>5 DEF Due, Ready, vars, eventsv
<1>6. CASE UNCHANGED allvars
  BY Zenon, <1>v, <1>6 DEF allvars, iovars, vars, eventsv
<1> QED
  BY Zenon, <1>1, <1>2, <1>3, <1>4, <1>5, <1>6 DEF IONext

(***************************************************************************)
(* Timers: an armed callback is nobody else's.                             *)
(***************************************************************************)
Armed(k) == k \in timers \/ \E t \in Thread : k \in cbs[t]

\* A step that moves no callback keeps the invariant if it schedules none.
LEMMA QuietTimers ==
  ASSUME TimerInv, UNCHANGED <<timers, cbs>>, due' \subseteq timers,
         iopc' = iopc \/ \E a \in Actor, p \in Place \ {"cbs"} :
                            iopc[a] # "cbs" /\ iopc' = [iopc EXCEPT ![a] = p],
         \A k \in Task : Armed(k) => state'[k] = state[k]
  PROVE  TimerInv'
<1>1. iopc' \in [Actor -> Place] /\ \A t \in Thread : iopc'[t] # "cbs" => iopc[t] # "cbs"
  BY DEF TimerInv, Actor
<1>2. \A k \in timers : k \in Task /\ Armed(k)
  BY Zenon DEF TimerInv, Armed
<1>3. \A t \in Thread : \A k \in cbs[t] : k \in Task /\ Armed(k)
  BY Zenon DEF TimerInv, Armed
<1> QED
  BY Zenon, <1>1, <1>2, <1>3 DEF TimerInv

\* No step but a schedule() of the task itself ends its NEW.
LEMMA NewKept ==
  ASSUME IInv, NEW t \in Thread,
         \/ Take(t) \/ TakeNothing(t) \/ Requeue(t)
         \/ DropFinished(t) \/ swapIn(t) \/ swapOut(t) \/ Uncount(t) \/ IdleReturn(t)
         \/ YieldToReady(t) \/ MainFunc(t) \/ YieldToHold(t) \/ idle(t)
         \/ start \/ StopFlag \/ StopJoin \/ (\E d \in BOOLEAN : StopRoot(d) \/ StopBegin(d))
         \/ \E k \in Task : Wake(k)
  PROVE  \A k \in Task : state[k] = "NEW" => state'[k] = state[k]
<1>1. state' = state \/ \E s \in State : state' = [state EXCEPT ![ft[t].task] = s]
  BY Zenon DEF Take, TakeNothing, Requeue, DropFinished, swapIn, swapOut, Uncount, IdleReturn,
   YieldToReady, MainFunc, YieldToHold, idle, start, StopFlag, StopJoin, StopRoot, StopBegin, Wake,
   State, Finished
<1>2. \A k \in Task : state[k] = "NEW" => ft[t].task # k
  BY Zenon, NewIsFree
<1> QED
  BY Zenon, <1>1, <1>2 DEF IInv, TypeOK

\* addTimer(): the callback was nobody's.
LEMMA ArmTimers ==
  ASSUME FiniteLaws, TimerInv, NEW a, NEW k \in Task, NEW s, Arm(a, k, s),
         \A j \in Task : state[j] = "NEW" => state'[j] = state[j]
  PROVE  TimerInv'
<1> DEFINE A == timers
<1>1. /\ timers' = A \cup {k} /\ UNCHANGED <<due, cbs, iopc>>
      /\ state[k] = "NEW" /\ k \notin A /\ \A t \in Thread : k \notin cbs[t]
  BY Zenon DEF Arm, Unarmed, pollv
<1>2. IsFiniteSet(A) /\ A \subseteq Task /\ due \subseteq A
  BY Zenon DEF TimerInv
<1> HIDE DEF A
<1>3. IsFiniteSet(A \cup {k})
  BY Zenon, <1>2 DEF FiniteLaws
<1>4. \A j \in A \cup {k} : state'[j] = "NEW"
  BY Zenon, <1>1, <1>2 DEF TimerInv, A
<1>5. \A t \in Thread : \A j \in cbs[t] : state'[j] = "NEW" /\ j \notin A \cup {k}
  BY SMTT(30), <1>1 DEF TimerInv, A
<1> QED
  BY Zenon, <1>1, <1>2, <1>3, <1>4, <1>5 DEF TimerInv

LEMMA TimerStep ==
  ASSUME FiniteLaws, IOInv, [IONext]_allvars
  PROVE  TimerInv'
<1> USE SchedulerAssumption
<1>0. TimerInv /\ due \subseteq timers /\ iopc \in [Actor -> Place]
  BY Zenon DEF IOInv, TimerInv
<1>a. \A k \in Task : Armed(k) => state[k] = "NEW"
  BY Zenon, <1>0 DEF TimerInv, Armed
<1>b. IInv
  BY Zenon DEF IOInv
<1>n. ASSUME NEW t \in Thread,
             \/ Take(t) \/ TakeNothing(t) \/ Requeue(t)
             \/ DropFinished(t) \/ swapIn(t) \/ swapOut(t) \/ Uncount(t) \/ IdleReturn(t)
             \/ YieldToReady(t) \/ MainFunc(t) \/ YieldToHold(t) \/ idle(t)
             \/ start \/ StopFlag \/ StopJoin \/ (\E d \in BOOLEAN : StopRoot(d) \/ StopBegin(d))
             \/ \E k \in Task : Wake(k)
      PROVE  \A k \in Task : Armed(k) => state'[k] = state[k]
  BY Zenon, <1>a, <1>b, <1>n, NewKept
<1>s. ASSUME UNCHANGED <<timers, due, cbs, iopc>>, \A k \in Task : Armed(k) => state'[k] = state[k]
      PROVE  TimerInv'
  BY Zenon, <1>0, <1>s, QuietTimers
<1>p. ASSUME UNCHANGED <<timers, due, cbs>>, NEW a \in Actor, NEW p \in Place \ {"cbs"},
             iopc[a] # "cbs", Goto(a, p), \A k \in Task : Armed(k) => state'[k] = state[k]
      PROVE  TimerInv'
  BY Zenon, <1>0, <1>p, QuietTimers DEF Goto
<1>w. ASSUME NEW t \in Thread, NEW k \in evwait, triggerEvent(t, k), UNCHANGED <<timers, due, cbs, iopc>>
      PROVE  TimerInv'
  <2>1. state' = state
    BY Zenon, <1>w DEF triggerEvent, Wake
  <2> QED
    BY Zenon, <1>s, <1>w, <2>1
<1>1. ASSUME NEW t \in Thread, IORun(t) PROVE TimerInv'
  <2>1. CASE tickle(t) \/ write(t) \/ Lower(t)
    BY Zenon, <1>s, <2>1 DEF tickle, write, Lower, vars, timersv, pollv
  <2>2. CASE TakeAndTickle(t) \/ NothingAndTickle(t) \/ RequeueAndTickle(t) \/ Step(t)
    <3>1. \A k \in Task : Armed(k) => state'[k] = state[k]
      BY Zenon, <2>2, <1>n DEF TakeAndTickle, NothingAndTickle, RequeueAndTickle, Step
    <3> QED
      BY Zenon, <1>s, <2>2, <3>1
         DEF TakeAndTickle, NothingAndTickle, RequeueAndTickle, Step, iovars,
         timersv, pollv
  <2>3. CASE TaskStep(t)
    <3>1. CASE WakeSleeper(t)
      BY Zenon, <1>s, <3>1 DEF WakeSleeper, Wake, pollv
    <3>2. CASE (YieldToReady(t) \/ MainFunc(t)) /\ UNCHANGED iovars
      <4>1. \A k \in Task : Armed(k) => state'[k] = state[k]
        BY Zenon, <3>2, <1>n
      <4> QED
        BY Zenon, <1>s, <3>2, <4>1 DEF iovars, timersv, pollv
    <3>3. CASE addEvent(t)
      BY Zenon, <1>s, <3>3 DEF addEvent, YieldToHold, timersv, pollv
    <3>4. ASSUME NEW k \in Task, Schedule(t, k, TRUE) PROVE TimerInv'
      <4>1. /\ ~Armed(k) /\ state' = [state EXCEPT ![k] = "CB"] /\ UNCHANGED <<timers, due, cbs, iopc>>
        BY Zenon, <3>4 DEF Schedule, Unarmed, Armed, TaskSchedule, ScheduleNew, timersv, pollv
      <4> QED
        BY Zenon, <1>b, <1>s, <4>1 DEF IInv, TypeOK
    <3>5. ASSUME NEW k \in Task, addTimer(t, k) PROVE TimerInv'
      <4>1. Arm(t, k, None) /\ state' = state
        BY Zenon, <3>5 DEF addTimer, vars
      <4> QED
        BY Zenon, <1>0, <4>1, ArmTimers
    <3>6. ASSUME NEW k \in Task, sleep(t, k) PROVE TimerInv'
      <4>1. Arm(t, k, ft[t].task) /\ state' = state
        BY Zenon, <3>6 DEF sleep, YieldToHold
      <4> QED
        BY Zenon, <1>0, <4>1, ArmTimers
    <3>7. ASSUME NEW k \in Task, cancelEvent(t, k) PROVE TimerInv'
      BY Zenon, <1>w, <3>7 DEF cancelEvent, timersv, pollv
    <3> QED
      BY Zenon, <2>3, <3>1, <3>2, <3>3, <3>4, <3>5, <3>6, <3>7 DEF TaskStep
  <2>4. CASE Poll(t)
    <3>0. t \in Actor /\ {"timers", "pending", "sched", "wait", "list", "events"} \subseteq Place \ {"cbs"}
      BY Zenon DEF Actor, Place
    <3>1. CASE IdleCheck(t)
      <4>1. \A k \in Task : Armed(k) => state'[k] = state[k]
        BY Zenon, <3>1, <1>n DEF IdleCheck, Stay, vars
      <4>2. /\ UNCHANGED <<timers, due, cbs>> /\ iopc[t] # "cbs"
            /\ Goto(t, "pending") \/ Goto(t, "sched") \/ Goto(t, "wait") \/ Goto(t, "timers")
        BY Zenon, <3>1 DEF IdleCheck, Stay, TimersRead, PendingRead, NotStopping, At, timersv
      <4> QED
        BY Zenon, <1>p, <3>0, <4>1, <4>2
    <3>2. CASE epoll_wait(t)
      BY Zenon, <1>p, <3>0, <3>2 DEF epoll_wait, At, timersv, vars
    <3>3. CASE listExpiredCb(t)
      <4>1. /\ cbs' = [cbs EXCEPT ![t] = due] /\ timers' = timers \ due /\ due' = {}
            /\ iopc' = [iopc EXCEPT ![t] = "cbs"] /\ iopc[t] = "list" /\ state' = state
        BY Zenon, <3>3 DEF listExpiredCb, Goto, At, vars
      <4>2. iopc' \in [Actor -> Place] /\ iopc'[t] = "cbs" /\ \A u \in Thread \ {t} : iopc'[u] = iopc[u]
        BY Zenon, <1>0, <3>0, <4>1 DEF Actor, Place
      <4>3. /\ cbs \in [Thread -> SUBSET Task] /\ timers \subseteq Task /\ IsFiniteSet(timers)
            /\ cbs[t] = {}
        BY Zenon, <1>0, <4>1 DEF TimerInv
      <4>4. cbs' \in [Thread -> SUBSET Task] /\ cbs'[t] = due /\ \A u \in Thread \ {t} : cbs'[u] = cbs[u]
        BY Zenon, <1>0, <4>1, <4>3
      <4>5. IsFiniteSet(timers') /\ IsFiniteSet(due)
        BY Zenon, <1>0, <4>1, <4>3 DEF FiniteLaws
      <4>6. \A u \in Thread : \A k \in cbs'[u] : state'[k] = "NEW" /\ k \notin timers'
        BY <1>0, <4>1, <4>4 DEF TimerInv
      <4>7. \A u, v \in Thread : \A k \in cbs'[u] : k \in cbs'[v] => u = v
        BY Zenon, <1>0, <4>4 DEF TimerInv
      <4>8. \A u \in Thread : IsFiniteSet(cbs'[u]) /\ (iopc'[u] # "cbs" => cbs'[u] = {})
        BY Zenon, <1>0, <4>2, <4>4, <4>5 DEF TimerInv
      <4>9. timers' \subseteq Task /\ due' \subseteq timers' /\ \A k \in timers' : state'[k] = "NEW"
        BY Zenon, <1>0, <4>1 DEF TimerInv
      <4> QED
        BY Zenon, <4>2, <4>4, <4>5, <4>6, <4>7, <4>8, <4>9 DEF TimerInv
    <3>4. CASE ScheduleExpired(t)
      <4>1. /\ cbs' = [cbs EXCEPT ![t] = {}] /\ UNCHANGED <<timers, due>>
            /\ iopc' = [iopc EXCEPT ![t] = "events"]
        BY Zenon, <3>4 DEF ScheduleExpired, Goto, timersv
      <4>2. \A k \in Task \ cbs[t] : state'[k] = state[k]
        BY Zenon, <3>4 DEF ScheduleExpired
      <4>3. iopc' \in [Actor -> Place] /\ \A u \in Thread \ {t} : iopc'[u] = iopc[u]
        BY Zenon, <1>0, <3>0, <4>1 DEF Actor
      <4>4. cbs' \in [Thread -> SUBSET Task] /\ cbs'[t] = {} /\ \A u \in Thread \ {t} : cbs'[u] = cbs[u]
        BY Zenon, <1>0, <4>1 DEF TimerInv
      <4>5. \A k \in timers : k \in Task \ cbs[t] /\ state'[k] = "NEW"
        BY Zenon, <1>0, <4>2 DEF TimerInv
      <4>6. ASSUME NEW u \in Thread \ {t}, NEW k \in cbs[u]
            PROVE  state'[k] = "NEW" /\ k \notin timers
        BY Zenon, <1>0, <4>2 DEF TimerInv
      <4>7. IsFiniteSet({})
        BY Zenon DEF FiniteLaws
      <4>8. \A u \in Thread : IsFiniteSet(cbs'[u]) /\ (iopc'[u] # "cbs" => cbs'[u] = {})
        BY Zenon, <1>0, <4>3, <4>4, <4>7 DEF TimerInv
      <4>9. \A u, v \in Thread : \A k \in cbs'[u] : k \in cbs'[v] => u = v
        BY Zenon, <1>0, <4>4 DEF TimerInv
      <4>10. \A u \in Thread : \A k \in cbs'[u] : state'[k] = "NEW" /\ k \notin timers'
        BY Zenon, <4>1, <4>4, <4>6
      <4> QED
        BY Zenon, <1>0, <4>1, <4>3, <4>4, <4>5, <4>8, <4>9, <4>10 DEF TimerInv
    <3>5. ASSUME NEW k \in Task, HandleEvent(t, k) PROVE TimerInv'
      <4>1. CASE k \in evwait
        BY Zenon, <1>w, <3>5, <4>1 DEF HandleEvent, timersv
      <4>2. CASE k \notin evwait
        BY Zenon, <1>s, <3>5, <4>2 DEF HandleEvent, timersv, vars
      <4> QED
        BY <4>1, <4>2
    <3>6. CASE DrainPipe(t)
      BY Zenon, <1>s, <3>6 DEF DrainPipe, vars, timersv, pollv
    <3>7. CASE IdleOut(t)
      BY Zenon, <1>p, <3>0, <3>7 DEF IdleOut, At, timersv
    <3> QED
      BY Zenon, <2>4, <3>1, <3>2, <3>3, <3>4, <3>5, <3>6, <3>7 DEF Poll
  <2> QED
    BY Zenon, <1>1, <2>1, <2>2, <2>3, <2>4 DEF IORun
<1>2. CASE OwnerTickle
  BY Zenon, <1>s, <1>2 DEF OwnerTickle, tickle, write, vars, timersv, pollv
<1>3. CASE OwnerStep
  <2>1. CASE start /\ UNCHANGED iovars
    BY Zenon, <1>s, <2>1 DEF start, iovars, timersv, pollv
  <2>2. ASSUME NEW k \in Task, Unarmed(k), OwnerSchedule(k, TRUE, None), UNCHANGED <<timersv, pollv>>
        PROVE  TimerInv'
    <3>1. /\ ~Armed(k) /\ state' = [state EXCEPT ![k] = "CB"] /\ UNCHANGED <<timers, due, cbs, iopc>>
      BY Zenon, <2>2 DEF Unarmed, Armed, OwnerSchedule, ScheduleNew, timersv, pollv
    <3> QED
      BY Zenon, <1>b, <1>s, <3>1 DEF IInv, TypeOK
  <2>3. ASSUME NEW k \in Task, Arm(Root, k, None), UNCHANGED vars PROVE TimerInv'
    <3>1. state' = state
      BY Zenon, <2>3 DEF vars
    <3> QED
      BY Zenon, <1>0, <2>3, <3>1, ArmTimers
  <2> QED
    BY Zenon, <1>3, <2>1, <2>2, <2>3 DEF OwnerStep
<1>4. CASE IOStop
  <2>0. Root \in Actor /\ {"timers", "pending", "sched"} \subseteq Place \ {"cbs"}
    BY Zenon DEF Actor, Place
  <2>1. state' = state
    BY Zenon, <1>4 DEF IOStop, Stay, StopBegin, StopFlag, StopRoot, StopJoin, vars
  <2>2. CASE /\ UNCHANGED <<timers, due, cbs>> /\ iopc[Root] # "cbs"
             /\ Goto(Root, "pending") \/ Goto(Root, "sched") \/ Goto(Root, "timers")
    BY Zenon, <1>p, <2>0, <2>1, <2>2
  <2>3. CASE UNCHANGED <<timersv, pollv>>
    BY Zenon, <1>s, <2>1, <2>3 DEF timersv, pollv
  <2> QED
    BY Zenon, <1>4, <2>2, <2>3
       DEF IOStop, Stay, TimersRead, PendingRead, NotStopping, At, timersv, pollv, iovars
<1>5. ASSUME NEW k \in Task, Due(k) PROVE TimerInv'
  <2>1. due' \subseteq timers /\ UNCHANGED <<timers, cbs, iopc, state>>
    BY Zenon, <1>0, <1>5 DEF Due, vars, pollv
  <2> QED
    BY Zenon, <1>0, <2>1, QuietTimers
<1>6. ASSUME NEW k \in Task, Ready(k) PROVE TimerInv'
  BY Zenon, <1>s, <1>6 DEF Ready, vars, timersv, pollv
<1>7. CASE UNCHANGED allvars
  BY Zenon, <1>s, <1>7 DEF allvars, iovars, vars, timersv, pollv
<1> QED
  BY Zenon, <1>1, <1>2, <1>3, <1>4, <1>5, <1>6, <1>7 DEF IONext

(***************************************************************************)
(* Sleepers: a fiber held for a timer is never forgotten.                  *)
(***************************************************************************)
Leaving == {"wait", "leave", "ret", "post"}
HandSleeps == \A t \in Thread : pc[t] \in Leaving => sleeper[ft[t].task] = None
SleeperInv ==
  /\ sleeper \in [Task -> Task \cup {None}]
  /\ \A c \in Task : sleeper[c] # None => sleeper[c] \in waiting \ evwait
  /\ \A c, d \in Task : sleeper[c] = sleeper[d] /\ sleeper[c] # None => c = d
\* The callback is armed, expired, queued or running.
Serving(c) == c \in timers \/ Queued(c) \/ \E t \in Thread : c \in cbs[t] \/ ft[t].task = c

LEMMA SleepParts == SleepInv <=> SleeperInv /\ HandSleeps /\ HeldHasWaker
BY Zenon DEF SleepInv, SleeperInv, HandSleeps, Leaving

LEMMA ServedWaits ==
  HeldHasWaker <=> \A k \in waiting : k \in evwait \/ \E c \in Task : sleeper[c] = k /\ Serving(c)
BY Zenon DEF HeldHasWaker, Serving

\* A step that concerns no sleeper keeps the invariant if it drops no callback.
LEMMA QuietSleep ==
  ASSUME SleepInv, UNCHANGED <<sleeper, evwait, waiting>>, HandSleeps',
         \A c \in Task : sleeper[c] # None /\ Serving(c) => Serving(c)',
         waiting \subseteq Task
  PROVE  SleepInv'
<1>1. SleeperInv'
  BY Zenon, SleepParts DEF SleeperInv
<1>2. \A k \in waiting : k \in evwait \/ \E c \in Task : sleeper[c] = k /\ Serving(c)
  BY Zenon, SleepParts, ServedWaits
<1>3. \A k \in waiting' : k \in evwait' \/ \E c \in Task : sleeper'[c] = k /\ Serving(c)'
  BY Zenon, <1>2, SchedulerAssumption
<1>4. HeldHasWaker'
  BY Zenon, <1>3 DEF HeldHasWaker, Serving
<1> QED
  BY Zenon, <1>1, <1>4, SleepParts DEF SleepInv, SleeperInv, HandSleeps, Leaving

LEMMA PushedQueue ==
  ASSUME IInv, NEW k \in Task, NEW cb \in BOOLEAN, scheduleNoLock(k, cb, None)
  PROVE  \A j : Queued(j)' <=> Queued(j) \/ j = k
<1> DEFINE e == [task |-> k, cb |-> cb, thread |-> None]
<1>1. e \in Entry /\ e.task = k
  BY Zenon, EntryProperties
<1>2. m_fibers' = Append(m_fibers, e) /\ m_fibers \in Seq(Entry)
  BY Zenon DEF scheduleNoLock, IInv, TypeOK
<1> HIDE DEF e
<1>3. Range(m_fibers') = Range(m_fibers) \cup {e}
  BY Zenon, <1>1, <1>2, AppendQueue
<1> QED
  BY Zenon, <1>1, <1>3 DEF Queued

\* The steps of run() outside of tasks: an entry leaves a thread's hand only
\* when its task has come back, and a task that comes back has woken whom it
\* had to wake.
LEMMA LoopSleep ==
  ASSUME IInv, SleepInv, NEW t \in Thread,
         \/ Take(t) \/ TakeNothing(t) \/ Requeue(t)
         \/ DropFinished(t) \/ swapIn(t) \/ swapOut(t) \/ Uncount(t) \/ IdleReturn(t)
         \/ idle(t) \/ IdleOut(t)
         \/ sleeper[ft[t].task] = None /\ (YieldToReady(t) \/ MainFunc(t)),
         UNCHANGED <<timers, sleeper, cbs, evwait>>
  PROVE  SleepInv'
<1> USE NoEntryProperties, SchedulerAssumption
<1>a. /\ HandInv /\ m_fibers \in Seq(Entry) /\ DistinctTasks(m_fibers)
      /\ pc \in [Thread -> PC] /\ ft \in [Thread -> Entry \cup {NoEntry}] /\ waiting \subseteq Task
  BY Zenon DEF IInv, TypeOK
<1>b. HandSleeps
  BY Zenon, SleepParts
<1>c. ~DropFinished(t)
  BY Zenon, <1>a DEF DropFinished, HandInv, Finished
<1>d. waiting' = waiting
  BY Zenon, <1>c
     DEF Take, TakeNothing, Requeue, swapIn, swapOut, Uncount, IdleReturn, idle, IdleOut,
     YieldToReady, MainFunc
<1>1. CASE Take(t)
  <2>1. PICK i \in DOMAIN m_fibers : ft' = [ft EXCEPT ![t] = m_fibers[i]] /\ m_fibers' = erase(m_fibers, i)
    BY Zenon, <1>1 DEF Take
  <2>2. Range(m_fibers') = {d \in Range(m_fibers) : d.task # m_fibers[i].task}
    BY Zenon, <1>a, <2>1, EraseQueue
  <2>3. pc[t] = "scan" /\ pc' = [pc EXCEPT ![t] = "dispatch"] /\ ft[t] = NoEntry
    BY Zenon, <1>1, <1>a DEF Take, HandInv, Active
  <2>4. ft'[t] = m_fibers[i] /\ \A u \in Thread \ {t} : ft'[u] = ft[u]
    BY Zenon, <1>a, <2>1
  <2>5. HandSleeps'
    BY Zenon, <1>a, <1>b, <2>3, <2>4 DEF HandSleeps, Leaving
  <2>6. ASSUME NEW c \in Task, Serving(c) PROVE Serving(c)'
    <3>1. CASE Queued(c)
      <4>1. Queued(c)' \/ m_fibers[i].task = c
        BY Zenon, <2>2, <3>1 DEF Queued
      <4> QED
        BY Zenon, <2>4, <4>1 DEF Serving
    <3>2. CASE \E u \in Thread : ft[u].task = c
      <4>1. PICK u \in Thread : ft[u].task = c
        BY Zenon, <3>2
      <4>2. u # t
        BY Zenon, <2>3, <4>1
      <4> QED
        BY Zenon, <2>4, <4>1, <4>2 DEF Serving
    <3> QED
      BY Zenon, <2>6, <3>1, <3>2 DEF Serving
  <2> QED
    BY Zenon, <1>a, <1>d, <2>5, <2>6, QuietSleep
<1>2. CASE Requeue(t)
  <2>1. /\ pc[t] = "post" /\ ft' = [ft EXCEPT ![t] = NoEntry] /\ pc' = [pc EXCEPT ![t] = "scan"]
        /\ m_fibers' = m_fibers \/ scheduleNoLock(ft[t].task, FALSE, None)
        /\ ft[t].task \in Task
    BY Zenon, <1>2, <1>a DEF Requeue, HandInv
  <2>2. sleeper[ft[t].task] = None
    BY Zenon, <1>b, <2>1 DEF HandSleeps, Leaving
  <2>3. \A j : Queued(j) => Queued(j)'
    <3>1. CASE m_fibers' = m_fibers
      BY Zenon, <3>1 DEF Queued
    <3>2. CASE scheduleNoLock(ft[t].task, FALSE, None)
      BY Zenon, <2>1, <3>2, PushedQueue
    <3> QED
      BY Zenon, <2>1, <3>1, <3>2
  <2>4. \A u \in Thread \ {t} : ft'[u] = ft[u] /\ pc'[u] = pc[u]
    BY Zenon, <1>a, <2>1
  <2>5. HandSleeps'
    BY Zenon, <1>a, <1>b, <2>1, <2>4 DEF HandSleeps, Leaving
  <2>6. \A c \in Task : sleeper[c] # None /\ Serving(c) => Serving(c)'
    BY Zenon, <2>2, <2>3, <2>4 DEF Serving
  <2> QED
    BY Zenon, <1>a, <1>d, <2>5, <2>6, QuietSleep
<1>3. CASE ~Take(t) /\ ~Requeue(t)
  <2>1. /\ UNCHANGED <<m_fibers, ft>>
        /\ \/ pc' = pc
           \/ \E x \in PC : /\ pc' = [pc EXCEPT ![t] = x]
                            /\ x \in Leaving => pc[t] \in Leaving \/ sleeper[ft[t].task] = None
    BY Zenon, <1>3, <1>c DEF TakeNothing, swapIn, swapOut, Uncount, IdleReturn, idle, IdleOut,
       YieldToReady, MainFunc, PC, Leaving
  <2>2. HandSleeps'
    BY Zenon, <1>a, <1>b, <2>1 DEF HandSleeps
  <2>3. \A c \in Task : Serving(c) => Serving(c)'
    BY Zenon, <2>1 DEF Serving, Queued
  <2> QED
    BY Zenon, <1>a, <1>d, <2>2, <2>3, QuietSleep
<1> QED
  BY Zenon, <1>1, <1>2, <1>3

\* A fiber that waits is scheduled by the event it waits for, or by the
\* callback of its timer.
LEMMA WakeSleep ==
  ASSUME IInv, SleepInv, NEW k \in Task, Wake(k), UNCHANGED <<timers, cbs>>,
         \/ k \in evwait /\ evwait' = evwait \ {k} /\ UNCHANGED sleeper
         \/ UNCHANGED evwait /\ \E c \in Task : sleeper[c] = k /\ sleeper' = [sleeper EXCEPT ![c] = None]
  PROVE  SleepInv'
<1> USE SchedulerAssumption
<1>1. /\ scheduleNoLock(k, FALSE, None) /\ waiting' = waiting \ {k}
      /\ UNCHANGED <<pc, ft>>
  BY Zenon DEF Wake
<1>2. \A j : Queued(j) => Queued(j)'
  BY Zenon, <1>1, PushedQueue
<1>3. \A c : Serving(c) => Serving(c)'
  BY Zenon, <1>1, <1>2 DEF Serving
<1>4. SleeperInv /\ HandSleeps /\ HeldHasWaker
  BY Zenon, SleepParts
<1>5. \A c \in Task : sleeper'[c] = sleeper[c] \/ (sleeper'[c] = None /\ sleeper[c] = k)
  BY Zenon, <1>4 DEF SleeperInv
<1>6. \A c \in Task : sleeper'[c] # k
  BY SMTT(30), <1>4 DEF SleeperInv
<1>7. sleeper' \in [Task -> Task \cup {None}]
  BY Zenon, <1>4 DEF SleeperInv
<1>8. SleeperInv'
  BY Zenon, <1>1, <1>4, <1>5, <1>6, <1>7 DEF SleeperInv
<1>9. HandSleeps'
  <2>1. \A t \in Thread : pc[t] \in Leaving => ft[t].task \in Task
    BY Zenon, NoEntryProperties DEF IInv, HandInv, Active, Leaving
  <2> QED
    BY Zenon, <1>1, <1>4, <1>5, <2>1 DEF HandSleeps
<1>10. ASSUME NEW j \in waiting' PROVE j \in evwait' \/ \E c \in Task : sleeper'[c] = j /\ Serving(c)'
  <2>1. j \in waiting /\ j # k
    BY Zenon, <1>1
  <2>2. CASE j \in evwait
    BY Zenon, <2>1, <2>2
  <2>3. CASE \E c \in Task : sleeper[c] = j /\ Serving(c)
    BY Zenon, <1>3, <1>5, <2>1, <2>3
  <2> QED
    BY Zenon, <1>4, <2>1, <2>2, <2>3, ServedWaits
<1>11. HeldHasWaker'
  BY Zenon, <1>10 DEF HeldHasWaker, Serving
<1> QED
  BY Zenon, <1>8, <1>9, <1>11 DEF SleepInv, SleeperInv, HandSleeps, Leaving

\* addTimer(), with or without a sleeper: the callback served nobody.
LEMMA ArmSleep ==
  ASSUME IInv, SleepInv, evwait \subseteq waiting,
         NEW k \in Task, state[k] = "NEW", k \notin timers,
         \A t \in Thread : k \notin cbs[t],
         timers' = timers \cup {k}, UNCHANGED <<cbs, evwait, m_fibers, ft>>,
         NEW s, sleeper' = [sleeper EXCEPT ![k] = s],
         \/ s = None /\ UNCHANGED <<pc, waiting>>
         \/ /\ s \in Task \ waiting /\ waiting' = waiting \cup {s}
            /\ \E t \in Thread : /\ ft[t].task = s /\ sleeper[s] = None
                                 /\ pc' = [pc EXCEPT ![t] = "wait"]
  PROVE  SleepInv'
<1> USE SchedulerAssumption
<1>0. SleeperInv /\ HandSleeps /\ HeldHasWaker /\ pc \in [Thread -> PC] /\ waiting \subseteq Task
  BY Zenon, SleepParts DEF IInv, TypeOK
<1>1. ~Serving(k) /\ (\A t \in Thread : ft[t].task # k)
  BY Zenon, NewIsFree DEF Serving
<1>2. \A c : Serving(c) => Serving(c)'
  BY Zenon DEF Serving, Queued
<1>3. Serving(k)'
  BY Zenon DEF Serving
<1>4. sleeper'[k] = s /\ \A c \in Task \ {k} : sleeper'[c] = sleeper[c]
  BY SMTT(30), <1>0 DEF SleeperInv
<1>5. SleeperInv'
  <2>1. sleeper' \in [Task -> Task \cup {None}]
    BY Zenon, <1>0 DEF SleeperInv
  <2>2. \A c \in Task : sleeper'[c] # None => sleeper'[c] \in waiting' \ evwait'
    BY SMTT(30), <1>0, <1>4 DEF SleeperInv
  <2>3. \A c \in Task \ {k} : sleeper'[c] # None => sleeper'[c] # s
    BY SMTT(30), <1>0, <1>4 DEF SleeperInv
  <2>4. \A c, d \in Task : sleeper'[c] = sleeper'[d] /\ sleeper'[c] # None => c = d
    BY <1>0, <1>4, <2>3 DEF SleeperInv
  <2> QED
    BY Zenon, <2>1, <2>2, <2>4 DEF SleeperInv
<1>6. HandSleeps'
  <2>1. \A t \in Thread : pc[t] \in Leaving => ft[t].task \in Task \ {k}
    BY Zenon, <1>1, NoEntryProperties DEF IInv, HandInv, Active, Leaving
  <2>2. \A t \in Thread : pc[t] \in Leaving => sleeper'[ft[t].task] = None
    BY Zenon, <1>0, <1>4, <2>1 DEF HandSleeps
  <2>3. s \in Task /\ (\E t \in Thread : ft[t].task = s /\ sleeper[s] = None) => sleeper'[s] = None
    BY Zenon, <1>1, <1>4
  <2> QED
    BY <1>0, <2>2, <2>3 DEF HandSleeps
<1>7. ASSUME NEW j \in waiting' PROVE j \in evwait' \/ \E c \in Task : sleeper'[c] = j /\ Serving(c)'
  <2>1. CASE j \in waiting
    <3>1. CASE j \in evwait
      BY Zenon, <3>1
    <3>2. CASE \E c \in Task : sleeper[c] = j /\ Serving(c)
      BY Zenon, <1>1, <1>2, <1>4, <3>2
    <3> QED
      BY Zenon, <1>0, <2>1, <3>1, <3>2, ServedWaits
  <2>2. CASE j = s
    BY Zenon, <1>3, <1>4, <2>2
  <2> QED
    BY Zenon, <1>7, <2>1, <2>2
<1>8. HeldHasWaker'
  BY Zenon, <1>7 DEF HeldHasWaker, Serving
<1> QED
  BY Zenon, <1>5, <1>6, <1>8 DEF SleepInv, SleeperInv, HandSleeps, Leaving

LEMMA SleepStep ==
  ASSUME ExpiredQueued, IOInv, [IONext]_allvars
  PROVE  SleepInv'
<1> USE SchedulerAssumption
<1>0. /\ IInv /\ EventInv /\ TimerInv /\ SleepInv /\ HandSleeps
      /\ evwait \subseteq waiting /\ waiting \subseteq Task
  BY Zenon, SleepParts DEF IOInv, EventInv, IInv, TypeOK
<1>q. ASSUME UNCHANGED <<timers, sleeper, cbs, evwait, waiting, pc, ft>>, \A j : Queued(j) => Queued(j)'
      PROVE  SleepInv'
  <2>1. HandSleeps'
    BY Zenon, <1>0, <1>q DEF HandSleeps
  <2>2. \A c \in Task : Serving(c) => Serving(c)'
    BY Zenon, <1>q DEF Serving
  <2> QED
    BY Zenon, <1>0, <1>q, <2>1, <2>2, QuietSleep
<1>v. ASSUME UNCHANGED <<vars, timers, sleeper, cbs, evwait>> PROVE SleepInv'
  BY Zenon, <1>q, <1>v DEF vars, Queued
<1>w. ASSUME NEW t \in Thread, NEW k \in evwait, triggerEvent(t, k), UNCHANGED <<timersv, cbs>>
      PROVE  SleepInv'
  BY Zenon, <1>0, <1>w, WakeSleep DEF triggerEvent, timersv
<1>1. ASSUME NEW t \in Thread, IORun(t) PROVE SleepInv'
  <2>1. CASE tickle(t) \/ write(t) \/ Lower(t)
    BY Zenon, <1>v, <2>1 DEF tickle, write, Lower, timersv, eventsv, pollv
  <2>2. CASE TakeAndTickle(t) \/ NothingAndTickle(t) \/ RequeueAndTickle(t) \/ Step(t)
    <3>1. UNCHANGED <<timers, sleeper, cbs, evwait>>
      BY Zenon, <2>2
         DEF TakeAndTickle, NothingAndTickle, RequeueAndTickle, Step, iovars, timersv, eventsv,
                pollv
    <3> QED
      BY Zenon, <1>0, <2>2, <3>1, LoopSleep
         DEF TakeAndTickle, NothingAndTickle, RequeueAndTickle, Step
  <2>3. CASE TaskStep(t)
    <3>0. pc[t] = "exec" => ft[t].task \in Task /\ ft[t].task \notin waiting
      <4>1. pc[t] = "exec" => ft[t].task \in Task /\ Holds(t, ft[t].task) /\ ~Parking(t)
        BY Zenon, <1>0, NoEntryProperties DEF IInv, HandInv, Active, Holds, Parking
      <4> QED
        BY Zenon, <1>0, <4>1 DEF IInv, WakeInv
    <3>1. CASE WakeSleeper(t)
      <4>1. /\ pc[t] = "exec" /\ sleeper[ft[t].task] # None /\ Wake(sleeper[ft[t].task])
            /\ sleeper' = [sleeper EXCEPT ![ft[t].task] = None]
            /\ UNCHANGED <<timers, cbs, evwait>>
        BY Zenon, <3>1 DEF WakeSleeper, eventsv, pollv
      <4>2. sleeper[ft[t].task] \in Task
        BY Zenon, <1>0, <4>1 DEF Wake
      <4> QED
        BY Zenon, <1>0, <3>0, <4>1, <4>2, WakeSleep
    <3>2. CASE sleeper[ft[t].task] = None /\ (YieldToReady(t) \/ MainFunc(t)) /\ UNCHANGED iovars
      BY Zenon, <1>0, <3>2, LoopSleep DEF iovars, timersv, eventsv, pollv
    <3>3. CASE pc[t] = "exec" /\ sleeper[ft[t].task] = None /\ addEvent(t)
      <4>1. /\ waiting' = waiting \cup {ft[t].task} /\ evwait' = evwait \cup {ft[t].task}
            /\ UNCHANGED <<timers, sleeper, cbs, m_fibers, ft>> /\ pc' = [pc EXCEPT ![t] = "wait"]
        BY Zenon, <3>3 DEF addEvent, YieldToHold, timersv, pollv
      <4>2. \A c \in Task : Serving(c) => Serving(c)'
        BY Zenon, <4>1 DEF Serving, Queued
      <4>3. SleeperInv'
        BY Zenon, <1>0, <3>0, <3>3, <4>1, SleepParts DEF SleeperInv
      <4>4. HandSleeps'
        BY Zenon, <1>0, <3>3, <4>1 DEF HandSleeps, IInv, TypeOK
      <4>5. \A k \in waiting : k \in evwait \/ \E c \in Task : sleeper[c] = k /\ Serving(c)
        BY Zenon, <1>0, SleepParts, ServedWaits
      <4>6. \A k \in waiting' : k \in evwait' \/ \E c \in Task : sleeper'[c] = k /\ Serving(c)'
        BY Zenon, <4>1, <4>2, <4>5
      <4>7. HeldHasWaker'
        BY Zenon, <4>6 DEF HeldHasWaker, Serving
      <4> QED
        BY Zenon, <4>3, <4>4, <4>7 DEF SleepInv, SleeperInv, HandSleeps, Leaving
    <3>4. ASSUME NEW k \in Task, Schedule(t, k, TRUE) PROVE SleepInv'
      <4>1. /\ scheduleNoLock(k, TRUE, None)
            /\ UNCHANGED <<timers, sleeper, cbs, evwait, waiting, pc, ft>>
        BY Zenon, <3>4 DEF Schedule, TaskSchedule, ScheduleNew, timersv, eventsv, pollv
      <4>2. \A j : Queued(j) => Queued(j)'
        BY Zenon, <1>0, <4>1, PushedQueue
      <4> QED
        BY Zenon, <1>q, <4>1, <4>2
    <3>5. ASSUME NEW k \in Task, addTimer(t, k) PROVE SleepInv'
      BY Zenon, <1>0, <3>5, ArmSleep DEF addTimer, Arm, Unarmed, eventsv, pollv, vars
    <3>6. ASSUME NEW k \in Task, pc[t] = "exec", sleeper[ft[t].task] = None, sleep(t, k)
          PROVE  SleepInv'
      <4>1. /\ state[k] = "NEW" /\ k \notin timers /\ \A u \in Thread : k \notin cbs[u]
            /\ timers' = timers \cup {k} /\ UNCHANGED <<cbs, evwait, m_fibers, ft>>
            /\ sleeper' = [sleeper EXCEPT ![k] = ft[t].task]
            /\ waiting' = waiting \cup {ft[t].task} /\ pc' = [pc EXCEPT ![t] = "wait"]
        BY Zenon, <3>6 DEF sleep, Arm, Unarmed, YieldToHold, eventsv, pollv
      <4> QED
        BY Zenon, <1>0, <3>0, <3>6, <4>1, ArmSleep
    <3>7. ASSUME NEW k \in Task, cancelEvent(t, k) PROVE SleepInv'
      BY Zenon, <1>w, <3>7 DEF cancelEvent, pollv
    <3> QED
      BY Zenon, <2>3, <3>1, <3>2, <3>3, <3>4, <3>5, <3>6, <3>7 DEF TaskStep
  <2>4. CASE Poll(t)
    <3>1. CASE IdleCheck(t)
      <4>1. UNCHANGED <<timers, sleeper, cbs, evwait>>
        BY Zenon, <3>1 DEF IdleCheck, Stay, timersv, eventsv
      <4>2. CASE idle(t)
        BY Zenon, <1>0, <4>1, <4>2, LoopSleep
      <4>3. CASE UNCHANGED vars
        BY Zenon, <1>v, <4>1, <4>3
      <4> QED
        BY Zenon, <3>1, <4>2, <4>3 DEF IdleCheck, Stay
    <3>2. CASE epoll_wait(t) \/ DrainPipe(t)
      BY Zenon, <1>v, <3>2 DEF epoll_wait, DrainPipe, timersv, eventsv, pollv
    <3>3. CASE listExpiredCb(t)
      <4>1. /\ cbs' = [cbs EXCEPT ![t] = due] /\ timers' = timers \ due /\ At(t, "list")
            /\ UNCHANGED <<vars, sleeper, evwait>>
        BY Zenon, <3>3 DEF listExpiredCb, eventsv
      <4>2. cbs \in [Thread -> SUBSET Task] /\ cbs[t] = {}
        BY Zenon, <1>0, <4>1 DEF TimerInv, At
      <4>3. \A c \in Task : Serving(c) => Serving(c)'
        BY Zenon, <4>1, <4>2 DEF Serving, Queued, vars
      <4>4. HandSleeps'
        BY Zenon, <1>0, <4>1 DEF HandSleeps, vars
      <4> QED
        BY Zenon, <1>0, <4>1, <4>3, <4>4, QuietSleep DEF vars
    <3>4. CASE ScheduleExpired(t)
      <4>1. /\ cbs' = [cbs EXCEPT ![t] = {}] /\ UNCHANGED <<timers, sleeper, evwait, waiting, pc, ft>>
        BY Zenon, <3>4 DEF ScheduleExpired, timersv, eventsv
      <4>2. cbs \in [Thread -> SUBSET Task]
        BY Zenon, <1>0 DEF TimerInv
      <4>3. Range(m_fibers') = Range(m_fibers) \cup {CbEntry(k) : k \in cbs[t]}
        BY Zenon, <3>4 DEF ExpiredQueued
      <4>4. \A k \in cbs[t] : CbEntry(k).task = k /\ CbEntry(k) \in Range(m_fibers')
        BY Zenon, <4>3 DEF CbEntry
      <4>5. (\A j : Queued(j) => Queued(j)') /\ \A k \in cbs[t] : Queued(k)'
        BY Zenon, <4>3, <4>4 DEF Queued
      <4>6. \A c \in Task : Serving(c) => Serving(c)'
        BY Zenon, <4>1, <4>2, <4>5 DEF Serving
      <4>7. HandSleeps'
        BY Zenon, <1>0, <4>1 DEF HandSleeps
      <4> QED
        BY Zenon, <1>0, <4>1, <4>6, <4>7, QuietSleep
    <3>5. ASSUME NEW k \in Task, HandleEvent(t, k) PROVE SleepInv'
      <4>1. CASE k \in evwait
        BY Zenon, <1>w, <3>5, <4>1 DEF HandleEvent
      <4>2. CASE k \notin evwait
        BY Zenon, <1>v, <3>5, <4>2 DEF HandleEvent, timersv, eventsv
      <4> QED
        BY Zenon, <4>1, <4>2
    <3>6. CASE IdleOut(t)
      BY Zenon, <1>0, <3>6, LoopSleep DEF IdleOut, timersv, eventsv
    <3> QED
      BY Zenon, <2>4, <3>1, <3>2, <3>3, <3>4, <3>5, <3>6 DEF Poll
  <2> QED
    BY Zenon, <1>1, <2>1, <2>2, <2>3, <2>4 DEF IORun
<1>2. CASE OwnerTickle
  BY Zenon, <1>v, <1>2 DEF OwnerTickle, tickle, write, timersv, eventsv, pollv
\* The owner's steps move no thread that has an entry at hand.
<1>o. ASSUME UNCHANGED <<timers, sleeper, cbs, evwait, waiting, m_fibers, ft>>,
             \A t \in Thread : pc'[t] = pc[t] \/ pc'[t] \notin Leaving
      PROVE  SleepInv'
  <2>1. HandSleeps'
    BY Zenon, <1>0, <1>o DEF HandSleeps
  <2>2. \A c \in Task : Serving(c) => Serving(c)'
    BY Zenon, <1>o DEF Serving, Queued
  <2> QED
    BY Zenon, <1>0, <1>o, <2>1, <2>2, QuietSleep
<1>3. CASE OwnerStep
  <2>1. CASE start /\ UNCHANGED iovars
    <3>1. UNCHANGED <<timers, sleeper, cbs, evwait, waiting, m_fibers, ft>>
      BY Zenon, <2>1 DEF start, iovars, timersv, eventsv, pollv
    <3>2. \A t \in Thread : pc'[t] = pc[t] \/ pc'[t] \notin Leaving
      BY Zenon, <2>1 DEF start, Leaving
    <3> QED
      BY Zenon, <1>o, <3>1, <3>2
  <2>2. ASSUME NEW k \in Task, OwnerSchedule(k, TRUE, None), UNCHANGED <<timersv, eventsv, pollv>>
        PROVE  SleepInv'
    <3>1. /\ scheduleNoLock(k, TRUE, None)
          /\ UNCHANGED <<timers, sleeper, cbs, evwait, waiting, pc, ft>>
      BY Zenon, <2>2 DEF OwnerSchedule, ScheduleNew, timersv, eventsv, pollv
    <3>2. \A j : Queued(j) => Queued(j)'
      BY Zenon, <1>0, <3>1, PushedQueue
    <3> QED
      BY Zenon, <1>q, <3>1, <3>2
  <2>3. ASSUME NEW k \in Task, Arm(Root, k, None), UNCHANGED vars PROVE SleepInv'
    BY Zenon, <1>0, <2>3, ArmSleep DEF Arm, Unarmed, eventsv, pollv, vars
  <2> QED
    BY Zenon, <1>3, <2>1, <2>2, <2>3 DEF OwnerStep
<1>4. CASE IOStop
  <2>1. UNCHANGED <<timers, sleeper, cbs, evwait>>
    BY Zenon, <1>4 DEF IOStop, Stay, iovars, timersv, eventsv, pollv
  <2>2. UNCHANGED <<waiting, m_fibers, ft>> /\ (pc' = pc \/ pc' = [pc EXCEPT ![Root] = "scan"])
    BY Zenon, <1>4 DEF IOStop, Stay, StopBegin, StopFlag, StopRoot, StopJoin, vars
  <2>3. \A t \in Thread : pc'[t] = pc[t] \/ pc'[t] \notin Leaving
    BY Zenon, <1>0, <2>2 DEF IInv, TypeOK, Leaving
  <2> QED
    BY Zenon, <1>o, <2>1, <2>2, <2>3
<1>5. CASE \E k \in Task : Due(k) \/ Ready(k)
  BY Zenon, <1>v, <1>5 DEF Due, Ready, timersv, eventsv, pollv
<1>6. CASE UNCHANGED allvars
  BY Zenon, <1>v, <1>6 DEF allvars, iovars, timersv, eventsv, pollv
<1> QED
  BY Zenon, <1>1, <1>2, <1>3, <1>4, <1>5, <1>6 DEF IONext

(***************************************************************************)
(* What stop() relies on when the caller's thread is the only one: nothing *)
(* happens between the three reads of stopping(), so that what it has read *)
(* is still so when it decides.                                            *)
(***************************************************************************)
ReadsHold ==
  /\ iopc[Root] \in {"pending", "sched"} => timers = {}
  /\ iopc[Root] = "sched" => m_pendingEventCount = 0

Settled ==
  /\ timers = {} /\ m_pendingEventCount = 0 /\ m_fibers = <<>>
  /\ cbs[Root] = {} /\ ft[Root] = NoEntry

SingleInv ==
  /\ owner = "root" \/ pc[Root] = "idle" => ReadsHold
  /\ owner # "root" /\ pc[Root] # "idle" => iopc[Root] = "timers"
  /\ owner = "incall" /\ idle_term[Root] => pc[Root] \in {"idleret", "scan", "exit"} /\ Settled
  /\ owner = "incall" /\ pc[Root] = "exit" => idle_term[Root]
  /\ owner \in {"join", "stopped"} => Settled

LEMMA SingleStep ==
  ASSUME FiniteLaws, UseCaller, Worker = {}, IOInv, PinInv, SingleInv, [IONext]_allvars
  PROVE  SingleInv'
<1> USE SchedulerAssumption
<1>0. /\ Thread = {Root} /\ Actor = {Root} /\ IInv /\ IdleInv /\ TimerInv
      /\ pc \in [Thread -> PC] /\ idle_term \in [Thread -> BOOLEAN]
      /\ iopc \in [Actor -> Place] /\ cbs \in [Thread -> SUBSET Task]
      /\ ft \in [Thread -> Entry \cup {NoEntry}]
  BY Zenon DEF Thread, Actor, IOInv, IInv, TypeOK, TimerInv
<1>r. Root \in Thread /\ Root \in Actor
  BY Zenon, <1>0
<1>a. owner # "incall" => pc[Root] \in {"off", "exit"}
  BY Zenon, <1>0 DEF IInv, OwnerInv
<1>n. m_pendingEventCount = 0 => counting = {} /\ evwait = {}
  <2>1. IsFiniteSet(evwait) /\ IsFiniteSet(counting)
    BY Zenon, ThreadFinite DEF IOInv, EventInv, FiniteLaws
  <2>2. Cardinality(evwait) \in Nat /\ Cardinality(counting) \in Nat
    BY Zenon, <2>1 DEF FiniteLaws
  <2>3. m_pendingEventCount = Cardinality(evwait) + Cardinality(counting)
    BY Zenon DEF IOInv, EventInv, PendingCounted
  <2>4. m_pendingEventCount = 0 => Cardinality(evwait) = 0 /\ Cardinality(counting) = 0
    BY SMTT(30), <2>2, <2>3
  <2> QED
    BY Zenon, <2>1, <2>4 DEF FiniteLaws
\* Nothing that SingleInv speaks of changes.
<1>q. ASSUME UNCHANGED <<owner, pc, idle_term, iopc, timers, m_pendingEventCount, m_fibers, ft, cbs>>
      PROVE  SingleInv'
  BY Zenon, <1>q DEF SingleInv, Settled, ReadsHold
\* The thread works.
<1>w. ASSUME owner' = "incall", idle_term'[Root] = FALSE, iopc'[Root] = "timers",
             pc'[Root] \notin {"idle", "exit"}
      PROVE  SingleInv'
  BY Zenon, <1>w DEF SingleInv
\* The thread polls.
<1>p. ASSUME owner' = "incall", idle_term'[Root] = FALSE, pc'[Root] = "idle", ReadsHold'
      PROVE  SingleInv'
  BY Zenon, <1>p DEF SingleInv
<1>1. ASSUME IORun(Root) PROVE SingleInv'
  <2>1. CASE tickle(Root) \/ write(Root)
    BY Zenon, <1>q, <2>1 DEF tickle, write, vars, timersv, eventsv, pollv
  <2>2. CASE Lower(Root)
    <3>1. UNCHANGED <<owner, pc, idle_term, iopc, timers, m_fibers, ft, cbs>> /\ m_pendingEventCount # 0
      BY Zenon, <1>n, <2>2 DEF Lower, vars, timersv, pollv
    <3> QED
      BY Zenon, <3>1 DEF SingleInv, Settled, ReadsHold
  <2>3. CASE TakeAndTickle(Root)
    <3>1. /\ pc[Root] = "scan" /\ m_fibers # <<>> /\ pc' = [pc EXCEPT ![Root] = "dispatch"]
          /\ UNCHANGED <<owner, idle_term, iopc>>
      BY SMTT(30), <2>3 DEF TakeAndTickle, Take, pollv
    <3>2. owner = "incall" /\ idle_term[Root] = FALSE /\ iopc[Root] = "timers"
      BY Zenon, <1>0, <1>a, <3>1 DEF SingleInv, Settled
    <3> QED
      BY Zenon, <1>0, <1>w, <3>1, <3>2
  <2>4. CASE NothingAndTickle(Root)
    <3>1. /\ pc[Root] = "scan" /\ UNCHANGED <<owner, idle_term, iopc, timers, m_pendingEventCount, m_fibers, ft, cbs>>
          /\ pc' = [pc EXCEPT ![Root] = IF idle_term[Root] THEN "exit" ELSE "idle"]
      BY Zenon, <2>4 DEF NothingAndTickle, TakeNothing, timersv, eventsv, pollv
    <3>2. owner = "incall" /\ iopc[Root] = "timers"
      BY Zenon, <1>a, <3>1 DEF SingleInv
    <3>3. CASE idle_term[Root]
      BY Zenon, <1>0, <3>1, <3>2, <3>3 DEF SingleInv, Settled
    <3>4. CASE ~idle_term[Root]
      BY Zenon, <1>0, <3>1, <3>2, <3>4 DEF SingleInv, ReadsHold
    <3> QED
      BY Zenon, <3>3, <3>4
  <2>5. CASE RequeueAndTickle(Root) \/ (Step(Root) /\ ~IdleReturn(Root))
    <3>1. /\ pc[Root] \in {"post", "dispatch", "wait", "leave", "ret"}
          /\ UNCHANGED <<owner, idle_term, iopc>>
          /\ \/ pc' = pc
             \/ \E x \in PC \ {"idle", "exit"} : pc' = [pc EXCEPT ![Root] = x]
      BY Zenon, <2>5
         DEF RequeueAndTickle, Requeue, Step, DropFinished, swapIn, swapOut, Uncount, iovars,
         pollv, PC
    <3>2. owner = "incall" /\ idle_term[Root] = FALSE /\ iopc[Root] = "timers"
      BY Zenon, <1>0, <1>a, <3>1 DEF SingleInv
    <3> QED
      BY Zenon, <1>0, <1>w, <3>1, <3>2
  <2>6. CASE Step(Root) /\ IdleReturn(Root)
    <3>1. /\ pc[Root] = "idleret" /\ pc' = [pc EXCEPT ![Root] = "scan"]
          /\ UNCHANGED <<owner, idle_term, iopc, timers, m_pendingEventCount, m_fibers, ft, cbs>>
      BY Zenon, <2>6 DEF Step, IdleReturn, iovars, timersv, eventsv, pollv
    <3>2. owner = "incall"
      BY Zenon, <1>a, <3>1
    <3> QED
      BY Zenon, <1>0, <3>1, <3>2 DEF SingleInv, Settled
  <2>7. CASE TaskStep(Root)
    <3>1. /\ pc[Root] = "exec" /\ UNCHANGED <<owner, idle_term, iopc>>
          /\ \/ pc' = pc
             \/ \E x \in PC \ {"idle", "exit"} : pc' = [pc EXCEPT ![Root] = x]
      BY Zenon, <2>7
         DEF TaskStep, WakeSleeper, Wake, YieldToReady, MainFunc, addEvent, YieldToHold, Schedule,
         TaskSchedule, addTimer, sleep, Arm, cancelEvent, triggerEvent, iovars, pollv, vars, PC
    <3>2. owner = "incall" /\ idle_term[Root] = FALSE /\ iopc[Root] = "timers"
      BY Zenon, <1>0, <1>a, <3>1 DEF SingleInv
    <3> QED
      BY Zenon, <1>0, <1>w, <3>1, <3>2
  <2>8. CASE Poll(Root)
    <3>0. pc[Root] = "idle"
      BY Zenon, <2>8 DEF Poll, IdleCheck, epoll_wait, listExpiredCb, ScheduleExpired, HandleEvent,
         DrainPipe, IdleOut
    <3>1. owner = "incall" /\ idle_term[Root] = FALSE /\ ReadsHold
      BY Zenon, <1>0, <1>a, <3>0 DEF SingleInv, IdleInv
    <3>2. CASE IdleCheck(Root) /\ Stay
      <4>1. UNCHANGED <<owner, idle_term, pc, timers, m_pendingEventCount>>
        BY Zenon, <3>2 DEF Stay, vars, timersv, eventsv
      <4>2. \/ TimersRead(Root) \/ PendingRead(Root)
            \/ \E x \in {"wait", "timers"} : Goto(Root, x)
        BY Zenon, <3>2 DEF IdleCheck
      <4>3. ReadsHold'
        BY Zenon, <1>0, <3>1, <4>1, <4>2 DEF TimersRead, PendingRead, Goto, At, ReadsHold
      <4> QED
        BY Zenon, <1>p, <3>0, <3>1, <4>1, <4>3
    <3>3. CASE /\ At(Root, "sched") /\ stopping /\ Goto(Root, "timers") /\ idle(Root)
               /\ UNCHANGED <<timersv, eventsv, cbs>>
      <4>1. /\ UNCHANGED <<owner, timers, m_pendingEventCount, m_fibers, ft, cbs>>
            /\ pc' = [pc EXCEPT ![Root] = "idleret"] /\ iopc' = [iopc EXCEPT ![Root] = "timers"]
            /\ m_fibers = <<>> /\ iopc[Root] = "sched"
        BY Zenon, <3>3 DEF idle, Goto, At, timersv, eventsv, stopping
      <4>2. timers = {} /\ m_pendingEventCount = 0
        BY Zenon, <3>1, <4>1 DEF ReadsHold
      <4>3. cbs[Root] = {} /\ ft[Root] = NoEntry
        BY Zenon, <1>0, <3>0, <4>1 DEF TimerInv, IInv, HandInv, Active
      <4>4. Settled'
        BY Zenon, <4>1, <4>2, <4>3 DEF Settled
      <4> QED
        BY Zenon, <1>0, <3>1, <4>1, <4>4 DEF SingleInv
    <3>4. CASE epoll_wait(Root) \/ listExpiredCb(Root) \/ ScheduleExpired(Root)
      <4>1. /\ UNCHANGED <<owner, idle_term, pc>>
            /\ \E x \in {"list", "cbs", "events"} : Goto(Root, x)
        BY Zenon, <3>4 DEF epoll_wait, listExpiredCb, ScheduleExpired, vars
      <4>2. ReadsHold'
        BY Zenon, <1>0, <4>1 DEF Goto, ReadsHold
      <4> QED
        BY Zenon, <1>p, <3>0, <3>1, <4>1, <4>2
    <3>5. CASE (\E k \in Task : HandleEvent(Root, k)) \/ DrainPipe(Root)
      <4>1. UNCHANGED <<owner, idle_term, pc, iopc>> /\ iopc[Root] = "events"
        BY Zenon, <3>5 DEF HandleEvent, triggerEvent, Wake, DrainPipe, At, vars, pollv
      <4>2. ReadsHold'
        BY Zenon, <4>1 DEF ReadsHold
      <4> QED
        BY Zenon, <1>p, <3>0, <3>1, <4>1, <4>2
    <3>6. CASE IdleOut(Root)
      <4>1. UNCHANGED <<owner, idle_term>> /\ pc' = [pc EXCEPT ![Root] = "idleret"] /\ Goto(Root, "timers")
        BY Zenon, <3>6 DEF IdleOut
      <4> QED
        BY Zenon, <1>0, <1>w, <3>1, <4>1 DEF Goto
    <3>7. IdleCheck(Root) => Stay \/ (/\ At(Root, "sched") /\ stopping /\ Goto(Root, "timers")
                                      /\ idle(Root) /\ UNCHANGED <<timersv, eventsv, cbs>>)
      BY Zenon DEF IdleCheck
    <3> QED
      BY Zenon, <2>8, <3>2, <3>3, <3>4, <3>5, <3>6, <3>7 DEF Poll
  <2> QED
    BY Zenon, <1>1, <2>1, <2>2, <2>3, <2>4, <2>5, <2>6, <2>7, <2>8 DEF IORun
<1>2. CASE OwnerTickle
  BY Zenon, <1>q, <1>2 DEF OwnerTickle, tickle, write, vars, timersv, eventsv, pollv
<1>3. CASE OwnerStep
  <2>1. owner' = "started" /\ owner \in {"new", "started", "stopped"}
    BY Zenon, <1>3 DEF OwnerStep, start, OwnerSchedule, vars
  <2>2. pc'[Root] = pc[Root] /\ iopc' = iopc
    BY Zenon, <1>0, <1>3 DEF OwnerStep, start, OwnerSchedule, Arm, vars, iovars, pollv
  <2> QED
    BY Zenon, <1>a, <2>1, <2>2 DEF SingleInv
<1>4. CASE IOStop
  <2>c. ASSUME iopc[Root] # "cbs", owner # "incall" PROVE cbs[Root] = {} /\ ft[Root] = NoEntry
    BY Zenon, <1>0, <1>a, <2>c DEF TimerInv, IInv, HandInv, Active
  <2>1. CASE /\ StopBegin(timers = {} /\ m_pendingEventCount = 0 /\ m_fibers = <<>>
                          /\ m_active_thread_count = 0)
             /\ UNCHANGED iovars
    <3>1. /\ owner = "started" /\ UNCHANGED <<pc, ft, m_fibers, iopc, timers, m_pendingEventCount, cbs>>
          /\ owner' \in {"flag", "stopped"}
          /\ owner' = "stopped" => timers = {} /\ m_pendingEventCount = 0 /\ m_fibers = <<>>
      BY Zenon, <2>1 DEF StopBegin, iovars, timersv, eventsv, pollv
    <3>2. iopc[Root] = "timers" /\ pc[Root] \in {"off", "exit"}
      BY Zenon, <1>a, <3>1 DEF SingleInv
    <3>3. owner' = "stopped" => Settled'
      BY Zenon, <2>c, <3>1, <3>2 DEF Settled
    <3> QED
      BY Zenon, <3>1, <3>2, <3>3 DEF SingleInv
  <2>2. CASE StopFlag /\ UNCHANGED <<timersv, eventsv, pollv>>
    <3>1. owner = "flag" /\ owner' = "root" /\ UNCHANGED <<pc, iopc>>
      BY Zenon, <2>2 DEF StopFlag, pollv
    <3>2. iopc[Root] = "timers" /\ pc[Root] # "idle"
      BY Zenon, <1>a, <3>1 DEF SingleInv
    <3> QED
      BY Zenon, <3>1, <3>2 DEF SingleInv, ReadsHold
  <2>3. CASE owner = "root" /\ (TimersRead(Root) \/ PendingRead(Root)) /\ Stay
    <3>1. UNCHANGED <<owner, pc, timers, m_pendingEventCount>>
      BY Zenon, <2>3 DEF Stay, vars, timersv, eventsv
    <3>2. ReadsHold'
      BY Zenon, <1>0, <2>3, <3>1 DEF TimersRead, PendingRead, Goto, At, ReadsHold, SingleInv
    <3> QED
      BY Zenon, <1>a, <2>3, <3>1, <3>2 DEF SingleInv
  <2>4. CASE owner = "root" /\ Goto(Root, "timers") /\ StopRoot(FALSE)
    <3>1. iopc'[Root] = "timers"
      BY Zenon, <1>0, <2>4 DEF Goto
    <3>2. \/ UNCHANGED <<pc, owner>>
          \/ owner' = "incall" /\ pc[Root] # "exit" /\ pc'[Root] = "scan" /\ idle_term' = idle_term
      BY Zenon, <1>0, <2>4 DEF StopRoot
    <3>3. pc[Root] = "off" => idle_term[Root] = FALSE
      BY Zenon, <1>0 DEF PinInv
    <3>4. CASE UNCHANGED <<pc, owner>>
      BY Zenon, <1>a, <2>4, <3>1, <3>4 DEF SingleInv, ReadsHold
    <3>5. CASE owner' = "incall" /\ pc[Root] # "exit" /\ pc'[Root] = "scan" /\ idle_term' = idle_term
      BY Zenon, <1>a, <1>w, <2>4, <3>1, <3>3, <3>5
    <3> QED
      BY Zenon, <3>2, <3>4, <3>5
  <2>5. CASE /\ owner = "root" /\ At(Root, "sched") /\ stopping /\ Goto(Root, "timers") /\ StopRoot(TRUE)
             /\ UNCHANGED <<timersv, eventsv, cbs>>
    <3>1. /\ owner' = "join" /\ UNCHANGED <<pc, m_fibers, ft, timers, m_pendingEventCount, cbs>>
          /\ m_fibers = <<>> /\ iopc[Root] = "sched"
      BY Zenon, <2>5 DEF StopRoot, stopping, At, timersv, eventsv
    <3>2. timers = {} /\ m_pendingEventCount = 0
      BY Zenon, <2>5, <3>1 DEF SingleInv, ReadsHold
    <3>3. Settled'
      BY Zenon, <2>c, <2>5, <3>1, <3>2 DEF Settled
    <3>4. iopc'[Root] = "timers"
      BY Zenon, <1>0, <2>5 DEF Goto
    <3> QED
      BY Zenon, <1>a, <2>5, <3>1, <3>3, <3>4 DEF SingleInv
  <2>6. CASE StopJoin /\ UNCHANGED iovars
    <3>1. /\ owner' = "stopped" /\ UNCHANGED <<pc, m_fibers, ft, iopc, timers, m_pendingEventCount, cbs>>
          /\ owner = "join" \/ (owner = "incall" /\ pc[Root] = "exit")
      BY Zenon, <2>6 DEF StopJoin, iovars, timersv, eventsv, pollv
    <3>2. Settled /\ iopc[Root] = "timers" /\ pc[Root] # "idle"
      BY Zenon, <1>a, <3>1 DEF SingleInv
    <3> QED
      BY Zenon, <3>1, <3>2 DEF SingleInv, Settled
  <2> QED
    BY Zenon, <1>4, <2>1, <2>2, <2>3, <2>4, <2>5, <2>6 DEF IOStop
<1>5. ASSUME NEW k \in Task, Due(k) \/ Ready(k) PROVE SingleInv'
  BY Zenon, <1>q, <1>5 DEF Due, Ready, vars, timersv, eventsv, pollv
<1>6. CASE UNCHANGED allvars
  BY Zenon, <1>q, <1>6 DEF allvars, iovars, vars, timersv, eventsv, pollv
<1> QED
  BY Zenon, <1>0, <1>1, <1>2, <1>3, <1>4, <1>5, <1>6 DEF IONext
=============================================================================
