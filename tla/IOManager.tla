----------------------------- MODULE IOManager -----------------------------
(***************************************************************************)
(* The I/O manager as a whole: the scheduler with the three overrides of   *)
(* iomanager.cc.  idle() polls epoll and serves timers and events,         *)
(* stopping() also looks at timers and at m_pendingEventCount, tickle()    *)
(* writes to a pipe.  The timer set is abstracted to the callbacks that    *)
(* are armed or due (module Timer has the detail), an event to the fiber   *)
(* that waits for it (module IOEvents has the detail).                     *)
(***************************************************************************)
EXTENDS Scheduler

CONSTANT PipeCap   \* bytes the tickle pipe holds; 65536 on Linux

ASSUME PipeAssumption == PipeCap \in Nat \ {0}

VARIABLES
  timers,               \* callbacks (tasks not yet scheduled) with a timer
  due,                  \* those whose time has come
  sleeper,              \* the fiber a timer callback will schedule, or None
  m_pendingEventCount,
  evwait,               \* fibers that wait for an event
  ready,                \* those whose event epoll_wait() will report
  iopc,                 \* where a thread is in stopping() and idle()
  cbs, got,             \* per thread: expired callbacks, harvested events
  counting,             \* threads that still have to lower the count
  calls,                \* per thread: calls of tickle() to make now
  writing,              \* threads past the test of tickle()
  pipe, edge, drain     \* bytes in the pipe, unreported write, who drains

Actor == Thread \cup {Root}
timersv == <<timers, due, sleeper>>
eventsv == <<m_pendingEventCount, evwait, ready, counting>>
pollv == <<iopc, cbs, got>>
ticklev == <<calls, writing>>
pipev == <<pipe, edge, drain>>
iovars == <<timersv, eventsv, pollv, ticklev, pipev>>
allvars == <<vars, iovars>>

IOInit ==
  /\ Init
  /\ timers = {} /\ due = {} /\ sleeper = [k \in Task |-> None]
  /\ m_pendingEventCount = 0 /\ evwait = {} /\ ready = {} /\ counting = {}
  /\ iopc = [a \in Actor |-> "timers"]
  /\ cbs = [t \in Thread |-> {}] /\ got = [t \in Thread |-> {}]
  /\ calls = [a \in Actor |-> 0] /\ writing = {}
  /\ pipe = 0 /\ edge = FALSE /\ drain = {}

----------------------------------------------------------------------------
(***************************************************************************)
(* tickle(): nothing if some thread is idle, else a blocking write.        *)
(***************************************************************************)
Free(a) == calls[a] = 0
CallTickle(a, n) == calls' = [calls EXCEPT ![a] = n] /\ UNCHANGED writing
\* schedule() calls tickle() if the queue was empty.
CallIfEmpty(a) == CallTickle(a, IF m_fibers = <<>> THEN 1 ELSE 0)

hasIdleThreads == m_idle_thread_count > 0

tickle(a) ==
  /\ calls[a] > 0 /\ a \notin writing
  /\ IF hasIdleThreads
     THEN calls' = [calls EXCEPT ![a] = @ - 1] /\ UNCHANGED writing
     ELSE writing' = writing \cup {a} /\ UNCHANGED calls
  /\ UNCHANGED <<vars, timersv, eventsv, pollv, pipev>>

write(a) ==
  /\ a \in writing
  /\ pipe < PipeCap
  /\ pipe' = pipe + 1
  /\ edge' = TRUE
  /\ writing' = writing \ {a}
  /\ calls' = [calls EXCEPT ![a] = @ - 1]
  /\ UNCHANGED <<vars, timersv, eventsv, pollv, drain>>

----------------------------------------------------------------------------
(***************************************************************************)
(* run(), with its calls of tickle().                                      *)
(***************************************************************************)
\* tickle_me: an entry for another thread was passed over, or entries remain
\* behind the one taken.
PassedOver(t, i) ==
  \E j \in 1..i : m_fibers[j].thread \notin {None, t}

TakeAndTickle(t) ==
  /\ Take(t)
  /\ CallTickle(t, IF \E i \in DOMAIN m_fibers :
                        /\ Takeable(t, m_fibers[i])
                        /\ \A j \in 1..(i-1) : ~Takeable(t, m_fibers[j])
                        /\ PassedOver(t, i - 1) \/ i < Len(m_fibers)
                   THEN 1 ELSE 0)
  /\ UNCHANGED <<timersv, eventsv, pollv, pipev>>

NothingAndTickle(t) ==
  /\ TakeNothing(t)
  /\ CallTickle(t, IF PassedOver(t, Len(m_fibers)) THEN 1 ELSE 0)
  /\ UNCHANGED <<timersv, eventsv, pollv, pipev>>

RequeueAndTickle(t) ==
  /\ Requeue(t)
  /\ CallTickle(t, IF m_fibers = <<>> /\ m_fibers' # <<>> THEN 1 ELSE 0)
  /\ UNCHANGED <<timersv, eventsv, pollv, pipev>>

Step(t) ==
  /\ DropFinished(t) \/ swapIn(t) \/ swapOut(t) \/ Uncount(t) \/ IdleReturn(t)
  /\ UNCHANGED iovars

----------------------------------------------------------------------------
(***************************************************************************)
(* What a running task does, the I/O manager's operations included.        *)
(***************************************************************************)
Unarmed(k) == state[k] = "NEW" /\ k \notin timers /\ \A t \in Thread : k \notin cbs[t]

Schedule(t, k, cb) ==
  /\ Unarmed(k)
  /\ TaskSchedule(t, k, cb, None)
  /\ CallIfEmpty(t)
  /\ UNCHANGED <<timersv, eventsv, pollv, pipev>>

\* addTimer(ms, cb): the callback is a new task; an insertion at the front
\* calls onTimerInsertedAtFront(), which is tickle().
Arm(a, k, s) ==
  /\ Unarmed(k)
  /\ timers' = timers \cup {k}
  /\ sleeper' = [sleeper EXCEPT ![k] = s]
  /\ \E n \in {0, 1} : CallTickle(a, n)
  /\ UNCHANGED <<due, eventsv, pollv, pipev>>

addTimer(t, k) ==
  /\ pc[t] = "exec"
  /\ Arm(t, k, None)
  /\ UNCHANGED vars

\* The hooked sleep(): a timer whose callback schedules this fiber, then
\* YieldToHold().
sleep(t, k) == Arm(t, k, ft[t].task) /\ YieldToHold(t)

\* addEvent() for this fiber, then YieldToHold().
addEvent(t) ==
  /\ YieldToHold(t)
  /\ evwait' = evwait \cup {ft[t].task}
  /\ m_pendingEventCount' = m_pendingEventCount + 1
  /\ UNCHANGED <<ready, counting, timersv, pollv, ticklev, pipev>>

\* triggerEvent(): the waiter k is scheduled; its caller a lowers the count
\* when schedule() and the tickle() in it have returned.
triggerEvent(a, k) ==
  /\ evwait' = evwait \ {k}
  /\ ready' = ready \ {k}
  /\ counting' = counting \cup {a}
  /\ Wake(k)
  /\ CallIfEmpty(a)
  /\ UNCHANGED m_pendingEventCount

\* cancelEvent() on the event another fiber waits for.
cancelEvent(t, k) ==
  /\ pc[t] = "exec"
  /\ k \in evwait
  /\ triggerEvent(t, k)
  /\ UNCHANGED <<timersv, pollv, pipev>>

\* Mutant: the count is never lowered.
Lower_Never(t) ==
  /\ t \in counting
  /\ counting' = counting \ {t}
  /\ UNCHANGED <<vars, evwait, ready, m_pendingEventCount, timersv, pollv, ticklev, pipev>>

\* --m_pendingEventCount
Lower(t) ==
  /\ t \in counting
  /\ counting' = counting \ {t}
  /\ m_pendingEventCount' = m_pendingEventCount - 1
  /\ UNCHANGED <<vars, evwait, ready, timersv, pollv, ticklev, pipev>>

\* A timer callback of sleep() schedules the sleeper.
WakeSleeper(t) ==
  LET c == ft[t].task IN
  /\ pc[t] = "exec"
  /\ sleeper[c] # None
  /\ Wake(sleeper[c])
  /\ sleeper' = [sleeper EXCEPT ![c] = None]
  /\ CallIfEmpty(t)
  /\ UNCHANGED <<timers, due, eventsv, pollv, pipev>>

TaskStep(t) ==
  \/ WakeSleeper(t)
  \/ /\ pc[t] = "exec" /\ sleeper[ft[t].task] = None
     /\ \/ (YieldToReady(t) \/ MainFunc(t)) /\ UNCHANGED iovars
        \/ addEvent(t)
        \/ \E k \in Task : \/ Schedule(t, k, TRUE) \/ addTimer(t, k)
                           \/ yields[ft[t].task] < MaxYields /\ sleep(t, k)
                           \/ cancelEvent(t, k)

----------------------------------------------------------------------------
(***************************************************************************)
(* stopping(timeout): three reads, not one.  getNextTimer() comes first,   *)
(* then m_pendingEventCount, then Scheduler::stopping().                   *)
(***************************************************************************)
At(a, place) == iopc[a] = place
Goto(a, place) == iopc' = [iopc EXCEPT ![a] = place]

\* Mutant: timers are not looked at.
TimersRead_Skipped(a) == At(a, "timers") /\ Goto(a, "pending")
TimersRead(a) == At(a, "timers") /\ timers = {} /\ Goto(a, "pending")
PendingRead(a) == At(a, "pending") /\ m_pendingEventCount = 0 /\ Goto(a, "sched")
NotStopping(a) ==
  \/ At(a, "timers") /\ timers # {}
  \/ At(a, "pending") /\ m_pendingEventCount # 0
  \/ At(a, "sched") /\ ~stopping

(***************************************************************************)
(* idle(): stopping(), epoll_wait(), listExpiredCb(), the harvested        *)
(* events, swapOut().                                                      *)
(***************************************************************************)
Stay == UNCHANGED <<vars, timersv, eventsv, cbs, got, ticklev, pipev>>

IdleCheck(t) ==
  /\ pc[t] = "idle"
  /\ \/ (TimersRead(t) \/ PendingRead(t)) /\ Stay
     \/ NotStopping(t) /\ Goto(t, "wait") /\ Stay
     \/ /\ At(t, "sched") /\ stopping
        /\ Goto(t, "timers")
        /\ idle(t)
        /\ UNCHANGED <<timersv, eventsv, cbs, got, ticklev, pipev>>

\* Returns with what is ready or, at the latest after MAX_TIMEOUT, nothing.
epoll_wait(t) ==
  /\ pc[t] = "idle" /\ At(t, "wait")
  /\ Goto(t, "list")
  /\ got' = [got EXCEPT ![t] = ready]
  /\ ready' = {}
  /\ drain' = IF edge THEN drain \cup {t} ELSE drain
  /\ edge' = FALSE
  /\ UNCHANGED <<vars, timersv, m_pendingEventCount, evwait, counting, cbs,
                 ticklev, pipe>>

\* Mutant: the timers that are not due are erased too.
listExpiredCb_ErasesAll(t) ==
  /\ pc[t] = "idle" /\ At(t, "list")
  /\ Goto(t, "cbs")
  /\ cbs' = [cbs EXCEPT ![t] = due]
  /\ timers' = {}
  /\ due' = {}
  /\ UNCHANGED <<vars, sleeper, eventsv, got, ticklev, pipev>>

listExpiredCb(t) ==
  /\ pc[t] = "idle" /\ At(t, "list")
  /\ Goto(t, "cbs")
  /\ cbs' = [cbs EXCEPT ![t] = due]
  /\ timers' = timers \ due
  /\ due' = {}
  /\ UNCHANGED <<vars, sleeper, eventsv, got, ticklev, pipev>>

\* schedule(cbs.begin(), cbs.end())
ScheduleExpired(t) ==
  LET S == cbs[t] IN
  /\ pc[t] = "idle" /\ At(t, "cbs")
  /\ Goto(t, "events")
  /\ cbs' = [cbs EXCEPT ![t] = {}]
  /\ \E s \in [1..Cardinality(S) -> S] :
       /\ Range(s) = S
       /\ m_fibers' = m_fibers \o
            [i \in DOMAIN s |-> [task |-> s[i], cb |-> TRUE, thread |-> None]]
  /\ state' = [k \in Task |-> IF k \in S THEN "CB" ELSE state[k]]
  /\ CallTickle(t, IF S # {} /\ m_fibers = <<>> THEN 1 ELSE 0)
  /\ UNCHANGED <<m_active_thread_count, m_idle_thread_count, m_stopping,
                 m_auto_stop, pc, ft, idle_term, owner, starts, waiting,
                 yields, failed, timersv, eventsv, got, pipev>>

\* A harvested event; the wait may have been cancelled meanwhile.
HandleEvent(t, k) ==
  /\ pc[t] = "idle" /\ At(t, "events")
  /\ k \in got[t]
  /\ got' = [got EXCEPT ![t] = @ \ {k}]
  /\ IF k \in evwait THEN triggerEvent(t, k)
     ELSE UNCHANGED <<vars, eventsv, ticklev>>
  /\ UNCHANGED <<timersv, iopc, cbs, pipev>>

DrainPipe(t) ==
  /\ pc[t] = "idle" /\ At(t, "events")
  /\ t \in drain
  /\ drain' = drain \ {t}
  /\ pipe' = 0
  /\ UNCHANGED <<vars, timersv, eventsv, pollv, ticklev, edge>>

\* The idle fiber yields to run() and will go on with stopping().
IdleOut(t) ==
  /\ pc[t] = "idle" /\ At(t, "events")
  /\ got[t] = {} /\ t \notin drain
  /\ Goto(t, "timers")
  /\ pc' = [pc EXCEPT ![t] = "idleret"]
  /\ UNCHANGED <<m_fibers, m_active_thread_count, m_idle_thread_count,
                 m_stopping, m_auto_stop, state, ft, idle_term, owner, starts,
                 waiting, yields, failed, timersv, eventsv, cbs, got, ticklev,
                 pipev>>

Poll(t) ==
  \/ IdleCheck(t) \/ epoll_wait(t) \/ listExpiredCb(t) \/ ScheduleExpired(t)
  \/ \E k \in Task : HandleEvent(t, k)
  \/ DrainPipe(t) \/ IdleOut(t)

IORun(t) ==
  \/ tickle(t) \/ write(t)
  \/ Free(t) /\ Lower(t)
  \/ /\ Free(t) /\ t \notin counting
     /\ \/ TakeAndTickle(t) \/ NothingAndTickle(t) \/ RequeueAndTickle(t)
        \/ Step(t) \/ TaskStep(t) \/ Poll(t)

----------------------------------------------------------------------------
(***************************************************************************)
(* The owner: the constructor starts the threads, the destructor stops     *)
(* them.                                                                   *)
(***************************************************************************)
OwnerStep ==
  \/ start /\ UNCHANGED iovars
  \/ /\ owner = "started"
     /\ \E k \in Task :
          \/ /\ Unarmed(k) /\ OwnerSchedule(k, TRUE, None) /\ CallIfEmpty(Root)
             /\ UNCHANGED <<timersv, eventsv, pollv, pipev>>
          \/ Arm(Root, k, None) /\ UNCHANGED vars

IOStop ==
  \/ /\ StopBegin(timers = {} /\ m_pendingEventCount = 0 /\ m_fibers = <<>>
                  /\ m_active_thread_count = 0)
     /\ UNCHANGED iovars
  \/ /\ StopFlag
     /\ CallTickle(Root, Cardinality(Worker) + (IF UseCaller THEN 1 ELSE 0))
     /\ UNCHANGED <<timersv, eventsv, pollv, pipev>>
  \/ /\ owner = "root"
     /\ \/ (TimersRead(Root) \/ PendingRead(Root)) /\ Stay
        \/ /\ NotStopping(Root) /\ Goto(Root, "timers") /\ StopRoot(FALSE)
           /\ UNCHANGED <<timersv, eventsv, cbs, got, ticklev, pipev>>
        \/ /\ At(Root, "sched") /\ stopping /\ Goto(Root, "timers") /\ StopRoot(TRUE)
           /\ UNCHANGED <<timersv, eventsv, cbs, got, ticklev, pipev>>
  \/ StopJoin /\ UNCHANGED iovars

OwnerTickle == owner # "incall" /\ (tickle(Root) \/ write(Root))

\* External: a timer's time comes, a descriptor becomes ready.
Due(k) ==
  /\ k \in timers \ due
  /\ due' = due \cup {k}
  /\ UNCHANGED <<vars, timers, sleeper, eventsv, pollv, ticklev, pipev>>

Ready(k) ==
  /\ k \in evwait \ ready
  /\ \A t \in Thread : k \notin got[t]
  /\ ready' = ready \cup {k}
  /\ UNCHANGED <<vars, timersv, m_pendingEventCount, evwait, counting, pollv,
                 ticklev, pipev>>

IONext ==
  \/ \E t \in Thread : IORun(t)
  \/ OwnerTickle
  \/ Free(Root) /\ (OwnerStep \/ IOStop)
  \/ \E k \in Task : Due(k) \/ Ready(k)

IOSpec == IOInit /\ [][IONext]_allvars

(***************************************************************************)
(* Fairness: threads run (epoll_wait() returns after at most MAX_TIMEOUT), *)
(* a stop() that was entered goes on, timers become due, peers answer.     *)
(***************************************************************************)
IOFairSpec ==
  /\ IOSpec
  /\ \A t \in Thread : WF_allvars(IORun(t))
  /\ WF_allvars(OwnerTickle)
  /\ WF_allvars(Free(Root) /\ IOStop /\ owner # "started")
  /\ \A k \in Task : WF_allvars(Due(k)) /\ WF_allvars(Ready(k))

----------------------------------------------------------------------------
(***************************************************************************)
(* Properties.                                                             *)
(***************************************************************************)

\* Every variable has its type.
IOTypeOK ==
  /\ TypeOK
  /\ due \subseteq timers /\ timers \subseteq Task
  /\ sleeper \in [Task -> Task \cup {None}]
  /\ m_pendingEventCount \in Nat
  /\ evwait \subseteq waiting /\ ready \subseteq evwait
  /\ counting \subseteq Thread /\ writing \subseteq Actor
  /\ iopc \in [Actor -> {"timers", "pending", "sched", "wait", "list", "cbs", "events"}]
  /\ cbs \in [Thread -> SUBSET Task] /\ got \in [Thread -> SUBSET Task]
  /\ calls \in [Actor -> Nat]
  /\ pipe \in 0..PipeCap /\ edge \in BOOLEAN /\ drain \subseteq Thread

\* m_pendingEventCount never misses a wait: what stopping() reads is the
\* number of waits and of triggers whose decrement is still to come.
PendingCounted == m_pendingEventCount = Cardinality(evwait) + Cardinality(counting)

\* When stop() returns, no timer is armed, no callback is on its way, no fiber
\* waits and no task is unfinished.  It holds for one thread; with several,
\* each decides to leave on three reads taken at different times.
IOStopComplete ==
  owner = "stopped" =>
    /\ timers = {} /\ evwait = {}
    /\ \A t \in Thread : cbs[t] = {}
    /\ \A k \in Task : state[k] \in {"NEW"} \cup Finished

\* The destructor that follows stop() destroys no held fiber: FdContexts and
\* timers, deleted with the manager, own none (~Fiber() asserts it).
NoneHeldAtEnd == owner = "stopped" => \A k \in Task : state[k] # "HOLD"

\* A fiber that waits is never forgotten: its event is registered, or the
\* callback of its timer is armed, expired, queued or running.
HeldHasWaker ==
  \A k \in waiting :
    \/ k \in evwait
    \/ \E c \in Task : sleeper[c] = k /\
         (c \in timers \/ Queued(c) \/ \E t \in Thread : c \in cbs[t] \/ ft[t].task = c)

\* tickle() makes an epoll_wait() that is in progress return.
TickleWakes ==
  [][\A a \in Actor :
       calls'[a] < calls[a] /\ (\E t \in Thread : pc[t] = "idle" /\ At(t, "wait"))
         => edge']_allvars

\* stop() returns once entered: timers, events, callbacks and fibers are all
\* served by threads that nothing but the poll timeout wakes.
IOStopReturns == owner = "flag" ~> owner = "stopped"

\* A fiber that yields to READY runs again.
ReadyRuns == \A k \in Task : state[k] = "READY" ~> state[k] # "READY"
============================================================================
