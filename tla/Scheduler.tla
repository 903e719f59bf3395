----------------------------- MODULE Scheduler -----------------------------
(***************************************************************************)
(* The M:N coroutine scheduler of hx_sylar: scheduler.h, scheduler.cc and  *)
(* the part of fiber.cc it drives.  Worker threads, and the caller's       *)
(* thread while it is inside stop(), execute run(): they take entries from *)
(* the queue m_fibers_, switch to the fiber of the entry, and decide from  *)
(* the state the fiber left behind whether to queue it again.              *)
(*                                                                         *)
(* A task is the life of one scheduled function.  Its fiber is identified  *)
(* with it: the cb_fiber a thread caches is reused only after the function *)
(* it carried has finished, so reuse is a renaming.  What a task computes  *)
(* is left out; what it does to the scheduler is kept: it schedules other  *)
(* tasks, yields to READY, registers itself with a waker and yields to     *)
(* HOLD, returns or throws.                                                *)
(***************************************************************************)
EXTENDS Integers, Sequences, Functions, FiniteSets

CONSTANTS
  Worker,     \* the threads start() creates
  Root,       \* the thread that constructed the scheduler
  UseCaller,  \* the constructor's use_caller
  Task,       \* scheduled functions
  None,       \* thread_ = -1 "any thread", and the task of no entry
  OwnerPins,  \* the thread arguments the owner passes to schedule()
  TaskPins,   \* the thread arguments a task passes to schedule()
  MaxYields,  \* bound: yields per task
  MaxStarts   \* bound: calls of start()

Thread == IF UseCaller THEN Worker \cup {Root} ELSE Worker
NoEntry == [task |-> None, cb |-> FALSE, thread |-> None]

ASSUME SchedulerAssumption ==
  /\ UseCaller \in BOOLEAN
  /\ Root \notin Worker
  /\ None \notin Thread
  /\ None \notin Task
  /\ OwnerPins \cup TaskPins \subseteq Thread \cup {None}
  /\ IsFiniteSet(Worker)
  /\ MaxYields \in Nat
  /\ MaxStarts \in Nat

\* The constructor's HX_ASSERT(threads > 0).
ASSUME ThreadAssumption == Thread # {}

VARIABLES
  m_fibers,               \* the queue of FiberAndThread entries
  m_active_thread_count,
  m_idle_thread_count,
  m_stopping,
  m_auto_stop,
  state,                  \* m_state of each task's fiber
  pc,                     \* where each thread is in run()
  ft,                     \* the entry a thread has taken
  idle_term,              \* the thread's idle fiber has returned (TERM)
  owner,                  \* where the owner of the scheduler is
  starts,                 \* how often start() was called
  waiting,                \* fibers some waker will schedule
  yields,                 \* yields of each task so far
  failed                  \* assertions that have failed; the process is dead

vars == <<m_fibers, m_active_thread_count, m_idle_thread_count, m_stopping,
          m_auto_stop, state, pc, ft, idle_term, owner, starts, waiting,
          yields, failed>>

\* "NEW" is a task nobody has scheduled, "CB" a queued function without a fiber.
State == {"NEW", "CB", "INIT", "HOLD", "EXEC", "TERM", "READY", "EXCEPT"}
Finished == {"TERM", "EXCEPT"}
PC == {"off", "scan", "dispatch", "exec", "wait", "leave", "ret", "post",
       "idle", "idleret", "exit"}
Owner == {"new", "started", "flag", "root", "incall", "join", "stopped"}
Entry == [task : Task, cb : BOOLEAN, thread : Thread \cup {None}]
Assertion == {"assert_not_EXEC", "never_reach"}

\* m_fibers_.erase(it)
erase(q, i) == SubSeq(q, 1, i - 1) \o SubSeq(q, i + 1, Len(q))

Queued(k) == \E e \in Range(m_fibers) : e.task = k

\* The entry is at hand and counted in m_active_thread_count_.
Active == {"dispatch", "exec", "wait", "leave", "ret"}
\* The thread's registers and stack are those of the task's fiber.
OnCpu(t, k) == pc[t] \in {"exec", "wait", "leave"} /\ ft[t].task = k

----------------------------------------------------------------------------
Init ==
  /\ m_fibers = <<>>
  /\ m_active_thread_count = 0
  /\ m_idle_thread_count = 0
  /\ m_stopping = TRUE
  /\ m_auto_stop = FALSE
  /\ state = [k \in Task |-> "NEW"]
  /\ pc = [t \in Thread |-> "off"]
  /\ ft = [t \in Thread |-> NoEntry]
  /\ idle_term = [t \in Thread |-> FALSE]
  /\ owner = "new"
  /\ starts = 0
  /\ waiting = {}
  /\ yields = [k \in Task |-> 0]
  /\ failed = {}

(***************************************************************************)
(* schedule(): the entry goes to the back of the queue under m_mutex_.     *)
(***************************************************************************)
scheduleNoLock(k, cb, thread) ==
  m_fibers' = Append(m_fibers, [task |-> k, cb |-> cb, thread |-> thread])

ScheduleNew(k, cb, thread) ==
  /\ state[k] = "NEW"
  /\ state' = [state EXCEPT ![k] = IF cb THEN "CB" ELSE "INIT"]
  /\ scheduleNoLock(k, cb, thread)

\* The owner schedules a new task.
OwnerSchedule(k, cb, thread) ==
  /\ owner \in {"new", "started"}
  /\ ScheduleNew(k, cb, thread)
  /\ UNCHANGED <<m_active_thread_count, m_idle_thread_count, m_stopping,
                 m_auto_stop, pc, ft, idle_term, owner, starts, waiting,
                 yields, failed>>

\* The owner schedules a fiber it has already scheduled.
OwnerScheduleAgain(k) ==
  /\ owner \in {"new", "started"}
  /\ state[k] = "INIT"
  /\ Len(m_fibers) < Cardinality(Task)
  /\ scheduleNoLock(k, FALSE, None)
  /\ UNCHANGED <<m_active_thread_count, m_idle_thread_count, m_stopping,
                 m_auto_stop, state, pc, ft, idle_term, owner, starts,
                 waiting, yields, failed>>

----------------------------------------------------------------------------
(***************************************************************************)
(* start() and stop(), called by the owner.                                *)
(***************************************************************************)

start ==
  /\ owner \in {"new", "stopped"}
  /\ starts < MaxStarts
  /\ m_stopping
  /\ m_stopping' = FALSE
  /\ pc' = [t \in Thread |-> IF t \in Worker THEN "scan" ELSE pc[t]]
  /\ idle_term' = [t \in Thread |-> IF t \in Worker THEN FALSE ELSE idle_term[t]]
  /\ owner' = "started"
  /\ starts' = starts + 1
  /\ UNCHANGED <<m_fibers, m_active_thread_count, m_idle_thread_count,
                 m_auto_stop, state, ft, waiting, yields, failed>>

\* Scheduler::stopping()
stopping ==
  m_auto_stop /\ m_stopping /\ m_fibers = <<>> /\ m_active_thread_count = 0

\* stop() up to the early return for a scheduler without worker threads;
\* drained is what stopping() answers once both flags are set.
StopBegin(drained) ==
  /\ owner = "started"
  /\ m_auto_stop' = TRUE
  /\ IF UseCaller /\ Worker = {}
     THEN /\ m_stopping' = TRUE
          /\ owner' = IF drained THEN "stopped" ELSE "flag"
     ELSE /\ owner' = "flag"
          /\ UNCHANGED m_stopping
  /\ UNCHANGED <<m_fibers, m_active_thread_count, m_idle_thread_count, state,
                 pc, ft, idle_term, starts, waiting, yields, failed>>

StopFlag ==
  /\ owner = "flag"
  /\ m_stopping' = TRUE
  /\ owner' = IF UseCaller THEN "root" ELSE "join"
  /\ UNCHANGED <<m_fibers, m_active_thread_count, m_idle_thread_count,
                 m_auto_stop, state, pc, ft, idle_term, starts, waiting,
                 yields, failed>>

\* if (!stopping()) m_root_fiber_->call(): the caller's thread enters run().
\* A root fiber that has returned is resumed past its end.
StopRoot(drained) ==
  /\ owner = "root"
  /\ IF drained
     THEN owner' = "join" /\ UNCHANGED <<pc, failed>>
     ELSE IF pc[Root] = "exit"
     THEN failed' = {"never_reach"} /\ UNCHANGED <<pc, owner>>
     ELSE owner' = "incall" /\ pc' = [pc EXCEPT ![Root] = "scan"] /\ UNCHANGED failed
  /\ UNCHANGED <<m_fibers, m_active_thread_count, m_idle_thread_count,
                 m_stopping, m_auto_stop, state, ft, idle_term, starts,
                 waiting, yields>>

\* Mutant: stop() does not join the worker threads.
StopJoin_NoJoin ==
  /\ \/ owner = "join"
     \/ owner = "incall" /\ pc[Root] = "exit"
  /\ owner' = "stopped"
  /\ UNCHANGED <<m_fibers, m_active_thread_count, m_idle_thread_count,
                 m_stopping, m_auto_stop, state, pc, ft, idle_term, starts,
                 waiting, yields, failed>>

StopJoin ==
  /\ \/ owner = "join"
     \/ owner = "incall" /\ pc[Root] = "exit"
  /\ \A t \in Worker : pc[t] = "exit"
  /\ owner' = "stopped"
  /\ UNCHANGED <<m_fibers, m_active_thread_count, m_idle_thread_count,
                 m_stopping, m_auto_stop, state, pc, ft, idle_term, starts,
                 waiting, yields, failed>>

----------------------------------------------------------------------------
(***************************************************************************)
(* run(): take the first entry that is not meant for another thread and    *)
(* whose fiber is not executing; the search holds m_mutex_.                *)
(***************************************************************************)
\* Mutant: an executing fiber is not skipped.
Takeable_Executing(t, e) == e.thread \in {None, t}
\* Mutant: thread_ = -1 is not recognised as "any thread".
Takeable_PinnedOnly(t, e) == e.thread = t /\ (e.cb \/ state[e.task] # "EXEC")

Takeable(t, e) ==
  /\ e.thread \in {None, t}
  /\ e.cb \/ state[e.task] # "EXEC"

Take(t) ==
  /\ pc[t] = "scan"
  /\ \E i \in DOMAIN m_fibers :
       /\ Takeable(t, m_fibers[i])
       /\ \A j \in 1..(i-1) : ~Takeable(t, m_fibers[j])
       /\ ft' = [ft EXCEPT ![t] = m_fibers[i]]
       /\ m_fibers' = erase(m_fibers, i)
  /\ m_active_thread_count' = m_active_thread_count + 1
  /\ pc' = [pc EXCEPT ![t] = "dispatch"]
  /\ UNCHANGED <<m_idle_thread_count, m_stopping, m_auto_stop, state,
                 idle_term, owner, starts, waiting, yields, failed>>

\* Nothing to take: leave run() if the idle fiber has returned, else switch
\* to the idle fiber.
TakeNothing(t) ==
  /\ pc[t] = "scan"
  /\ \A i \in DOMAIN m_fibers : ~Takeable(t, m_fibers[i])
  /\ IF idle_term[t]
     THEN pc' = [pc EXCEPT ![t] = "exit"] /\ UNCHANGED m_idle_thread_count
     ELSE /\ pc' = [pc EXCEPT ![t] = "idle"]
          /\ m_idle_thread_count' = m_idle_thread_count + 1
  /\ UNCHANGED <<m_fibers, m_active_thread_count, m_stopping, m_auto_stop,
                 state, ft, idle_term, owner, starts, waiting, yields, failed>>

\* The entry's fiber had finished already: drop the entry.
DropFinished(t) ==
  /\ pc[t] = "dispatch"
  /\ ~ft[t].cb /\ state[ft[t].task] \in Finished
  /\ m_active_thread_count' = m_active_thread_count - 1
  /\ ft' = [ft EXCEPT ![t] = NoEntry]
  /\ pc' = [pc EXCEPT ![t] = "scan"]
  /\ UNCHANGED <<m_fibers, m_idle_thread_count, m_stopping, m_auto_stop,
                 state, idle_term, owner, starts, waiting, yields, failed>>

\* Mutant: the fiber's TERM and EXCEPT are not looked at.
swapIn_Finished(t) ==
  LET k == ft[t].task IN
  /\ pc[t] = "dispatch"
  /\ state' = [state EXCEPT ![k] = "EXEC"]
  /\ pc' = [pc EXCEPT ![t] = "exec"]
  /\ UNCHANGED <<m_fibers, m_active_thread_count, m_idle_thread_count,
                 m_stopping, m_auto_stop, ft, idle_term, owner, starts,
                 waiting, yields, failed>>

\* Fiber::swapIn(), which asserts that the fiber is not executing.
swapIn(t) ==
  LET k == ft[t].task IN
  /\ pc[t] = "dispatch"
  /\ ft[t].cb \/ state[k] \notin Finished
  /\ IF state[k] = "EXEC"
     THEN failed' = {"assert_not_EXEC"} /\ UNCHANGED <<state, pc>>
     ELSE /\ state' = [state EXCEPT ![k] = "EXEC"]
          /\ pc' = [pc EXCEPT ![t] = "exec"]
          /\ UNCHANGED failed
  /\ UNCHANGED <<m_fibers, m_active_thread_count, m_idle_thread_count,
                 m_stopping, m_auto_stop, ft, idle_term, owner, starts,
                 waiting, yields>>

----------------------------------------------------------------------------
(***************************************************************************)
(* What the running task may do.                                           *)
(***************************************************************************)
TaskSchedule(t, k, cb, thread) ==
  /\ pc[t] = "exec"
  /\ ScheduleNew(k, cb, thread)
  /\ UNCHANGED <<m_active_thread_count, m_idle_thread_count, m_stopping,
                 m_auto_stop, pc, ft, idle_term, owner, starts, waiting,
                 yields, failed>>

\* Fiber::YieldToReady() sets READY before it switches away.
YieldToReady(t) ==
  LET k == ft[t].task IN
  /\ pc[t] = "exec"
  /\ yields[k] < MaxYields
  /\ yields' = [yields EXCEPT ![k] = @ + 1]
  /\ state' = [state EXCEPT ![k] = "READY"]
  /\ pc' = [pc EXCEPT ![t] = "leave"]
  /\ UNCHANGED <<m_fibers, m_active_thread_count, m_idle_thread_count,
                 m_stopping, m_auto_stop, ft, idle_term, owner, starts,
                 waiting, failed>>

\* Mutant: HOLD is set before the context is saved.
YieldToHold_Early(t) ==
  LET k == ft[t].task IN
  /\ pc[t] = "exec"
  /\ yields[k] < MaxYields
  /\ yields' = [yields EXCEPT ![k] = @ + 1]
  /\ waiting' = waiting \cup {k}
  /\ state' = [state EXCEPT ![k] = "HOLD"]
  /\ pc' = [pc EXCEPT ![t] = "wait"]
  /\ UNCHANGED <<m_fibers, m_active_thread_count, m_idle_thread_count,
                 m_stopping, m_auto_stop, ft, idle_term, owner, starts, failed>>

\* The fiber hands itself to a waker (a timer or an fd event) and is about to
\* call Fiber::YieldToHold(), which leaves m_state at EXEC.
YieldToHold(t) ==
  LET k == ft[t].task IN
  /\ pc[t] = "exec"
  /\ yields[k] < MaxYields
  /\ yields' = [yields EXCEPT ![k] = @ + 1]
  /\ waiting' = waiting \cup {k}
  /\ pc' = [pc EXCEPT ![t] = "wait"]
  /\ UNCHANGED <<m_fibers, m_active_thread_count, m_idle_thread_count,
                 m_stopping, m_auto_stop, state, ft, idle_term, owner,
                 starts, failed>>

\* Fiber::MainFunc(): the function returned or threw.
MainFunc(t) ==
  /\ pc[t] = "exec"
  /\ \E s \in Finished : state' = [state EXCEPT ![ft[t].task] = s]
  /\ pc' = [pc EXCEPT ![t] = "leave"]
  /\ UNCHANGED <<m_fibers, m_active_thread_count, m_idle_thread_count,
                 m_stopping, m_auto_stop, ft, idle_term, owner, starts,
                 waiting, yields, failed>>

\* Fiber::swapOut(): the context is saved, run() continues behind swapIn().
swapOut(t) ==
  /\ pc[t] \in {"wait", "leave"}
  /\ pc' = [pc EXCEPT ![t] = "ret"]
  /\ UNCHANGED <<m_fibers, m_active_thread_count, m_idle_thread_count,
                 m_stopping, m_auto_stop, state, ft, idle_term, owner,
                 starts, waiting, yields, failed>>

\* The waker schedules the fiber that was handed to it.
Wake(k) ==
  /\ k \in waiting
  /\ waiting' = waiting \ {k}
  /\ scheduleNoLock(k, FALSE, None)
  /\ UNCHANGED <<m_active_thread_count, m_idle_thread_count, m_stopping,
                 m_auto_stop, state, pc, ft, idle_term, owner, starts,
                 yields, failed>>

----------------------------------------------------------------------------
(***************************************************************************)
(* run() after swapIn() has returned.                                      *)
(***************************************************************************)
\* Mutant: only a fiber that comes back unfinished is uncounted.
Uncount_Unfinished(t) ==
  /\ pc[t] = "ret"
  /\ m_active_thread_count' =
       m_active_thread_count - (IF state[ft[t].task] \in Finished THEN 0 ELSE 1)
  /\ pc' = [pc EXCEPT ![t] = "post"]
  /\ UNCHANGED <<m_fibers, m_idle_thread_count, m_stopping, m_auto_stop,
                 state, ft, idle_term, owner, starts, waiting, yields, failed>>

Uncount(t) ==
  /\ pc[t] = "ret"
  /\ m_active_thread_count' = m_active_thread_count - 1
  /\ pc' = [pc EXCEPT ![t] = "post"]
  /\ UNCHANGED <<m_fibers, m_idle_thread_count, m_stopping, m_auto_stop,
                 state, ft, idle_term, owner, starts, waiting, yields, failed>>

\* Mutant: a fiber that yielded to READY is treated like a held one.
Requeue_ReadyHeld(t) ==
  LET k == ft[t].task IN
  /\ pc[t] = "post"
  /\ \/ state[k] \in Finished /\ UNCHANGED state
     \/ state[k] \notin Finished /\ state' = [state EXCEPT ![k] = "HOLD"]
  /\ ft' = [ft EXCEPT ![t] = NoEntry]
  /\ pc' = [pc EXCEPT ![t] = "scan"]
  /\ UNCHANGED <<m_fibers, m_active_thread_count, m_idle_thread_count,
                 m_stopping, m_auto_stop, idle_term, owner, starts, waiting,
                 yields, failed>>

\* READY: schedule again, without the thread it was pinned to.  Finished:
\* forget it.  Otherwise only now does the fiber become HOLD.
Requeue(t) ==
  LET k == ft[t].task IN
  /\ pc[t] = "post"
  /\ \/ state[k] = "READY" /\ scheduleNoLock(k, FALSE, None) /\ UNCHANGED state
     \/ state[k] \in Finished /\ UNCHANGED <<m_fibers, state>>
     \/ /\ state[k] \notin Finished \cup {"READY"}
        /\ state' = [state EXCEPT ![k] = "HOLD"]
        /\ UNCHANGED m_fibers
  /\ ft' = [ft EXCEPT ![t] = NoEntry]
  /\ pc' = [pc EXCEPT ![t] = "scan"]
  /\ UNCHANGED <<m_active_thread_count, m_idle_thread_count, m_stopping,
                 m_auto_stop, idle_term, owner, starts, waiting, yields, failed>>

\* Scheduler::idle(): return when stopping(), else yield to run().
idle(t) ==
  /\ pc[t] = "idle"
  /\ idle_term' = [idle_term EXCEPT ![t] = stopping]
  /\ pc' = [pc EXCEPT ![t] = "idleret"]
  /\ UNCHANGED <<m_fibers, m_active_thread_count, m_idle_thread_count,
                 m_stopping, m_auto_stop, state, ft, owner, starts, waiting,
                 yields, failed>>

IdleReturn(t) ==
  /\ pc[t] = "idleret"
  /\ m_idle_thread_count' = m_idle_thread_count - 1
  /\ pc' = [pc EXCEPT ![t] = "scan"]
  /\ UNCHANGED <<m_fibers, m_active_thread_count, m_stopping, m_auto_stop,
                 state, ft, idle_term, owner, starts, waiting, yields, failed>>

----------------------------------------------------------------------------
Body(t) ==
  \/ \E k \in Task, cb \in BOOLEAN, p \in TaskPins : TaskSchedule(t, k, cb, p)
  \/ YieldToReady(t)
  \/ YieldToHold(t)
  \/ MainFunc(t)

RunLoop(t) ==
  \/ Take(t) \/ TakeNothing(t) \/ DropFinished(t) \/ swapIn(t)
  \/ Body(t) \/ swapOut(t) \/ Uncount(t) \/ Requeue(t)

run(t) == RunLoop(t) \/ idle(t) \/ IdleReturn(t)

stop ==
  \/ StopBegin(m_fibers = <<>> /\ m_active_thread_count = 0)
  \/ StopFlag
  \/ StopRoot(stopping)
  \/ StopJoin

Next ==
  /\ failed = {}
  /\ \/ \E k \in Task, cb \in BOOLEAN, p \in OwnerPins : OwnerSchedule(k, cb, p)
     \/ start
     \/ stop
     \/ \E t \in Thread : run(t)
     \/ \E k \in Task : Wake(k)

Spec == Init /\ [][Next]_vars

\* The owner may also schedule a fiber twice.
NextAgain ==
  \/ Next
  \/ failed = {} /\ \E k \in Task : OwnerScheduleAgain(k)

SpecAgain == Init /\ [][NextAgain]_vars

(***************************************************************************)
(* Fairness: a thread that can take a step of run() takes one, the threads *)
(* being scheduled by the kernel and a task consisting of finitely many    *)
(* steps; a stop() that has been entered goes on; a waker (timer, event or *)
(* cancellation) fires.  Nothing obliges the owner to call anything.       *)
(***************************************************************************)
Fairness ==
  /\ \A t \in Thread : WF_vars(failed = {} /\ run(t))
  /\ WF_vars(failed = {} /\ stop /\ owner # "started")
  /\ \A k \in Task : WF_vars(failed = {} /\ Wake(k))

FairSpec == Spec /\ Fairness

----------------------------------------------------------------------------
(***************************************************************************)
(* Properties.                                                             *)
(***************************************************************************)

\* Every variable has its type; m_fibers_ holds well-formed entries only.
TypeOK ==
  /\ m_fibers \in Seq(Entry)
  /\ m_active_thread_count \in Int
  /\ m_idle_thread_count \in Int
  /\ m_stopping \in BOOLEAN
  /\ m_auto_stop \in BOOLEAN
  /\ state \in [Task -> State]
  /\ pc \in [Thread -> PC]
  /\ ft \in [Thread -> Entry \cup {NoEntry}]
  /\ idle_term \in [Thread -> BOOLEAN]
  /\ owner \in Owner
  /\ starts \in Nat
  /\ waiting \subseteq Task
  /\ yields \in [Task -> Nat]
  /\ failed \subseteq Assertion

\* A fiber's stack is never in use by two threads, although a waker may queue
\* a fiber that is still executing (it registers before it switches away) and
\* run() reads m_state without a lock.
OneThreadPerFiber ==
  \A t, u \in Thread, k \in Task : OnCpu(t, k) /\ OnCpu(u, k) => t = u

\* swapIn()'s HX_ASSERT(m_state != EXEC) and MainFunc()'s "never_reach" hold:
\* no fiber is entered while it runs or after it has returned.
NoAssertionFails == failed = {}

\* No fiber is lost: one that has to run again is in the queue, in a thread's
\* hand or known to a waker.  (~Fiber() aborts on a fiber in HOLD or READY.)
NoFiberLost ==
  \A k \in Task :
    state[k] \in {"CB", "INIT", "HOLD", "READY"} =>
      Queued(k) \/ k \in waiting \/ \E t \in Thread : ft[t].task = k

\* m_active_thread_count_ and m_idle_thread_count_, which stopping() and
\* hasIdleThreads() trust, count the threads that hold an entry and the
\* threads inside their idle fiber.
CountersExact ==
  /\ m_active_thread_count = Cardinality({t \in Thread : pc[t] \in Active})
  /\ m_idle_thread_count = Cardinality({t \in Thread : pc[t] \in {"idle", "idleret"}})

\* A function that has returned or thrown is never entered again, even if its
\* fiber was scheduled more than once.
FinishedForGood ==
  [][\A k \in Task : state[k] \in Finished => state'[k] = state[k]]_vars

\* When stop() returns, every task that was scheduled has finished or is held
\* by its waker: no accepted task is left unstarted, runnable or half run.
StopDrains ==
  owner = "stopped" =>
    \A k \in Task : state[k] \in {"NEW", "HOLD"} \cup Finished

\* stop() returns once it has been entered, in spite of threads that decide to
\* leave run() while others are still queueing work.
StopReturns == owner = "flag" ~> owner = "stopped"

\* After start(), a queued task is taken from the queue or stop() returns: no
\* entry starves behind the others, is passed over for ever because its fiber
\* was executing, or waits for a thread that has left run().
QueuedIsTaken ==
  \A k \in Task :
    Queued(k) /\ owner # "new" ~> (~Queued(k) \/ owner = "stopped")
============================================================================
