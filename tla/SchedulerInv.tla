---------------------------- MODULE SchedulerInv ----------------------------
(***************************************************************************)
(* The inductive invariant behind OneThreadPerFiber, NoFiberLost and the   *)
(* assertion in swapIn().                                                  *)
(***************************************************************************)
EXTENDS Scheduler

\* No two entries of the queue are for the same fiber.
DistinctTasks(q) ==
  \A i, j \in DOMAIN q : q[i].task = q[j].task => i = j

\* The thread holds the entry of task k, counted or about to be given back.
Holds(t, k) == ft[t].task = k

\* The fiber has registered with its waker and is on its way out.
Parking(t) == pc[t] \in {"wait", "ret", "post"} /\ state[ft[t].task] = "EXEC"

\* Exactly the threads between Take and Requeue hold an entry, and the fiber
\* of that entry is in a state that fits the thread's position.
HandInv ==
  \A t \in Thread :
    /\ pc[t] \in Active \cup {"post"} => ft[t] \in Entry
    /\ pc[t] \notin Active \cup {"post"} => ft[t] = NoEntry
    /\ pc[t] = "dispatch" =>
         state[ft[t].task] \in IF ft[t].cb THEN {"CB"} ELSE {"INIT", "HOLD", "READY"}
    /\ pc[t] \in {"exec", "wait"} => state[ft[t].task] = "EXEC"
    /\ pc[t] = "leave" => state[ft[t].task] \in Finished \cup {"READY"}
    /\ pc[t] \in {"ret", "post"} => state[ft[t].task] \in Finished \cup {"READY", "EXEC"}

\* No two threads hold the same task.
OneHolder ==
  \A t, u \in Thread : ft[t] # NoEntry /\ ft[t].task = ft[u].task => t = u

\* A task that is in the queue or known to a waker is held by a thread only
\* while that thread is parking it, and never both queued and with a waker.
WakeInv ==
  \A k \in Task :
    /\ Queued(k) => k \notin waiting
    /\ \A t \in Thread : Holds(t, k) /\ (Queued(k) \/ k \in waiting) => Parking(t)

\* The state of a queued entry's fiber.
QueueInv ==
  \A e \in Range(m_fibers) :
    state[e.task] \in IF e.cb THEN {"CB"} ELSE {"INIT", "HOLD", "READY", "EXEC"}

\* Where a task is when its fiber is in a given state.
PlaceInv ==
  \A k \in Task :
    /\ k \in waiting => state[k] \in {"HOLD", "EXEC"}
    /\ state[k] = "EXEC" => \E t \in Thread : Holds(t, k)
    /\ state[k] \in {"CB", "INIT", "HOLD", "READY"} =>
         Queued(k) \/ k \in waiting \/ \E t \in Thread : Holds(t, k)
    /\ \A t \in Thread : Holds(t, k) /\ Parking(t) => Queued(k) \/ k \in waiting

\* The owner starts threads only when none of them is in run(), and enters
\* run() itself only inside stop().
OwnerInv ==
  /\ owner = "new" => \A t \in Thread : pc[t] = "off"
  /\ owner = "stopped" => \A t \in Worker : pc[t] = "exit"
  /\ UseCaller /\ owner # "incall" => pc[Root] \in {"off", "exit"}

\* The strengthening that is preserved by every step.
IInv ==
  /\ TypeOK
  /\ DistinctTasks(m_fibers)
  /\ HandInv
  /\ OneHolder
  /\ WakeInv
  /\ QueueInv
  /\ PlaceInv
  /\ OwnerInv
  /\ "assert_not_EXEC" \notin failed

----------------------------------------------------------------------------
(***************************************************************************)
(* What stop() relies on, when no task pins the tasks it schedules.        *)
(***************************************************************************)

\* The thread is in run(), or will be entered when the owner goes on.
CanTake(t) ==
  \/ owner = "new"
  \/ pc[t] \notin {"off", "exit"}
  \/ t \notin Worker /\ owner \in {"started", "flag", "root"}

\* An entry that must still run has a thread that will take it.
TakerInv ==
  \A e \in Range(m_fibers) :
    state[e.task] \in {"CB", "INIT", "READY"} =>
      \E t \in Thread : e.thread \in {None, t} /\ CanTake(t)

\* A thread that an entry is pinned to has not decided to leave run().
PinInv ==
  /\ \A e \in Range(m_fibers) :
       e.thread # None => pc[e.thread] = "exit" \/ ~idle_term[e.thread]
  /\ \A t \in Thread : pc[t] = "off" => ~idle_term[t]
  /\ owner = "started" => ~m_stopping
  /\ owner = "started" => \A t \in Thread : pc[t] = "exit" \/ ~idle_term[t]
  /\ owner = "started" => \A t \in Worker : pc[t] \notin {"off", "exit"}

DrainInv == TakerInv /\ PinInv

\* A root fiber is called once if the scheduler is started once.
RootInv ==
  /\ owner \in {"root", "incall"} => UseCaller
  /\ owner # "new" => starts >= 1
  /\ UseCaller /\ owner \in {"new", "started", "flag", "root"} => pc[Root] = "off"
  /\ "never_reach" \notin failed
============================================================================
