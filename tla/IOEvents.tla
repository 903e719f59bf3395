------------------------------ MODULE IOEvents ------------------------------
(***************************************************************************)
(* The event side of iomanager.cc: the table m_fdContexts, addEvent(),     *)
(* delEvent(), cancelEvent(), cancelAll(), and the part of idle() that     *)
(* harvests epoll events and triggers the waiters.  The kernel's epoll     *)
(* instance (edge triggered) is external.                                  *)
(*                                                                         *)
(* Every operation first finds the FdContext under m_mutex and then works  *)
(* on it under the context's own mutex: two steps, between which the table *)
(* may change.  A context is <<fd, n>>, the n-th one created for fd.       *)
(***************************************************************************)
EXTENDS Integers, FiniteSets

CONSTANTS
  Fd,         \* file descriptors in use, natural numbers
  Events,     \* the events that fibers wait for: READ, WRITE or both
  Fiber,      \* fibers that call the operations
  Poller,     \* threads in idle()
  Ops,        \* the operations the fibers use besides addEvent()
  None,
  FirstSize,  \* contextResize(32) of the constructor
  MaxGen      \* bound: contexts created per descriptor, minus one

ASSUME IOEventsAssumption ==
  /\ Fd \subseteq Nat /\ IsFiniteSet(Fd)
  /\ FirstSize \in Nat \ {0, 1} /\ MaxGen \in Nat
  /\ Events \subseteq {"READ", "WRITE"}
  /\ Ops \subseteq {"del", "cancel", "cancelAll"}
  /\ None \notin Fiber

VARIABLES
  size,                 \* m_fdContexts.size()
  table,                \* m_fdContexts[fd], as the number of the context
  events,               \* FdContext::events
  waiter,               \* the fiber in the read and write EventContext
  m_pendingEventCount,
  req,                  \* per fiber: what it is doing in the I/O manager
  batch,                \* per poller: epoll_event entries still to handle
  epoll,                \* kernel: the registered context and mask of each fd
  level,                \* kernel: what poll() would report for each fd
  rdlist,               \* kernel: the fds on epoll's ready list
  failed                \* assertions that have failed; the process is dead

manager == <<size, table>>
contexts == <<events, waiter, m_pendingEventCount>>
kernel == <<epoll, level, rdlist>>
vars == <<manager, contexts, kernel, req, batch, failed>>

Ctx == Fd \X (0..MaxGen)
NotRegistered == [ctx |-> None, mask |-> {}]
Idle == [op |-> "none"]
Kernel == {"READ", "WRITE", "HUP"}
Assertion == {"trigger_not_registered", "add_twice", "context_in_use"}

Init ==
  /\ size = FirstSize
  /\ table = [fd \in Fd |-> 0]
  /\ events = [c \in Ctx |-> {}]
  /\ waiter = [c \in Ctx |-> [e \in {"READ", "WRITE"} |-> None]]
  /\ m_pendingEventCount = 0
  /\ req = [f \in Fiber |-> Idle]
  /\ batch = [p \in Poller |-> {}]
  /\ epoll = [fd \in Fd |-> NotRegistered]
  /\ level = [fd \in Fd |-> {}]
  /\ rdlist = {}
  /\ failed = {}

----------------------------------------------------------------------------
(***************************************************************************)
(* External: the kernel.                                                   *)
(***************************************************************************)
Reported(fd, mask) == level[fd] \cap (mask \cup {"HUP"})

\* epoll_ctl() succeeds: ADD needs an unregistered fd, MOD and DEL a
\* registered one.
CtlWorks(fd, add) == add <=> epoll[fd] = NotRegistered

\* ADD and MOD look at the descriptor at once.
Register(c, mask) ==
  /\ epoll' = [epoll EXCEPT ![c[1]] = [ctx |-> c, mask |-> mask]]
  /\ rdlist' = IF Reported(c[1], mask) # {} THEN rdlist \cup {c[1]} ELSE rdlist \ {c[1]}

Deregister(c) ==
  /\ epoll' = [epoll EXCEPT ![c[1]] = NotRegistered]
  /\ rdlist' = rdlist \ {c[1]}

\* EPOLL_CTL_MOD with what is left, EPOLL_CTL_DEL if nothing is.
Reduce(c, left) == IF left # {} THEN Register(c, left) ELSE Deregister(c)

\* Data or buffer space arrives, or the peer hangs up: an edge.
Arrive(fd, e) ==
  /\ level' = [level EXCEPT ![fd] = @ \cup {e}]
  /\ rdlist' = IF epoll[fd] # NotRegistered /\ e \in epoll[fd].mask \cup {"HUP"}
               THEN rdlist \cup {fd} ELSE rdlist
  /\ UNCHANGED <<manager, contexts, epoll, req, batch, failed>>

\* A fiber uses up what had arrived.
Consume(fd, e) ==
  /\ e \in level[fd]
  /\ level' = [level EXCEPT ![fd] = @ \ {e}]
  /\ UNCHANGED <<manager, contexts, epoll, rdlist, req, batch, failed>>

\* epoll_wait() returns what the ready list still reports.
epoll_wait(p) ==
  LET ready == {fd \in rdlist : Reported(fd, epoll[fd].mask) # {}} IN
  /\ batch[p] = {}
  /\ rdlist # {}
  /\ batch' = [batch EXCEPT ![p] =
       {[ctx |-> epoll[fd].ctx, mask |-> Reported(fd, epoll[fd].mask)] : fd \in ready}]
  /\ rdlist' = {}
  /\ UNCHANGED <<manager, contexts, epoll, level, req, failed>>

----------------------------------------------------------------------------
(***************************************************************************)
(* The context table.                                                      *)
(***************************************************************************)

\* vector::resize() also shrinks; a context cut off is replaced by a new one
\* when the table grows again.
contextResize(n) ==
  /\ size' = n
  /\ table' = [fd \in Fd |-> IF n <= fd /\ fd < size THEN table[fd] + 1 ELSE table[fd]]

\* addEvent(): the lookup under the read lock.  Callers keep to what it
\* asserts, that nobody waits for the same event already.
AddLookup(f, fd, e) ==
  /\ req[f] = Idle
  /\ \A g \in Fiber : req[g].op \in {"add", "grow", "waiting"} =>
       req[g].ctx[1] # fd \/ req[g].event # e
  /\ req' = [req EXCEPT ![f] =
       [op |-> IF fd < size THEN "add" ELSE "grow", ctx |-> <<fd, table[fd]>>, event |-> e]]
  /\ UNCHANGED <<manager, contexts, kernel, batch, failed>>

\* addEvent(): the write lock, taken without looking at the size again.
AddGrow(f) ==
  LET fd == req[f].ctx[1] IN
  /\ req[f].op = "grow"
  /\ contextResize((fd * 3) \div 2)
  /\ \A x \in Fd : table'[x] <= MaxGen
  /\ req' = [req EXCEPT ![f] = [op |-> "add", ctx |-> <<fd, table'[fd]>>, event |-> req[f].event]]
  /\ UNCHANGED <<contexts, kernel, batch, failed>>

\* The lookup of the other three; a descriptor beyond the table: return false.
Lookup(f, op, fd, e) ==
  /\ req[f] = Idle
  /\ fd < size
  /\ req' = [req EXCEPT ![f] = [op |-> op, ctx |-> <<fd, table[fd]>>, event |-> e]]
  /\ UNCHANGED <<manager, contexts, kernel, batch, failed>>

----------------------------------------------------------------------------
(***************************************************************************)
(* The operations under the mutex of the context.                          *)
(***************************************************************************)
\* An error or nothing to do: return without an effect.
Return(f) == req' = [req EXCEPT ![f] = Idle] /\ UNCHANGED <<contexts, epoll, rdlist, failed>>

\* Mutant: the interest is replaced, not extended.
Interest_New(c, e) == {e}
Interest(c, e) == events[c] \cup {e}

addEvent(f) ==
  LET c == req[f].ctx
      e == req[f].event
  IN
  /\ req[f].op = "add"
  /\ \/ \* epoll_ctl() fails: return -1
        /\ ~CtlWorks(c[1], events[c] = {})
        /\ Return(f)
     \/ /\ CtlWorks(c[1], events[c] = {})
        /\ Register(c, Interest(c, e))
        /\ m_pendingEventCount' = m_pendingEventCount + 1
        /\ events' = [events EXCEPT ![c] = @ \cup {e}]
        /\ waiter' = [waiter EXCEPT ![c] = [@ EXCEPT ![e] = f]]
        /\ failed' = {a \in {"add_twice"} : e \in events[c]}
                     \cup {a \in {"context_in_use"} : waiter[c][e] # None}
        /\ req' = [req EXCEPT ![f] = [op |-> "waiting", ctx |-> c, event |-> e]]
  /\ UNCHANGED <<manager, level, batch>>

\* Mutant: the count is not lowered.
delEvent_Uncounted(f) ==
  LET c == req[f].ctx
      e == req[f].event
  IN
  /\ req[f].op = "del"
  /\ IF e \in events[c] /\ CtlWorks(c[1], FALSE)
     THEN /\ Reduce(c, events[c] \ {e})
          /\ events' = [events EXCEPT ![c] = @ \ {e}]
          /\ waiter' = [waiter EXCEPT ![c] = [@ EXCEPT ![e] = None]]
          /\ req' = [g \in Fiber |-> IF g \in {f, waiter[c][e]} THEN Idle ELSE req[g]]
          /\ UNCHANGED <<m_pendingEventCount, failed>>
     ELSE Return(f)
  /\ UNCHANGED <<manager, level, batch>>

\* The waiter is dropped, not scheduled: its wait is over.
delEvent(f) ==
  LET c == req[f].ctx
      e == req[f].event
  IN
  /\ req[f].op = "del"
  /\ IF e \in events[c] /\ CtlWorks(c[1], FALSE)
     THEN /\ Reduce(c, events[c] \ {e})
          /\ m_pendingEventCount' = m_pendingEventCount - 1
          /\ events' = [events EXCEPT ![c] = @ \ {e}]
          /\ waiter' = [waiter EXCEPT ![c] = [@ EXCEPT ![e] = None]]
          /\ req' = [g \in Fiber |-> IF g \in {f, waiter[c][e]} THEN Idle ELSE req[g]]
          /\ UNCHANGED failed
     ELSE Return(f)
  /\ UNCHANGED <<manager, level, batch>>

\* Mutant: the bit stays set in events.
triggerEvent_KeepsEvents(c, E, others) ==
  LET woken == {waiter[c][e] : e \in E} IN
  /\ waiter' = [waiter EXCEPT ![c] = [e \in DOMAIN @ |-> IF e \in E THEN None ELSE @[e]]]
  /\ m_pendingEventCount' = m_pendingEventCount - Cardinality(E)
  /\ req' = [f \in Fiber |-> IF f \in woken \cup others THEN Idle ELSE req[f]]
  /\ UNCHANGED <<events, failed>>

\* triggerEvent() for the events E of context c, each with its HX_ASSERT and
\* the caller's decrement; the fibers it schedules, and the others, go on.
triggerEvent(c, E, others) ==
  IF E \subseteq events[c]
  THEN LET woken == {waiter[c][e] : e \in E} IN
       /\ events' = [events EXCEPT ![c] = @ \ E]
       /\ waiter' = [waiter EXCEPT ![c] = [e \in DOMAIN @ |-> IF e \in E THEN None ELSE @[e]]]
       /\ m_pendingEventCount' = m_pendingEventCount - Cardinality(E)
       /\ req' = [f \in Fiber |-> IF f \in woken \cup others THEN Idle ELSE req[f]]
       /\ UNCHANGED failed
  ELSE /\ failed' = {"trigger_not_registered"}
       /\ UNCHANGED <<contexts, req>>

cancelEvent(f) ==
  LET c == req[f].ctx
      e == req[f].event
  IN
  /\ req[f].op = "cancel"
  /\ IF e \in events[c] /\ CtlWorks(c[1], FALSE)
     THEN Reduce(c, events[c] \ {e}) /\ triggerEvent(c, {e}, {f})
     ELSE Return(f)
  /\ UNCHANGED <<manager, level, batch>>

cancelAll(f) ==
  LET c == req[f].ctx IN
  /\ req[f].op = "cancelAll"
  /\ IF events[c] # {} /\ CtlWorks(c[1], FALSE)
     THEN Deregister(c) /\ triggerEvent(c, events[c], {f})
     ELSE Return(f)
  /\ UNCHANGED <<manager, level, batch>>

----------------------------------------------------------------------------
(***************************************************************************)
(* idle(): one harvested epoll_event.  What it reports may be stale.       *)
(***************************************************************************)
\* Mutant: a hang-up wakes nobody.
RealEvents_NoHup(ev) == ev.mask \ {"HUP"}

\* EPOLLERR and EPOLLHUP stand for everything the context waits for.
RealEvents(ev) ==
  (ev.mask \ {"HUP"}) \cup (IF "HUP" \in ev.mask THEN events[ev.ctx] ELSE {})

Left(c, real) == events[c] \ real

Handle(p, ev) ==
  LET c == ev.ctx
      real == RealEvents(ev)
  IN
  /\ ev \in batch[p]
  /\ batch' = [batch EXCEPT ![p] = @ \ {ev}]
  /\ IF events[c] \cap real # {} /\ CtlWorks(c[1], FALSE)
     THEN Reduce(c, Left(c, real)) /\ triggerEvent(c, real, {})
     ELSE UNCHANGED <<contexts, epoll, rdlist, req, failed>>
  /\ UNCHANGED <<manager, level>>

idle(p) == epoll_wait(p) \/ \E ev \in batch[p] : Handle(p, ev)

Operation(f) ==
  \/ AddGrow(f) \/ addEvent(f) \/ delEvent(f) \/ cancelEvent(f) \/ cancelAll(f)

Next ==
  /\ failed = {}
  /\ \/ \E f \in Fiber, fd \in Fd, e \in Events :
          AddLookup(f, fd, e) \/ \E op \in Ops : Lookup(f, op, fd, e)
     \/ \E f \in Fiber : Operation(f)
     \/ \E p \in Poller : idle(p)
     \/ \E fd \in Fd, e \in Events \cup {"HUP"} : Arrive(fd, e)
     \/ \E fd \in Fd, e \in Events : Consume(fd, e)

Spec == Init /\ [][Next]_vars

\* Fairness: pollers run, and an operation that was begun goes on.
FairSpec ==
  /\ Spec
  /\ \A p \in Poller : WF_vars(failed = {} /\ idle(p))
  /\ \A f \in Fiber : WF_vars(failed = {} /\ Operation(f))

----------------------------------------------------------------------------
(***************************************************************************)
(* Properties.                                                             *)
(***************************************************************************)
Slots == Ctx \X {"READ", "WRITE"}
Waiting(c, e) == {f \in Fiber : req[f].op = "waiting" /\ req[f].ctx = c /\ req[f].event = e}

\* Every variable has its type.
TypeOK ==
  /\ size \in Nat
  /\ table \in [Fd -> 0..MaxGen]
  /\ events \in [Ctx -> SUBSET {"READ", "WRITE"}]
  /\ waiter \in [Ctx -> [{"READ", "WRITE"} -> Fiber \cup {None}]]
  /\ m_pendingEventCount \in Nat
  /\ req \in [Fiber -> {Idle} \cup
       [op : {"add", "grow", "waiting", "del", "cancel", "cancelAll"},
        ctx : Ctx, event : {"READ", "WRITE"}]]
  /\ batch \in [Poller -> SUBSET [ctx : Ctx, mask : SUBSET Kernel]]
  /\ epoll \in [Fd -> [ctx : Ctx, mask : SUBSET Kernel] \cup {NotRegistered}]
  /\ level \in [Fd -> SUBSET Kernel]
  /\ rdlist \subseteq Fd
  /\ failed \subseteq Assertion

\* A fiber that waits for an event is in exactly the EventContext it has
\* registered in, and nobody else is in it: no trigger, cancellation or
\* deletion wakes it twice, wakes another one or leaves it behind.
WaitersExact ==
  \A s \in Slots :
    Waiting(s[1], s[2]) = (IF s[2] \in events[s[1]] THEN {waiter[s[1]][s[2]]} ELSE {})

\* m_pendingEventCount, which lets stopping() end the threads, is the number
\* of waits.
PendingExact ==
  m_pendingEventCount = Cardinality({s \in Slots : s[2] \in events[s[1]]})

\* The kernel watches exactly what the context of the fd in m_fdContexts waits
\* for: every wait can be ended by an event and by a cancellation.
InterestOf(fd) ==
  LET c == <<fd, table[fd]>> IN
  epoll[fd] = IF events[c] = {} THEN NotRegistered ELSE [ctx |-> c, mask |-> events[c]]
InterestExact == failed = {} => \A fd \in Fd : InterestOf(fd)

\* It does so for every descriptor whose context contextResize() never cut off,
\* whatever operations, stale harvests and growths of the table come between.
InterestKept == failed = {} => \A fd \in Fd : table[fd] = 0 => InterestOf(fd)

\* The assertions of triggerEvent() and addEvent() hold.
NoAssertionFails == failed = {}

\* triggerEvent() is called only for an event that is waited for, as it asserts.
TriggerAssertionHolds == "trigger_not_registered" \notin failed

\* While a descriptor is ready or hung up, a fiber that waits for it does not
\* wait for ever: no edge is lost between epoll_wait(), the triggers and the
\* re-registrations of several threads.
ReadyIsDelivered ==
  \A f \in Fiber, fd \in Fd, e \in Events :
    LET ready == {e, "HUP"} \cap level[fd] # {} IN
    (req[f].op = "waiting" /\ req[f].ctx[1] = fd /\ req[f].event = e /\ ready)
      ~> (req[f].op # "waiting" \/ ~ready \/ failed # {})
============================================================================
