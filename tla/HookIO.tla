------------------------------- MODULE HookIO -------------------------------
(***************************************************************************)
(* The blocking calls of hook.cc on one socket: do_io(), which is behind   *)
(* read, recv, accept, write, send and their variants, and                 *)
(* connect_with_timeout(), with the FdCtx they consult.  A call that would *)
(* block arms a condition timer, registers an event and holds its fiber;   *)
(* the event, the timer's callback and close() race to wake it.            *)
(*                                                                         *)
(* At most one call at a time waits for each event, which addEvent()       *)
(* asserts, so the callers are the two events.  A call's timer_info lives  *)
(* while the call does, or while a callback has locked it.  The number of  *)
(* the descriptor is not used again after close().                         *)
(***************************************************************************)
EXTENDS Integers

CONSTANTS
  Event,           \* the events that are waited for
  Flags,           \* what the user may set O_NONBLOCK to
  ConnectTimeout,  \* s_connect_timeout; -1 is none
  Timeouts,        \* what setsockopt() may set: milliseconds
  MaxCalls,        \* bound: hooked calls
  MaxClock,        \* bound: the clock
  MaxData          \* bound: data, or space, the kernel holds for a caller

ASSUME HookAssumption ==
  /\ Event \subseteq {"READ", "WRITE"} /\ Flags \subseteq BOOLEAN
  /\ ConnectTimeout \in (Nat \ {0}) \cup {-1}
  /\ Timeouts \subseteq Nat \ {0}
  /\ MaxCalls \in Nat /\ MaxClock \in Nat /\ MaxData \in Nat

Call == 1..MaxCalls
NoCall == 0
NoTimeout == -1

VARIABLES
  pc,            \* where the caller of each event is
  call,          \* its call, numbered from 1, or NoCall
  kind,          \* "io" or "connect"
  to,            \* the timeout the call has read
  began,         \* when the call began
  outcome,       \* how the last call ended, and how long it lasted
  calls,         \* calls begun
  cancelled,     \* calls whose timer_info says ETIMEDOUT
  timers,        \* armed timers: the call, its event and the deadline
  callbacks,     \* expired timers, each with the next step of its callback
  waiting,       \* events registered with a held fiber
  timeout,       \* m_recvTimeout and m_sendTimeout
  userNonblock,  \* m_userNonblock
  nonblock,      \* O_NONBLOCK of the descriptor in the kernel
  fd,            \* "open", then the three steps of close()
  data,          \* what the kernel has for each caller
  now

caller == <<pc, call, kind, to, began, outcome, calls>>
info == <<cancelled, timers, callbacks>>
ctx == <<timeout, userNonblock, nonblock>>
world == <<fd, data, now>>
vars == <<caller, info, waiting, ctx, world>>

HasCtx == fd \in {"open", "cancelled"}

Init ==
  /\ pc = [e \in Event |-> "idle"] /\ call = [e \in Event |-> NoCall]
  /\ kind = [e \in Event |-> "io"] /\ to = [e \in Event |-> NoTimeout]
  /\ began = [e \in Event |-> 0] /\ calls = 0
  /\ outcome = [e \in Event |-> [r |-> "none", lasted |-> 0, to |-> NoTimeout]]
  /\ cancelled = {} /\ timers = {} /\ callbacks = {} /\ waiting = {}
  /\ timeout = [e \in Event |-> NoTimeout]
  /\ userNonblock = FALSE
  /\ nonblock \in BOOLEAN      \* FdCtx::init() leaves the flag as it finds it
  /\ fd = "open" /\ data = [e \in Event |-> 0] /\ now = 0

Goto(e, place) ==
  /\ pc' = [pc EXCEPT ![e] = place]
  /\ UNCHANGED <<call, kind, to, began, outcome, calls>>

Return(e, r) ==
  /\ pc' = [pc EXCEPT ![e] = "idle"]
  /\ call' = [call EXCEPT ![e] = NoCall]
  /\ outcome' = [outcome EXCEPT ![e] =
                   [r |-> r, lasted |-> now - began[e], to |-> to[e]]]
  /\ UNCHANGED <<kind, to, began, calls>>

Armed(c) == {t \in timers : t.c = c}
Alive(c) == \E e \in Event : call[e] = c

----------------------------------------------------------------------------
(***************************************************************************)
(* A call.                                                                 *)
(***************************************************************************)

\* FdMgr::get(fd): the call is handled here, goes to the system call as it
\* is, or (connect() with no FdCtx) fails with EBADF, which changes nothing.
Begin(e, k) ==
  /\ pc[e] = "idle" /\ calls < MaxCalls
  /\ k = "connect" => e = "WRITE"
  /\ HasCtx \/ k = "io"
  /\ calls' = calls + 1
  /\ call' = [call EXCEPT ![e] = calls + 1]
  /\ kind' = [kind EXCEPT ![e] = k]
  /\ to' = [to EXCEPT ![e] = IF k = "connect" THEN ConnectTimeout ELSE timeout[e]]
  /\ began' = [began EXCEPT ![e] = now]
  /\ pc' = [pc EXCEPT ![e] = IF HasCtx /\ ~userNonblock THEN "try" ELSE "raw"]
  /\ UNCHANGED <<outcome, info, waiting, ctx, world>>

\* The system call.  With nothing to return it waits in the kernel, thread
\* and all, unless the descriptor has O_NONBLOCK.
Try(e) ==
  /\ pc[e] \in {"raw", "try"}
  /\ \/ /\ Return(e, "error")
        /\ UNCHANGED data
     \/ /\ fd # "closed" /\ data[e] > 0
        /\ Return(e, "done")
        /\ data' = IF kind[e] = "connect" THEN data ELSE [data EXCEPT ![e] = @ - 1]
     \/ /\ fd # "closed" /\ data[e] = 0 /\ nonblock
        /\ IF pc[e] = "try" THEN Goto(e, "arm") ELSE Return(e, "error")
        /\ UNCHANGED data
  /\ UNCHANGED <<info, waiting, ctx, fd, now>>

\* addConditionTimer(to, ..., winfo)
Arm(e) ==
  /\ pc[e] = "arm"
  /\ Goto(e, "add")
  /\ timers' = IF to[e] = NoTimeout THEN timers
               ELSE timers \cup {[c |-> call[e], e |-> e, at |-> now + to[e]]}
  /\ UNCHANGED <<cancelled, callbacks, waiting, ctx, world>>

\* Mutant: the fiber yields without addEvent().
Add_NoEvent(e) ==
  /\ pc[e] = "add"
  /\ Goto(e, "hold")
  /\ UNCHANGED <<info, waiting, ctx, world>>

\* addEvent() and YieldToHold(), or its failure on a closed descriptor.
Add(e) ==
  /\ pc[e] = "add"
  /\ \/ /\ fd # "closed"
        /\ waiting' = waiting \cup {e}
        /\ Goto(e, "hold")
        /\ UNCHANGED timers
     \/ /\ fd = "closed"
        /\ timers' = timers \ Armed(call[e])
        /\ Return(e, "error")
        /\ UNCHANGED waiting
  /\ UNCHANGED <<cancelled, callbacks, ctx, world>>

\* ETIMEDOUT, or do_io() tries again, or connect() returns by SO_ERROR.
Outcome(e) ==
  \/ call[e] \in cancelled /\ Return(e, "ETIMEDOUT")
  \/ call[e] \notin cancelled /\ kind[e] = "io" /\ Goto(e, "try")
  \/ call[e] \notin cancelled /\ kind[e] = "connect"
       /\ \E r \in {"done", "error"} : Return(e, r)

\* Mutant: the timer is left armed.
After_NoCancel(e) ==
  /\ pc[e] = "woken"
  /\ Outcome(e)
  /\ UNCHANGED <<info, waiting, ctx, world>>

\* Behind YieldToHold(): timer->cancel(), then stinfo->cancelled.
After(e) ==
  /\ pc[e] = "woken"
  /\ timers' = timers \ Armed(call[e])
  /\ Outcome(e)
  /\ UNCHANGED <<cancelled, callbacks, waiting, ctx, world>>

----------------------------------------------------------------------------
(***************************************************************************)
(* The timer's callback: OnTimer() locks the condition, the lambda marks   *)
(* it, and cancelEvent() wakes whoever waits for the event by then.        *)
(***************************************************************************)
Expire(t) ==
  /\ t \in timers /\ t.at <= now
  /\ timers' = timers \ {t}
  /\ callbacks' = callbacks \cup {[t |-> t, step |-> "lock"]}
  /\ UNCHANGED <<caller, cancelled, waiting, ctx, world>>

\* The callback takes its next step, or with "end" its last one.
Advance(b, step) ==
  callbacks' = (callbacks \ {b}) \cup
                 (IF step = "end" THEN {} ELSE {[t |-> b.t, step |-> step]})

OnTimer(b) ==
  /\ b \in callbacks /\ b.step = "lock"
  /\ Advance(b, IF Alive(b.t.c) THEN "mark" ELSE "end")
  /\ UNCHANGED <<caller, cancelled, timers, waiting, ctx, world>>

\* Mutant: one timer_info for all the calls on the descriptor.
Mark_Shared(b) ==
  /\ b \in callbacks /\ b.step = "mark"
  /\ Advance(b, "cancel")
  /\ cancelled' = cancelled \cup ({call[e] : e \in Event} \ {NoCall})
  /\ UNCHANGED <<caller, timers, waiting, ctx, world>>

Mark(b) ==
  /\ b \in callbacks /\ b.step = "mark"
  /\ Advance(b, IF b.t.c \in cancelled THEN "end" ELSE "cancel")
  /\ cancelled' = cancelled \cup {b.t.c}
  /\ UNCHANGED <<caller, timers, waiting, ctx, world>>

\* triggerEvent(): the fibers that wait for these events are scheduled.
Wake(es) ==
  /\ pc' = [e \in Event |-> IF e \in es \cap waiting THEN "woken" ELSE pc[e]]
  /\ waiting' = waiting \ es
  /\ UNCHANGED <<call, kind, to, began, outcome, calls>>

cancelEvent(b) ==
  /\ b \in callbacks /\ b.step = "cancel"
  /\ Advance(b, "end")
  /\ Wake({b.t.e})
  /\ UNCHANGED <<cancelled, timers, ctx, world>>

\* External: epoll reports what the open descriptor is ready for.
Ready(e) ==
  /\ e \in waiting /\ data[e] > 0 /\ fd # "closed"
  /\ Wake({e})
  /\ UNCHANGED <<info, ctx, world>>

----------------------------------------------------------------------------
(***************************************************************************)
(* The other hooked calls on the descriptor.                               *)
(***************************************************************************)

\* close(): cancelAll(), FdMgr::del() and close_f(), one after the other.
close ==
  /\ \/ fd = "open" /\ fd' = "cancelled" /\ Wake(Event)
     \/ fd = "cancelled" /\ fd' = "deleted" /\ UNCHANGED <<caller, waiting>>
     \/ fd = "deleted" /\ fd' = "closed" /\ UNCHANGED <<caller, waiting>>
  /\ UNCHANGED <<info, ctx, data, now>>

\* fcntl(F_SETFL): m_sysNonblock is TRUE, so O_NONBLOCK is set either way.
fcntl(v) ==
  /\ fd # "closed"
  /\ userNonblock' = IF HasCtx THEN v ELSE userNonblock
  /\ nonblock' = (HasCtx \/ v)
  /\ UNCHANGED <<caller, info, waiting, timeout, world>>

\* ioctl(FIONBIO) passes the user's value on to the kernel.
ioctl(v) ==
  /\ fd # "closed"
  /\ userNonblock' = IF HasCtx THEN v ELSE userNonblock
  /\ nonblock' = v
  /\ UNCHANGED <<caller, info, waiting, timeout, world>>

\* setsockopt(SO_RCVTIMEO or SO_SNDTIMEO)
setsockopt(e, ms) ==
  /\ HasCtx
  /\ timeout' = [timeout EXCEPT ![e] = ms]
  /\ UNCHANGED <<caller, info, waiting, userNonblock, nonblock, world>>

\* External: the peer, and the clock.
Arrive(e) ==
  /\ data[e] < MaxData /\ fd # "closed"
  /\ data' = [data EXCEPT ![e] = @ + 1]
  /\ UNCHANGED <<caller, info, waiting, ctx, fd, now>>

Tick ==
  /\ now < MaxClock /\ now' = now + 1
  /\ UNCHANGED <<caller, info, waiting, ctx, fd, data>>

do_io(e) == Try(e) \/ Arm(e) \/ Add(e) \/ After(e)

Callback ==
  \/ \E t \in timers : Expire(t)
  \/ \E b \in callbacks : OnTimer(b) \/ Mark(b) \/ cancelEvent(b)

Next ==
  \/ \E e \in Event : (\E k \in {"io", "connect"} : Begin(e, k)) \/ do_io(e)
  \/ Callback
  \/ \E e \in Event : Ready(e) \/ Arrive(e)
  \/ close
  \/ \E v \in Flags : fcntl(v) \/ ioctl(v)
  \/ \E e \in Event, ms \in Timeouts : setsockopt(e, ms)
  \/ Tick

Spec == Init /\ [][Next]_vars

\* Fibers that can run do, pollers poll, and time passes.
FairSpec ==
  /\ Spec
  /\ \A e \in Event : WF_vars(do_io(e)) /\ WF_vars(Ready(e))
  /\ WF_vars(Callback) /\ WF_vars(Tick)

----------------------------------------------------------------------------
(***************************************************************************)
(* Properties.                                                             *)
(***************************************************************************)

\* Every variable has its type.
TypeOK ==
  /\ pc \in [Event -> {"idle", "raw", "try", "arm", "add", "hold", "woken"}]
  /\ call \in [Event -> Call \cup {NoCall}] /\ calls \in 0..MaxCalls
  /\ kind \in [Event -> {"io", "connect"}]
  /\ to \in [Event -> Int] /\ timeout \in [Event -> Int]
  /\ began \in [Event -> Nat]
  /\ outcome \in [Event -> [r : {"none", "done", "error", "ETIMEDOUT"},
                            lasted : Nat, to : Int]]
  /\ cancelled \subseteq Call
  /\ timers \subseteq [c : Call, e : Event, at : Nat]
  /\ callbacks \subseteq [t : [c : Call, e : Event, at : Nat],
                         step : {"lock", "mark", "cancel"}]
  /\ waiting \subseteq Event
  /\ userNonblock \in BOOLEAN /\ nonblock \in BOOLEAN
  /\ fd \in {"open", "cancelled", "deleted", "closed"}
  /\ data \in [Event -> Nat] /\ now \in Nat

\* A call fails with ETIMEDOUT only after the timeout it read, although the
\* callbacks of earlier waits and earlier calls may still run when it waits:
\* the timer_info is its own.
TimeoutNotEarly ==
  \A e \in Event :
    outcome[e].r = "ETIMEDOUT" => outcome[e].lasted >= outcome[e].to

\* An armed timer belongs to the current wait of a running call, one timer a
\* wait: do_io() and connect() cancel it on every way out.
TimerHasWait ==
  \A t \in timers :
    /\ call[t.e] = t.c /\ pc[t.e] \in {"add", "hold", "woken"}
    /\ Armed(t.c) = {t}

\* A held call does not stay held with its event ready and the descriptor open.
ReadyEndsHold ==
  \A e \in Event :
    pc[e] = "hold" /\ data[e] > 0 ~> pc[e] # "hold" \/ fd = "closed"

\* A connect() that waits under "tcp connect timeout" has its timer, or the
\* timer's callback, still to come.
ConnectIsTimed ==
  \A e \in Event :
    pc[e] = "hold" /\ kind[e] = "connect" /\ to[e] # NoTimeout
      => Armed(call[e]) # {} \/ \E b \in callbacks : b.t.c = call[e]
============================================================================
