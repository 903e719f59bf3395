----------------------------- MODULE NetProofs ------------------------------
(***************************************************************************)
(* Proofs about the parts between the I/O manager and the application: the *)
(* blocking calls of hook.cc, the contexts of descriptors and TcpServer.   *)
(***************************************************************************)
EXTENDS HookIO, FdManager, TcpServer, TLAPS

-----------------------------------------------------------------------------
(***************************************************************************)
(* The blocking calls of hook.cc: a call times out only after its own      *)
(* timeout, and no timer outlives the wait it was armed for, for any       *)
(* number of calls, any clock and any timeouts.                            *)
(*                                                                         *)
(* Both follow from who a timer_info belongs to.  A call's number is given *)
(* out once, so a timer, a callback or a mark that carries it is that      *)
(* call's; and what carries the number of the call that is now in progress *)
(* was armed after the call began, with the timeout it read.               *)
(***************************************************************************)
(***************************************************************************)
(* The inductive invariant.                                                *)
(***************************************************************************)

\* The timeouts of an FdCtx, and of a call, are positive or none.
TimeoutValue == (Nat \ {0}) \cup {NoTimeout}
TimeoutsOK ==
  /\ to \in [Event -> TimeoutValue] /\ timeout \in [Event -> TimeoutValue]

\* A caller has a number while it is in a call, and no other caller has it.
CallsInv ==
  /\ \A e \in Event : pc[e] = "idle" <=> call[e] = NoCall
  /\ \A e \in Event : call[e] <= calls /\ began[e] <= now
  /\ \A e, f \in Event : call[e] = call[f] /\ call[e] # NoCall => e = f
  /\ \A e \in waiting : pc[e] = "hold"

\* A timer is that of the current wait, with the call's own deadline or later.
TimersInv ==
  /\ \A t \in timers :
       /\ call[t.e] = t.c /\ pc[t.e] \in {"add", "hold", "woken"}
       /\ t.at >= began[t.e] + to[t.e]
  /\ \A t, u \in timers : t.e = u.e => t = u

\* An expired timer's callback, as long as its call is in progress.
CallbacksInv ==
  \A b \in callbacks :
    /\ b.t.c <= calls /\ b.t.at <= now
    /\ \A e \in Event : call[e] = b.t.c => e = b.t.e /\ b.t.at >= began[e] + to[e]

\* A call that is marked has lasted as long as its timeout.
CancelledInv ==
  /\ \A c \in cancelled : c <= calls
  /\ \A e \in Event : call[e] \in cancelled => now >= began[e] + to[e]

IInv ==
  /\ TypeOK /\ TimeoutsOK /\ CallsInv /\ TimersInv /\ CallbacksInv /\ CancelledInv
  /\ TimeoutNotEarly

(***************************************************************************)
(* Steps that several actions share.                                       *)
(***************************************************************************)

\* Nothing happens to calls, timers and waits: fcntl(), ioctl(), setsockopt(),
\* the peer, and the last steps of close().
LEMMA QuietStep ==
  ASSUME IInv, UNCHANGED <<caller, info, waiting, now>>,
         timeout' \in [Event -> TimeoutValue], userNonblock' \in BOOLEAN,
         nonblock' \in BOOLEAN, fd' \in {"open", "cancelled", "deleted", "closed"},
         data' \in [Event -> Nat]
  PROVE  IInv'
<1> USE DEF IInv, caller, info
<1>1. TypeOK'
  BY SMTT(30) DEF TypeOK, TimeoutsOK, TimeoutValue, NoTimeout
<1>2. TimeoutsOK'
  BY Zenon DEF TimeoutsOK
<1>3. CallsInv'
  BY Zenon DEF CallsInv
<1>4. TimersInv'
  BY Zenon DEF TimersInv
<1>5. CallbacksInv'
  BY Zenon DEF CallbacksInv
<1>6. CancelledInv' /\ TimeoutNotEarly'
  BY Zenon DEF CancelledInv, TimeoutNotEarly
<1> QED
  BY Zenon, <1>1, <1>2, <1>3, <1>4, <1>5, <1>6

\* A call goes on to another place of its code that is not a held one.  Its
\* timer, if it has one left, is for the wait it is in.
LEMMA GotoStep ==
  ASSUME IInv, NEW e \in Event, NEW place \in {"try", "arm"},
         pc[e] \in {"raw", "try", "woken"}, Goto(e, place),
         timers' \subseteq timers, \A t \in timers' : t.e # e,
         UNCHANGED <<cancelled, callbacks, waiting, ctx, world>>
  PROVE  IInv'
<1> USE DEF IInv, Goto, ctx, world
<1>1. TypeOK'
  BY Zenon DEF TypeOK
<1>2. TimeoutsOK'
  BY Zenon DEF TimeoutsOK
<1>3. CallsInv'
  BY Zenon DEF CallsInv, TypeOK
<1>4. TimersInv'
  BY Zenon DEF TimersInv, TypeOK
<1>5. CallbacksInv'
  BY Zenon DEF CallbacksInv
<1>6. CancelledInv' /\ TimeoutNotEarly'
  BY Zenon DEF CancelledInv, TimeoutNotEarly
<1> QED
  BY Zenon, <1>1, <1>2, <1>3, <1>4, <1>5, <1>6

\* A call returns, with ETIMEDOUT if its timer_info says so, and leaves no timer.
LEMMA ReturnStep ==
  ASSUME IInv, NEW e \in Event, NEW r \in {"done", "error", "ETIMEDOUT"},
         pc[e] \notin {"idle", "hold"}, Return(e, r),
         r = "ETIMEDOUT" => call[e] \in cancelled,
         timers' \subseteq timers, \A t \in timers' : t.e # e,
         data' \in [Event -> Nat],
         UNCHANGED <<cancelled, callbacks, waiting, ctx, fd, now>>
  PROVE  IInv'
<1> USE DEF IInv, Return, ctx
<1>1. TypeOK'
  <2>1. now - began[e] \in Nat /\ to[e] \in Int
    BY SMTT(30) DEF TypeOK, CallsInv
  <2>2. outcome' \in [Event -> [r : {"none", "done", "error", "ETIMEDOUT"},
                                lasted : Nat, to : Int]]
    BY Zenon, <2>1 DEF TypeOK
  <2> QED
    BY Zenon, <2>2 DEF TypeOK, NoCall
<1>2. TimeoutsOK'
  BY Zenon DEF TimeoutsOK
<1>3. CallsInv'
  BY SMTT(30) DEF CallsInv, TypeOK, NoCall, Call
<1>4. TimersInv'
  BY Zenon DEF TimersInv, TypeOK
<1>5. CallbacksInv'
  <2> SUFFICES ASSUME NEW b \in callbacks, NEW f \in Event
               PROVE  /\ b.t.c <= calls /\ b.t.at <= now
                      /\ call'[f] = b.t.c => f = b.t.e /\ b.t.at >= began[f] + to[f]
    BY Zenon DEF CallbacksInv
  <2>1. b.t.c # NoCall
    BY SMTT(30) DEF TypeOK, Call, NoCall
  <2> QED
    BY Zenon, <2>1 DEF CallbacksInv, TypeOK
<1>6. CancelledInv'
  <2>1. NoCall \notin cancelled
    BY SMTT(30) DEF TypeOK, Call, NoCall
  <2> QED
    BY Zenon, <2>1 DEF CancelledInv, TypeOK
<1>7. TimeoutNotEarly'
  <2> SUFFICES ASSUME NEW f \in Event, outcome'[f].r = "ETIMEDOUT"
               PROVE  outcome'[f].lasted >= outcome'[f].to
    BY Zenon DEF TimeoutNotEarly
  <2>1. CASE f = e
    <3>1. outcome'[f] = [r |-> r, lasted |-> now - began[e], to |-> to[e]]
      BY Zenon, <2>1 DEF TypeOK
    <3>2. now >= began[e] + to[e]
      BY SMTT(30), <3>1 DEF CancelledInv
    <3> QED
      BY SMTT(30), <3>1, <3>2 DEF TypeOK
  <2>2. CASE f # e
    BY Zenon, <2>2 DEF TypeOK, TimeoutNotEarly
  <2> QED
    BY Zenon, <2>1, <2>2
<1> QED
  BY Zenon, <1>1, <1>2, <1>3, <1>4, <1>5, <1>6, <1>7

\* triggerEvent() for some events: who waits for them is held no more.
LEMMA WakeStep ==
  ASSUME IInv, NEW es, Wake(es),
         callbacks' \subseteq callbacks,
         fd' \in {"open", "cancelled", "deleted", "closed"},
         UNCHANGED <<cancelled, timers, ctx, data, now>>
  PROVE  IInv'
<1> USE DEF IInv, Wake, ctx
<1>1. TypeOK'
  BY Zenon DEF TypeOK
<1>2. TimeoutsOK'
  BY Zenon DEF TimeoutsOK
<1>3. CallsInv'
  BY Zenon DEF CallsInv, TypeOK
<1>4. TimersInv'
  <2> SUFFICES ASSUME NEW t \in timers
               PROVE  pc'[t.e] \in {"add", "hold", "woken"}
    BY Zenon DEF TimersInv
  <2>1. t.e \in Event
    BY Zenon DEF TypeOK
  <2> QED
    BY Zenon, <2>1 DEF TimersInv
<1>5. CallbacksInv'
  BY Zenon DEF CallbacksInv
<1>6. CancelledInv' /\ TimeoutNotEarly'
  BY Zenon DEF CancelledInv, TimeoutNotEarly
<1> QED
  BY Zenon, <1>1, <1>2, <1>3, <1>4, <1>5, <1>6

\* Cancelling a call's timers leaves none for its event.
LEMMA ArmedGone ==
  ASSUME IInv, NEW e \in Event, call[e] # NoCall
  PROVE  \A t \in timers \ Armed(call[e]) : t.e # e
BY Zenon DEF IInv, TimersInv, Armed

----------------------------------------------------------------------------
(***************************************************************************)
(* One lemma an action, or a few of them.                                  *)
(***************************************************************************)
LEMMA InitIInv == Init => IInv
<1> SUFFICES ASSUME Init PROVE IInv
  BY Zenon
<1> USE HookAssumption DEF Init
<1>1. TypeOK
  <2>1. outcome \in [Event -> [r : {"none", "done", "error", "ETIMEDOUT"},
                               lasted : Nat, to : Int]]
    BY SMTT(30) DEF NoTimeout
  <2>2. calls \in 0..MaxCalls /\ to \in [Event -> Int] /\ timeout \in [Event -> Int]
    BY SMTT(30) DEF NoTimeout
  <2> QED
    BY Zenon, <2>1, <2>2 DEF TypeOK
<1>2. TimeoutsOK
  BY Zenon DEF TimeoutsOK, TimeoutValue
<1>3. CallsInv
  BY SMTT(30) DEF CallsInv, NoCall
<1>4. TimersInv /\ CallbacksInv /\ CancelledInv /\ TimeoutNotEarly
  BY Zenon DEF TimersInv, CallbacksInv, CancelledInv, TimeoutNotEarly
<1> QED
  BY Zenon, <1>1, <1>2, <1>3, <1>4 DEF IInv

LEMMA BeginStep ==
  ASSUME IInv, NEW e \in Event, NEW k \in {"io", "connect"}, Begin(e, k)
  PROVE  IInv'
<1> USE DEF IInv, Begin, info, ctx, world
<1>0. calls + 1 \in Call /\ calls + 1 \in Nat /\ calls + 1 # NoCall
  BY SMTT(30), HookAssumption DEF TypeOK, Call, NoCall
<1>1. TypeOK' /\ TimeoutsOK'
  <2>1. (IF k = "connect" THEN ConnectTimeout ELSE timeout[e]) \in TimeoutValue
    BY Zenon, HookAssumption DEF TimeoutsOK, TimeoutValue, NoTimeout
  <2>2. TimeoutsOK'
    BY Zenon, <2>1 DEF TimeoutsOK
  <2> QED
    BY SMTT(30), <1>0, <2>2, HookAssumption DEF TypeOK, TimeoutsOK, TimeoutValue, NoTimeout
<1>2. call'[e] = calls + 1 /\ \A f \in Event \ {e} : call'[f] = call[f] /\ pc'[f] = pc[f]
  BY Zenon DEF TypeOK
<1>3. \A f \in Event \ {e} : began'[f] = began[f] /\ to'[f] = to[f]
  BY Zenon DEF TypeOK
<1>4. pc'[e] \in {"try", "raw"} /\ began'[e] = now
  BY Zenon DEF TypeOK
<1>5. CallsInv'
  <2>1. \A f \in Event : call[f] \in Int /\ call[f] <= calls /\ began[f] <= now
    BY SMTT(30) DEF CallsInv, TypeOK, Call, NoCall
  <2>2. \A f \in Event : pc'[f] = "idle" <=> call'[f] = NoCall
    BY Zenon, <1>0, <1>2, <1>4 DEF CallsInv
  <2>3. \A f \in Event : call'[f] <= calls' /\ began'[f] <= now'
    BY SMTT(30), <2>1, <1>0, <1>2, <1>3, <1>4 DEF TypeOK
  <2>4. \A f, g \in Event : call'[f] = call'[g] /\ call'[f] # NoCall => f = g
    BY SMTT(30), <2>1, <1>0, <1>2 DEF CallsInv, TypeOK
  <2>5. \A f \in waiting' : pc'[f] = "hold"
    BY Zenon, <1>2 DEF CallsInv, TypeOK
  <2> QED
    BY Zenon, <2>2, <2>3, <2>4, <2>5 DEF CallsInv
<1>6. TimersInv'
  <2>1. \A t \in timers : t.e \in Event /\ t.e # e
    BY Zenon DEF TypeOK, TimersInv
  <2> QED
    BY <2>1, <1>2, <1>3 DEF TimersInv
<1>7. CallbacksInv'
  <2> SUFFICES ASSUME NEW b \in callbacks, NEW f \in Event
               PROVE  /\ b.t.c <= calls' /\ b.t.at <= now
                      /\ call'[f] = b.t.c => f = b.t.e /\ b.t.at >= began'[f] + to'[f]
    BY Zenon DEF CallbacksInv
  <2>1. b.t.c \in Nat /\ b.t.c <= calls
    BY SMTT(30) DEF CallbacksInv, TypeOK, Call
  <2> QED
    BY SMTT(30), <2>1, <1>0, <1>2, <1>3 DEF CallbacksInv, TypeOK
<1>8. CancelledInv'
  BY SMTT(30), <1>0, <1>2, <1>3 DEF CancelledInv, TypeOK, Call
<1>9. TimeoutNotEarly'
  BY Zenon DEF TimeoutNotEarly
<1> QED
  BY Zenon, <1>1, <1>5, <1>6, <1>7, <1>8, <1>9

LEMMA TryStep ==
  ASSUME IInv, NEW e \in Event, Try(e)
  PROVE  IInv'
<1> USE DEF IInv, Try
<1>1. timers' = timers /\ UNCHANGED <<cancelled, callbacks, waiting, ctx, fd, now>>
  BY Zenon DEF info
<1>2. \A t \in timers' : t.e # e
  BY Zenon, <1>1 DEF TimersInv
<1>3. data' \in [Event -> Nat]
  BY SMTT(30) DEF TypeOK, Goto, Return
<1>4. ASSUME NEW r \in {"done", "error"}, Return(e, r) PROVE IInv'
  BY Zenon, <1>1, <1>2, <1>3, <1>4, ReturnStep
<1>5. ASSUME Goto(e, "arm"), UNCHANGED data PROVE IInv'
  BY Zenon, <1>1, <1>2, <1>5, GotoStep DEF world
<1> QED
  BY Zenon, <1>4, <1>5

LEMMA ArmStep ==
  ASSUME IInv, NEW e \in Event, Arm(e)
  PROVE  IInv'
<1> USE DEF IInv, Arm, Goto, ctx, world
<1>1. \A t \in timers : t.e # e
  BY Zenon DEF TimersInv
<1>2. call[e] \in Call
  BY Zenon DEF CallsInv, TypeOK
<1>3. ASSUME to[e] # NoTimeout
      PROVE  now + to[e] \in Nat /\ now + to[e] >= began[e] + to[e]
  BY SMTT(30), <1>3 DEF TimeoutsOK, TimeoutValue, TypeOK, CallsInv
<1>4. \A t \in timers' :
        \/ t \in timers
        \/ t = [c |-> call[e], e |-> e, at |-> now + to[e]] /\ to[e] # NoTimeout
  <2>1. CASE to[e] = NoTimeout
    BY Zenon, <2>1
  <2>2. CASE to[e] # NoTimeout
    BY Zenon, <2>2
  <2> QED
    BY Zenon, <2>1, <2>2
<1>5. TypeOK'
  <2>1. timers' \subseteq [c : Call, e : Event, at : Nat]
    BY SMTT(30), <1>2, <1>3, <1>4 DEF TypeOK
  <2> QED
    BY Zenon, <2>1 DEF TypeOK
<1>6. TimeoutsOK' /\ CallsInv'
  BY Zenon DEF TimeoutsOK, CallsInv, TypeOK
<1>7. TimersInv'
  <2>1. ASSUME NEW t \in timers'
        PROVE  /\ call'[t.e] = t.c /\ pc'[t.e] \in {"add", "hold", "woken"}
               /\ t.at >= began'[t.e] + to'[t.e]
    <3>1. CASE t \in timers
      BY Zenon, <3>1, <1>1 DEF TimersInv, TypeOK
    <3>2. CASE t = [c |-> call[e], e |-> e, at |-> now + to[e]] /\ to[e] # NoTimeout
      BY Zenon, <3>2, <1>3 DEF TypeOK
    <3> QED
      BY Zenon, <2>1, <1>4, <3>1, <3>2
  <2>2. \A t, u \in timers' : t.e = u.e => t = u
    BY SMTT(30), <1>1, <1>4 DEF TimersInv
  <2> QED
    BY Zenon, <2>1, <2>2 DEF TimersInv
<1>8. CallbacksInv' /\ CancelledInv' /\ TimeoutNotEarly'
  BY Zenon DEF CallbacksInv, CancelledInv, TimeoutNotEarly
<1> QED
  BY Zenon, <1>5, <1>6, <1>7, <1>8

LEMMA AddStep ==
  ASSUME IInv, NEW e \in Event, Add(e)
  PROVE  IInv'
<1> USE DEF IInv, Add
<1>1. CASE fd # "closed"
  <2> USE <1>1 DEF Goto, ctx, world
  <2>1. TypeOK' /\ TimeoutsOK'
    BY Zenon DEF TypeOK, TimeoutsOK
  <2>2. CallsInv'
    BY SMTT(30) DEF CallsInv, TypeOK
  <2>3. TimersInv'
    BY Zenon DEF TimersInv, TypeOK
  <2>4. CallbacksInv' /\ CancelledInv' /\ TimeoutNotEarly'
    BY Zenon DEF CallbacksInv, CancelledInv, TimeoutNotEarly
  <2> QED
    BY Zenon, <2>1, <2>2, <2>3, <2>4
<1>2. CASE fd = "closed"
  <2>1. timers' = timers \ Armed(call[e]) /\ Return(e, "error") /\ waiting' = waiting
    BY Zenon, <1>2
  <2>2. call[e] # NoCall
    BY Zenon DEF CallsInv
  <2>3. timers' \subseteq timers /\ \A t \in timers' : t.e # e
    BY Zenon, <2>1, <2>2, ArmedGone
  <2>4. data' \in [Event -> Nat] /\ UNCHANGED <<fd, now>>
    BY Zenon DEF world, TypeOK
  <2> QED
    BY Zenon, <2>1, <2>3, <2>4, ReturnStep
<1> QED
  BY Zenon, <1>1, <1>2

LEMMA AfterStep ==
  ASSUME IInv, NEW e \in Event, After(e)
  PROVE  IInv'
<1> USE DEF IInv, After
<1>1. timers' \subseteq timers /\ \A t \in timers' : t.e # e
  <2>1. call[e] # NoCall
    BY Zenon DEF CallsInv
  <2> QED
    BY Zenon, <2>1, ArmedGone
<1>2. data' \in [Event -> Nat] /\ UNCHANGED <<fd, now>>
  BY Zenon DEF world, TypeOK
<1>3. ASSUME NEW r \in {"done", "error", "ETIMEDOUT"}, Return(e, r),
             r = "ETIMEDOUT" => call[e] \in cancelled
      PROVE  IInv'
  BY Zenon, <1>1, <1>2, <1>3, ReturnStep
<1>4. ASSUME Goto(e, "try") PROVE IInv'
  BY Zenon, <1>1, <1>4, GotoStep
<1> QED
  BY Zenon, <1>3, <1>4 DEF Outcome

LEMMA ExpireStep ==
  ASSUME IInv, NEW t \in timers, Expire(t)
  PROVE  IInv'
<1> USE DEF IInv, Expire, caller, ctx, world
<1>1. t.e \in Event /\ call[t.e] = t.c /\ t.at >= began[t.e] + to[t.e] /\ t.c \in Call
  BY Zenon DEF TimersInv, TypeOK
<1>2. TypeOK' /\ TimeoutsOK' /\ CallsInv'
  <2>1. [t |-> t, step |-> "lock"] \in [t : [c : Call, e : Event, at : Nat],
                                        step : {"lock", "mark", "cancel"}]
    BY Zenon DEF TypeOK
  <2> QED
    BY Zenon, <2>1 DEF TypeOK, TimeoutsOK, CallsInv
<1>3. TimersInv'
  BY Zenon DEF TimersInv
<1>4. CallbacksInv'
  <2>1. t.c <= calls /\ t.at <= now
    BY Zenon, <1>1 DEF CallsInv
  <2>2. \A e \in Event : call[e] = t.c => e = t.e
    BY SMTT(30), <1>1 DEF CallsInv, Call, NoCall
  <2> QED
    BY SMTT(30), <1>1, <2>1, <2>2 DEF CallbacksInv
<1>5. CancelledInv' /\ TimeoutNotEarly'
  BY Zenon DEF CancelledInv, TimeoutNotEarly
<1> QED
  BY Zenon, <1>2, <1>3, <1>4, <1>5

\* A callback that takes a step stays the callback of its timer.
LEMMA AdvanceKeeps ==
  ASSUME IInv, NEW b \in callbacks, NEW step \in {"mark", "cancel", "end"}, Advance(b, step)
  PROVE  /\ callbacks' \subseteq [t : [c : Call, e : Event, at : Nat],
                                  step : {"lock", "mark", "cancel"}]
         /\ \A x \in callbacks' : \E y \in callbacks : x.t = y.t
<1>1. \A x \in callbacks' : x \in callbacks \/ (step # "end" /\ x = [t |-> b.t, step |-> step])
  <2>1. CASE step = "end"
    BY Zenon, <2>1 DEF Advance
  <2>2. CASE step # "end"
    BY Zenon, <2>2 DEF Advance
  <2> QED
    BY Zenon, <2>1, <2>2
<1> QED
  BY SMTT(30), <1>1 DEF IInv, TypeOK

\* OnTimer() and Mark(): what is marked is the call of an expired timer.
LEMMA CallbackStep ==
  ASSUME IInv, NEW b \in callbacks, NEW step \in {"mark", "cancel", "end"}, Advance(b, step),
         cancelled' \subseteq cancelled \cup {b.t.c},
         UNCHANGED <<caller, timers, waiting, ctx, world>>
  PROVE  IInv'
<1> USE DEF IInv, caller, ctx, world
<1>1. TypeOK'
  BY AdvanceKeeps DEF TypeOK
<1>2. TimeoutsOK' /\ CallsInv' /\ TimersInv' /\ TimeoutNotEarly'
  BY Zenon DEF TimeoutsOK, CallsInv, TimersInv, TimeoutNotEarly
<1>3. CallbacksInv'
  <2> SUFFICES ASSUME NEW x \in callbacks'
               PROVE  /\ x.t.c <= calls' /\ x.t.at <= now'
                      /\ \A e \in Event : call'[e] = x.t.c => e = x.t.e /\ x.t.at >= began'[e] + to'[e]
    BY Zenon DEF CallbacksInv
  <2>1. PICK y \in callbacks : x.t = y.t
    BY Zenon, AdvanceKeeps
  <2>2. /\ y.t.c <= calls /\ y.t.at <= now
        /\ \A e \in Event : call[e] = y.t.c => e = y.t.e /\ y.t.at >= began[e] + to[e]
    BY Zenon DEF CallbacksInv
  <2>3. UNCHANGED <<calls, now, call, began, to>>
    BY Zenon
  <2> QED
    BY Zenon, <2>1, <2>2, <2>3
<1>4. CancelledInv'
  <2>1. \A e \in Event : call[e] = b.t.c => now >= began[e] + to[e]
    BY SMTT(30) DEF CallbacksInv, TypeOK
  <2>2. b.t.c <= calls
    BY Zenon DEF CallbacksInv
  <2> QED
    BY Zenon, <2>1, <2>2 DEF CancelledInv
<1> QED
  BY Zenon, <1>1, <1>2, <1>3, <1>4

LEMMA OnTimerStep ==
  ASSUME IInv, NEW b \in callbacks, OnTimer(b) \/ Mark(b)
  PROVE  IInv'
<1>1. CASE OnTimer(b)
  <2>1. PICK step \in {"mark", "end"} : Advance(b, step)
    BY Zenon, <1>1 DEF OnTimer
  <2> QED
    BY Zenon, <1>1, <2>1, CallbackStep DEF OnTimer
<1>2. CASE Mark(b)
  <2>1. PICK step \in {"cancel", "end"} : Advance(b, step)
    BY Zenon, <1>2 DEF Mark
  <2> QED
    BY Zenon, <1>2, <2>1, CallbackStep DEF Mark
<1> QED
  BY Zenon, <1>1, <1>2

LEMMA cancelEventStep ==
  ASSUME IInv, NEW b \in callbacks, cancelEvent(b)
  PROVE  IInv'
<1> DEFINE es == {b.t.e}
<1>1. Wake(es) /\ callbacks' \subseteq callbacks
  BY Zenon DEF cancelEvent, Advance
<1>2. UNCHANGED <<cancelled, timers, ctx, data, now>> /\ fd' = fd
  BY Zenon DEF cancelEvent, world
<1> HIDE DEF es
<1> QED
  BY Zenon, <1>1, <1>2, WakeStep DEF IInv, TypeOK

LEMMA ReadyStep ==
  ASSUME IInv, NEW e \in Event, Ready(e)
  PROVE  IInv'
<1> DEFINE es == {e}
<1>1. Wake(es) /\ callbacks' \subseteq callbacks
  BY Zenon DEF Ready, info
<1>2. UNCHANGED <<cancelled, timers, ctx, data, now>> /\ fd' = fd
  BY Zenon DEF Ready, info, world
<1> HIDE DEF es
<1> QED
  BY Zenon, <1>1, <1>2, WakeStep DEF IInv, TypeOK

LEMMA closeStep ==
  ASSUME IInv, close
  PROVE  IInv'
<1>1. fd' \in {"open", "cancelled", "deleted", "closed"} /\ UNCHANGED <<info, ctx, data, now>>
  BY Zenon DEF close
<1>2. CASE Wake(Event)
  BY Zenon, <1>1, <1>2, WakeStep DEF info
<1>3. CASE UNCHANGED <<caller, waiting>>
  BY Zenon, <1>1, <1>3, QuietStep DEF ctx, IInv, TypeOK, TimeoutsOK
<1> QED
  BY Zenon, <1>2, <1>3 DEF close

LEMMA ContextStep ==
  ASSUME IInv,
         \/ \E v \in Flags : fcntl(v) \/ ioctl(v)
         \/ \E e \in Event, ms \in Timeouts : setsockopt(e, ms)
         \/ \E e \in Event : Arrive(e)
  PROVE  IInv'
<1> USE DEF IInv, TypeOK, TimeoutsOK, world, ctx
<1>1. ASSUME NEW v \in Flags, fcntl(v) \/ ioctl(v) PROVE IInv'
  <2>1. v \in BOOLEAN
    BY Zenon, HookAssumption
  <2>2. userNonblock' \in BOOLEAN /\ nonblock' \in BOOLEAN
    BY <1>1, <2>1, Zenon DEF fcntl, ioctl, HasCtx
  <2> QED
    BY Zenon, <1>1, <2>2, QuietStep DEF fcntl, ioctl
<1>2. ASSUME NEW e \in Event, NEW ms \in Timeouts, setsockopt(e, ms) PROVE IInv'
  <2>1. timeout' \in [Event -> TimeoutValue]
    BY Zenon, <1>2, HookAssumption DEF setsockopt, TimeoutValue
  <2> QED
    BY Zenon, <1>2, <2>1, QuietStep DEF setsockopt
<1>3. ASSUME NEW e \in Event, Arrive(e) PROVE IInv'
  <2>1. data' \in [Event -> Nat]
    BY SMTT(30), <1>3 DEF Arrive
  <2> QED
    BY Zenon, <1>3, <2>1, QuietStep DEF Arrive
<1> QED
  BY Zenon, <1>1, <1>2, <1>3

LEMMA TickStep ==
  ASSUME IInv, Tick
  PROVE  IInv'
<1> USE DEF IInv, Tick, caller, info, ctx
<1>1. TypeOK' /\ TimeoutsOK'
  BY SMTT(30) DEF TypeOK, TimeoutsOK
<1>2. CallsInv' /\ TimersInv' /\ TimeoutNotEarly'
  BY SMTT(30) DEF CallsInv, TimersInv, TimeoutNotEarly, TypeOK
<1>3. CallbacksInv'
  BY SMTT(30) DEF CallbacksInv, TypeOK
<1>4. CancelledInv'
  BY SMTT(30) DEF CancelledInv, TypeOK
<1> QED
  BY Zenon, <1>1, <1>2, <1>3, <1>4

----------------------------------------------------------------------------
LEMMA NextIInv == IInv /\ [Next]_vars => IInv'
<1> SUFFICES ASSUME IInv, [Next]_vars PROVE IInv'
  BY Zenon
<1>1. CASE \E e \in Event : (\E k \in {"io", "connect"} : Begin(e, k)) \/ do_io(e)
  BY Zenon, <1>1, BeginStep, TryStep, ArmStep, AddStep, AfterStep DEF do_io
<1>2. CASE Callback
  BY Zenon, <1>2, ExpireStep, OnTimerStep, cancelEventStep DEF Callback
<1>3. CASE \E e \in Event : Ready(e)
  BY Zenon, <1>3, ReadyStep
<1>4. CASE \/ \E v \in Flags : fcntl(v) \/ ioctl(v)
           \/ \E e \in Event, ms \in Timeouts : setsockopt(e, ms)
           \/ \E e \in Event : Arrive(e)
  BY Zenon, <1>4, ContextStep
<1>5. CASE close \/ Tick
  BY Zenon, <1>5, closeStep, TickStep
<1>6. CASE UNCHANGED vars
  BY Zenon, <1>6, QuietStep DEF vars, ctx, world, IInv, TypeOK, TimeoutsOK
<1> QED
  BY Zenon, <1>1, <1>2, <1>3, <1>4, <1>5, <1>6 DEF Next

LEMMA Inductive == Spec => []IInv
<1> QED
  BY InitIInv, NextIInv, PTL DEF Spec

\* do_io() and connect() return ETIMEDOUT only when the timeout that the call
\* read has passed, however late the callbacks of earlier calls run.
THEOREM NoEarlyTimeout == Spec => []TimeoutNotEarly
<1>1. IInv => TimeoutNotEarly
  BY Zenon DEF IInv
<1> QED
  BY <1>1, Inductive, PTL

\* Every way out of do_io() and connect() cancels the timer: one that is armed
\* is the only one of a call in progress, which waits.
THEOREM NoTimerLeft == Spec => []TimerHasWait
<1>1. IInv => TimerHasWait
  <2> SUFFICES ASSUME IInv, NEW t \in timers
               PROVE  /\ call[t.e] = t.c /\ pc[t.e] \in {"add", "hold", "woken"}
                      /\ Armed(t.c) = {t}
    BY Zenon DEF TimerHasWait
  <2>1. call[t.e] = t.c /\ pc[t.e] \in {"add", "hold", "woken"}
    BY Zenon DEF IInv, TimersInv
  <2>2. ASSUME NEW u \in timers, u.c = t.c PROVE u = t
    <3>1. t.e \in Event /\ u.e \in Event /\ call[u.e] = call[t.e] /\ call[t.e] # NoCall
      BY SMTT(30), <2>2 DEF IInv, TimersInv, TypeOK, Call, NoCall
    <3>2. u.e = t.e
      BY Zenon, <3>1 DEF IInv, CallsInv
    <3> QED
      BY Zenon, <3>2 DEF IInv, TimersInv
  <2> QED
    BY Zenon, <2>1, <2>2 DEF Armed
<1> QED
  BY <1>1, Inductive, PTL

-----------------------------------------------------------------------------
(***************************************************************************)
(* FdManager: descriptors keep their own contexts, for any number of       *)
(* threads, with and without hooks, descriptors and table sizes.           *)
(***************************************************************************)
FdCall == [at : {"idle", "get", "create", "del", "close"}, fd : Int]

FdTypeOK ==
  /\ m_datas \in [FdNumber -> [of : Nat, timeoutOf : Nat]]
  /\ kernel \in [FdNumber -> Nat]
  /\ opens \in Nat
  /\ fdThread \in [FdThread -> FdCall]
  /\ owner \in [FdNumber -> SUBSET FdThread]
  /\ managed \subseteq Nat
  /\ leftOver \subseteq FdNumber

Busy(t) == fdThread[t].at # "idle"

\* The kernel counts: a descriptor of a number is not counted beyond the opens,
\* no two numbers have the same one, and those that were given a context count.
CountInv ==
  /\ \A d \in FdNumber : kernel[d] <= opens
  /\ \A d, gd \in FdNumber : kernel[d] = kernel[gd] /\ kernel[d] # Free => d = gd
  /\ \A n \in managed : n <= opens

\* A call has its number to itself, and the number is taken from its beginning
\* to its end.
CallInv ==
  /\ \A t \in FdThread : Busy(t) =>
       FdOf(t) \in FdNumber /\ kernel[FdOf(t)] # Free /\ owner[FdOf(t)] = {}
  /\ \A t, u \in FdThread : Busy(t) /\ Busy(u) /\ FdOf(t) = FdOf(u) => t = u
  /\ \A d \in FdNumber : kernel[d] = Free => owner[d] = {}

\* There is no context for a free number, nor for one that get() is to make a
\* context for, unless a thread without hooks has left it.
NoneLeft ==
  \A d \in FdNumber \ leftOver :
    /\ kernel[d] = Free => m_datas[d] = NoCtx
    /\ \A t \in FdThread : fdThread[t].at \in {"get", "create"} /\ FdOf(t) = d => m_datas[d] = NoCtx

FdIInv == FdTypeOK /\ (~corrupted => CountInv /\ CallInv /\ NoneLeft /\ OwnContext)

\* No descriptor is open and there are no contexts at the start.
LEMMA FdInitIInv == FdInit => FdIInv
BY SMTT(30), FdAssumption
   DEF FdInit, FdIInv, FdTypeOK, FdCall, CountInv, CallInv, NoneLeft, OwnContext, Busy, FdOf, Doing, NoCtx, Free, NoFd

\* The variables keep their types, also after a write beyond the table.
LEMMA FdTypeStep == FdIInv /\ [FdNext]_fdVars => FdTypeOK'
<1> SUFFICES ASSUME FdIInv, [FdNext]_fdVars PROVE FdTypeOK'
  BY Zenon
<1> USE FdAssumption DEF FdTypeOK, AtWith
<1>a. FdTypeOK /\ (~corrupted => \A t \in FdThread : Busy(t) => FdOf(t) \in FdNumber)
  BY Zenon DEF FdIInv, CallInv
<1>b. /\ \A at \in {"idle", "get", "create", "del", "close"}, d \in Int : Doing(at, d) \in FdCall
      /\ \A c \in FdCall : c.fd \in Int
      /\ Doing("idle", NoFd) \in FdCall
  BY SMTT(30) DEF Doing, FdCall, NoFd
<1>c. ASSUME NEW t \in FdThread, NEW at \in {"idle", "get", "create", "del", "close"}, FdGoto(t, at)
      PROVE  fdThread' \in [FdThread -> FdCall]
  BY Zenon, <1>a, <1>b, <1>c DEF FdGoto, FdOf
<1>d. ASSUME NEW t \in FdThread, Opened(t), FdOf(t) \in FdNumber
      PROVE  /\ fdThread' \in [FdThread -> FdCall]
             /\ owner' \in [FdNumber -> SUBSET FdThread]
             /\ managed' \subseteq Nat
  BY Zenon, <1>a, <1>b, <1>d DEF Opened
<1>1. ASSUME NEW t \in FdThread, NEW opener \in {"socket", "accept"}, OpenFd(t, opener) PROVE FdTypeOK'
  <2>1. PICK d \in FdNumber :
          /\ kernel' = [kernel EXCEPT ![d] = opens + 1]
          /\ opens' = opens + 1
          /\ IF t \in Hooking \/ opener = "accept"
             THEN fdThread' = [fdThread EXCEPT ![t] = Doing("get", d)] /\ UNCHANGED owner
             ELSE owner' = [owner EXCEPT ![d] = {t}] /\ UNCHANGED fdThread
    BY Zenon, <1>1 DEF OpenFd
  <2>2. Doing("get", d) \in FdCall
    BY SMTT(30), <1>b
  <2> QED
    BY SMTT(30), <1>a, <1>1, <2>1, <2>2 DEF OpenFd
<1>2. ASSUME NEW t \in FdThread, get(t) PROVE FdTypeOK'
  BY Zenon, <1>a, <1>c, <1>d, <1>2 DEF get, Busy
<1>3. ASSUME NEW t \in FdThread, CreateCtx(t) PROVE FdTypeOK'
  <2>1. FdOf(t) \in FdNumber
    BY Zenon, <1>a, <1>3 DEF CreateCtx, Busy
  <2>2. m_datas' \in [FdNumber -> [of : Nat, timeoutOf : Nat]]
    BY SMTT(30), <1>a, <1>3, <2>1 DEF CreateCtx, Free
  <2> QED
    BY Zenon, <1>a, <1>d, <1>3, <2>1, <2>2 DEF CreateCtx
<1>4. ASSUME NEW t \in FdThread, NEW d \in FdNumber, setTimeout(t, d) PROVE FdTypeOK'
  BY Zenon, <1>a, <1>4 DEF setTimeout
<1>5. ASSUME NEW t \in FdThread, NEW d \in FdNumber, PassOn(t, d) PROVE FdTypeOK'
  BY SMTT(30), <1>a, <1>5 DEF PassOn
<1>6. ASSUME NEW t \in FdThread, NEW d \in FdNumber, BeginClose(t, d) PROVE FdTypeOK'
  BY SMTT(30), <1>a, <1>b, <1>6 DEF BeginClose
<1>7. ASSUME NEW t \in FdThread, del(t) PROVE FdTypeOK'
  BY Zenon, <1>a, <1>c, <1>7 DEF del, NoCtx, Free
<1>8. ASSUME NEW t \in FdThread, close_f(t) PROVE FdTypeOK'
  <2>1. FdOf(t) \in FdNumber
    BY Zenon, <1>a, <1>8 DEF close_f, Busy
  <2> QED
    BY Zenon, <1>a, <1>b, <1>8, <2>1 DEF close_f, Free
<1>9. CASE UNCHANGED fdVars
  BY Zenon, <1>a, <1>9 DEF fdVars
<1> QED
  BY Zenon, <1>1, <1>2, <1>3, <1>4, <1>5, <1>6, <1>7, <1>8, <1>9 DEF FdNext

\* open counts up and close frees: two numbers never have one descriptor.
LEMMA FdCountStep == FdIInv /\ [FdNext]_fdVars /\ ~corrupted' => CountInv'
<1> SUFFICES ASSUME FdIInv, [FdNext]_fdVars, ~corrupted' PROVE CountInv'
  BY Zenon
<1> USE FdAssumption DEF FdTypeOK, FdCall, Doing, AtWith, CountInv
<1>a. FdTypeOK /\ (~corrupted => CountInv /\ CallInv /\ NoneLeft /\ OwnContext)
  BY Zenon DEF FdIInv
<1>1. ASSUME NEW t \in FdThread, NEW opener \in {"socket", "accept"}, OpenFd(t, opener) PROVE CountInv'
  BY SMTT(30), <1>a, <1>1 DEF OpenFd, Free
<1>2. ASSUME NEW t \in FdThread, get(t) PROVE CountInv'
  <2>1. kernel[FdOf(t)] <= opens
    BY Zenon, <1>a, <1>2 DEF get, Busy, CallInv
  <2> QED
    BY Zenon, <1>a, <1>2, <2>1 DEF get, Opened
<1>3. ASSUME NEW t \in FdThread, CreateCtx(t) PROVE CountInv'
  BY Zenon, <1>a, <1>3 DEF CreateCtx, Opened, Busy, CallInv
<1>4. ASSUME NEW t \in FdThread, NEW d \in FdNumber, setTimeout(t, d) PROVE CountInv'
  BY Zenon, <1>a, <1>4 DEF setTimeout
<1>5. ASSUME NEW t \in FdThread, NEW d \in FdNumber, PassOn(t, d) PROVE CountInv'
  BY Zenon, <1>a, <1>5 DEF PassOn
<1>6. ASSUME NEW t \in FdThread, NEW d \in FdNumber, BeginClose(t, d) PROVE CountInv'
  BY Zenon, <1>a, <1>6 DEF BeginClose
<1>7. ASSUME NEW t \in FdThread, del(t) PROVE CountInv'
  BY Zenon, <1>a, <1>7 DEF del, FdGoto
<1>8. ASSUME NEW t \in FdThread, close_f(t) PROVE CountInv'
  BY SMTT(30), <1>a, <1>8 DEF close_f, Free
<1>9. CASE UNCHANGED fdVars
  BY Zenon, <1>a, <1>9 DEF fdVars
<1> QED
  BY Zenon, <1>1, <1>2, <1>3, <1>4, <1>5, <1>6, <1>7, <1>8, <1>9 DEF FdNext

\* A number is with one call at a time, from open or hand-over to close.
LEMMA FdCallStep == FdIInv /\ [FdNext]_fdVars /\ ~corrupted' => CallInv'
<1> SUFFICES ASSUME FdIInv, [FdNext]_fdVars, ~corrupted' PROVE CallInv'
  OBVIOUS
<1> USE FdAssumption DEF FdTypeOK, FdCall, Doing, AtWith, CallInv, FdOf, Busy, Free, NoFd
<1>a. FdTypeOK /\ (~corrupted => CountInv /\ CallInv /\ NoneLeft /\ OwnContext)
  BY Zenon DEF FdIInv
<1>1. ASSUME NEW t \in FdThread, NEW opener \in {"socket", "accept"}, OpenFd(t, opener) PROVE CallInv'
  BY SMTT(30), <1>a, <1>1 DEF OpenFd
<1>2. ASSUME NEW t \in FdThread, get(t) PROVE CallInv'
  <2>1. CASE Opened(t)
    BY Zenon, <1>a, <1>2, <2>1 DEF get, Opened
  <2>2. CASE FdGoto(t, "create") /\ UNCHANGED owner
    BY Zenon, <1>a, <1>2, <2>2 DEF get, FdGoto
  <2> QED
    BY Zenon, <1>2, <2>1, <2>2 DEF get
<1>3. ASSUME NEW t \in FdThread, CreateCtx(t) PROVE CallInv'
  BY Zenon, <1>a, <1>3 DEF CreateCtx, Opened
<1>4. ASSUME NEW t \in FdThread, NEW d \in FdNumber, setTimeout(t, d) PROVE CallInv'
  BY Zenon, <1>a, <1>4 DEF setTimeout
<1>5. ASSUME NEW t \in FdThread, NEW d \in FdNumber, PassOn(t, d) PROVE CallInv'
  BY Zenon, <1>a, <1>5 DEF PassOn
<1>6. ASSUME NEW t \in FdThread, NEW d \in FdNumber, BeginClose(t, d) PROVE CallInv'
  BY Zenon, <1>a, <1>6 DEF BeginClose
<1>7. ASSUME NEW t \in FdThread, del(t) PROVE CallInv'
  BY Zenon, <1>a, <1>7 DEF del, FdGoto
<1>8. ASSUME NEW t \in FdThread, close_f(t) PROVE CallInv'
  BY Zenon, <1>a, <1>8 DEF close_f
<1>9. CASE UNCHANGED fdVars
  BY Zenon, <1>a, <1>9 DEF fdVars
<1> QED
  BY Zenon, <1>1, <1>2, <1>3, <1>4, <1>5, <1>6, <1>7, <1>8, <1>9 DEF FdNext

\* get() makes contexts, del() drops them before the number is free again.
LEMMA FdContextStep == FdIInv /\ [FdNext]_fdVars /\ ~corrupted' => (NoneLeft /\ OwnContext)'
<1> SUFFICES ASSUME FdIInv, [FdNext]_fdVars, ~corrupted' PROVE (NoneLeft /\ OwnContext)'
  BY Zenon
<1> USE FdAssumption DEF FdTypeOK, FdCall, Doing, AtWith, NoneLeft, OwnContext, FdOf, Busy, NoCtx, Free
<1>a. FdTypeOK /\ (~corrupted => CountInv /\ CallInv /\ NoneLeft /\ OwnContext)
  BY Zenon DEF FdIInv
<1>1. ASSUME NEW t \in FdThread, NEW opener \in {"socket", "accept"}, OpenFd(t, opener) PROVE (NoneLeft /\ OwnContext)'
  BY SMTT(30), <1>a, <1>1 DEF OpenFd, CountInv, CallInv
<1>2. ASSUME NEW t \in FdThread, get(t) PROVE (NoneLeft /\ OwnContext)'
  <2>0. ~corrupted /\ ~corrupted' /\ UNCHANGED <<m_datas, kernel, leftOver>>
    BY Zenon, <1>2 DEF get
  <2>1. CountInv /\ CallInv /\ NoneLeft /\ OwnContext /\ fdThread[t].at = "get"
    BY Zenon, <1>a, <1>2, <2>0 DEF get
  <2>2. CASE FdOf(t) < DatasSize /\ m_datas[FdOf(t)] # NoCtx
    <3>1. Opened(t) /\ FdOf(t) \in leftOver
      BY Zenon, <1>2, <2>1, <2>2 DEF get, CallInv
    <3>2. NoneLeft'
      BY Zenon, <1>a, <2>0, <2>1, <3>1 DEF Opened
    <3>3. \A d \in FdNumber \ leftOver : owner'[d] = owner[d]
      BY Zenon, <1>a, <2>1, <3>1 DEF Opened, CallInv
    <3>4. \A d \in FdNumber \ leftOver : owner[d] # {} /\ kernel[d] \in managed' => kernel[d] \in managed
      <4>1. FdOf(t) \in FdNumber /\ kernel[FdOf(t)] # Free
        BY Zenon, <2>1 DEF CallInv
      <4>2. \A d \in FdNumber \ leftOver : kernel[d] # kernel[FdOf(t)]
        BY Zenon, <2>1, <3>1, <4>1 DEF CountInv
      <4> QED
        BY Zenon, <3>1, <4>2 DEF Opened
    <3> QED
      BY Zenon, <2>0, <2>1, <3>2, <3>3, <3>4
  <2>3. CASE ~(FdOf(t) < DatasSize /\ m_datas[FdOf(t)] # NoCtx)
    <3>1. FdGoto(t, "create") /\ UNCHANGED <<owner, managed>>
      BY Zenon, <1>2, <2>3 DEF get
    <3>2. NoneLeft'
      BY Zenon, <1>a, <2>0, <2>1, <3>1 DEF FdGoto
    <3> QED
      BY Zenon, <2>0, <2>1, <3>1, <3>2
  <2> QED
    BY Zenon, <2>2, <2>3
<1>3. ASSUME NEW t \in FdThread, CreateCtx(t) PROVE (NoneLeft /\ OwnContext)'
  BY SMTT(30), <1>a, <1>3 DEF CreateCtx, Opened, CallInv, CountInv, NoFd
<1>4. ASSUME NEW t \in FdThread, NEW d \in FdNumber, setTimeout(t, d) PROVE (NoneLeft /\ OwnContext)'
  BY SMTT(30), <1>a, <1>4 DEF setTimeout, CallInv
<1>5. ASSUME NEW t \in FdThread, NEW d \in FdNumber, PassOn(t, d) PROVE (NoneLeft /\ OwnContext)'
  BY <1>a, <1>5 DEF PassOn, CallInv
<1>6. ASSUME NEW t \in FdThread, NEW d \in FdNumber, BeginClose(t, d) PROVE (NoneLeft /\ OwnContext)'
  BY <1>a, <1>6 DEF BeginClose, CallInv
<1>7. ASSUME NEW t \in FdThread, del(t) PROVE (NoneLeft /\ OwnContext)'
  BY <1>a, <1>7 DEF del, FdGoto, CallInv
<1>8. ASSUME NEW t \in FdThread, close_f(t) PROVE (NoneLeft /\ OwnContext)'
  BY Zenon, <1>a, <1>8 DEF close_f, CallInv
<1>9. CASE UNCHANGED fdVars
  BY Zenon, <1>a, <1>9 DEF fdVars
<1> QED
  BY Zenon, <1>1, <1>2, <1>3, <1>4, <1>5, <1>6, <1>7, <1>8, <1>9 DEF FdNext

\* A descriptor from socket() or accept() has, while a thread has it, the context
\* that was made for it, whatever the threads do and how soon numbers come again;
\* the exception is a number that a thread without hooks has closed.
THEOREM ContextsAreOwn == FdSpec => []OwnContext
<1>1. FdInit => FdIInv
  BY Zenon, FdInitIInv
<1>2. FdIInv /\ [FdNext]_fdVars => FdIInv'
  BY Zenon, FdTypeStep, FdCountStep, FdCallStep, FdContextStep DEF FdIInv
<1>3. FdIInv => OwnContext
  BY Zenon DEF FdIInv, OwnContext
<1> QED
  BY <1>1, <1>2, <1>3, PTL DEF FdSpec

-----------------------------------------------------------------------------
(***************************************************************************)
(* TcpServer: an acceptor of a server that runs has its socket, unless     *)
(* start() came too early.                                                 *)
(***************************************************************************)
FiberRecord ==
  [kind : {"accept", "close", "client"}, n : Nat, s : ListenSock \cup {NoSock},
   at : {"start", "accept", "kernel"}]

ServerTypeOK ==
  /\ m_isStop \in BOOLEAN /\ early \in BOOLEAN /\ serverCalls \in Nat /\ clients \in Nat
  /\ m_socks \subseteq sockOpen /\ sockOpen \subseteq ListenSock
  /\ m_fibers \in Seq(FiberRecord) /\ running \subseteq FiberRecord

\* A fiber that neither closes the sockets nor lacks its own.
Served(f) == f.kind # "close" /\ (f.kind = "accept" => f.s \in sockOpen)
ServedInv == m_isStop = FALSE /\ early = FALSE => \A f \in Fibers : Served(f)

ServerInv == ServerTypeOK /\ ServedInv

Entries(q) == {q[i] : i \in DOMAIN q}

\* What is in a queue after the operations on it.
LEMMA QueueConcat ==
  ASSUME NEW S, NEW q \in Seq(S), NEW r \in Seq(S)
  PROVE  q \o r \in Seq(S) /\ Entries(q \o r) \subseteq Entries(q) \cup Entries(r)
<1>1. q \o r \in Seq(S) /\ Len(q \o r) = Len(q) + Len(r) /\ Len(q) \in Nat /\ Len(r) \in Nat
  BY SMTT(30)
<1>2. ASSUME NEW i \in DOMAIN (q \o r) PROVE (q \o r)[i] \in Entries(q) \cup Entries(r)
  <2>0. i \in 1 .. Len(q) + Len(r)
    BY SMTT(30), <1>1
  <2>1. CASE i <= Len(q)
    <3>1. i \in DOMAIN q /\ (q \o r)[i] = q[i]
      BY SMTT(30), <2>0, <2>1
    <3> QED
      BY Zenon, <3>1 DEF Entries
  <2>2. CASE i > Len(q)
    <3>1. i - Len(q) \in DOMAIN r /\ (q \o r)[i] = r[i - Len(q)]
      BY SMTT(30), <1>1, <2>0, <2>2
    <3> QED
      BY Zenon, <3>1 DEF Entries
  <2>3. i \in Int /\ Len(q) \in Int
    BY SMTT(30), <1>1, <2>0
  <2>4. i <= Len(q) \/ i > Len(q)
    BY SMTT(30), <2>3
  <2> QED
    BY Zenon, <2>1, <2>2, <2>4
<1> QED
  BY Zenon, <1>1, <1>2 DEF Entries

LEMMA QueueAppend ==
  ASSUME NEW S, NEW q \in Seq(S), NEW e \in S
  PROVE  Append(q, e) \in Seq(S) /\ Entries(Append(q, e)) \subseteq Entries(q) \cup {e}
  BY SMTT(30) DEF Entries

LEMMA QueueTail ==
  ASSUME NEW S, NEW q \in Seq(S), q # <<>>
  PROVE  /\ Tail(q) \in Seq(S) /\ Entries(Tail(q)) \subseteq Entries(q)
         /\ Head(q) \in S /\ Head(q) \in Entries(q)
<1>1. Tail(q) \in Seq(S) /\ Head(q) \in S /\ Head(q) = q[1] /\ 1 \in DOMAIN q
  BY SMTT(30)
<1>2. \A i \in DOMAIN Tail(q) : i + 1 \in DOMAIN q /\ Tail(q)[i] = q[i + 1]
  BY SMTT(30)
<1> QED
  BY SMTT(30), <1>1, <1>2 DEF Entries

LEMMA QueuedEntries == Queued = Entries(m_fibers) /\ Queued' = Entries(m_fibers')
  BY Zenon DEF Queued, Entries

\* The fibers that a step leaves: old ones, and others that are served.
LEMMA ServedKept ==
  ASSUME ServerInv, ServerTypeOK', m_isStop' = m_isStop, early' = early,
         \A f \in Fibers : f.s \in sockOpen => f.s \in sockOpen',
         \A g \in Fibers' : g.kind = "client" \/ \E f \in Fibers : g.kind = f.kind /\ g.s = f.s
  PROVE  ServerInv'
  BY Zenon DEF ServerInv, ServedInv, Served

\* A fiber that goes on is the same task on the same socket.
LEMMA FiberGoesOn ==
  ASSUME NEW f \in FiberRecord, NEW at \in {"start", "accept", "kernel"}
  PROVE  /\ [f EXCEPT !.at = at] \in FiberRecord
         /\ [f EXCEPT !.at = at].kind = f.kind /\ [f EXCEPT !.at = at].s = f.s
  BY Zenon DEF FiberRecord

LEMMA InitServer == ServerInit => ServerInv
<1> SUFFICES ASSUME ServerInit PROVE ServerInv
  OBVIOUS
<1>1. ServerTypeOK
  <2>1. <<>> \in Seq(FiberRecord)
    BY SMTT(30)
  <2> QED
    BY Zenon, <2>1 DEF ServerInit, ServerTypeOK
<1>2. ServedInv
  BY Zenon DEF ServerInit, ServedInv
<1> QED
  BY Zenon, <1>1, <1>2 DEF ServerInv

LEMMA TaskIsFiber ==
  ASSUME NEW k \in {"accept", "close", "client"}, NEW n \in Nat, NEW s \in ListenSock \cup {NoSock}
  PROVE  Task(k, n, s) \in FiberRecord /\ Task(k, n, s).kind = k /\ Task(k, n, s).s = s
  BY Zenon DEF Task, FiberRecord

LEMMA StartServes ==
  ASSUME ServerInv, start
  PROVE  ServerInv'
<1>0. ServerTypeOK
  BY Zenon DEF ServerInv
<1>1. PICK q \in AcceptorsFor(m_socks) : m_fibers' = m_fibers \o q
  BY Zenon DEF start
<1> DEFINE T == {Task("accept", serverCalls, s) : s \in m_socks}
<1>2. \A f \in T : f \in FiberRecord /\ f.kind = "accept" /\ f.s \in sockOpen
  BY SMTT(30), <1>0, TaskIsFiber DEF ServerTypeOK
<1>3. Cardinality(m_socks) \in Nat
  BY Zenon, <1>0, ServerAssumption DEF ServerTypeOK
<1>4. q \in [1 .. Cardinality(m_socks) -> T]
  BY Zenon, <1>1 DEF AcceptorsFor
<1> HIDE DEF T
<1>5. q \in Seq(FiberRecord) /\ \A i \in DOMAIN q : q[i] \in T
  BY SMTT(30), <1>2, <1>3, <1>4
<1>6. /\ serverCalls' \in Nat /\ m_isStop' = FALSE
      /\ early' = (early \/ \E f \in Fibers : f.kind \in {"close", "accept"})
      /\ UNCHANGED <<m_socks, sockOpen, running, clients>>
  BY SMTT(30), <1>0 DEF start, ServerCall, ServerTypeOK
<1>7. m_fibers \o q \in Seq(FiberRecord) /\ Entries(m_fibers \o q) \subseteq Entries(m_fibers) \cup Entries(q)
  <2>1. m_fibers \in Seq(FiberRecord)
    BY Zenon, <1>0 DEF ServerTypeOK
  <2> QED
    BY Zenon, <1>5, <2>1, QueueConcat
<1>8. ServerTypeOK'
  BY Zenon, <1>0, <1>1, <1>6, <1>7 DEF ServerTypeOK
<1>9. \A g \in Fibers' : g \in Fibers \/ g \in T
  <2>1. Entries(q) \subseteq T
    BY Zenon, <1>5 DEF Entries
  <2> QED
    BY Zenon, <1>1, <1>6, <1>7, <2>1, QueuedEntries DEF Fibers
<1>10. ASSUME early' = FALSE, NEW g \in Fibers' PROVE Served(g)'
  <2>1. \A f \in Fibers : f.kind \notin {"close", "accept"}
    BY Zenon, <1>6, <1>10
  <2> QED
    BY Zenon, <1>2, <1>6, <1>9, <2>1 DEF Served
<1> QED
  BY Zenon, <1>8, <1>10 DEF ServerInv, ServedInv

\* The fibers of a step that queues nothing.
LEMMA RunFiberServes ==
  ASSUME ServerInv, NEW f \in running, RunFiber(f)
  PROVE  ServerInv'
<1>0. /\ ServerTypeOK /\ m_isStop \in BOOLEAN /\ early \in BOOLEAN
      /\ f \in FiberRecord /\ running \subseteq FiberRecord /\ m_fibers \in Seq(FiberRecord)
  BY Zenon DEF ServerInv, ServerTypeOK
<1>1. f \in Fibers /\ running \subseteq Fibers
  BY Zenon DEF Fibers
\* The fiber goes on, or ends.
<1>2. ASSUME NEW at \in {"start", "accept", "kernel"}, FiberGoto(f, at) \/ FiberEnds(f)
      PROVE  /\ running' \subseteq FiberRecord
             /\ \A g \in running' : \E h \in running : g.kind = h.kind /\ g.s = h.s
  <2>1. FiberGoto(f, at) \/ FiberEnds(f)
    BY Zenon, <1>2
  <2>2. ASSUME NEW g \in running' PROVE g \in running \/ g = [f EXCEPT !.at = at]
    BY Zenon, <2>1 DEF FiberGoto, FiberEnds
  <2>3. [f EXCEPT !.at = at] \in FiberRecord
        /\ [f EXCEPT !.at = at].kind = f.kind /\ [f EXCEPT !.at = at].s = f.s
    BY Zenon, <1>0, FiberGoesOn
  <2> QED
    BY Zenon, <1>0, <2>2, <2>3
<1>3. ASSUME running' \subseteq FiberRecord,
             \A g \in running' : \E h \in running : g.kind = h.kind /\ g.s = h.s,
             UNCHANGED <<m_isStop, m_socks, sockOpen, m_fibers, clients, serverCalls, early>>
      PROVE  ServerInv'
  <2>1. ServerTypeOK'
    BY Zenon, <1>0, <1>3 DEF ServerTypeOK
  <2>2. \A g \in Fibers' : \E h \in Fibers : g.kind = h.kind /\ g.s = h.s
    BY Zenon, <1>3 DEF Fibers, Queued
  <2> QED
    BY Zenon, <1>3, <2>1, <2>2, ServedKept
<1>4. CASE TestStop(f)
  <2>1. FiberGoto(f, "accept") \/ FiberEnds(f)
    BY Zenon, <1>4 DEF TestStop
  <2> QED
    BY Zenon, <1>2, <1>3, <1>4, <2>1 DEF TestStop
<1>5. CASE AcceptCall(f)
  <2>1. PICK at \in {"kernel", "start"} : FiberGoto(f, at)
    BY Zenon, <1>5 DEF AcceptCall
  <2> QED
    BY Zenon, <1>2, <1>3, <1>5, <2>1 DEF AcceptCall
<1>6. CASE Accepted(f)
  <2> DEFINE e == Task("client", clients, NoSock)
  <2>1. e \in FiberRecord /\ e.kind = "client"
    BY SMTT(30), <1>0, TaskIsFiber DEF ServerTypeOK
  <2>2. m_fibers' = Append(m_fibers, e) /\ FiberGoto(f, "start")
        /\ UNCHANGED <<m_isStop, m_socks, sockOpen, clients, serverCalls, early>>
    BY Zenon, <1>6 DEF Accepted
  <2> HIDE DEF e
  <2>3. /\ running' \subseteq FiberRecord
        /\ \A g \in running' : \E h \in running : g.kind = h.kind /\ g.s = h.s
    BY Zenon, <1>2, <2>2
  <2>4. Append(m_fibers, e) \in Seq(FiberRecord) /\ Entries(Append(m_fibers, e)) \subseteq Entries(m_fibers) \cup {e}
    BY Zenon, <1>0, <2>1, QueueAppend
  <2>5. ServerTypeOK'
    BY Zenon, <1>0, <2>2, <2>3, <2>4 DEF ServerTypeOK
  <2>6. ASSUME NEW g \in Fibers'
        PROVE  g.kind = "client" \/ \E h \in Fibers : g.kind = h.kind /\ g.s = h.s
    <3>1. CASE g \in running'
      BY Zenon, <1>1, <2>3, <3>1
    <3>2. CASE g \in Queued'
      BY Zenon, <2>1, <2>2, <2>4, <3>2, QueuedEntries DEF Fibers
    <3> QED
      BY Zenon, <2>6, <3>1, <3>2 DEF Fibers
  <2> QED
    BY Zenon, <2>2, <2>5, <2>6, ServedKept
<1>7. CASE CloseSockets(f)
  <2>1. f.kind = "close" /\ FiberEnds(f) /\ m_socks' = {} /\ sockOpen' \subseteq sockOpen
        /\ UNCHANGED <<m_isStop, m_fibers, clients, serverCalls, early>>
    BY Zenon, <1>7 DEF CloseSockets
  <2>2. ~(m_isStop = FALSE /\ early = FALSE)
    BY Zenon, <1>1, <2>1 DEF ServerInv, ServedInv, Served
  <2>3. ServerTypeOK'
    BY Zenon, <1>0, <2>1 DEF ServerTypeOK, FiberEnds
  <2> QED
    BY Zenon, <2>1, <2>2, <2>3 DEF ServerInv, ServedInv
<1>8. CASE HandleClient(f)
  <2>1. FiberEnds(f)
    BY Zenon, <1>8 DEF HandleClient
  <2> QED
    BY Zenon, <1>2, <1>3, <1>8, <2>1 DEF HandleClient
<1> QED
  BY Zenon, <1>4, <1>5, <1>6, <1>7, <1>8 DEF RunFiber

LEMMA ServerStep == ServerInv /\ [ServerNext]_serverVars => ServerInv'
<1> SUFFICES ASSUME ServerInv, [ServerNext]_serverVars PROVE ServerInv'
  OBVIOUS
<1>0. ServerTypeOK
  BY Zenon DEF ServerInv
<1>1. CASE bind
  <2>1. /\ serverCalls' \in Nat
        /\ UNCHANGED <<m_isStop, m_fibers, running, clients, early>>
    BY SMTT(30), <1>0, <1>1 DEF bind, ServerCall, ServerTypeOK
  <2>2. Fibers' = Fibers
    BY Zenon, <2>1 DEF Fibers, Queued
  <2>3. /\ m_socks' \subseteq sockOpen' /\ sockOpen' \subseteq ListenSock
        /\ \A f \in Fibers : f.s \in sockOpen => f.s \in sockOpen'
    <3>1. CASE \E S \in SUBSET Unreferenced(ListenSock \ m_socks) \ {{}} :
                 m_socks' = m_socks \cup S /\ sockOpen' = sockOpen \cup S
      BY Zenon, <1>0, <3>1 DEF ServerTypeOK, Unreferenced
    <3>2. CASE m_socks' = {} /\ sockOpen' = sockOpen \ Unreferenced(m_socks)
      BY Zenon, <1>0, <3>2 DEF ServerTypeOK, Unreferenced
    <3> QED
      BY Zenon, <1>1, <3>1, <3>2 DEF bind
  <2>4. ServerTypeOK'
    BY Zenon, <1>0, <2>1, <2>3 DEF ServerTypeOK
  <2> QED
    BY Zenon, <2>1, <2>2, <2>3, <2>4, ServedKept
<1>2. CASE start
  BY Zenon, <1>2, StartServes
<1>3. CASE stop
  <2> DEFINE e == Task("close", serverCalls, NoSock)
  <2>1. e \in FiberRecord
    BY Zenon, <1>0, TaskIsFiber DEF ServerTypeOK
  <2>2. /\ m_fibers' = Append(m_fibers, e) /\ m_isStop' = TRUE /\ serverCalls' \in Nat
        /\ UNCHANGED <<m_socks, sockOpen, running, clients, early>>
    BY SMTT(30), <1>0, <1>3 DEF stop, ServerCall, ServerTypeOK
  <2> HIDE DEF e
  <2>3. Append(m_fibers, e) \in Seq(FiberRecord)
    BY SMTT(30), <1>0, <2>1 DEF ServerTypeOK
  <2>4. ServerTypeOK'
    BY Zenon, <1>0, <2>2, <2>3 DEF ServerTypeOK
  <2> QED
    BY Zenon, <2>2, <2>4 DEF ServerInv, ServedInv
<1>4. CASE TakeFiber
  <2>1. /\ m_fibers # <<>> /\ running' = running \cup {Head(m_fibers)} /\ m_fibers' = Tail(m_fibers)
        /\ UNCHANGED <<m_isStop, m_socks, sockOpen, clients, serverCalls, early>>
    BY Zenon, <1>4 DEF TakeFiber
  <2>2. /\ Tail(m_fibers) \in Seq(FiberRecord) /\ Entries(Tail(m_fibers)) \subseteq Entries(m_fibers)
        /\ Head(m_fibers) \in FiberRecord /\ Head(m_fibers) \in Entries(m_fibers)
    <3>1. m_fibers \in Seq(FiberRecord)
      BY Zenon, <1>0 DEF ServerTypeOK
    <3> QED
      BY Zenon, <2>1, <3>1, QueueTail
  <2>3. ServerTypeOK'
    BY Zenon, <1>0, <2>1, <2>2 DEF ServerTypeOK
  <2>4. \A g \in Fibers' : g \in Fibers
    BY Zenon, <2>1, <2>2, QueuedEntries DEF Fibers
  <2> QED
    BY Zenon, <2>1, <2>3, <2>4, ServedKept
<1>5. ASSUME NEW f \in running, RunFiber(f) PROVE ServerInv'
  BY Zenon, <1>5, RunFiberServes
<1>6. ASSUME UNCHANGED <<m_isStop, m_socks, sockOpen, m_fibers, running, serverCalls, early>>,
             clients' \in Nat
      PROVE  ServerInv'
  <2>1. ServerTypeOK'
    BY Zenon, <1>0, <1>6 DEF ServerTypeOK
  <2>2. Fibers' = Fibers
    BY Zenon, <1>6 DEF Fibers, Queued
  <2> QED
    BY Zenon, <1>6, <2>1, <2>2, ServedKept
<1>7. ASSUME NEW s \in ListenSock, ClientConnects(s) PROVE ServerInv'
  BY SMTT(30), <1>0, <1>6, <1>7 DEF ClientConnects, ServerTypeOK
<1>8. CASE UNCHANGED serverVars
  BY Zenon, <1>0, <1>6, <1>8 DEF serverVars, ServerTypeOK
<1> QED
  BY Zenon, <1>1, <1>2, <1>3, <1>4, <1>5, <1>7, <1>8 DEF ServerNext

\* Whatever the sockets, threads and calls, startAccept() finds its socket closed
\* while the server is started only after a start() that overtook a stop().
THEOREM AcceptorsHaveSockets == ServerSpec => []ClosedOnlyAfterEarlyStart
<1>1. ServerInv => ClosedOnlyAfterEarlyStart
  <2> SUFFICES ASSUME ServerInv, NEW f \in running, f.kind = "accept", ~m_isStop, ~early
               PROVE  f.s \in sockOpen
    BY Zenon DEF ClosedOnlyAfterEarlyStart
  <2>1. m_isStop \in BOOLEAN /\ early \in BOOLEAN
    BY Zenon DEF ServerInv, ServerTypeOK
  <2>2. m_isStop = FALSE /\ early = FALSE
    BY <2>1, Zenon
  <2> QED
    BY Zenon, <2>2 DEF ServerInv, ServedInv, Served, Fibers
<1> QED
  BY <1>1, InitServer, ServerStep, PTL DEF ServerSpec
=============================================================================
