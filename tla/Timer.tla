------------------------------- MODULE Timer -------------------------------
(***************************************************************************)
(* timer.h and timer.cc: the ordered set of timers, the operations on a    *)
(* timer handle, and the two calls by which polling threads (the idle      *)
(* fibers of the I/O manager) serve it, getNextTimer() and                 *)
(* listExpiredCb().  The wall clock GetCurrentMS() advances and may be set *)
(* back.  A node of std::set keeps the place its key had when it was       *)
(* inserted, so m_timers holds pairs <<key, timer>>.                       *)
(***************************************************************************)
EXTENDS Integers, FiniteSets

CONSTANTS
  Timer,         \* timer objects
  Poller,        \* threads that serve the timers
  Periods,       \* the ms arguments callers pass
  Hour,          \* 60 * 60 * 1000, the rollover threshold
  Start,         \* the clock at construction
  MaxClock,      \* bound: the clock's last value
  MaxSetBacks    \* bound: how often the clock is set back

ASSUME TimerAssumption ==
  /\ Periods \subseteq Nat
  /\ Hour \in Nat /\ Start \in Nat /\ MaxClock \in Nat /\ MaxSetBacks \in Nat
  /\ Hour <= Start

VARIABLES
  m_timers,         \* the std::set, as pairs <<key at insertion, timer>>
  m_next, m_ms, m_recurring,
  m_cb,             \* m_cb is set
  phase,            \* "free", "made" (constructed) or "live" (handle returned)
  m_tickled,
  m_previouseTime,
  notify,           \* timers whose onTimerInsertedAtFront() call is due
  tickled,          \* a notification no poller has consumed
  pc, seen, now_ms, \* per poller: place, earliest key known, its clock reading
  fired,            \* callbacks of each timer handed out
  cancelled,        \* cancel() returned true
  now, peak,        \* the wall clock and its highest value so far
  setBacks

timer == <<m_next, m_ms, m_recurring, m_cb, phase, cancelled>>
manager == <<m_timers, m_tickled, m_previouseTime>>
poller == <<pc, seen, now_ms>>
clock == <<now, peak, setBacks>>
vars == <<timer, manager, poller, clock, notify, tickled, fired>>

Never == -1
\* Callbacks are counted 0, 1, several.
Count(n) == IF n < 2 THEN n + 1 ELSE n
\* m_timers.find(shared_from_this()) finds the node.
Found(t) == <<m_next[t], t>> \in m_timers

Init ==
  /\ m_timers = {} /\ m_tickled = FALSE /\ m_previouseTime = Start
  /\ m_next = [t \in Timer |-> 0] /\ m_ms = [t \in Timer |-> 0]
  /\ m_recurring = [t \in Timer |-> FALSE]
  /\ m_cb = [t \in Timer |-> FALSE]
  /\ phase = [t \in Timer |-> "free"]
  /\ cancelled = [t \in Timer |-> FALSE]
  /\ fired = [t \in Timer |-> 0]
  /\ notify = {} /\ tickled = FALSE
  /\ pc = [p \in Poller |-> "next"]
  /\ seen = [p \in Poller |-> Never]
  /\ now_ms = [p \in Poller |-> 0]
  /\ now = Start /\ peak = Start /\ setBacks = 0

----------------------------------------------------------------------------
\* addTimer(ms, cb, recurring): the constructor reads the clock before the
\* lock is taken.
MakeTimer(t, ms, recurring) ==
  /\ phase[t] = "free"
  /\ phase' = [phase EXCEPT ![t] = "made"]
  /\ m_ms' = [m_ms EXCEPT ![t] = ms]
  /\ m_next' = [m_next EXCEPT ![t] = now + ms]
  /\ m_recurring' = [m_recurring EXCEPT ![t] = recurring]
  /\ m_cb' = [m_cb EXCEPT ![t] = TRUE]
  /\ UNCHANGED <<cancelled, manager, poller, clock, notify, tickled, fired>>

\* addTimer(val, lock): insert n; the first insertion at the front since the
\* last getNextTimer() owes a notification, given after the lock is released.
InsertAt(S, n, t) ==
  /\ m_timers' = S \cup {<<n, t>>}
  /\ IF (\A e \in S : n <= e[1]) /\ ~m_tickled
     THEN m_tickled' = TRUE /\ notify' = notify \cup {t}
     ELSE UNCHANGED <<m_tickled, notify>>

addTimer(t) ==
  /\ phase[t] = "made"
  /\ phase' = [phase EXCEPT ![t] = "live"]
  /\ InsertAt(m_timers, m_next[t], t)
  /\ UNCHANGED <<m_next, m_ms, m_recurring, m_cb, cancelled, m_previouseTime,
                 poller, clock, tickled, fired>>

\* External: the override of onTimerInsertedAtFront() makes a poller return.
onTimerInsertedAtFront(t) ==
  /\ t \in notify
  /\ notify' = notify \ {t}
  /\ tickled' = TRUE
  /\ UNCHANGED <<timer, manager, poller, clock, fired>>

----------------------------------------------------------------------------
(***************************************************************************)
(* The operations on a handle.                                             *)
(***************************************************************************)
cancel(t) ==
  /\ phase[t] = "live"
  /\ m_cb[t]
  /\ m_cb' = [m_cb EXCEPT ![t] = FALSE]
  /\ m_timers' = m_timers \ {<<m_next[t], t>>}
  /\ cancelled' = [cancelled EXCEPT ![t] = TRUE]
  /\ UNCHANGED <<m_next, m_ms, m_recurring, phase, m_tickled, m_previouseTime,
                 poller, clock, notify, tickled, fired>>

refresh(t) ==
  /\ phase[t] = "live"
  /\ m_cb[t] /\ Found(t)
  /\ m_next' = [m_next EXCEPT ![t] = now + m_ms[t]]
  /\ m_timers' = (m_timers \ {<<m_next[t], t>>}) \cup {<<now + m_ms[t], t>>}
  /\ UNCHANGED <<m_ms, m_recurring, m_cb, phase, cancelled, m_tickled,
                 m_previouseTime, poller, clock, notify, tickled, fired>>

\* The new m_next of reset(ms, from_now).
ResetNext(t, ms, from_now) ==
  (IF from_now THEN now ELSE m_next[t] - m_ms[t]) + ms

\* The early return for an unchanged ms changes nothing.  It compares with
\* m_ms before the lock is taken, so it guards nothing behind the lock: another
\* reset() may come in between.
reset(t, ms, from_now) ==
  LET n == ResetNext(t, ms, from_now) IN
  /\ phase[t] = "live"
  /\ m_cb[t] /\ Found(t)
  /\ m_ms' = [m_ms EXCEPT ![t] = ms]
  /\ m_next' = [m_next EXCEPT ![t] = n]
  /\ InsertAt(m_timers \ {<<m_next[t], t>>}, n, t)
  /\ UNCHANGED <<m_recurring, m_cb, phase, cancelled, m_previouseTime,
                 poller, clock, tickled, fired>>

----------------------------------------------------------------------------
(***************************************************************************)
(* A poller: getNextTimer(), epoll_wait(), listExpiredCb().                *)
(***************************************************************************)
\* Mutant: m_tickled is not cleared.
getNextTimer_KeepsTickled(p) ==
  /\ pc[p] = "next"
  /\ \/ m_timers = {} /\ UNCHANGED seen
     \/ \E e \in m_timers : /\ \A f \in m_timers : e[1] <= f[1]
                            /\ seen' = [seen EXCEPT ![p] = e[1]]
  /\ pc' = [pc EXCEPT ![p] = "wait"]
  /\ UNCHANGED <<timer, manager, now_ms, clock, notify, tickled, fired>>

getNextTimer(p) ==
  /\ pc[p] = "next"
  /\ m_tickled' = FALSE
  /\ \/ m_timers = {} /\ UNCHANGED seen
     \/ \E e \in m_timers : /\ \A f \in m_timers : e[1] <= f[1]
                            /\ seen' = [seen EXCEPT ![p] = e[1]]
  /\ pc' = [pc EXCEPT ![p] = "wait"]
  /\ UNCHANGED <<timer, m_timers, m_previouseTime, now_ms, clock, notify, tickled, fired>>

\* External: epoll_wait() returns: the timeout, a notification or an fd event.
\* listExpiredCb() then reads the clock before it takes the lock.
Return(p) ==
  /\ pc[p] = "wait"
  /\ pc' = [pc EXCEPT ![p] = "list"]
  /\ seen' = [seen EXCEPT ![p] = Never]
  /\ now_ms' = [now_ms EXCEPT ![p] = now]
  /\ tickled' = FALSE
  /\ UNCHANGED <<timer, manager, clock, notify, fired>>

\* Mutant: any step back counts as a rollover.
Rollover_AnyStep(n) == n < m_previouseTime
\* detectClockRollover(), before m_previouseTime is overwritten.
Rollover(n) == n < m_previouseTime /\ n < m_previouseTime - Hour

\* Mutant: the nodes equal to now stay.
Expired_Strict(n) == {e \in m_timers : Rollover(n) \/ e[1] < n}
\* The nodes listExpiredCb() takes out: lower_bound(now) and the equal ones.
Expired(n) == {e \in m_timers : Rollover(n) \/ e[1] <= n}

\* Mutant: nothing is erased.
Remaining_All(E) == m_timers
\* m_timers after the erasure, and the nodes inserted again.
Remaining(E) == m_timers \ E
Reinserted(X, n) == {<<n + m_ms[t], t>> : t \in {x \in X : m_recurring[x]}}

listExpiredCb(p) ==
  LET n == now_ms[p]
      E == Expired(n)
      X == {e[2] : e \in E}
  IN
  /\ pc[p] = "list"
  /\ IF m_timers = {}
     THEN UNCHANGED <<m_timers, m_next, m_cb, fired, m_previouseTime>>
     ELSE /\ m_previouseTime' = n
          /\ m_next' = [t \in Timer |-> IF t \in X /\ m_recurring[t]
                                        THEN n + m_ms[t] ELSE m_next[t]]
          /\ m_cb' = [t \in Timer |-> m_cb[t] /\ (t \in X => m_recurring[t])]
          /\ fired' = [t \in Timer |-> IF t \in X THEN Count(fired[t]) ELSE fired[t]]
          /\ m_timers' = Remaining(E) \cup Reinserted(X, n)
  /\ pc' = [pc EXCEPT ![p] = "next"]
  /\ now_ms' = [now_ms EXCEPT ![p] = 0]
  /\ UNCHANGED <<m_ms, m_recurring, phase, cancelled, m_tickled, seen, clock,
                 notify, tickled>>

----------------------------------------------------------------------------
\* The clock.
Advance ==
  /\ now < MaxClock
  /\ now' = now + 1
  /\ peak' = IF now + 1 > peak THEN now + 1 ELSE peak
  /\ UNCHANGED <<setBacks, timer, manager, poller, notify, tickled, fired>>

SetBack ==
  /\ setBacks < MaxSetBacks
  /\ setBacks' = setBacks + 1
  /\ now' \in Start..(now - 1)
  /\ UNCHANGED <<peak, timer, manager, poller, notify, tickled, fired>>

Next ==
  \/ \E t \in Timer, ms \in Periods, r \in BOOLEAN : MakeTimer(t, ms, r)
  \/ \E t \in Timer : addTimer(t) \/ onTimerInsertedAtFront(t) \/ cancel(t) \/ refresh(t)
  \/ \E t \in Timer, ms \in Periods, f \in BOOLEAN : reset(t, ms, f)
  \/ \E p \in Poller : getNextTimer(p) \/ Return(p) \/ listExpiredCb(p)
  \/ Advance
  \/ SetBack

Spec == Init /\ [][Next]_vars

(***************************************************************************)
(* Fairness: pollers run, epoll_wait() returns within MAX_TIMEOUT, a       *)
(* notification that is due is given, and time passes.                     *)
(***************************************************************************)
FairSpec ==
  /\ Spec
  /\ \A p \in Poller : WF_vars(getNextTimer(p) \/ Return(p) \/ listExpiredCb(p))
  /\ \A t \in Timer : WF_vars(onTimerInsertedAtFront(t))
  /\ WF_vars(Advance)

----------------------------------------------------------------------------
(***************************************************************************)
(* Properties.                                                             *)
(***************************************************************************)

\* Every variable has its type; no time is negative.
TypeOK ==
  /\ m_timers \subseteq Nat \X Timer
  /\ m_next \in [Timer -> Nat] /\ m_ms \in [Timer -> Nat]
  /\ m_recurring \in [Timer -> BOOLEAN] /\ m_cb \in [Timer -> BOOLEAN]
  /\ phase \in [Timer -> {"free", "made", "live"}]
  /\ cancelled \in [Timer -> BOOLEAN]
  /\ fired \in [Timer -> 0..2]
  /\ m_tickled \in BOOLEAN /\ tickled \in BOOLEAN
  /\ m_previouseTime \in Nat
  /\ notify \subseteq Timer
  /\ pc \in [Poller -> {"next", "wait", "list"}]
  /\ seen \in [Poller -> Nat \cup {Never}]
  /\ now_ms \in [Poller -> Nat]
  /\ now \in Nat /\ peak \in Nat /\ setBacks \in Nat

\* The set never loses its order: every node sits where m_next of its timer
\* belongs, and a returned handle has a callback exactly while its timer is in
\* the set.  So the find() of cancel(), whose result is erased unchecked,
\* always succeeds.
SetConsistent ==
  /\ \A e \in m_timers : e[1] = m_next[e[2]] /\ phase[e[2]] = "live"
  /\ \A t \in Timer : phase[t] = "live" => (m_cb[t] <=> Found(t))

\* The timers are what Alarms says: a timer in the set is an alarm that is set,
\* and whatever refresh(), reset() and the pollers do at the same time, it goes
\* off once or until it is cancelled, and never afterwards.
AlarmOf(t) ==
  IF cancelled[t] THEN "cancelled"
  ELSE IF phase[t] # "live" THEN "free"
  ELSE IF ~Found(t) THEN "done"
  ELSE IF m_recurring[t] THEN "recurring" ELSE "once"
Alarm == INSTANCE Alarms WITH alarm <- [t \in Timer |-> AlarmOf(t)]
AlarmsKept == Alarm!Spec

\* A one-shot timer's callback is handed out at most once, whatever refresh(),
\* reset() and the pollers do.
OneShotOnce == \A t \in Timer : ~m_recurring[t] => fired[t] <= 1

\* A recurring timer stays armed until it is cancelled.
RecurringArmed ==
  \A t \in Timer :
    phase[t] = "live" /\ m_recurring[t] /\ ~cancelled[t] => Found(t)

\* Once cancel() has returned true the callback is never handed out again.
CancelStops == [][\A t \in Timer : cancelled[t] => fired'[t] = fired[t]]_vars

\* A timer whose time no clock reading has reached is handed out only when a
\* poller reads a clock more than an hour behind: a smaller correction of the
\* clock, or a reading that another poller has overtaken, fires nothing early.
EarlyOnlyAfterRollover ==
  [][\A t \in Timer :
       fired'[t] # fired[t] /\ m_next[t] > peak =>
         \E p \in Poller : now_ms[p] + Hour < peak]_vars

\* When all pollers are asleep and no notification is on its way, one of them
\* has taken the earliest timer into account in its timeout: m_tickled
\* suppresses no notification that is needed.
NoMissedTimer ==
  (\A p \in Poller : pc[p] = "wait") /\ notify = {} /\ ~tickled /\ m_timers # {}
    => \E p \in Poller : seen[p] # Never /\ \A e \in m_timers : seen[p] <= e[1]

\* A timer whose time comes is handed out, cancelled or given another time.
DueFires ==
  \A t \in Timer, n \in Start..MaxClock :
    <<n, t>> \in m_timers ~> <<n, t>> \notin m_timers
============================================================================
