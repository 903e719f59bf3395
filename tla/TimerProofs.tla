---------------------------- MODULE TimerProofs ----------------------------
(***************************************************************************)
(* Proofs about the timers, for any number of timers and pollers.          *)
(***************************************************************************)
EXTENDS Timer, TLAPS

\* What holds of one timer: before its handle is returned nothing happened to
\* it; a callback that was cancelled or, for a one-shot timer, handed out is
\* gone; m_next was computed from a clock reading and m_ms.
LifeInv(t) ==
  /\ phase[t] # "live" => fired[t] = 0 /\ ~cancelled[t]
  /\ phase[t] = "made" => m_cb[t]
  /\ cancelled[t] => ~m_cb[t]
  /\ ~m_recurring[t] /\ m_cb[t] => fired[t] = 0
  /\ ~m_recurring[t] => fired[t] <= 1
  /\ phase[t] = "live" /\ m_recurring[t] /\ ~cancelled[t] => m_cb[t]
  /\ m_ms[t] <= m_next[t]

\* No reading of the clock is above its peak.
ClockInv ==
  /\ now <= peak /\ m_previouseTime <= peak
  /\ \A p \in Poller : now_ms[p] <= peak

IInv == TypeOK /\ SetConsistent /\ ClockInv /\ \A t \in Timer : LifeInv(t)


LEMMA InitIInv == Init => IInv
<1> SUFFICES ASSUME Init PROVE IInv
  BY Zenon
<1>1. TypeOK
  <2>1. m_recurring \in [Timer -> BOOLEAN] /\ m_cb \in [Timer -> BOOLEAN]
        /\ cancelled \in [Timer -> BOOLEAN] /\ m_tickled \in BOOLEAN /\ tickled \in BOOLEAN
    BY Zenon DEF Init
  <2> QED
    BY <2>1, TimerAssumption DEF Init, TypeOK
<1>2. SetConsistent
  BY Zenon DEF Init, SetConsistent
<1>3. ClockInv
  BY TimerAssumption DEF Init, ClockInv
<1>4. \A t \in Timer : LifeInv(t)
  BY DEF Init, LifeInv
<1> QED
  BY Zenon, <1>1, <1>2, <1>3, <1>4 DEF IInv

\* Nodes are pairs.
LEMMA Pairs ==
  ASSUME TypeOK, NEW e \in m_timers
  PROVE  e = <<e[1], e[2]>> /\ e[1] \in Nat /\ e[2] \in Timer
BY DEF TypeOK

LEMMA TypeStep == IInv /\ [Next]_vars => TypeOK'
<1> SUFFICES ASSUME IInv, [Next]_vars PROVE TypeOK'
  BY Zenon
<1>a. TypeOK /\ \A t \in Timer : m_ms[t] <= m_next[t]
  BY Zenon DEF IInv, LifeInv
<1> USE <1>a, TimerAssumption DEF TypeOK
<1>1. ASSUME NEW t \in Timer, NEW ms \in Periods, NEW r \in BOOLEAN, MakeTimer(t, ms, r)
      PROVE  TypeOK'
  BY <1>1 DEF MakeTimer, manager, poller, clock
<1>2. ASSUME NEW S \in SUBSET (Nat \X Timer), NEW n \in Nat, NEW t \in Timer, InsertAt(S, n, t)
      PROVE  m_timers' \subseteq Nat \X Timer /\ m_tickled' \in BOOLEAN /\ notify' \subseteq Timer
  <2>1. m_timers' \subseteq Nat \X Timer /\ notify' \subseteq Timer
    BY <1>2 DEF InsertAt
  <2>2. m_tickled' = TRUE \/ m_tickled' = m_tickled
    BY Zenon, <1>2 DEF InsertAt
  <2> QED
    BY Zenon, <2>1, <2>2
<1>3. ASSUME NEW t \in Timer, addTimer(t) PROVE TypeOK'
  <2>1. m_timers' \subseteq Nat \X Timer /\ m_tickled' \in BOOLEAN /\ notify' \subseteq Timer
    BY Zenon, <1>2, <1>3 DEF addTimer
  <2> QED
    BY Zenon, <1>3, <2>1 DEF addTimer, poller, clock
<1>4. ASSUME NEW t \in Timer, onTimerInsertedAtFront(t) PROVE TypeOK'
  BY Zenon, <1>4 DEF onTimerInsertedAtFront, timer, manager, poller, clock
<1>5. ASSUME NEW t \in Timer, cancel(t) PROVE TypeOK'
  BY Zenon, <1>5 DEF cancel, poller, clock
<1>6. ASSUME NEW t \in Timer, refresh(t) PROVE TypeOK'
  BY <1>6 DEF refresh, poller, clock
<1>7. ASSUME NEW t \in Timer, NEW ms \in Periods, NEW f \in BOOLEAN, reset(t, ms, f)
      PROVE  TypeOK'
  <2>1. ResetNext(t, ms, f) \in Nat
    BY DEF ResetNext
  <2>2. m_timers' \subseteq Nat \X Timer /\ m_tickled' \in BOOLEAN /\ notify' \subseteq Timer
    BY Zenon, <1>2, <1>7, <2>1 DEF reset
  <2> QED
    BY Zenon, <1>7, <2>1, <2>2 DEF reset, poller, clock
<1>8. ASSUME NEW p \in Poller, getNextTimer(p) PROVE TypeOK'
  BY Zenon, <1>8 DEF getNextTimer, timer, clock
<1>9. ASSUME NEW p \in Poller, Return(p) PROVE TypeOK'
  BY Zenon, <1>9 DEF Return, timer, manager, clock
<1>10. ASSUME NEW p \in Poller, listExpiredCb(p) PROVE TypeOK'
  <2>1. UNCHANGED <<m_ms, m_recurring, phase, cancelled, m_tickled, seen, clock, notify, tickled>>
    BY Zenon, <1>10 DEF listExpiredCb
  <2>2. pc' \in [Poller -> {"next", "wait", "list"}] /\ now_ms' \in [Poller -> Nat]
    BY Zenon, <1>10 DEF listExpiredCb
  <2>3. CASE m_timers = {}
    BY <1>10, <2>1, <2>2, <2>3 DEF listExpiredCb, clock
  <2>4. CASE m_timers # {}
    <3> DEFINE n == now_ms[p]
               X == {e[2] : e \in Expired(n)}
    <3>1. /\ m_previouseTime' = n
          /\ m_next' = [t \in Timer |-> IF t \in X /\ m_recurring[t] THEN n + m_ms[t] ELSE m_next[t]]
          /\ m_cb' = [t \in Timer |-> m_cb[t] /\ (t \in X => m_recurring[t])]
          /\ fired' = [t \in Timer |-> IF t \in X THEN Count(fired[t]) ELSE fired[t]]
          /\ m_timers' = Remaining(Expired(n)) \cup Reinserted(X, n)
      BY Zenon, <1>10, <2>4 DEF listExpiredCb
    <3>2. X \subseteq Timer /\ n \in Nat
      BY DEF Expired
    <3> HIDE DEF X, n
    <3>3. m_next' \in [Timer -> Nat] /\ m_previouseTime' \in Nat
      BY <3>1, <3>2
    <3>4. m_cb' \in [Timer -> BOOLEAN]
      BY Zenon, <3>1
    <3>5. fired' \in [Timer -> 0..2]
      BY <3>1 DEF Count
    <3>6. m_timers' \subseteq Nat \X Timer
      BY <3>1, <3>2 DEF Remaining, Reinserted
    <3> QED
      BY Zenon, <2>1, <2>2, <3>3, <3>4, <3>5, <3>6 DEF clock
  <2> QED
    BY Zenon, <2>3, <2>4
<1>11. CASE Advance
  BY <1>11 DEF Advance, timer, manager, poller
<1>12. CASE SetBack
  BY <1>12 DEF SetBack, timer, manager, poller
<1>13. CASE UNCHANGED vars
  BY Zenon, <1>13 DEF vars, timer, manager, poller, clock
<1> QED
  BY Zenon, <1>1, <1>3, <1>4, <1>5, <1>6, <1>7, <1>8, <1>9, <1>10, <1>11, <1>12, <1>13 DEF Next

\* What listExpiredCb() does to the timers when the set is not empty: the
\* timers of X are handed out, and the recurring ones get a new node.
LEMMA ExpireShape ==
  ASSUME IInv, NEW p \in Poller, listExpiredCb(p), m_timers # {}
  PROVE  \E X \in SUBSET Timer, n \in Nat :
           /\ n = now_ms[p] /\ m_previouseTime' = n
           /\ X = {t \in Timer : Found(t) /\ (Rollover(n) \/ m_next[t] <= n)}
           /\ m_next' = [t \in Timer |-> IF t \in X /\ m_recurring[t] THEN n + m_ms[t] ELSE m_next[t]]
           /\ m_cb' = [t \in Timer |-> m_cb[t] /\ (t \in X => m_recurring[t])]
           /\ fired' = [t \in Timer |-> IF t \in X THEN Count(fired[t]) ELSE fired[t]]
           /\ m_timers' = {e \in m_timers : e[2] \notin X} \cup Reinserted(X, n)
           /\ UNCHANGED <<phase, cancelled, m_recurring, m_ms, clock>>
           /\ now_ms' = [now_ms EXCEPT ![p] = 0]
<1> DEFINE n == now_ms[p]
           X == {e[2] : e \in Expired(n)}
<1>0. TypeOK /\ SetConsistent
  BY Zenon DEF IInv
<1>1. /\ m_previouseTime' = n
      /\ m_next' = [t \in Timer |-> IF t \in X /\ m_recurring[t] THEN n + m_ms[t] ELSE m_next[t]]
      /\ m_cb' = [t \in Timer |-> m_cb[t] /\ (t \in X => m_recurring[t])]
      /\ fired' = [t \in Timer |-> IF t \in X THEN Count(fired[t]) ELSE fired[t]]
      /\ m_timers' = Remaining(Expired(n)) \cup Reinserted(X, n)
      /\ UNCHANGED <<phase, cancelled, m_recurring, m_ms, clock>>
      /\ now_ms' = [now_ms EXCEPT ![p] = 0]
  BY Zenon DEF listExpiredCb
<1>2. n \in Nat /\ X \in SUBSET Timer
  BY <1>0 DEF TypeOK, Expired
<1>3. ASSUME NEW e \in m_timers
      PROVE  e = <<m_next[e[2]], e[2]>> /\ e[2] \in Timer
  BY Zenon, <1>0, <1>3, Pairs DEF SetConsistent
<1>4. X = {t \in Timer : Found(t) /\ (Rollover(n) \/ m_next[t] <= n)}
  <2>1. ASSUME NEW t \in X PROVE t \in Timer /\ Found(t) /\ (Rollover(n) \/ m_next[t] <= n)
    <3> PICK e \in Expired(n) : t = e[2]
      BY Zenon, <2>1
    <3> QED
      BY <1>3 DEF Expired, Found
  <2>2. ASSUME NEW t \in Timer, Found(t), Rollover(n) \/ m_next[t] <= n PROVE t \in X
    <3>1. <<m_next[t], t>> \in Expired(n)
      BY Zenon, <2>2 DEF Found, Expired
    <3> QED
      BY <3>1
  <2> QED
    BY Zenon, <2>1, <2>2
<1>5. Remaining(Expired(n)) = {e \in m_timers : e[2] \notin X}
  <2>1. ASSUME NEW e \in m_timers, e \notin Expired(n) PROVE e[2] \notin X
    <3>1. ~(Rollover(n) \/ m_next[e[2]] <= n)
      BY <2>1, <1>3 DEF Expired
    <3> QED
      BY Zenon, <3>1, <1>4
  <2>2. ASSUME NEW e \in m_timers, e[2] \notin X PROVE e \notin Expired(n)
    BY Zenon, <2>2
  <2> QED
    BY Zenon, <2>1, <2>2 DEF Remaining
<1> HIDE DEF X, n
<1> QED
  BY Zenon, <1>1, <1>2, <1>4, <1>5 DEF n

LEMMA SetStep == IInv /\ [Next]_vars => SetConsistent'
<1> SUFFICES ASSUME IInv, [Next]_vars PROVE SetConsistent'
  OBVIOUS
<1>a. TypeOK /\ SetConsistent
  BY Zenon DEF IInv
<1>b. /\ m_timers \subseteq Nat \X Timer /\ m_next \in [Timer -> Nat] /\ m_cb \in [Timer -> BOOLEAN]
      /\ phase \in [Timer -> {"free", "made", "live"}]
  BY Zenon, <1>a DEF TypeOK
<1>c. \A e \in m_timers : e = <<m_next[e[2]], e[2]>> /\ e[2] \in Timer /\ phase[e[2]] = "live"
  BY Zenon, <1>a, Pairs DEF SetConsistent
<1>d. \A t \in Timer : phase[t] = "live" => (m_cb[t] <=> <<m_next[t], t>> \in m_timers)
  BY Zenon, <1>a DEF SetConsistent, Found
<1>e. SUFFICES
        /\ \A e \in m_timers' : e[1] = m_next'[e[2]] /\ phase'[e[2]] = "live"
        /\ \A t \in Timer : phase'[t] = "live" => (m_cb'[t] <=> <<m_next'[t], t>> \in m_timers')
  BY Zenon DEF SetConsistent, Found
<1> DEFINE Goal ==
        /\ \A e \in m_timers' : e[1] = m_next'[e[2]] /\ phase'[e[2]] = "live"
        /\ \A t \in Timer : phase'[t] = "live" => (m_cb'[t] <=> <<m_next'[t], t>> \in m_timers')
<1> USE <1>b, <1>c, <1>d
<1>1. ASSUME NEW t \in Timer, NEW ms \in Periods, NEW r \in BOOLEAN, MakeTimer(t, ms, r)
      PROVE  Goal
  <2>1. /\ phase[t] = "free" /\ phase' = [phase EXCEPT ![t] = "made"]
        /\ m_timers' = m_timers
        /\ \A u \in Timer \ {t} : m_next'[u] = m_next[u] /\ m_cb'[u] = m_cb[u]
    BY Zenon, <1>1 DEF MakeTimer, manager
  <2> QED
    BY <2>1
\* The node of t, if any, is replaced by one at n.
<1>2. ASSUME NEW t \in Timer, NEW n \in Nat,
             m_next' = [m_next EXCEPT ![t] = n], UNCHANGED m_cb, m_cb[t],
             phase' = [phase EXCEPT ![t] = "live"],
             m_timers' = (m_timers \ {<<m_next[t], t>>}) \cup {<<n, t>>}
      PROVE  Goal
  <2>1. \A e \in m_timers : e # <<m_next[t], t>> => e[2] # t
    BY Zenon
  <2>2. \A e \in m_timers' : e = <<n, t>> \/ (e \in m_timers /\ e[2] # t)
    BY Zenon, <1>2, <2>1
  <2>3. \A e \in m_timers' : e[1] = m_next'[e[2]] /\ phase'[e[2]] = "live"
    BY <1>2, <2>2
  <2>4. \A u \in Timer \ {t} : <<m_next[u], u>> \in m_timers' <=> <<m_next[u], u>> \in m_timers
    BY Zenon, <1>2
  <2>5. \A u \in Timer \ {t} : m_next'[u] = m_next[u] /\ phase'[u] = phase[u] /\ m_cb'[u] = m_cb[u]
    BY Zenon, <1>2
  <2>6. m_cb'[t] /\ <<m_next'[t], t>> \in m_timers'
    BY Zenon, <1>2
  <2> QED
    BY Zenon, <2>3, <2>4, <2>5, <2>6
<1>3. ASSUME NEW t \in Timer, addTimer(t) PROVE Goal
  <2>1. phase[t] = "made" /\ phase' = [phase EXCEPT ![t] = "live"] /\ UNCHANGED <<m_next, m_cb>>
        /\ m_timers' = m_timers \cup {<<m_next[t], t>>}
    BY Zenon, <1>3 DEF addTimer, InsertAt
  <2>2. <<m_next[t], t>> \notin m_timers
    BY Zenon, <2>1
  <2>3. m_cb[t]
    BY Zenon, <2>1 DEF IInv, LifeInv
  <2>4. m_next' = [m_next EXCEPT ![t] = m_next[t]] /\ m_next[t] \in Nat
    BY Zenon, <2>1
  <2> QED
    BY <1>2, <2>1, <2>2, <2>3, <2>4
<1>4. ASSUME NEW t \in Timer, cancel(t) PROVE Goal
  <2>1. /\ phase[t] = "live" /\ m_cb' = [m_cb EXCEPT ![t] = FALSE]
        /\ UNCHANGED <<m_next, phase>>
        /\ m_timers' = m_timers \ {<<m_next[t], t>>}
    BY Zenon, <1>4 DEF cancel
  <2> QED
    BY <2>1
<1>5. ASSUME NEW t \in Timer, refresh(t) PROVE Goal
  <2>1. now + m_ms[t] \in Nat /\ phase' = [phase EXCEPT ![t] = "live"]
    BY <1>5, <1>a DEF TypeOK, refresh
  <2> QED
    BY Zenon, <1>2, <1>5, <2>1 DEF refresh
<1>6. ASSUME NEW t \in Timer, NEW ms \in Periods, NEW f \in BOOLEAN, reset(t, ms, f)
      PROVE  Goal
  <2>1. m_ms[t] <= m_next[t]
    BY Zenon DEF IInv, LifeInv
  <2>2. ResetNext(t, ms, f) \in Nat
    BY <2>1, <1>a, TimerAssumption DEF TypeOK, ResetNext
  <2>3. phase' = [phase EXCEPT ![t] = "live"]
    BY Zenon, <1>6 DEF reset
  <2> QED
    BY Zenon, <1>2, <1>6, <2>2, <2>3 DEF reset, InsertAt
<1>7. ASSUME NEW p \in Poller, listExpiredCb(p) PROVE Goal
  <2>1. CASE m_timers = {}
    BY Zenon, <1>7, <2>1 DEF listExpiredCb
  <2>2. CASE m_timers # {}
    <3> PICK X \in SUBSET Timer, n \in Nat :
          /\ X = {t \in Timer : Found(t) /\ (Rollover(n) \/ m_next[t] <= n)}
          /\ m_next' = [t \in Timer |-> IF t \in X /\ m_recurring[t] THEN n + m_ms[t] ELSE m_next[t]]
          /\ m_cb' = [t \in Timer |-> m_cb[t] /\ (t \in X => m_recurring[t])]
          /\ m_timers' = {e \in m_timers : e[2] \notin X} \cup Reinserted(X, n)
          /\ UNCHANGED <<phase, m_recurring>>
      BY <1>7, <2>2, ExpireShape
    <3>1. \A t \in X : <<m_next[t], t>> \in m_timers /\ m_cb[t] /\ phase[t] = "live"
      BY Zenon DEF Found
    <3>2. ASSUME NEW e \in m_timers' PROVE e[1] = m_next'[e[2]] /\ phase'[e[2]] = "live"
      <4>1. CASE e \in m_timers /\ e[2] \notin X
        BY <4>1
      <4>2. CASE \E t \in X : m_recurring[t] /\ e = <<n + m_ms[t], t>>
        <5> PICK t \in X : m_recurring[t] /\ e = <<n + m_ms[t], t>>
          BY Zenon, <4>2
        <5>1. m_next'[t] = n + m_ms[t] /\ phase'[t] = "live"
          BY Zenon, <3>1
        <5> QED
          BY Zenon, <5>1
      <4> QED
        BY <3>2, <4>1, <4>2 DEF Reinserted
    <3>3. ASSUME NEW t \in Timer, phase'[t] = "live"
          PROVE  m_cb'[t] <=> <<m_next'[t], t>> \in m_timers'
      <4>1. CASE t \notin X
        <5>1. m_next'[t] = m_next[t] /\ (m_cb'[t] <=> m_cb[t])
          BY Zenon, <4>1
        <5>2. <<m_next[t], t>> \in m_timers' <=> <<m_next[t], t>> \in m_timers
          BY <4>1 DEF Reinserted
        <5> QED
          BY Zenon, <5>1, <5>2, <3>3
      <4>2. CASE t \in X /\ m_recurring[t]
        <5>1. m_next'[t] = n + m_ms[t] /\ m_cb'[t]
          BY Zenon, <4>2, <3>1
        <5>2. <<n + m_ms[t], t>> \in Reinserted(X, n)
          BY Zenon, <4>2 DEF Reinserted
        <5> QED
          BY Zenon, <5>1, <5>2
      <4>3. CASE t \in X /\ ~m_recurring[t]
        <5>1. ~m_cb'[t]
          BY Zenon, <4>3
        <5>2. <<m_next'[t], t>> \notin m_timers'
          BY Zenon, <4>3 DEF Reinserted
        <5> QED
          BY Zenon, <5>1, <5>2
      <4> QED
        BY Zenon, <4>1, <4>2, <4>3
    <3> QED
      BY Zenon, <3>2, <3>3
  <2> QED
    BY Zenon, <2>1, <2>2
<1>8. ASSUME UNCHANGED <<m_timers, m_next, m_cb, phase>> PROVE Goal
  BY <1>8
<1>9. ASSUME Next
      PROVE  \/ UNCHANGED <<m_timers, m_next, m_cb, phase>>
             \/ \E t \in Timer, ms \in Periods, r \in BOOLEAN : MakeTimer(t, ms, r)
             \/ \E t \in Timer : addTimer(t) \/ cancel(t) \/ refresh(t)
             \/ \E t \in Timer, ms \in Periods, f \in BOOLEAN : reset(t, ms, f)
             \/ \E p \in Poller : listExpiredCb(p)
  BY Zenon, <1>9 DEF Next, onTimerInsertedAtFront, getNextTimer, Return, Advance, SetBack, timer,
     manager
<1>10. ASSUME UNCHANGED vars PROVE Goal
  BY Zenon, <1>8, <1>10 DEF vars, timer, manager
<1> HIDE DEF Goal
<1>11. ASSUME Next PROVE Goal
  BY <1>1, <1>3, <1>4, <1>5, <1>6, <1>7, <1>8, <1>9, <1>11
<1> QED
  BY Zenon, <1>10, <1>11 DEF Goal

LEMMA ClockStep == IInv /\ [Next]_vars => ClockInv'
<1> SUFFICES ASSUME IInv, [Next]_vars PROVE ClockInv'
  OBVIOUS
<1>a. /\ now \in Nat /\ peak \in Nat /\ m_previouseTime \in Nat /\ now_ms \in [Poller -> Nat]
      /\ ClockInv
  BY Zenon DEF IInv, TypeOK
<1> USE <1>a DEF ClockInv
<1>1. ASSUME NEW p \in Poller, Return(p) PROVE ClockInv'
  BY Zenon, <1>1 DEF Return, clock, manager
<1>2. ASSUME NEW p \in Poller, listExpiredCb(p) PROVE ClockInv'
  <2>1. now_ms' = [now_ms EXCEPT ![p] = 0] /\ UNCHANGED <<now, peak>>
    BY Zenon, <1>2 DEF listExpiredCb, clock
  <2>2. m_previouseTime' = m_previouseTime \/ m_previouseTime' = now_ms[p]
    BY Zenon, <1>2 DEF listExpiredCb
  <2> QED
    BY <2>1, <2>2
<1>3. CASE Advance
  BY <1>3 DEF Advance, manager, poller
<1>4. CASE SetBack
  BY <1>4, TimerAssumption DEF SetBack, manager, poller
<1>5. CASE UNCHANGED <<now, peak, m_previouseTime, now_ms>>
  BY Zenon, <1>5
<1>6. CASE UNCHANGED vars
  BY Zenon, <1>5, <1>6 DEF vars, manager, poller, clock
<1>7. ASSUME Next
      PROVE  \/ UNCHANGED <<now, peak, m_previouseTime, now_ms>>
             \/ \E p \in Poller : Return(p) \/ listExpiredCb(p)
             \/ Advance
             \/ SetBack
  BY Zenon, <1>7 DEF Next, MakeTimer, addTimer, onTimerInsertedAtFront, cancel, refresh, reset,
     getNextTimer, timer, manager, poller, clock
<1> HIDE DEF ClockInv
<1> QED
  BY Zenon, <1>1, <1>2, <1>3, <1>4, <1>5, <1>6, <1>7

\* An operation on another timer, or one that changes no field LifeInv is about.
LEMMA LifeSame ==
  ASSUME NEW t \in Timer, LifeInv(t),
         phase'[t] = phase[t], fired'[t] = fired[t], cancelled'[t] = cancelled[t],
         m_cb'[t] = m_cb[t], m_recurring'[t] = m_recurring[t],
         m_ms'[t] = m_ms[t], m_next'[t] = m_next[t]
  PROVE  LifeInv(t)'
BY Zenon DEF LifeInv

LEMMA LifeStep == IInv /\ [Next]_vars => \A t \in Timer : LifeInv(t)'
<1> SUFFICES ASSUME IInv, [Next]_vars, NEW u \in Timer PROVE LifeInv(u)'
  BY Zenon
<1>a. TypeOK /\ SetConsistent /\ LifeInv(u)
  BY Zenon DEF IInv
<1>b. /\ m_next \in [Timer -> Nat] /\ m_ms \in [Timer -> Nat] /\ fired \in [Timer -> 0..2]
      /\ m_recurring \in [Timer -> BOOLEAN] /\ m_cb \in [Timer -> BOOLEAN]
      /\ cancelled \in [Timer -> BOOLEAN] /\ phase \in [Timer -> {"free", "made", "live"}]
      /\ now \in Nat /\ now_ms \in [Poller -> Nat] /\ Periods \subseteq Nat
  BY Zenon, <1>a, TimerAssumption DEF TypeOK
<1> USE <1>b
<1>1. ASSUME NEW t \in Timer, NEW ms \in Periods, NEW r \in BOOLEAN, MakeTimer(t, ms, r)
      PROVE  LifeInv(u)'
  <2>1. CASE u # t
    BY Zenon, <1>1, <1>a, <2>1, LifeSame DEF MakeTimer
  <2>2. CASE u = t
    <3>1. /\ phase[u] = "free" /\ phase'[u] = "made" /\ m_cb'[u] /\ fired' = fired
          /\ cancelled' = cancelled /\ m_ms'[u] = ms /\ m_next'[u] = now + ms
      BY Zenon, <1>1, <2>2 DEF MakeTimer
    <3>2. fired'[u] = 0 /\ ~cancelled'[u]
      BY Zenon, <3>1, <1>a DEF LifeInv
    <3> QED
      BY <3>1, <3>2 DEF LifeInv
  <2> QED
    BY Zenon, <2>1, <2>2
<1>2. ASSUME NEW t \in Timer, addTimer(t) PROVE LifeInv(u)'
  <2>1. CASE u # t
    BY Zenon, <1>2, <1>a, <2>1, LifeSame DEF addTimer
  <2>2. CASE u = t
    BY Zenon, <1>2, <1>a, <2>2 DEF addTimer, LifeInv
  <2> QED
    BY Zenon, <2>1, <2>2
<1>3. ASSUME NEW t \in Timer, cancel(t) PROVE LifeInv(u)'
  <2>1. CASE u # t
    BY Zenon, <1>3, <1>a, <2>1, LifeSame DEF cancel
  <2>2. CASE u = t
    <3>1. /\ phase[u] = "live" /\ ~m_cb'[u] /\ cancelled'[u]
          /\ UNCHANGED <<phase, fired, m_recurring, m_ms, m_next>>
      BY Zenon, <1>3, <2>2 DEF cancel
    <3> QED
      BY Zenon, <3>1, <1>a DEF LifeInv
  <2> QED
    BY <2>1, <2>2
<1>4. ASSUME NEW t \in Timer, NEW n \in Nat, NEW ms \in Nat, ms <= n,
             m_next' = [m_next EXCEPT ![t] = n], m_ms' = [m_ms EXCEPT ![t] = ms],
             UNCHANGED <<phase, fired, cancelled, m_cb, m_recurring>>
      PROVE  LifeInv(u)'
  <2>1. m_ms'[u] <= m_next'[u]
    BY Zenon, <1>4, <1>a DEF LifeInv
  <2> QED
    BY Zenon, <1>4, <1>a, <2>1 DEF LifeInv
<1>5. ASSUME NEW t \in Timer, refresh(t) PROVE LifeInv(u)'
  <2>1. m_ms' = [m_ms EXCEPT ![t] = m_ms[t]] /\ now + m_ms[t] \in Nat /\ m_ms[t] <= now + m_ms[t]
    BY <1>5 DEF refresh
  <2> QED
    BY Zenon, <1>4, <1>5, <2>1 DEF refresh
<1>6. ASSUME NEW t \in Timer, NEW ms \in Periods, NEW f \in BOOLEAN, reset(t, ms, f)
      PROVE  LifeInv(u)'
  <2>1. m_ms[t] <= m_next[t]
    BY Zenon DEF IInv, LifeInv
  <2>2. ResetNext(t, ms, f) \in Nat /\ ms <= ResetNext(t, ms, f) /\ ms \in Nat
    BY <2>1 DEF ResetNext
  <2> QED
    BY Zenon, <1>4, <1>6, <2>2 DEF reset
<1>7. ASSUME NEW p \in Poller, listExpiredCb(p) PROVE LifeInv(u)'
  <2>1. CASE m_timers = {}
    BY Zenon, <1>7, <1>a, <2>1, LifeSame DEF listExpiredCb
  <2>2. CASE m_timers # {}
    <3> PICK X \in SUBSET Timer, n \in Nat :
          /\ n = now_ms[p] /\ m_previouseTime' = n
          /\ X = {t \in Timer : Found(t) /\ (Rollover(n) \/ m_next[t] <= n)}
          /\ m_next' = [t \in Timer |-> IF t \in X /\ m_recurring[t] THEN n + m_ms[t] ELSE m_next[t]]
          /\ m_cb' = [t \in Timer |-> m_cb[t] /\ (t \in X => m_recurring[t])]
          /\ fired' = [t \in Timer |-> IF t \in X THEN Count(fired[t]) ELSE fired[t]]
          /\ m_timers' = {e \in m_timers : e[2] \notin X} \cup Reinserted(X, n)
          /\ UNCHANGED <<phase, cancelled, m_recurring, m_ms, clock>>
          /\ now_ms' = [now_ms EXCEPT ![p] = 0]
      BY <1>7, <2>2, ExpireShape, Zenon
    <3>1. CASE u \notin X
      <4>1. m_cb'[u] = m_cb[u] /\ fired'[u] = fired[u] /\ m_next'[u] = m_next[u]
        BY Zenon, <3>1
      <4> QED
        BY Zenon, <4>1, <1>a, LifeSame
    <3>2. CASE u \in X
      <4>1. phase[u] = "live" /\ m_cb[u]
        BY Zenon, <3>2, <1>a DEF SetConsistent, Found
      <4>2. ~cancelled[u]
        BY Zenon, <4>1, <1>a DEF LifeInv
      <4>3. CASE m_recurring[u]
        <5>1. m_cb'[u] /\ m_next'[u] = n + m_ms[u]
          BY Zenon, <3>2, <4>1, <4>3
        <5> QED
          BY <4>1, <4>2, <4>3, <5>1 DEF LifeInv
      <4>4. CASE ~m_recurring[u]
        <5>1. ~m_cb'[u] /\ m_next'[u] = m_next[u] /\ fired'[u] = Count(fired[u])
          BY Zenon, <3>2, <4>4
        <5>2. fired'[u] = 1
          BY <5>1, <4>1, <4>4, <1>a DEF LifeInv, Count
        <5> QED
          BY <4>1, <4>2, <4>4, <5>1, <5>2, <1>a DEF LifeInv
      <4> QED
        BY Zenon, <4>3, <4>4
    <3> QED
      BY Zenon, <3>1, <3>2
  <2> QED
    BY Zenon, <2>1, <2>2
<1>8. ASSUME UNCHANGED <<timer, fired>> PROVE LifeInv(u)'
  BY Zenon, <1>8, <1>a, LifeSame DEF timer
<1>9. ASSUME Next
      PROVE  \/ UNCHANGED <<timer, fired>>
             \/ \E t \in Timer, ms \in Periods, r \in BOOLEAN : MakeTimer(t, ms, r)
             \/ \E t \in Timer : addTimer(t) \/ cancel(t) \/ refresh(t)
             \/ \E t \in Timer, ms \in Periods, f \in BOOLEAN : reset(t, ms, f)
             \/ \E p \in Poller : listExpiredCb(p)
  BY Zenon, <1>9 DEF Next, onTimerInsertedAtFront, getNextTimer, Return, Advance, SetBack
<1>10. CASE UNCHANGED vars
  BY Zenon, <1>8, <1>10 DEF vars
<1>11. CASE Next
  BY Zenon, <1>1, <1>2, <1>3, <1>5, <1>6, <1>7, <1>8, <1>9, <1>11
<1> QED
  BY Zenon, <1>10, <1>11

LEMMA NextIInv == IInv /\ [Next]_vars => IInv'
BY Zenon, TypeStep, SetStep, ClockStep, LifeStep DEF IInv

\* The inductive invariant holds in every state of every behaviour.
THEOREM Inductive == Spec => []IInv
BY InitIInv, NextIInv, PTL DEF Spec

\* Every variable of the timers has its type and no time ever underflows,
\* whatever reset() computes.
THEOREM TypeCorrect == Spec => []TypeOK
<1>1. IInv => TypeOK
  BY Zenon DEF IInv
<1> QED
  BY <1>1, Inductive, PTL

\* The find() in cancel() always succeeds, for any number of timers, pollers
\* and clock corrections.
THEOREM OrderKept == Spec => []SetConsistent
<1>1. IInv => SetConsistent
  BY Zenon DEF IInv
<1> QED
  BY <1>1, Inductive, PTL

\* A one-shot timer fires at most once and a recurring one stays armed.
THEOREM FiringRules == Spec => [](OneShotOnce /\ RecurringArmed)
<1>1. IInv => OneShotOnce /\ RecurringArmed
  BY Zenon DEF IInv, LifeInv, OneShotOnce, RecurringArmed, SetConsistent
<1> QED
  BY <1>1, Inductive, PTL

\* A step that hands out the callback of t is a listExpiredCb() that finds t.
LEMMA FiringStep ==
  ASSUME IInv, [Next]_vars, NEW t \in Timer, fired'[t] # fired[t]
  PROVE  Found(t) /\ \E p \in Poller : Rollover(now_ms[p]) \/ m_next[t] <= now_ms[p]
<1>1. fired' # fired
  BY Zenon
<1>2. PICK p \in Poller : listExpiredCb(p)
  BY Zenon, <1>1 DEF Next, MakeTimer, addTimer, onTimerInsertedAtFront, cancel, refresh, reset,
     getNextTimer, Return, Advance, SetBack, vars
<1>3. m_timers # {}
  BY Zenon, <1>1, <1>2 DEF listExpiredCb
<1> PICK X \in SUBSET Timer, n \in Nat :
      /\ n = now_ms[p] /\ m_previouseTime' = n
      /\ X = {u \in Timer : Found(u) /\ (Rollover(n) \/ m_next[u] <= n)}
      /\ m_next' = [u \in Timer |-> IF u \in X /\ m_recurring[u] THEN n + m_ms[u] ELSE m_next[u]]
      /\ m_cb' = [u \in Timer |-> m_cb[u] /\ (u \in X => m_recurring[u])]
      /\ fired' = [u \in Timer |-> IF u \in X THEN Count(fired[u]) ELSE fired[u]]
      /\ m_timers' = {e \in m_timers : e[2] \notin X} \cup Reinserted(X, n)
      /\ UNCHANGED <<phase, cancelled, m_recurring, m_ms, clock>>
      /\ now_ms' = [now_ms EXCEPT ![p] = 0]
  BY <1>2, <1>3, ExpireShape, Zenon
<1>4. t \in X
  BY Zenon
<1> QED
  BY Zenon, <1>4

\* A cancelled timer's callback is not handed out any more.
THEOREM CancelIsFinal == Spec => CancelStops
<1>1. IInv /\ [Next]_vars => [\A t \in Timer : cancelled[t] => fired'[t] = fired[t]]_vars
  <2> SUFFICES ASSUME IInv, [Next]_vars, NEW t \in Timer, cancelled[t], fired'[t] # fired[t]
               PROVE  FALSE
    BY Zenon
  <2>1. Found(t)
    BY Zenon, FiringStep
  <2> QED
    BY Zenon, <2>1 DEF IInv, LifeInv, SetConsistent, Found
<1> QED
  BY <1>1, Inductive, PTL DEF Spec, CancelStops

\* No callback is handed out before its time, unless a clock reading is more
\* than an hour behind an earlier one.
THEOREM NeverEarly == Spec => EarlyOnlyAfterRollover
<1>1. IInv /\ [Next]_vars =>
        [\A t \in Timer : fired'[t] # fired[t] /\ m_next[t] > peak =>
           \E p \in Poller : now_ms[p] + Hour < peak]_vars
  <2> SUFFICES ASSUME IInv, [Next]_vars, NEW t \in Timer, fired'[t] # fired[t], m_next[t] > peak
               PROVE  \E p \in Poller : now_ms[p] + Hour < peak
    BY Zenon
  <2>0. /\ now_ms \in [Poller -> Nat] /\ m_previouseTime \in Nat /\ peak \in Nat
        /\ m_next \in [Timer -> Nat] /\ Hour \in Nat /\ ClockInv
    BY Zenon, TimerAssumption DEF IInv, TypeOK
  <2>1. PICK p \in Poller : Rollover(now_ms[p]) \/ m_next[t] <= now_ms[p]
    BY Zenon, FiringStep
  <2> QED
    BY <2>0, <2>1 DEF Rollover, ClockInv
<1> QED
  BY <1>1, Inductive, PTL DEF Spec, EarlyOnlyAfterRollover

----------------------------------------------------------------------------
(***************************************************************************)
(* Notifications, while the clock is not set back.                         *)
(***************************************************************************)
Asleep == \A p \in Poller : pc[p] = "wait"
Due == notify # {} \/ tickled
Covered == \E p \in Poller : seen[p] # Never /\ \A e \in m_timers : seen[p] <= e[1]

\* refresh() only moves a timer back in the set, and a notification that
\* m_tickled suppresses is on its way.
NotifyInv ==
  /\ setBacks = 0 /\ now = peak
  /\ \A t \in Timer : m_next[t] <= now + m_ms[t]
  /\ Asleep /\ m_tickled => Due
  /\ Asleep /\ m_timers # {} /\ ~Due => Covered

LEMMA InitNotify == Init => NotifyInv
BY TimerAssumption DEF Init, NotifyInv, Asleep

\* An insertion keeps NotifyInv's last two conjuncts.
LEMMA InsertStep ==
  ASSUME IInv, NotifyInv, UNCHANGED <<pc, seen, tickled>>,
         NEW S \in SUBSET m_timers, NEW n \in Nat, NEW t \in Timer, InsertAt(S, n, t)
  PROVE  /\ (Asleep /\ m_tickled => Due)'
         /\ (Asleep /\ m_timers # {} /\ ~Due => Covered)'
<1>0. m_timers \subseteq Nat \X Timer /\ seen \in [Poller -> Nat \cup {Never}]
  BY Zenon DEF IInv, TypeOK
<1>1. m_timers' = S \cup {<<n, t>>}
  BY Zenon DEF InsertAt
<1>2. Asleep' <=> Asleep
  BY Zenon DEF Asleep
<1>3. CASE (\A e \in S : n <= e[1]) /\ ~m_tickled
  <2>1. t \in notify'
    BY Zenon, <1>3 DEF InsertAt
  <2> QED
    BY Zenon, <2>1 DEF Due
<1>4. CASE ~((\A e \in S : n <= e[1]) /\ ~m_tickled)
  <2>1. UNCHANGED <<m_tickled, notify>>
    BY Zenon, <1>4 DEF InsertAt
  <2>2. Due' <=> Due
    BY Zenon, <2>1 DEF Due
  <2>3. (Asleep /\ m_tickled => Due)'
    BY Zenon, <1>2, <2>1, <2>2 DEF NotifyInv
  <2>4. ASSUME Asleep', ~Due' PROVE Covered'
    <3>1. ~m_tickled /\ Asleep /\ ~Due
      BY Zenon, <2>4, <1>2, <2>2 DEF NotifyInv
    <3>2. PICK f \in S : ~(n <= f[1])
      BY Zenon, <1>4, <3>1
    <3>3. PICK p \in Poller : seen[p] # Never /\ \A e \in m_timers : seen[p] <= e[1]
      BY Zenon, <3>1, <3>2 DEF NotifyInv, Covered
    <3>4. seen[p] \in Nat /\ f[1] \in Nat /\ seen[p] <= f[1]
      BY Zenon, <1>0, <3>2, <3>3
    <3>5. seen[p] <= n
      BY <3>2, <3>4
    <3>6. \A e \in m_timers' : seen[p] <= e[1]
      BY <1>1, <3>3, <3>5
    <3> QED
      BY Zenon, <3>3, <3>6 DEF Covered
  <2> QED
    BY Zenon, <2>3, <2>4
<1> QED
  BY Zenon, <1>3, <1>4

\* A step that leaves the pollers alone and only moves nodes back in the set.
LEMMA LaterStep ==
  ASSUME IInv, NotifyInv, UNCHANGED <<pc, seen, m_tickled, notify, tickled>>,
         m_timers = {} => m_timers' = {},
         m_timers' \subseteq Nat \X Timer,
         \A e \in m_timers' : \E f \in m_timers : f[1] <= e[1]
  PROVE  /\ (Asleep /\ m_tickled => Due)'
         /\ (Asleep /\ m_timers # {} /\ ~Due => Covered)'
<1>0. m_timers \subseteq Nat \X Timer /\ seen \in [Poller -> Nat \cup {Never}]
  BY Zenon DEF IInv, TypeOK
<1>1. (Asleep' <=> Asleep) /\ (Due' <=> Due)
  BY Zenon DEF Asleep, Due
<1>2. ASSUME Covered PROVE Covered'
  <2>1. PICK p \in Poller : seen[p] # Never /\ \A e \in m_timers : seen[p] <= e[1]
    BY Zenon, <1>2 DEF Covered
  <2>2. ASSUME NEW e \in m_timers' PROVE seen[p] <= e[1]
    <3>1. PICK f \in m_timers : f[1] <= e[1]
      BY Zenon
    <3>2. seen[p] \in Nat /\ f[1] \in Nat /\ e[1] \in Nat /\ seen[p] <= f[1]
      BY Zenon, <1>0, <2>1
    <3> QED
      BY <3>1, <3>2
  <2> QED
    BY Zenon, <2>1, <2>2 DEF Covered
<1> QED
  BY Zenon, <1>1, <1>2 DEF NotifyInv

LEMMA NotifyStep ==
  ASSUME MaxSetBacks = 0, IInv, IInv', NotifyInv, [Next]_vars
  PROVE  NotifyInv'
<1> DEFINE Owed == /\ (Asleep /\ m_tickled => Due)'
                   /\ (Asleep /\ m_timers # {} /\ ~Due => Covered)'
           Later == \A t \in Timer : m_next'[t] <= now' + m_ms'[t]
<1>0. /\ m_timers \subseteq Nat \X Timer /\ seen \in [Poller -> Nat \cup {Never}]
      /\ m_next \in [Timer -> Nat] /\ m_ms \in [Timer -> Nat] /\ now \in Nat
      /\ now_ms \in [Poller -> Nat] /\ Periods \subseteq Nat
      /\ pc \in [Poller -> {"next", "wait", "list"}]
      /\ setBacks = 0 /\ \A t \in Timer : m_next[t] <= now + m_ms[t]
      /\ m_timers' \subseteq Nat \X Timer
  BY Zenon, TimerAssumption DEF IInv, TypeOK, NotifyInv
<1> USE <1>0
<1>p. \A e \in m_timers : e = <<m_next[e[2]], e[2]>> /\ e[2] \in Timer
  BY Zenon, Pairs DEF IInv, SetConsistent
<1>1. ASSUME NEW t \in Timer, NEW ms \in Periods, NEW r \in BOOLEAN, MakeTimer(t, ms, r)
      PROVE  Owed /\ Later
  <2>1. Later
    BY <1>1 DEF MakeTimer, clock
  <2>2. Owed
    BY <1>1, LaterStep DEF MakeTimer, manager, poller
  <2> QED
    BY Zenon, <2>1, <2>2
<1>2. ASSUME NEW t \in Timer, addTimer(t) PROVE Owed /\ Later
  <2>1. Later
    BY Zenon, <1>2 DEF addTimer, clock
  <2>2. Owed
    BY Zenon, <1>2, InsertStep DEF addTimer, poller
  <2> QED
    BY Zenon, <2>1, <2>2
<1>3. ASSUME NEW t \in Timer, onTimerInsertedAtFront(t) PROVE Owed /\ Later
  BY Zenon, <1>3 DEF onTimerInsertedAtFront, timer, clock, Due
<1>4. ASSUME NEW t \in Timer, cancel(t) PROVE Owed /\ Later
  <2>1. Later
    BY Zenon, <1>4 DEF cancel, clock
  <2>2. m_timers' \subseteq m_timers /\ UNCHANGED <<pc, seen, m_tickled, notify, tickled>>
    BY Zenon, <1>4 DEF cancel, poller
  <2>3. \A e \in m_timers' : \E f \in m_timers : f[1] <= e[1]
    BY <2>2
  <2>4. Owed
    BY Zenon, <2>2, <2>3, LaterStep
  <2> QED
    BY <2>1, <2>4
<1>5. ASSUME NEW t \in Timer, refresh(t) PROVE Owed /\ Later
  <2>1. Later
    BY <1>5 DEF refresh, clock
  <2>2. /\ m_timers' = (m_timers \ {<<m_next[t], t>>}) \cup {<<now + m_ms[t], t>>}
        /\ <<m_next[t], t>> \in m_timers
        /\ UNCHANGED <<pc, seen, m_tickled, notify, tickled>>
    BY Zenon, <1>5 DEF refresh, poller, Found
  <2>3. ASSUME NEW e \in m_timers' PROVE \E f \in m_timers : f[1] <= e[1]
    <3>1. CASE e \in m_timers
      BY <3>1
    <3>2. CASE e = <<now + m_ms[t], t>>
      BY Zenon, <2>2, <3>2
    <3> QED
      BY Zenon, <2>2, <3>1, <3>2
  <2>4. Owed
    BY Zenon, <2>2, <2>3, LaterStep
  <2> QED
    BY <2>1, <2>4
<1>6. ASSUME NEW t \in Timer, NEW ms \in Periods, NEW f \in BOOLEAN, reset(t, ms, f)
      PROVE  Owed /\ Later
  <2>1. m_ms[t] <= m_next[t]
    BY Zenon DEF IInv, LifeInv
  <2>2. ResetNext(t, ms, f) \in Nat /\ ResetNext(t, ms, f) <= now + ms /\ ms \in Nat
    BY <2>1 DEF ResetNext
  <2>3. Later
    BY Zenon, <1>6, <2>2 DEF reset, clock
  <2>4. Owed
    BY Zenon, <1>6, <2>2, InsertStep DEF reset, poller
  <2> QED
    BY <2>3, <2>4
<1>7. ASSUME NEW p \in Poller, getNextTimer(p) PROVE Owed /\ Later
  <2>1. Later /\ m_tickled' = FALSE /\ m_timers' = m_timers
    BY Zenon, <1>7 DEF getNextTimer, timer, clock
  <2>2. m_timers # {} => Covered'
    <3> SUFFICES ASSUME m_timers # {} PROVE Covered'
      BY Zenon
    <3> PICK e \in m_timers : (\A f \in m_timers : e[1] <= f[1]) /\ seen' = [seen EXCEPT ![p] = e[1]]
      BY Zenon, <1>7 DEF getNextTimer
    <3>1. seen'[p] = e[1] /\ e[1] # Never
      BY DEF Never
    <3> QED
      BY Zenon, <2>1, <3>1 DEF Covered
  <2> QED
    BY Zenon, <2>1, <2>2
<1>8. ASSUME NEW p \in Poller, Return(p) \/ listExpiredCb(p) PROVE Owed /\ Later
  <2>1. ~Asleep'
    <3>1. pc' = [pc EXCEPT ![p] = "list"] \/ pc' = [pc EXCEPT ![p] = "next"]
      BY Zenon, <1>8 DEF Return, listExpiredCb
    <3>2. pc'[p] # "wait"
      BY Zenon, <3>1
    <3> QED
      BY Zenon, <3>2 DEF Asleep
  <2>2. CASE Return(p) \/ m_timers = {}
    <3>1. UNCHANGED <<m_next, m_ms, now>>
      BY Zenon, <1>8, <2>2 DEF Return, listExpiredCb, timer, clock
    <3>2. Later
      BY Zenon, <3>1
    <3> QED
      BY Zenon, <2>1, <3>2
  <2>3. CASE listExpiredCb(p) /\ m_timers # {}
    <3> PICK X \in SUBSET Timer, n \in Nat :
          /\ n = now_ms[p] /\ m_previouseTime' = n
          /\ X = {u \in Timer : Found(u) /\ (Rollover(n) \/ m_next[u] <= n)}
          /\ m_next' = [u \in Timer |-> IF u \in X /\ m_recurring[u] THEN n + m_ms[u] ELSE m_next[u]]
          /\ m_cb' = [u \in Timer |-> m_cb[u] /\ (u \in X => m_recurring[u])]
          /\ fired' = [u \in Timer |-> IF u \in X THEN Count(fired[u]) ELSE fired[u]]
          /\ m_timers' = {e \in m_timers : e[2] \notin X} \cup Reinserted(X, n)
          /\ UNCHANGED <<phase, cancelled, m_recurring, m_ms, clock>>
          /\ now_ms' = [now_ms EXCEPT ![p] = 0]
      BY <2>3, ExpireShape, Zenon
    <3>1. n <= now /\ now' = now /\ m_ms' = m_ms
      BY Zenon DEF NotifyInv, IInv, ClockInv, clock
    <3>2. Later
      BY <3>1
    <3> QED
      BY Zenon, <2>1, <3>2
  <2> QED
    BY Zenon, <1>8, <2>2, <2>3
<1>9. ASSUME Advance PROVE Owed /\ Later
  <2>1. Later
    BY <1>9 DEF Advance, timer
  <2>2. Owed
    BY <1>9, LaterStep DEF Advance, manager, poller
  <2> QED
    BY Zenon, <2>1, <2>2
<1>10. ASSUME UNCHANGED vars PROVE Owed /\ Later
  <2>1. Later
    BY Zenon, <1>10 DEF vars, timer, clock
  <2>2. Owed
    BY <1>10, LaterStep DEF vars, manager, poller
  <2> QED
    BY <2>1, <2>2
<1>11. ~SetBack
  BY DEF SetBack
<1>12. setBacks' = 0 /\ now' = peak'
  <2>1. CASE Advance
    BY <2>1 DEF Advance, NotifyInv
  <2>2. CASE ~Advance
    BY Zenon, <1>11, <2>2 DEF Next, MakeTimer, addTimer, onTimerInsertedAtFront, cancel, refresh,
       reset,
       getNextTimer, Return, listExpiredCb, vars, clock, NotifyInv
  <2> QED
    BY Zenon, <2>1, <2>2
<1> HIDE DEF Owed, Later
<1>13. Owed /\ Later
  BY Zenon, <1>1, <1>2, <1>3, <1>4, <1>5, <1>6, <1>7, <1>8, <1>9, <1>10, <1>11 DEF Next
<1> QED
  BY Zenon, <1>12, <1>13 DEF NotifyInv, Owed, Later

\* While the clock is not set back no poller oversleeps the earliest timer.
THEOREM NoneMissed ==
  ASSUME MaxSetBacks = 0
  PROVE  Spec => []NoMissedTimer
<1>1. IInv /\ NotifyInv => NoMissedTimer
  BY Zenon DEF NotifyInv, NoMissedTimer, Asleep, Due, Covered
<1>2. IInv /\ IInv' /\ NotifyInv /\ [Next]_vars => NotifyInv'
  BY Zenon, NotifyStep
<1> QED
  BY <1>1, <1>2, InitNotify, Inductive, PTL DEF Spec

-----------------------------------------------------------------------------
(***************************************************************************)
(* The timers implement Alarms, for any number of timers, pollers and      *)
(* clock values, with a clock that may be set back.                        *)
(***************************************************************************)
\* AlarmOf without the set: the callback is there as long as the node is.
Status(t) ==
  IF cancelled[t] THEN "cancelled"
  ELSE IF phase[t] # "live" THEN "free"
  ELSE IF ~m_cb[t] THEN "done"
  ELSE IF m_recurring[t] THEN "recurring" ELSE "once"

\* What one alarm may do in a step of Alarms.
StatusStep(t) ==
  \/ Status(t)' = Status(t) /\ fired'[t] = fired[t]
  \/ Status(t) = "free" /\ Status(t)' \in {"once", "recurring"} /\ fired'[t] = fired[t]
  \/ /\ Status(t) \in {"once", "recurring"}
     /\ fired'[t] = IF fired[t] < 2 THEN fired[t] + 1 ELSE 2
     /\ Status(t)' = IF Status(t) = "once" THEN "done" ELSE "recurring"
  \/ Status(t) \in {"once", "recurring"} /\ Status(t)' = "cancelled" /\ fired'[t] = fired[t]

\* The mapped state of a live timer can be read off its callback.
LEMMA StatusIs ==
  ASSUME IInv, NEW t \in Timer
  PROVE  AlarmOf(t) = Status(t)
<1>1. phase[t] = "live" => (m_cb[t] <=> Found(t))
  BY Zenon DEF IInv, SetConsistent
<1> QED
  BY Zenon, <1>1 DEF AlarmOf, Status

\* A step that changes none of a timer's fields is a stutter of its alarm.
LEMMA StatusSame ==
  ASSUME NEW t \in Timer,
         cancelled'[t] = cancelled[t], phase'[t] = phase[t], m_cb'[t] = m_cb[t],
         m_recurring'[t] = m_recurring[t], fired'[t] = fired[t]
  PROVE  StatusStep(t)
BY Zenon DEF StatusStep, Status

\* Every action does to each timer what one alarm may do.
LEMMA StatusSteps ==
  ASSUME IInv, [Next]_vars, NEW u \in Timer
  PROVE  StatusStep(u)
<1>a. LifeInv(u) /\ SetConsistent
  BY Zenon DEF IInv
<1>b. /\ m_recurring \in [Timer -> BOOLEAN] /\ m_cb \in [Timer -> BOOLEAN]
      /\ cancelled \in [Timer -> BOOLEAN] /\ phase \in [Timer -> {"free", "made", "live"}]
      /\ fired \in [Timer -> 0..2]
  BY Zenon DEF IInv, TypeOK
<1>1. ASSUME NEW t \in Timer, NEW ms \in Periods, NEW r \in BOOLEAN, MakeTimer(t, ms, r)
      PROVE  StatusStep(u)
  <2>1. CASE u # t
    BY Zenon, <1>1, <1>b, <2>1, StatusSame DEF MakeTimer
  <2>2. CASE u = t
    <3>1. phase[u] = "free" /\ phase'[u] = "made" /\ cancelled' = cancelled /\ fired' = fired
      BY Zenon, <1>1, <1>b, <2>2 DEF MakeTimer
    <3> QED
      BY Zenon, <3>1, <1>a DEF LifeInv, StatusStep, Status
  <2> QED
    BY Zenon, <2>1, <2>2
<1>2. ASSUME NEW t \in Timer, addTimer(t) PROVE StatusStep(u)
  <2>1. CASE u # t
    BY Zenon, <1>2, <1>b, <2>1, StatusSame DEF addTimer
  <2>2. CASE u = t
    <3>1. /\ phase[u] = "made" /\ phase'[u] = "live"
          /\ UNCHANGED <<cancelled, m_cb, m_recurring, fired>>
      BY Zenon, <1>2, <1>b, <2>2 DEF addTimer
    <3>2. ~cancelled[u] /\ m_cb[u]
      BY Zenon, <3>1, <1>a DEF LifeInv
    <3> QED
      BY Zenon, <3>1, <3>2 DEF StatusStep, Status
  <2> QED
    BY Zenon, <2>1, <2>2
<1>3. ASSUME NEW t \in Timer, cancel(t) PROVE StatusStep(u)
  <2>1. CASE u # t
    BY Zenon, <1>3, <1>b, <2>1, StatusSame DEF cancel
  <2>2. CASE u = t
    <3>1. /\ phase[u] = "live" /\ m_cb[u] /\ cancelled'[u] = TRUE
          /\ UNCHANGED <<phase, m_recurring, fired>>
      BY Zenon, <1>3, <1>b, <2>2 DEF cancel
    <3>2. ~cancelled[u]
      BY Zenon, <3>1, <1>a DEF LifeInv
    <3> QED
      BY Zenon, <3>1, <3>2 DEF StatusStep, Status
  <2> QED
    BY <2>1, <2>2
<1>4. ASSUME NEW p \in Poller, listExpiredCb(p) PROVE StatusStep(u)
  <2>1. CASE m_timers = {}
    BY Zenon, <1>4, <2>1, StatusSame DEF listExpiredCb
  <2>2. CASE m_timers # {}
    <3> PICK X \in SUBSET Timer, n \in Nat :
          /\ n = now_ms[p] /\ m_previouseTime' = n
          /\ X = {t \in Timer : Found(t) /\ (Rollover(n) \/ m_next[t] <= n)}
          /\ m_next' = [t \in Timer |-> IF t \in X /\ m_recurring[t] THEN n + m_ms[t] ELSE m_next[t]]
          /\ m_cb' = [t \in Timer |-> m_cb[t] /\ (t \in X => m_recurring[t])]
          /\ fired' = [t \in Timer |-> IF t \in X THEN Count(fired[t]) ELSE fired[t]]
          /\ m_timers' = {e \in m_timers : e[2] \notin X} \cup Reinserted(X, n)
          /\ UNCHANGED <<phase, cancelled, m_recurring, m_ms, clock>>
          /\ now_ms' = [now_ms EXCEPT ![p] = 0]
      BY <1>4, <2>2, ExpireShape, Zenon
    <3>1. CASE u \notin X
      <4>1. m_cb'[u] = m_cb[u] /\ fired'[u] = fired[u]
        BY Zenon, <3>1, <1>b
      <4> QED
        BY Zenon, <4>1, StatusSame
    <3>2. CASE u \in X
      <4>1. phase[u] = "live" /\ m_cb[u]
        BY Zenon, <3>2, <1>a, <1>b DEF SetConsistent, Found
      <4>2. ~cancelled[u]
        BY Zenon, <4>1, <1>a DEF LifeInv
      <4>3. fired'[u] = IF fired[u] < 2 THEN fired[u] + 1 ELSE 2
        BY <3>2, <1>b DEF Count
      <4>4. m_cb'[u] <=> m_recurring[u]
        BY Zenon, <3>2, <4>1
      <4> QED
        BY Zenon, <4>1, <4>2, <4>3, <4>4 DEF StatusStep, Status
    <3> QED
      BY Zenon, <3>1, <3>2
  <2> QED
    BY Zenon, <2>1, <2>2
\* The other actions change none of the fields.
<1>5. ASSUME UNCHANGED <<cancelled, phase, m_cb, m_recurring, fired>> PROVE StatusStep(u)
  BY Zenon, <1>5, StatusSame
<1>6. ASSUME Next
      PROVE  \/ UNCHANGED <<cancelled, phase, m_cb, m_recurring, fired>>
             \/ \E t \in Timer, ms \in Periods, r \in BOOLEAN : MakeTimer(t, ms, r)
             \/ \E t \in Timer : addTimer(t) \/ cancel(t)
             \/ \E p \in Poller : listExpiredCb(p)
  BY Zenon, <1>6 DEF Next, onTimerInsertedAtFront, refresh, reset, getNextTimer, Return, Advance,
     SetBack, timer
<1>7. CASE UNCHANGED vars
  BY Zenon, <1>5, <1>7 DEF vars, timer
<1>8. CASE Next
  BY Zenon, <1>1, <1>2, <1>3, <1>4, <1>5, <1>6, <1>8
<1> QED
  BY Zenon, <1>7, <1>8

\* The timers implement Alarms: whatever refresh(), reset(), cancel() and the
\* pollers do at the same time, a one-shot timer goes off at most once, a
\* recurring one until it is cancelled, and a cancelled one never again.
THEOREM AlarmsImplemented == Spec => AlarmsKept
<1>1. Init => Alarm!Init
  BY Zenon DEF Init, Alarm!Init, AlarmOf
<1>2. IInv /\ IInv' /\ [Next]_vars => [Alarm!Next]_<<[t \in Timer |-> AlarmOf(t)], fired>>
  <2> SUFFICES ASSUME IInv, IInv', [Next]_vars PROVE Alarm!Next
    BY Zenon
  <2> SUFFICES ASSUME NEW u \in Timer
               PROVE  \/ Alarm!Becomes(u, [t \in Timer |-> AlarmOf(t)][u])
                      \/ Alarm!Set(u) \/ Alarm!GoOff(u) \/ Alarm!Cancel(u)
    BY Zenon DEF Alarm!Next
  <2>1. AlarmOf(u) = Status(u)
    BY Zenon, StatusIs
  <2>2. AlarmOf(u)' = Status(u)'
    BY Zenon DEF IInv, SetConsistent, AlarmOf, Status
  <2>3. StatusStep(u)
    BY Zenon, StatusSteps
  <2> QED
    BY Zenon, <2>1, <2>2, <2>3 DEF StatusStep, Alarm!Becomes, Alarm!Set, Alarm!GoOff, Alarm!Cancel
<1> QED
  BY <1>1, <1>2, Inductive, PTL DEF Spec, AlarmsKept, Alarm!Spec
=============================================================================
