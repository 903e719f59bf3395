------------------------------ MODULE LogProofs ------------------------------
(***************************************************************************)
(* Proofs that the listeners of a variable, and with them the loggers,     *)
(* follow its value: for any number of threads, variables, listeners and   *)
(* values, whatever operator== says of the values.                         *)
(***************************************************************************)
EXTENDS Log, TLAPS

SetCall ==
  [at : {"idle", "calling", "assign"}, key : Key \cup {"none"}, v : ConfValue,
   calls : SUBSET Listener, alone : BOOLEAN]

Member == Key \X (ConfValue \cup {Bad})

ConfigTypeOK ==
  /\ declared \subseteq Key
  /\ m_val \in [Key -> ConfValue]
  /\ m_cbs \in [Key -> SUBSET Listener]
  /\ told \in [Key -> [Listener -> ConfValue \cup {Never}]]
  /\ setter \in [Thread -> [set : SetCall, yaml : Seq(Member)]]
  /\ mixed \in [Key -> [last : BOOLEAN, ever : BOOLEAN]]
  /\ \A t \in Thread : setter[t].set.at # "idle" => setter[t].set.key \in Key

\* A call of setValue() that does not overlap is the only one of its variable.
AloneInv ==
  \A k \in Key : \A t \in SettersOf(k) : setter[t].set.alone = TRUE => SettersOf(k) = {t}

\* Between calls of setValue() that did not overlap the listeners know the value.
Known(k) ==
  SettersOf(k) = {} /\ mixed[k].last = FALSE =>
    \A l \in m_cbs[k] : told[k][l] \in {Never, m_val[k]}

\* A call that is alone has told its value to those it has called; when it has
\* called them all, the others are listeners that were added since.
Heard(k, set) ==
  set.alone = TRUE =>
    /\ set.at = "calling" => \A l \in m_cbs[k] \ set.calls : told[k][l] = set.v
    /\ set.at = "assign" => \A l \in m_cbs[k] : told[k][l] \in {Never, set.v}

ToldInv ==
  \A k \in Key : Known(k) /\ \A t \in SettersOf(k) : Heard(k, setter[t].set)

ConfigInv == ConfigTypeOK /\ AloneInv /\ ToldInv

-----------------------------------------------------------------------------
(***************************************************************************)
(* The steps of Config.                                                    *)
(***************************************************************************)

\* What a thread is setting, for the proofs: SettersOf() in its members.
LEMMA SetterOf ==
  ASSUME NEW k
  PROVE  /\ \A t : t \in SettersOf(k) <=>
              t \in Thread /\ setter[t].set.at # "idle" /\ setter[t].set.key = k
         /\ \A t : t \in SettersOf(k)' <=>
              t \in Thread /\ setter'[t].set.at # "idle" /\ setter'[t].set.key = k
BY Zenon DEF SettersOf

LEMMA NoSetProperties == NoSet \in SetCall /\ NoSet.at = "idle"
BY Zenon, ConfigAssumption DEF NoSet, SetCall

LEMMA YamlType == Yaml \subseteq Seq(Member)
<1> SUFFICES ASSUME NEW n \in 1 .. MaxYaml, NEW y \in [1 .. n -> Member]
             PROVE  y \in Seq(Member)
  BY Zenon DEF Yaml, Member
<1>1. n \in Nat
  BY SMTT(30), ConfigAssumption
<1> QED
  BY SMTT(30), <1>1

\* A step that changes neither the calls, the values nor the listeners.
LEMMA YamlKept ==
  ASSUME ConfigInv, UNCHANGED <<m_val, m_cbs, told, mixed>>, declared' \in SUBSET Key,
         setter' \in [Thread -> [set : SetCall, yaml : Seq(Member)]],
         \A t \in Thread : setter'[t].set = setter[t].set
  PROVE  ConfigInv'
<1> USE DEF ConfigInv
<1>1. ConfigTypeOK'
  BY Zenon DEF ConfigTypeOK
<1>2. \A k : SettersOf(k)' = SettersOf(k)
  BY Zenon DEF SettersOf
<1>3. AloneInv'
  BY Zenon, <1>2 DEF AloneInv, SettersOf
<1>4. ToldInv'
  BY SMTT(30), <1>2 DEF ToldInv, Known, Heard, SettersOf
<1> QED
  BY Zenon, <1>1, <1>3, <1>4

\* The listeners of a variable change while no listener of it is being called.
LEMMA ListenersStep ==
  ASSUME ConfigInv, NEW k \in Key, Unread(k),
         UNCHANGED <<declared, m_val, setter, mixed>>,
         NEW S \in SUBSET Listener, m_cbs' = [m_cbs EXCEPT ![k] = S],
         told' \in [Key -> [Listener -> ConfValue \cup {Never}]],
         \A j \in Key : \A l \in Listener : j # k => told'[j][l] = told[j][l],
         \A l \in S : told'[k][l] = Never \/ (l \in m_cbs[k] /\ told'[k][l] = told[k][l])
  PROVE  ConfigInv'
<1> USE DEF ConfigInv
<1>1. ConfigTypeOK'
  BY Zenon DEF ConfigTypeOK
<1>2. \A j : SettersOf(j)' = SettersOf(j)
  BY Zenon DEF SettersOf
<1>3. AloneInv'
  BY Zenon, <1>2 DEF AloneInv
<1>4. \A j \in Key : m_cbs'[j] = (IF j = k THEN S ELSE m_cbs[j]) /\ m_cbs[j] \subseteq Listener
  BY Zenon DEF ConfigTypeOK
<1>5. \A t \in SettersOf(k) : setter[t].set.at # "calling"
  BY Zenon DEF Unread
<1>6. ASSUME NEW j \in Key PROVE Known(j)'
  BY SMTT(30), <1>2, <1>4 DEF ToldInv, Known
<1>7. ASSUME NEW j \in Key, NEW t \in SettersOf(j) PROVE Heard(j, setter[t].set)'
  BY SMTT(30), <1>4, <1>5 DEF ToldInv, Heard
<1>8. ToldInv'
  BY Zenon, <1>2, <1>6, <1>7 DEF ToldInv
<1> QED
  BY Zenon, <1>1, <1>3, <1>8

\* setValue() takes the read lock with a new value: the call, and those it
\* overlaps with.
LEMMA NewCall ==
  ASSUME ConfigInv, NEW t \in Thread, setter[t].set.at = "idle", NEW k \in declared,
         NEW v \in ConfValue, NEW yaml \in Seq(Member), Setting(t, k, v, yaml), ~Same(v, m_val[k])
  PROVE  /\ setter' \in [Thread -> [set : SetCall, yaml : Seq(Member)]]
         /\ setter'[t].set.at = "calling" /\ setter'[t].set.key = k /\ setter'[t].set.v = v
         /\ setter'[t].set.calls = m_cbs[k]
         /\ \A s \in Thread : s # t =>
              /\ setter'[s].set.at = setter[s].set.at /\ setter'[s].set.key = setter[s].set.key
              /\ setter'[s].set.v = setter[s].set.v /\ setter'[s].set.calls = setter[s].set.calls
              /\ s \notin SettersOf(k) => setter'[s].set.alone = setter[s].set.alone
         /\ SettersOf(k)' = SettersOf(k) \cup {t}
         /\ \A j : j # k => SettersOf(j)' = SettersOf(j)
         /\ \A s \in SettersOf(k)' : setter'[s].set.alone = TRUE => s = t /\ SettersOf(k) = {}
         /\ \A j : \A s \in SettersOf(j) : s \in Thread /\ s # t /\ (j # k => s \notin SettersOf(k))
<1> USE DEF ConfigInv
<1>0. /\ setter \in [Thread -> [set : SetCall, yaml : Seq(Member)]]
      /\ k \in Key /\ m_cbs[k] \in SUBSET Listener
  BY Zenon DEF ConfigTypeOK
<1> DEFINE b == SettersOf(k) = {}
           new == [at |-> "calling", key |-> k, v |-> v, calls |-> m_cbs[k], alone |-> b]
<1>1. setter' = [s \in Thread |->
        IF s = t THEN [set |-> new, yaml |-> yaml]
        ELSE IF s \in SettersOf(k) THEN [setter[s] EXCEPT !.set = [@ EXCEPT !.alone = FALSE]]
        ELSE setter[s]]
  BY Zenon DEF Setting
<1>2. b \in BOOLEAN
  BY Zenon
<1>3. b <=> SettersOf(k) = {}
  BY Zenon
<1> HIDE DEF b
<1>4. new \in SetCall
  BY Zenon, <1>0, <1>2 DEF SetCall
<1>5. /\ setter'[t].set.at = "calling" /\ setter'[t].set.key = k /\ setter'[t].set.v = v
      /\ setter'[t].set.calls = m_cbs[k] /\ setter'[t].set.alone = b
  BY Zenon, <1>1
<1>6. ASSUME NEW s \in Thread, s # t
      PROVE  /\ setter'[s] \in [set : SetCall, yaml : Seq(Member)]
             /\ setter'[s].set.at = setter[s].set.at /\ setter'[s].set.key = setter[s].set.key
             /\ setter'[s].set.v = setter[s].set.v /\ setter'[s].set.calls = setter[s].set.calls
             /\ s \notin SettersOf(k) => setter'[s].set.alone = setter[s].set.alone
             /\ s \in SettersOf(k) => setter'[s].set.alone = FALSE
  <2>1. setter[s] \in [set : SetCall, yaml : Seq(Member)]
    BY Zenon, <1>0
  <2>2. CASE s \in SettersOf(k)
    <3>1. setter'[s] = [setter[s] EXCEPT !.set = [@ EXCEPT !.alone = FALSE]]
      BY Zenon, <1>1, <1>6, <2>2
    <3>2. setter'[s].set = [setter[s].set EXCEPT !.alone = FALSE] /\ setter'[s].yaml = setter[s].yaml
      BY Zenon, <2>1, <3>1
    <3>3. setter[s].set \in SetCall /\ setter[s].yaml \in Seq(Member)
      BY Zenon, <2>1
    <3>4. [setter[s].set EXCEPT !.alone = FALSE] \in SetCall
      BY Zenon, <3>3 DEF SetCall
    <3>5. setter'[s] \in [set : SetCall, yaml : Seq(Member)]
      BY Zenon, <2>1, <3>1, <3>4
    <3> QED
      BY Zenon, <2>2, <3>2, <3>3, <3>5 DEF SetCall
  <2>3. CASE s \notin SettersOf(k)
    BY Zenon, <1>1, <1>6, <2>1, <2>3
  <2> QED
    BY Zenon, <2>2, <2>3
<1>7. setter' \in [Thread -> [set : SetCall, yaml : Seq(Member)]]
  BY Zenon, <1>1, <1>4, <1>6
<1> HIDE DEF new
<1>9. SettersOf(k)' = SettersOf(k) \cup {t}
  BY Zenon, <1>5, <1>6 DEF SettersOf
<1>10. \A j : j # k => SettersOf(j)' = SettersOf(j)
  BY Zenon, <1>5, <1>6 DEF SettersOf
<1>11. \A s \in SettersOf(k)' : setter'[s].set.alone = TRUE => s = t /\ SettersOf(k) = {}
  BY Zenon, <1>3, <1>5, <1>6, <1>9 DEF SettersOf
<1>12. \A j : \A s \in SettersOf(j) : s \in Thread /\ s # t /\ (j # k => s \notin SettersOf(k))
  BY Zenon DEF SettersOf
<1> QED
  BY Zenon, <1>5, <1>6, <1>7, <1>9, <1>10, <1>11, <1>12

\* setValue() takes the read lock with a new value.
LEMMA StartStep ==
  ASSUME ConfigInv, UNCHANGED <<declared, m_val, m_cbs, told, mixed>>,
         NEW t \in Thread, setter[t].set.at = "idle", NEW k \in declared, NEW v \in ConfValue,
         NEW yaml \in Seq(Member), Setting(t, k, v, yaml)
  PROVE  ConfigInv'
<1> USE DEF ConfigInv
<1>0. setter \in [Thread -> [set : SetCall, yaml : Seq(Member)]] /\ k \in Key /\ m_cbs[k] \in SUBSET Listener
  BY Zenon DEF ConfigTypeOK
<1>1. CASE Same(v, m_val[k])
  <2>1. setter' = [setter EXCEPT ![t] = [@ EXCEPT !.yaml = yaml]]
    BY Zenon, <1>1 DEF Setting
  <2>2. setter' \in [Thread -> [set : SetCall, yaml : Seq(Member)]]
    BY Zenon, <1>0, <2>1
  <2>3. \A s \in Thread : setter'[s].set = setter[s].set
    BY Zenon, <1>0, <2>1
  <2> QED
    BY Zenon, <2>2, <2>3, YamlKept DEF ConfigTypeOK
<1>2. CASE ~Same(v, m_val[k])
  <2>1. /\ setter' \in [Thread -> [set : SetCall, yaml : Seq(Member)]]
        /\ setter'[t].set.at = "calling" /\ setter'[t].set.key = k /\ setter'[t].set.v = v
        /\ setter'[t].set.calls = m_cbs[k]
        /\ \A s \in Thread : s # t =>
             /\ setter'[s].set.at = setter[s].set.at /\ setter'[s].set.key = setter[s].set.key
             /\ setter'[s].set.v = setter[s].set.v /\ setter'[s].set.calls = setter[s].set.calls
             /\ s \notin SettersOf(k) => setter'[s].set.alone = setter[s].set.alone
        /\ SettersOf(k)' = SettersOf(k) \cup {t}
        /\ \A j : j # k => SettersOf(j)' = SettersOf(j)
        /\ \A s \in SettersOf(k)' : setter'[s].set.alone = TRUE => s = t /\ SettersOf(k) = {}
        /\ \A j : \A s \in SettersOf(j) : s \in Thread /\ s # t /\ (j # k => s \notin SettersOf(k))
    BY Zenon, <1>2, NewCall
  <2>2. ConfigTypeOK'
    BY Zenon, <1>0, <2>1 DEF ConfigTypeOK
  <2>3. AloneInv'
    <3> SUFFICES ASSUME NEW j \in Key, NEW s \in SettersOf(j)', setter'[s].set.alone = TRUE
                 PROVE  SettersOf(j)' = {s}
      BY Zenon DEF AloneInv
    <3>1. CASE j = k
      BY Zenon, <2>1, <3>1
    <3>2. CASE j # k
      <4>1. SettersOf(j)' = SettersOf(j)
        BY Zenon, <2>1, <3>2
      <4>2. s \in SettersOf(j) /\ s \in Thread /\ s # t /\ s \notin SettersOf(k)
        BY SMTT(30), <2>1, <3>2, <4>1
      <4>3. setter[s].set.alone = TRUE
        BY Zenon, <2>1, <4>2
      <4> QED
        BY Zenon, <4>1, <4>2, <4>3 DEF AloneInv
    <3> QED
      BY Zenon, <3>1, <3>2
  <2>4. ToldInv'
    <3>1. ASSUME NEW j \in Key PROVE Known(j)'
      <4>1. CASE j = k
        BY Zenon, <2>1, <4>1 DEF Known
      <4>2. CASE j # k
        BY Zenon, <2>1, <4>2 DEF Known, ToldInv
      <4> QED
        BY Zenon, <4>1, <4>2
    <3>2. ASSUME NEW j \in Key, NEW s \in SettersOf(j)' PROVE Heard(j, setter[s].set)'
      <4>1. CASE j = k
        BY Zenon, <2>1, <4>1 DEF Heard
      <4>2. CASE j # k
        <5>1. s \in SettersOf(j) /\ s \in Thread /\ s # t /\ s \notin SettersOf(k)
          BY SMTT(30), <2>1, <4>2
        <5>2. /\ setter'[s].set.at = setter[s].set.at /\ setter'[s].set.v = setter[s].set.v
              /\ setter'[s].set.calls = setter[s].set.calls
              /\ setter'[s].set.alone = setter[s].set.alone
          BY Zenon, <2>1, <5>1
        <5> QED
          BY SMTT(30), <5>1, <5>2 DEF ToldInv, Heard
      <4> QED
        BY Zenon, <4>1, <4>2
    <3> QED
      BY Zenon, <3>1, <3>2 DEF ToldInv
  <2> QED
    BY Zenon, <2>2, <2>3, <2>4
<1> QED
  BY Zenon, <1>1, <1>2

\* A call of setValue() goes on to r, or ends; the calls of others do not change.
LEMMA OwnStep ==
  ASSUME ConfigInv, NEW t \in Thread, setter[t].set.at # "idle", NEW r \in SetCall,
         r.at # "idle" => r.key = setter[t].set.key /\ r.alone = setter[t].set.alone,
         setter' = [setter EXCEPT ![t] = [@ EXCEPT !.set = r]]
  PROVE  /\ setter[t].set.key \in Key /\ t \in SettersOf(setter[t].set.key)
         /\ setter[t].set \in SetCall
         /\ setter' \in [Thread -> [set : SetCall, yaml : Seq(Member)]]
         /\ setter'[t].set = r
         /\ \A s \in Thread : s # t => setter'[s] = setter[s]
         /\ \A s \in Thread : setter'[s].set.at # "idle" => setter'[s].set.key \in Key
         /\ \A k : SettersOf(k)' = IF k = setter[t].set.key /\ r.at = "idle"
                                   THEN SettersOf(k) \ {t} ELSE SettersOf(k)
         /\ AloneInv'
<1> USE DEF ConfigInv
<1> DEFINE k == setter[t].set.key
<1>0. setter \in [Thread -> [set : SetCall, yaml : Seq(Member)]]
  BY Zenon DEF ConfigTypeOK
<1>1. k \in Key /\ t \in SettersOf(k) /\ setter[t].set \in SetCall
  BY Zenon, <1>0 DEF ConfigTypeOK, SettersOf
<1>2. [setter[t] EXCEPT !.set = r] \in [set : SetCall, yaml : Seq(Member)]
  BY Zenon, <1>0
<1>3. setter' \in [Thread -> [set : SetCall, yaml : Seq(Member)]]
  BY Zenon, <1>0, <1>2
<1>4. setter'[t].set = r
  BY Zenon, <1>0
<1>5. \A s \in Thread : s # t => setter'[s] = setter[s]
  BY Zenon, <1>0
<1>6. \A s \in Thread : setter'[s].set.at # "idle" => setter'[s].set.key \in Key
  BY Zenon, <1>1, <1>4, <1>5 DEF ConfigTypeOK
<1>7. \A j : SettersOf(j)' = IF j = k /\ r.at = "idle" THEN SettersOf(j) \ {t} ELSE SettersOf(j)
  <2> SUFFICES ASSUME NEW j
               PROVE  SettersOf(j)' = IF j = k /\ r.at = "idle" THEN SettersOf(j) \ {t} ELSE SettersOf(j)
    BY Zenon
  <2>1. \A s : s \in SettersOf(j)' <=> s \in SettersOf(j) /\ ~(s = t /\ r.at = "idle")
    BY SMTT(30), <1>4, <1>5, SetterOf
  <2>2. t \in SettersOf(j) => j = k
    BY Zenon DEF SettersOf
  <2> QED
    BY Zenon, <2>1, <2>2
<1>8. AloneInv'
  <2> SUFFICES ASSUME NEW j \in Key, NEW s \in SettersOf(j)', setter'[s].set.alone = TRUE
               PROVE  SettersOf(j)' = {s}
    BY Zenon DEF AloneInv
  <2>1. s \in SettersOf(j) /\ (s = t => r.at # "idle")
    BY SMTT(30), <1>4, <1>7, SetterOf
  <2>2. setter[s].set.alone = TRUE
    BY Zenon, <2>1, <1>4, <1>5, SetterOf
  <2>3. SettersOf(j) = {s}
    BY Zenon, <2>1, <2>2 DEF AloneInv
  <2> QED
    BY Zenon, <1>1, <1>7, <2>1, <2>3
<1> QED
  BY Zenon, <1>1, <1>3, <1>4, <1>5, <1>6, <1>7, <1>8

\* A listener is called with the value.
LEMMA CallStep ==
  ASSUME ConfigInv, NEW t \in Thread, NEW l \in Listener, CallListener(t, l)
  PROVE  ConfigInv'
<1> USE DEF ConfigInv
<1> DEFINE set == setter[t].set
           k == set.key
           r == [set EXCEPT !.calls = set.calls \ {l}]
<1>0. /\ set.at = "calling" /\ l \in set.calls /\ UNCHANGED <<declared, m_val, m_cbs, mixed>>
      /\ told' = [told EXCEPT ![k] = [@ EXCEPT ![l] = set.v]]
      /\ setter' = [setter EXCEPT ![t] = [@ EXCEPT !.set = r]]
  BY Zenon DEF CallListener
<1>1. set \in SetCall
  BY Zenon DEF ConfigTypeOK
<1>2. r \in SetCall /\ r.at = "calling" /\ r.key = k /\ r.alone = set.alone /\ r.v = set.v
      /\ r.calls = set.calls \ {l}
  BY Zenon, <1>0, <1>1 DEF SetCall
<1> HIDE DEF r
<1>3. /\ k \in Key /\ t \in SettersOf(k)
      /\ setter' \in [Thread -> [set : SetCall, yaml : Seq(Member)]]
      /\ setter'[t].set = r
      /\ \A s \in Thread : s # t => setter'[s] = setter[s]
      /\ \A s \in Thread : setter'[s].set.at # "idle" => setter'[s].set.key \in Key
      /\ \A j : SettersOf(j)' = IF j = k /\ r.at = "idle" THEN SettersOf(j) \ {t} ELSE SettersOf(j)
      /\ AloneInv'
  BY Zenon, <1>0, <1>2, OwnStep
<1>4. set.v \in ConfValue
  BY Zenon, <1>1 DEF SetCall
<1>5. told \in [Key -> [Listener -> ConfValue \cup {Never}]] /\ m_cbs \in [Key -> SUBSET Listener]
  BY Zenon DEF ConfigTypeOK
<1>6. [told[k] EXCEPT ![l] = set.v] \in [Listener -> ConfValue \cup {Never}]
  BY Zenon, <1>3, <1>4, <1>5
<1>7. told' \in [Key -> [Listener -> ConfValue \cup {Never}]]
  BY Zenon, <1>0, <1>5, <1>6
<1>8. /\ \A j \in Key : j # k => told'[j] = told[j]
      /\ \A m \in Listener : told'[k][m] = IF m = l THEN set.v ELSE told[k][m]
  BY Zenon, <1>0, <1>3, <1>5
<1> HIDE DEF set, k
<1>9. ConfigTypeOK'
  BY Zenon, <1>0, <1>3, <1>7 DEF ConfigTypeOK
<1>10. \A j : SettersOf(j)' = SettersOf(j)
  BY Zenon, <1>2, <1>3
<1>11. ASSUME NEW j \in Key PROVE Known(j)'
  <2>1. CASE j = k
    BY Zenon, <1>3, <1>10, <2>1 DEF Known
  <2>2. CASE j # k
    BY Zenon, <1>0, <1>8, <1>10, <2>2 DEF Known, ToldInv
  <2> QED
    BY Zenon, <2>1, <2>2
<1>12. ASSUME NEW j \in Key, NEW s \in SettersOf(j) PROVE Heard(j, setter[s].set)'
  <2>0. s \in Thread
    BY Zenon, SetterOf
  <2>1. CASE s = t
    <3>1. j = k
      BY Zenon, <2>1, SetterOf DEF k, set
    <3>2. Heard(k, set)
      BY Zenon, <1>3 DEF ToldInv, set
    <3>3. m_cbs[k] \subseteq Listener
      BY Zenon, <1>3, <1>5
    <3> QED
      BY SMTT(30), <1>0, <1>2, <1>3, <1>8, <2>1, <3>1, <3>2, <3>3 DEF Heard
  <2>2. CASE s # t /\ j # k
    BY SMTT(30), <1>0, <1>3, <1>8, <2>0, <2>2 DEF Heard, ToldInv
  <2>3. CASE s # t /\ j = k
    <3>1. setter[s].set.alone # TRUE
      BY ZenonT(30), <1>3, <2>3 DEF AloneInv
    <3> QED
      BY Zenon, <1>3, <2>0, <2>3, <3>1 DEF Heard
  <2> QED
    BY Zenon, <2>1, <2>2, <2>3
<1>13. ToldInv'
  BY Zenon, <1>10, <1>11, <1>12 DEF ToldInv
<1> QED
  BY Zenon, <1>3, <1>9, <1>13

\* The read lock is let go.
LEMMA CalledStep ==
  ASSUME ConfigInv, NEW t \in Thread, ListenersCalled(t)
  PROVE  ConfigInv'
<1> USE DEF ConfigInv
<1> DEFINE set == setter[t].set
           k == set.key
           r == [set EXCEPT !.at = "assign"]
<1>0. /\ set.at = "calling" /\ set.calls = {} /\ UNCHANGED <<declared, m_val, m_cbs, told, mixed>>
      /\ setter' = [setter EXCEPT ![t] = [@ EXCEPT !.set = r]]
  BY Zenon DEF ListenersCalled
<1>1. set \in SetCall
  BY Zenon DEF ConfigTypeOK
<1>2. r \in SetCall /\ r.at = "assign" /\ r.key = k /\ r.alone = set.alone /\ r.v = set.v
  BY Zenon, <1>0, <1>1 DEF SetCall
<1> HIDE DEF r
<1>3. /\ k \in Key /\ t \in SettersOf(k)
      /\ setter' \in [Thread -> [set : SetCall, yaml : Seq(Member)]]
      /\ setter'[t].set = r
      /\ \A s \in Thread : s # t => setter'[s] = setter[s]
      /\ \A s \in Thread : setter'[s].set.at # "idle" => setter'[s].set.key \in Key
      /\ \A j : SettersOf(j)' = IF j = k /\ r.at = "idle" THEN SettersOf(j) \ {t} ELSE SettersOf(j)
      /\ AloneInv'
  BY Zenon, <1>0, <1>2, OwnStep
<1> HIDE DEF set, k
<1>4. ConfigTypeOK'
  BY Zenon, <1>0, <1>3 DEF ConfigTypeOK
<1>5. \A j : SettersOf(j)' = SettersOf(j)
  BY Zenon, <1>2, <1>3
<1>6. ASSUME NEW j \in Key PROVE Known(j)'
  BY Zenon, <1>0, <1>5 DEF Known, ToldInv
<1>7. ASSUME NEW j \in Key, NEW s \in SettersOf(j) PROVE Heard(j, setter[s].set)'
  <2>0. s \in Thread
    BY Zenon, SetterOf
  <2>1. CASE s = t
    <3>1. j = k
      BY Zenon, <2>1, SetterOf DEF k, set
    <3>2. Heard(k, set)
      BY Zenon, <1>3 DEF ToldInv, set
    <3> QED
      BY SMTT(30), <1>0, <1>2, <1>3, <2>1, <3>1, <3>2 DEF Heard
  <2>2. CASE s # t
    BY SMTT(30), <1>0, <1>3, <2>0, <2>2 DEF Heard, ToldInv
  <2> QED
    BY Zenon, <2>1, <2>2
<1>8. ToldInv'
  BY Zenon, <1>5, <1>6, <1>7 DEF ToldInv
<1> QED
  BY Zenon, <1>3, <1>4, <1>8

\* The value is assigned and the call ends.
LEMMA AssignStep ==
  ASSUME ConfigInv, NEW t \in Thread, AssignValue(t)
  PROVE  ConfigInv'
<1> USE DEF ConfigInv
<1> DEFINE set == setter[t].set
           k == set.key
<1>0. /\ set.at = "assign" /\ UNCHANGED <<declared, m_cbs, told>>
      /\ m_val' = [m_val EXCEPT ![k] = set.v]
      /\ setter' = [setter EXCEPT ![t] = [@ EXCEPT !.set = NoSet]]
      /\ mixed' = [mixed EXCEPT ![k] = [last |-> ~set.alone, ever |-> @.ever \/ ~set.alone]]
  BY Zenon DEF AssignValue
<1>1. set \in SetCall /\ set.v \in ConfValue /\ set.alone \in BOOLEAN
  BY Zenon DEF ConfigTypeOK, SetCall
<1>3. /\ k \in Key /\ t \in SettersOf(k)
      /\ setter' \in [Thread -> [set : SetCall, yaml : Seq(Member)]]
      /\ \A s \in Thread : s # t => setter'[s] = setter[s]
      /\ \A s \in Thread : setter'[s].set.at # "idle" => setter'[s].set.key \in Key
      /\ \A j : SettersOf(j)' = IF j = k /\ NoSet.at = "idle" THEN SettersOf(j) \ {t} ELSE SettersOf(j)
      /\ AloneInv'
  BY Zenon, <1>0, NoSetProperties, OwnStep
<1>4. /\ m_val \in [Key -> ConfValue] /\ mixed \in [Key -> [last : BOOLEAN, ever : BOOLEAN]]
  BY Zenon DEF ConfigTypeOK
<1>5. /\ m_val' \in [Key -> ConfValue] /\ m_val'[k] = set.v
      /\ \A j \in Key : j # k => m_val'[j] = m_val[j]
  BY Zenon, <1>0, <1>1, <1>3, <1>4
<1> DEFINE b == ~set.alone
           e == mixed[k].ever \/ ~set.alone
<1>6. b \in BOOLEAN /\ e \in BOOLEAN /\ (b = FALSE => set.alone = TRUE)
  BY Zenon, <1>1
<1>7. mixed' = [mixed EXCEPT ![k] = [last |-> b, ever |-> e]]
  BY Zenon, <1>0
<1> HIDE DEF b, e
<1>8. /\ mixed' \in [Key -> [last : BOOLEAN, ever : BOOLEAN]] /\ mixed'[k].last = b
      /\ \A j \in Key : j # k => mixed'[j] = mixed[j]
  BY Zenon, <1>3, <1>4, <1>6, <1>7
<1> HIDE DEF set, k
<1>9. ConfigTypeOK'
  BY Zenon, <1>0, <1>3, <1>5, <1>8 DEF ConfigTypeOK
<1>10. \A j : SettersOf(j)' = IF j = k THEN SettersOf(j) \ {t} ELSE SettersOf(j)
  BY Zenon, <1>3, NoSetProperties
<1>11. ASSUME NEW j \in Key PROVE Known(j)'
  <2>1. CASE j = k
    <3>1. Heard(k, set)
      BY Zenon, <1>3 DEF ToldInv, set
    <3> QED
      BY Zenon, <1>0, <1>5, <1>6, <1>8, <2>1, <3>1 DEF Known, Heard
  <2>2. CASE j # k
    BY Zenon, <1>0, <1>5, <1>8, <1>10, <2>2 DEF Known, ToldInv
  <2> QED
    BY Zenon, <2>1, <2>2
<1>12. ASSUME NEW j \in Key, NEW s \in SettersOf(j)' PROVE Heard(j, setter[s].set)'
  <2>0. s \in SettersOf(j) /\ s \in Thread /\ s # t
    <3>1. s \in SettersOf(j) /\ (j = k => s # t)
      BY Zenon, <1>10
    <3>2. t \in SettersOf(j) => j = k
      BY Zenon, SetterOf DEF k, set
    <3> QED
      BY Zenon, <3>1, <3>2, SetterOf
  <2>1. CASE j # k
    BY SMTT(30), <1>0, <1>3, <2>0, <2>1 DEF Heard, ToldInv
  <2>2. CASE j = k
    <3>0. t \in SettersOf(j)
      BY Zenon, <1>3, <2>2
    <3>1. setter[s].set.alone # TRUE
      BY Zenon, <2>0, <3>0 DEF AloneInv
    <3> QED
      BY Zenon, <1>3, <2>0, <3>1 DEF Heard
  <2> QED
    BY Zenon, <2>1, <2>2
<1>13. ToldInv'
  BY Zenon, <1>11, <1>12 DEF ToldInv
<1> QED
  BY Zenon, <1>3, <1>9, <1>13

LEMMA InitConfig == ConfigInit => ConfigInv
<1> SUFFICES ASSUME ConfigInit PROVE ConfigInv
  BY Zenon
<1>1. <<>> \in Seq(Member)
  BY SMTT(30)
<1>2. ConfigTypeOK
  BY Zenon, <1>1, NoSetProperties, ConfigAssumption DEF ConfigInit, ConfigTypeOK
<1>3. \A k : SettersOf(k) = {}
  BY Zenon, NoSetProperties DEF ConfigInit, SettersOf
<1>4. AloneInv /\ ToldInv
  BY Zenon, <1>3 DEF ConfigInit, AloneInv, ToldInv, Known
<1> QED
  BY Zenon, <1>2, <1>4 DEF ConfigInv

LEMMA ConfigStepInv == ConfigInv /\ [ConfigNext]_configVars => ConfigInv'
<1> SUFFICES ASSUME ConfigInv, [ConfigNext]_configVars PROVE ConfigInv'
  BY Zenon
<1>a. /\ declared \subseteq Key /\ m_cbs \in [Key -> SUBSET Listener]
      /\ told \in [Key -> [Listener -> ConfValue \cup {Never}]]
      /\ setter \in [Thread -> [set : SetCall, yaml : Seq(Member)]]
  BY Zenon DEF ConfigInv, ConfigTypeOK
<1>1. ASSUME NEW k \in Key, Lookup(k) PROVE ConfigInv'
  BY Zenon, <1>1, <1>a, YamlKept DEF Lookup
<1>2. ASSUME NEW k \in Key, clearListener(k) PROVE ConfigInv'
  <2>1. {} \in SUBSET Listener /\ m_cbs' = [m_cbs EXCEPT ![k] = {}] /\ told' = told
    BY Zenon, <1>2 DEF clearListener
  <2> QED
    BY ZenonT(30), <1>2, <1>a, <2>1, ListenersStep DEF clearListener
<1>3. ASSUME NEW k \in Key, NEW l \in Listener, delListener(k, l) PROVE ConfigInv'
  <2> DEFINE S == m_cbs[k] \ {l}
  <2>1. S \in SUBSET Listener /\ S \subseteq m_cbs[k] /\ m_cbs' = [m_cbs EXCEPT ![k] = S] /\ told' = told
    BY Zenon, <1>3, <1>a DEF delListener
  <2> HIDE DEF S
  <2> QED
    BY Zenon, <1>3, <1>a, <2>1, ListenersStep DEF delListener
<1>4. ASSUME NEW k \in Key, NEW l \in Listener, addListener(k, l) PROVE ConfigInv'
  <2> DEFINE S == m_cbs[k] \cup {l}
  <2>1. S \in SUBSET Listener /\ m_cbs' = [m_cbs EXCEPT ![k] = S]
    BY Zenon, <1>4, <1>a DEF addListener
  <2>2. told' = [told EXCEPT ![k] = [told[k] EXCEPT ![l] = Never]]
    BY Zenon, <1>4 DEF addListener
  <2>3. [told[k] EXCEPT ![l] = Never] \in [Listener -> ConfValue \cup {Never}]
    BY Zenon, <1>a
  <2>4. told' \in [Key -> [Listener -> ConfValue \cup {Never}]]
    BY Zenon, <1>a, <2>2, <2>3
  <2>5. /\ \A j \in Key : \A m \in Listener : j # k => told'[j][m] = told[j][m]
        /\ \A m \in S : told'[k][m] = Never \/ (m \in m_cbs[k] /\ told'[k][m] = told[k][m])
    <3>1. \A j \in Key : told'[j] = IF j = k THEN [told[k] EXCEPT ![l] = Never] ELSE told[j]
      BY Zenon, <1>a, <2>2
    <3>2. \A m \in Listener : told'[k][m] = IF m = l THEN Never ELSE told[k][m]
      BY Zenon, <1>a, <3>1
    <3> QED
      BY Zenon, <2>1, <3>1, <3>2
  <2>6. Unread(k) /\ UNCHANGED <<declared, m_val, setter, mixed>>
    BY Zenon, <1>4 DEF addListener
  <2> HIDE DEF S
  <2> QED
    BY Zenon, <2>1, <2>4, <2>5, <2>6, ListenersStep
<1>5. ASSUME NEW t \in Thread, NEW k \in Key, NEW v \in ConfValue, setValue(t, k, v)
      PROVE  ConfigInv'
  <2>1. setter[t].set.at = "idle" /\ <<>> \in Seq(Member)
    BY SMTT(30), <1>5, NoSetProperties DEF setValue
  <2> QED
    BY Zenon, <1>5, <2>1, StartStep DEF setValue
<1>6. ASSUME NEW t \in Thread, NEW yaml \in Yaml, LoadFromYaml(t, yaml) PROVE ConfigInv'
  <2>1. yaml \in Seq(Member)
    BY Zenon, YamlType
  <2>2. setter' = [setter EXCEPT ![t] = [@ EXCEPT !.yaml = yaml]]
    BY Zenon, <1>6 DEF LoadFromYaml
  <2>3. /\ setter' \in [Thread -> [set : SetCall, yaml : Seq(Member)]]
        /\ \A s \in Thread : setter'[s].set = setter[s].set
    BY Zenon, <1>a, <2>1, <2>2
  <2> QED
    BY Zenon, <1>6, <1>a, <2>3, YamlKept DEF LoadFromYaml
<1>7. ASSUME NEW t \in Thread, YamlMember(t) PROVE ConfigInv'
  <2> DEFINE y == setter[t].yaml
  <2>1. setter[t].set.at = "idle" /\ y \in Seq(Member) /\ y # <<>>
    BY Zenon, <1>7, <1>a, NoSetProperties DEF YamlMember
  <2>2. Tail(y) \in Seq(Member) /\ Head(y) \in Member
    BY SMTT(30), <2>1
  <2>3. Head(y)[2] \in ConfValue \cup {Bad}
    BY Zenon, <2>2 DEF Member
  <2>4. CASE Head(y)[1] \in declared /\ Head(y)[2] # Bad
    <3>1. Setting(t, Head(y)[1], Head(y)[2], Tail(y))
      BY Zenon, <1>7, <2>4 DEF YamlMember
    <3>2. Head(y)[2] \in ConfValue
      BY Zenon, <2>3, <2>4
    <3> HIDE DEF y
    <3> QED
      BY Zenon, <1>7, <2>1, <2>2, <2>4, <3>1, <3>2, StartStep DEF YamlMember
  <2>5. CASE ~(Head(y)[1] \in declared /\ Head(y)[2] # Bad)
    <3>1. setter' = [setter EXCEPT ![t] = [@ EXCEPT !.yaml = Tail(y)]]
      BY Zenon, <1>7, <2>5 DEF YamlMember
    <3>2. /\ setter' \in [Thread -> [set : SetCall, yaml : Seq(Member)]]
          /\ \A s \in Thread : setter'[s].set = setter[s].set
      BY Zenon, <1>a, <2>2, <3>1
    <3> QED
      BY Zenon, <1>7, <1>a, <3>2, YamlKept DEF YamlMember
  <2> QED
    BY Zenon, <2>4, <2>5
<1>8. CASE UNCHANGED configVars
  BY Zenon, <1>8, <1>a, YamlKept DEF configVars
<1> QED
  BY Zenon, <1>1, <1>2, <1>3, <1>4, <1>5, <1>6, <1>7, <1>8, CallStep, CalledStep, AssignStep
     DEF ConfigNext, ConfigStep

LEMMA KnownFollow == ConfigInv => ListenersFollow
<1> SUFFICES ASSUME ConfigInv, NEW k \in declared, SettersOf(k) = {}, ~mixed[k].last,
                    NEW l \in m_cbs[k]
             PROVE  told[k][l] \in {Never, m_val[k]}
  BY Zenon DEF ListenersFollow
<1>1. k \in Key /\ mixed[k].last \in BOOLEAN
  BY Zenon DEF ConfigInv, ConfigTypeOK
<1>2. mixed[k].last = FALSE
  BY <1>1, Zenon
<1> QED
  BY Zenon, <1>1, <1>2 DEF ConfigInv, ToldInv, Known

\* When nobody sets a variable and the last calls of setValue() did not overlap,
\* its listeners were last told the value that it has.
THEOREM ListenersKnow == ConfigSpec => []ListenersFollow
BY InitConfig, ConfigStepInv, KnownFollow, PTL DEF ConfigSpec

-----------------------------------------------------------------------------
(***************************************************************************)
(* The loggers.                                                            *)
(***************************************************************************)

\* The logger is as the define says, or a define that is equal to it.
Matches(logger, d) ==
  /\ logger.level = d.level
  /\ Valid(d.formatter) => logger.formatter = d.formatter
  /\ \E e \in logger.applied :
       DefineEq(d, e) /\ logger.appenders = Appenders(e, logger.formatter)

\* The loggers are as the value says.
Follow(val) ==
  /\ \A d \in val : Matches(loggers[d.name], d)
  /\ \A n \in LoggerName : (\A d \in val : d.name # n) => loggers[n].appenders = <<>>

\* A call of setValue() has told LogIniter, or has not.
Applied(set) ==
  IF set.at = "calling" /\ LogListener \in set.calls
  THEN Follow(m_val[LogKey]) ELSE Follow(set.v)

\* No call of setValue() has overlapped with another, nor does one now.
NoOverlap ==
  mixed[LogKey].ever = FALSE /\ \A t \in SettersOf(LogKey) : setter[t].set.alone = TRUE

LogInv ==
  LogListener \in m_cbs[LogKey] /\ NoOverlap =>
    /\ SettersOf(LogKey) = {} => Follow(m_val[LogKey])
    /\ \A t \in SettersOf(LogKey) : Applied(setter[t].set)

\* on_logger_conf_changed() takes the loggers from one value to the other.
LEMMA Reconfigured ==
  ASSUME NEW S \in ConfValue, NEW T \in ConfValue, Follow(S), on_logger_conf_changed(S, T)
  PROVE  Follow(T)'
<1> DEFINE New(n) == {d \in T : d.name = n}
           Old(n) == {d \in S : d.name = n}
<1>0. \A V \in ConfValue : \A d, e \in V : d.name \in LoggerName /\ (d.name = e.name => d = e)
  BY Zenon, LogAssumption
<1>1. \A n \in LoggerName : loggers'[n] =
        CASE New(n) = {} /\ Old(n) # {} -> Deleted(loggers[n])
          [] \E d \in New(n) : \A e \in Old(n) : ~DefineEq(d, e) ->
               Configured(loggers[n], CHOOSE d \in New(n) : TRUE)
          [] OTHER -> loggers[n]
  BY Zenon DEF on_logger_conf_changed
<1>2. ASSUME NEW d \in T PROVE Matches(loggers'[d.name], d)
  <2> DEFINE n == d.name
  <2>1. n \in LoggerName /\ New(n) = {d}
    BY SMTT(30), <1>0
  <2>2. CASE \A e \in Old(n) : ~DefineEq(d, e)
    <3>1. (CHOOSE x \in New(n) : TRUE) = d
      BY Zenon, <2>1
    <3>2. loggers'[n] = Configured(loggers[n], d)
      BY Zenon, <1>1, <2>1, <2>2, <3>1
    <3>3. DefineEq(d, d)
      BY Zenon DEF DefineEq
    <3> QED
      BY SMTT(30), <3>2, <3>3 DEF Configured, Matches
  <2>3. CASE \E e \in Old(n) : DefineEq(d, e)
    <3> PICK e \in S : e.name = n /\ DefineEq(d, e)
      BY Zenon, <2>3
    <3>1. loggers'[n] = loggers[n]
      <4>1. e \in Old(n)
        BY Zenon
      <4>2. ~(\E x \in New(n) : \A y \in Old(n) : ~DefineEq(x, y))
        BY Zenon, <2>1, <4>1
      <4>3. New(n) # {}
        BY Zenon, <2>1
      <4> HIDE DEF New, Old
      <4> QED
        BY Zenon, <1>1, <2>1, <4>2, <4>3
    <3>2. Matches(loggers[n], e)
      BY Zenon DEF Follow
    <3> QED
      BY Zenon, <3>1, <3>2 DEF Matches, DefineEq
  <2> QED
    BY Zenon, <2>2, <2>3
<1>3. ASSUME NEW n \in LoggerName, \A d \in T : d.name # n
      PROVE  loggers'[n].appenders = <<>>
  <2>1. New(n) = {}
    BY Zenon, <1>3
  <2>2. CASE Old(n) # {}
    <3>1. loggers'[n] = Deleted(loggers[n])
      BY Zenon, <1>1, <2>1, <2>2
    <3> QED
      BY SMTT(30), <3>1 DEF Deleted
  <2>3. CASE Old(n) = {}
    <3>1. loggers'[n] = loggers[n]
      BY Zenon, <1>1, <2>1, <2>3
    <3>2. \A d \in S : d.name # n
      BY Zenon, <2>3
    <3> QED
      BY Zenon, <3>1, <3>2 DEF Follow
  <2> QED
    BY Zenon, <2>2, <2>3
<1> QED
  BY Zenon, <1>2, <1>3 DEF Follow

\* LogIniter listens to "logs" only.
ListenerInv ==
  /\ \A k \in Key : LogListener \in m_cbs[k] => k = LogKey
  /\ \A t \in Thread : LogListener \in setter[t].set.calls => setter[t].set.key = LogKey

LogIInv == ConfigInv /\ ListenerInv /\ LogInv

\* A step that changes nothing about "logs" that its listener can tell.
LEMMA LogKept ==
  ASSUME LogInv, m_val'[LogKey] = m_val[LogKey], mixed'[LogKey] = mixed[LogKey], loggers' = loggers,
         LogListener \in m_cbs'[LogKey] => LogListener \in m_cbs[LogKey],
         SettersOf(LogKey)' = SettersOf(LogKey),
         \A t \in SettersOf(LogKey) :
           /\ setter'[t].set.alone = setter[t].set.alone /\ setter'[t].set.v = setter[t].set.v
           /\ (setter'[t].set.at = "calling" /\ LogListener \in setter'[t].set.calls) <=>
              (setter[t].set.at = "calling" /\ LogListener \in setter[t].set.calls)
  PROVE  LogInv'
<1>0. LogKey' = LogKey
  BY Zenon
<1>1. \A val : Follow(val)' <=> Follow(val)
  BY Zenon DEF Follow
<1>2. NoOverlap' => NoOverlap
  BY Zenon DEF NoOverlap
<1>3. ASSUME NEW t \in SettersOf(LogKey), Applied(setter[t].set) PROVE Applied(setter[t].set)'
  BY Zenon, <1>3 DEF Applied, Follow
<1>4. Follow(m_val[LogKey]) => Follow(m_val[LogKey])'
  BY Zenon DEF Follow
<1> QED
  BY Zenon, <1>2, <1>3, <1>4 DEF LogInv

LEMMA LogSetting ==
  ASSUME LogIInv, UNCHANGED <<declared, m_val, m_cbs, told, mixed, loggers>>,
         NEW t \in Thread, setter[t].set.at = "idle", NEW k \in declared, NEW v \in ConfValue,
         NEW yaml \in Seq(Member), Setting(t, k, v, yaml)
  PROVE  ListenerInv' /\ LogInv'
<1> USE DEF LogIInv
<1>0. setter \in [Thread -> [set : SetCall, yaml : Seq(Member)]] /\ k \in Key
  BY Zenon DEF ConfigInv, ConfigTypeOK
<1>1. CASE Same(v, m_val[k])
  <2>1. setter' = [setter EXCEPT ![t] = [@ EXCEPT !.yaml = yaml]]
    BY Zenon, <1>1 DEF Setting
  <2>2. \A s \in Thread : setter'[s].set = setter[s].set
    BY Zenon, <1>0, <2>1
  <2>3. SettersOf(LogKey)' = SettersOf(LogKey)
    BY Zenon, <2>2 DEF SettersOf
  <2>4. ListenerInv'
    BY Zenon, <2>2 DEF ListenerInv
  <2>5. \A s \in SettersOf(LogKey) : s \in Thread
    BY Zenon, SetterOf
  <2> QED
    BY Zenon, <2>2, <2>3, <2>4, <2>5, LogKept
<1>2. CASE ~Same(v, m_val[k])
  <2>1. /\ setter' \in [Thread -> [set : SetCall, yaml : Seq(Member)]]
        /\ setter'[t].set.at = "calling" /\ setter'[t].set.key = k /\ setter'[t].set.v = v
        /\ setter'[t].set.calls = m_cbs[k]
        /\ \A s \in Thread : s # t =>
             /\ setter'[s].set.at = setter[s].set.at /\ setter'[s].set.key = setter[s].set.key
             /\ setter'[s].set.v = setter[s].set.v /\ setter'[s].set.calls = setter[s].set.calls
             /\ s \notin SettersOf(k) => setter'[s].set.alone = setter[s].set.alone
        /\ SettersOf(k)' = SettersOf(k) \cup {t}
        /\ \A j : j # k => SettersOf(j)' = SettersOf(j)
        /\ \A s \in SettersOf(k)' : setter'[s].set.alone = TRUE => s = t /\ SettersOf(k) = {}
        /\ \A j : \A s \in SettersOf(j) : s \in Thread /\ s # t /\ (j # k => s \notin SettersOf(k))
    BY Zenon, <1>2, NewCall
  <2>2. ListenerInv'
    BY ZenonT(30), <1>0, <2>1 DEF ListenerInv
  <2>3. CASE k # LogKey
    <3>1. /\ SettersOf(LogKey)' = SettersOf(LogKey)
          /\ \A s \in SettersOf(LogKey) :
               /\ setter'[s].set.alone = setter[s].set.alone /\ setter'[s].set.v = setter[s].set.v
               /\ setter'[s].set.at = setter[s].set.at /\ setter'[s].set.calls = setter[s].set.calls
      BY Zenon, <2>1, <2>3
    <3> QED
      BY Zenon, <2>2, <3>1, LogKept
  <2>4. CASE k = LogKey
    <3> SUFFICES ASSUME LogListener \in m_cbs[LogKey], NoOverlap'
                 PROVE  SettersOf(LogKey)' = {t} /\ Applied(setter[t].set)'
      BY Zenon, <2>2 DEF LogInv
    <3>1. SettersOf(LogKey) = {} /\ SettersOf(LogKey)' = {t}
      BY Zenon, <2>1, <2>4 DEF NoOverlap
    <3>2. NoOverlap
      BY Zenon, <3>1 DEF NoOverlap
    <3>3. Follow(m_val[LogKey])
      BY Zenon, <3>1, <3>2 DEF LogInv
    <3>4. Follow(m_val[LogKey])'
      BY Zenon, <3>3 DEF Follow
    <3> QED
      BY Zenon, <2>1, <2>4, <3>1, <3>4 DEF Applied
  <2> QED
    BY Zenon, <2>2, <2>3, <2>4
<1> QED
  BY Zenon, <1>1, <1>2

\* LogIniter's listener is called.
LEMMA LogCall ==
  ASSUME LogIInv, NEW t \in Thread, NEW l \in Listener, CallListener(t, l),
         IF l = LogListener THEN on_logger_conf_changed(m_val[LogKey], setter[t].set.v)
         ELSE loggers' = loggers
  PROVE  ListenerInv' /\ LogInv'
<1> USE DEF LogIInv
<1> DEFINE set == setter[t].set
           r == [set EXCEPT !.calls = set.calls \ {l}]
<1>0. /\ set.at = "calling" /\ l \in set.calls /\ UNCHANGED <<declared, m_val, m_cbs, mixed>>
      /\ setter' = [setter EXCEPT ![t] = [@ EXCEPT !.set = r]]
  BY Zenon DEF CallListener
<1>1. set \in SetCall /\ set.v \in ConfValue /\ m_val[LogKey] \in ConfValue
  BY Zenon, LogAssumption DEF ConfigInv, ConfigTypeOK, SetCall
<1>2. r \in SetCall /\ r.at = "calling" /\ r.key = set.key /\ r.alone = set.alone /\ r.v = set.v
      /\ r.calls = set.calls \ {l}
  BY Zenon, <1>0, <1>1 DEF SetCall
<1> HIDE DEF r
<1>3. /\ t \in SettersOf(set.key)
      /\ setter'[t].set = r
      /\ \A s \in Thread : s # t => setter'[s] = setter[s]
      /\ \A j : SettersOf(j)' = IF j = set.key /\ r.at = "idle" THEN SettersOf(j) \ {t} ELSE SettersOf(j)
  BY Zenon, <1>0, <1>2, OwnStep
<1>4. \A j : SettersOf(j)' = SettersOf(j)
  BY Zenon, <1>2, <1>3
<1>5. ListenerInv'
  BY Zenon, <1>0, <1>2, <1>3 DEF ListenerInv
<1>6. \A s \in SettersOf(LogKey) : s \in Thread
  BY Zenon, SetterOf
<1>7. CASE l # LogListener
  <2>1. \A s \in SettersOf(LogKey) :
           /\ setter'[s].set.alone = setter[s].set.alone /\ setter'[s].set.v = setter[s].set.v
           /\ (setter'[s].set.at = "calling" /\ LogListener \in setter'[s].set.calls) <=>
              (setter[s].set.at = "calling" /\ LogListener \in setter[s].set.calls)
    BY Zenon, <1>0, <1>2, <1>3, <1>6, <1>7
  <2> QED
    BY Zenon, <1>0, <1>4, <1>5, <1>7, <2>1, LogKept
<1>8. CASE l = LogListener
  <2> SUFFICES ASSUME LogListener \in m_cbs[LogKey], NoOverlap'
               PROVE  SettersOf(LogKey) = {t} /\ Applied(setter[t].set)'
    BY Zenon, <1>0, <1>4, <1>5 DEF LogInv
  <2>1. set.key = LogKey /\ t \in SettersOf(LogKey)
    BY Zenon, <1>0, <1>3, <1>8 DEF ListenerInv
  <2>2. \A s \in SettersOf(LogKey) : setter'[s].set.alone = setter[s].set.alone
    BY Zenon, <1>2, <1>3, <1>6
  <2>3. NoOverlap
    BY Zenon, <1>0, <1>4, <2>2 DEF NoOverlap
  <2>4. SettersOf(LogKey) = {t}
    BY Zenon, <2>1, <2>3, LogAssumption DEF NoOverlap, ConfigInv, AloneInv
  <2>5. Follow(m_val[LogKey])
    BY Zenon, <1>0, <1>8, <2>1, <2>3 DEF LogInv, Applied
  <2> DEFINE v == set.v
             w == m_val[LogKey]
  <2>6. PICK V \in ConfValue : V = v
    BY Zenon, <1>1
  <2>7. PICK W \in ConfValue : W = w
    BY Zenon, <1>1
  <2>8. Follow(W) /\ on_logger_conf_changed(W, V)
    BY Zenon, <1>8, <2>5, <2>6, <2>7
  <2>9. Follow(V)'
    BY Zenon, <2>8, Reconfigured
  <2>10. setter'[t].set.v = V /\ LogListener \notin setter'[t].set.calls
    BY Zenon, <1>2, <1>3, <1>8, <2>6
  <2>11. Applied(setter[t].set)'
    BY Zenon, <2>9, <2>10 DEF Applied
  <2> QED
    BY Zenon, <2>4, <2>11
<1> QED
  BY Zenon, <1>7, <1>8

LEMMA LogCalled ==
  ASSUME LogIInv, NEW t \in Thread, ListenersCalled(t), loggers' = loggers
  PROVE  ListenerInv' /\ LogInv'
<1> USE DEF LogIInv
<1> DEFINE set == setter[t].set
           r == [set EXCEPT !.at = "assign"]
<1>0. /\ set.at = "calling" /\ set.calls = {} /\ UNCHANGED <<declared, m_val, m_cbs, told, mixed>>
      /\ setter' = [setter EXCEPT ![t] = [@ EXCEPT !.set = r]]
  BY Zenon DEF ListenersCalled
<1>1. set \in SetCall
  BY Zenon DEF ConfigInv, ConfigTypeOK
<1>2. r \in SetCall /\ r.at = "assign" /\ r.key = set.key /\ r.alone = set.alone /\ r.v = set.v
      /\ r.calls = {}
  BY Zenon, <1>0, <1>1 DEF SetCall
<1> HIDE DEF r
<1>3. /\ setter'[t].set = r
      /\ \A s \in Thread : s # t => setter'[s] = setter[s]
      /\ \A j : SettersOf(j)' = IF j = set.key /\ r.at = "idle" THEN SettersOf(j) \ {t} ELSE SettersOf(j)
  BY Zenon, <1>0, <1>2, OwnStep
<1>4. SettersOf(LogKey)' = SettersOf(LogKey)
  BY Zenon, <1>2, <1>3
<1>5. ListenerInv'
  BY Zenon, <1>0, <1>2, <1>3 DEF ListenerInv
<1>6. \A s \in SettersOf(LogKey) : s \in Thread
  BY Zenon, SetterOf
<1>7. \A s \in SettersOf(LogKey) :
         /\ setter'[s].set.alone = setter[s].set.alone /\ setter'[s].set.v = setter[s].set.v
         /\ (setter'[s].set.at = "calling" /\ LogListener \in setter'[s].set.calls) <=>
            (setter[s].set.at = "calling" /\ LogListener \in setter[s].set.calls)
  BY Zenon, <1>0, <1>2, <1>3, <1>6
<1> QED
  BY Zenon, <1>0, <1>4, <1>5, <1>7, LogKept

\* The value is assigned that the loggers have been configured with.
LEMMA LogAssign ==
  ASSUME LogIInv, NEW t \in Thread, AssignValue(t), loggers' = loggers
  PROVE  ListenerInv' /\ LogInv'
<1> USE DEF LogIInv
<1> DEFINE set == setter[t].set
           k == set.key
<1>0. /\ set.at = "assign" /\ UNCHANGED <<declared, m_cbs, told>>
      /\ m_val' = [m_val EXCEPT ![k] = set.v]
      /\ setter' = [setter EXCEPT ![t] = [@ EXCEPT !.set = NoSet]]
      /\ mixed' = [mixed EXCEPT ![k] = [last |-> ~set.alone, ever |-> mixed[k].ever \/ ~set.alone]]
  BY Zenon DEF AssignValue
<1>1. /\ m_val \in [Key -> ConfValue] /\ mixed \in [Key -> [last : BOOLEAN, ever : BOOLEAN]]
      /\ set.alone \in BOOLEAN
  BY Zenon DEF ConfigInv, ConfigTypeOK, SetCall
<1>2. NoSet.calls = {}
  BY Zenon DEF NoSet
<1>3. /\ k \in Key /\ t \in SettersOf(k)
      /\ setter'[t].set = NoSet
      /\ \A s \in Thread : s # t => setter'[s] = setter[s]
      /\ \A j : SettersOf(j)' = IF j = k /\ NoSet.at = "idle" THEN SettersOf(j) \ {t} ELSE SettersOf(j)
  BY Zenon, <1>0, NoSetProperties, OwnStep
<1>4. \A j : SettersOf(j)' = IF j = k THEN SettersOf(j) \ {t} ELSE SettersOf(j)
  BY Zenon, <1>3, NoSetProperties
<1>5. ListenerInv'
  BY Zenon, <1>0, <1>2, <1>3 DEF ListenerInv
<1>6. \A j : \A s \in SettersOf(j) : s \in Thread /\ (j # k => s # t)
  BY Zenon DEF SettersOf
<1>7. CASE k # LogKey
  <2>1. m_val'[LogKey] = m_val[LogKey] /\ mixed'[LogKey] = mixed[LogKey]
    BY Zenon, <1>0, <1>1, <1>7, LogAssumption
  <2>2. \A s \in SettersOf(LogKey) : setter'[s] = setter[s]
    BY Zenon, <1>3, <1>6, <1>7
  <2>3. SettersOf(LogKey)' = SettersOf(LogKey)
    BY Zenon, <1>4, <1>7
  <2> QED
    BY Zenon, <1>0, <1>5, <2>1, <2>2, <2>3, LogKept
<1>8. CASE k = LogKey
  <2> SUFFICES ASSUME LogListener \in m_cbs[LogKey], NoOverlap'
               PROVE  SettersOf(LogKey)' = {} /\ Follow(m_val[LogKey])'
    BY Zenon, <1>0, <1>5 DEF LogInv
  <2>1. m_val'[LogKey] = set.v
    BY Zenon, <1>0, <1>1, <1>3, <1>8
  <2> DEFINE b == ~set.alone
             e == mixed[k].ever \/ ~set.alone
  <2>2. e = FALSE => set.alone = TRUE /\ mixed[k].ever = FALSE
    <3>1. mixed[k].ever \in BOOLEAN
      BY Zenon, <1>1, <1>3
    <3> QED
      BY <1>1, <3>1, Zenon
  <2>3. mixed'[k].ever = e
    <3>1. mixed' = [mixed EXCEPT ![k] = [last |-> b, ever |-> e]]
      BY Zenon, <1>0
    <3> HIDE DEF b, e
    <3> QED
      BY Zenon, <1>1, <1>3, <3>1
  <2>4. set.alone = TRUE /\ mixed[LogKey].ever = FALSE
    BY Zenon, <1>8, <2>2, <2>3 DEF NoOverlap
  <2> HIDE DEF b, e
  <2>5. SettersOf(LogKey) = {t}
    BY Zenon, <1>3, <1>8, <2>4 DEF ConfigInv, AloneInv
  <2>6. NoOverlap
    BY Zenon, <2>4, <2>5 DEF NoOverlap
  <2>7. Follow(set.v)
    BY Zenon, <1>0, <2>5, <2>6 DEF LogInv, Applied
  <2>8. Follow(m_val[LogKey])'
    BY Zenon, <2>1, <2>7 DEF Follow
  <2> QED
    BY Zenon, <1>4, <1>8, <2>5, <2>8
<1> QED
  BY Zenon, <1>7, <1>8

LEMMA InitLog == LogInit => LogIInv
<1> SUFFICES ASSUME LogInit PROVE LogIInv
  OBVIOUS
<1>1. <<>> \in Seq(Member)
  BY SMTT(30)
<1>2. \A k : SettersOf(k) = {}
  BY Zenon, NoSetProperties DEF LogInit, SettersOf
<1>3. m_cbs \in [Key -> SUBSET Listener]
  BY Zenon, LogAssumption DEF LogInit
<1>k. LogKey \in Key
  BY Zenon, LogAssumption
<1>4. ConfigTypeOK
  <2>1. declared \subseteq Key /\ m_val \in [Key -> ConfValue]
    BY Zenon, <1>k, ConfigAssumption DEF LogInit
  <2>2. /\ told \in [Key -> [Listener -> ConfValue \cup {Never}]]
        /\ mixed \in [Key -> [last : BOOLEAN, ever : BOOLEAN]]
    BY Zenon DEF LogInit
  <2>3. setter \in [Thread -> [set : SetCall, yaml : Seq(Member)]]
    BY Zenon, <1>1, NoSetProperties DEF LogInit
  <2>4. \A t \in Thread : setter[t].set.at = "idle"
    BY Zenon, NoSetProperties DEF LogInit
  <2> QED
    BY Zenon, <1>3, <2>1, <2>2, <2>3, <2>4 DEF ConfigTypeOK
<1>5. AloneInv /\ ToldInv
  <2>1. AloneInv
    BY Zenon, <1>2 DEF AloneInv
  <2>2. \A k \in Key, l \in Listener : told[k][l] = Never
    BY Zenon DEF LogInit
  <2>3. \A k \in Key : Known(k)
    BY Zenon, <1>3, <2>2 DEF Known
  <2> QED
    BY Zenon, <1>2, <2>1, <2>3 DEF ToldInv
<1>6. ListenerInv
  BY Zenon DEF LogInit, ListenerInv, NoSet
<1>7. m_val[LogKey] = {}
  BY Zenon, LogAssumption DEF LogInit
<1>8. Follow({})
  BY Zenon DEF LogInit, Follow, NewLogger
<1>9. LogInv
  BY Zenon, <1>2, <1>7, <1>8 DEF LogInv
<1> QED
  BY Zenon, <1>4, <1>5, <1>6, <1>9 DEF LogIInv, ConfigInv

\* A step of the loggers' program is a step of Config.
LEMMA LogIsConfig == [LogNext]_logVars => [ConfigNext]_configVars
<1>1. ASSUME NEW t \in Thread, CallListener(t, LogListener) PROVE ConfigNext
  BY Zenon, <1>1, LogAssumption DEF ConfigNext, ConfigStep
<1>2. ConfigStep(Listener \ {LogListener}) => ConfigNext
  BY Zenon DEF ConfigNext, ConfigStep
<1> QED
  BY Zenon, <1>1, <1>2 DEF LogNext, logVars

LEMMA LogStep == LogIInv /\ [LogNext]_logVars => LogIInv'
<1> SUFFICES ASSUME LogIInv, [LogNext]_logVars PROVE ListenerInv' /\ LogInv'
  BY Zenon, LogIsConfig, ConfigStepInv DEF LogIInv
<1>a. /\ ConfigInv /\ ListenerInv /\ LogInv
      /\ declared \subseteq Key /\ m_cbs \in [Key -> SUBSET Listener]
      /\ setter \in [Thread -> [set : SetCall, yaml : Seq(Member)]]
  BY Zenon DEF LogIInv, ConfigInv, ConfigTypeOK
<1>b. \A s \in SettersOf(LogKey) : s \in Thread
  BY Zenon, SetterOf
<1>1. ASSUME loggers' = loggers, UNCHANGED <<m_val, mixed>>,
             \A s \in Thread : setter'[s].set = setter[s].set,
             \A k \in Key : LogListener \in m_cbs'[k] => LogListener \in m_cbs[k]
      PROVE  ListenerInv' /\ LogInv'
  <2>1. SettersOf(LogKey)' = SettersOf(LogKey)
    BY Zenon, <1>1 DEF SettersOf
  <2>2. ListenerInv'
    BY Zenon, <1>1, <1>a DEF ListenerInv
  <2> QED
    BY Zenon, <1>1, <1>a, <1>b, <2>1, <2>2, LogAssumption, LogKept
<1>2. ASSUME NEW t \in Thread, CallListener(t, LogListener),
             on_logger_conf_changed(m_val[LogKey], setter[t].set.v)
      PROVE  ListenerInv' /\ LogInv'
  BY Zenon, <1>2, LogAssumption, LogCall
<1>3. ASSUME ConfigStep(Listener \ {LogListener}), loggers' = loggers
      PROVE  ListenerInv' /\ LogInv'
  <2>1. ASSUME NEW k \in Key, Lookup(k) \/ clearListener(k) PROVE ListenerInv' /\ LogInv'
    <3>1. /\ UNCHANGED <<m_val, mixed, setter>>
          /\ m_cbs' = m_cbs \/ m_cbs' = [m_cbs EXCEPT ![k] = {}]
      BY Zenon, <2>1 DEF Lookup, clearListener
    <3>2. \A j \in Key : LogListener \in m_cbs'[j] => LogListener \in m_cbs[j]
      BY Zenon, <1>a, <3>1
    <3> QED
      BY Zenon, <1>1, <1>3, <3>1, <3>2
  <2>2. ASSUME NEW k \in Key, NEW l \in Listener, delListener(k, l) PROVE ListenerInv' /\ LogInv'
    <3>1. UNCHANGED <<m_val, mixed, setter>> /\ m_cbs' = [m_cbs EXCEPT ![k] = m_cbs[k] \ {l}]
      BY Zenon, <2>2 DEF delListener
    <3>2. \A j \in Key : LogListener \in m_cbs'[j] => LogListener \in m_cbs[j]
      BY Zenon, <1>a, <3>1
    <3> QED
      BY Zenon, <1>1, <1>3, <3>1, <3>2
  <2>3. ASSUME NEW k \in Key, NEW l \in Listener \ {LogListener}, addListener(k, l)
        PROVE  ListenerInv' /\ LogInv'
    <3>1. UNCHANGED <<m_val, mixed, setter>> /\ m_cbs' = [m_cbs EXCEPT ![k] = m_cbs[k] \cup {l}]
      BY Zenon, <2>3 DEF addListener
    <3>2. \A j \in Key : LogListener \in m_cbs'[j] => LogListener \in m_cbs[j]
      BY Zenon, <1>a, <3>1
    <3> QED
      BY Zenon, <1>1, <1>3, <3>1, <3>2
  <2>4. ASSUME NEW t \in Thread, NEW k \in Key, NEW v \in ConfValue, setValue(t, k, v)
        PROVE  ListenerInv' /\ LogInv'
    <3>1. setter[t].set.at = "idle" /\ <<>> \in Seq(Member)
      BY SMTT(30), <2>4, NoSetProperties DEF setValue
    <3> QED
      BY Zenon, <1>3, <2>4, <3>1, LogSetting DEF setValue
  <2>5. ASSUME NEW t \in Thread, NEW l \in Listener \ {LogListener}, CallListener(t, l)
        PROVE  ListenerInv' /\ LogInv'
    BY Zenon, <1>3, <2>5, LogCall
  <2>6. ASSUME NEW t \in Thread, NEW yaml \in Yaml, LoadFromYaml(t, yaml)
        PROVE  ListenerInv' /\ LogInv'
    <3>1. UNCHANGED <<m_val, m_cbs, mixed>> /\ setter' = [setter EXCEPT ![t] = [@ EXCEPT !.yaml = yaml]]
      BY Zenon, <2>6 DEF LoadFromYaml
    <3>2. \A s \in Thread : setter'[s].set = setter[s].set
      BY Zenon, <1>a, <3>1
    <3> QED
      BY Zenon, <1>1, <1>3, <3>1, <3>2
  <2>7. ASSUME NEW t \in Thread, YamlMember(t) PROVE ListenerInv' /\ LogInv'
    <3> DEFINE y == setter[t].yaml
    <3>1. /\ setter[t].set.at = "idle" /\ y \in Seq(Member) /\ y # <<>>
          /\ UNCHANGED <<declared, m_val, m_cbs, told, mixed>>
      BY Zenon, <2>7, <1>a, NoSetProperties DEF YamlMember
    <3>2. Tail(y) \in Seq(Member) /\ Head(y) \in Member
      BY SMTT(30), <3>1
    <3>3. Head(y)[2] \in ConfValue \cup {Bad}
      BY <3>2 DEF Member
    <3>4. CASE Head(y)[1] \in declared /\ Head(y)[2] # Bad
      <4>1. Setting(t, Head(y)[1], Head(y)[2], Tail(y))
        BY Zenon, <2>7, <3>4 DEF YamlMember
      <4>2. Head(y)[2] \in ConfValue
        BY <3>3, <3>4
      <4> HIDE DEF y
      <4> QED
        BY Zenon, <1>3, <3>1, <3>2, <3>4, <4>1, <4>2, LogSetting
    <3>5. CASE ~(Head(y)[1] \in declared /\ Head(y)[2] # Bad)
      <4>1. setter' = [setter EXCEPT ![t] = [@ EXCEPT !.yaml = Tail(y)]]
        BY Zenon, <2>7, <3>5 DEF YamlMember
      <4>2. \A s \in Thread : setter'[s].set = setter[s].set
        BY Zenon, <1>a, <4>1
      <4> QED
        BY Zenon, <1>1, <1>3, <3>1, <4>2
    <3> QED
      BY Zenon, <3>4, <3>5
  <2>8. ASSUME NEW t \in Thread, ListenersCalled(t) \/ AssignValue(t) PROVE ListenerInv' /\ LogInv'
    BY Zenon, <1>3, <2>8, LogCalled, LogAssign
  <2> QED
    BY Zenon, <1>3, <2>1, <2>2, <2>3, <2>4, <2>5, <2>6, <2>7, <2>8 DEF ConfigStep
<1>4. CASE UNCHANGED logVars
  BY Zenon, <1>1, <1>4 DEF logVars, configVars
<1> QED
  BY Zenon, <1>2, <1>3, <1>4 DEF LogNext

\* As long as calls of setValue() never overlapped, the loggers are configured as
\* "logs" says whenever nobody sets it and LogIniter still listens.
THEOREM LoggersConfigured == LogSpec => []LoggersFollow
<1>1. LogIInv => LoggersFollow
  <2> SUFFICES ASSUME LogIInv, LogListener \in m_cbs[LogKey], SettersOf(LogKey) = {},
                      ~mixed[LogKey].ever
               PROVE  Follow(m_val[LogKey])
    BY Zenon DEF LoggersFollow, Follow, Matches
  <2>1. mixed[LogKey].ever \in BOOLEAN
    BY Zenon, LogAssumption DEF LogIInv, ConfigInv, ConfigTypeOK
  <2>2. mixed[LogKey].ever = FALSE
    BY <2>1, Zenon
  <2> QED
    BY Zenon, <2>2 DEF LogIInv, LogInv, NoOverlap
<1> QED
  BY <1>1, InitLog, LogStep, PTL DEF LogSpec

\* The other listeners of "logs" follow it as well.
THEOREM LogListenersKnow == LogSpec => []ListenersFollow
<1>1. LogIInv => ListenersFollow
  BY Zenon, KnownFollow DEF LogIInv
<1> QED
  BY <1>1, InitLog, LogStep, PTL DEF LogSpec
=============================================================================
