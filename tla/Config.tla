------------------------------- MODULE Config -------------------------------
(***************************************************************************)
(* Config and ConfigVar: the table of variables, and for each variable its *)
(* value and its listeners.  setValue() calls the listeners while it holds *)
(* the read lock and assigns the value under the write lock after it; in   *)
(* between it holds neither.  A locked section that ends without a call    *)
(* from it is one step.                                                    *)
(***************************************************************************)
EXTENDS Naturals, Sequences, FiniteSets

CONSTANTS
  Thread,      \* threads that set variables
  Key,         \* names of variables
  ConfValue,   \* values of a variable
  Same(_, _),  \* operator== of the values
  Default,     \* the value a variable is declared with
  Listener,    \* listeners, by their ids
  Bad,         \* a string that cannot be converted to a value
  Never,       \* what a listener was told that was not called yet
  MaxYaml      \* bound: members of a YAML document

ASSUME ConfigAssumption == Default \in ConfValue /\ {Bad, Never} \cap ConfValue = {} /\ MaxYaml \in Nat

VARIABLES
  declared,    \* GetDatas(): the names that have a variable
  m_val,
  m_cbs,
  told,        \* the value each listener was last told
  setter,      \* the setValue() each thread is in, and what LoadFromYaml sets after it
  mixed        \* whether calls of setValue overlapped, by the last of them or ever

configVars == <<declared, m_val, m_cbs, told, setter, mixed>>

NoSet == [at |-> "idle", key |-> "none", v |-> Default, calls |-> {}, alone |-> TRUE]
Yaml == UNION {[1 .. n -> Key \X (ConfValue \cup {Bad})] : n \in 1 .. MaxYaml}

ConfigInit ==
  /\ declared = {}
  /\ m_val = [k \in Key |-> Default]
  /\ m_cbs = [k \in Key |-> {}]
  /\ told = [k \in Key |-> [l \in Listener |-> Never]]
  /\ setter = [t \in Thread |-> [set |-> NoSet, yaml |-> <<>>]]
  /\ mixed = [k \in Key |-> [last |-> FALSE, ever |-> FALSE]]

SettersOf(k) == {t \in Thread : setter[t].set.at # "idle" /\ setter[t].set.key = k}
\* Nobody holds the read lock of the variable.
Unread(k) == \A t \in SettersOf(k) : setter[t].set.at # "calling"

-----------------------------------------------------------------------------
\* Lookup(name, default_value); another type than the variable's gives nullptr.
Lookup(k) ==
  /\ declared' = declared \cup {k}
  /\ UNCHANGED <<m_val, m_cbs, told, setter, mixed>>

addListener(k, l) ==
  /\ k \in declared /\ l \notin m_cbs[k] /\ Unread(k)
  /\ m_cbs' = [m_cbs EXCEPT ![k] = @ \cup {l}]
  /\ told' = [told EXCEPT ![k] = [@ EXCEPT ![l] = Never]]
  /\ UNCHANGED <<declared, m_val, setter, mixed>>

delListener(k, l) ==
  /\ l \in m_cbs[k] /\ Unread(k)
  /\ m_cbs' = [m_cbs EXCEPT ![k] = @ \ {l}]
  /\ UNCHANGED <<declared, m_val, told, setter, mixed>>

clearListener(k) ==
  /\ m_cbs[k] # {} /\ Unread(k)
  /\ m_cbs' = [m_cbs EXCEPT ![k] = {}]
  /\ UNCHANGED <<declared, m_val, told, setter, mixed>>

\* setValue() takes the read lock; the value may be the one it has.  Calls that
\* overlap with others of the same variable are not alone.
Setting(t, k, v, yaml) ==
  IF Same(v, m_val[k])
  THEN setter' = [setter EXCEPT ![t] = [@ EXCEPT !.yaml = yaml]]
  ELSE setter' = [s \in Thread |->
         IF s = t THEN [set |-> [at |-> "calling", key |-> k, v |-> v, calls |-> m_cbs[k],
                                 alone |-> SettersOf(k) = {}], yaml |-> yaml]
         ELSE IF s \in SettersOf(k) THEN [setter[s] EXCEPT !.set = [@ EXCEPT !.alone = FALSE]]
         ELSE setter[s]]

setValue(t, k, v) ==
  /\ setter[t].set = NoSet /\ setter[t].yaml = <<>>
  /\ k \in declared
  /\ Setting(t, k, v, <<>>)
  /\ UNCHANGED <<declared, m_val, m_cbs, told, mixed>>

\* Mutant: the values are passed in the wrong order.
CallListener_Swapped(t, l) ==
  LET set == setter[t].set
  IN  /\ set.at = "calling" /\ l \in set.calls
      /\ told' = [told EXCEPT ![set.key] = [@ EXCEPT ![l] = m_val[set.key]]]
      /\ setter' = [setter EXCEPT ![t] = [@ EXCEPT !.set = [set EXCEPT !.calls = set.calls \ {l}]]]
      /\ UNCHANGED <<declared, m_val, m_cbs, mixed>>

\* A listener is called with the old and the new value.
CallListener(t, l) ==
  LET set == setter[t].set
  IN  /\ set.at = "calling" /\ l \in set.calls
      /\ told' = [told EXCEPT ![set.key] = [@ EXCEPT ![l] = set.v]]
      /\ setter' = [setter EXCEPT ![t] = [@ EXCEPT !.set = [set EXCEPT !.calls = set.calls \ {l}]]]
      /\ UNCHANGED <<declared, m_val, m_cbs, mixed>>

ListenersCalled(t) ==
  /\ setter[t].set.at = "calling" /\ setter[t].set.calls = {}
  /\ setter' = [setter EXCEPT ![t] = [@ EXCEPT !.set = [setter[t].set EXCEPT !.at = "assign"]]]
  /\ UNCHANGED <<declared, m_val, m_cbs, told, mixed>>

AssignValue(t) ==
  LET set == setter[t].set
  IN  /\ set.at = "assign" /\ Unread(set.key)
      /\ m_val' = [m_val EXCEPT ![set.key] = set.v]
      /\ setter' = [setter EXCEPT ![t] = [@ EXCEPT !.set = NoSet]]
      /\ mixed' = [mixed EXCEPT ![set.key] = [last |-> ~set.alone, ever |-> @.ever \/ ~set.alone]]
      /\ UNCHANGED <<declared, m_cbs, told>>

-----------------------------------------------------------------------------
LoadFromYaml(t, yaml) ==
  /\ setter[t] = [set |-> NoSet, yaml |-> <<>>]
  /\ setter' = [setter EXCEPT ![t] = [@ EXCEPT !.yaml = yaml]]
  /\ UNCHANGED <<declared, m_val, m_cbs, told, mixed>>

\* The next member: LookupBase() and fromString(), which catches the exception
\* of a value that cannot be converted.
YamlMember(t) ==
  /\ setter[t].set = NoSet /\ setter[t].yaml # <<>>
  /\ LET k == Head(setter[t].yaml)[1]
         v == Head(setter[t].yaml)[2]
     IN  IF k \in declared /\ v # Bad THEN Setting(t, k, v, Tail(setter[t].yaml))
         ELSE setter' = [setter EXCEPT ![t] = [@ EXCEPT !.yaml = Tail(setter[t].yaml)]]
  /\ UNCHANGED <<declared, m_val, m_cbs, told, mixed>>

\* L: the listeners that may be added and called.
ConfigStep(L) ==
  \/ \E k \in Key :
       \/ Lookup(k) \/ clearListener(k)
       \/ \E l \in L : addListener(k, l)
       \/ \E l \in Listener : delListener(k, l)
  \/ \E t \in Thread :
       \/ \E k \in Key, v \in ConfValue : setValue(t, k, v)
       \/ \E l \in L : CallListener(t, l)
       \/ ListenersCalled(t) \/ AssignValue(t) \/ YamlMember(t)
       \/ \E yaml \in Yaml : LoadFromYaml(t, yaml)

ConfigNext == ConfigStep(Listener)

ConfigSpec == ConfigInit /\ [][ConfigNext]_configVars

-----------------------------------------------------------------------------
\* When nobody is setting a variable and the last calls of setValue did not
\* overlap, every listener that was told anything was last told the value that
\* the variable has.
ListenersFollow ==
  \A k \in declared : SettersOf(k) = {} /\ ~mixed[k].last =>
    \A l \in m_cbs[k] : told[k][l] \in {Never, m_val[k]}
=============================================================================
