---------------------------- MODULE CountProofs -----------------------------
(***************************************************************************)
(* Proofs that two counts, each kept apart from what it counts, are exact: *)
(* the connections that m_total of HttpConnectionPool counts, and the      *)
(* waits for events that m_pendingEventCount counts; and that the kernel   *)
(* watches what the contexts of IOEvents wait for.                         *)
(***************************************************************************)
EXTENDS IOEvents, HttpConnectionPool, FiniteSetTheorems, TLAPS

-----------------------------------------------------------------------------
(***************************************************************************)
(* HttpConnectionPool: the count outside the mutex is exact.  The pool is  *)
(* empty, for nothing says of a connection that it is connected; so each   *)
(* caller has a connection of its own, and deletes it when it is done.     *)
(***************************************************************************)
Owning == {"add", "use", "release"}
UserAt == {"idle", "delete", "subtract", "connect", "decrement"} \cup Owning

PoolTypeOK ==
  /\ m_total \in Int /\ live \subseteq Conn /\ IsFiniteSet(live)
  /\ user \in [Caller -> [at : UserAt, ptr : Conn \cup {NoConn}, invalid : {{}}]]
  /\ DOMAIN conn = Conn

\* Nothing sets m_isConnected, and so nothing is put back.
NotTold == m_conns = <<>> /\ \A k \in Conn : conn[k].sock.m_isConnected = FALSE

\* A caller's connection is live and no one else's.
OwnInv ==
  /\ \A c \in Caller : IF user[c].at \in Owning THEN user[c].ptr \in live ELSE user[c].ptr = NoConn
  /\ \A c, d \in Caller : user[c].at \in Owning /\ user[c].ptr = user[d].ptr => c = d

PoolInv == PoolTypeOK /\ NotTold /\ OwnInv /\ TotalExact

\* Nothing is discarded: the equation is about two sets of callers.
LEMMA NoneDiscarded ==
  ASSUME PoolTypeOK
  PROVE  /\ Cardinality(Discarded) = 0
         /\ \A at : IsFiniteSet(CallersAt(at)) /\ Cardinality(CallersAt(at)) \in Nat
         /\ Cardinality(live) \in Nat
<1>1. Discarded = {}
  BY SMTT(30) DEF PoolTypeOK, Discarded, CallersAt
<1>2. \A at : CallersAt(at) \subseteq Caller
  BY Zenon DEF CallersAt
<1>3. ASSUME NEW at PROVE IsFiniteSet(CallersAt(at)) /\ Cardinality(CallersAt(at)) \in Nat
  BY Zenon, <1>2, FS_Subset, FS_CardinalityType, PoolAssumption
<1> QED
  BY Zenon, <1>1, <1>3, FS_EmptySet, FS_CardinalityType DEF PoolTypeOK

\* A caller moves.
LEMMA CallerMoves ==
  ASSUME PoolTypeOK, PoolTypeOK', NEW c \in Caller, NEW to \in UserAt, to # user[c].at,
         user'[c].at = to, \A d \in Caller \ {c} : user'[d] = user[d],
         NEW at \in UserAt
  PROVE  Cardinality(CallersAt(at))' =
           Cardinality(CallersAt(at)) + (IF to = at THEN 1 ELSE 0) - (IF user[c].at = at THEN 1 ELSE 0)
<1> DEFINE A == CallersAt(at)
           B == CallersAt(at)'
<1>0. IsFiniteSet(A) /\ Cardinality(A) \in Nat /\ (c \in A <=> user[c].at = at)
  BY Zenon, NoneDiscarded DEF CallersAt
<1>1. B = IF to = at THEN A \cup {c} ELSE A \ {c}
  BY SMTT(30) DEF CallersAt
<1> HIDE DEF A, B
<1>2. CASE to = at
  <2>1. Cardinality(A \cup {c}) = Cardinality(A) + 1
    BY Zenon, <1>0, <1>2, FS_AddElement
  <2> QED
    BY SMTT(30), <1>0, <1>1, <1>2, <2>1 DEF A, B
<1>3. CASE to # at
  <2>1. Cardinality(A \ {c}) = IF c \in A THEN Cardinality(A) - 1 ELSE Cardinality(A)
    BY Zenon, <1>0, FS_RemoveElement
  <2> QED
    BY SMTT(30), <1>0, <1>1, <1>3, <2>1 DEF A, B
<1> QED
  BY Zenon, <1>2, <1>3

\* Caller c goes to a place of its code with connection p; the connections made,
\* deleted and counted in the step balance.
Moves(c, to, p) ==
  /\ to # user[c].at
  /\ user' = [user EXCEPT ![c] = [at |-> to, ptr |-> p, invalid |-> {}]]
  /\ m_conns' = m_conns /\ DOMAIN conn' = Conn
  /\ \A k \in Conn : conn'[k].sock.m_isConnected = FALSE
  /\ live' \subseteq Conn /\ IsFiniteSet(live') /\ m_total' \in Int
  /\ IF to \in Owning THEN p \in live' ELSE p = NoConn
  /\ \A d \in Caller \ {c} : user[d].at \in Owning => user[d].ptr # p /\ user[d].ptr \in live'
  /\ m_total' - m_total + (IF to = "add" THEN 1 ELSE 0) - (IF user[c].at = "add" THEN 1 ELSE 0) =
       Cardinality(live') - Cardinality(live)
         + (IF to = "decrement" THEN 1 ELSE 0) - (IF user[c].at = "decrement" THEN 1 ELSE 0)

LEMMA PoolMove ==
  ASSUME PoolInv, NEW c \in Caller, NEW to \in UserAt, NEW p \in Conn \cup {NoConn}, Moves(c, to, p)
  PROVE  PoolInv'
<1>0. PoolTypeOK /\ m_total \in Int /\ NoConn \notin Conn
  BY Zenon, PoolAssumption DEF PoolInv, PoolTypeOK
<1>1. PoolTypeOK'
  BY Zenon DEF PoolInv, PoolTypeOK, Moves
<1>2. NotTold'
  BY Zenon DEF PoolInv, NotTold, Moves
<1>3. user'[c] = [at |-> to, ptr |-> p, invalid |-> {}] /\ \A d \in Caller \ {c} : user'[d] = user[d]
  BY Zenon, <1>0 DEF PoolTypeOK, Moves
<1>4. OwnInv'
  <2>1. ASSUME NEW d \in Caller
        PROVE  IF user'[d].at \in Owning THEN user'[d].ptr \in live' ELSE user'[d].ptr = NoConn
    BY SMTT(30), <1>3 DEF PoolInv, OwnInv, Moves
  <2>2. ASSUME NEW d \in Caller, NEW e \in Caller, user'[d].at \in Owning, user'[d].ptr = user'[e].ptr
        PROVE  d = e
    <3>1. user'[d].ptr # NoConn
      BY Zenon, <1>0, <1>1, <2>1, <2>2 DEF PoolTypeOK
    <3>2. user'[e].at \in Owning
      BY Zenon, <2>1, <2>2, <3>1
    <3> QED
      BY SMTT(30), <1>3, <2>2, <3>2 DEF PoolInv, OwnInv, Moves
  <2> QED
    BY Zenon, <2>1, <2>2 DEF OwnInv
<1>5. TotalExact'
  <2>1. user'[c].at = to /\ to # user[c].at
    BY SMTT(30), <1>3 DEF Moves
  <2>c. "add" \in UserAt /\ "decrement" \in UserAt
    BY Zenon DEF UserAt, Owning
  <2>2. /\ Cardinality(CallersAt("add"))' =
             Cardinality(CallersAt("add")) + (IF to = "add" THEN 1 ELSE 0)
               - (IF user[c].at = "add" THEN 1 ELSE 0)
        /\ Cardinality(CallersAt("decrement"))' =
             Cardinality(CallersAt("decrement")) + (IF to = "decrement" THEN 1 ELSE 0)
               - (IF user[c].at = "decrement" THEN 1 ELSE 0)
    BY SMTT(30), <1>0, <1>1, <1>3, <2>1, <2>c, CallerMoves
  <2>3. /\ Cardinality(Discarded) = 0 /\ Cardinality(Discarded)' = 0
        /\ Cardinality(live) \in Nat /\ Cardinality(live') \in Nat
        /\ Cardinality(CallersAt("add")) \in Nat /\ Cardinality(CallersAt("decrement")) \in Nat
    <3>1. Discarded' = {}
      BY SMTT(30), <1>1 DEF PoolTypeOK, Discarded, CallersAt
    <3> QED
      BY Zenon, <1>0, <3>1, NoneDiscarded, FS_EmptySet, FS_CardinalityType DEF Moves
  <2>4. m_total + Cardinality(CallersAt("add")) = Cardinality(live) + Cardinality(CallersAt("decrement"))
    BY SMTT(30), <1>0, <2>3 DEF PoolInv, TotalExact
  <2>d. /\ m_total' \in Int
        /\ m_total' - m_total + (IF to = "add" THEN 1 ELSE 0) - (IF user[c].at = "add" THEN 1 ELSE 0) =
             Cardinality(live') - Cardinality(live)
               + (IF to = "decrement" THEN 1 ELSE 0) - (IF user[c].at = "decrement" THEN 1 ELSE 0)
    BY Zenon DEF Moves
  <2>5. /\ m_total' + Cardinality(CallersAt("add"))' =
             Cardinality(live') + Cardinality(CallersAt("decrement"))'
        /\ Cardinality(CallersAt("decrement"))' \in Int
    BY SMTT(30), <1>0, <2>2, <2>3, <2>4, <2>d
  <2> QED
    BY SMTT(30), <2>3, <2>5 DEF TotalExact
<1> QED
  BY Zenon, <1>1, <1>2, <1>4, <1>5 DEF PoolInv

LEMMA EmptyList ==
  ASSUME PoolInv
  PROVE  FirstValid = [ptr |-> NoConn, invalid |-> {}, left |-> <<>>]
<1>1. m_conns = <<>> /\ DOMAIN m_conns = {} /\ Len(m_conns) = 0
  BY SMTT(30) DEF PoolInv, NotTold
<1>2. SubSeq(m_conns, 2, Len(m_conns)) = <<>>
  BY SMTT(30), <1>1
<1> QED
  BY SMTT(30), <1>1, <1>2 DEF FirstValid

LEMMA InitPool == PoolInit => PoolInv
<1> SUFFICES ASSUME PoolInit PROVE PoolInv
  BY Zenon
<1>1. PoolTypeOK
  BY SMTT(30), FS_EmptySet DEF PoolInit, PoolTypeOK, Away, UserAt, Owning
<1>2. NotTold
  BY Zenon DEF PoolInit, NotTold, NewConn, SocketConnect, Closed
<1>3. OwnInv
  BY Zenon DEF PoolInit, OwnInv, Away, Owning
<1>4. CallersAt("add") = {} /\ CallersAt("decrement") = {} /\ Discarded = {}
  BY Zenon DEF PoolInit, CallersAt, Discarded, Away
<1>5. m_total = 0 /\ live = {} /\ Cardinality({}) = 0
  BY Zenon, FS_EmptySet DEF PoolInit
<1>6. TotalExact
  BY SMTT(30), <1>4, <1>5 DEF TotalExact
<1> QED
  BY Zenon, <1>1, <1>2, <1>3, <1>6 DEF PoolInv

\* A caller's record after a step.
LEMMA UserRecords ==
  ASSUME NEW u \in [at : UserAt, ptr : Conn \cup {NoConn}, invalid : {{}}], NEW to, NEW p
  PROVE  /\ [u EXCEPT !.at = to] = [at |-> to, ptr |-> u.ptr, invalid |-> {}]
         /\ [u EXCEPT !.invalid = {}, !.at = to] = [at |-> to, ptr |-> u.ptr, invalid |-> {}]
         /\ [u EXCEPT !.ptr = p, !.at = to] = [at |-> to, ptr |-> p, invalid |-> {}]
<1>1. u = [at |-> u.at, ptr |-> u.ptr, invalid |-> {}]
  BY Zenon
<1>2. [u EXCEPT !.at = to] = [at |-> to, ptr |-> u.ptr, invalid |-> {}]
  BY SMTT(30), <1>1
<1>3. [u EXCEPT !.invalid = {}, !.at = to] = [at |-> to, ptr |-> u.ptr, invalid |-> {}]
  <2>1. [u EXCEPT !.invalid = {}] = u
    BY Zenon, <1>1
  <2> QED
    BY Zenon, <1>2, <2>1
<1>4. [u EXCEPT !.ptr = p, !.at = to] = [at |-> to, ptr |-> p, invalid |-> {}]
  <2> DEFINE v == [u EXCEPT !.ptr = p]
  <2>1. v = [at |-> u.at, ptr |-> p, invalid |-> {}]
    BY SMTT(30), <1>1
  <2> HIDE DEF v
  <2>2. [v EXCEPT !.at = to] = [at |-> to, ptr |-> p, invalid |-> {}]
    BY SMTT(30), <2>1
  <2> QED
    BY Zenon, <2>2 DEF v
<1> QED
  BY Zenon, <1>2, <1>3, <1>4

\* A caller goes on with the connection it has, or with none.
LEMMA CallerGoes ==
  ASSUME PoolInv, NEW c \in Caller, NEW to \in UserAt \ {"add", "decrement", user[c].at},
         user' = [user EXCEPT ![c] = [at |-> to, ptr |-> user[c].ptr, invalid |-> {}]],
         to \in Owning <=> user[c].at \in Owning,
         m_conns' = m_conns, live' = live, conn' = conn,
         m_total' = IF user[c].at = "add" THEN m_total + 1
                    ELSE IF user[c].at = "decrement" THEN m_total - 1 ELSE m_total
  PROVE  PoolInv'
<1>0. /\ m_total \in Int /\ live \subseteq Conn /\ IsFiniteSet(live) /\ Cardinality(live) \in Nat
      /\ user \in [Caller -> [at : UserAt, ptr : Conn \cup {NoConn}, invalid : {{}}]]
      /\ DOMAIN conn = Conn /\ \A k \in Conn : conn[k].sock.m_isConnected = FALSE
  BY Zenon, FS_CardinalityType DEF PoolInv, PoolTypeOK, NotTold
<1>1. \A d \in Caller \ {c} : user[d].at \in Owning => user[d].ptr # user[c].ptr /\ user[d].ptr \in live'
  BY Zenon DEF PoolInv, OwnInv
<1>2. user[c].ptr \in Conn \cup {NoConn} /\ m_total' \in Int
  BY SMTT(30), <1>0
<1>3. IF to \in Owning THEN user[c].ptr \in live' ELSE user[c].ptr = NoConn
  BY Zenon DEF PoolInv, OwnInv
<1>4. m_total' - m_total + (IF to = "add" THEN 1 ELSE 0) - (IF user[c].at = "add" THEN 1 ELSE 0) =
         Cardinality(live') - Cardinality(live)
           + (IF to = "decrement" THEN 1 ELSE 0) - (IF user[c].at = "decrement" THEN 1 ELSE 0)
  BY SMTT(30), <1>0
<1>5. /\ DOMAIN conn' = Conn /\ \A k \in Conn : conn'[k].sock.m_isConnected = FALSE
      /\ live' \subseteq Conn /\ IsFiniteSet(live') /\ to \in UserAt /\ to # user[c].at
  BY Zenon, <1>0
<1>6. Moves(c, to, user[c].ptr)
  BY Zenon, <1>1, <1>2, <1>3, <1>4, <1>5 DEF Moves
<1> QED
  BY Zenon, <1>2, <1>5, <1>6, PoolMove

LEMMA PoolStep == PoolInv /\ [PoolNext]_poolVars => PoolInv'
<1> SUFFICES ASSUME PoolInv, [PoolNext]_poolVars PROVE PoolInv'
  BY Zenon
<1>0. /\ m_total \in Int /\ live \subseteq Conn /\ IsFiniteSet(live) /\ Cardinality(live) \in Nat
      /\ user \in [Caller -> [at : UserAt, ptr : Conn \cup {NoConn}, invalid : {{}}]]
      /\ DOMAIN conn = Conn /\ m_conns = <<>> /\ NoConn \notin Conn
      /\ \A k \in Conn : conn[k].sock.m_isConnected = FALSE
  BY Zenon, PoolAssumption, FS_CardinalityType DEF PoolInv, PoolTypeOK, NotTold
<1>1. \A c \in Caller : IF user[c].at \in Owning THEN user[c].ptr \in live ELSE user[c].ptr = NoConn
  BY Zenon DEF PoolInv, OwnInv
<1>2. \A c, d \in Caller : user[c].at \in Owning /\ user[c].ptr = user[d].ptr => c = d
  BY Zenon DEF PoolInv, OwnInv
<1>3. NewConn.sock.m_isConnected = FALSE
  BY Zenon DEF NewConn, SocketConnect, Closed
<1>4. \A at \in Owning : at \in UserAt
  BY Zenon DEF UserAt
<1>5. \A c \in Caller : \A to, p :
        /\ [user[c] EXCEPT !.at = to] = [at |-> to, ptr |-> user[c].ptr, invalid |-> {}]
        /\ [user[c] EXCEPT !.invalid = {}, !.at = to] = [at |-> to, ptr |-> user[c].ptr, invalid |-> {}]
        /\ [user[c] EXCEPT !.ptr = p, !.at = to] = [at |-> to, ptr |-> p, invalid |-> {}]
  BY Zenon, <1>0, UserRecords
<1>6. Away = [at |-> "idle", ptr |-> NoConn, invalid |-> {}]
  BY Zenon DEF Away
<1>7. ASSUME NEW c \in Caller, getConnection(c) PROVE PoolInv'
  <2>1. user[c].at = "idle" /\ "delete" \in UserAt \ {"add", "decrement", user[c].at}
        /\ ("delete" \in Owning <=> user[c].at \in Owning) /\ user[c].ptr = NoConn
    BY Zenon, <1>1, <1>7 DEF getConnection, UserAt, Owning
  <2>0. FirstValid.ptr = NoConn /\ FirstValid.invalid = {} /\ FirstValid.left = <<>>
    BY SMTT(30), EmptyList
  <2>2. /\ user' = [user EXCEPT ![c] = [at |-> "delete", ptr |-> user[c].ptr, invalid |-> {}]]
        /\ m_conns' = m_conns /\ m_total' = m_total /\ live' = live /\ conn' = conn
    BY Zenon, <1>0, <1>7, <2>0, <2>1 DEF getConnection
  <2> QED
    BY Zenon, <2>1, <2>2, CallerGoes
<1>8. ASSUME NEW c \in Caller, DeleteInvalid(c) PROVE PoolInv'
  <2>1. user[c].at = "delete" /\ "subtract" \in UserAt \ {"add", "decrement", user[c].at}
        /\ ("subtract" \in Owning <=> user[c].at \in Owning)
    BY Zenon, <1>8 DEF DeleteInvalid, UserAt, Owning
  <2>2. live \ user[c].invalid = live
    BY Zenon, <1>0
  <2>3. /\ user' = [user EXCEPT ![c] = [at |-> "subtract", ptr |-> user[c].ptr, invalid |-> {}]]
        /\ m_conns' = m_conns /\ m_total' = m_total /\ live' = live /\ conn' = conn
    BY Zenon, <1>5, <1>8, <2>2 DEF DeleteInvalid, To
  <2> QED
    BY Zenon, <2>1, <2>3, CallerGoes
<1>9. ASSUME NEW c \in Caller, SubtractInvalid(c) PROVE PoolInv'
  <2>1. user[c].at = "subtract" /\ "connect" \in UserAt \ {"add", "decrement", user[c].at}
        /\ ("connect" \in Owning <=> user[c].at \in Owning) /\ Ptr(c) = NoConn
    BY Zenon, <1>1, <1>9 DEF SubtractInvalid, UserAt, Owning, Ptr
  <2>2. m_total - Cardinality(user[c].invalid) = m_total
    <3>1. user[c].invalid = {} /\ Cardinality({}) = 0
      BY Zenon, <1>0, FS_EmptySet
    <3> QED
      BY SMTT(30), <1>0, <3>1
  <2>3. /\ user' = [user EXCEPT ![c] = [at |-> "connect", ptr |-> user[c].ptr, invalid |-> {}]]
        /\ m_conns' = m_conns /\ m_total' = m_total /\ live' = live /\ conn' = conn
    BY Zenon, <1>5, <1>9, <2>1, <2>2 DEF SubtractInvalid
  <2> QED
    BY Zenon, <2>1, <2>3, CallerGoes
<1>10. ASSUME NEW c \in Caller, Connect(c) PROVE PoolInv'
  <2>1. PICK k \in Conn \ live :
               /\ live' = live \cup {k}
               /\ conn' = [conn EXCEPT ![k] = NewConn]
               /\ user' = [user EXCEPT ![c] = [@ EXCEPT !.ptr = k, !.at = "add"]]
    BY Zenon, <1>10 DEF Connect
  <2>2. user[c].at = "connect" /\ UNCHANGED <<m_conns, m_total>>
    BY Zenon, <1>10 DEF Connect
  <2>3. user' = [user EXCEPT ![c] = [at |-> "add", ptr |-> k, invalid |-> {}]]
    <3>1. [user[c] EXCEPT !.ptr = k, !.at = "add"] = [at |-> "add", ptr |-> k, invalid |-> {}]
      BY Zenon, <1>5
    <3> QED
      BY Zenon, <2>1, <3>1
  <2>4. IsFiniteSet(live') /\ Cardinality(live') = Cardinality(live) + 1 /\ live' \subseteq Conn
    BY Zenon, <1>0, <2>1, FS_AddElement
  <2>5. DOMAIN conn' = Conn /\ \A j \in Conn : conn'[j].sock.m_isConnected = FALSE
    BY Zenon, <1>0, <1>3, <2>1
  <2>6. \A d \in Caller \ {c} : user[d].at \in Owning => user[d].ptr # k /\ user[d].ptr \in live'
    BY Zenon, <1>1, <2>1
  <2>7. k \in live' /\ k \in Conn \cup {NoConn}
    BY Zenon, <2>1
  <2>8. "add" \in UserAt /\ "add" \in Owning /\ "add" # user[c].at
    BY Zenon, <2>2 DEF UserAt, Owning
  <2>9. m_total' - m_total + (IF "add" = "add" THEN 1 ELSE 0) - (IF user[c].at = "add" THEN 1 ELSE 0) =
           Cardinality(live') - Cardinality(live)
             + (IF "add" = "decrement" THEN 1 ELSE 0) - (IF user[c].at = "decrement" THEN 1 ELSE 0)
    BY SMTT(30), <1>0, <2>2, <2>4
  <2>10. Moves(c, "add", k)
    BY Zenon, <1>0, <2>2, <2>3, <2>4, <2>5, <2>6, <2>7, <2>8, <2>9 DEF Moves
  <2> QED
    BY Zenon, <2>7, <2>8, <2>10, PoolMove
<1>11. ASSUME NEW c \in Caller, ConnectFails(c) PROVE PoolInv'
  <2>1. user[c].at = "connect" /\ "idle" \in UserAt \ {"add", "decrement", user[c].at}
        /\ ("idle" \in Owning <=> user[c].at \in Owning) /\ user[c].ptr = NoConn
    BY Zenon, <1>1, <1>11 DEF ConnectFails, UserAt, Owning
  <2>2. /\ user' = [user EXCEPT ![c] = [at |-> "idle", ptr |-> user[c].ptr, invalid |-> {}]]
        /\ m_conns' = m_conns /\ m_total' = m_total /\ live' = live /\ conn' = conn
    BY Zenon, <1>6, <1>11, <2>1 DEF ConnectFails
  <2> QED
    BY Zenon, <2>1, <2>2, CallerGoes
<1>12. ASSUME NEW c \in Caller, AddTotal(c) PROVE PoolInv'
  <2>1. user[c].at = "add" /\ "use" \in UserAt \ {"add", "decrement", user[c].at}
        /\ ("use" \in Owning <=> user[c].at \in Owning)
    BY Zenon, <1>12 DEF AddTotal, UserAt, Owning
  <2>2. /\ user' = [user EXCEPT ![c] = [at |-> "use", ptr |-> user[c].ptr, invalid |-> {}]]
        /\ m_conns' = m_conns /\ m_total' = m_total + 1 /\ live' = live /\ conn' = conn
    BY Zenon, <1>5, <1>12 DEF AddTotal, To
  <2> QED
    BY Zenon, <2>1, <2>2, CallerGoes
<1>13. ASSUME NEW c \in Caller, sendRequest(c) PROVE PoolInv'
  <2>1. user[c].at = "use" /\ "release" \in UserAt \ {"add", "decrement", user[c].at}
        /\ ("release" \in Owning <=> user[c].at \in Owning)
    BY Zenon, <1>13 DEF sendRequest, UserAt, Owning
  <2>2. /\ user' = [user EXCEPT ![c] = [at |-> "release", ptr |-> user[c].ptr, invalid |-> {}]]
        /\ m_conns' = m_conns /\ m_total' = m_total /\ live' = live /\ conn' = conn
    BY Zenon, <1>5, <1>13 DEF sendRequest, To
  <2> QED
    BY Zenon, <2>1, <2>2, CallerGoes
<1>14. ASSUME UNCHANGED <<m_conns, m_total, live, user>>, DOMAIN conn' = Conn,
              \A k \in Conn : conn'[k].sock.m_isConnected = FALSE
       PROVE  PoolInv'
  BY <1>14 DEF PoolInv, PoolTypeOK, NotTold, OwnInv, TotalExact, CallersAt, Discarded
<1>15. ASSUME NEW c \in Caller, CloseStream(c) PROVE PoolInv'
  <2>1. Ptr(c) \in Conn
    BY Zenon, <1>0, <1>1, <1>15 DEF CloseStream, Owning, Ptr
  <2>2. /\ UNCHANGED <<m_conns, m_total, live, user>>
        /\ conn' = [conn EXCEPT ![Ptr(c)] = [@ EXCEPT !.sock = SocketClose(conn[Ptr(c)].sock)]]
    BY Zenon, <1>15 DEF CloseStream
  <2>3. ASSUME NEW k \in Conn PROVE conn'[k].sock.m_isConnected = FALSE
    <3>1. CASE k # Ptr(c)
      BY Zenon, <1>0, <2>2, <3>1
    <3>2. CASE k = Ptr(c)
      <4> DEFINE v == SocketClose(conn[k].sock)
      <4>1. v.m_isConnected = FALSE
        BY SMTT(30), <1>0 DEF SocketClose
      <4> HIDE DEF v
      <4>2. conn'[k] = [conn[k] EXCEPT !.sock = v]
        BY Zenon, <1>0, <2>1, <2>2, <3>2 DEF v
      <4> QED
        BY SMTT(30), <1>0, <4>1, <4>2
    <3> QED
      BY Zenon, <3>1, <3>2
  <2> QED
    BY Zenon, <1>0, <1>14, <2>2, <2>3
<1>16. ASSUME NEW c \in Caller, ReleasePtr(c) PROVE PoolInv'
  <2>0. user[c].at = "release" /\ Ptr(c) = user[c].ptr /\ user[c].ptr \in live
    BY Zenon, <1>1, <1>16 DEF ReleasePtr, Owning, Ptr
  <2>1. Unfit(Ptr(c))
    BY Zenon, <1>0, <2>0 DEF Unfit, isConnected
  <2>2. /\ conn' = [conn EXCEPT ![Ptr(c)] = NewConn]
        /\ live' = live \ {Ptr(c)}
        /\ user' = [user EXCEPT ![c] = [@ EXCEPT !.ptr = NoConn, !.at = "decrement"]]
        /\ m_conns' = m_conns /\ m_total' = m_total
    BY Zenon, <1>16, <2>1 DEF ReleasePtr
  <2>3. user' = [user EXCEPT ![c] = [at |-> "decrement", ptr |-> NoConn, invalid |-> {}]]
    <3>1. [user[c] EXCEPT !.ptr = NoConn, !.at = "decrement"]
            = [at |-> "decrement", ptr |-> NoConn, invalid |-> {}]
      BY Zenon, <1>5
    <3> QED
      BY Zenon, <2>2, <3>1
  <2>4. IsFiniteSet(live') /\ Cardinality(live') = Cardinality(live) - 1 /\ live' \subseteq Conn
    BY SMTT(30), <1>0, <2>0, <2>2, FS_RemoveElement
  <2>5. DOMAIN conn' = Conn /\ \A j \in Conn : conn'[j].sock.m_isConnected = FALSE
    BY Zenon, <1>0, <1>3, <2>2
  <2>6. \A d \in Caller \ {c} :
          user[d].at \in Owning => user[d].ptr # NoConn /\ user[d].ptr \in live'
    BY Zenon, <1>0, <1>1, <1>2, <2>0, <2>2
  <2>7. "decrement" \in UserAt /\ "decrement" \notin Owning /\ "decrement" # user[c].at
    BY Zenon, <2>0 DEF UserAt, Owning
  <2>8. m_total' - m_total + (IF "decrement" = "add" THEN 1 ELSE 0)
            - (IF user[c].at = "add" THEN 1 ELSE 0) =
           Cardinality(live') - Cardinality(live)
             + (IF "decrement" = "decrement" THEN 1 ELSE 0)
             - (IF user[c].at = "decrement" THEN 1 ELSE 0)
    BY SMTT(30), <1>0, <2>0, <2>2, <2>4
  <2>9. NoConn \in Conn \cup {NoConn}
    BY Zenon
  <2>10. Moves(c, "decrement", NoConn)
    BY Zenon, <1>0, <2>2, <2>3, <2>4, <2>5, <2>6, <2>7, <2>8 DEF Moves
  <2> QED
    BY Zenon, <2>7, <2>9, <2>10, PoolMove
<1>17. ASSUME NEW c \in Caller, DecrementTotal(c) PROVE PoolInv'
  <2>1. user[c].at = "decrement" /\ "idle" \in UserAt \ {"add", "decrement", user[c].at}
        /\ ("idle" \in Owning <=> user[c].at \in Owning) /\ user[c].ptr = NoConn
    BY Zenon, <1>1, <1>17 DEF DecrementTotal, UserAt, Owning
  <2>2. /\ user' = [user EXCEPT ![c] = [at |-> "idle", ptr |-> user[c].ptr, invalid |-> {}]]
        /\ m_conns' = m_conns /\ m_total' = m_total - 1 /\ live' = live /\ conn' = conn
    BY Zenon, <1>6, <1>17, <2>1 DEF DecrementTotal
  <2> QED
    BY Zenon, <2>1, <2>2, CallerGoes
<1>18. CASE UNCHANGED poolVars
  BY Zenon, <1>0, <1>14, <1>18 DEF poolVars
<1> QED
  BY Zenon, <1>7, <1>8, <1>9, <1>10, <1>11, <1>12, <1>13, <1>15, <1>16, <1>17, <1>18 DEF PoolNext

\* m_total counts the connections exactly, but for those a caller has made or
\* deleted and not yet counted, although it is changed outside the mutex: whatever
\* the callers, none of their updates is lost.
THEOREM TotalCounted == PoolSpec => []TotalExact
<1>1. PoolInv => TotalExact
  BY Zenon DEF PoolInv
<1> QED
  BY <1>1, InitPool, PoolStep, PTL DEF PoolSpec

-----------------------------------------------------------------------------
(***************************************************************************)
(* IOEvents: the waits for events are exact and counted, for any number of *)
(* descriptors, fibers and pollers, and however often the table grows and  *)
(* shrinks.                                                                *)
(***************************************************************************)
RW == {"READ", "WRITE"}
Request == {Idle} \cup
  [op : {"add", "grow", "waiting", "del", "cancel", "cancelAll"}, ctx : Ctx, event : RW]

\* The kernel and the batches refer to contexts only, and what is on the ready
\* list is registered.
KernelInv ==
  /\ epoll \in [Fd -> [ctx : Ctx, mask : SUBSET Kernel] \cup {NotRegistered}]
  /\ level \in [Fd -> SUBSET Kernel]
  /\ rdlist \subseteq Fd
  /\ batch \in [Poller -> SUBSET [ctx : Ctx, mask : SUBSET Kernel]]
  /\ \A fd \in rdlist : epoll[fd] # NotRegistered

WaitType ==
  /\ table \in [Fd -> 0..MaxGen]
  /\ events \in [Ctx -> SUBSET RW]
  /\ waiter \in [Ctx -> [RW -> Fiber \cup {None}]]
  /\ req \in [Fiber -> Request]

\* A fiber is after (or has) a wait for an event of a descriptor.
Wants(f) == req[f].op \in {"add", "grow", "waiting"}

\* No two fibers want the same event of a descriptor.
OneEach ==
  \A f, g \in Fiber : Wants(f) /\ Wants(g) /\ req[f].ctx[1] = req[g].ctx[1] /\ req[f].event = req[g].event
                        => f = g

WaitsFor(f, c, e) ==
  f \in Fiber /\ req[f].op = "waiting" /\ req[f].ctx = c /\ req[f].event = e

\* The waits and the EventContexts refer to each other.
Linked ==
  /\ \A f \in Fiber : req[f].op = "waiting" =>
       req[f].event \in events[req[f].ctx] /\ waiter[req[f].ctx][req[f].event] = f
  /\ \A c \in Ctx, e \in RW : e \in events[c] => WaitsFor(waiter[c][e], c, e)
  /\ \A c \in Ctx, e \in RW : e \notin events[c] => waiter[c][e] = None

WaitInv == WaitType /\ OneEach /\ Linked /\ PendingExact

IInv == KernelInv /\ WaitInv /\ failed \subseteq {"trigger_not_registered"}

Waits == {s \in Slots : s[2] \in events[s[1]]}

\* There are two events.
LEMMA TwoEvents == IsFiniteSet(RW) /\ Cardinality(RW) = 2
<1>1. IsFiniteSet({"READ"}) /\ Cardinality({"READ"}) = 1
  BY Zenon, FS_Singleton
<1>2. RW = {"READ"} \cup {"WRITE"} /\ "WRITE" \notin {"READ"}
  BY Zenon DEF RW
<1> QED
  BY SMTT(30), <1>1, <1>2, FS_AddElement

\* There are finitely many EventContexts.
LEMMA SlotsFinite == IsFiniteSet(Slots)
<1>1. IsFiniteSet(0..MaxGen)
  BY SMTT(30), FS_Interval, IOEventsAssumption
<1>2. IsFiniteSet(Ctx)
  BY Zenon, <1>1, FS_Product, IOEventsAssumption DEF Ctx
<1> QED
  BY Zenon, <1>2, TwoEvents, FS_Product DEF Slots, RW

LEMMA WaitsFinite == IsFiniteSet(Waits) /\ Cardinality(Waits) \in Nat
<1>1. IsFiniteSet(Waits)
  BY Zenon, SlotsFinite, FS_Subset DEF Waits
<1> QED
  BY Zenon, <1>1, FS_CardinalityType

\* One event less in a context is one wait less.
LEMMA OneLess ==
  ASSUME NEW S \in SUBSET Slots, NEW s \in S
  PROVE  Cardinality(S \ {s}) = Cardinality(S) - 1 /\ Cardinality(S) \in Nat
<1>1. IsFiniteSet(S)
  BY Zenon, SlotsFinite, FS_Subset
<1> QED
  BY Zenon, <1>1, FS_RemoveElement, FS_CardinalityType

\* triggerEvent() ends the waits for E: so many waits less.
LEMMA Fewer ==
  ASSUME WaitType, NEW c \in Ctx, NEW E \in SUBSET RW, E \subseteq events[c],
         events' = [events EXCEPT ![c] = events[c] \ E]
  PROVE  Cardinality(Waits') = Cardinality(Waits) - Cardinality(E)
<1>1. Waits' = Waits \ {<<c, e>> : e \in E}
  BY SMTT(30) DEF Waits, Slots, WaitType, RW
<1>2. Waits \in SUBSET Slots
  BY Zenon DEF Waits
<1>3. \A e \in E : <<c, e>> \in Waits
  BY Zenon DEF Waits, Slots, RW
<1>4. Cardinality(Waits) \in Nat
  BY Zenon, WaitsFinite
<1>5. CASE E = {}
  <2>1. Waits' = Waits
    BY Zenon, <1>1, <1>5
  <2> QED
    BY SMTT(30), <2>1, <1>4, <1>5, FS_EmptySet
<1>6. ASSUME NEW e \in RW, E = {e} PROVE Cardinality(Waits') = Cardinality(Waits) - Cardinality(E)
  <2>1. Waits' = Waits \ {<<c, e>>}
    BY Zenon, <1>1, <1>6
  <2>2. Cardinality(E) = 1
    BY Zenon, <1>6, FS_Singleton
  <2> QED
    BY Zenon, <2>1, <2>2, <1>2, <1>3, <1>6, OneLess
<1>7. CASE E = RW
  <2> DEFINE R == <<c, "READ">>
             W == <<c, "WRITE">>
  <2>1. Waits' = (Waits \ {R}) \ {W}
    BY Zenon, <1>1, <1>7 DEF RW
  <2>2. R \in Waits /\ W \in Waits \ {R}
    BY Zenon, <1>3, <1>7 DEF RW
  <2>3. Cardinality(E) = 2
    BY Zenon, <1>7, TwoEvents
  <2>4. Cardinality(Waits \ {R}) = Cardinality(Waits) - 1
    BY Zenon, <1>2, <2>2, OneLess
  <2>5. Waits \ {R} \in SUBSET Slots
    BY Zenon, <1>2
  <2>6. Cardinality((Waits \ {R}) \ {W}) = Cardinality(Waits \ {R}) - 1
    BY Zenon, <2>5, <2>2, OneLess
  <2> QED
    BY SMTT(30), <2>1, <2>3, <2>4, <2>6, <1>4
<1> QED
  BY Zenon, <1>5, <1>6, <1>7 DEF RW

-----------------------------------------------------------------------------
(* What the operations do to the waits *)

\* Nothing changes for the waits.
LEMMA SameStep ==
  ASSUME WaitInv, UNCHANGED <<table, contexts, req>>
  PROVE  WaitInv'
<1>1. WaitType'
  BY Zenon DEF WaitInv, WaitType, contexts
<1>2. OneEach'
  BY Zenon DEF WaitInv, OneEach, Wants
<1>3. Linked'
  BY SMTT(30) DEF WaitInv, Linked, WaitsFor, contexts
<1>4. PendingExact'
  BY Zenon DEF WaitInv, PendingExact, contexts
<1> QED
  BY Zenon, <1>1, <1>2, <1>3, <1>4 DEF WaitInv

\* A request that is made, given up or moved on, when no wait begins or ends.
LEMMA RequestStep ==
  ASSUME WaitInv, UNCHANGED contexts, NEW f \in Fiber, NEW r \in Request,
         req[f].op # "waiting", r.op # "waiting", req' = [req EXCEPT ![f] = r],
         table' \in [Fd -> 0..MaxGen],
         r.op \in {"add", "grow"} =>
           \A g \in Fiber \ {f} : Wants(g) => req[g].ctx[1] # r.ctx[1] \/ req[g].event # r.event
  PROVE  WaitInv'
<1>1. WaitType'
  BY Zenon DEF WaitInv, WaitType, contexts
<1>2. OneEach'
  BY Zenon DEF WaitInv, WaitType, OneEach, Wants
<1>3. Linked'
  <2>1. ASSUME NEW g \in Fiber, req'[g].op = "waiting"
        PROVE  g # f /\ req'[g] = req[g]
    BY Zenon, <2>1 DEF WaitInv, WaitType
  <2>2. \A g \in Fiber : req'[g].op = "waiting" =>
          req'[g].event \in events'[req'[g].ctx] /\ waiter'[req'[g].ctx][req'[g].event] = g
    BY Zenon, <2>1 DEF WaitInv, Linked, contexts
  <2>3. ASSUME NEW c \in Ctx, NEW e \in RW
        PROVE  /\ e \in events'[c] => WaitsFor(waiter[c][e], c, e)'
               /\ e \notin events'[c] => waiter'[c][e] = None
    <3>1. CASE e \in events[c]
      <4>1. WaitsFor(waiter[c][e], c, e)
        BY Zenon, <3>1 DEF WaitInv, Linked
      <4>2. waiter[c][e] # f
        BY Zenon, <4>1 DEF WaitsFor
      <4> QED
        BY Zenon, <3>1, <4>1, <4>2 DEF contexts, WaitInv, WaitType, WaitsFor
    <3>2. CASE e \notin events[c]
      <4>1. waiter[c][e] = None
        BY Zenon, <3>2 DEF WaitInv, Linked
      <4> QED
        BY Zenon, <3>2, <4>1 DEF contexts
    <3> QED
      BY Zenon, <3>1, <3>2
  <2> QED
    BY Zenon, <2>2, <2>3 DEF Linked
<1>4. PendingExact'
  BY Zenon DEF WaitInv, PendingExact, contexts
<1> QED
  BY Zenon, <1>1, <1>2, <1>3, <1>4 DEF WaitInv

\* addEvent() begins a wait for e in c.
LEMMA BeginStep ==
  ASSUME WaitInv, NEW f \in Fiber, NEW c \in Ctx, NEW e \in RW,
         req[f] = [op |-> "add", ctx |-> c, event |-> e],
         m_pendingEventCount' = m_pendingEventCount + 1,
         events' = [events EXCEPT ![c] = @ \cup {e}],
         waiter' = [waiter EXCEPT ![c] = [@ EXCEPT ![e] = f]],
         req' = [req EXCEPT ![f] = [op |-> "waiting", ctx |-> c, event |-> e]],
         table' = table
  PROVE  WaitInv' /\ e \notin events[c] /\ waiter[c][e] = None
<1>1. e \notin events[c]
  <2> SUFFICES ASSUME e \in events[c] PROVE FALSE
    BY Zenon
  <2>1. WaitsFor(waiter[c][e], c, e)
    BY Zenon DEF WaitInv, Linked
  <2>2. waiter[c][e] = f
    BY SMTT(30), <2>1 DEF WaitInv, OneEach, Wants, WaitsFor
  <2> QED
    BY SMTT(30), <2>1, <2>2 DEF WaitsFor
<1>2. waiter[c][e] = None
  BY Zenon, <1>1 DEF WaitInv, Linked
<1>3. WaitType'
  <2>1. [op |-> "waiting", ctx |-> c, event |-> e] \in Request
    BY Zenon DEF Request
  <2>2. [waiter[c] EXCEPT ![e] = f] \in [RW -> Fiber \cup {None}]
    BY Zenon DEF WaitInv, WaitType
  <2> QED
    BY Zenon, <2>1, <2>2 DEF WaitInv, WaitType
<1>4. OneEach'
  BY SMTT(30) DEF WaitInv, WaitType, OneEach, Wants
<1>5. Linked'
  <2>1. ASSUME NEW g \in Fiber, req'[g].op = "waiting"
        PROVE  req'[g].event \in events'[req'[g].ctx] /\ waiter'[req'[g].ctx][req'[g].event] = g
    <3>1. CASE g = f
      BY Zenon, <3>1 DEF WaitInv, WaitType
    <3>2. CASE g # f
      <4>1. req'[g] = req[g]
        BY Zenon, <3>2 DEF WaitInv, WaitType
      <4>2. req[g].ctx \in Ctx /\ req[g].event \in RW
        BY SMTT(30), <2>1, <4>1 DEF WaitInv, WaitType, Request, Idle
      <4>3. req[g].event \in events[req[g].ctx] /\ waiter[req[g].ctx][req[g].event] = g
        BY Zenon, <2>1, <4>1 DEF WaitInv, Linked
      <4>4. req[g].ctx # c \/ req[g].event # e
        BY Zenon, <4>3, <1>1
      <4> QED
        BY Zenon, <4>1, <4>2, <4>3, <4>4 DEF WaitInv, WaitType
    <3> QED
      BY Zenon, <3>1, <3>2
  <2>2. ASSUME NEW d \in Ctx, NEW x \in RW
        PROVE  /\ x \in events'[d] => WaitsFor(waiter[d][x], d, x)'
               /\ x \notin events'[d] => waiter'[d][x] = None
    <3>1. CASE d = c /\ x = e
      BY Zenon, <3>1 DEF WaitInv, WaitType, WaitsFor
    <3>2. CASE ~(d = c /\ x = e)
      <4>1. (x \in events'[d] <=> x \in events[d]) /\ waiter'[d][x] = waiter[d][x]
        BY Zenon, <3>2 DEF WaitInv, WaitType
      <4>2. CASE x \in events[d]
        <5>1. WaitsFor(waiter[d][x], d, x)
          BY Zenon, <4>2 DEF WaitInv, Linked
        <5>2. waiter[d][x] # f
          BY SMTT(30), <5>1 DEF WaitsFor
        <5> QED
          BY Zenon, <4>1, <4>2, <5>1, <5>2 DEF WaitInv, WaitType, WaitsFor
      <4>3. CASE x \notin events[d]
        <5>1. waiter[d][x] = None
          BY Zenon, <4>3 DEF WaitInv, Linked
        <5> QED
          BY Zenon, <4>1, <4>3, <5>1
      <4> QED
        BY Zenon, <4>2, <4>3
    <3> QED
      BY Zenon, <3>1, <3>2
  <2> QED
    BY Zenon, <2>1, <2>2 DEF Linked
<1>6. PendingExact'
  <2>1. Waits' = Waits \cup {<<c, e>>} /\ <<c, e>> \notin Waits
    BY SMTT(30), <1>1 DEF Waits, Slots, WaitInv, WaitType, RW
  <2>2. Cardinality(Waits') = Cardinality(Waits) + 1
    BY Zenon, <2>1, WaitsFinite, FS_AddElement
  <2> QED
    BY Zenon, <2>2 DEF WaitInv, PendingExact, Waits
<1> QED
  BY Zenon, <1>1, <1>2, <1>3, <1>4, <1>5, <1>6 DEF WaitInv

\* A trigger, a cancellation or a deletion ends the waits for E in c.
LEMMA EndStep ==
  ASSUME WaitInv, NEW c \in Ctx, NEW E \in SUBSET RW, E \subseteq events[c],
         NEW others \in SUBSET Fiber, \A f \in others : req[f].op # "waiting",
         events' = [events EXCEPT ![c] = @ \ E],
         waiter' = [waiter EXCEPT ![c] = [e \in RW |-> IF e \in E THEN None ELSE @[e]]],
         m_pendingEventCount' = m_pendingEventCount - Cardinality(E),
         req' = [f \in Fiber |-> IF f \in {waiter[c][e] : e \in E} \cup others THEN Idle ELSE req[f]],
         table' = table
  PROVE  WaitInv'
<1>1. WaitType'
  BY Zenon DEF WaitInv, WaitType, Request
<1>2. OneEach'
  BY Zenon DEF WaitInv, WaitType, OneEach, Wants, Idle
<1>3. Linked'
  <2>1. ASSUME NEW g \in Fiber, req'[g].op = "waiting"
        PROVE  req'[g].event \in events'[req'[g].ctx] /\ waiter'[req'[g].ctx][req'[g].event] = g
    <3>1. req'[g] = req[g] /\ \A e \in E : g # waiter[c][e]
      BY Zenon, <2>1 DEF Idle
    <3>2. req[g].ctx \in Ctx /\ req[g].event \in RW
      BY SMTT(30), <2>1, <3>1 DEF WaitInv, WaitType, Request, Idle
    <3>3. req[g].event \in events[req[g].ctx] /\ waiter[req[g].ctx][req[g].event] = g
      BY Zenon, <2>1, <3>1 DEF WaitInv, Linked
    <3>4. req[g].ctx # c \/ req[g].event \notin E
      BY Zenon, <3>1, <3>3
    <3> QED
      BY Zenon, <3>1, <3>2, <3>3, <3>4 DEF WaitInv, WaitType
  <2>2. ASSUME NEW d \in Ctx, NEW x \in RW
        PROVE  /\ x \in events'[d] => WaitsFor(waiter[d][x], d, x)'
               /\ x \notin events'[d] => waiter'[d][x] = None
    <3>1. CASE d = c /\ x \in E
      BY Zenon, <3>1 DEF WaitInv, WaitType
    <3>2. CASE ~(d = c /\ x \in E)
      <4>1. (x \in events'[d] <=> x \in events[d]) /\ waiter'[d][x] = waiter[d][x]
        BY Zenon, <3>2 DEF WaitInv, WaitType
      <4>2. CASE x \in events[d]
        <5>1. WaitsFor(waiter[d][x], d, x)
          BY Zenon, <4>2 DEF WaitInv, Linked
        <5>2. \A e \in E : WaitsFor(waiter[c][e], c, e)
          BY Zenon DEF WaitInv, Linked
        <5>3. waiter[d][x] \notin {waiter[c][e] : e \in E} \cup others
          <6>1. waiter[d][x] \notin others
            BY Zenon, <5>1 DEF WaitsFor
          <6>2. ASSUME NEW e \in E, waiter[d][x] = waiter[c][e] PROVE FALSE
            BY SMTT(30), <5>1, <5>2, <6>2, <3>2 DEF WaitsFor
          <6> QED
            BY Zenon, <6>1, <6>2
        <5> QED
          BY Zenon, <4>1, <4>2, <5>1, <5>3 DEF WaitsFor
      <4>3. CASE x \notin events[d]
        <5>1. waiter[d][x] = None
          BY Zenon, <4>3 DEF WaitInv, Linked
        <5> QED
          BY Zenon, <4>1, <4>3, <5>1
      <4> QED
        BY Zenon, <4>2, <4>3
    <3> QED
      BY Zenon, <3>1, <3>2
  <2> QED
    BY Zenon, <2>1, <2>2 DEF Linked
<1>4. PendingExact'
  BY Zenon, Fewer DEF WaitInv, PendingExact, Waits
<1> QED
  BY Zenon, <1>1, <1>2, <1>3, <1>4 DEF WaitInv

\* triggerEvent() as the operations and idle() call it.
LEMMA TriggerStep ==
  ASSUME WaitInv, NEW c \in Ctx, NEW E \in SUBSET Kernel,
         NEW others \in SUBSET Fiber, \A f \in others : req[f].op # "waiting",
         triggerEvent(c, E, others), table' = table, failed = {}
  PROVE  WaitInv' /\ failed' \subseteq {"trigger_not_registered"}
<1>1. CASE E \subseteq events[c]
  <2>1. E \in SUBSET RW /\ DOMAIN waiter[c] = RW
    BY Zenon, <1>1 DEF WaitInv, WaitType
  <2>2. /\ events' = [events EXCEPT ![c] = @ \ E]
        /\ waiter' = [waiter EXCEPT ![c] = [e \in RW |-> IF e \in E THEN None ELSE @[e]]]
        /\ m_pendingEventCount' = m_pendingEventCount - Cardinality(E)
        /\ req' = [f \in Fiber |-> IF f \in {waiter[c][e] : e \in E} \cup others THEN Idle ELSE req[f]]
        /\ failed' = failed
    BY Zenon, <1>1, <2>1 DEF triggerEvent
  <2>3. WaitInv'
    BY Zenon, <1>1, <2>1, <2>2, EndStep
  <2> QED
    BY Zenon, <2>2, <2>3
<1>2. CASE ~(E \subseteq events[c])
  <2>1. UNCHANGED <<contexts, req>> /\ failed' = {"trigger_not_registered"}
    BY Zenon, <1>2 DEF triggerEvent
  <2> QED
    BY Zenon, <2>1, SameStep
<1> QED
  BY Zenon, <1>1, <1>2

\* An operation that returns without an effect on the waits.
LEMMA ReturnStep ==
  ASSUME WaitInv, NEW f \in Fiber, req[f].op # "waiting", Return(f), table' = table
  PROVE  WaitInv' /\ failed' = failed /\ UNCHANGED <<epoll, rdlist>>
<1>1. Idle \in Request /\ Idle.op = "none"
  BY Zenon DEF Request, Idle
<1>2. UNCHANGED contexts /\ req' = [req EXCEPT ![f] = Idle]
  BY Zenon DEF Return
<1>3. table' \in [Fd -> 0..MaxGen]
  BY Zenon DEF WaitInv, WaitType
<1>4. WaitInv'
  BY Zenon, <1>1, <1>2, <1>3, RequestStep
<1> QED
  BY Zenon, <1>4 DEF Return

\* epoll_ctl() with a context of the manager.
Controls(c, mask) == (mask # {} /\ Register(c, mask)) \/ Deregister(c) \/ Reduce(c, mask)
LEMMA ControlStep ==
  ASSUME KernelInv, NEW c \in Ctx, NEW mask \in SUBSET RW, Controls(c, mask), level' = level,
         batch' \in [Poller -> SUBSET [ctx : Ctx, mask : SUBSET Kernel]]
  PROVE  KernelInv'
<1>1. c[1] \in Fd /\ RW \subseteq Kernel
  BY Zenon DEF Ctx, RW, Kernel
<1>2. [ctx |-> c, mask |-> mask] \in [ctx : Ctx, mask : SUBSET Kernel]
  BY Zenon, <1>1
<1>3. mask # {} => [ctx |-> c, mask |-> mask] # NotRegistered
  BY Zenon DEF NotRegistered
<1>4. CASE mask # {} /\ Register(c, mask)
  BY Zenon, <1>1, <1>2, <1>3, <1>4 DEF KernelInv, Register
<1>5. CASE Deregister(c)
  BY Zenon, <1>1, <1>5 DEF KernelInv, Deregister
<1> QED
  BY Zenon, <1>4, <1>5 DEF Controls, Reduce

-----------------------------------------------------------------------------
(* The invariant *)

LEMMA InitIInv == Init => IInv
<1> SUFFICES ASSUME Init PROVE IInv
  OBVIOUS
<1>1. KernelInv
  BY Zenon DEF Init, KernelInv
<1>2. WaitType /\ OneEach /\ Linked
  BY SMTT(30), IOEventsAssumption DEF Init, WaitType, OneEach, Wants, Linked, WaitsFor, Request, Idle, RW
<1>3. PendingExact
  <2>1. {s \in Slots : s[2] \in events[s[1]]} = {}
    BY Zenon DEF Init, Slots
  <2> QED
    BY Zenon, <2>1, FS_EmptySet DEF Init, PendingExact
<1> QED
  BY Zenon, <1>1, <1>2, <1>3 DEF Init, IInv, WaitInv

\* The steps of the kernel and its users, and epoll_wait().
LEMMA KernelSteps ==
  ASSUME KernelInv,
         \/ \E fd \in Fd, e \in Events \cup {"HUP"} : Arrive(fd, e)
         \/ \E fd \in Fd, e \in Events : Consume(fd, e)
         \/ \E p \in Poller : epoll_wait(p)
  PROVE  KernelInv' /\ UNCHANGED <<table, contexts, req, failed>>
<1>a. Events \cup {"HUP"} \subseteq Kernel
  BY Zenon, IOEventsAssumption DEF Kernel
<1>1. ASSUME NEW fd \in Fd, NEW e \in Events \cup {"HUP"}, Arrive(fd, e) PROVE KernelInv'
  BY Zenon, <1>a, <1>1 DEF Arrive, KernelInv
<1>2. ASSUME NEW fd \in Fd, NEW e \in Events, Consume(fd, e) PROVE KernelInv'
  BY Zenon, <1>2 DEF Consume, KernelInv
<1>3. ASSUME NEW p \in Poller, epoll_wait(p) PROVE KernelInv'
  <2>1. \A fd \in rdlist : /\ epoll[fd].ctx \in Ctx
                           /\ Reported(fd, epoll[fd].mask) \in SUBSET Kernel
    BY Zenon DEF KernelInv, Reported
  <2>2. batch' \in [Poller -> SUBSET [ctx : Ctx, mask : SUBSET Kernel]]
    BY SMTT(30), <1>3, <2>1 DEF epoll_wait, KernelInv
  <2> QED
    BY Zenon, <1>3, <2>2 DEF epoll_wait, KernelInv
<1> QED
  BY Zenon, <1>1, <1>2, <1>3 DEF Arrive, Consume, epoll_wait, manager

\* The lookups and the growth of the table.
LEMMA LookupSteps ==
  ASSUME WaitInv, NEW f \in Fiber,
         \/ \E fd \in Fd, e \in Events :
              AddLookup(f, fd, e) \/ \E op \in Ops : Lookup(f, op, fd, e)
         \/ AddGrow(f)
  PROVE  WaitInv' /\ UNCHANGED <<kernel, batch, failed>>
<1>a. Events \subseteq RW /\ Ops \subseteq {"del", "cancel", "cancelAll"}
  BY Zenon, IOEventsAssumption DEF RW
<1>b. WaitType
  BY Zenon DEF WaitInv
<1>1. ASSUME NEW fd \in Fd, NEW e \in Events, AddLookup(f, fd, e) PROVE WaitInv'
  <2> DEFINE r == [op |-> IF fd < size THEN "add" ELSE "grow", ctx |-> <<fd, table[fd]>>, event |-> e]
  <2>1. <<fd, table[fd]>> \in Ctx
    BY Zenon, <1>b DEF WaitType, Ctx
  <2>2. r \in Request /\ r.op \in {"add", "grow"} /\ r.ctx[1] = fd /\ r.event = e
    BY Zenon, <1>a, <2>1 DEF Request
  <2>3. req[f].op # "waiting" /\ UNCHANGED <<contexts, table>> /\ req' = [req EXCEPT ![f] = r]
    BY SMTT(30), <1>1 DEF AddLookup, Idle, manager
  <2>4. \A g \in Fiber : Wants(g) => req[g].ctx[1] # fd \/ req[g].event # e
    BY Zenon, <1>1 DEF AddLookup, Wants
  <2>5. table' \in [Fd -> 0..MaxGen] /\ r.op # "waiting"
    BY Zenon, <1>b, <2>3 DEF WaitType
  <2> HIDE DEF r
  <2> QED
    BY Zenon, <2>2, <2>3, <2>4, <2>5, RequestStep
<1>2. ASSUME NEW fd \in Fd, NEW e \in Events, NEW op \in Ops, Lookup(f, op, fd, e) PROVE WaitInv'
  <2> DEFINE r == [op |-> op, ctx |-> <<fd, table[fd]>>, event |-> e]
  <2>1. <<fd, table[fd]>> \in Ctx
    BY Zenon, <1>b DEF WaitType, Ctx
  <2>2. r \in Request /\ r.op \in {"del", "cancel", "cancelAll"}
    BY Zenon, <1>a, <2>1 DEF Request
  <2>3. req[f].op # "waiting" /\ UNCHANGED <<contexts, table>> /\ req' = [req EXCEPT ![f] = r]
    BY SMTT(30), <1>2 DEF Lookup, Idle, manager
  <2>4. table' \in [Fd -> 0..MaxGen]
    BY Zenon, <1>b, <2>3 DEF WaitType
  <2> HIDE DEF r
  <2> QED
    BY Zenon, <2>2, <2>3, <2>4, RequestStep
<1>3. ASSUME AddGrow(f) PROVE WaitInv'
  <2> DEFINE r == [op |-> "add", ctx |-> <<req[f].ctx[1], table'[req[f].ctx[1]]>>, event |-> req[f].event]
  <2>1. req[f].op = "grow" /\ req[f].ctx[1] \in Fd /\ req[f].event \in RW
    BY SMTT(30), <1>3, <1>b DEF AddGrow, WaitType, Request, Idle, Ctx
  <2>2. table' \in [Fd -> 0..MaxGen]
    BY SMTT(30), <1>3, <1>b, IOEventsAssumption DEF AddGrow, contextResize, WaitType
  <2>3. r \in Request /\ r.op = "add" /\ r.ctx[1] = req[f].ctx[1] /\ r.event = req[f].event
    BY Zenon, <2>1, <2>2 DEF Request, Ctx
  <2>4. UNCHANGED contexts /\ req' = [req EXCEPT ![f] = r]
    BY Zenon, <1>3 DEF AddGrow
  <2>5. \A g \in Fiber \ {f} : Wants(g) => req[g].ctx[1] # req[f].ctx[1] \/ req[g].event # req[f].event
    BY Zenon, <2>1 DEF WaitInv, OneEach, Wants
  <2> HIDE DEF r
  <2> QED
    BY Zenon, <2>1, <2>2, <2>3, <2>4, <2>5, RequestStep
<1> QED
  BY SMTT(30), <1>1, <1>2, <1>3 DEF AddLookup, Lookup, AddGrow


\* The operations under the mutex of a context.
LEMMA OperationSteps ==
  ASSUME IInv, failed = {}, NEW f \in Fiber,
         addEvent(f) \/ delEvent(f) \/ cancelEvent(f) \/ cancelAll(f)
  PROVE  IInv'
<1> DEFINE c == req[f].ctx
           e == req[f].event
<1>a. KernelInv /\ WaitInv /\ WaitType
  BY Zenon DEF IInv, WaitInv
<1>b. req[f].op \in {"add", "del", "cancel", "cancelAll"} /\ table' = table /\ level' = level /\ batch' = batch
  BY Zenon DEF addEvent, delEvent, cancelEvent, cancelAll, manager
<1>c. c \in Ctx /\ e \in RW /\ req[f] = [op |-> req[f].op, ctx |-> c, event |-> e]
  BY SMTT(30), <1>a, <1>b DEF WaitType, Request, Idle
<1>d. batch' \in [Poller -> SUBSET [ctx : Ctx, mask : SUBSET Kernel]]
  BY Zenon, <1>a, <1>b DEF KernelInv
<1>e. events[c] \in SUBSET RW
  BY Zenon, <1>a, <1>c DEF WaitType
<1>f. ASSUME Return(f) PROVE IInv'
  <2>1. WaitInv' /\ failed' = failed /\ UNCHANGED <<epoll, rdlist>>
    BY Zenon, <1>a, <1>b, <1>f, ReturnStep
  <2> QED
    BY Zenon, <1>a, <1>b, <2>1 DEF IInv, KernelInv
<1> HIDE DEF c, e
<1>1. CASE addEvent(f) /\ ~Return(f)
  <2>1. /\ req[f].op = "add"
        /\ Register(c, events[c] \cup {e})
        /\ m_pendingEventCount' = m_pendingEventCount + 1
        /\ events' = [events EXCEPT ![c] = @ \cup {e}]
        /\ waiter' = [waiter EXCEPT ![c] = [@ EXCEPT ![e] = f]]
        /\ failed' = {a \in {"add_twice"} : e \in events[c]}
                     \cup {a \in {"context_in_use"} : waiter[c][e] # None}
        /\ req' = [req EXCEPT ![f] = [op |-> "waiting", ctx |-> c, event |-> e]]
    BY Zenon, <1>1 DEF addEvent, Interest, c, e
  <2>2. WaitInv' /\ e \notin events[c] /\ waiter[c][e] = None
    BY Zenon, <1>a, <1>b, <1>c, <2>1, BeginStep
  <2>3. KernelInv'
    <3>1. events[c] \cup {e} \in SUBSET RW /\ Controls(c, events[c] \cup {e})
      BY Zenon, <1>c, <1>e, <2>1 DEF Controls
    <3> QED
      BY Zenon, <1>a, <1>b, <1>c, <1>d, <3>1, ControlStep
  <2> QED
    BY Zenon, <2>1, <2>2, <2>3 DEF IInv
<1>2. CASE delEvent(f) /\ ~Return(f)
  <2>1. /\ req[f].op = "del" /\ e \in events[c]
        /\ Reduce(c, events[c] \ {e})
        /\ m_pendingEventCount' = m_pendingEventCount - 1
        /\ events' = [events EXCEPT ![c] = @ \ {e}]
        /\ waiter' = [waiter EXCEPT ![c] = [@ EXCEPT ![e] = None]]
        /\ req' = [g \in Fiber |-> IF g \in {f, waiter[c][e]} THEN Idle ELSE req[g]]
        /\ failed' = failed
    BY Zenon, <1>2 DEF delEvent, c, e
  <2>2. [waiter[c] EXCEPT ![e] = None] = [x \in RW |-> IF x \in {e} THEN None ELSE waiter[c][x]]
    BY Zenon, <1>a, <1>c DEF WaitType
  <2>3. {waiter[c][x] : x \in {e}} \cup {f} = {f, waiter[c][e]}
    BY Zenon
  <2>4. Cardinality({e}) = 1
    BY Zenon, FS_Singleton
  <2> DEFINE E == {e}
             others == {f}
  <2>5. /\ events' = [events EXCEPT ![c] = @ \ E]
        /\ waiter' = [waiter EXCEPT ![c] = [x \in RW |-> IF x \in E THEN None ELSE @[x]]]
        /\ req' = [g \in Fiber |-> IF g \in {waiter[c][x] : x \in E} \cup others THEN Idle ELSE req[g]]
        /\ m_pendingEventCount' = m_pendingEventCount - Cardinality(E)
    BY Zenon, <2>1, <2>2, <2>3, <2>4
  <2>6. /\ E \in SUBSET RW /\ E \subseteq events[c]
        /\ others \in SUBSET Fiber /\ \A g \in others : req[g].op # "waiting"
    BY Zenon, <1>c, <2>1
  <2> HIDE DEF E, others
  <2>7. WaitInv'
    BY Zenon, <1>a, <1>b, <1>c, <2>5, <2>6, EndStep
  <2>8. KernelInv'
    <3>1. events[c] \ {e} \in SUBSET RW /\ Controls(c, events[c] \ {e})
      BY Zenon, <1>c, <1>e, <2>1 DEF Controls
    <3> QED
      BY Zenon, <1>a, <1>b, <1>c, <1>d, <3>1, ControlStep
  <2> QED
    BY Zenon, <2>1, <2>7, <2>8 DEF IInv
<1>3. CASE cancelEvent(f) /\ ~Return(f)
  <2>1. Reduce(c, events[c] \ {e}) /\ triggerEvent(c, {e}, {f})
    BY Zenon, <1>3 DEF cancelEvent, c, e
  <2>2. {e} \in SUBSET Kernel /\ \A g \in {f} : req[g].op # "waiting"
    BY Zenon, <1>b, <1>c DEF RW, Kernel
  <2>3. WaitInv' /\ failed' \subseteq {"trigger_not_registered"}
    BY Zenon, <1>a, <1>b, <1>c, <2>1, <2>2, TriggerStep
  <2>4. KernelInv'
    <3>1. events[c] \ {e} \in SUBSET RW /\ Controls(c, events[c] \ {e})
      BY Zenon, <1>c, <1>e, <2>1 DEF Controls
    <3> QED
      BY Zenon, <1>a, <1>b, <1>c, <1>d, <3>1, ControlStep
  <2> QED
    BY Zenon, <2>3, <2>4 DEF IInv
<1>4. CASE cancelAll(f) /\ ~Return(f)
  <2>1. Deregister(c) /\ triggerEvent(c, events[c], {f})
    BY Zenon, <1>4 DEF cancelAll, c
  <2>2. events[c] \in SUBSET Kernel /\ \A g \in {f} : req[g].op # "waiting"
    BY Zenon, <1>b, <1>e DEF RW, Kernel
  <2>3. WaitInv' /\ failed' \subseteq {"trigger_not_registered"}
    BY Zenon, <1>a, <1>b, <1>c, <2>1, <2>2, TriggerStep
  <2>4. KernelInv'
    <3>1. events[c] \in SUBSET RW /\ Controls(c, events[c])
      BY Zenon, <1>c, <1>e, <2>1 DEF Controls
    <3> QED
      BY Zenon, <1>a, <1>b, <1>c, <1>d, <3>1, ControlStep
  <2> QED
    BY <2>3, <2>4 DEF IInv
<1> QED
  BY Zenon, <1>f, <1>1, <1>2, <1>3, <1>4

\* idle() with one harvested event, however stale.
LEMMA HandleStep ==
  ASSUME IInv, failed = {}, NEW p \in Poller, NEW ev \in batch[p], Handle(p, ev)
  PROVE  IInv'
<1> DEFINE c == ev.ctx
           real == RealEvents(ev)
<1>a. KernelInv /\ WaitInv /\ WaitType
  BY Zenon DEF IInv, WaitInv
<1>b. c \in Ctx /\ ev.mask \in SUBSET Kernel
  BY SMTT(30), <1>a DEF KernelInv
<1>c. events[c] \in SUBSET RW /\ RW \subseteq Kernel
  BY Zenon, <1>a, <1>b DEF WaitType, RW, Kernel
<1>d. real \in SUBSET Kernel /\ Left(c, real) \in SUBSET RW
  BY Zenon, <1>b, <1>c DEF RealEvents, Left
<1>e. /\ batch' \in [Poller -> SUBSET [ctx : Ctx, mask : SUBSET Kernel]]
      /\ table' = table /\ level' = level
  BY Zenon, <1>a DEF Handle, KernelInv, manager
<1>1. CASE events[c] \cap real # {} /\ CtlWorks(c[1], FALSE)
  <2>1. Reduce(c, Left(c, real)) /\ triggerEvent(c, real, {})
    BY Zenon, <1>1 DEF Handle
  <2> HIDE DEF c, real
  <2> DEFINE none == {}
  <2>a. none \in SUBSET Fiber /\ (\A f \in none : req[f].op # "waiting") /\ triggerEvent(c, real, none)
    BY Zenon, <2>1
  <2> HIDE DEF none
  <2>2. WaitInv' /\ failed' \subseteq {"trigger_not_registered"}
    BY Zenon, <1>a, <1>b, <1>d, <1>e, <2>a, TriggerStep
  <2>3. KernelInv'
    <3>1. Controls(c, Left(c, real))
      BY Zenon, <2>1 DEF Controls
    <3> QED
      BY Zenon, <1>a, <1>b, <1>d, <1>e, <3>1, ControlStep
  <2> QED
    BY Zenon, <2>2, <2>3 DEF IInv
<1>2. CASE ~(events[c] \cap real # {} /\ CtlWorks(c[1], FALSE))
  <2>1. UNCHANGED <<contexts, epoll, rdlist, req, failed>>
    BY Zenon, <1>2 DEF Handle
  <2>2. KernelInv'
    BY Zenon, <1>a, <1>e, <2>1 DEF KernelInv
  <2>3. WaitInv'
    BY Zenon, <1>a, <1>e, <2>1, SameStep
  <2> QED
    BY Zenon, <2>1, <2>2, <2>3 DEF IInv
<1> QED
  BY Zenon, <1>1, <1>2

LEMMA NextIInv == IInv /\ [Next]_vars => IInv'
<1> SUFFICES ASSUME IInv, [Next]_vars PROVE IInv'
  OBVIOUS
<1>a. KernelInv /\ WaitInv
  BY Zenon DEF IInv
<1>1. ASSUME UNCHANGED <<table, contexts, req, failed>>, KernelInv' PROVE IInv'
  <2>1. WaitInv'
    BY Zenon, <1>a, <1>1, SameStep
  <2> QED
    BY Zenon, <1>1, <2>1 DEF IInv
<1>2. ASSUME WaitInv', UNCHANGED <<kernel, batch, failed>> PROVE IInv'
  BY Zenon, <1>2 DEF IInv, KernelInv, kernel
<1>3. CASE UNCHANGED vars
  <2>1. KernelInv'
    BY Zenon, <1>a, <1>3 DEF KernelInv, vars, kernel
  <2> QED
    BY Zenon, <1>1, <1>3, <2>1 DEF vars, manager
<1>4. CASE Next
  <2>1. failed = {}
    BY Zenon, <1>4 DEF Next
  <2>2. ASSUME NEW f \in Fiber, NEW fd \in Fd, NEW e \in Events,
               AddLookup(f, fd, e) \/ \E op \in Ops : Lookup(f, op, fd, e)
        PROVE  IInv'
    <3>1. WaitInv' /\ UNCHANGED <<kernel, batch, failed>>
      BY Zenon, <1>a, <2>2, LookupSteps
    <3> QED
      BY Zenon, <1>2, <3>1
  <2>3. ASSUME NEW f \in Fiber, Operation(f) PROVE IInv'
    <3>1. CASE AddGrow(f)
      BY Zenon, <1>a, <1>2, <3>1, LookupSteps
    <3> QED
      BY Zenon, <2>1, <2>3, <3>1, OperationSteps DEF Operation
  <2>4. ASSUME NEW p \in Poller, idle(p) PROVE IInv'
    <3>1. CASE epoll_wait(p)
      BY Zenon, <1>a, <1>1, <3>1, KernelSteps
    <3> QED
      BY Zenon, <2>1, <2>4, <3>1, HandleStep DEF idle
  <2>5. ASSUME \/ \E fd \in Fd, e \in Events \cup {"HUP"} : Arrive(fd, e)
               \/ \E fd \in Fd, e \in Events : Consume(fd, e)
        PROVE  IInv'
    BY Zenon, <1>a, <1>1, <2>5, KernelSteps
  <2> QED
    BY Zenon, <1>4, <2>2, <2>3, <2>4, <2>5 DEF Next
<1> QED
  BY Zenon, <1>3, <1>4

LEMMA Inductive == Spec => []IInv
BY InitIInv, NextIInv, PTL DEF Spec

\* A fiber that waits is in exactly the EventContext it has registered in, and
\* nobody else is: whatever operations, stale harvests and growths of the table
\* interleave.
THEOREM WaitsAreExact == Spec => []WaitersExact
<1>1. IInv => WaitersExact
  <2> SUFFICES ASSUME IInv, NEW c \in Ctx, NEW e \in RW
               PROVE  Waiting(c, e) = IF e \in events[c] THEN {waiter[c][e]} ELSE {}
    BY Zenon DEF WaitersExact, Slots, RW
  <2>1. ASSUME NEW f \in Fiber, f \in Waiting(c, e) PROVE e \in events[c] /\ waiter[c][e] = f
    BY Zenon, <2>1 DEF IInv, WaitInv, Linked, Waiting
  <2>2. e \in events[c] => waiter[c][e] \in Waiting(c, e)
    BY SMTT(30) DEF IInv, WaitInv, Linked, WaitsFor, Waiting
  <2> QED
    BY Zenon, <2>1, <2>2 DEF Waiting
<1> QED
  BY <1>1, Inductive, PTL

\* m_pendingEventCount is the number of waits, also of those in contexts that
\* the table has lost.
THEOREM PendingIsExact == Spec => []PendingExact
<1>1. IInv => PendingExact
  BY Zenon DEF IInv, WaitInv
<1> QED
  BY <1>1, Inductive, PTL

\* The two assertions of addEvent() never fail as long as callers do not ask for
\* an event that is asked for already; only triggerEvent()'s can.
THEOREM OnlyTriggerFails == Spec => [](failed \subseteq {"trigger_not_registered"})
<1>1. IInv => failed \subseteq {"trigger_not_registered"}
  BY Zenon DEF IInv
<1> QED
  BY <1>1, Inductive, PTL

-----------------------------------------------------------------------------
(* What the kernel watches *)

\* As long as a descriptor's context is the first one, everybody refers to it.
Current(c) == table[c[1]] = 0 => c[2] = 0

ReferInv ==
  /\ \A fd \in Fd : epoll[fd] # NotRegistered => epoll[fd].ctx[1] = fd /\ Current(epoll[fd].ctx)
  /\ \A f \in Fiber : req[f] # Idle => Current(req[f].ctx)
  /\ \A p \in Poller : \A ev \in batch[p] : Current(ev.ctx)

InterestInv == ReferInv /\ InterestKept

\* epoll_ctl() is told what the context waits for from now on.
Watch(c, new) == IF new = {} THEN NotRegistered ELSE [ctx |-> c, mask |-> new]
Told(c, new) ==
  /\ events' = [events EXCEPT ![c] = new] \/ failed' # {}
  /\ epoll' = [epoll EXCEPT ![c[1]] = Watch(c, new)]
  /\ table' = table

EpollRefers == \A fd \in Fd : epoll[fd] # NotRegistered => epoll[fd].ctx[1] = fd /\ Current(epoll[fd].ctx)

LEMMA ToldStep ==
  ASSUME IInv, InterestInv, failed = {}, NEW c \in Ctx, Current(c), NEW new, Told(c, new)
  PROVE  InterestKept' /\ EpollRefers'
<1>a. c[1] \in Fd /\ c = <<c[1], c[2]>> /\ 0 \in 0..MaxGen
  BY IOEventsAssumption DEF Ctx
<1>b. \A fd \in Fd : <<fd, 0>> \in Ctx
  BY Zenon, <1>a DEF Ctx
<1>c. DOMAIN events = Ctx /\ DOMAIN epoll = Fd
  BY Zenon DEF IInv, KernelInv, WaitInv, WaitType
<1>1. ASSUME NEW fd \in Fd, table'[fd] = 0, failed' = {} PROVE InterestOf(fd)'
  <2>1. table[fd] = 0 /\ table' = table /\ events' = [events EXCEPT ![c] = new]
    BY Zenon, <1>1 DEF Told
  <2>2. CASE fd = c[1]
    <3>1. c = <<fd, table'[fd]>>
      BY Zenon, <1>a, <2>1, <2>2 DEF Current
    <3>2. epoll'[fd] = Watch(c, new) /\ events'[c] = new
      BY Zenon, <1>a, <1>c, <2>1, <2>2 DEF Told
    <3> QED
      BY Zenon, <3>1, <3>2 DEF InterestOf, Watch
  <2>3. CASE fd # c[1]
    <3>1. <<fd, 0>> # c
      BY <2>3
    <3>2. epoll'[fd] = epoll[fd] /\ events'[<<fd, 0>>] = events[<<fd, 0>>]
      BY Zenon, <1>a, <1>b, <1>c, <2>1, <2>3, <3>1 DEF Told
    <3>3. InterestOf(fd)
      BY Zenon, <2>1 DEF InterestInv, InterestKept
    <3> QED
      BY Zenon, <2>1, <3>2, <3>3 DEF InterestOf
  <2> QED
    BY Zenon, <2>2, <2>3
<1>2. ASSUME NEW fd \in Fd, epoll'[fd] # NotRegistered
      PROVE  epoll'[fd].ctx[1] = fd /\ Current(epoll[fd].ctx)'
  <2>1. CASE fd = c[1]
    <3>1. epoll'[fd] = [ctx |-> c, mask |-> new]
      BY Zenon, <1>a, <1>c, <1>2, <2>1 DEF Told, Watch
    <3> QED
      BY <2>1, <3>1 DEF Told, Current
  <2>2. CASE fd # c[1]
    <3>1. epoll'[fd] = epoll[fd]
      BY Zenon, <1>a, <1>c, <2>2 DEF Told
    <3> QED
      BY Zenon, <1>2, <3>1 DEF Told, Current, InterestInv, ReferInv
  <2> QED
    BY Zenon, <2>1, <2>2
<1> QED
  BY Zenon, <1>1, <1>2 DEF InterestKept, EpollRefers

\* The kernel is told before triggerEvent() changes the context.
LEMMA TriggerTold ==
  ASSUME NEW c, NEW E, NEW others, triggerEvent(c, E, others), table' = table,
         Reduce(c, events[c] \ E) \/ (E = events[c] /\ Deregister(c))
  PROVE  Told(c, events[c] \ E)
<1>1. events' = [events EXCEPT ![c] = events[c] \ E] \/ failed' # {}
  BY Zenon DEF triggerEvent
<1>2. epoll' = [epoll EXCEPT ![c[1]] = Watch(c, events[c] \ E)]
  BY Zenon DEF Reduce, Register, Deregister, Watch
<1> QED
  BY Zenon, <1>1, <1>2 DEF Told

\* A step that makes no request and harvests nothing new.
LEMMA ReferStep ==
  ASSUME InterestInv, table' = table, EpollRefers', InterestKept',
         \A f \in Fiber : req'[f] # Idle => req[f] # Idle /\ req'[f].ctx = req[f].ctx,
         \A p \in Poller : batch'[p] \subseteq batch[p]
  PROVE  InterestInv'
<1>1. \A f \in Fiber : req'[f] # Idle => Current(req[f].ctx)'
  BY Zenon DEF InterestInv, ReferInv, Current
<1>2. \A p \in Poller : \A ev \in batch'[p] : Current(ev.ctx)'
  BY Zenon DEF InterestInv, ReferInv, Current
<1> QED
  BY Zenon, <1>1, <1>2 DEF InterestInv, ReferInv, EpollRefers

\* Nothing changes for the kernel.
LEMMA SameInterest ==
  ASSUME InterestInv, UNCHANGED <<events, epoll, failed, table>>
  PROVE  EpollRefers' /\ InterestKept'
BY Zenon DEF InterestInv, ReferInv, EpollRefers, InterestKept, InterestOf, Current

LEMMA LookupInterest ==
  ASSUME IInv, InterestInv, NEW f \in Fiber,
         \/ \E fd \in Fd, e \in Events :
              AddLookup(f, fd, e) \/ \E op \in Ops : Lookup(f, op, fd, e)
         \/ AddGrow(f)
  PROVE  InterestInv'
<1>a. req \in [Fiber -> Request] /\ table \in [Fd -> 0..MaxGen]
  BY Zenon DEF IInv, WaitInv, WaitType
<1>b. UNCHANGED <<events, epoll, batch, failed>>
  BY Zenon DEF AddLookup, Lookup, AddGrow, contexts, kernel
<1>1. ASSUME table' = table, NEW r, req' = [req EXCEPT ![f] = r], Current(r.ctx) PROVE InterestInv'
  <2>1. \A g \in Fiber : req'[g] # Idle => Current(req[g].ctx)'
    BY Zenon, <1>a, <1>1 DEF InterestInv, ReferInv, Current
  <2>2. \A p \in Poller : \A ev \in batch'[p] : Current(ev.ctx)'
    BY Zenon, <1>b, <1>1 DEF InterestInv, ReferInv, Current
  <2>3. EpollRefers' /\ InterestKept'
    BY Zenon, <1>b, <1>1, SameInterest
  <2> QED
    BY Zenon, <2>1, <2>2, <2>3 DEF InterestInv, ReferInv, EpollRefers
<1>2. ASSUME NEW fd \in Fd, NEW e \in Events,
             AddLookup(f, fd, e) \/ \E op \in Ops : Lookup(f, op, fd, e)
      PROVE  InterestInv'
  <2>1. PICK op : req' = [req EXCEPT ![f] = [op |-> op, ctx |-> <<fd, table[fd]>>, event |-> e]]
    BY Zenon, <1>2 DEF AddLookup, Lookup
  <2> DEFINE r == [op |-> op, ctx |-> <<fd, table[fd]>>, event |-> e]
  <2>2. Current(r.ctx)
    BY Zenon DEF Current
  <2>3. table' = table
    BY Zenon, <1>2 DEF AddLookup, Lookup, manager
  <2> QED
    BY Zenon, <1>1, <2>1, <2>2, <2>3
<1>3. CASE AddGrow(f)
  <2> DEFINE fd == req[f].ctx[1]
             r == [op |-> "add", ctx |-> <<fd, table'[fd]>>, event |-> req[f].event]
  <2>1. req' = [req EXCEPT ![f] = r]
    BY Zenon, <1>3 DEF AddGrow
  <2>2. \A x \in Fd : table'[x] = 0 => table[x] = 0
    BY <1>a, <1>3, IOEventsAssumption DEF AddGrow, contextResize
  <2>3. \A c \in Ctx : Current(c) => Current(c)'
    BY Zenon, <2>2 DEF Current, Ctx
  <2>4. r.ctx[1] = fd /\ r.ctx[2] = table'[fd]
    BY Zenon
  <2>5. \A g \in Fiber : req[g] # Idle => req[g].ctx \in Ctx
    BY Zenon, <1>a DEF Request
  <2>6. \A g \in Fiber : req'[g] # Idle => Current(req[g].ctx)'
    <3> SUFFICES ASSUME NEW g \in Fiber, req'[g] # Idle PROVE Current(req[g].ctx)'
      BY Zenon
    <3>1. CASE g = f
      <4>1. req'[g] = r
        BY Zenon, <1>a, <2>1, <3>1
      <4> QED
        BY Zenon, <2>4, <4>1 DEF Current
    <3>2. CASE g # f
      <4>1. req'[g] = req[g]
        BY Zenon, <1>a, <2>1, <3>2
      <4> QED
        BY Zenon, <2>3, <2>5, <4>1 DEF Current, InterestInv, ReferInv
    <3> QED
      BY Zenon, <3>1, <3>2
  <2>7. ASSUME NEW p \in Poller, NEW ev \in batch'[p] PROVE Current(ev.ctx)'
    <3>1. batch \in [Poller -> SUBSET [ctx : Ctx, mask : SUBSET Kernel]]
      BY Zenon DEF IInv, KernelInv
    <3>2. ev \in batch[p] /\ Current(ev.ctx)
      BY Zenon, <1>b, <2>7 DEF InterestInv, ReferInv
    <3>3. ev.ctx \in Ctx
      BY SMTT(30), <3>1, <3>2
    <3> QED
      BY Zenon, <2>3, <3>2, <3>3
  <2>8. EpollRefers'
    BY Zenon, <1>b, <2>3 DEF EpollRefers, InterestInv, ReferInv, IInv, KernelInv
  <2>9. InterestKept'
    BY Zenon, <1>b, <2>2 DEF InterestInv, InterestKept, InterestOf
  <2> QED
    BY Zenon, <2>6, <2>7, <2>8, <2>9 DEF InterestInv, ReferInv, EpollRefers
<1> QED
  BY Zenon, <1>2, <1>3

LEMMA OperationInterest ==
  ASSUME IInv, InterestInv, failed = {}, NEW f \in Fiber,
         addEvent(f) \/ delEvent(f) \/ cancelEvent(f) \/ cancelAll(f)
  PROVE  InterestInv'
<1> DEFINE c == req[f].ctx
           e == req[f].event
<1>a. req \in [Fiber -> Request]
  BY Zenon DEF IInv, WaitInv, WaitType
<1>b. req[f].op \in {"add", "del", "cancel", "cancelAll"} /\ table' = table /\ batch' = batch
  BY Zenon DEF addEvent, delEvent, cancelEvent, cancelAll, manager
<1>c. c \in Ctx /\ req[f] # Idle /\ Current(c)
  BY <1>a, <1>b DEF Request, Idle, InterestInv, ReferInv
<1> HIDE DEF c, e
<1>d. ASSUME Return(f) PROVE InterestInv'
  <2>1. EpollRefers' /\ InterestKept'
    BY Zenon, <1>b, <1>d, SameInterest DEF Return, contexts
  <2>2. \A g \in Fiber : req'[g] # Idle => req[g] # Idle /\ req'[g].ctx = req[g].ctx
    BY Zenon, <1>a, <1>d DEF Return
  <2> QED
    BY Zenon, <1>b, <2>1, <2>2, ReferStep
<1>e. ASSUME NEW new, Told(c, new),
             \A g \in Fiber : req'[g] # Idle => req[g] # Idle /\ req'[g].ctx = req[g].ctx
      PROVE  InterestInv'
  <2>1. EpollRefers' /\ InterestKept'
    BY Zenon, <1>c, <1>e, ToldStep
  <2> QED
    BY Zenon, <1>b, <1>e, <2>1, ReferStep
<1>1. CASE addEvent(f) /\ ~Return(f)
  <2>1. /\ Register(c, events[c] \cup {e})
        /\ events' = [events EXCEPT ![c] = @ \cup {e}]
        /\ req' = [req EXCEPT ![f] = [op |-> "waiting", ctx |-> c, event |-> e]]
    BY Zenon, <1>1 DEF addEvent, Interest, c, e
  <2>2. Told(c, events[c] \cup {e})
    BY Zenon, <1>b, <2>1 DEF Told, Register, Watch
  <2>3. \A g \in Fiber : req'[g] # Idle => req[g] # Idle /\ req'[g].ctx = req[g].ctx
    BY Zenon, <1>a, <1>c, <2>1 DEF c
  <2> QED
    BY Zenon, <1>e, <2>2, <2>3
<1>2. CASE delEvent(f) /\ ~Return(f)
  <2>1. /\ Reduce(c, events[c] \ {e})
        /\ events' = [events EXCEPT ![c] = @ \ {e}]
        /\ req' = [g \in Fiber |-> IF g \in {f, waiter[c][e]} THEN Idle ELSE req[g]]
    BY Zenon, <1>2 DEF delEvent, c, e
  <2>2. Told(c, events[c] \ {e})
    BY Zenon, <1>b, <2>1 DEF Told, Reduce, Register, Deregister, Watch
  <2> QED
    BY Zenon, <1>e, <2>1, <2>2
<1>3. ASSUME NEW E, NEW others, triggerEvent(c, E, others),
             Reduce(c, events[c] \ E) \/ (E = events[c] /\ Deregister(c))
      PROVE  InterestInv'
  <2>1. Told(c, events[c] \ E)
    BY Zenon, <1>b, <1>3, TriggerTold
  <2>2. \A g \in Fiber : req'[g] # Idle => req[g] # Idle /\ req'[g].ctx = req[g].ctx
    BY Zenon, <1>3 DEF triggerEvent
  <2> QED
    BY Zenon, <1>e, <2>1, <2>2
<1>4. CASE cancelEvent(f) /\ ~Return(f)
  <2>1. Reduce(c, events[c] \ {e}) /\ triggerEvent(c, {e}, {f})
    BY Zenon, <1>4 DEF cancelEvent, c, e
  <2> QED
    BY Zenon, <1>3, <2>1
<1>5. CASE cancelAll(f) /\ ~Return(f)
  <2>1. Deregister(c) /\ triggerEvent(c, events[c], {f})
    BY Zenon, <1>5 DEF cancelAll, c
  <2> QED
    BY Zenon, <1>3, <2>1
<1> QED
  BY Zenon, <1>d, <1>1, <1>2, <1>4, <1>5

LEMMA PollInterest ==
  ASSUME IInv, InterestInv, failed = {}, NEW p \in Poller, idle(p)
  PROVE  InterestInv'
<1>a. batch \in [Poller -> SUBSET [ctx : Ctx, mask : SUBSET Kernel]]
  BY Zenon DEF IInv, KernelInv
<1>1. ASSUME NEW ev \in batch[p], Handle(p, ev) PROVE InterestInv'
  <2>1. ev.ctx \in Ctx /\ Current(ev.ctx)
    BY <1>a DEF InterestInv, ReferInv
  <2>2. table' = table /\ \A q \in Poller : batch'[q] \subseteq batch[q]
    BY Zenon, <1>a, <1>1 DEF Handle, manager
  <2>3. CASE UNCHANGED <<contexts, epoll, rdlist, req, failed>>
    BY Zenon, <2>2, <2>3, SameInterest, ReferStep DEF contexts
  <2>4. CASE Reduce(ev.ctx, Left(ev.ctx, RealEvents(ev))) /\ triggerEvent(ev.ctx, RealEvents(ev), {})
    <3> DEFINE c == ev.ctx
               E == RealEvents(ev)
    <3>1. triggerEvent(c, E, {}) /\ Reduce(c, events[c] \ E)
      BY Zenon, <2>4 DEF Left
    <3> HIDE DEF c, E
    <3>2. Told(c, events[c] \ E)
      BY Zenon, <2>2, <3>1, TriggerTold
    <3>3. EpollRefers' /\ InterestKept'
      BY Zenon, <2>1, <3>2, ToldStep DEF c
    <3>4. \A g \in Fiber : req'[g] # Idle => req[g] # Idle /\ req'[g].ctx = req[g].ctx
      BY Zenon, <3>1 DEF triggerEvent
    <3> QED
      BY Zenon, <2>2, <3>3, <3>4, ReferStep
  <2> QED
    BY Zenon, <1>1, <2>3, <2>4 DEF Handle
<1>2. CASE epoll_wait(p)
  <2>1. UNCHANGED <<table, events, epoll, req, failed>>
    BY Zenon, <1>2 DEF epoll_wait, manager, contexts
  <2>2. EpollRefers' /\ InterestKept'
    BY Zenon, <2>1, SameInterest
  <2>3. ASSUME NEW q \in Poller, NEW ev \in batch'[q] PROVE Current(ev.ctx)'
    <3>1. CASE ev \in batch[q]
      BY Zenon, <2>1, <3>1 DEF InterestInv, ReferInv, Current
    <3>2. CASE \E fd \in rdlist : ev.ctx = epoll[fd].ctx
      <4>1. PICK fd \in rdlist : ev.ctx = epoll[fd].ctx
        BY Zenon, <3>2
      <4>2. Current(epoll[fd].ctx)
        BY Zenon DEF InterestInv, ReferInv, EpollRefers, IInv, KernelInv
      <4> QED
        BY Zenon, <2>1, <4>1, <4>2 DEF Current
    <3> QED
      BY <1>a, <1>2, <2>3, <3>1, <3>2 DEF epoll_wait
  <2>4. \A g \in Fiber : req'[g] # Idle => Current(req[g].ctx)'
    BY Zenon, <2>1 DEF InterestInv, ReferInv, Current
  <2> QED
    BY Zenon, <2>2, <2>3, <2>4 DEF InterestInv, ReferInv, EpollRefers
<1> QED
  BY Zenon, <1>1, <1>2 DEF idle

LEMMA InterestStep == IInv /\ InterestInv /\ [Next]_vars => InterestInv'
<1> SUFFICES ASSUME IInv, InterestInv, [Next]_vars PROVE InterestInv'
  BY Zenon
<1>1. ASSUME UNCHANGED <<table, contexts, epoll, req, batch, failed>> PROVE InterestInv'
  BY Zenon, <1>1, SameInterest, ReferStep DEF contexts
<1>2. CASE UNCHANGED vars
  BY Zenon, <1>1, <1>2 DEF vars, manager, kernel
<1>3. CASE Next
  <2>1. ASSUME \/ \E fd \in Fd, e \in Events \cup {"HUP"} : Arrive(fd, e)
               \/ \E fd \in Fd, e \in Events : Consume(fd, e)
        PROVE  InterestInv'
    BY Zenon, <1>1, <2>1 DEF Arrive, Consume, manager
  <2>2. failed = {}
    BY Zenon, <1>3 DEF Next
  <2> QED
    BY Zenon, <1>3, <2>1, <2>2, LookupInterest, OperationInterest, PollInterest DEF Next, Operation
<1> QED
  BY Zenon, <1>2, <1>3

LEMMA InterestInductive == Spec => []InterestInv
<1>1. Init => InterestInv
  BY IOEventsAssumption DEF Init, InterestInv, ReferInv, InterestKept, InterestOf, Ctx
<1> QED
  BY <1>1, InterestStep, Inductive, PTL DEF Spec

\* As long as a descriptor's context was not cut off, the kernel watches exactly
\* what it waits for: operations, stale harvests and growths of the table leave
\* no wait unwatched and nothing watched in vain.
THEOREM InterestFollows == Spec => []InterestKept
<1>1. InterestInv => InterestKept
  BY Zenon DEF InterestInv
<1> QED
  BY <1>1, InterestInductive, PTL

\* No growth cuts a context off if no descriptor is half as large again as one
\* that lies beyond the first table.
Close == \A x, y \in Fd : x >= FirstSize => y < (x * 3) \div 2

FirstContexts ==
  /\ table = [fd \in Fd |-> 0]
  /\ size \in Nat /\ size >= FirstSize
  /\ \A f \in Fiber : req[f].op = "grow" => req[f].ctx[1] \in Fd /\ req[f].ctx[1] >= FirstSize

LEMMA FirstStep ==
  ASSUME Close, IInv, FirstContexts, [Next]_vars
  PROVE  FirstContexts'
<1> USE IOEventsAssumption
<1>a. req \in [Fiber -> Request]
  BY Zenon DEF IInv, WaitInv, WaitType
<1>1. ASSUME UNCHANGED manager, \A f \in Fiber : req'[f].op = "grow" => req'[f] = req[f]
      PROVE  FirstContexts'
  BY Zenon, <1>1 DEF FirstContexts, manager
<1>2. ASSUME NEW f \in Fiber, NEW fd \in Fd, NEW e \in Events, AddLookup(f, fd, e)
      PROVE  FirstContexts'
  <2> DEFINE r == [op |-> IF fd < size THEN "add" ELSE "grow", ctx |-> <<fd, table[fd]>>, event |-> e]
  <2>1. req' = [req EXCEPT ![f] = r] /\ UNCHANGED <<size, table>>
    BY Zenon, <1>2 DEF AddLookup, manager
  <2>2. r.op = "grow" => fd >= FirstSize
    BY DEF FirstContexts
  <2>3. r.ctx[1] = fd
    BY Zenon
  <2> HIDE DEF r
  <2> QED
    BY Zenon, <1>a, <2>1, <2>2, <2>3 DEF FirstContexts
<1>3. ASSUME NEW f \in Fiber, AddGrow(f) PROVE FirstContexts'
  <2> DEFINE fd == req[f].ctx[1]
             n == (fd * 3) \div 2
  <2>1. fd \in Fd /\ fd >= FirstSize /\ fd \in Nat
    BY Zenon, <1>3 DEF AddGrow, FirstContexts
  <2>2. n \in Nat /\ n >= FirstSize /\ \A y \in Fd : y < n
    <3>1. n \in Nat /\ n >= fd
      BY <2>1
    <3>2. \A y \in Fd : y < n
      BY Zenon, <2>1 DEF Close
    <3> QED
      BY <2>1, <3>1, <3>2
  <2>3. /\ size' = n
        /\ table' = [x \in Fd |-> IF n <= x /\ x < size THEN table[x] + 1 ELSE table[x]]
        /\ req' = [req EXCEPT ![f] = [op |-> "add", ctx |-> <<fd, table'[fd]>>, event |-> req[f].event]]
    BY Zenon, <1>3 DEF AddGrow, contextResize
  <2> HIDE DEF n
  <2>4. table' = [x \in Fd |-> 0]
    BY <2>2, <2>3 DEF FirstContexts
  <2>5. \A g \in Fiber : req'[g].op = "grow" => req'[g] = req[g]
    BY Zenon, <1>a, <2>3
  <2> QED
    BY Zenon, <2>2, <2>3, <2>4, <2>5 DEF FirstContexts
<1>4. ASSUME NEW f \in Fiber, NEW fd \in Fd, NEW e \in Events, NEW op \in Ops, Lookup(f, op, fd, e)
      PROVE  FirstContexts'
  BY Zenon, <1>a, <1>1, <1>4 DEF Lookup
<1>5. ASSUME NEW f \in Fiber, addEvent(f) \/ delEvent(f) \/ cancelEvent(f) \/ cancelAll(f)
      PROVE  FirstContexts'
  <2>1. UNCHANGED manager
    BY Zenon, <1>5 DEF addEvent, delEvent, cancelEvent, cancelAll
  <2>2. CASE Return(f)
    BY Zenon, <1>a, <1>1, <2>1, <2>2 DEF Return, Idle
  <2>3. CASE addEvent(f) /\ ~Return(f)
    <3>1. req' = [req EXCEPT ![f] = [op |-> "waiting", ctx |-> req[f].ctx, event |-> req[f].event]]
      BY Zenon, <2>3 DEF addEvent
    <3> QED
      BY Zenon, <1>a, <1>1, <2>1, <3>1
  <2>4. CASE \E E : req' = [g \in Fiber |-> IF g \in E THEN Idle ELSE req[g]]
    BY <1>1, <2>1, <2>4 DEF Idle
  <2>5. CASE req' = req
    BY Zenon, <1>1, <2>1, <2>5
  <2>6. CASE delEvent(f) /\ ~Return(f)
    BY Zenon, <2>4, <2>6 DEF delEvent
  <2>7. CASE cancelEvent(f) /\ ~Return(f)
    BY Zenon, <2>4, <2>5, <2>7 DEF cancelEvent, triggerEvent
  <2>8. CASE cancelAll(f) /\ ~Return(f)
    BY Zenon, <2>4, <2>5, <2>8 DEF cancelAll, triggerEvent
  <2> QED
    BY Zenon, <1>5, <2>2, <2>3, <2>6, <2>7, <2>8
<1>6. ASSUME NEW p \in Poller, idle(p) PROVE FirstContexts'
  <2>1. UNCHANGED manager
    BY Zenon, <1>6 DEF idle, epoll_wait, Handle
  <2>2. CASE \E E : req' = [g \in Fiber |-> IF g \in E THEN Idle ELSE req[g]]
    BY <1>1, <2>1, <2>2 DEF Idle
  <2>3. CASE req' = req
    BY Zenon, <1>1, <2>1, <2>3
  <2> QED
    BY Zenon, <1>6, <2>2, <2>3 DEF idle, epoll_wait, Handle, triggerEvent
<1>7. CASE \/ \E fd \in Fd, e \in Events \cup {"HUP"} : Arrive(fd, e)
           \/ \E fd \in Fd, e \in Events : Consume(fd, e)
           \/ UNCHANGED vars
  BY Zenon, <1>1, <1>7 DEF Arrive, Consume, vars
<1> QED
  BY Zenon, <1>2, <1>3, <1>4, <1>5, <1>6, <1>7 DEF Next, Operation

\* With descriptors that close to each other the table leads to every wait, and
\* the kernel watches all of them.
THEOREM InterestComplete ==
  ASSUME Close
  PROVE  Spec => []InterestExact
<1>1. Init => FirstContexts
  BY IOEventsAssumption DEF Init, FirstContexts, Idle
<1>2. IInv /\ FirstContexts /\ [Next]_vars => FirstContexts'
  BY Zenon, FirstStep
<1>3. FirstContexts /\ InterestKept => InterestExact
  BY Zenon DEF FirstContexts, InterestKept, InterestExact
<1> QED
  BY <1>1, <1>2, <1>3, Inductive, InterestFollows, PTL DEF Spec
=============================================================================
