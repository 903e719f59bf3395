------------------------- MODULE HttpConnectionPool -------------------------
(***************************************************************************)
(* HttpConnectionPool: callers on several threads take connections from    *)
(* the pool, send a request on them and give them back when the last       *)
(* reference to the connection goes.  The mutex guards the list m_conns    *)
(* only; m_total is changed outside it.                                    *)
(*                                                                         *)
(* A pooled connection is on a socket from Socket::CreateTCP() and         *)
(* Socket::connect(), for https too.  Nothing sets m_isConnected of such a *)
(* socket, so write() answers -1, sendRequest() fails and ReleasePtr()     *)
(* deletes the connection; the list stays empty.                           *)
(***************************************************************************)
EXTENDS Integers, Sequences, FiniteSets

CONSTANTS
  Caller,         \* callers of doRequest() or getConnection()
  Conn,           \* HttpConnection objects; bound: how many exist at a time
  NoConn,         \* nullptr
  MaxRequest,     \* m_maxRequest
  MaxAliveTime,   \* m_maxAliveTime
  Now             \* GetCurrentMS(), which is far beyond any MaxAliveTime

ASSUME PoolAssumption ==
  /\ IsFiniteSet(Caller) /\ NoConn \notin Conn
  /\ MaxAliveTime \in Nat /\ Now \in Nat /\ Now > MaxAliveTime

VARIABLES
  m_conns,    \* the connections in the pool
  m_total,
  live,       \* the connections that are not deleted
  conn,       \* of each: its socket, whether the kernel has it connected, m_request
  user        \* where each caller is, its connection, and those it found invalid

poolVars == <<m_conns, m_total, live, conn, user>>

-----------------------------------------------------------------------------
(* Socket, as a client uses it *)

Closed == [m_sock |-> -1, m_isConnected |-> FALSE, up |-> FALSE]

\* connect(addr): newSock() and ::connect(), which succeeds.
SocketConnect(sock) == [sock EXCEPT !.m_sock = 0, !.up = TRUE]
\* close()
SocketClose(sock) == [sock EXCEPT !.m_isConnected = FALSE, !.m_sock = -1, !.up = FALSE]

NewConn == [sock |-> SocketConnect(Closed), m_request |-> 0]
isConnected(k) == conn[k].sock.m_isConnected
m_createTime == 0          \* nothing assigns it

Away == [at |-> "idle", ptr |-> NoConn, invalid |-> {}]

PoolInit ==
  /\ m_conns = <<>> /\ m_total = 0 /\ live = {}
  /\ conn = [k \in Conn |-> NewConn]
  /\ user = [c \in Caller |-> Away]

Ptr(c) == user[c].ptr
To(c, at) == user' = [user EXCEPT ![c] = [@ EXCEPT !.at = at]]

-----------------------------------------------------------------------------
(* getConnection *)

\* What the loop over the list takes, throws out and leaves.
FirstValid ==
  LET valid == {i \in DOMAIN m_conns :
                  isConnected(m_conns[i]) /\ ~(m_createTime + MaxAliveTime > Now)}
      n == IF valid = {} THEN Len(m_conns) + 1 ELSE CHOOSE i \in valid : \A j \in valid : i <= j
  IN  [ptr |-> IF valid = {} THEN NoConn ELSE m_conns[n],
       invalid |-> {m_conns[i] : i \in 1 .. n - 1},
       left |-> SubSeq(m_conns, n + 1, Len(m_conns))]

\* The part under the mutex.
getConnection(c) ==
  /\ user[c].at = "idle"
  /\ m_conns' = FirstValid.left
  /\ user' = [user EXCEPT ![c] = [at |-> "delete", ptr |-> FirstValid.ptr,
                                      invalid |-> FirstValid.invalid]]
  /\ UNCHANGED <<m_total, live, conn>>

DeleteInvalid(c) ==
  /\ user[c].at = "delete"
  /\ live' = live \ user[c].invalid
  /\ To(c, "subtract")
  /\ UNCHANGED <<m_conns, m_total, conn>>

SubtractInvalid(c) ==
  /\ user[c].at = "subtract"
  /\ m_total' = m_total - Cardinality(user[c].invalid)
  /\ user' = [user EXCEPT ![c] = [@ EXCEPT !.invalid = {},
                                           !.at = IF Ptr(c) = NoConn THEN "connect" ELSE "use"]]
  /\ UNCHANGED <<m_conns, live, conn>>

\* LookupAnyIPAddress, CreateTCP and connect(), which may fail, and the new
\* connection.
Connect(c) ==
  /\ user[c].at = "connect"
  /\ \E k \in Conn \ live :
       /\ live' = live \cup {k}
       /\ conn' = [conn EXCEPT ![k] = NewConn]
       /\ user' = [user EXCEPT ![c] = [@ EXCEPT !.ptr = k, !.at = "add"]]
  /\ UNCHANGED <<m_conns, m_total>>

ConnectFails(c) ==
  /\ user[c].at = "connect"
  /\ user' = [user EXCEPT ![c] = Away]
  /\ UNCHANGED <<m_conns, m_total, live, conn>>

AddTotal(c) ==
  /\ user[c].at = "add"
  /\ m_total' = m_total + 1
  /\ To(c, "use")
  /\ UNCHANGED <<m_conns, live, conn>>

-----------------------------------------------------------------------------
(* The use of a connection *)

\* doRequest: sendRequest() answers -1 (SEND_SOCKET_ERROR) on a socket that does
\* not say it is connected.
sendRequest(c) ==
  /\ user[c].at = "use" /\ ~isConnected(Ptr(c))
  /\ To(c, "release")
  /\ UNCHANGED <<m_conns, m_total, live, conn>>

\* A caller of getConnection() closes the stream before it lets go.
CloseStream(c) ==
  /\ user[c].at = "use" /\ conn[Ptr(c)].sock.m_sock # -1
  /\ conn' = [conn EXCEPT ![Ptr(c)] = [@ EXCEPT !.sock = SocketClose(conn[Ptr(c)].sock)]]
  /\ UNCHANGED <<m_conns, m_total, live, user>>

-----------------------------------------------------------------------------
(* ReleasePtr *)

Unfit(k) ==
  \/ ~isConnected(k)
  \/ m_createTime + MaxAliveTime >= Now
  \/ conn[k].m_request + 1 >= MaxRequest

\* It deletes the connection, or puts it into the list under the mutex.
ReleasePtr(c) ==
  /\ user[c].at = "release"
  /\ IF Unfit(Ptr(c))
     THEN /\ conn' = [conn EXCEPT ![Ptr(c)] = NewConn]
          /\ live' = live \ {Ptr(c)}
          /\ user' = [user EXCEPT ![c] = [@ EXCEPT !.ptr = NoConn, !.at = "decrement"]]
          /\ UNCHANGED m_conns
     ELSE /\ conn' = [conn EXCEPT ![Ptr(c)] = [@ EXCEPT !.m_request = conn[Ptr(c)].m_request + 1]]
          /\ m_conns' = Append(m_conns, Ptr(c))
          /\ user' = [user EXCEPT ![c] = Away]
          /\ UNCHANGED live
  /\ UNCHANGED m_total

\* Mutant: the connection is deleted but still counted.
DecrementTotal_Not(c) ==
  /\ user[c].at = "decrement"
  /\ user' = [user EXCEPT ![c] = Away]
  /\ UNCHANGED <<m_conns, m_total, live, conn>>

DecrementTotal(c) ==
  /\ user[c].at = "decrement"
  /\ m_total' = m_total - 1
  /\ user' = [user EXCEPT ![c] = Away]
  /\ UNCHANGED <<m_conns, live, conn>>

PoolNext ==
  \E c \in Caller :
    \/ getConnection(c) \/ DeleteInvalid(c) \/ SubtractInvalid(c)
    \/ Connect(c) \/ ConnectFails(c) \/ AddTotal(c)
    \/ sendRequest(c) \/ CloseStream(c)
    \/ ReleasePtr(c) \/ DecrementTotal(c)

PoolSpec == PoolInit /\ [][PoolNext]_poolVars

-----------------------------------------------------------------------------
CallersAt(at) == {c \in Caller : user[c].at = at}
\* The connections that were found invalid and deleted, and are still counted.
Discarded == UNION {{c} \X user[c].invalid : c \in CallersAt("subtract")}

\* m_total is the number of connections, but for those that a caller has created
\* or deleted and not yet counted: updates outside the mutex lose nothing.
TotalExact ==
  m_total + Cardinality(CallersAt("add")) =
    Cardinality(live) + Cardinality(CallersAt("decrement")) + Cardinality(Discarded)

\* isConnected() "returns whether it is connected" (socket_stream.h): it says so of
\* every connection in use that connect() has connected and nobody has closed.
ConnectedIsTold ==
  \A c \in Caller : user[c].at = "use" /\ conn[Ptr(c)].sock.up => isConnected(Ptr(c))
=============================================================================
