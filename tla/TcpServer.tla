----------------------------- MODULE TcpServer ------------------------------
(***************************************************************************)
(* TcpServer, with all its workers one IOManager as by default:            *)
(* startAccept for every listening socket, the task that stop() leaves     *)
(* behind and handleClient for every client are fibers that share its      *)
(* threads, in the order of its queue.                                     *)
(*                                                                         *)
(* A listening socket is made by socket() and FdCtx::init() does not set   *)
(* O_NONBLOCK on it, so an accept() with nothing to accept waits in the    *)
(* kernel, thread and all; neither cancelAll() nor close() ends that wait. *)
(* The closing task is one step: two of them at once, after two stop(),    *)
(* would race for m_socks.                                                 *)
(***************************************************************************)
EXTENDS Integers, Sequences, FiniteSets

CONSTANTS
  ListenSock,   \* listening sockets
  NoSock,
  ThreadCounts, \* how many threads the IOManager may have
  MaxClients,   \* bound: clients that connect
  MaxServerCalls      \* bound: calls of bind(), start() and stop()

\* There are finitely many sockets.
ASSUME ServerAssumption ==
  NoSock \notin ListenSock /\ \A S \in SUBSET ListenSock : Cardinality(S) \in Nat

VARIABLES
  threads,      \* how many threads the IOManager has
  m_isStop,
  m_socks,
  sockOpen,     \* sockets with m_sock # -1
  m_fibers,     \* the fibers scheduled
  running,      \* the fibers that have a thread
  backlog,      \* clients that wait to be accepted on each socket
  clients,      \* how many have connected
  serverCalls,  \* how many calls were made
  early         \* start() was called before a stop() had taken effect

serverVars ==
  <<threads, m_isStop, m_socks, sockOpen, m_fibers, running, backlog, clients, serverCalls, early>>

Task(kind, n, s) == [kind |-> kind, n |-> n, s |-> s, at |-> "start"]
Queued == {m_fibers[i] : i \in DOMAIN m_fibers}
Fibers == running \cup Queued
Acceptors == {f \in Fibers : f.kind = "accept"}

\* The constructor, and sockets nobody has bound.
ServerInit ==
  /\ threads \in ThreadCounts
  /\ m_isStop = TRUE /\ m_socks = {} /\ sockOpen = {}
  /\ m_fibers = <<>> /\ running = {} /\ backlog = [s \in ListenSock |-> 0]
  /\ clients = 0 /\ serverCalls = 0 /\ early = FALSE

-----------------------------------------------------------------------------
(* The calls *)

ServerCall == serverCalls < MaxServerCalls /\ serverCalls' = serverCalls + 1

\* Sockets that no fiber has, and that their destructor closes.
Unreferenced(S) == {s \in S : \A f \in Fibers : f.s # s}

\* bind(addrs): sockets for some addresses, or, one of them failing, none at all:
\* those of earlier calls are dropped too.
bind ==
  /\ ServerCall
  /\ \/ \E S \in SUBSET Unreferenced(ListenSock \ m_socks) \ {{}} :
          m_socks' = m_socks \cup S /\ sockOpen' = sockOpen \cup S
     \/ m_socks' = {} /\ sockOpen' = sockOpen \ Unreferenced(m_socks)
  /\ UNCHANGED <<threads, m_isStop, m_fibers, running, backlog, clients, early>>

\* The acceptors of start() in the order of m_socks, which is any order.
AcceptorsFor(S) ==
  {q \in [1 .. Cardinality(S) -> {Task("accept", serverCalls, s) : s \in S}] :
     \A i, j \in DOMAIN q : q[i] = q[j] => i = j}

start ==
  /\ m_isStop /\ ServerCall
  /\ m_isStop' = FALSE
  /\ \E q \in AcceptorsFor(m_socks) : m_fibers' = m_fibers \o q
  /\ early' = (early \/ \E f \in Fibers : f.kind \in {"close", "accept"})
  /\ UNCHANGED <<threads, m_socks, sockOpen, running, backlog, clients>>

\* Mutant: the flag is left as it is.
stop_NoFlag ==
  /\ ServerCall
  /\ m_fibers' = Append(m_fibers, Task("close", serverCalls, NoSock))
  /\ UNCHANGED <<threads, m_isStop, m_socks, sockOpen, running, backlog, clients, early>>

stop ==
  /\ ServerCall
  /\ m_isStop' = TRUE
  /\ m_fibers' = Append(m_fibers, Task("close", serverCalls, NoSock))
  /\ UNCHANGED <<threads, m_socks, sockOpen, running, backlog, clients, early>>

-----------------------------------------------------------------------------
(* The fibers *)

\* External: a thread of the IOManager takes the next fiber.
TakeFiber ==
  /\ m_fibers # <<>> /\ Cardinality(running) < threads
  /\ running' = running \cup {Head(m_fibers)} /\ m_fibers' = Tail(m_fibers)
  /\ UNCHANGED <<threads, m_isStop, m_socks, sockOpen, backlog, clients, serverCalls, early>>

FiberGoto(f, at) == running' = (running \ {f}) \cup {[f EXCEPT !.at = at]}
FiberEnds(f) == running' = running \ {f}

\* startAccept: the test of the loop.
TestStop(f) ==
  /\ f.kind = "accept" /\ f.at = "start"
  /\ IF m_isStop THEN FiberEnds(f) ELSE FiberGoto(f, "accept")
  /\ UNCHANGED <<threads, m_isStop, m_socks, sockOpen, m_fibers, backlog, clients, serverCalls, early>>

\* Socket::accept() on a closed socket fails, and is tried again.
AcceptCall(f) ==
  /\ f.kind = "accept" /\ f.at = "accept"
  /\ FiberGoto(f, IF f.s \in sockOpen THEN "kernel" ELSE "start")
  /\ UNCHANGED <<threads, m_isStop, m_socks, sockOpen, m_fibers, backlog, clients, serverCalls, early>>

\* accept_f() returns a client, whose handleClient is scheduled.
Accepted(f) ==
  /\ f.kind = "accept" /\ f.at = "kernel" /\ backlog[f.s] > 0
  /\ backlog' = [backlog EXCEPT ![f.s] = @ - 1]
  /\ m_fibers' = Append(m_fibers, Task("client", clients, NoSock))
  /\ FiberGoto(f, "start")
  /\ UNCHANGED <<threads, m_isStop, m_socks, sockOpen, clients, serverCalls, early>>

\* Mutant: the task waits, on its thread, for the acceptors to end.
CloseSockets_Waits(f) ==
  /\ f.kind = "close" /\ Acceptors = {}
  /\ FiberEnds(f)
  /\ sockOpen' = sockOpen \ m_socks /\ m_socks' = {}
  /\ UNCHANGED <<threads, m_isStop, m_fibers, backlog, clients, serverCalls, early>>

\* The lambda of stop(): cancelAll() and close() for every socket.
CloseSockets(f) ==
  /\ f.kind = "close"
  /\ FiberEnds(f)
  /\ sockOpen' = sockOpen \ m_socks /\ m_socks' = {}
  /\ UNCHANGED <<threads, m_isStop, m_fibers, backlog, clients, serverCalls, early>>

\* handleClient() ends, at the latest when the socket's receive timeout does.
HandleClient(f) ==
  /\ f.kind = "client"
  /\ FiberEnds(f)
  /\ UNCHANGED <<threads, m_isStop, m_socks, sockOpen, m_fibers, backlog, clients, serverCalls, early>>

\* External: a client connects.
ClientConnects(s) ==
  /\ clients < MaxClients
  /\ s \in sockOpen \/ \E f \in running : f.s = s /\ f.at = "kernel"
  /\ backlog' = [backlog EXCEPT ![s] = @ + 1] /\ clients' = clients + 1
  /\ UNCHANGED <<threads, m_isStop, m_socks, sockOpen, m_fibers, running, serverCalls, early>>

RunFiber(f) ==
  f \in running /\ (TestStop(f) \/ AcceptCall(f) \/ Accepted(f) \/ CloseSockets(f) \/ HandleClient(f))

ServerNext ==
  \/ bind \/ start \/ stop \/ TakeFiber
  \/ \E f \in running : RunFiber(f)
  \/ \E s \in ListenSock : ClientConnects(s)

ServerSpec == ServerInit /\ [][ServerNext]_serverVars

\* Threads run the fibers they have and take new ones.
ServerFairness ==
  /\ WF_serverVars(TakeFiber)
  /\ WF_serverVars(\E f \in running : f.kind = "client" /\ RunFiber(f))
  /\ WF_serverVars(\E f \in running : f.kind # "client" /\ RunFiber(f))

-----------------------------------------------------------------------------
\* While the server is started its acceptors have their sockets; one finds its
\* socket closed, and turns in its loop for good, only when start() was called
\* before a stop() had closed the sockets and every acceptor had seen the flag.
ClosedOnlyAfterEarlyStart ==
  \A f \in running : f.kind = "accept" /\ f.at = "accept" /\ ~m_isStop /\ ~early => f.s \in sockOpen

\* A client that was accepted is handled, unless there are as many acceptors as
\* threads: they keep their threads while they wait in accept().
ClientIsHandled ==
  \A n \in 1 .. MaxClients :
    (\E f \in Fibers : f.kind = "client" /\ f.n = n) ~>
      \/ ~\E f \in Fibers : f.kind = "client" /\ f.n = n
      \/ Cardinality(Acceptors) >= threads
=============================================================================
