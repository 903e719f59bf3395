----------------------------- MODULE MCLibrary ------------------------------
(***************************************************************************)
(* The components that do not share state, side by side: one of them runs  *)
(* in each behaviour, the others stay in an initial state.                 *)
(***************************************************************************)
EXTENDS HttpRequestParser, HttpResponseParser, ByteArray, ByteCodec,
        HttpConnectionPool, Log, FdManager, TcpServer, Daemon

VARIABLE unit      \* the component that runs

libraryVars == <<unit, requestVars, responseVars, arrayVars, codecVars, poolVars, logVars,
                 fdVars, serverVars, daemonVars>>

Unit == {"request", "response", "array", "codec", "pool", "log", "fds", "server", "daemon"}

LibraryInit ==
  /\ unit \in Unit
  /\ RequestInit /\ ResponseInit /\ ArrayInit /\ CodecInit /\ PoolInit /\ LogInit /\ FdInit
  /\ ServerInit /\ (unit # "server" => threads = 1)
  /\ DaemonInit /\ (unit # "daemon" => is_daemon)

\* Everything but the component u stays as it is.
Only(u) ==
  /\ unit = u /\ UNCHANGED unit
  /\ IF u = "request" THEN TRUE ELSE UNCHANGED requestVars
  /\ IF u = "response" THEN TRUE ELSE UNCHANGED responseVars
  /\ IF u = "array" THEN TRUE ELSE UNCHANGED arrayVars
  /\ IF u = "codec" THEN TRUE ELSE UNCHANGED codecVars
  /\ IF u = "pool" THEN TRUE ELSE UNCHANGED poolVars
  /\ IF u = "log" THEN TRUE ELSE UNCHANGED logVars
  /\ IF u = "fds" THEN TRUE ELSE UNCHANGED fdVars
  /\ IF u = "server" THEN TRUE ELSE UNCHANGED serverVars
  /\ IF u = "daemon" THEN TRUE ELSE UNCHANGED daemonVars

LibraryNext ==
  \/ Only("request") /\ RequestNext
  \/ Only("response") /\ ResponseNext
  \/ Only("array") /\ ArrayNext
  \/ Only("codec") /\ CodecNext
  \/ Only("pool") /\ PoolNext
  \/ Only("log") /\ LogNext
  \/ Only("fds") /\ FdNext
  \/ Only("server") /\ ServerNext
  \/ Only("daemon") /\ DaemonNext

\* The fairness of each component, while it is the one that runs.
LibraryFairness ==
  /\ WF_responseVars(unit = "response" /\ BufferEnds)
  /\ WF_responseVars(unit = "response" /\ HeadersRead)
  /\ WF_responseVars(unit = "response" /\ ChunkHeader)
  /\ SF_responseVars(unit = "response" /\ ResponseReadFails)
  /\ WF_serverVars(unit = "server" /\ TakeFiber)
  /\ WF_serverVars(unit = "server" /\ \E f \in running : f.kind = "client" /\ RunFiber(f))
  /\ WF_serverVars(unit = "server" /\ \E f \in running : f.kind # "client" /\ RunFiber(f))
  /\ WF_daemonVars(unit = "daemon" /\ (fork \/ waitpid \/ Sleep))

LibrarySpec == LibraryInit /\ [][LibraryNext]_libraryVars /\ LibraryFairness

-----------------------------------------------------------------------------
(* Values of "logs": definitions of loggers a and b *)

App(type, formatter) == [type |-> type, formatter |-> formatter]
Def(name, level, formatter, appenders) ==
  [name |-> name, level |-> level, formatter |-> formatter, appenders |-> appenders]

MCValue ==
  {{},
   {Def("a", 2, "", <<App("file", "")>>),
    Def("b", 3, "p", <<App("file", "invalid"), App("stdout", "")>>)},
   {Def("a", 2, "", <<App("stdout", "q")>>),
    Def("b", 2, "p", <<App("file", "")>>)}}
MCDefault == {}
MCSame(s, t) == DefinesEq(s, t)
=============================================================================
