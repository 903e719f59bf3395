------------------------------- MODULE Daemon --------------------------------
(***************************************************************************)
(* start_daemon(): the main function runs in this process, or in a child   *)
(* that a parent forks, waits for, and forks again when it has crashed.    *)
(***************************************************************************)
EXTENDS Integers

CONSTANTS
  ExitCode,      \* what the main function may return
  Signal,        \* signals that may end it
  MaxRestart     \* bound: how often the child is forked again

SIGKILL == 9

VARIABLES
  is_daemon,
  parent,         \* where real_daemon() is, or what it has returned
  child,          \* the process that runs the main function: none, running or its wait status
  restart_count

daemonVars == <<is_daemon, parent, child, restart_count>>

None == -1
Running == -2

\* start_daemon(): without is_daemon, real_start() in this process.
DaemonInit ==
  /\ is_daemon \in BOOLEAN
  /\ parent = IF is_daemon THEN "fork" ELSE "start"
  /\ child = IF is_daemon THEN None ELSE Running
  /\ restart_count = 0

fork ==
  /\ parent = "fork"
  /\ \/ parent' = "wait" /\ child' = Running
     \/ parent' = "failed" /\ UNCHANGED child
  /\ UNCHANGED <<is_daemon, restart_count>>

\* External: the main function returns, or a signal ends it.  The status is as
\* waitpid() stores it: of the exit code it has the low eight bits.
ChildEnds ==
  /\ child = Running
  /\ child' \in {(c % 256) * 256 : c \in ExitCode} \cup Signal
  /\ UNCHANGED <<is_daemon, parent, restart_count>>

\* Mutant: every signal is taken for the one that kills.
waitpid_AnySignal ==
  /\ parent = "wait" /\ child # Running
  /\ child' = None
  /\ IF child # 0 /\ child \notin Signal
     THEN parent' = "sleep" /\ restart_count' = restart_count + 1
     ELSE parent' = "returned" /\ UNCHANGED restart_count
  /\ UNCHANGED is_daemon

waitpid ==
  /\ parent = "wait" /\ child # Running
  /\ child' = None
  /\ IF child # 0 /\ child # SIGKILL
     THEN parent' = "sleep" /\ restart_count' = restart_count + 1
     ELSE parent' = "returned" /\ UNCHANGED restart_count
  /\ UNCHANGED is_daemon

\* sleep(g_daemon_restart_interval)
Sleep ==
  /\ parent = "sleep" /\ restart_count <= MaxRestart
  /\ parent' = "fork"
  /\ UNCHANGED <<is_daemon, child, restart_count>>

DaemonNext == fork \/ ChildEnds \/ waitpid \/ Sleep
DaemonSpec == DaemonInit /\ [][DaemonNext]_daemonVars
DaemonFairness == WF_daemonVars(fork \/ waitpid \/ Sleep)

-----------------------------------------------------------------------------
\* A main function that a signal other than SIGKILL has ended, or that has returned
\* what eight bits do not show as zero, is started again by its parent, unless
\* fork() fails or the bound is reached.
CrashIsRestarted ==
  is_daemon /\ child > 0 /\ child # SIGKILL ~>
    child = Running \/ parent = "failed" \/ restart_count > MaxRestart
=============================================================================
