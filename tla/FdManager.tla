----------------------------- MODULE FdManager ------------------------------
(***************************************************************************)
(* FdManager and the hooked calls that make and drop the contexts of       *)
(* descriptors: socket() and accept() create one under the number the      *)
(* kernel has just given out, close() drops it before the kernel has the   *)
(* number back.  Several threads do so at once, and numbers come again.    *)
(*                                                                         *)
(* A thread without hooks (t_hook_enable is per thread) passes close() on  *)
(* to the kernel and leaves the context where it is; its accept() creates  *)
(* one all the same.                                                       *)
(***************************************************************************)
EXTENDS Integers

CONSTANTS
  FdThread,    \* threads
  Hooking,     \* those with t_hook_enable
  FdNumber,    \* descriptor numbers
  DatasSize,   \* m_datas.size(), which never changes
  MaxOpens     \* bound: how many descriptors are opened

ASSUME FdAssumption ==
  Hooking \subseteq FdThread /\ FdNumber \subseteq Nat /\ DatasSize \in Nat /\ MaxOpens \in Nat

VARIABLES
  m_datas,    \* the contexts
  kernel,     \* which descriptor has each number: the opens are counted, Free is none
  opens,      \* how many have been opened
  fdThread,   \* what each thread is doing, with which descriptor
  owner,      \* which thread has each open descriptor to itself
  managed,    \* the descriptors for which get(fd, true) has returned
  leftOver,   \* numbers closed by a thread without hooks, the context left
  corrupted   \* m_datas was written beyond its end

fdVars == <<m_datas, kernel, opens, fdThread, owner, managed, leftOver, corrupted>>

Free == 0
NoFd == -1
NoCtx == [of |-> Free, timeoutOf |-> Free]
Doing(at, fd) == [at |-> at, fd |-> fd]

FdInit ==
  /\ m_datas = [fd \in FdNumber |-> NoCtx] /\ kernel = [fd \in FdNumber |-> Free]
  /\ opens = 0 /\ managed = {} /\ leftOver = {} /\ corrupted = FALSE
  /\ fdThread = [t \in FdThread |-> Doing("idle", NoFd)]
  /\ owner = [fd \in FdNumber |-> {}]

AtWith(t, at) == fdThread[t].at = at /\ ~corrupted
FdOf(t) == fdThread[t].fd
FdGoto(t, at) == fdThread' = [fdThread EXCEPT ![t] = Doing(at, FdOf(t))]

-----------------------------------------------------------------------------
(* socket and accept *)

\* socket_f() or accept_f() gives out a free number; without hooks socket() ends here.
OpenFd(t, call) ==
  /\ AtWith(t, "idle") /\ opens < MaxOpens
  /\ \E fd \in FdNumber :
       /\ kernel[fd] = Free
       /\ kernel' = [kernel EXCEPT ![fd] = opens + 1]
       /\ opens' = opens + 1
       /\ IF t \in Hooking \/ call = "accept"
          THEN fdThread' = [fdThread EXCEPT ![t] = Doing("get", fd)] /\ UNCHANGED owner
          ELSE owner' = [owner EXCEPT ![fd] = {t}] /\ UNCHANGED fdThread
  /\ UNCHANGED <<m_datas, managed, leftOver, corrupted>>

Opened(t) ==
  /\ fdThread' = [fdThread EXCEPT ![t] = Doing("idle", NoFd)]
  /\ owner' = [owner EXCEPT ![FdOf(t)] = {t}]
  /\ managed' = managed \cup {kernel[FdOf(t)]}

\* get(fd, true) under the read lock.
get(t) ==
  /\ AtWith(t, "get")
  /\ IF FdOf(t) < DatasSize /\ m_datas[FdOf(t)] # NoCtx
     THEN Opened(t)
     ELSE FdGoto(t, "create") /\ UNCHANGED <<owner, managed>>
  /\ UNCHANGED <<m_datas, kernel, opens, leftOver, corrupted>>

\* The rest of get(), under the write lock: a new FdCtx, with init().
CreateCtx(t) ==
  /\ AtWith(t, "create")
  /\ IF FdOf(t) < DatasSize
     THEN /\ m_datas' = [m_datas EXCEPT ![FdOf(t)] = [of |-> kernel[FdOf(t)], timeoutOf |-> Free]]
          /\ UNCHANGED corrupted
     ELSE corrupted' = TRUE /\ UNCHANGED m_datas
  /\ Opened(t)
  /\ UNCHANGED <<kernel, opens, leftOver>>

-----------------------------------------------------------------------------
(* Use and close *)

\* setsockopt(SO_RCVTIMEO) in a thread with hooks: get(fd), then setTimeout().
setTimeout(t, fd) ==
  /\ AtWith(t, "idle") /\ t \in Hooking /\ t \in owner[fd]
  /\ fd < DatasSize /\ m_datas[fd] # NoCtx
  /\ m_datas' = [m_datas EXCEPT ![fd] = [of |-> m_datas[fd].of, timeoutOf |-> kernel[fd]]]
  /\ UNCHANGED <<kernel, opens, fdThread, owner, leftOver, managed, corrupted>>

\* A descriptor goes to another thread.
PassOn(t, fd) ==
  /\ AtWith(t, "idle") /\ t \in owner[fd]
  /\ \E u \in FdThread \ {t} : owner' = [owner EXCEPT ![fd] = {u}]
  /\ UNCHANGED <<m_datas, kernel, opens, fdThread, leftOver, managed, corrupted>>

\* Mutant: the number goes back to the kernel first.
BeginClose_Early(t, fd) ==
  /\ AtWith(t, "idle") /\ t \in owner[fd]
  /\ owner' = [owner EXCEPT ![fd] = {}]
  /\ kernel' = [kernel EXCEPT ![fd] = Free]
  /\ fdThread' = [fdThread EXCEPT ![t] =
       Doing(IF t \in Hooking /\ fd < DatasSize /\ m_datas[fd] # NoCtx THEN "del" ELSE "close", fd)]
  /\ UNCHANGED <<m_datas, opens, leftOver, managed, corrupted>>

\* close(): get(fd) and, with a context, cancelAll().
BeginClose(t, fd) ==
  /\ AtWith(t, "idle") /\ t \in owner[fd]
  /\ owner' = [owner EXCEPT ![fd] = {}]
  /\ fdThread' = [fdThread EXCEPT ![t] =
       Doing(IF t \in Hooking /\ fd < DatasSize /\ m_datas[fd] # NoCtx THEN "del" ELSE "close", fd)]
  /\ UNCHANGED <<m_datas, kernel, opens, managed, leftOver, corrupted>>

del(t) ==
  /\ AtWith(t, "del")
  /\ m_datas' = [m_datas EXCEPT ![FdOf(t)] = NoCtx]
  /\ leftOver' = leftOver \ {FdOf(t)}
  /\ FdGoto(t, "close")
  /\ UNCHANGED <<kernel, opens, owner, managed, corrupted>>

close_f(t) ==
  /\ AtWith(t, "close")
  /\ kernel' = [kernel EXCEPT ![FdOf(t)] = Free]
  /\ leftOver' = IF m_datas[FdOf(t)] = NoCtx THEN leftOver ELSE leftOver \cup {FdOf(t)}
  /\ fdThread' = [fdThread EXCEPT ![t] = Doing("idle", NoFd)]
  /\ UNCHANGED <<m_datas, opens, owner, managed, corrupted>>

FdNext ==
  \E t \in FdThread :
    \/ \E call \in {"socket", "accept"} : OpenFd(t, call)
    \/ get(t) \/ CreateCtx(t)
    \/ \E fd \in FdNumber : setTimeout(t, fd) \/ PassOn(t, fd) \/ BeginClose(t, fd)
    \/ del(t) \/ close_f(t)

FdSpec == FdInit /\ [][FdNext]_fdVars

-----------------------------------------------------------------------------
\* A descriptor from socket() or accept() has a context while a thread has it, and
\* that context was made for it and had its timeouts set on it, not on an earlier
\* descriptor of the same number: close() drops the context while the number is
\* still taken.  The exception is a number that a thread without hooks has closed.
OwnContext ==
  ~corrupted => \A fd \in FdNumber \ leftOver :
    owner[fd] # {} /\ kernel[fd] \in managed =>
      /\ m_datas[fd].of = kernel[fd]
      /\ m_datas[fd].timeoutOf \in {Free, kernel[fd]}
=============================================================================
