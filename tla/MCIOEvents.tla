----------------------------- MODULE MCIOEvents -----------------------------
(***************************************************************************)
(* IOEvents in two situations, of which a behaviour has one: two           *)
(* descriptors beyond the table, whose growth races, with READ, deletions  *)
(* and one poller; or one of them with both events, every operation and    *)
(* all pollers.                                                            *)
(***************************************************************************)
EXTENDS IOEvents

VARIABLE growing

MCvars == <<vars, growing>>

OneFd == CHOOSE fd \in Fd : \A x \in Fd : x <= fd
OnePoller == CHOOSE p \in Poller : TRUE
Polls(p) == growing => p = OnePoller

MCInit == Init /\ growing \in BOOLEAN

\* What the situation leaves out does not happen.
Restricted ==
  IF growing
  THEN /\ \A f \in Fiber : req'[f] # Idle => req'[f].event = "READ" /\ req'[f].op \notin {"cancel", "cancelAll"}
       /\ \A fd \in Fd : "WRITE" \notin level'[fd]
       /\ \A p \in Poller \ {OnePoller} : batch'[p] = {}
  ELSE /\ \A f \in Fiber : req'[f] # Idle => req'[f].ctx[1] = OneFd
       /\ \A fd \in Fd \ {OneFd} : level'[fd] = {}

MCNext == Next /\ Restricted /\ UNCHANGED growing

MCSpec ==
  /\ MCInit /\ [][MCNext]_MCvars
  /\ \A p \in Poller : WF_vars(failed = {} /\ Polls(p) /\ idle(p))
  /\ \A f \in Fiber : WF_vars(failed = {} /\ Operation(f))
============================================================================
