------------------------------- MODULE Alarms -------------------------------
(***************************************************************************)
(* What timers promise their users.  An alarm is set for once or for again *)
(* and again; it may go off while it is set; one set for once is done with *)
(* when it has gone off; and one that was cancelled never goes off again.  *)
(* Times, the ordered set and the threads that serve it do not appear.     *)
(***************************************************************************)
EXTENDS Naturals

CONSTANT Timer

VARIABLES
  alarm,    \* "free", "once", "recurring", "done" or "cancelled"
  fired     \* how often each has gone off: 0, 1, 2 for more

Init ==
  /\ alarm = [t \in Timer |-> "free"]
  /\ fired = [t \in Timer |-> 0]

Becomes(t, state) == alarm'[t] = state /\ fired'[t] = fired[t]

Set(t) == alarm[t] = "free" /\ (Becomes(t, "once") \/ Becomes(t, "recurring"))

GoOff(t) ==
  /\ alarm[t] \in {"once", "recurring"}
  /\ fired'[t] = IF fired[t] < 2 THEN fired[t] + 1 ELSE 2
  /\ alarm'[t] = IF alarm[t] = "once" THEN "done" ELSE "recurring"

Cancel(t) == alarm[t] \in {"once", "recurring"} /\ Becomes(t, "cancelled")

\* Several alarms may do a step at once.
Next == \A t \in Timer : Becomes(t, alarm[t]) \/ Set(t) \/ GoOff(t) \/ Cancel(t)

Spec == Init /\ [][Next]_<<alarm, fired>>
=============================================================================
