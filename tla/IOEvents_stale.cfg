CONSTANTS
  Fd = {0}
  Events = {"READ", "WRITE"}
  Fiber = {f1, f2, f3}
  Poller = {p1, p2}
  Ops = {}
  None = None
  FirstSize = 2
  MaxGen = 0
SPECIFICATION Spec
INVARIANTS TriggerAssertionHolds
CHECK_DEADLOCK FALSE
