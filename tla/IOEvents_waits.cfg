CONSTANTS
  Fd = {2, 4}
  Events = {"READ", "WRITE"}
  Fiber = {f1, f2}
  Poller = {p1, p2}
  Ops = {"del", "cancel", "cancelAll"}
  None = None
  FirstSize = 2
  MaxGen = 1
SPECIFICATION MCSpec
INVARIANTS WaitersExact PendingExact InterestKept
PROPERTIES ReadyIsDelivered
CHECK_DEADLOCK FALSE
