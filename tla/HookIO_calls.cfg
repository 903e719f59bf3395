CONSTANTS
  Event = {"WRITE"}
  Flags = {TRUE, FALSE}
  ConnectTimeout = 1
  Timeouts = {1}
  MaxCalls = 2
  MaxClock = 2
  MaxData = 1
SPECIFICATION FairSpec
INVARIANTS TimeoutNotEarly TimerHasWait
 
CHECK_DEADLOCK FALSE
