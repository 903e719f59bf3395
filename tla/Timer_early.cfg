CONSTANTS
  Timer = {t1}
  Poller = {p1, p2}
  Periods = {2}
  Hour = 1
  Start = 1
  MaxClock = 3
  MaxSetBacks = 1
SPECIFICATION FairSpec
PROPERTIES  DueFires
