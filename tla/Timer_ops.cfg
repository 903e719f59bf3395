CONSTANTS
  Timer = {t1, t2}
  Poller = {p1, p2}
  Periods = {1, 2}
  Hour = 1
  Start = 1
  MaxClock = 3
  MaxSetBacks = 0
SPECIFICATION Spec
 
PROPERTIES AlarmsKept
SYMMETRY Symmetry
