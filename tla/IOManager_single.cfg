CONSTANTS
  Worker = {}
  Root = r
  UseCaller = TRUE
  Task = {k1, k2, k3}
  None = None
  OwnerPins = {None}
  TaskPins = {None}
  MaxYields = 1
  MaxStarts = 1
  PipeCap = 8
SPECIFICATION IOFairSpec
INVARIANTS IOStopComplete
PROPERTIES IOStopReturns
CHECK_DEADLOCK FALSE
