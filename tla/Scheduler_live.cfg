CONSTANTS
  Worker = {w1}
  Root = r
  UseCaller = TRUE
  Task = {k1, k2}
  None = None
  OwnerPins = {None, w1}
  TaskPins = {None}
  MaxYields = 1
  MaxStarts = 1
SPECIFICATION FairSpec
PROPERTIES StopReturns QueuedIsTaken
CHECK_DEADLOCK FALSE
