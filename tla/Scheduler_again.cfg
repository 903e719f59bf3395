CONSTANTS
  Worker = {w1}
  Root = r
  UseCaller = FALSE
  Task = {k1, k2, k3}
  None = None
  OwnerPins = {None, w1}
  TaskPins = {None}
  MaxYields = 1
  MaxStarts = 1
SPECIFICATION SpecAgain
PROPERTIES FinishedForGood
SYMMETRY TaskSymmetry
CHECK_DEADLOCK FALSE
