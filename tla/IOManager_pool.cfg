CONSTANTS
  Worker = {w1, w2}
  Root = r
  UseCaller = FALSE
  Task = {k1, k2}
  None = None
  OwnerPins = {None}
  TaskPins = {None}
  MaxYields = 1
  MaxStarts = 1
  PipeCap = 6
SPECIFICATION IOSpec
INVARIANTS PendingCounted HeldHasWaker StopDrains OneThreadPerFiber
SYMMETRY Symmetry
CHECK_DEADLOCK FALSE
