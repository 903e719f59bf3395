CONSTANTS
  Worker = {w1, w2}
  Root = r
  UseCaller = FALSE
  Task = {k1, k2, k3}
  None = None
  OwnerPins = {None, w1}
  TaskPins = {None}
  MaxYields = 1
  MaxStarts = 2
SPECIFICATION Spec
INVARIANTS OneThreadPerFiber NoAssertionFails NoFiberLost CountersExact StopDrains
SYMMETRY TaskSymmetry
CHECK_DEADLOCK FALSE
