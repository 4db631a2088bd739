SPECIFICATION Spec
CONSTANTS
  Kernels <- LateKernels
  Workers = {w1, w2}
  MaxRows = 2
  Exempt <- NoExceptions
  Absent = Absent
  None = None
SYMMETRY WorkerSymmetry
INVARIANT CutoffDropsOnlySmall
CHECK_DEADLOCK FALSE
