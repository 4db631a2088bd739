SPECIFICATION Spec
CONSTANTS
  Kernels <- AllKernels
  Workers = {w1, w2}
  MaxRows = 2
  Exempt <- KnownExceptions
  Absent = Absent
  None = None
SYMMETRY WorkerSymmetry
INVARIANTS
  ChainFaithful
  CutoffDropsOnlySmall
  RowsLive
  NamesKeepTheirValue
  AppliedOnce
  TablesHeld
  BadNeverTrains
  RowsAreWhole
CHECK_DEADLOCK FALSE
