SPECIFICATION MixedSpec
CONSTANTS
  Width = 4
  MaxLookups = 9
  Keys = {k1, k2}
  MaxValue = 1
  MaxCount = 1
  EnterThreshold = 1
  SupportDelta = TRUE
  SupportPrediction = FALSE
  Cutoffs = {1, 2}
  Absent = Absent
  Snapshots <- MCSnapshots
  Deltas <- MCDeltas
  Ops <- OpKinds
  Heap = {b1, b2, b3}
  Tensors = {t1, t2}
  ZeroBuf = ZeroBuf
  Null = Null
  NoTensor = NoTensor
  Freed = Freed
SYMMETRY HeapSymmetry
INVARIANT BlacklistedIsZero
CHECK_DEADLOCK FALSE
