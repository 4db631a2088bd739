SPECIFICATION EarlyBlacklistSpec
CONSTANTS
  Keys = {k1, k2}
  MaxValue = 1
  MaxCount = 2
  EnterThreshold = 2
  SupportDelta = TRUE
  SupportPrediction = TRUE
  Cutoffs = {1}
  Absent = Absent
  Snapshots <- NoPayload
  Deltas <- NoPayload
SYMMETRY KeySymmetry
INVARIANT InferenceRowsAreCounted
CHECK_DEADLOCK FALSE
