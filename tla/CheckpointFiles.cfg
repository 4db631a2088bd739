CONSTANTS
  checkpoint_ext = checkpoint_ext
  temp_ext = temp_ext
  temp_data = temp_data
  Names <- MCNames
  PartSize = 2
  MaxListed = 2
  ReadAhead = 2
  MaxFaults = 2
  None = None
  Garbage = Garbage
  MaxStep = 4
  Chunks <- MCChunks
  MaxCrashes = 1
  Reads <- MCReads
  StateFile <- checkpoint_ext
  Temp <- MCTemp
SPECIFICATION Spec
INVARIANTS
  CurrentIsComplete
  HistoryIsComplete
  ChainFollowsLog
  NothingOrphaned
  RecordedSurvives
  ReadsAreFaithful
CHECK_DEADLOCK FALSE
