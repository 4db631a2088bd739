CONSTANTS
  w1 = w1
  w2 = w2
  c1 = c1
  c2 = c2
  g1 = g1
  Workers <- MCWorkers
  Chief = Chief
  Creators <- MCCreators
  Gatherers <- MCGatherers
  Graph <- MCGraph
  None = None
  Gone = Gone
  Checkpoints <- MCCheckpoints
SPECIFICATION Spec
INVARIANTS
  TypeOK
  HandleIsReady
  NothingFreedInUse
  LeaksOnlyByRace
  DrawsFromRows
  TrainsAfterRestore
PROPERTY
  EveryCreateReturns
CHECK_DEADLOCK FALSE
