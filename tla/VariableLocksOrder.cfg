SPECIFICATION Spec
CONSTANTS
  Ops = {o1, o2, o3}
  Inputs = 2
  Mutexes = {1, 2, 3}
  NoMutex = NoMutex
  Profiles <- SparseProfiles
INVARIANTS WaitsGoUp ExclusiveUpdate RequiredMutexHeld
PROPERTY EveryOpFinishes
CHECK_DEADLOCK FALSE
