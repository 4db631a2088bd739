SPECIFICATION Spec
CONSTANTS
  Ops = {o1}
  Inputs = 12
  Mutexes = {1, 2, 3, 4}
  NoMutex = NoMutex
  Profiles <- DenseProfiles
INVARIANT RequiredMutexHeld
CHECK_DEADLOCK FALSE
