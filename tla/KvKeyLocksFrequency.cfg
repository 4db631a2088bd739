SPECIFICATION Spec
CONSTANTS
  Threads = {t1, t2}
  MaxCalls = 3
  MaxValue = 1
  MaxCount = 3
  Kinds = {"gather"}
  NoRow = NoRow
  Done = Done
  NoReply = NoReply
INVARIANT FrequencyIsTotal
CHECK_DEADLOCK FALSE
