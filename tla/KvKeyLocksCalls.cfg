SPECIFICATION Spec
CONSTANTS
  Threads = {t1, t2, t3}
  MaxCalls = 4
  MaxValue = 1
  MaxCount = 3
  Kinds = {"gather", "lookup", "count", "update", "scatter", "train", "delete", "import"}
  NoRow = NoRow
  Done = Done
  NoReply = NoReply
INVARIANTS PointersStayValid FrequencyNeverAhead
PROPERTIES CallsAreAtomic EveryCallReturns
CHECK_DEADLOCK FALSE
