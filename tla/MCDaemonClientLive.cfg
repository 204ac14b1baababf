CONSTANTS
  c1 = c1
  c2 = c2
  k1 = k1
  Callers = {c1}
  Closers = {k1}
  Kinds = {"tool", "passive"}
  Cancelable = {c1}
  MaxAttempts = 1
  DeadlineStreams = FALSE
  None = None
SPECIFICATION FairSpec
CHECK_DEADLOCK FALSE
INVARIANTS QuietAfterClose
PROPERTIES EveryCallReturns CloseStopsEveryDaemon
