CONSTANTS
  c1 = c1
  c2 = c2
  k1 = k1
  Callers = {c1, c2}
  Closers = {}
  Kinds = {"tool"}
  Cancelable = {c1}
  MaxAttempts = 1
  DeadlineStreams = TRUE
  None = None
SPECIFICATION Spec
CHECK_DEADLOCK FALSE
INVARIANTS NeverReplayed HonestUnsent CanceledCallIsCanceled
PROPERTIES KeepsPromise
