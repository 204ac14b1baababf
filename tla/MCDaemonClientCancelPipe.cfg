CONSTANTS
  c1 = c1
  c2 = c2
  k1 = k1
  Callers = {c1, c2}
  Closers = {}
  Kinds = {"passive"}
  Cancelable = {c1}
  MaxAttempts = 1
  DeadlineStreams = FALSE
  None = None
SPECIFICATION Spec
CHECK_DEADLOCK FALSE
INVARIANTS CanceledCallIsCanceled
