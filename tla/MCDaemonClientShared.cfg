CONSTANTS
  c1 = c1
  c2 = c2
  k1 = k1
  Callers = {c1, c2}
  Closers = {}
  Kinds = {"ping"}
  Cancelable = {}
  MaxAttempts = 2
  DeadlineStreams = FALSE
  None = None
SYMMETRY Symmetry
SPECIFICATION Spec
CHECK_DEADLOCK FALSE
INVARIANTS TypeOK SingleReconnect ResponsePinned
PROPERTIES OnlyDeadReplaced
