CONSTANTS
  r1 = r1
  r2 = r2
  r3 = r3
  Requests = {r1, r2, r3}
  Kinds = {"tmux", "process", "stop", "wait"}
  TmuxFails = TRUE
  Restarts = 1
  None = None
SYMMETRY Symmetry
SPECIFICATION Spec
CHECK_DEADLOCK FALSE
INVARIANTS Stoppable OneSession StoppedIsDead FailedStartNeverRan NoStrandedWait
