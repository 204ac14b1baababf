CONSTANTS
  bash = bash
  other = other
  Starter = bash
  Others = {other}
  Length = 1
  Tail = 1
  Markers = {0}
  r1 = r1
  r2 = r2
  Requests = {r1, r2}
  Kinds = {"tmux", "process", "stop", "wait"}
  TmuxFails = TRUE
  Restarts = 0
  None = None
SPECIFICATION PartSpec
CHECK_DEADLOCK FALSE
INVARIANTS LeavesRunning
