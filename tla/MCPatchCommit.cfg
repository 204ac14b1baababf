CONSTANTS
  N = 2
  Kinds <- AllKinds
  MaxWrites = 2
  MaxFaults = 2
  None = None
SPECIFICATION Spec
CHECK_DEADLOCK FALSE
INVARIANTS TypeOK NothingLost AllOrNothing FailureRestores
