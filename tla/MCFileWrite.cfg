SPECIFICATION Spec
CONSTANTS
  Writers = {w1, w2}
  MaxWrites = 2
  MaxFaults = 2
  None = None
SYMMETRY Symmetry
INVARIANTS TypeOK NothingLost NoLostUpdate HonestFailure
CHECK_DEADLOCK FALSE
