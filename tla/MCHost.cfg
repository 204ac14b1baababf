CONSTANTS
  Calls = {c1, c2}
  Startup = Startup
  Names = {n1, n2}
  Home = n1
  Aliases = {a1, a2}
  Pinned = a1
  Setups = {{"daemon", "master", "helper"}, {"master", "helper"}, {}}
  MaxFaults = 1
  Cap = 1
  Watched = {"connect", "delete"}
  None = None
SYMMETRY Symmetry
SPECIFICATION Spec
INVARIANTS TypeOK NoExecutorLeaks StatusHonest AnswerKept RunOnce
