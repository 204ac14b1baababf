CONSTANTS
  b1 = b1
  s1 = s1
  f1 = f1
  Requests = {b1, f1, s1}
  Id <- SharedId
  Verb <- SharedVerb
  Escapes = TRUE
SPECIFICATION FairSpec
CHECK_DEADLOCK FALSE
INVARIANTS Reachable NoOrphans
PROPERTIES ServesPeer CancelIsAnswered EndOfInputEnds
