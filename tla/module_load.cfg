CONSTANTS
  NumCpus = 3
  Smt = 2
  MaxPlug = 3
  MaxOpen = 1
SPECIFICATION Spec
CHECK_DEADLOCK FALSE
INVARIANTS
  UsersBacked
  SamplingHasHandler
  NoDoubleRelease
  UnloadRestores
  DownIsClean
