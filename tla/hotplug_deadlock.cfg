CONSTANTS
  NumCpus = 2
  Smt = 2
  MaxPlug = 2
  MaxOpen = 1
SPECIFICATION Spec
CHECK_DEADLOCK FALSE
INVARIANT NoOfflineInTransition
