CONSTANTS
  Siblings = 2
  MaxCalls = 3
  Saved = TRUE
SPECIFICATION Spec
INVARIANTS
  Wa1Restored
  WorkedAroundUnlessRaced
