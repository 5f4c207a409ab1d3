CONSTANTS
  Flavors = {"op", "fetch"}
  Workarounds = {TRUE, FALSE}
SPECIFICATION Spec
INVARIANTS
  OnlyDiscardedUnknown
  NoPhantomSample
  StoppedStaysOff
