CONSTANTS
  NumCpus = 2
  Flavors = {0}
  Capacity = 2
  PollNum = 2
  MaxSamples = 3
  Timeout = TRUE
SPECIFICATION FairSpec
CHECK_DEADLOCK FALSE
INVARIANTS
  NoOrphanSampling
  DescriptorsKnown
  WithinMaxSamples
  ReadIsFull
PROPERTIES
  DaemonStops
  ToolTakesDaemonAlong
