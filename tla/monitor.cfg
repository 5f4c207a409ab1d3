CONSTANTS
  NumCpus = 1
  Capacity = 3
  PollArgs = {0, 1, 2, 3}
  MaxEvents = 5
SPECIFICATION FairSpec
CHECK_DEADLOCK FALSE
INVARIANTS
  SamplesAccounted
  OnlyLateMissed
  SamplingStops
PROPERTIES
  MonitorEnds
  FullRingIsRead
