CONSTANTS
  Threads = {t1, t2}
  None = None
  Capacities = {2}
  MaxEvents = 2
  Ops = {"open", "read", "poll", "IBS_ENABLE", "IBS_DISABLE"}
  Opts = {1, 2}
  DefaultOpt = 1
  AllocFails = FALSE
SPECIFICATION FairSpec
PROPERTIES
  CallsFinish
  ReaderNotStranded
  PollerNotStranded
