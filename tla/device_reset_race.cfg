CONSTANTS
  Threads = {t1, t2}
  None = None
  Capacities = {3}
  MaxEvents = 2
  Ops = {"open", "read", "IBS_ENABLE", "IBS_DISABLE", "RESET_BUFFER"}
  Opts = {1, 2}
  DefaultOpt = 1
  AllocFails = FALSE
SPECIFICATION Spec
INVARIANT OccupancyWhenIdle
