CONSTANTS
  Threads = {t1}
  None = None
  Capacities = {1, 2, 3}
  MaxEvents = 4
  Ops = {"open", "release", "read", "read_nonblock", "poll", "get_lost", "IBS_ENABLE", "IBS_DISABLE", "SET_OPT", "SET_POLL_SIZE", "SET_BUFFER_SIZE", "RESET_BUFFER"}
  Opts = {1, 2}
  DefaultOpt = 1
  AllocFails = TRUE
SPECIFICATION Spec
INVARIANTS
  RingConsistent
  SessionIsolation
  OrderAcrossResets
  HardwareFollowsCtl
  ResetIsQuiet
