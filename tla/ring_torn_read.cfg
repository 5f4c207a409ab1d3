CONSTANTS
  Capacities = {3}
  MaxEvents = 5
SPECIFICATION RingSpec
INVARIANT ReadIsExact
