CONSTANTS
  Capacities = {1, 2, 3, 4}
  MaxEvents = 6
SPECIFICATION RingSpec
INVARIANTS
  EntriesAccounting
  EventConservation
  LiveRecords
  NoDataRace
  DeliveredInOrder
  CleanReadIsExact
PROPERTY ImplementsQueue
