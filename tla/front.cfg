SPECIFICATION FairSpec
CONSTANTS
  Conns = {c1, c2}
  Timers = {sweep}
  None = None
  Limit = 2
  PoolMax = 1
  MaxRequests = 2
  MaxFailures = 1
INVARIANTS FrontConsistent NothingAbandoned
PROPERTIES EveryRequestEnds ShutdownEnds
CHECK_DEADLOCK FALSE
