SPECIFICATION FairSpec
CONSTANTS
  Getters = {g1, g2}
  MaxPoolSize = 1
  MinPoolSize = 0
  HasIdleTimeout = FALSE
  HasDeadline = TRUE
  MaxUint = 15
  MaxConnId = 2
  MaxGets = 2
  MaxClears = 0
  MaxMaintains = 0
  MaxDisconnects = 1
  MaxConnects = 1

CHECK_DEADLOCK FALSE
INVARIANTS ClosedEventsMatch
PROPERTIES CallsReturn
