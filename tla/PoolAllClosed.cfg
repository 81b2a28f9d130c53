SPECIFICATION Spec
CONSTANTS
  Getters = {g1}
  MaxPoolSize = 1
  MinPoolSize = 1
  HasIdleTimeout = FALSE
  HasDeadline = FALSE
  MaxUint = 15
  MaxConnId = 3
  MaxGets = 0
  MaxClears = 0
  MaxMaintains = 0
  MaxDisconnects = 1
  MaxConnects = 1
SYMMETRY GetterSymmetry
CHECK_DEADLOCK FALSE
INVARIANTS AllClosedAfterDisconnect
