SPECIFICATION Spec
CONSTANTS
  Getters = {g1}
  MaxPoolSize = 1
  MinPoolSize = 0
  HasIdleTimeout = FALSE
  HasDeadline = TRUE
  MaxUint = 15
  MaxConnId = 3
  MaxGets = 1
  MaxClears = 0
  MaxMaintains = 0
  MaxDisconnects = 1
  MaxConnects = 1
SYMMETRY GetterSymmetry
CHECK_DEADLOCK FALSE
INVARIANTS InUseClosedOnlyAfterDeadline
