SPECIFICATION Spec
CONSTANTS
  Getters = {g1, g2}
  MaxPoolSize = 1
  MinPoolSize = 1
  HasIdleTimeout = TRUE
  HasDeadline = FALSE
  MaxUint = 15
  MaxConnId = 4
  MaxGets = 2
  MaxClears = 0
  MaxMaintains = 1
  MaxDisconnects = 0
  MaxConnects = 1
SYMMETRY GetterSymmetry
CHECK_DEADLOCK FALSE
INVARIANTS SizeIsRight ConnectionsKept
