SPECIFICATION Spec
CONSTANTS
  Getters = {g1, g2, g3}
  MaxPoolSize = 2
  MinPoolSize = 0
  HasIdleTimeout = FALSE
  HasDeadline = FALSE
  MaxUint = 15
  MaxConnId = 3
  MaxGets = 3
  MaxClears = 1
  MaxMaintains = 0
  MaxDisconnects = 0
  MaxConnects = 1
SYMMETRY GetterSymmetry
CHECK_DEADLOCK FALSE
INVARIANTS TypeOK PermitsConserved NoLostWakeup ExclusiveCheckout FreshCheckout
