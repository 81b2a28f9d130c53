SPECIFICATION Spec
CONSTANTS
  Servers = {a1, a2}
  MaxOptions = 10
CHECK_DEADLOCK FALSE
INVARIANTS ReportsToOwnServer
