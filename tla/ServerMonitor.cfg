SPECIFICATION MCSpec
CONSTANTS
  w1 = w1
  w2 = w2
  Workers = {w1, w2}
  Subscribers = {s1}
  Failures = {"notMaster", "shuttingDown", "network", "timeout", "other", "handshake", "handshakeOther"}
  Versions = {0, 1, 2}
  Conns = {1, 2, 3, 4}
CHECK_DEADLOCK FALSE
INVARIANTS TypeOK NothingLeftBehind DescriptionsHold
PROPERTIES OneClearPerGeneration EveryoneReturns MonitoringHeals
