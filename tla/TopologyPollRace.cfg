SPECIFICATION FairSpec
CONSTANTS
  a1 = a1
  a2 = a2
  a3 = a3
  rs = rs
  other = other
  Addrs = {a1, a2}
  SetNames = {rs, other}
  NoName = NoName
  MaxVersion = 1
  MaxElection = 2
  MaxCounter = 2
  Timeouts = {0, 30}
  Seeds <- OneSeed
  ReplicaSetName = NoName
  SingleMode = FALSE
  PollingRequired = TRUE
  Reports <- SteppingReports
  Truth <- NoReports
  HostLists <- AllHostLists
  Selectors = {}
  MayDisconnect = FALSE
  MaxConnects = 1
CHECK_DEADLOCK FALSE
PROPERTIES PollingLeavesOthers
