SPECIFICATION ModesSpec
CONSTANTS
  a1 = a1
  a2 = a2
  a3 = a3
  rs = rs
  other = other
  Addrs = {a1, a2, a3}
  SetNames = {rs, other}
  NoName = NoName
  MaxVersion = 2
  MaxElection = 2
  MaxCounter = 0
  Timeouts = {0, 10, 30}
  Seeds <- TwoSeeds
  ReplicaSetName = NoName
  SingleMode = FALSE
  PollingRequired = FALSE
  Reports <- MixedReports
  Truth <- NoReports
  HostLists <- NoHosts
  Selectors = {s1}
  MayDisconnect = TRUE
  MaxConnects = 1
CHECK_DEADLOCK FALSE
INVARIANTS TypeOK PrimaryIsRight ServersBelong SessionTimeoutSafe EveryServerMonitored
PROPERTIES NeverForgetsElection SettledConverges PolledDisconnectReturns
