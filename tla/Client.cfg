SPECIFICATION ClientSpec
CONSTANTS
  Clients = {c1, c2, c3}
  Sessions = {1, 2, 3, 4}
  NoSession = 0
  Timeouts = {1, 2}
  MaxIdle = 1
  MaxModels = 3
  MaxBatchCount = 2
  MaxLog = 3
  MaxFailures = 2
  MaxTotal = 7
  MaxLimit = 5
  MaxBatch = 4
  DefaultBatch = 3
  Wires = {3, 5, 9}
  MaxGetMores = 1
  MaxDocs = 2
  MaxCalls = 4
CHECK_DEADLOCK FALSE
INVARIANTS TypesOK SessionsHaveOneUser AppliedOnce BulkOutcome StreamIsExact LegacyCursorIsExact CallsDoAsAsked
PROPERTIES StackSpec CommitAgainWithMajority
