SPECIFICATION DataSpec
CONSTANTS
  UploadBufferSize = 4
  ChunkSizes = {2, 3}
  MaxBytes = 5
  WriteSizes = {2, 5}
  MaxGridFailures = 1
  Secondaries = {s1, s2}
  HeartbeatInterval = 1
  IdleWritePeriod = 1
  SmallestStaleness = 2
  MaxNow = 4
  Profiles <- MCProfiles
  TagSetLists <- MCTagSetLists
  LocalThreshold = 1
  Max8 = 1
  Max16 = 3
  Max32 = 7
  Max64 = 15
  P64 = 3
  P32 = 2
  PlainTypes = {"old", "pointer"}
  MaxValues = 3
  MaxDepth = 3
  MaxDocuments = 2
  MaxCells = 20
  Goroutines = {g1, g2}
  MaxRegistrations = 2
  MaxRegistries = 2
  MaxLookups = 2
SYMMETRY DataSymmetry
CHECK_DEADLOCK FALSE
INVARIANTS TypesOK FilesAreWhole SelectionIsRight ValuesSurvive AnswersAsBuilt WrittenIsRead
