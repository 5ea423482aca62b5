SPECIFICATION MCSpec
CONSTANTS
  NoLimit = NoLimit
  None = None
  NoClock = NoClock
  Absent = Absent
  NoTime = NoTime
  NoId = NoId
  s1 = s1
  s2 = s2
  Sizes = {0, 1, 3, 5, 7, 8, 9, 11, 12, 13}
  Lines <- MCLines
  Chunk = 4
  MaxLine = 4
  MaxInput = 9
  MaxRecords = 5
  MaxEvents = 3
  MaxResident = 7
  PerByte = 2
  PerContainer = 2
  PerKey = 1
  MaxContainers = 2
  MaxKeys = 3
  MaxRejects = 1
  MaxRatio = 60
  RatioFloor = 2
  Keep = 2
  Streams = {}
  Clocks = {1, 2, 3, 4}
  Positions = {0}
  Contents <- MCContents
  Keys = {"k1", "k2"}
  IssuerKey = "k1"
  Trusted = {"k1", "k2"}
  KeyWindow <- MCKeyWindow
  Presentable <- MCPresentable
  Calls <- MCCalls
  Early <- MCEarly
  RequireSigned = TRUE
  LedgerOn = TRUE
  MaxNonces = 2
  MaxApprovals = 2
  MaxPresented = 2
  MaxIssued = 2
  LastSession = 2
  Files <- MCFiles
  Ids = {s1, s2}
  Scopes = {"h1", "h2"}
  Window = 2
  MaxSessions = 3
  MaxEventsPerSession = 2
  Events = {"e1", "e2"}
  Manifests = {"m1", "m2"}
  MaxLength = 3
  MaxRevision = 4
  Deliveries <- MCDeliveries
  Histories <- MCHistories
CHECK_DEADLOCK FALSE
INVARIANTS
  ReadIsBounded
  ReadIsAccounted
  GroupedByWhatTheySay
  CoveredOnceByTheIssuer
PROPERTIES
  SealedSessionIsFixed
  EveryCallPairedOnce
