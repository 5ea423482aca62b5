SPECIFICATION MCSpec
CONSTANTS
  Files <- ManifestFiles
  MaxTools = 2
  MaxSensitive = 2
  Streams = {0}
  Sessions = {}
  Bodies = {b0, b1}
  Keys = {"K1"}
  TrustStore <- OneKeyStore
  Freshness <- NoFreshness
  Runs <- ScoredRuns
  Nonces = {"n1", "n2"}
  Batch <- ScoredBatch
  MaxLedgerStreams = 1
  MaxNonces = 2
  AsOf <- Pins
  MaxNow = 2
  MaxAge = 1
  MaxHistory = 3
  StoreEntries <- MCStoreEntries
  Times = {1, 2}
  MaxKeys = 3
  Contents = {"good", "other", "flawed"}
  Flawed = {"flawed"}
  Arguments <- CommandLines
  MaxEdits = 2
  Keygens <- KeygenRuns
  Paths = {"f", "g"}
  Out <- WrittenTo
  Overwriting = {"overwriting"}
  Workers = {"w1", "w2", "w3"}
  Processes = {"p1", "p2"}
  Home <- HomeOf
  MaxRecords <- RecordsOf
  MaxLives <- LivesOf
  None = None
  NoKey = NoKey
  NoSession = NoSession
  NoNonce = NoNonce
  NotPinned = NotPinned
  Absent = Absent
  Torn = Torn
  Junk = Junk
  Unset = Unset
  Blank = Blank
  b0 = b0
  b1 = b1
  Ids = {k1, k2, k3}
  Twins = {r1, r2}
  Hosts = {H1, H2}
SYMMETRY Alike
CHECK_DEADLOCK FALSE
INVARIANTS
  ScoredUnderTheSignedPolicy
  PublishedKeysWereKept
  OneLineWhoeverSigns
  IdentityMeansTheSameRun
  LoadedWholeUnderOneDigest
PROPERTIES
  RevocationsHold
