SPECIFICATION Spec
CONSTANTS
  A = A
  B = B
  C = C
  D = D
  b0 = b0
  b1 = b1
  b2 = b2
  b3 = b3
  bad = bad
  K1 = K1
  NoKey = NoKey
  NoSession = NoSession
  Streams <- MCStreams
  Sessions <- MCSessions
  Bodies <- MCBodies
  Keys <- MCKeys
  TrustStore <- MCTrustStore
  Freshness <- MCFreshness
  Written <- MCWritten
  SeedKey <- MCSeedKey
  Records <- MCRecords
  Ledgers <- MCLedgers
  BareSessions = {}
  MaxArrivals = 4
  MaxReorder = 1
  MaxStreams = 2
  MaxSignatures = 10
  MaxLedgerStreams = 1
  SlowHost = FALSE
  RequireClosed = FALSE
  LedgerEnabled = TRUE
INVARIANTS
  TypeOK
  AdmittedIsGenuine
  BreaksAreLocal
PROPERTIES
  LedgerFollowsTheScored
VIEW MCView
