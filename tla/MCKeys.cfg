SPECIFICATION Spec
CONSTANTS
  A = A
  B = B
  b0 = b0
  b1 = b1
  b2 = b2
  b3 = b3
  b4 = b4
  K1 = K1
  K2 = K2
  K3 = K3
  KX = KX
  KPolicy = KPolicy
  KRevoked = KRevoked
  KUnknown = KUnknown
  NoKey = NoKey
  NoSession = NoSession
  Streams <- KeysStreams
  Sessions <- MCSessions
  Bodies <- MCBodies
  Keys <- KeysKeys
  TrustStore <- KeysTrustStore
  Freshness <- KeysFreshness
  Written <- KeysWritten
  SeedKey <- KeysSeedKey
  Records <- KeysRecords
  Ledgers <- MCLedgers
  BareSessions = {B}
  MaxArrivals = 4
  MaxReorder = 1
  MaxStreams = 1
  MaxSignatures = 2
  MaxLedgerStreams = 2
  SlowHost = TRUE
  RequireClosed = TRUE
  LedgerEnabled = FALSE
INVARIANTS
  OneLineOfKeys
  RangesAreVouched
  NothingFollowsAClose
VIEW KeysView
