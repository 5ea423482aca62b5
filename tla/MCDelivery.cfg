SPECIFICATION FairSpec
CONSTANTS
  A = A
  B = B
  b0 = b0
  b1 = b1
  b2 = b2
  b3 = b3
  b4 = b4
  K1 = K1
  K2 = K2
  K3 = K3
  KX = KX
  KPolicy = KPolicy
  KRevoked = KRevoked
  KUnknown = KUnknown
  NoKey = NoKey
  NoSession = NoSession
  Streams <- DeliveryStreams
  Sessions <- MCSessions
  Bodies <- MCBodies
  Keys <- DeliveryKeys
  TrustStore <- DeliveryTrustStore
  Freshness <- DeliveryFreshness
  Written <- DeliveryWritten
  SeedKey <- DeliverySeedKey
  Records <- DeliveryRecords
  Ledgers <- MCLedgers
  BareSessions = {B}
  MaxArrivals = 6
  MaxReorder = 2
  MaxStreams = 2
  MaxSignatures = 10
  MaxLedgerStreams = 2
  SlowHost = FALSE
  RequireClosed = FALSE
  LedgerEnabled = FALSE
INVARIANTS
  InOrderAndCounted
  GapsAreJust
  NoFalseBreak
  EveryRecordAccounted
  StrandedOnlyByForcing
PROPERTIES
  FinaliseEnds
