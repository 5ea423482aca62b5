SPECIFICATION Spec
CONSTANTS
  R1 = R1
  R2 = R2
  R3 = R3
  b0 = b0
  b1 = b1
  b2 = b2
  b3 = b3
  b4 = b4
  b5 = b5
  bad = bad
  K1 = K1
  n1 = n1
  n2 = n2
  NoKey = NoKey
  NoSession = NoSession
  NoRun = NoRun
  NoNonce = NoNonce
  Streams <- MCStreams
  Sessions <- MCSessions
  Bodies <- MCBodies
  Keys <- MCKeys
  TrustStore <- MCTrustStore
  Freshness <- MCFreshness
  Runs <- MCPair
  Nonces <- MCNonces
  Batch <- MCOverlap
  MaxLedgerStreams = 1
  MaxNonces = 2
  HaveFileLocking = TRUE
  Buffered = TRUE
  MaxTries <- MCPairTries
CHECK_DEADLOCK FALSE
INVARIANT ReportedBeforeRecorded
