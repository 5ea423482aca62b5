SPECIFICATION Spec
CONSTANTS
  C1 = C1
  C2 = C2
  C3 = C3
  C4 = C4
  b0 = b0
  b1 = b1
  b2 = b2
  b3 = b3
  b4 = b4
  b5 = b5
  again = again
  used = used
  K1 = K1
  NoKey = NoKey
  NoSession = NoSession
  NoCall = NoCall
  BadLine = BadLine
  Streams <- MCStreams
  Sessions <- MCSessions
  Bodies <- MCBodies
  Keys <- MCKeys
  TrustStore <- MCTrustStore
  Freshness <- MCFreshness
  Stream = 0
  Key = K1
  SignEvery = 3
  Calls <- MCCalls
  Input <- MCInput
  Unsignable <- MCUnsignable
  MaxTries <- MCMaxTries
CHECK_DEADLOCK FALSE
INVARIANTS
  StateStandsOnOutput
  SavedIsFinal
PROPERTIES
  GrowsByBatches
