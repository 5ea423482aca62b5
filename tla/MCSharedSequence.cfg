SPECIFICATION MCSpec
CONSTANTS
  None = None
  NoClock = NoClock
  NoDigest = NoDigest
  NoSeq = NoSeq
  Unsaid = Unsaid
  Streams = {"st", "su"}
  Clocks = {1, 2, 3}
  Positions = {1, 2, 3}
  MaxRefs = 3
  Names <- MCNames
  Manifest = {"group_list", "group_apply", "fetch", "send", "read"}
  Effects <- MCEffects
  ByName <- MCByName
  Digests = {"d1", "d2"}
  Steps <- GrammarSteps
  Benign <- Baselines
  MaxSteps = 4
  Words = {"group", "list", "apply", "skip", "mail", "never"}
  Cues = {"never", "skip"}
  Stop = "STOP"
  Window = 2
  Tokens <- MCTokens
  Texts <- MCTexts
  Acts <- DisclosureActs
  MaxActs = 3
  Uses <- TaintUses
  Records <- TaintRecords
  MaxUses = 3
  MaxRecords = 2
  Types = {"cost", "depth"}
  Declared = {"p1", "depth"}
  Enforced <- MCEnforced
  Firings <- MCFirings
  Works <- MCWorks
  Common = {}
  MaxFirings = 3
  MaxWorks = 2
  AttestedSessions = {k1, k2}
  AttestedStreams = {s1, s2, s3}
  MaxStreams = 2
  MaxObserved = 4
  Outcomes <- ReceiptOutcomes
  MaxOutcomes = 3
SYMMETRY Alike
CHECK_DEADLOCK FALSE
INVARIANT EveryFiringNamed
