CONSTANTS
  h1 = h1
  h2 = h2
  u1 = u1
  u2 = u2
  p = p
  q = q
  Handlers <- OneHandler
  Ids <- TwoIds
  KeyOf <- KeysOfTwo
  Patterns <- TwoPatterns
  ActionCodes <- Codes
  Fingerprints <- OnePost
  DELETE = 7
  RuleCapacity = 4
  MaxEntries = 2
  MaxRules = 2
  ReuseIds = FALSE
  AnalyzerCrashes = FALSE
  ProcessorCrashes = TRUE
  Absent = Absent
  NoHandler = NoHandler
  NoRule = NoRule
SPECIFICATION Spec
INVARIANTS MapsFollowRules
