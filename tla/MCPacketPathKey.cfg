CONSTANTS
  h1 = h1
  u1 = u1
  u2 = u2
  u3 = u3
  p = p
  q = q
  Handlers <- OneHandler
  Ids <- OneId
  KeyOf <- KeyBeyondScan
  Patterns <- TwoPatterns
  ActionCodes <- Codes
  Fingerprints <- OneRule
  DELETE = 7
  RuleCapacity = 2
  MaxEntries = 256
  MaxRules = 2
  ReuseIds = FALSE
  AnalyzerCrashes = FALSE
  ProcessorCrashes = FALSE
  Absent = Absent
  NoHandler = NoHandler
  NoRule = NoRule
  NoVerdict = NoVerdict
SPECIFICATION PathSpec
INVARIANTS StableRuleApplies
