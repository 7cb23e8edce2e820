CONSTANTS
  h1 = h1
  u1 = u1
  u2 = u2
  u3 = u3
  p = p
  q = q
  Handlers <- OneHandler
  Ids <- Ids3
  KeyOf <- KeysShared
  Patterns <- TwoPatterns
  ActionCodes <- Codes
  Fingerprints <- ThreeRules
  DELETE = 7
  RuleCapacity = 1
  MaxEntries = 2
  MaxRules = 2
  ReuseIds = FALSE
  AnalyzerCrashes = FALSE
  ProcessorCrashes = TRUE
  Absent = Absent
  NoHandler = NoHandler
  NoRule = NoRule
  NoVerdict = NoVerdict
SPECIFICATION PathSpec
INVARIANTS VerdictFromOneRule StableRuleApplies
