CONSTANTS
  Bytes = {0, 1}
  MaxLen = 2
  MaxPatternLen = 3
  MaxOffset = 2
  MaxPayload = 4
  Marks = {0, 1, 2, 9}
  DELETE = 9
SPECIFICATION Spec
INVARIANTS ByteRuleDoesAsAsked
