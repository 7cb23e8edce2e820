CONSTANTS
  Links = {"unix"}
  Frames <- WideFrames
  MaxSent = 1
  MaxBreaks = 0
  MaxSilent = 0
SPECIFICATION StreamSpec
INVARIANTS NoPartOfAFrame
CHECK_DEADLOCK FALSE
