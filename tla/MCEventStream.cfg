CONSTANTS
  Links = {"unix", "tcp"}
  Frames <- AsciiFrames
  MaxSent = 2
  MaxBreaks = 2
  MaxSilent = 1
SPECIFICATION StreamSpec
INVARIANTS ChunksDoNotMatter NoPartOfAFrame
PROPERTIES ListensAgain
CHECK_DEADLOCK FALSE
