CONSTANTS
  Links = {"tcp"}
  Frames <- AsciiFrames
  MaxSent = 1
  MaxBreaks = 0
  MaxSilent = 1
SPECIFICATION StreamSpec
PROPERTIES StreamsAgain
CHECK_DEADLOCK FALSE
