CONSTANTS
  Kernels = {"tc", "tcx"}
  MaxUnclean = 3
  MaxClears = 1
SPECIFICATION Spec
INVARIANTS ExitLeavesNothing LoopHasProgram
PROPERTIES LiveProgramReached
