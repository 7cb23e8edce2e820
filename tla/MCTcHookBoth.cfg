CONSTANTS
  Kernels = {"tc", "tcx"}
  MaxUnclean = 1
  MaxClears = 0
SPECIFICATION Spec
INVARIANTS BothSeeEachPacket
