CONSTANTS
  cpu1 = cpu1
  cpu2 = cpu2
  f = f
  g = g
  k = k
  h1 = h1
  Cpus <- TwoCpus
  Flows <- ThreeFlows
  CpusOf <- OneCpuEach
  Handlers <- OneHandler
  KernelCapacity = 2
  SampleCapacity = 2
  TopN = 2
  MaxPackets = 4
  MaxCrashes = 0
  NoSample = NoSample
SPECIFICATION Spec
INVARIANTS AllPoppedCounted
