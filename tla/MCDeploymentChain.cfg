CONSTANTS
  Hosts = {"docker"}
  FileSystems <- RenamedOnly
  Environments = {"none"}
  ObjectSets <- Programs
  MaxCrashes = 0
  MaxAdmin = 0
SPECIFICATION Spec
INVARIANTS ChainHonoured
CHECK_DEADLOCK FALSE
