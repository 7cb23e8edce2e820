CONSTANTS
  Hosts = {"systemd"}
  FileSystems <- BareOnly
  Environments = {"none"}
  ObjectSets <- Programs
  MaxCrashes = 0
  MaxAdmin = 3
SPECIFICATION Spec
PROPERTIES AnyListenServes
CHECK_DEADLOCK FALSE
