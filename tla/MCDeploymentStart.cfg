CONSTANTS
  Hosts = {"docker"}
  FileSystems <- InstalledOnly
  Environments = {"none"}
  ObjectSets <- Programs
  MaxCrashes = 0
  MaxAdmin = 0
SPECIFICATION Spec
PROPERTIES StartsAllThree
CHECK_DEADLOCK FALSE
