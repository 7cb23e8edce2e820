CONSTANTS
  Hosts = {"systemd", "by hand", "docker", "docker on host ipc"}
  FileSystems <- AllFileSystems
  Environments = {"/opt/flowfang.yaml"}
  ObjectSets <- ProgramsOrNone
  MaxCrashes = 2
  MaxAdmin = 4
SPECIFICATION Spec
INVARIANTS OpenHasRing RunningShare
PROPERTIES EventuallyAllRun CrashStaysLocal StartsOnceSampled
CHECK_DEADLOCK FALSE
