CONSTANTS
  FpPeriod = 2
  AlertCap = 1
  MaxIds = 1
  MaxChanges = 1
  MaxFaults = 2
  MaxEvents = 1
  MaxAlerts = 1
  NoRule = NoRule
SPECIFICATION Spec
INVARIANTS AbortHeard
CHECK_DEADLOCK FALSE
