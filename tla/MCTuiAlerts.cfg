CONSTANTS
  FpPeriod = 2
  AlertCap = 1
  MaxIds = 2
  MaxChanges = 3
  MaxFaults = 1
  MaxEvents = 2
  MaxAlerts = 2
  NoRule = NoRule
SPECIFICATION Spec
INVARIANTS AlertsCapped
CHECK_DEADLOCK FALSE
