CONSTANTS
  FpPeriod = 2
  AlertCap = 1
  MaxIds = 2
  MaxChanges = 3
  MaxFaults = 1
  MaxEvents = 1
  MaxAlerts = 2
  NoRule = NoRule
SPECIFICATION LiveSpec
INVARIANTS DeletesOnlyHighlighted ConnectedTellsLastCycle LogNearCap
PROPERTIES ShownAdvances EventuallyShown KeysServed
CHECK_DEADLOCK FALSE
