CONSTANTS
  Capacity = 2
  IndexSpan = 4
  MaxItems = 6
  MaxCrashes = 2
  a = a
  b = b
  Values <- ItemValues
  NoItem = NoItem
  Torn = Torn
SPECIFICATION LiveSpec
INVARIANTS TypeOK DeliveredIsPrefix PublishedIntact NoDataRace IndicesTellFill
PROPERTIES ImplementsFifo EventuallyDelivered
