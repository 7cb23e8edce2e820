CONSTANTS
  c1 = c1
  c2 = c2
  o1 = o1
  Creators <- OneCreator
  Openers <- OneOpener
  Capacity = 2
  MaxPushes = 3
  MaxCrashes = 2
SPECIFICATION Spec
INVARIANTS CreateYieldsCapacity
