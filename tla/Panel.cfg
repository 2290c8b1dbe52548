CONSTANTS
  CyclesPerUs = 4
  MaxFrameTime = 12
  MinRepeat = 2
  PrescaleAbove = 28
  Prescaler = 9
  MaxPattern = 3
  Period <- SmallPeriod
  MaxTicks = 40
  BootTicks = 5
  MaxEvents = 20
  EventsGuard = 200
  BootEvents = 12
  MinIncrement = 6
  BootIncrement = 9
  Total = 100
  KeySets <- SomeKeys
  Increments <- SmallIncrements

SPECIFICATION Spec

INVARIANTS
  TypeOK
  PanelInSync
  LampShowsParam
  RateCopied

PROPERTIES
  EventKeysMonotone
  EventsKept
