CONSTANTS
  CyclesPerUs = 72
  MaxFrameTime = 52428
  MinRepeat = 256
  PrescaleAbove = 36000
  Prescaler = 9
  MaxPattern = 14
  Period <- RealPeriod
  MaxTicks = 65535
  BootTicks = 88
  MaxEvents = 22222
  EventsGuard = 222222
  BootEvents = 1000
  MinIncrement = 510
  BootIncrement = 8058
  Total = 402944
  KeySets <- SettingKeys
  Increments <- RealIncrements

SPECIFICATION Spec

INVARIANT FrameLimit
