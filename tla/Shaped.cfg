CONSTANTS
  Shapes <- Names
  Slots = 6
  SlotLength = 8
  Env <- SmallEnv
  MaxEnv = 7
  Channels = 3
  Threshold <- SmallThreshold
  LinearBase = 7
  MinIncrement = 14
  Wanted = {1, 2, 3, 5, 7, 9}

SPECIFICATION Spec

INVARIANTS
  TypeOK
  EnvelopeReturns

PROPERTIES
  PulsesApart
  PromiseKept
  ChannelsTakeTurns
