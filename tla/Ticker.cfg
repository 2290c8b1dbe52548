CONSTANTS
  HalfBuffer = 3
  MaxPattern = 1
  Period <- UnevenPeriod
  MaxLag = 3
  Punctual = TRUE
  Blank = Blank

SPECIFICATION FairSpec

INVARIANTS
  TypeOK
  NoTearing

PROPERTIES
  StreamSpec
  RefclockRecurs
  RestartCompletes
