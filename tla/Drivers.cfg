CONSTANTS
  LED_FONT <- Font
  Calls <- PanelCalls
  PowerOnCells <- SomeLit
  MaxLen = 4
  MaxTexts = 3
  Size = 4
  Elements <- ThreeElements
  Nothing = "nothing"
  PacketSize = 2
  ReadLen = 3
  MaxWritten = 4
  Numbers = 8
  STLINKY_BUFSIZE = 4
  Characters <- ThreeElements

SPECIFICATION DriversSpec

INVARIANTS
  TypeOK
  MainTextWhole
  TypesOK
  IsrNeverWaits

PROPERTIES
  OnlyLastLost
  WriteReturns
  FifoSpec
  DisplaySpec
  KeysRead
  RxInOrder
  MailboxSpec
