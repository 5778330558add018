CONSTANTS
  Buses = {0, 1}
  Transfers <- MCTransfers
  FIFO = 2
  WIRE_FAULTS = 1
  TICKS = 3
  CLOCK = 4
  DEBOUNCE = 2
  TIME = 7
  QUEUE = 3
  DEPTH = 3
  WATERMARK = 1
  BYTES = 9
  LONGEST = 5
  Chars <- MCChars
  ENTRY_SIZE = 5
  MAX_TEXT = 2
  Levels <- MCLevels
  ZeroCrc <- MCZeroCrc
  SAVES = 2
  FAULTS = 1
SPECIFICATION FairSpec
CHECK_DEADLOCK FALSE
INVARIANTS
  TypeOK
  AnswersHonest
  RecordsIntact
  PictureDrawn
  MemoryIsSound
  CoRoutinesSound
PROPERTIES
  TransferIsHonest
  InputAndOutputAccounted
  EveryWaitEnds
