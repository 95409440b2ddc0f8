SPECIFICATION FairSpec
CONSTANTS
  Bytes = {a, b}
  Junk = j
  MaxLen = 3
  ChunkSize = 2
  Retries = 1
  MaxEdits = 1
INVARIANTS
  TypeOK
  Aligned
  InPlace
  NoFalseAlarm
PROPERTIES
  ImplementsTransfer
  UploadEnds
CHECK_DEADLOCK FALSE
