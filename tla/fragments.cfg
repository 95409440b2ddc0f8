SPECIFICATION FairSpec
CONSTANTS
  U32 = 4
  MaxLen = 4
  FragSizes = {0, 2, 3}
  FrameMax = 2
  Exchanges = 2
  Window = 1
INVARIANTS
  TypeOK
  RequestIsWhole
  ReplyIsWhole
  InBounds
PROPERTIES
  RequestEnds
CHECK_DEADLOCK FALSE
