SPECIFICATION FairSpec
CONSTANTS
  U32 = 4
  MaxLen = 4
  FragSizes = {2}
  FrameMax = 2
  Exchanges = 1
  Window = 1
PROPERTIES
  ReplyEnds
CHECK_DEADLOCK FALSE
