SPECIFICATION FairSpec
CONSTANTS
  Callers = {c1, c2}
  Hb = hb
  Closer = closer
  None = none
  Protocol = "sdk2"
  Workload = {"sdk", "start"}
  SendBuf = 1
  RecvBuf = 1
  MaxFrags = 1
  MaxPieces = 2
  MaxChunks = 1
  Retries = 1
  MaxTrips = 1
PROPERTIES
  EveryCallEnds
  HeartbeatEnds
  CloseEnds
CHECK_DEADLOCK FALSE
