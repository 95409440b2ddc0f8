SPECIFICATION DeafSpec
CONSTANTS
  Callers = {c1}
  Hb = hb
  Closer = closer
  None = none
  Protocol = "sdk2"
  Workload = {"sdk"}
  SendBuf = 1
  RecvBuf = 1
  MaxFrags = 2
  MaxPieces = 2
  MaxChunks = 1
  Retries = 1
  MaxTrips = 1
PROPERTY RoundTripEnds
CHECK_DEADLOCK FALSE
