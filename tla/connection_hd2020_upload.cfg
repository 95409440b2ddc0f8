SPECIFICATION Spec
CONSTANTS
  Callers = {c1, c2}
  Hb = hb
  Closer = closer
  None = none
  Protocol = "hd2020"
  Workload = {"native", "start"}
  SendBuf = 1
  RecvBuf = 1
  MaxFrags = 2
  MaxPieces = 2
  MaxChunks = 1
  Retries = 1
  MaxTrips = 2
INVARIANT NativeOnly
CHECK_DEADLOCK FALSE
