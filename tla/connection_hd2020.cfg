SPECIFICATION Spec
CONSTANTS
  Callers = {c1, c2}
  Hb = hb
  Closer = closer
  None = none
  Protocol = "hd2020"
  Workload = {"native", "sdk"}
  SendBuf = 1
  RecvBuf = 1
  MaxFrags = 2
  MaxPieces = 2
  MaxChunks = 1
  Retries = 1
  MaxTrips = 4
SYMMETRY Symmetry
INVARIANTS
  NativeOnly
  OutcomeTellsHealth
CHECK_DEADLOCK FALSE
