SPECIFICATION Spec
CONSTANTS
  Callers = {c1, c2}
  Hb = hb
  Closer = closer
  None = none
  Protocol = "sdk2"
  Workload = {"sdk", "start"}
  SendBuf = 1
  RecvBuf = 2
  MaxFrags = 2
  MaxPieces = 2
  MaxChunks = 1
  Retries = 1
  MaxTrips = 2
SYMMETRY Symmetry
INVARIANTS
  TypeOK
  OwnReply
  QuietWhenFree
  OutcomeTellsHealth
  HeartbeatWatches
PROPERTIES
  HandoverIsSettled
  PoisonIsFinal
  PoisonByAbandonment
  CloseCutsNothing
  ImplementsSession
CHECK_DEADLOCK FALSE
