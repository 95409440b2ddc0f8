SPECIFICATION Spec
CONSTANTS
  Bytes = {a, b}
  Junk = j
  MaxLen = 3
  ChunkSize = 2
  Retries = 1
  MaxEdits = 1
INVARIANTS
  FractionInRange
CHECK_DEADLOCK FALSE
