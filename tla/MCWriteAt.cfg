SPECIFICATION WriteSpec
CONSTANTS
  MaxAvailable = 3
  MaxMessageId = 6
  MaxCharge = 2
  MaxGrant = 2
  MaxWindow = 7
  Unit = 2
  MaxWriteSizes = {0, 2, 5}
  MaxOffset = 4
  Offsets = {2}
  MaxLen = 5
  MaxCalls = 2
INVARIANTS WithinWindow WrittenPrefix FlushDurable
PROPERTY SpansGranted
\* A connection whose NEGOTIATE granted no credit is refused and stops.
CHECK_DEADLOCK FALSE
