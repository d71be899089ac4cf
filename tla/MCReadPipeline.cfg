SPECIFICATION FairSpec
CONSTANTS
  Multi = TRUE
  Unit = 2
  MaxRead = 3
  ChunkSize = 2
  MaxInFlight = 2
  FileLen = 5
  Ranges <- MCRanges
  FirstId = 4
  InitialCredits = 2
  Grants <- MCGrants
  MaxAvailable = 3
  MaxMessageId = 8
  MaxWindow = 8
  MaxCalls = 2
INVARIANTS PrefixReturned Drained HealthyCalls
PROPERTIES CreditSteps CallReturns
\* The calls are used up.
CHECK_DEADLOCK FALSE
