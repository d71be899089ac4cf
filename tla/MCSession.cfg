SPECIFICATION Spec
CONSTANTS
  Offered <- MCOffered
  MaxRounds = 2
  InitialCredits <- MCInitialCredits
  Grants <- MCGrants
  MaxId = 6
  MaxFaults = 1
  MaxDeferred = 1
INVARIANTS SameSession HealthyCalls AcceptedGenuine HandlesLive
\* A connection is dropped, or its MessageIds are used up.
CHECK_DEADLOCK FALSE
