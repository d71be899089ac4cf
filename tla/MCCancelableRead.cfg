SPECIFICATION FairWavesSpec
CONSTANTS
  MaxWave = 2
  Target = 3
  InitialCredits = 2
  Grants <- MCGrants
  MaxGeneration = 1
  MaxCalls = 1
  MaxReads = 3
INVARIANTS CleanReturn CancelledWhenAsked
PROPERTY CancelReturns
\* The calls are used up, or a fault has ended the connection.
CHECK_DEADLOCK FALSE
