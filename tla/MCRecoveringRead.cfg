SPECIFICATION FairFileSpec
CONSTANTS
  f1 = f1
  f2 = f2
  FirstFile = f1
  NoFile = NoFile
  Inodes <- MCInodes
  Versions <- MCVersions
  SampleBytes = 2
  MaxAttempts = 2
  MaxFaults = 2
  MaxChanges = 2
  MaxSeeks = 1
INVARIANT ReplayedOnce
PROPERTIES AcceptedSame CancelStops CallReturns BrokenRestored
\* A file that was closed, or could not be opened, has no next step.
CHECK_DEADLOCK FALSE
