SPECIFICATION FairFileSpec
CONSTANTS
  f1 = f1
  f2 = f2
  Inodes <- MCInodes
  FirstFile = f1
  NoFile = NoFile
  Versions <- MCStill
  SampleBytes = 2
  MaxAttempts = 1
  MaxFaults = 2
  MaxChanges = 0
  MaxSeeks = 1
PROPERTY TimeoutRestored
\* A file that was closed, or could not be opened, has no next step.
CHECK_DEADLOCK FALSE
