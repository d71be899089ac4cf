SPECIFICATION Spec
CONSTANTS
  FileLen = 6
  ReadAhead = 2
  Horizon = 1
  MaxCache = 4
  ChunkSize = 1
  MaxInFlight = 3
  Samples <- MCSamples
  MaxRequest = 5
  Generations = 2
INVARIANTS CacheFaithful PlanArithmetic ReadExact
PROPERTY UnconsumedKept
