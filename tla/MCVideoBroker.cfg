SPECIFICATION FairSpec
CONSTANTS
  c1 = c1
  c2 = c2
  Callers <- TwoCallers
  QueueCapacity = 1
  MaxPlay = 2
  MaxSpec = 3
  MaxHints = 1
INVARIANTS CacheOfActive ClosedOnce
PROPERTY CallAnswered
\* Every caller may drop its handle, and the runner may stop.
CHECK_DEADLOCK FALSE
