SPECIFICATION Spec
CONSTANTS
  t1 = t1
  t2 = t2
  t3 = t3
  Threads <- ThreeThreads
  MaxLen = 2
  MaxCalls = 4
SYMMETRY ThreadSymmetry
INVARIANTS SafeTraffic ClosedAlone CachedLength
\* All threads are idle and the handle is closed, or the calls are used up.
CHECK_DEADLOCK FALSE
