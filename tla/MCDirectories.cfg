SPECIFICATION DirectorySpec
CONSTANTS
  Callers = {t1, t2}
  Trees <- MCTrees
  Root = "root"
  MaxLong = 6
  MaxResult = 2
  MaxLookups = 4
  MaxPage = 3
INVARIANTS PagesContiguous SizeExact
PROPERTY CallReturns
\* The threads stop after their last call.
CHECK_DEADLOCK FALSE
