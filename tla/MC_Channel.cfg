CONSTANTS
  p1 = p1
  p2 = p2
  g1 = g1
  g2 = g2
  n1 = n1
  None = None
  Puts <- TwoPuts
  Gets <- TwoGets
  OrNulls <- OneOrNull
  Capacities = {0, 1}
  ThreadCounts = {1, 2}
  OrNullThreadCounts = {1}
  UsizeRange = 16

SPECIFICATION FairSpec

CHECK_DEADLOCK FALSE

INVARIANTS
  OneDispatcher
  CountsExact
  ValuesKept
  InOrder
  NobodyStranded

PROPERTIES
  NullMeansEmpty
  OrNullReturns
