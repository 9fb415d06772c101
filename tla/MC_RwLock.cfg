CONSTANTS
  r1 = r1
  r2 = r2
  r3 = r3
  w1 = w1
  w2 = w2
  Nobody = Nobody
  Readers <- ThreeReaders
  Writers <- TwoWriters
  ThreadCounts = {1, 2}

SPECIFICATION FairSpec

CHECK_DEADLOCK FALSE

INVARIANTS
  WritersExclude
  CountExact
  WriterExcludesReaders
  NoStrandedWaiter

PROPERTIES
  EventuallyHeld
