CONSTANTS
  r1 = r1
  r2 = r2
  r3 = r3
  w1 = w1
  w2 = w2
  Nobody = Nobody
  Readers <- TwoReaders
  Writers <- OneWriter
  ThreadCounts = {2}

SPECIFICATION Spec

CHECK_DEADLOCK FALSE

INVARIANTS
  WritingIsExclusive
