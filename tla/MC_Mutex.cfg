CONSTANTS
  t1 = t1
  t2 = t2
  t3 = t3
  nobody = nobody
  Threads <- MCThreads
  Nobody = nobody

SPECIFICATION FairSpec

INVARIANTS
  MutualExclusion
  NoLostWakeup

PROPERTIES
  WaitersProgress
  ImplementsAbstractMutex

CHECK_DEADLOCK TRUE
