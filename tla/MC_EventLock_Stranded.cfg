CONSTANTS
  w1 = w1
  w2 = w2
  w3 = w3
  w4 = w4
  Calls <- ThreeCalls
  ThreadCounts = {2}
  Cancellable = {}

SPECIFICATION Spec

CHECK_DEADLOCK FALSE

INVARIANTS
  WaitersResumed
