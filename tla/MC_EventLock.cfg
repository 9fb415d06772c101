CONSTANTS
  w1 = w1
  w2 = w2
  w3 = w3
  w4 = w4
  Calls <- FourCalls
  ThreadCounts = {1, 2}
  Cancellable <- FourCalls

SPECIFICATION FairSpec

CHECK_DEADLOCK FALSE

INVARIANTS
  QueueHoldsWaiters
  MutualExclusion
  NoStrandedWaiter

PROPERTIES
  ResumedInOrder
  EventuallyHeld
