CONSTANTS
  main = main
  w1 = w1
  n1 = n1
  c1 = c1
  c2 = c2
  Main = main
  Fs = fs
  CloseOp = CloseOp
  End = End
  Null = Null
  Workers <- TwoWorkers
  EventfdNodes <- OneNode
  Coros <- TwoCoros
  Operations = 1
  Watchers = {c1}
  Edges = 1
  CtlFailures = 1

SPECIFICATION FairSpec

INVARIANTS
  PendingExact
  StopsWhenIdle
  TickOnce
  NoMissedTick

PROPERTIES
  RunReturns
