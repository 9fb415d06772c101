CONSTANTS
  main = main
  w1 = w1
  n1 = n1
  c1 = c1
  c2 = c2
  Main = main
  Fs = fs
  CloseOp = CloseOp
  End = End
  Null = Null
  Workers <- OneWorker
  EventfdNodes = {}
  Coros <- OneCoro
  Operations = 1
  Watchers = {}
  Edges = 1
  CtlFailures = 0

SPECIFICATION FairSpec

PROPERTIES
  TicksFinish
