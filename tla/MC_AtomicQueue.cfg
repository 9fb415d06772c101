CONSTANTS
  n1 = n1
  n2 = n2
  n3 = n3
  Null = Null
  Nodes <- MCNodes
  UngetNonEmpty = FALSE

SPECIFICATION Spec

INVARIANTS
  WellLinked
  AssertsHold

PROPERTIES
  ImplementsFifo
