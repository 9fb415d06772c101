CONSTANTS
  n1 = n1
  n2 = n2
  n3 = n3
  Null = Null
  Nodes <- MCNodes
  UngetNonEmpty = TRUE

SPECIFICATION Spec

INVARIANTS
  AssertsHold
