CONSTANTS
  k1 = k1
  k2 = k2
  k3 = k3
  k4 = k4
  v1 = v1
  v2 = v2
  Keys <- FourKeys
  Values <- TwoValues
  HashFunctions <- Hashes
  InitCapacity = 4
  MaxCapacity = 8
  CountRange = 2
  Unused = Unused

SPECIFICATION Spec

CHECK_DEADLOCK FALSE

INVARIANTS
  WellPlaced
  LookupsAgree
  NeverInconsistent
  IterationComplete

PROPERTIES
  ChangesNoticed
  MapSpec
