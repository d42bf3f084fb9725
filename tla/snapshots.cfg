CONSTANTS
  n1 = n1
  n2 = n2
  i1 = i1
  A = A
  B = B
  C = C
  s1 = s1
  NoLine = NoLine
  RNF <- MCRNF2
  IO <- MCIO
  Lines <- MCLine
  PacketCount = 2
  MaxStores = 1
  Faults <- AllFaults
  L1WayCount = 1
  Sets <- MCSets
  WayCount = 1
  SetOf <- MCSetOf1
SPECIFICATION Spec
INVARIANTS
  ClusterInv
  DataInv
  WindowInv
  SnapshotInWindow
  NothingLost
SYMMETRY SymmetryN
VIEW View
