CONSTANTS
  n1 = n1
  n2 = n2
  i1 = i1
  A = A
  B = B
  C = C
  s1 = s1
  NoLine = NoLine
  RNF <- MCRNF1
  IO <- NoIO
  Lines <- MCLines3
  PacketCount = 2
  MaxStores = 1
  Faults <- NoFaults
  L1WayCount = 2
  Sets <- MCSets
  WayCount = 2
  SetOf <- MCSetOf3
SPECIFICATION Spec
INVARIANTS
  ClusterInv
  DataInv
  DirectoryAssertions
  ArrivalAssertions
PROPERTIES
  DroppedEntryIsSettled
VIEW View
