CONSTANTS
  n1 = n1
  n2 = n2
  i1 = i1
  A = A
  B = B
  C = C
  s1 = s1
  NoLine = NoLine
  RNF <- MCRNF1
  IO <- MCIO
  Lines <- MCLines
  PacketCount = 1
  MaxStores = 1
  Faults <- NoFaults
  L1WayCount = 1
  Sets <- MCSets
  WayCount = 1
  SetOf <- MCSetOf
SPECIFICATION FairSpec
PROPERTIES
  EngineCompletes
  UncachedCompletes
