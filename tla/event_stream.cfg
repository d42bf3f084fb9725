SPECIFICATION SystemSpec
CONSTANTS
  Sites <- MCSites
  Refs <- MCRefs
  Cycles <- MCCycles
  Widths = {0, 1}
  WordIndexes = {0}
  WordValues = {0, 1}
  WordBits = 1
  PayloadWidth <- MCPayloadWidth
  Dependencies <- MCDependencies
  EdgeInputs <- MCEdges
  MaxEpoch = 0
  ObservationOf <- MCObservationOf
  MaxStrings = 3
  LastCycle = 3
INVARIANTS
  ReplayMatchesLive
  PrefixImportable
  DisplayIsGraph
  WriterFollowsGraph
CHECK_DEADLOCK FALSE
