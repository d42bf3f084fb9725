SPECIFICATION Spec
CONSTANTS
  Sites <- MCSites
  Refs <- MCRefs
  Cycles <- MCCycles
  Widths = {0, 1}
  WordIndexes = {0}
  WordValues = {1, 2}
  WordBits = 2
  PayloadWidth <- MCPayloadWidth
  Dependencies <- MCDependencies
  EdgeInputs <- MCEdges
  MaxEpoch = 1
INVARIANTS
  StreamedIsValid
  ActivityIsRecorded
PROPERTIES
  LogSpec
