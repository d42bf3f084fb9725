SPECIFICATION Spec
CONSTANTS
  PageSize = 2
  BeatBytes = 4
  MaxBytes = 4
  Services <- MCServices
  Windows <- MCWindows
  Designs <- MCDesigns
  Ops <- MCOps
  MaxOps = 3
  Entries = {0, 1}
  NativeChunk = 8
  BootRegister = 12
  ToHost = 7
  Command = 1
  Exit = 2
INVARIANTS
  LoadedExactly
  AnsweredOnce
  BootAfterLoad
PROPERTIES
  SimulationEnds
CHECK_DEADLOCK FALSE
