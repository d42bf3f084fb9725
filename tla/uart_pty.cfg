SPECIFICATION Spec
CONSTANTS
  FrameCycles = 2
  MaxTyped = 3
  MaxSent = 3
  MaxResets = 1
INVARIANTS
  OutputTransparent
  PacedInput
PROPERTIES
  QueuesDrain
CHECK_DEADLOCK FALSE
