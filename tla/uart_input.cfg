SPECIFICATION Spec
CONSTANTS
  FrameCycles = 2
  MaxTyped = 3
  MaxSent = 0
  MaxResets = 0
INVARIANTS
  InputTransparent
CHECK_DEADLOCK FALSE
