CONSTANTS
  KindLast  = 4
  Width     = 6
  Shift     = 8
  Supported = {1, 2, 3}
SPECIFICATION MaskSpec
INVARIANTS
  DisallowedStaysOut
  ExactUnlessMixed
