SPECIFICATION Spec
CONSTANTS
  MaxCycles = 3
  MaxEdits = 2
  MaxSettings = 0
  MaxAway = 0
  ShowsOverlap = TRUE
INVARIANT OneWriter
CHECK_DEADLOCK FALSE
