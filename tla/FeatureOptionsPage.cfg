SPECIFICATION Spec
CONSTANTS
  MaxCycles = 2
  MaxEdits = 3
  MaxSettings = 1
  MaxAway = 2
  ShowsOverlap = FALSE
INVARIANT PageInv
PROPERTIES RollbackIsHonest SettingsKept PageMovesOn
CHECK_DEADLOCK FALSE
