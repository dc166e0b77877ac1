SPECIFICATION FairSpec
CONSTANTS
  HighWater = 3
  SeedLen = 2
  Cuts = {0, 1}
  CoreSpeaks = {3}
  MaxConns = 2
  MaxLog = 4
  MaxWall = 4
  MaxWire = 2
  MaxSkip = 3
  Scenes <- MCScenes
INVARIANTS LogInv NoHole WindowStartsRight
PROPERTIES RunsEnd WedgedSessionReplaced
CHECK_DEADLOCK FALSE
