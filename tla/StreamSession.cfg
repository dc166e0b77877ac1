SPECIFICATION FairSpec
CONSTANTS
  None = None
  Callers = {a, b, c}
  Pairs = {b}
  Viewer = a
  Talker = b
  Ports = {1, 2, 3}
  Contended = {2}
  MaxAttempts = 2
  Scenes = {"ports", "timers", "view", "talk"}
  Keys = {"establish", "relock"}
  MaxTimers = 3
  Octets = {0, 96, 224, 200}
INVARIANTS
  SessionInv
PROPERTIES
  ImplementsPortLeases
  SilentPeerEnds
  FfmpegKeptFed
CHECK_DEADLOCK FALSE
