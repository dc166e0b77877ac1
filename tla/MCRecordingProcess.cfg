CONSTANTS
  Boxes <- MCBoxes
  Readers = {r1}
  Watched = TRUE
  MaxInbox = 1
  StartupTimeout = TRUE
SPECIFICATION FairRecordingSpec
INVARIANTS RecordingInv
PROPERTIES StalledChildReaped EveryoneAnswered
CHECK_DEADLOCK FALSE
