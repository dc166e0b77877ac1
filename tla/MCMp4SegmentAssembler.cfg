CONSTANTS
  Boxes <- MCBoxes
  Readers = {r1, r2}
  Watched = TRUE
  MaxInbox = 2
SPECIFICATION FairSpec
INVARIANTS AssemblerInv
PROPERTIES ImplementsSegmentFeed SegmentsReachReader NobodyLeftWaiting
CHECK_DEADLOCK FALSE
