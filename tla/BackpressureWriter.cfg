CONSTANTS
  Writes = {w1, w2, w3}
  Streams = {s1, s2}
  None = None
  HighWaterMark = 2
SPECIFICATION FairSpec
INVARIANTS WriterInv
PROPERTIES ImplementsOrderedWriter EveryoneAnswered
CHECK_DEADLOCK FALSE
