CONSTANTS
  Calls = {c1, c2, c3}
  Capacity = 2
  Window = 2
  Early = 1
  LastCall = 1
  Horizon = 3
SPECIFICATION FairSpec
INVARIANTS IInv
PROPERTIES NoSlotAfterRejection EveryCallSettles ImplementsSlidingWindow
CHECK_DEADLOCK FALSE
