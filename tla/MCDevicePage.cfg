SPECIFICATION Spec
CONSTANTS
  None = None
  Nothing = Nothing
  c1 = c1
  c2 = c2
  h2 = h2
  d1 = d1
  d2 = d2
  row1 = row1
  Catalog <- McCatalog
  Controllers = {c1, h2}
  Scenes <- McScenes
  Devices = {d1}
  Rows = {row1}
  Latch <- McLatch
  Values = {"", "on"}
  MaxPushes = 2
  MaxSession = 2
  MaxGeneration = 2
  MaxWire = 1
  MaxRequests = 2
INVARIANTS
  DeviceInv
PROPERTIES
  GesturesTakeEffect
  PageSettles
  DeadHelperShows
CHECK_DEADLOCK FALSE
