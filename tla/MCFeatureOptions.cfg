CONSTANTS
  MaxLoad = 2
  Categories <- MCCategories
  OptionMaps <- MCOptionMaps
  Loads <- MCLoads
  Sets <- MCSets
  Clears <- MCClears
  Ids <- MCIds
  LowerCase <- MCLowerCase
  MaxCalls = 3
SPECIFICATION Spec
INVARIANTS FeatureInv
PROPERTIES EditsTakeEffect EditsAreLocal
CHECK_DEADLOCK FALSE
