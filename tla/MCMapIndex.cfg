SPECIFICATION FairSpec
CONSTANTS
  Keys = {1, 2, 3, 4, 5, 6}
  Items = {map}
  Wrap = 100
  Loaded <- OnDisk
  MaxMaps = 5
INVARIANTS
  NoFault
  InOrder
  NoneMissed
PROPERTIES
  WalkEnds
CHECK_DEADLOCK FALSE
