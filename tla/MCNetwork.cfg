SPECIFICATION MCSpec
CONSTANTS
  NULL = NULL
  Parts = {"delivery", "windows", "routing"}
  Setups <- MCSetups
  Room = 2
  MaxAcks = 1
  MaxOrphans = 1
  Kinds = {"RoundTripTimer", "CCT", "RateCCT", "RateCCR"}
  MaxArrivals = 6
  Keys = {0, 2, 5, 7}
  KeyRange = 8
  Links <- MCLinks
  MaxFails = 2
INVARIANTS
  NoFailure
  SenderAwake
  
  DeliveredInOrder
  
PROPERTIES
  Closer
CHECK_DEADLOCK FALSE
