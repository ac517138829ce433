SPECIFICATION MCSpec
CONSTANTS
  NULL = NULL
  Elements = {a}
  Delays <- MCDelays
  MaxWait = 2
  MaxTime = 2
  MaxID = 1
  FDs = {1, 2}
  MaxIn = 2
  MaxOut = 1
  Parts = {"timers", "sockets", "socket", "fragments"}
  FragSources = {"n1"}
  MaxQueue = 2
  Networks <- MCNetworks
INVARIANTS
  IterValid
  DescriptorsRight
  NoOversleep
  NeverDeaf
  
PROPERTIES
  CallbacksRight
  EveryHandleLeaves
  
CHECK_DEADLOCK FALSE
