SPECIFICATION MCFairSpec
CONSTANTS
  Parts = {"RoundRobin", "Fanout", "Mux", "Strand", "Feeds"}
  MaxPorts = 3
  MaxQueue = 2
  NKeys = 2
  Capacity = 2
  Inputs = {1, 2, 3}
  MaxPushes = 3
  N = 2
  Heads <- MCHeads
  Keys = {1, 2}
  Contents <- TwoTables
  MaxEvents = 2
  MaxCommits = 1
  Kinds = {"Buffer", "Timed", "Periodic", "Aggregate", "Stage"}
  Limits = {0, 2}
  Told = {1, 2}
  Texts <- ShortTexts
  MaxFed = 3
INVARIANTS
  ElementsSound
  WillBeCalled
  BoundedBypass
  
  Complete
PROPERTIES
  AggregatesWholeJoin
  EventuallyServed
CHECK_DEADLOCK FALSE
