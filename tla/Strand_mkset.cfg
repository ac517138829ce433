SPECIFICATION MCSpec
CONSTANTS
  Parts = {"Strand"}
  MaxPorts = 3
  MaxQueue = 2
  NKeys = 2
  Capacity = 2
  Inputs = {1, 2, 3}
  MaxPushes = 3
  N = 1
  Heads <- MkSetHead
  Keys = {1, 2}
  Contents <- OneTable
  MaxEvents = 2
  MaxCommits = 0
  Kinds = {"Buffer", "Timed", "Periodic", "Aggregate", "Stage"}
  Limits = {0, 2}
  Told = {1, 2}
  Texts <- ShortTexts
  MaxFed = 3
PROPERTY
  TuplesImmutable
CHECK_DEADLOCK FALSE
