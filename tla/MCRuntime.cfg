SPECIFICATION MCSpec
CONSTANTS
  Rule <- MCRule
  Tuples <- MCTuples
  Remote <- MCRemote
  Order <- MCOrder
  NoProbe = "-"
  Arrivals = {"a", "b"}
  Programs <- NoPrograms
  Installed = "inst"
  Lapsing = {}
  MaxNet = 3
  MaxFrags = 2
INVARIANTS
  NobodyOversleeps
PROPERTIES
  FixpointsAtomic
  OtherNodesRight
  WorkGetsDone
  ImplementsEventSemantics
