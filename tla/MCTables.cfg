SPECIFICATION MCSpec
CONSTANTS
  Entries = {e1, e2, e3}
  Tuples <- MCTuples
  Key <- MCKey
  Group <- MCGroup
  AggFn <- MCCount
  NULL = NULL
  Unseen = Unseen
  MaxSize = 1
  Lifetime = 1
  StringCtor = FALSE
  MaxTime = 2
  MaxQueue = 3
  MaxCount = 3
INVARIANTS
  DerivativesOK
  EntriesFreedInTime
  UnexpiringOK
PROPERTIES
  ImplementsSoftState
  ImplementsCountedTable
CHECK_DEADLOCK FALSE
