SPECIFICATION MCSpec
CONSTANTS
  Entries = {e1, e2, e3}
  Tuples <- MCTuples
  Key <- MCKey
  Group <- MCGroup
  AggFn <- MCCount
  NULL = NULL
  Unseen = Unseen
  MaxSize = 0
  Lifetime = 1
  StringCtor = FALSE
  MaxTime = 3
  MaxQueue = 3
  MaxCount = 1
INVARIANT
  LookupsFresh
CHECK_DEADLOCK FALSE
