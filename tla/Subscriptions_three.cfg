SPECIFICATION Spec
CONSTANTS
  Names = {0}
  MaxPerName = 3
INVARIANT
  EveryListenerCalled
CHECK_DEADLOCK FALSE
