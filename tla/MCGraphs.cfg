SPECIFICATION Spec
CONSTANTS
  MaxNewHookups = 3
  MaxEdits = 2
  Names = {0, 1, 2}
  MaxPerName = 2
INVARIANTS
  
  
  AcceptedIffSolvable
CHECK_DEADLOCK FALSE
