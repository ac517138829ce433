SPECIFICATION Spec
CONSTANTS
  Parts = {"ids", "range", "order", "sets", "lists", "wire", "buffer", "compile", "rule", "ops", "laws", "schema"}
  Mixed = FALSE
  WORDS = 3
  DIGITS = 1
  IntBits = 6
  TPS = 2
  MaxReplace = 4
  WordBytes = 2
  Increment = 4
  SecsFactor = 3
  MaxBytes = 9
INVARIANTS
  
  WireRight
  
  
CHECK_DEADLOCK FALSE
