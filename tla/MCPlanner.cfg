CONSTANTS
  Nodes = {1, 2}
  Programs <- MCPrograms
  MaxTicks = 1
  Parts = {"plan", "stages"}
  Texts <- MCTexts
SPECIFICATION MCSpec
CHECK_DEADLOCK FALSE
INVARIANTS
  PlansRight
  
