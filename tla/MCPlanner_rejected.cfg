CONSTANTS
  Nodes = {1, 2}
  Programs <- MCPrograms
  MaxTicks = 1
  Parts = {"stages"}
  Texts <- AfterRejected
SPECIFICATION MCSpec
CHECK_DEADLOCK FALSE
INVARIANT StatementsFree
