SPECIFICATION Spec
CONSTANTS
  MAX_NODE = 2
  MaxValue = 3
  MAX_STEP = 2
  QUIET = 1
  Scenes <- Crossing
CHECK_DEADLOCK FALSE
INVARIANT TransactionsEnd
