CONSTANTS
  LookAhead = 1
  MaxWindow = 2
  MaxRows = 5
  BatchSize = 2
SPECIFICATION Spec
CHECK_DEADLOCK FALSE
INVARIANTS TypeOK WindowIsTrue SuccessIsWhole ConnectionIsFree HoldsOneBatch
PROPERTIES ImplementsResultCursor StatementEnds
