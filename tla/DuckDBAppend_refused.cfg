SPECIFICATION Spec
CONSTANTS
  FlushCount = 3
  BatchRows = {0, 1, 2, 3}
  Refusals = {TRUE}
  MaxRows = 6
  MaxAppenders = 3
INVARIANTS
  FinishedIsWritten
CHECK_DEADLOCK FALSE
