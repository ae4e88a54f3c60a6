SPECIFICATION Spec
CONSTANTS
  FlushCount = 3
  BatchRows = {0, 1, 2, 3}
  Refusals = {TRUE, FALSE}
  MaxRows = 6
  MaxAppenders = 3
INVARIANTS
  TypeOK
  RowsKept
CHECK_DEADLOCK FALSE
