SPECIFICATION Spec
CONSTANTS
  ColCounts = {0, 1, 2}
  MinBatchSizes = {0, 1, 2, 4}
  RowCounts = {0, 1, 2, 3}
  MaxRows = 7
  None = None
INVARIANTS
  TypeOK
  NothingLost
  BatchLengths
  NeverPanics
CHECK_DEADLOCK FALSE
