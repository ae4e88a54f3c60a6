SPECIFICATION Spec
CONSTANTS
  ColCounts = {0, 1, 2}
  BatchSizes = {1, 2, 3}
  BadCells = {0, 1, 2}
  MaxItems = 4
  MaxCalls = 6
  None = None
INVARIANTS
  TypeOK
  OneResultSet
PROPERTIES
  ShortBatchIsLast
  DeliversRows
  QueryReturns
CHECK_DEADLOCK FALSE
