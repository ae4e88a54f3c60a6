SPECIFICATION Spec
CONSTANTS
  Width = 2
  Widths = {1, 2}
  BatchRows = {0, 1, 3}
  MaxRows = 6
  MaxBatches = 4
  MaxAppenders = 3
INVARIANTS
  TypeOK
  WholeBatches
  AckedIsStored
PROPERTIES
  AllOrNothing
\* Appenders are used up, and a caller may stop at any time.
CHECK_DEADLOCK FALSE
