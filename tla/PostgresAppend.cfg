SPECIFICATION Spec
CONSTANTS
  Width = 2
  Widths = {1, 2}
  BatchRows = {0, 1, 2}
  MaxRows = 5
  MaxAppenders = 3
INVARIANTS
  TypeOK
  OneWidth
PROPERTIES
  AllOrNothing
CHECK_DEADLOCK FALSE
