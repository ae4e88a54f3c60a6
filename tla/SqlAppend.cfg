SPECIFICATION Spec
CONSTANTS
  Databases = {"sqlite", "mysql"}
  Clients = {"careful", "careless"}
  BATCH_SIZE = 2
  BatchRows = {0, 1, 2, 3, 5}
  MaxRows = 6
  MaxAppenders = 3
INVARIANTS
  TypeOK
  NoRowTwice
  AckedIsCommitted
  PrefixCommitted
PROPERTIES
  CommitPoints
  AllOrNothing
CHECK_DEADLOCK FALSE
