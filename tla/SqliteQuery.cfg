SPECIFICATION Spec
CONSTANTS
  Widths = {1, 2}
  Kinds <- MCKinds
  MaxRows = 3
  MaxStarts = 2
  None = None
INVARIANTS
  TypeOK
  ResultIsTable
  PanicsOnlyIfMixedOrAltered
PROPERTIES
  DeliversRows
\* A result that was read, and a call that panicked, are done with.
CHECK_DEADLOCK FALSE
