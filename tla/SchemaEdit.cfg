SPECIFICATION Spec
CONSTANTS
  Names <- MCNames
  Reserved <- MCReserved
INVARIANTS
  TypeOK
  SessionAgrees
  ErrorsExplained
PROPERTIES
  OnlyThatTable
