SPECIFICATION RoundtripSpec
CONSTANTS
  Decimals <- MCDecimals
  MaxCells = 3
INVARIANTS
  RoundtripTypeOK
  SupportedIsStored
  PromisedType
  RoundtripKeepsValues
  TableGetAgrees
\* A column that was refused, or queried and described, is done with.
CHECK_DEADLOCK FALSE
