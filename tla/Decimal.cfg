SPECIFICATION DecimalSpec
CONSTANTS
  Builds = {"debug", "release"}
  Digits = {0, 7}
  Lengths = {0, 1, 2, 3, 4, 5, 6, 7, 8, 9}
  Scales = {0, 1, 2, 3, 4, 5, 7, 8, 9}
  NegativeScales = {1, 4}
  Weights = {0, 1, 2, 3, 60, 8190, 8191, 16382, 16383, 32767}
  NegativeWeights = {1, 2, 3}
  Appended <- MCAppended
  Foreign <- MCForeign
  None = None
INVARIANTS
  DecimalTypeOK
  ReadAsWritten
  PanicsOnlyAtEdges
CHECK_DEADLOCK FALSE
