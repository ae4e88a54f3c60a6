SPECIFICATION DecimalSpec
CONSTANTS
  Builds = {"debug"}
  Digits = {0, 7}
  Lengths = {0, 1, 2, 3}
  Scales = {0, 4, 8, 9, 12}
  NegativeScales = {}
  Weights = {}
  NegativeWeights = {}
  Appended <- MCAppended
  Foreign <- MCForeign
  None = None
INVARIANTS
  AppendedCanBeRead
CHECK_DEADLOCK FALSE
