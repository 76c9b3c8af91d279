SPECIFICATION Spec
CONSTANTS
  Cases <- GoodCases
  InitialGammas = {1, 2, 3, 5, 7}
  MaxGamma = 100
  INT_MAX = 12
  DblMin <- MCDblMin
  DblMax = 30
INVARIANTS
  CollapseAgrees
  BidFits
  ValueWithinAlpha
CHECK_DEADLOCK FALSE
