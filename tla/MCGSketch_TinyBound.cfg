SPECIFICATION FairSpec
CONSTANTS
  Items <- MCItems
  Counts = {1}
  Policies <- TinyEnd
  Grain = 2
  MaxLog = 8
  MaxLive <- TwoLive
  RemoveOnlyLive = TRUE
  AskOnlyNonEmpty = TRUE
PROPERTIES
  CallReturns
