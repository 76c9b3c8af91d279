SPECIFICATION FairSpec
CONSTANTS
  Items <- FewItems
  Counts = {1, 2}
  Policies <- MCPolicies
  Grain = 2
  MaxLog = 8
  MaxLive = 3
  RemoveOnlyLive = FALSE
  AskOnlyNonEmpty = FALSE
INVARIANTS
  CollapsedConsistent
  TotalIsSum
PROPERTIES
  CallReturns
CHECK_DEADLOCK FALSE
