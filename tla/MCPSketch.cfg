SPECIFICATION Spec
CONSTANTS
  Items <- MCItems
  Counts = {1, 2}
  Policies <- MCPolicies
  Grain = 2
  MaxLog = 8
  MaxLive = 4
  RemoveOnlyLive = TRUE
  AskOnlyNonEmpty = TRUE
INVARIANTS
  TypeOK
  NoCrash
  SizeBound
  BucketsExact
  TotalIsLive
PROPERTIES
  ImplementsSummary
