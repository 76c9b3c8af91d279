SPECIFICATION Spec
CONSTANTS
  Items <- MCItems
  Counts = {1, 2}
  Policies <- MCPolicies
  Grain = 2
  MaxLog = 8
  MaxLive <- MCMaxLive
  RemoveOnlyLive = TRUE
  AskOnlyNonEmpty = TRUE
INVARIANTS
  TypeOK
  NoCrash
  CollapsedConsistent
  SizeBound
  BucketsExact
  TotalIsLive
  KeptEndLast
  GammaTracksCollapses
PROPERTIES
  CollapseShrinks
  ImplementsSummary
