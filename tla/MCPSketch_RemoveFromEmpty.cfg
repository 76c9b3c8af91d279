SPECIFICATION Spec
CONSTANTS
  Items <- FewItems
  Counts = {1}
  Policies <- MCPolicies
  Grain = 2
  MaxLog = 8
  MaxLive = 2
  RemoveOnlyLive = FALSE
  AskOnlyNonEmpty = TRUE
INVARIANTS
  NoCrash
