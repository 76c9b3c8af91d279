SPECIFICATION Spec
CONSTANTS
  Items <- MCItems
  Grain <- MCGrain
  MaxLog <- MCMaxLog
  Files <- NoNumbers
  Options <- MCOptions
  Hundred = 12
INVARIANTS
  NoCrash
CHECK_DEADLOCK FALSE
