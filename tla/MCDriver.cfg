SPECIFICATION FairSpec
CONSTANTS
  Items <- MCItems
  Grain <- MCGrain
  MaxLog <- MCMaxLog
  Files <- MCFiles
  Options <- MCOptions
  Hundred = 12
INVARIANTS
  QuantilesAgree
PROPERTIES
  ProgramEnds
CHECK_DEADLOCK FALSE
