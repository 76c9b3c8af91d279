SPECIFICATION Spec
CONSTANTS
  Addresses = {n1, n2, n3, n4, n5, n6, n7, n8, n9, n10, n11, n12, n13}
  NULL = NULL
  Wild = Wild
  Keys = {1, 2, 3, 4, 5, 6, 7, 8, 9, 10, 11, 12, 13}
  Prios = {1, 2, 3}
CONSTRAINT FewHoles
INVARIANTS
  TypeOK
  WalksInOrder
  RulesKept
  WeightsExact
  AssertionsHold
  SearchesRight
  PositionsRight
PROPERTIES
  PointersStay
  LoopsAdvance
  ImplementsMap
VIEW view
