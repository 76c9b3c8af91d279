SPECIFICATION Spec
CONSTANTS
  Keys = {1, 2, 3, 4, 5, 6}
  Addresses = {n1, n2, n3, n4, n5, n6}
  NULL = NULL
  HEAD = HEAD
  max_link = 4
  kPrimes = {2, 3, 5, 7}
  HashFuncs <- MCHashFuncs
  MaxHash = 8
INVARIANTS
  TypeOK
  Sound
  SearchesRight
  IteratorsRight
PROPERTIES
  PointersStay
  ImplementsMap
VIEW view
