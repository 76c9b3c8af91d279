SPECIFICATION Spec
CONSTANTS
  Addresses = {n1, n2, n3}
  NULL = NULL
  Wild = Wild
  Keys = {1, 2, 3}
INVARIANTS
  TraverseVisitsAll
VIEW view
