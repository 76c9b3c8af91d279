SPECIFICATION Spec
CONSTANTS
  Keys = {1, 2}
  Addresses = {n1, n2}
  NULL = NULL
  HEAD = HEAD
  max_link = 1
INVARIANTS
  NodesAreLinked
