SPECIFICATION Spec
CONSTANTS
  N = 4
  Node <- MCNode
  Graph <- Graphs
  Filter <- Filters
  Limit = {0, 2}
INVARIANTS
  NothingLost
  ResultExact
PROPERTIES
  Terminates
CHECK_DEADLOCK FALSE
