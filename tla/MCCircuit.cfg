SPECIFICATION Spec
CONSTANTS
  N = 5
  Node <- MCNode
  Graph <- SparseStrong
  Filter <- SomeEdges
  Budget <- SmallBudgets
INVARIANTS
  BlockingInv
  BlockedIsHopeless
  SearchContract
PROPERTIES
  Terminates
CHECK_DEADLOCK FALSE
