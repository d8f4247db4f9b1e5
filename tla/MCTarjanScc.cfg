SPECIFICATION Spec
CONSTANTS
  N = 4
  Node <- MCNode
  Graph <- LooplessGraphs
INVARIANTS
  SearchInv
  CompletePartition
PROPERTIES
  YieldsInOrder
  Terminates
CHECK_DEADLOCK FALSE
