SPECIFICATION AuditSpec
CONSTANTS
  Exchange <- X
  Queue <- Q
  Shovel <- S
  Node <- MCNode
  Topology <- MCTopology
  Declared <- MCDeclared
  Graph = {}
  Filter = {}
  Limit = {0, 1}
INVARIANTS
  ShortcutAgrees
  CandidatesShowRepublishing
CHECK_DEADLOCK FALSE
