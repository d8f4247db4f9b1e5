SPECIFICATION Spec
CONSTANTS
  N = 3
  Resource <- MCResource
  page_size = 1
INVARIANTS
  FetchesUntilReported
CHECK_DEADLOCK FALSE
