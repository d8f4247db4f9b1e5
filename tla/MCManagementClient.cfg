SPECIFICATION ClientSpec
CONSTANTS
  None = None
  Requests <- ClientRequests
  Brokers <- ClientBrokers
  init = init
  c1 = c1
  t1 = t1
  t2 = t2
  Caller = {init, c1}
  Constructor = init
  Closer = {t1, t2}
  max_retries = 2
INVARIANTS
  NothingLeaks
  ClosedIsClosed
  FirstErrorRaised
PROPERTIES
  ConstructionEnds
  ClosedClientRefuses
CHECK_DEADLOCK FALSE
