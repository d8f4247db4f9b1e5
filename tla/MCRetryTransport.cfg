SPECIFICATION Spec
CONSTANTS
  None = None
  c1 = c1
  c2 = c2
  Caller <- Two
  Requests <- QueueRequests
  Brokers <- QueueBrokers
  max_retries = 2
INVARIANTS
  AttemptsExhausted
  ClosedIsReported
  RepetitionHarmless
CHECK_DEADLOCK FALSE
SYMMETRY Interchangeable
PROPERTIES
  IsRemoteCall
