SPECIFICATION ManagersSpec
CONSTANTS
  None = None
  c1 = c1
  c2 = c2
  c3 = c3
  Caller = {c1, c2, c3}
  Requests = {}
  Brokers <- MCBrokers
  Failures = {"timeout"}
  Before <- FirstThenSecond
  Flaky = {c1}
  Scenarios <- MCScenarios
  QueueDeclarations <- MCQueueDeclarations
  ShovelRequests <- MCShovelRequests
INVARIANTS
  LastCallWins
  HonestErrors
  ShovelEcho
PROPERTIES
  NoCollateral
CHECK_DEADLOCK FALSE
