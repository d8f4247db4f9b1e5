SPECIFICATION Spec
CONSTANTS
  None = None
  Queue <- MCQueue
  Exchange <- MCExchange
  Policy <- MCPolicy
  Binding <- MCBinding
  Vhosts <- MCVhosts
  System <- MCSystem
  MaxChanges = 1
INVARIANT
  RelevantPolicyRequiresSelection
CHECK_DEADLOCK FALSE
