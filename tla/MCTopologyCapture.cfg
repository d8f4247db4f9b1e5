SPECIFICATION Spec
CONSTANTS
  None = None
  Queue <- MCQueue
  Exchange <- MCExchange
  Policy <- MCPolicy
  Binding <- MCBinding
  Vhosts <- MCVhosts
  System <- MCSystem
  MaxChanges = 1
INVARIANTS
  UnobservedNeverGuesses
  QuietCaptureExact
  HopsWereEffective
  DanglingIsAbsent
  FilesNeverMislead
CHECK_DEADLOCK FALSE
