SPECIFICATION WalkSpec
CONSTANTS
  None = None
  Captures <- MCCaptures
  OwnHost = {"here"}
  Host = {"here", "there"}
  Name = {"gone", "q", "s", "t", "x", "y"}
INVARIANT
  CompetitorsReported
PROPERTIES
  HopsAreCaptured
  LoopsAreReported
  FindingsHold
  FanoutDescribed
CHECK_DEADLOCK FALSE
