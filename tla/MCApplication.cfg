CONSTANTS
  NONE = NONE
  Callers = {c1, c2}
  Kinds = {"open", "exit", "discover", "trial", "save", "refresh", "duplicate", "validate", "recognize",
           "start", "check", "setup", "pick", "close", "reconstruct", "capture", "pickPackage"}
  MaxRuns = 2
  MaxSessions = 2
  MaxRevision = 2
  MaxTokens = 0
SPECIFICATION Spec
ACTION_CONSTRAINT InGroup
CHECK_DEADLOCK FALSE
INVARIANTS WorkIsExclusive StopReachesTheRun
PROPERTIES ContainmentHolds
