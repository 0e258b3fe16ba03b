CONSTANTS
  NONE = NONE
  Callers = {c1, c2}
  Kinds = {"open", "save", "discover", "setup", "import", "export", "publish"}
  MaxRuns = 0
  MaxSessions = 1
  MaxRevision = 2
  MaxTokens = 2
SPECIFICATION ShutdownSpec
CHECK_DEADLOCK FALSE
INVARIANTS ReviewsAreCurrent ShutdownIsComplete
PROPERTIES ShutdownEnds
