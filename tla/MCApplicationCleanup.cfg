CONSTANTS
  NONE = NONE
  Callers = {c1, c2}
  Kinds = {"open", "recognize"}
  MaxRuns = 2
  MaxSessions = 1
  MaxRevision = 1
  MaxTokens = 0
SPECIFICATION Spec
CHECK_DEADLOCK FALSE
INVARIANTS CleanupIsReported
