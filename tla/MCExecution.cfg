CONSTANTS
  Parts = {"host", "engine", "runtime", "compiler", "logs", "payload", "trial",
    "preparation", "target"}
  a = a
  b = b
SPECIFICATION MCSpec
INVARIANTS CallsAreAccounted ReportsAreTrue
PROPERTIES NothingAfterTheEnd
SYMMETRY Symmetry
CHECK_DEADLOCK FALSE
