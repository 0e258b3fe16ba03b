CONSTANTS
  Parts = {"releases", "versions", "archive", "sharing", "notices", "restarts", "requests",
    "edits", "agent", "plugin", "plugins", "setup", "closure", "log", "publication",
    "crops", "package", "cache"}
  a = a
  b = b
  p = p
  q = q
  none = none
  strange = strange
SPECIFICATION MCSpec
INVARIANTS FilesAreWhole AgentsAreFenced ResourcesAreTrue
PROPERTIES OthersAreKept
SYMMETRY Symmetry
CHECK_DEADLOCK FALSE
