CONSTANTS
  MaxProbes = 2
  CmdCapacity = 2
  Bounds = {"deadline", "containment"}
  Disconnects = {FALSE, TRUE}
SPECIFICATION Spec
INVARIANTS VerdictIsJust NoCommandLost NothingDetached RecoverOnlySettled
PROPERTIES SupervisionEnds
CHECK_DEADLOCK FALSE
