CONSTANTS
  Runs = {r1, r2}
  Closers = {c1}
  None = None
  MaxStages = 1
SPECIFICATION Spec
INVARIANTS TypeOK CleanShutdown StopIsNamed
PROPERTIES ViewIsTrue RecoveryIsAdmitted ImplementsReservation StopSettles
CHECK_DEADLOCK FALSE
