CONSTANTS
  Keys = {1}
  Rebases = {}
  MaxCaptures = 1
SPECIFICATION Spec
PROPERTIES SettleReturns
CHECK_DEADLOCK FALSE
