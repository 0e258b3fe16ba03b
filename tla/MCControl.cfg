CONSTANTS
  own = own
  att = att
  ui = ui
  runner = runner
  probe = probe
  rival = rival
  reader = reader
  main = main
  scheduler = scheduler
  dispatcher = dispatcher
  NoOne = NoOne
  Controls <- ProcessControls
  Parent <- ProcessParent
  Native <- ProcessNative
  Threads <- ProcessThreads
  Calls <- ProcessCalls
  Budgets <- ProcessBudgets
SPECIFICATION Spec
SYMMETRY Alike
INVARIANTS AdmissionHolds
PROPERTIES LaunchBeforeStop
CHECK_DEADLOCK FALSE
