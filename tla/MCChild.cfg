CONSTANTS
  own = own
  att = att
  ui = ui
  runner = runner
  probe = probe
  rival = rival
  reader = reader
  main = main
  scheduler = scheduler
  dispatcher = dispatcher
  NoOne = NoOne
  a = a
  b = b
  d = d
  k = k
  Absent = Absent
  Foreign = Foreign
  Controls <- ChildControls
  Parent <- ChildParent
  Native <- ChildNative
  Threads <- ChildThreads
  Calls <- LiveCalls
  Budgets <- LiveBudgets
SPECIFICATION BothSpec
INVARIANTS PrimaryMatchesVerdict
PROPERTIES FirstCauseWins CallsReturn StopSettles TransactionIsSafe ImplementsSwap RecoveryEnds
CHECK_DEADLOCK FALSE
