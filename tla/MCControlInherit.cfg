CONSTANTS
  own = own
  att = att
  ui = ui
  runner = runner
  probe = probe
  rival = rival
  reader = reader
  main = main
  scheduler = scheduler
  dispatcher = dispatcher
  NoOne = NoOne
  Controls <- ChildControls
  Parent <- ChildParent
  Native <- ChildNative
  Threads <- ChildThreads
  Calls <- ChildCalls
  Budgets <- ChildBudgets
SPECIFICATION Spec
INVARIANTS EffectExcludesStop
CHECK_DEADLOCK FALSE
