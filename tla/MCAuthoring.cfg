CONSTANTS
  Parts = {"workspace", "workspaces", "bootstrap", "configurations", "draft", "trials",
    "target", "declarations", "native", "leases", "worker", "preview", "owners"}
  a = a
  b = b
  u1 = u1
  u2 = u2
SPECIFICATION MCSpec
INVARIANTS WorkspacesAgree OneSession CaptureIsFenced DraftIsExact
PROPERTIES LateIsInert ReplacementsAreSafe
SYMMETRY Symmetry
CHECK_DEADLOCK FALSE
