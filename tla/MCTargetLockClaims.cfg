\* Three runs and an operator who may be mistaken; no symmetry, for the liveness.
CONSTANTS
  Runs = {r1, r2, r3}
  NoTable = NoTable
  Operator = "mistaken"
SPECIFICATION FairSpec
INVARIANTS FailClosed OverlapExplained NothingLeftBehind
PROPERTIES ExclusiveOwnership EventuallyFreed
CHECK_DEADLOCK FALSE
