\* Three builds, stale plans, one fault, a crash, an edit or a reset of the target.
CONSTANTS
  None = None
  Project <- Chain
  Builders = {a, b}
  MaxEvents = 2
  Stamp <- MCStamp
  Times = {1, 2}
  Casts <- MCCasts
SPECIFICATION Spec
INVARIANTS TypeOK AppliedStands LandedOnce SourceRestored
CHECK_DEADLOCK FALSE
