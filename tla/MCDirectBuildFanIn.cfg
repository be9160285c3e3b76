\* A model joins a table that is rebuilt before it: violated by the code.
CONSTANTS
  None = None
  Project <- FanIn
  Builders = {a}
  MaxEvents = 1
  Stamp <- MCStamp
  Times = {1, 2}
  Casts <- OneBuild
SPECIFICATION Spec
INVARIANT RowsOnce
CHECK_DEADLOCK FALSE
