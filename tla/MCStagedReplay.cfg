\* One deployment, two builds of it, one clean-up, two rows landed and two landing.
CONSTANTS
  Rows = {1, 2, 3, 4}
  Old = {1, 2}
  PartitionOf <- MCPartitionOf
  Modes = {"offsets", "cursor", "timestamp", "landed_at"}
  Lookback = 1
  StartTime = 2
  MaxSkew = 1
  MaxTime = 3
  MaxBuilds = 2
  MaxDrops = 1
SPECIFICATION Spec
INVARIANTS  InsertedOncePerBuild
CHECK_DEADLOCK FALSE
