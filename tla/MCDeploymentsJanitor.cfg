\* Three deployments of a model that may be renamed between them.
CONSTANTS
  DeploymentIds = {d1, d2, d3}
  Objects = {1, 2}
  Views = {1, 2}
  ModelOf <- MCModelOf
  Plans <- Renamed
  Unbound = Unbound
  MinimumRollback = 1
  MaxEvents = 3
  MaxAttempts = 1
SYMMETRY IdSymmetry
SPECIFICATION Spec
PROPERTIES JanitorKeepsRollbackPoints JanitorKeepsModelsBound
CHECK_DEADLOCK FALSE
