\* Builds of parts of a graph that are aborted and run again, with the same plan
\* or another.
CONSTANTS
  DeploymentIds = {d1, d2}
  Objects = {1, 3, 4}
  Views = {1, 3}
  ModelOf <- MCModelOf
  Plans <- Apart
  Unbound = Unbound
  MinimumRollback = 1
  MaxEvents = 3
  MaxAttempts = 2
SYMMETRY IdSymmetry
SPECIFICATION Spec
INVARIANTS TypeOK ActiveRelationsExist RecordedBindings RollbackRestores
PROPERTIES PublishedFrozen
CHECK_DEADLOCK FALSE
