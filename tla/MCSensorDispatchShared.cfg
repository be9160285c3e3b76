\* Two dispatchers on one stream, whatever the lease grants; an event may expire.
CONSTANTS
  Dispatchers = {a, b}
  Events = {1, 2}
  Matched = {1, 2}
  MaxAttempts = 2
  BatchLimit = 1
  AtMostOnceEvents = {}
  AtLeastOnceEvents = {1}
  MayExpire = {1}
  MayTimeOut = FALSE
  MaxCrashes = 0
  MaxActions = 0
SPECIFICATION Spec
INVARIANTS CheckpointCovers DeliveredInOrder
SYMMETRY DispatcherSymmetry
CHECK_DEADLOCK FALSE
