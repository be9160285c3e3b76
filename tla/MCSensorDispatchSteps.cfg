\* One dispatcher, a crash or a failed pass, an operator action, a handler with an
\* at-most-once step that may time out.
CONSTANTS
  Dispatchers = {a}
  Events = {1, 2}
  Matched = {1, 2}
  MaxAttempts = 1
  BatchLimit = 1
  AtMostOnceEvents = {1}
  AtLeastOnceEvents = {}
  MayExpire = {}
  MayTimeOut = TRUE
  MaxCrashes = 1
  MaxActions = 1
SPECIFICATION FairSpec
INVARIANTS TypeOK RepeatsExplained
PROPERTIES EventuallyResolved
CHECK_DEADLOCK FALSE
