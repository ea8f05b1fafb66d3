SPECIFICATION LiveSpec
CONSTANTS
  MaxId = 2
  ActiveLimit = 1
  QueueLimit = 1
  Timed = {1, 2}
  Supervised = FALSE
  BoundedGrace = FALSE
  Cancellers = {2}
  ShutdownUsed = FALSE
  SpawnMayFail = TRUE
PROPERTIES EveryHandleResolves
CHECK_DEADLOCK FALSE
