SPECIFICATION Spec
CONSTANTS
  MaxId = 2
  ActiveLimit = 1
  QueueLimit = 1
  Timed = {}
  Supervised = FALSE
  BoundedGrace = TRUE
  Cancellers = {}
  ShutdownUsed = TRUE
  SpawnMayFail = FALSE
PROPERTIES CountedBeforeStart
CHECK_DEADLOCK FALSE
