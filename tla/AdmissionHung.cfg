SPECIFICATION HungSpec
CONSTANTS
  MaxId = 2
  ActiveLimit = 1
  QueueLimit = 1
  Timed = {2}
  Supervised = FALSE
  BoundedGrace = TRUE
  Cancellers = {}
  ShutdownUsed = TRUE
  SpawnMayFail = FALSE
PROPERTIES DeadlineEnforced ShutdownReturns
CHECK_DEADLOCK FALSE
