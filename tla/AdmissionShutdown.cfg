SPECIFICATION Spec
CONSTANTS
  MaxId = 2
  ActiveLimit = 1
  QueueLimit = 1
  Timed = {2}
  Supervised = TRUE
  BoundedGrace = TRUE
  Cancellers = {1}
  ShutdownUsed = TRUE
  SpawnMayFail = TRUE
INVARIANTS ResultAfterRelease CancelledNeverCompletes ManagerKeepsUp
PROPERTIES NoStartAfterShutdown
CHECK_DEADLOCK FALSE
