SPECIFICATION Spec
CONSTANTS
  MaxId = 3
  ActiveLimit = 1
  QueueLimit = 1
  Timed = {2}
  Supervised = FALSE
  BoundedGrace = TRUE
  Cancellers = {1, 3}
  ShutdownUsed = FALSE
  SpawnMayFail = TRUE
INVARIANTS IndInv
PROPERTIES DispatchInOrder
CHECK_DEADLOCK FALSE
