SPECIFICATION HungSpec
CONSTANTS
  CancelReasons = {"User", "Deadline", "Shutdown"}
  HasDeadline = TRUE
  Slow = TRUE
  Faults = TRUE
  Strangers = 1
CHECK_DEADLOCK FALSE
INVARIANTS Inv ReasonsAgree NoFalseProtocolError ResultIsHonest
  CancelAfterStartWins TerminalAuthoritative NoOrphan
PROPERTIES CancelledRunEnds SessionEnds
