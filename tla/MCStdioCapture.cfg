SPECIFICATION Spec
CONSTANTS
  r1 = r1
  r2 = r2
  Runs = {r1, r2}
  RunOptions <- MCOptions
  MaxBytes = 1
  MaxWrites = 1
  MaxChildren = 1
  MaxReaders = 2
  Host = Host
INVARIANTS Inv CaptureIsOwn
PROPERTIES ReadersRetire
CHECK_DEADLOCK FALSE
