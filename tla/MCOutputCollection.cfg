SPECIFICATION LiveSpec
CONSTANTS
  Capture = {"stdout", "stderr"}
  MaxBytes = 1
  Chunk = 2
  PipeCap = 2
  Slots = 2
  Deadlines = {TRUE, FALSE}
  Faults = TRUE
  Writes <- MCWrites
  Others = 1
CHECK_DEADLOCK FALSE
INVARIANTS Inv NoBrokenPipe
PROPERTIES SlotsComeBack WriterUnblocked
