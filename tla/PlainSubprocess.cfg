SPECIFICATION FairSpec
CONSTANTS
  Deadlines = {"none", "zero", "finite"}
  Sizes = {1, 2, 3}
  MaxRequest = 2
  PipeCap = 1
  MaxWriters = 1
  MaxOthers = 1
INVARIANTS Inv RequestHonest VerdictHonest
PROPERTIES EndedRunLeftAlone HandshakeEnds InterruptedRunEnds
CHECK_DEADLOCK FALSE
