SPECIFICATION LiveSpec
CONSTANTS
  r1 = r1
  r2 = r2
  r3 = r3
  w1 = w1
  w2 = w2
  Runs = {r1, r2, r3}
  Workers = {w1, w2}
  Owners <- MCOwners
  Asks <- MCAsks
  UsizeMax = 9
  NoOne = NoOne
CHECK_DEADLOCK FALSE
INVARIANTS Inv NoWorkerLeftBehind
PROPERTIES WaitEnds
