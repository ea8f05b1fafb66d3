SPECIFICATION FairSpec
CONSTANTS
  Runs = {r1, r2}
  MaxEdits = 2
  MaxRefresh = 1
  AuthVersions = {1}
  JsrAuthVersions = {2}
  LockVersions = {1}
  ByonmVersions = {2}
  MaxEntries = 1
  NoRun = NoRun
  NoKey = NoKey
  NoSeed = NoSeed
INVARIANTS Inv
PROPERTIES ServesContract RunsAreServed
CHECK_DEADLOCK FALSE
