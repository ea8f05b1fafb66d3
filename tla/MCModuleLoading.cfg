SPECIFICATION Spec
CONSTANTS
  a = a
  b = b
  c = c
  main = main
  worker = worker
  Modules = {a, b, c}
  Static <- MCStatic
  Dynamic <- MCDynamic
  Entry = a
  Schemes <- MCSchemes
  Loaders = {main, worker}
  Main = main
  Grants <- MCGrants
  LockModes = {"none", "writable", "frozen"}
  NImports = 3
  MaxVersion = 2
  Volatile = {c}
  Revocable = {b}
  Capacity = 2
INVARIANTS Inv OnlyAdmitted
PROPERTIES ClosingEndsImports
CHECK_DEADLOCK FALSE
