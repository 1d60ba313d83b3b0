SPECIFICATION FairSpec
CONSTANTS
  a = a
  b = b
  copy = copy
  bad = bad
  Procs = {p1, p2}
  Chars = {a, b}
  Names = {"n", "m"}
  NameOf <- MCNameOf
  MaxRows = 2
  Files = {copy, bad}
  Snapshot <- MCSnapshot
  Admins = {p1}
  p1 = p1
  p2 = p2
  OpsOf <- MCOpsOf
  Targets = {copy}
  MaxLosses = 1
  Mistyped = Mistyped
INVARIANTS
  TypeOK
  RestoreIsComplete
PROPERTIES
  ImplementsTable
  StoppedRestoreIsPrefix
  EveryCallReturns
