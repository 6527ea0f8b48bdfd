CONSTANTS
  Subdirs = {d1}
  Heavy = {}
  LockFile = LockFile
  Pruners = {p1, p2}
  AwareFlags = {"off", "auto"}
  MaxBytes = 1
SPECIFICATION Spec
INVARIANTS ExclusiveUnlessAware
CHECK_DEADLOCK FALSE
