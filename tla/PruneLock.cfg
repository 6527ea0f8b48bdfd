CONSTANTS
  Subdirs = {d1}
  Heavy = {}
  LockFile = LockFile
  Pruners = {p1, p2}
  AwareFlags = {"on"}
  MaxBytes = 1
SPECIFICATION Spec
INVARIANTS PrunersExclude
CHECK_DEADLOCK FALSE
