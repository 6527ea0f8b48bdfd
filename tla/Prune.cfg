CONSTANTS
  Subdirs = {d1, d2}
  Heavy = {d2}
  LockFile = LockFile
  Pruners = {p1}
  AwareFlags = {"on", "off", "auto"}
  MaxBytes = 1
SPECIFICATION Spec
INVARIANTS TypeOK LeaseHonoured RegistryHonoured ExitTellsTruth
PROPERTIES PlanMeetsPolicy
CHECK_DEADLOCK FALSE
