\* One report while three lines are written to two files that may vanish.
CONSTANTS
  Agents = {a1, a2}
  Providers = {p}
  Names = {m}
  Recent = 2
  WarnAbove = 1
  MaxEvents = 3
  a1 = a1
  a2 = a2
  p = p
  m = m
  None = None
  Files <- MCFiles
  Events <- MCEvents
  Asked <- MCAsked
SPECIFICATION Spec
INVARIANTS TypeOK EventsCounted ReportAddsUp PricesFit HealthIsRecent
CHECK_DEADLOCK FALSE
