\* One run that creates a key and gets an answer without its string.
CONSTANTS
  a1 = a1
  a2 = a2
  Agents <- MCAgents
  Foreign = Foreign
  Runs = {r1}
  Commands <- MCCommands
  PageSize = 2
  MaxPages = 2
  MaxInitial = 2
  MaxRevoked = 1
SPECIFICATION Spec
INVARIANTS RecoveryReportsKey
CHECK_DEADLOCK FALSE
