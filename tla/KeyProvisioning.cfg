\* Two overlapping runs over an account of up to two keys to begin with, on
\* pages of two, and one revocation.
CONSTANTS
  a1 = a1
  a2 = a2
  Agents <- MCAgents
  Foreign = Foreign
  Runs = {r1, r2}
  Commands <- MCCommands
  PageSize = 2
  MaxPages = 2
  MaxInitial = 2
  MaxRevoked = 1
SPECIFICATION Spec
INVARIANTS TypeOK SyncCovers OneKeyLost
PROPERTIES NoNeedlessKey
CHECK_DEADLOCK FALSE
