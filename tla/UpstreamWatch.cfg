\* An issue with two blocker labels and the release; runs fail, the cache is
\* evicted and upstream moves at any time.
CONSTANTS
  issue = issue
  release = release
  b1 = b1
  b2 = b2
  Items <- MCItems
  Marks = {b1, b2}
  Blockers <- MCBlockers
  BestEffort = {release}
  Shown <- MCShown
  None = None
SPECIFICATION FairSpec
PROPERTIES NothingPassedOver ChangesAreTold
