\* Two commands of any kind over one file, each of which may be cut short.
CONSTANTS
  Names = {m, mFree}
  Aliases = {coding}
  Agents = {a1, a2}
  Bindings = {b, bId}
  Named = {bId}
  Channels = {ch}
  Runs = {r1, r2}
  m = m
  mFree = mFree
  coding = coding
  a1 = a1
  a2 = a2
  b = b
  bId = bId
  ch = ch
  None = None
  Longer <- MCLonger
  Commands <- MCCommands
  InitDocs <- MCInitDocs
  Template <- MCTemplate
  Catalogs <- MCCatalogs
SPECIFICATION Spec
INVARIANTS TypeOK DefaultConfigured IndexKept KeptUnlessRaced BackupSaves MergeSettles
CHECK_DEADLOCK FALSE
