CONSTANTS
  cat = cat
  bmp = bmp
  Files = {cat, bmp}
  Trees = {cat}
  MaxIdx = 1
  BlksInLeb = 2
  BlksInPage = 1
  Val = {"a"}
  NoVal = NoVal
  Junk = Junk
  NoBlk = NoBlk
  MkfsTab <- MCMkfsTab
  MkfsVal = "a"
  MkfsTbc = 8
  ExpandStep = 4
  MaxTbc = 12
  Faults = {"sign", "table"}
  MaxSync = 2
SPECIFICATION Spec
INVARIANTS NoSharedChunk NoMetaExhaustion CommittedProtected
PROPERTIES LaterCommitRepairs
