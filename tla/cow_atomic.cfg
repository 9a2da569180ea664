CONSTANTS
  cat = cat
  bmp = bmp
  Files = {cat, bmp}
  Trees = {cat}
  MaxIdx = 0
  BlksInLeb = 2
  BlksInPage = 1
  Val = {"a", "b"}
  NoVal = NoVal
  Junk = Junk
  NoBlk = NoBlk
  MkfsTab <- MCMkfsTab
  MkfsVal = "a"
  MkfsTbc = 8
  ExpandStep = 4
  MaxTbc = 8
  Faults = {}
  MaxSync = 3
SPECIFICATION Spec
INVARIANTS TypeOK SyncMeansDurable MountReadable
PROPERTIES CommittedNeverOverwritten Atomic
