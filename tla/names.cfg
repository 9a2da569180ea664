CONSTANTS
  Ino = {i1, i2}
  Root = Root
  Orphans = Orphans
  Name = {a, b}
  Attr = {x}
  Task = {t1}
  Idle = Idle
  NoRec = NoRec
  NoKey = NoKey
  LinkMax = 2
  Faults = {"insert", "transform", "xattr"}
  MaxCommit = 1
SPECIFICATION Spec
SYMMETRY Symmetry
INVARIANTS TypeOK OneHome CountsExact XattrOwned InodeFindsRecord
