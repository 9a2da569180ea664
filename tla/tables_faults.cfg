CONSTANTS
  MaxExt = 2
  MaxRec = 1
  MetaPerLv = 2
  MkfsMount = 1
  MkfsSync = 0
  Faults = {"table", "super", "nospace"}
  MaxId = 3
  MaxMount = 4
  MaxMeta = 3
  MaxLv = 2
  Bad = Bad
  Mixed = Mixed
SPECIFICATION Spec
CHECK_DEADLOCK FALSE
INVARIANTS RecoveryUnlessBroken
