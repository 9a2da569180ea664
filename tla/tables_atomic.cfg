CONSTANTS
  MaxExt = 2
  MaxRec = 1
  MetaPerLv = 1
  MkfsMount = 1
  MkfsSync = 0
  Faults = {}
  MaxId = 6
  MaxMount = 4
  MaxMeta = 1
  MaxLv = 1
  Bad = Bad
  Mixed = Mixed
SPECIFICATION Spec
CHECK_DEADLOCK FALSE
INVARIANTS TypeOK RecoveryExact
PROPERTIES VersionsGrow Atomic
