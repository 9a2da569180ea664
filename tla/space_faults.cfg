CONSTANTS
  Block = {b1, b2, b3}
  File = {f1}
  Task = {t1}
  Idle = Idle
  Scan = Scan
  ExpandStep = 1
  MaxMeta = 1
  MaxRes = 2
  Faults = {"insert", "rebuild", "table"}
SPECIFICATION Spec
SYMMETRY Symmetry
INVARIANTS NextFreeExact CommittedDataKept
