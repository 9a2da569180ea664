CONSTANTS
  Block = {b1, b2}
  File = {f1, f2}
  Task = {t1, t2}
  Idle = Idle
  Scan = Scan
  ExpandStep = 1
  MaxMeta = 1
  MaxRes = 2
  Faults = {}
SPECIFICATION Spec
SYMMETRY Symmetry
INVARIANTS TypeOK ReservationsBacked BitmapExact
PROPERTIES CommitSeesNoReservation
