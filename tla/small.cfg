CONSTANTS
  File = {f1, f2}
  Zero = zero
  Junk = junk
  TINY_DATA_SIZE = 2
  cell_size = 3
  PageSize = 4
  NumCells = 2
  NoCell = NoCell
  NoPage = NoPage
  NoWrite = NoWrite
  Writes <- MCWrites
  Sizes = {0, 1, 3}
  MaxOps = 3
  Faults = {"area", "nospace"}
SPECIFICATION Spec
SYMMETRY Symmetry
INVARIANTS CellsOwned ContentExact RecordCurrent
CHECK_DEADLOCK FALSE
