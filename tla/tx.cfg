CONSTANTS
  Task = {t1, t2}
  Work = work
  Admin = admin
  Inode = {i1}
  MaxNest = 2
  Minute = 2
  Second = 1
  Off = off
  NoProc = noproc
  No = no
  Scan = scan
  Lock = lock
  Commit = commit
  Faults = {"write", "commit", "mount"}
SPECIFICATION Spec
INVARIANTS TypeOK CommitAlone NothingForgotten
PROPERTIES StartReturns SyncReturns Quiesces
CHECK_DEADLOCK FALSE
