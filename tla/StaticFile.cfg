\* Two threads of one process; nothing fails.
SPECIFICATION SpecFile
CONSTANTS
  Writers = {"t1", "t2"}
  Fds = {3, 4, 5}
  FsyncPeriod = 0
  Faults = {}
  MaxWrites = 2
  MaxMoves = 1
  MaxReloads = 0
  NoEntry = NoEntry
INVARIANTS ThreadSafe
CHECK_DEADLOCK FALSE
