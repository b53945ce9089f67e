\* Every interleaving of two threads, with failures and a crash.
SPECIFICATION Spec
CONSTANTS
  t1 = t1
  t2 = t2
  Threads = {t1, t2}
  Initialisers = {t1}
  Lens = {1, 2}
  MaxFileSize = 2
  MaxBackupFiles = 2
  Times = {0, 1, 3}
  Modulus = 8
  FlushInterval = 1
  Failable = {"open", "remove", "rename"}
  MaxMsgs = 4
  MaxInits = 2
  MaxCrashes = 1
  Null = Null
INVARIANTS TypeOK LockExact SizeRight OrderKept NewestKept StreamsLive FlushedInTime
CHECK_DEADLOCK FALSE
