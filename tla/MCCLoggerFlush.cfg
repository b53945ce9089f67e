\* No failure and no crash: logger_flush beside a call that holds the mutex.
SPECIFICATION Spec
CONSTANTS
  t1 = t1
  t2 = t2
  Threads = {t1, t2}
  Initialisers = {t1}
  Lens = {1, 2}
  MaxFileSize = 2
  MaxBackupFiles = 2
  Times = {0, 1, 3}
  Modulus = 8
  FlushInterval = 1
  Failable = {}
  MaxMsgs = 4
  MaxInits = 1
  MaxCrashes = 0
  Null = Null
INVARIANTS ThreadSafe
CHECK_DEADLOCK FALSE
