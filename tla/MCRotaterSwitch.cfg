\* The archive path changes from #s to #r and one thread goes on.
SPECIFICATION Spec
CONSTANTS
  t1 = t1
  t2 = t2
  t3 = t3
  p1 = p1
  p2 = p2
  Threads = {t1}
  Procs = {p1, p2}
  ProcOf <- ThreeThreads
  Lens = {2}
  MaxSize = 2
  MaxCount = 3
  Kinds = {"roll", "seq"}
  Switch = TRUE
  Failable = {}
  MaxMsgs = 8
  MaxCrashes = 0
  Null = Null
PROPERTIES RollsUp
CHECK_DEADLOCK FALSE
