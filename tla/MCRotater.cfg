\* Every interleaving of three threads in two processes, with failures and a
\* crash, in both ways of numbering.
SPECIFICATION Spec
CONSTANTS
  t1 = t1
  t2 = t2
  t3 = t3
  p1 = p1
  p2 = p2
  Threads = {t1, t2, t3}
  Procs = {p1, p2}
  ProcOf <- ThreeThreads
  Lens = {2}
  MaxSize = 2
  MaxCount = 2
  Kinds = {"roll", "seq"}
  Switch = FALSE
  Failable = {"open", "write", "list", "calloc", "unlink", "rename"}
  MaxMsgs = 5
  MaxCrashes = 1
  Null = Null
INVARIANTS TypeOK LockExact NoFileLost NumbersTellAge NewestKept
CHECK_DEADLOCK FALSE
