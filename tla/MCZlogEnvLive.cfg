\* Every call returns, with the scheduler's fairness.
SPECIFICATION FairSpec
CONSTANTS
  Threads = {t1, t2}
  app = app
  web = web
  Categories = {app}
  Levels = {1, 2}
  Confs <- MCConfs
  RecNames = {file}
  RecFns = {fn}
  Failable <- FailurePoints
  MaxCalls = 5
  MaxConfs = 3
  Null = Null
PROPERTIES CallsReturn
CHECK_DEADLOCK FALSE
