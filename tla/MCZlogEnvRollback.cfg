\* A reload in which the rule list of a category cannot be allocated.
SPECIFICATION Spec
CONSTANTS
  Threads = {t1}
  app = app
  web = web
  Categories = {app, web}
  Levels = {1, 2}
  Confs <- MCConfs
  RecNames = {file}
  RecFns = {fn}
  Failable = {"update"}
  MaxCalls = 5
  MaxConfs = 3
  Null = Null
INVARIANTS OldConfStillWorking
CHECK_DEADLOCK FALSE
