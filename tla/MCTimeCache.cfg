\* Three threads, a clock that may go backwards.
SPECIFICATION FairSpec
CONSTANTS
  Threads = {t1, t2, t3}
  Seconds <- MCSeconds
  Zero <- MCZero
INVARIANTS TypeOK NoRace
PROPERTIES ImplementsTimeSource Refilled
