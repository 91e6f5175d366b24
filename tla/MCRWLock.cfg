CONSTANTS
  Threads = {t1, t2, t3, t4}
  NoThread = NoThread
SPECIFICATION FairSpec
INVARIANTS TypeOK RWExclusion
PROPERTIES NeverStuckFree
