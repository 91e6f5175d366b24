CONSTANTS
  Threads = {t1, t2}
  Sigs <- MCSigs
  INT = 2
  ALRM = 14
  Uncatchable = {9}
  Fatal = {2, 9, 14}
  Masks <- MCMasks
  Actions <- OnceNested
  MaxDepth = 1
CHECK_DEADLOCK FALSE
SPECIFICATION FairSpec
INVARIANTS TypeOK
PROPERTIES NoSignalForgotten
