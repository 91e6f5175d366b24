CONSTANTS
  Threads = {t1, t2}
  Sigs <- MCSigs
  INT = 2
  ALRM = 14
  Uncatchable = {9}
  Fatal = {2, 9, 14}
  Masks <- MCMasks
  Actions <- MaskAll
  MaxDepth = 2
CHECK_DEADLOCK FALSE
SPECIFICATION BoundedSpec
INVARIANTS NeverDeliverBlocked KillIsUnblockedAgain
SYMMETRY Symmetry
