CONSTANTS
  OpenMax = 5
  f1 = f1
  f2 = f2
  Files <- MCFiles
  RefNums <- MCRefNums
  NoFile = NoFile
SYMMETRY Symmetry
SPECIFICATION Spec
INVARIANTS TypeOK NoFileLeaked
PROPERTIES CleanupClosesAll
