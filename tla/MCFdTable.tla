------------------------------ MODULE MCFdTable ------------------------------
\* The instance TLC checks: three slots above stdio, fewer forks than slots, two files.
EXTENDS FdTable, TLC

CONSTANTS f1, f2

MCFiles == {f1, f2}
MCRefNums == {1, 2}
Symmetry == Permutations(MCFiles)
=============================================================================
