------------------------------- MODULE MCRWLock -------------------------------
\* The instance TLC checks: four threads share one read-write lock.
EXTENDS RWLock
=============================================================================
