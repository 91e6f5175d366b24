----------------------------- MODULE MCMutexCond -----------------------------
\* The instance TLC checks: three threads share one mutex and one condition variable.
EXTENDS MutexCond
=============================================================================
