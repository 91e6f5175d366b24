------------------------------ MODULE MCThreads ------------------------------
\* The instance TLC checks: a table of main and two slots, two threads besides main (one can get
\* the slot the other has left, or run beside it), one TLS key.
EXTENDS Threads
=============================================================================
