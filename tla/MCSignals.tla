------------------------------ MODULE MCSignals ------------------------------
\* The instance TLC checks: SIGINT, SIGKILL and SIGALRM by their numbers, all fatal by default.
EXTENDS Signals, TLC

SIGINT == 2
SIGKILL == 9
SIGALRM == 14

MCSigs == {SIGINT, SIGKILL, SIGALRM}
MCMasks == {{}, MCSigs}

\* What programs pass to sigaction: a mask of everything, or a handler for one call that may
\* interrupt itself.
MaskAll == {[mask |-> MCSigs, flags |-> {}]}
OnceNested == {[mask |-> {SIGKILL}, flags |-> {"NODEFER", "RESETHAND"}]}
AllOrOnce == MaskAll \cup OnceNested

\* No thread is special.
Symmetry == Permutations(Threads)

\* MaxDepth bounds the handlers in waiting calls too.
BoundedSpec == Init /\ [][Next /\ Len(stack') <= MaxDepth]_vars
=============================================================================
