------------------------------- MODULE Monitor -------------------------------
(***************************************************************************)
(* What a pthread mutex used with one condition variable promises, without *)
(* the counters and flags posix9_thread.c keeps for it: at most one holder,*)
(* a set of blocked waiters, and a notification that reaches every waiter  *)
(* of its moment and nobody else.                                          *)
(***************************************************************************)
CONSTANTS Threads, NoThread

VARIABLES holder,   \* the thread inside the monitor, or NoThread
          waiters,  \* the threads blocked in a wait
          woken     \* the waiters that a notification has reached

vars == <<holder, waiters, woken>>

TypeOK == /\ holder \in Threads \cup {NoThread}
          /\ waiters \subseteq Threads
          /\ woken \subseteq waiters

Init == /\ holder = NoThread
        /\ waiters = {}
        /\ woken = {}

Enter(t) == /\ holder = NoThread
            /\ t \notin waiters
            /\ holder' = t
            /\ UNCHANGED <<waiters, woken>>

Leave(t) == /\ holder = t
            /\ holder' = NoThread
            /\ UNCHANGED <<waiters, woken>>

\* A wait gives the monitor up. It cannot begin while a notification is still being handed out:
\* a newcomer never takes part in it.
Block(t) == /\ holder = t
            /\ woken = {}
            /\ holder' = NoThread
            /\ waiters' = waiters \cup {t}
            /\ UNCHANGED woken

Notify == /\ woken' = waiters
          /\ UNCHANGED <<holder, waiters>>

\* A waiter that leaves may find the monitor free and enter it in the same step.
MayEnter(t) == holder' = holder \/ (holder = NoThread /\ holder' = t)

Wake(t) == /\ t \in woken
           /\ waiters' = waiters \ {t}
           /\ woken' = woken \ {t}
           /\ MayEnter(t)

\* A timed wait ends by itself only if no notification has reached it.
Expire(t) == /\ t \in waiters \ woken
             /\ waiters' = waiters \ {t}
             /\ UNCHANGED woken
             /\ MayEnter(t)

Next == \/ Notify
        \/ \E t \in Threads : \/ Enter(t) \/ Leave(t) \/ Block(t)
                              \/ Wake(t) \/ Expire(t)

Spec == Init /\ [][Next]_vars
=============================================================================
