------------------------------ MODULE MutexCond ------------------------------
(***************************************************************************)
(* A pthread mutex and a condition variable used with it, as               *)
(* src/src/posix9_thread.c implements them over the cooperative Thread     *)
(* Manager.  A thread runs until it calls YieldToAnyThread, so one action  *)
(* is all the code between two yields; "running" is the thread that has    *)
(* the processor.  Threads are known to the thread table: pthread_self()   *)
(* of thread t is t, and NoThread stands for 0.                            *)
(***************************************************************************)
EXTENDS Integers, FiniteSets

CONSTANTS Threads, NoThread

ASSUME ThreadsAssumption == /\ IsFiniteSet(Threads)
                            /\ NoThread \notin Threads

VARIABLES running,   \* the thread that executes, NoThread inside the Thread Manager's scheduler
          pc,        \* where each thread is
          locked,    \* mutex->locked
          owner,     \* mutex->owner
          waiting,   \* cond->waiting
          signaled,  \* cond->signaled
          expired,   \* timed waiters whose endTicks TickCount() has reached
          result     \* what each thread's latest wait returns: "0" or "ETIMEDOUT"

mutex == <<locked, owner>>
cond == <<waiting, signaled>>
vars == <<running, pc, locked, owner, waiting, signaled, expired, result>>

\* Places of a thread: user code without and with the mutex, the spin of pthread_mutex_lock, the
\* polling loops of the two waits, and the spin of the lock that ends a wait.
Places == {"out", "in", "lock", "wait", "timed", "relock"}
Waiters == {t \in Threads : pc[t] \in {"wait", "timed"}}

TypeOK == /\ running \in Threads \cup {NoThread}
          /\ pc \in [Threads -> Places]
          /\ locked \in {0, 1}
          /\ owner \in Threads \cup {NoThread}
          /\ waiting \in 0 .. Cardinality(Threads)
          /\ signaled \in 0 .. Cardinality(Threads)
          /\ expired \subseteq Threads
          /\ result \in [Threads -> {"0", "ETIMEDOUT"}]

Init == /\ running = NoThread
        /\ pc = [t \in Threads |-> "out"]
        /\ locked = 0
        /\ owner = NoThread
        /\ waiting = 0
        /\ signaled = 0
        /\ expired = {}
        /\ result = [t \in Threads |-> "0"]

Goto(t, place) == pc' = [pc EXCEPT ![t] = place]
Return(t, value) == result' = [result EXCEPT ![t] = value]

\* The processor goes back to the scheduler, which picks the next thread, maybe the same one.
YieldToAnyThread == running' = NoThread

Dispatch(t) == /\ running = NoThread
               /\ running' = t
               /\ UNCHANGED <<pc, locked, owner, waiting, signaled, expired, result>>

-----------------------------------------------------------------------------
(* Mutex *)

\* A mutant of LockAttempt below: the test of mutex->locked is dropped.
LockAttemptUnchecked(t, spin) ==
  /\ locked' = 1
  /\ owner' = t
  /\ Goto(t, "in")
  /\ UNCHANGED running

\* One turn of the loop of pthread_mutex_lock: take a free mutex, else yield and stay at "spin".
LockAttempt(t, spin) ==
  \/ /\ locked = 0
     /\ locked' = 1
     /\ owner' = t
     /\ Goto(t, "in")
     /\ UNCHANGED running
  \/ /\ locked # 0
     /\ Goto(t, spin)
     /\ YieldToAnyThread
     /\ UNCHANGED mutex

Lock(t) == /\ pc[t] \in {"out", "lock"}
           /\ LockAttempt(t, "lock")
           /\ UNCHANGED <<cond, expired, result>>

\* EBUSY changes nothing, so only the success is a step.
TryLock(t) == /\ pc[t] = "out"
              /\ locked = 0
              /\ locked' = 1
              /\ owner' = t
              /\ Goto(t, "in")
              /\ UNCHANGED <<running, cond, expired, result>>

\* The code does not compare the owner; a program unlocks what it locked.
Unlock(t) == /\ pc[t] = "in"
             /\ locked' = 0
             /\ owner' = NoThread
             /\ Goto(t, "out")
             /\ UNCHANGED <<running, cond, expired, result>>

-----------------------------------------------------------------------------
(* Condition variable *)

\* Two mutants of LeaveWait below: the first waiter out clears the flag; nobody clears it.
LeaveWaitEager(n) == /\ waiting' = n - 1
                     /\ signaled' = 0

LeaveWaitKeep(n) == /\ waiting' = n - 1
                    /\ UNCHANGED signaled

\* The end of both waits once cond->signaled is seen set: the last waiter out clears the flag.
LeaveWait(n) == /\ waiting' = n - 1
                /\ signaled' = IF n - 1 = 0 THEN 0 ELSE signaled


\* A wait called while cond->signaled is set: it counts itself in, unlocks, finds the loop
\* condition false at once, counts itself out and locks the mutex it has just released.
\* The thread never yields.
WaitThrough(t) == /\ signaled # 0
                  /\ LeaveWait(waiting + 1)
                  /\ locked' = 1
                  /\ owner' = t
                  /\ Return(t, "0")
                  /\ UNCHANGED <<running, pc, expired>>

\* A mutant of Block below: the wait forgets to count itself in.
BlockUncounted(t, place) == /\ signaled = 0
                            /\ locked' = 0
                            /\ owner' = NoThread
                            /\ Goto(t, place)
                            /\ YieldToAnyThread
                            /\ UNCHANGED <<waiting, signaled, expired, result>>

\* Otherwise it unlocks and yields from the polling loop.
Block(t, place) == /\ signaled = 0
                   /\ waiting' = waiting + 1
                   /\ locked' = 0
                   /\ owner' = NoThread
                   /\ Goto(t, place)
                   /\ YieldToAnyThread
                   /\ UNCHANGED <<signaled, expired, result>>

Wait(t) == pc[t] = "in" /\ (WaitThrough(t) \/ Block(t, "wait"))

\* A deadline already reached (tv_sec = 0) ends the wait before the first yield.
TimedWait(t) == /\ pc[t] = "in"
                /\ \/ WaitThrough(t)
                   \/ Block(t, "timed")
                   \/ /\ signaled = 0
                      /\ locked' = 1
                      /\ owner' = t
                      /\ Return(t, "ETIMEDOUT")
                      /\ UNCHANGED <<running, pc, cond, expired>>

\* One turn of the loop "while (cond->signaled == 0)" that finds the flag set, and the lock
\* attempt that follows it without a yield between.
Wake(t) == /\ t \in Waiters
           /\ signaled # 0
           /\ LeaveWait(waiting)
           /\ expired' = expired \ {t}
           /\ Return(t, "0")
           /\ LockAttempt(t, "relock")

\* A turn that finds the flag clear.
Poll(t) == /\ t \in Waiters
           /\ signaled = 0
           /\ pc[t] = "timed" => t \notin expired
           /\ YieldToAnyThread
           /\ UNCHANGED <<pc, mutex, cond, expired, result>>

\* A mutant of Timeout below: the deadline is looked at before the flag.
TimeoutFirst(t) == /\ pc[t] = "timed"
                   /\ t \in expired
                   /\ waiting' = waiting - 1
                   /\ expired' = expired \ {t}
                   /\ Return(t, "ETIMEDOUT")
                   /\ LockAttempt(t, "relock")
                   /\ UNCHANGED signaled

\* The deadline is looked at only while the flag is clear.
Timeout(t) == /\ pc[t] = "timed"
              /\ signaled = 0
              /\ t \in expired
              /\ waiting' = waiting - 1
              /\ expired' = expired \ {t}
              /\ Return(t, "ETIMEDOUT")
              /\ LockAttempt(t, "relock")
              /\ UNCHANGED signaled

Relock(t) == /\ pc[t] = "relock"
             /\ LockAttempt(t, "relock")
             /\ UNCHANGED <<cond, expired, result>>

Signal(t) == /\ pc[t] \in {"out", "in"}
             /\ waiting > 0
             /\ signaled' = 1
             /\ UNCHANGED <<running, pc, mutex, waiting, expired, result>>

Broadcast(t) == /\ pc[t] \in {"out", "in"}
                /\ waiting > 0
                /\ signaled' = waiting
                /\ UNCHANGED <<running, pc, mutex, waiting, expired, result>>

-----------------------------------------------------------------------------
(* Scheduling and time *)

\* pthread_yield, or any other call of a program that lets other threads run.
Yield(t) == /\ pc[t] \in {"out", "in"}
            /\ YieldToAnyThread
            /\ UNCHANGED <<pc, mutex, cond, expired, result>>

\* TickCount() reaches the deadline of a timed wait.
Tick(t) == /\ pc[t] = "timed"
           /\ expired' = expired \cup {t}
           /\ UNCHANGED <<running, pc, mutex, cond, result>>

\* What library code that already runs must go on to do, and what programs call.
Library(t) == Wake(t) \/ Poll(t) \/ Timeout(t) \/ Relock(t) \/ (pc[t] = "lock" /\ Lock(t))
User(t) == \/ Lock(t) \/ TryLock(t) \/ Unlock(t)
           \/ Wait(t) \/ TimedWait(t) \/ Signal(t) \/ Broadcast(t) \/ Yield(t)

Run(t) == running = t /\ (Library(t) \/ User(t))

Next == \E t \in Threads : Dispatch(t) \/ Run(t) \/ Tick(t)

Spec == Init /\ [][Next]_vars

\* Library code does not stop by itself, and the scheduler, asked again and again for the next
\* thread, passes no ready thread over for ever.
Scheduling == \A t \in Threads : /\ WF_vars(running = t /\ Library(t))
                                 /\ SF_vars(Dispatch(t))

\* The programs give the processor up again and again, which cooperative threads have to.
Courtesy == \A t \in Threads : WF_vars(running = t /\ Yield(t))

FairSpec == Spec /\ Scheduling /\ Courtesy

-----------------------------------------------------------------------------
(* Properties *)

\* At most one thread is between a lock and its unlock, whichever of the four paths gave it the
\* mutex (a call, the spin, the end of a wait, the end of a timed-out wait), and both fields of
\* the mutex tell of that thread.
MutexExclusion == /\ \A t \in Threads : pc[t] = "in" <=> owner = t
                  /\ locked = 0 <=> owner = NoThread

\* cond->waiting counts the threads in the two polling loops through every way out of them,
\* and cond->signaled is never left set without a waiter: a signal cannot be saved up for a
\* thread that starts to wait after everyone it was meant for is gone.
NoStaleSignal == /\ waiting = Cardinality(Waiters)
                 /\ signaled # 0 => Waiters # {}

\* A posted signal is not lost to any of the threads that were waiting: as long as one of them
\* has not left, the flag stays set, and none of them reports a timeout, however late it runs.
SignalReachesAll ==
  [][signaled # 0 =>
       /\ Waiters' # {} => signaled' # 0
       /\ \A t \in Waiters : t \notin Waiters' => result'[t] = "0"]_vars

\* Every waiter that a signal or a broadcast was meant for comes out of its polling loop.
BroadcastWakesAll ==
  \A t \in Threads : (t \in Waiters /\ signaled # 0) ~> (t \notin Waiters)

\* The mutex and the condition variable together implement the abstract monitor. The mapping
\* says that one signal wakes every waiter: the flag is cleared by the last one only.
M == INSTANCE Monitor WITH holder <- owner,
                           waiters <- Waiters,
                           woken <- IF signaled # 0 THEN Waiters ELSE {}
ImplementsMonitor == M!Spec
=============================================================================
