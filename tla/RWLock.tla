-------------------------------- MODULE RWLock --------------------------------
(***************************************************************************)
(* The read-write lock of src/src/posix9_thread.c.  Its internal mutex is  *)
(* taken and given back between two yields, so no other thread ever finds  *)
(* it locked: the mutex disappears, its lock never spins and its trylock   *)
(* never fails.  One action is one turn of a locking loop or one call.     *)
(* Threads are known to the thread table (pthread_self() is the thread,    *)
(* NoThread is 0), and a thread holds at most one lock at a time.          *)
(***************************************************************************)
EXTENDS Integers, FiniteSets

CONSTANTS Threads, NoThread

ASSUME ThreadsAssumption == /\ IsFiniteSet(Threads)
                            /\ NoThread \notin Threads

VARIABLES readers,  \* rwlock->readers
          writer,   \* rwlock->writer
          pc        \* what each thread holds or waits for

vars == <<readers, writer, pc>>

Places == {"idle", "rdlock", "wrlock", "reading", "writing"}
Reading == {t \in Threads : pc[t] = "reading"}
Writing == {t \in Threads : pc[t] = "writing"}

TypeOK == /\ readers \in 0 .. Cardinality(Threads)
          /\ writer \in Threads \cup {NoThread}
          /\ pc \in [Threads -> Places]

Init == /\ readers = 0
        /\ writer = NoThread
        /\ pc = [t \in Threads |-> "idle"]

Goto(t, place) == pc' = [pc EXCEPT ![t] = place]

-----------------------------------------------------------------------------
GrantRead(t) == /\ writer = NoThread
                /\ readers' = readers + 1
                /\ Goto(t, "reading")
                /\ UNCHANGED writer

\* A mutant of GrantWrite below: the readers are forgotten.
GrantWriteOverReaders(t) == /\ writer = NoThread
                            /\ writer' = t
                            /\ Goto(t, "writing")
                            /\ UNCHANGED readers

GrantWrite(t) == /\ readers = 0
                 /\ writer = NoThread
                 /\ writer' = t
                 /\ Goto(t, "writing")
                 /\ UNCHANGED readers

\* A call that finds the lock taken yields in its loop and tries again when it runs next.
RdLock(t) == /\ pc[t] \in {"idle", "rdlock"}
             /\ \/ GrantRead(t)
                \/ /\ writer # NoThread
                   /\ Goto(t, "rdlock")
                   /\ UNCHANGED <<readers, writer>>

WrLock(t) == /\ pc[t] \in {"idle", "wrlock"}
             /\ \/ GrantWrite(t)
                \/ /\ readers > 0 \/ writer # NoThread
                   /\ Goto(t, "wrlock")
                   /\ UNCHANGED <<readers, writer>>

\* EBUSY changes nothing, so only the successes are steps.
TryRdLock(t) == pc[t] = "idle" /\ GrantRead(t)
TryWrLock(t) == pc[t] = "idle" /\ GrantWrite(t)

\* A mutant of Unlock below: an off-by-one in the test of the reader count.
UnlockOffByOne(t) == /\ pc[t] \in {"reading", "writing"}
                     /\ IF writer = t
                          THEN writer' = NoThread /\ UNCHANGED readers
                          ELSE /\ readers' = IF readers > 1 THEN readers - 1 ELSE readers
                               /\ UNCHANGED writer
                     /\ Goto(t, "idle")

\* One call gives back either kind of lock: the fields decide which.
Unlock(t) == /\ pc[t] \in {"reading", "writing"}
             /\ IF writer = t
                  THEN writer' = NoThread /\ UNCHANGED readers
                  ELSE /\ readers' = IF readers > 0 THEN readers - 1 ELSE readers
                       /\ UNCHANGED writer
             /\ Goto(t, "idle")

Next == \E t \in Threads :
          RdLock(t) \/ WrLock(t) \/ TryRdLock(t) \/ TryWrLock(t) \/ Unlock(t)

Spec == Init /\ [][Next]_vars

\* Every thread is scheduled again and again: a waiting call goes on trying, and a holder lets
\* go in the end.
FairSpec == /\ Spec
            /\ \A t \in Threads : /\ WF_vars(pc[t] = "rdlock" /\ RdLock(t))
                                  /\ WF_vars(pc[t] = "wrlock" /\ WrLock(t))
                                  /\ WF_vars(Unlock(t))

-----------------------------------------------------------------------------
(* Properties *)

\* A writer is alone: no reader and no other writer between its lock and its unlock. The two
\* fields say who is inside, so that unlock, which tells the two kinds of lock apart by them
\* only, gives back the lock its caller has.
RWExclusion == /\ readers = Cardinality(Reading)
               /\ \A t \in Threads : pc[t] = "writing" <=> writer = t
               /\ Writing # {} => Reading = {}

\* No thread waits for ever at a lock that nobody holds: whatever mix of readers and writers
\* went before, the fields return to "free" with the last unlock. (Starvation by others that
\* keep taking the lock is possible, and not excluded here.)
NeverStuckFree ==
  \A t \in Threads : []<>(pc[t] \notin {"rdlock", "wrlock"} \/ Reading \cup Writing # {})
=============================================================================
