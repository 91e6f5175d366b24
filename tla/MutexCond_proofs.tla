--------------------------- MODULE MutexCond_proofs ---------------------------
(***************************************************************************)
(* Proofs about MutexCond for any finite set of threads.  The argument is  *)
(* the conjunction IInv: the owner field tracks the thread that is inside, *)
(* cond->waiting counts the polling threads, and a set cond->signaled has  *)
(* a polling thread to clear it.                                           *)
(***************************************************************************)
EXTENDS MutexCond, FiniteSetTheorems, TLAPS

IInv == TypeOK /\ MutexExclusion /\ NoStaleSignal

-----------------------------------------------------------------------------
(* How a step changes the set of waiters *)

\* The waiters are finitely many and their number is bounded by the threads.
LEMMA WaitersFinite == /\ IsFiniteSet(Waiters)
                       /\ Cardinality(Waiters) \in 0 .. Cardinality(Threads)
                       /\ Cardinality(Waiters) = 0 <=> Waiters = {}
<1>1. IsFiniteSet(Threads)
  BY ThreadsAssumption
<1>2. /\ IsFiniteSet(Waiters)
      /\ Cardinality(Waiters) <= Cardinality(Threads)
  <2>1. Waiters \subseteq Threads
    BY DEF Waiters
  <2> QED BY <1>1, <2>1, FS_Subset
<1>3. Cardinality(Waiters) \in Nat /\ Cardinality(Threads) \in Nat
  BY <1>1, <1>2, FS_CardinalityType
<1>4. Cardinality(Waiters) = 0 <=> Waiters = {}
  BY <1>2, FS_EmptySet
<1> QED BY <1>2, <1>3, <1>4

\* The same of the waiters after a step.
LEMMA NextWaitersFinite == /\ IsFiniteSet(Waiters')
                           /\ Cardinality(Waiters') \in 0 .. Cardinality(Threads)
                           /\ Cardinality(Waiters') = 0 <=> Waiters' = {}
<1>1. IsFiniteSet(Threads)
  BY ThreadsAssumption
<1>2. /\ IsFiniteSet(Waiters')
      /\ Cardinality(Waiters') <= Cardinality(Threads)
  <2>1. Waiters' \subseteq Threads
    BY DEF Waiters
  <2> QED BY <1>1, <2>1, FS_Subset
<1>3. Cardinality(Waiters') \in Nat /\ Cardinality(Threads) \in Nat
  BY <1>1, <1>2, FS_CardinalityType
<1>4. Cardinality(Waiters') = 0 <=> Waiters' = {}
  BY <1>2, FS_EmptySet
<1> QED BY <1>2, <1>3, <1>4

\* A thread that blocks joins the waiters.
LEMMA BlockAdds ==
  ASSUME TypeOK, NEW t \in Threads, NEW place \in {"wait", "timed"},
         pc[t] = "in", Goto(t, place)
  PROVE  /\ Waiters' = Waiters \cup {t}
         /\ Cardinality(Waiters') = Cardinality(Waiters) + 1
<1>1. t \notin Waiters
  BY DEF Waiters
<1>2. Waiters' = Waiters \cup {t}
  BY DEF Waiters, Goto, TypeOK
<1> QED BY <1>1, <1>2, WaitersFinite, FS_AddElement

\* A thread that leaves its polling loop leaves the waiters.
LEMMA LeaveRemoves ==
  ASSUME TypeOK, NEW t \in Waiters, NEW place \in {"in", "relock"}, Goto(t, place)
  PROVE  /\ Waiters' = Waiters \ {t}
         /\ Cardinality(Waiters') = Cardinality(Waiters) - 1
<1>1. Waiters' = Waiters \ {t}
  BY DEF Waiters, Goto, TypeOK
<1> QED BY <1>1, WaitersFinite, FS_RemoveElement

\* A move between places that are not polling loops keeps the waiters.
LEMMA OtherMovesKeep ==
  ASSUME TypeOK, NEW t \in Threads \ Waiters, NEW place \in {"out", "in", "lock", "relock"},
         Goto(t, place)
  PROVE  Waiters' = Waiters
BY DEF Waiters, Goto, TypeOK

-----------------------------------------------------------------------------
(* The invariant *)

\* The initial state satisfies the invariant.
LEMMA InitInv == Init => IInv
<1> SUFFICES ASSUME Init PROVE IInv
  OBVIOUS
<1>1. Waiters = {}
  BY DEF Init, Waiters
<1>2. Cardinality(Threads) \in Nat
  BY ThreadsAssumption, FS_CardinalityType
<1>3. TypeOK
  BY <1>2 DEF Init, TypeOK, Places
<1>4. MutexExclusion
  BY ThreadsAssumption DEF Init, MutexExclusion
<1>5. NoStaleSignal
  BY <1>1, FS_EmptySet DEF Init, NoStaleSignal
<1> QED BY <1>3, <1>4, <1>5 DEF IInv

\* One lock attempt, from any place outside the mutex, keeps the mutex half of the invariant.
LEMMA AttemptInv ==
  ASSUME TypeOK, MutexExclusion, NEW t \in Threads, NEW spin \in {"lock", "relock"},
         pc[t] # "in", LockAttempt(t, spin)
  PROVE  /\ MutexExclusion'
         /\ pc' \in [Threads -> Places]
         /\ running' \in Threads \cup {NoThread}
         /\ locked' \in {0, 1}
         /\ owner' \in Threads \cup {NoThread}
         /\ Goto(t, "in") \/ Goto(t, spin)
<1> USE DEF LockAttempt, Goto, TypeOK, Places, MutexExclusion
<1>1. CASE locked = 0
  BY <1>1, ThreadsAssumption
<1>2. CASE locked # 0
  BY <1>2, ThreadsAssumption DEF YieldToAnyThread, mutex
<1> QED BY <1>1, <1>2

\* A thread that takes or awaits the mutex outside a wait keeps the waiters.
LEMMA LockInv ==
  ASSUME IInv, NEW t \in Threads, NEW spin \in {"lock", "relock"},
         pc[t] \in {"out", "lock", "relock"}, LockAttempt(t, spin),
         UNCHANGED <<cond, expired, result>>
  PROVE  IInv'
<1>1. TypeOK' /\ MutexExclusion'
  BY AttemptInv DEF IInv, TypeOK, cond
<1>2. Waiters' = Waiters
  BY AttemptInv, OtherMovesKeep DEF IInv, Waiters
<1>3. NoStaleSignal'
  BY <1>2 DEF IInv, NoStaleSignal, cond
<1> QED BY <1>1, <1>3 DEF IInv

\* Blocking in either wait.
LEMMA BlockInv ==
  ASSUME IInv, NEW t \in Threads, NEW place \in {"wait", "timed"},
         pc[t] = "in", Block(t, place)
  PROVE  IInv'
<1>1. /\ Waiters' = Waiters \cup {t}
      /\ Cardinality(Waiters') = Cardinality(Waiters) + 1
  BY BlockAdds DEF IInv, Block
<1>2. NoStaleSignal'
  BY <1>1 DEF IInv, NoStaleSignal, Block
<1>3. TypeOK'
  BY <1>1, <1>2, NextWaitersFinite
     DEF IInv, TypeOK, NoStaleSignal, Block, Goto, Places, YieldToAnyThread
<1>4. MutexExclusion'
  BY ThreadsAssumption DEF IInv, TypeOK, MutexExclusion, Block, Goto
<1> QED BY <1>2, <1>3, <1>4 DEF IInv

\* A wait that is let through at once changes neither the mutex nor the counter.
LEMMA WaitThroughInv ==
  ASSUME IInv, NEW t \in Threads, pc[t] = "in", WaitThrough(t)
  PROVE  IInv'
<1>1. waiting' = waiting /\ signaled' = signaled
  BY WaitersFinite DEF IInv, TypeOK, NoStaleSignal, WaitThrough, LeaveWait
<1>2. Waiters' = Waiters
  BY DEF Waiters, WaitThrough
<1>3. owner' = owner /\ locked' = locked
  BY ThreadsAssumption DEF IInv, TypeOK, MutexExclusion, WaitThrough
<1>4. TypeOK'
  BY <1>1, <1>3 DEF IInv, TypeOK, WaitThrough, Return
<1>5. MutexExclusion' /\ NoStaleSignal'
  BY <1>1, <1>2, <1>3 DEF IInv, MutexExclusion, NoStaleSignal, WaitThrough
<1> QED BY <1>4, <1>5 DEF IInv

\* A waiter leaves: the counter follows, and the flag survives only if somebody else waits.
LEMMA LeaveInv ==
  ASSUME IInv, NEW t \in Waiters, LockAttempt(t, "relock"),
         waiting' = waiting - 1,
         signaled' \in {0, signaled},
         signaled' # 0 => waiting - 1 # 0,
         expired' = expired \ {t},
         NEW value \in {"0", "ETIMEDOUT"}, Return(t, value)
  PROVE  IInv'
<1> t \in Threads /\ pc[t] # "in"
  BY DEF Waiters
<1>1. /\ MutexExclusion'
      /\ pc' \in [Threads -> Places]
      /\ running' \in Threads \cup {NoThread}
      /\ locked' \in {0, 1}
      /\ owner' \in Threads \cup {NoThread}
      /\ Goto(t, "in") \/ Goto(t, "relock")
  BY AttemptInv DEF IInv
<1>2. Cardinality(Waiters') = Cardinality(Waiters) - 1
  BY <1>1, LeaveRemoves DEF IInv
<1>3. NoStaleSignal'
  BY <1>2, NextWaitersFinite DEF IInv, NoStaleSignal
<1>4. waiting' \in 0 .. Cardinality(Threads) /\ signaled' \in 0 .. Cardinality(Threads)
  <2>1. waiting' = Cardinality(Waiters')
    BY <1>3 DEF NoStaleSignal
  <2>2. Cardinality(Threads) \in Nat
    BY ThreadsAssumption, FS_CardinalityType
  <2> QED BY <2>1, <2>2, NextWaitersFinite DEF IInv, TypeOK
<1>5. TypeOK'
  BY <1>1, <1>4 DEF IInv, TypeOK, Return
<1> QED BY <1>1, <1>3, <1>5 DEF IInv

-----------------------------------------------------------------------------
(* Every step *)

\* Each action of the code, of the scheduler and of time keeps the invariant.
LEMMA NextInv == IInv /\ [Next]_vars => IInv'
<1> SUFFICES ASSUME IInv, [Next]_vars PROVE IInv'
  OBVIOUS
<1>1. CASE UNCHANGED vars
  BY <1>1 DEF vars, IInv, TypeOK, MutexExclusion, NoStaleSignal, Waiters
<1>2. ASSUME NEW t \in Threads, Dispatch(t) PROVE IInv'
  BY <1>2 DEF Dispatch, IInv, TypeOK, MutexExclusion, NoStaleSignal, Waiters
<1>3. ASSUME NEW t \in Threads, Tick(t) PROVE IInv'
  BY <1>3 DEF Tick, IInv, TypeOK, MutexExclusion, NoStaleSignal, Waiters, mutex, cond
<1>4. ASSUME NEW t \in Threads, Run(t) PROVE IInv'
  <2>1. CASE Lock(t)
    BY <2>1, LockInv DEF Lock
  <2>2. CASE TryLock(t)
    <3>1. LockAttempt(t, "lock")
      BY <2>2 DEF TryLock, LockAttempt
    <3> QED BY <2>2, <3>1, LockInv DEF TryLock
  <2>3. CASE Unlock(t)
    <3>1. Waiters' = Waiters
      BY <2>3, OtherMovesKeep DEF Unlock, IInv, Waiters
    <3>2. TypeOK'
      BY <2>3 DEF Unlock, Goto, IInv, TypeOK, Places, cond
    <3>3. MutexExclusion'
      BY <2>3, ThreadsAssumption DEF Unlock, Goto, IInv, TypeOK, MutexExclusion
    <3>4. NoStaleSignal'
      BY <2>3, <3>1 DEF Unlock, IInv, NoStaleSignal, cond
    <3> QED BY <3>2, <3>3, <3>4 DEF IInv
  <2>4. CASE Wait(t)
    BY <2>4, WaitThroughInv, BlockInv DEF Wait
  <2>5. CASE TimedWait(t)
    <3>1. CASE WaitThrough(t) \/ Block(t, "timed")
      BY <2>5, <3>1, WaitThroughInv, BlockInv DEF TimedWait
    <3>2. CASE /\ locked' = 1
               /\ owner' = t
               /\ Return(t, "ETIMEDOUT")
               /\ UNCHANGED <<running, pc, cond, expired>>
      BY <2>5, <3>2, ThreadsAssumption
         DEF TimedWait, Return, cond, IInv, TypeOK, MutexExclusion, NoStaleSignal, Waiters
    <3> QED BY <2>5, <3>1, <3>2 DEF TimedWait
  <2>6. CASE Wake(t)
    <3>1. /\ waiting' = waiting - 1
          /\ signaled' \in {0, signaled}
          /\ signaled' # 0 => waiting - 1 # 0
      BY <2>6 DEF Wake, LeaveWait
    <3> QED BY <2>6, <3>1, LeaveInv DEF Wake
  <2>7. CASE Timeout(t)
    <3>1. t \in Waiters
      BY <2>7 DEF Timeout, Waiters
    <3>2. signaled' \in {0, signaled} /\ (signaled' # 0 => waiting - 1 # 0)
      BY <2>7 DEF Timeout
    <3> QED BY <2>7, <3>1, <3>2, LeaveInv DEF Timeout
  <2>8. CASE Relock(t)
    BY <2>8, LockInv DEF Relock
  <2>9. CASE Poll(t) \/ Yield(t)
    BY <2>9 DEF Poll, Yield, YieldToAnyThread, mutex, cond,
                IInv, TypeOK, MutexExclusion, NoStaleSignal, Waiters
  <2>10. CASE Signal(t) \/ Broadcast(t)
    <3>1. UNCHANGED <<running, pc, mutex, waiting, expired, result>> /\ waiting > 0
      BY <2>10 DEF Signal, Broadcast
    <3>2. signaled' \in {1, waiting}
      BY <2>10 DEF Signal, Broadcast
    <3>3. Waiters' = Waiters /\ Waiters # {}
      BY <3>1, WaitersFinite DEF Waiters, IInv, NoStaleSignal
    <3>4. signaled' \in 0 .. Cardinality(Threads)
      <4>1. Cardinality(Threads) \in Nat
        BY ThreadsAssumption, FS_CardinalityType
      <4> QED BY <3>1, <3>2, <4>1 DEF IInv, TypeOK
    <3> QED BY <3>1, <3>3, <3>4 DEF mutex, IInv, TypeOK, MutexExclusion, NoStaleSignal
  <2> QED BY <1>4, <2>1, <2>2, <2>3, <2>4, <2>5, <2>6, <2>7, <2>8, <2>9, <2>10
          DEF Run, Library, User
<1> QED BY <1>1, <1>2, <1>3, <1>4 DEF Next

\* The invariant holds throughout every behaviour.
THEOREM Invariance == Spec => []IInv
BY InitInv, NextInv, PTL DEF Spec

\* The variables keep their types; in particular cond->waiting is never negative, nor more than
\* the number of threads.
THEOREM TypeCorrect == Spec => []TypeOK
BY Invariance, PTL DEF IInv

\* Mutual exclusion: the thread between a lock and its unlock is the mutex's owner, so there is
\* at most one, on all paths that lead into the mutex.
THEOREM Exclusion == Spec => []MutexExclusion
BY Invariance, PTL DEF IInv

\* cond->waiting counts the polling threads, and a signal never outlives them.
THEOREM SignalsAreNotSaved == Spec => []NoStaleSignal
BY Invariance, PTL DEF IInv

-----------------------------------------------------------------------------
(* Signals reach every waiter *)

Woken == IF signaled # 0 THEN Waiters ELSE {}

\* Where a step may change who waits or the flag, it is one of these.
LEMMA WaitSteps ==
  ASSUME IInv, [Next]_vars
  PROVE  \/ Waiters' = Waiters /\ signaled' = signaled
         \/ Waiters' = Waiters /\ signaled' # 0
         \/ \E t \in Threads, place \in {"wait", "timed"} : pc[t] = "in" /\ Block(t, place)
         \/ \E t \in Waiters : Wake(t)
         \/ \E t \in Waiters : Timeout(t)
<1>1. CASE UNCHANGED vars
  BY <1>1 DEF vars, Waiters
<1>2. ASSUME NEW t \in Threads, Dispatch(t) \/ Tick(t)
      PROVE Waiters' = Waiters /\ signaled' = signaled
  BY <1>2 DEF Dispatch, Tick, Waiters, cond
<1>3. ASSUME NEW t \in Threads, Lock(t) \/ Relock(t) \/ TryLock(t) \/ Unlock(t)
      PROVE Waiters' = Waiters /\ signaled' = signaled
  <2>1. signaled' = signaled
    BY <1>3 DEF Lock, Relock, TryLock, Unlock, cond
  <2>2. t \in Threads \ Waiters
    BY <1>3 DEF Lock, Relock, TryLock, Unlock, Waiters
  <2>3. \E place \in {"out", "in", "lock", "relock"} : Goto(t, place)
    BY <1>3 DEF Lock, Relock, TryLock, Unlock, LockAttempt
  <2> QED BY <2>1, <2>2, <2>3, OtherMovesKeep DEF IInv
<1>4. ASSUME NEW t \in Threads, Poll(t) \/ Yield(t)
      PROVE Waiters' = Waiters /\ signaled' = signaled
  BY <1>4 DEF Poll, Yield, Waiters, cond
<1>5. ASSUME NEW t \in Threads, WaitThrough(t)
      PROVE Waiters' = Waiters /\ signaled' = signaled
  <2>1. waiting' = waiting /\ signaled' = signaled
    BY <1>5, WaitersFinite DEF IInv, TypeOK, NoStaleSignal, WaitThrough, LeaveWait
  <2> QED BY <1>5, <2>1 DEF WaitThrough, Waiters
<1>6. ASSUME NEW t \in Threads, Signal(t) \/ Broadcast(t)
      PROVE Waiters' = Waiters /\ signaled' # 0
  BY <1>6 DEF Signal, Broadcast, Waiters, IInv, TypeOK
<1>7. ASSUME NEW t \in Threads, Wait(t) \/ TimedWait(t)
      PROVE \/ Waiters' = Waiters /\ signaled' = signaled
            \/ \E place \in {"wait", "timed"} : pc[t] = "in" /\ Block(t, place)
  <2>1. CASE WaitThrough(t)
    BY <1>5, <2>1
  <2>2. CASE pc[t] = "in" /\ (Block(t, "wait") \/ Block(t, "timed"))
    BY <2>2
  <2>3. CASE UNCHANGED <<running, pc, cond, expired>>
    BY <2>3 DEF Waiters, cond
  <2> QED BY <1>7, <2>1, <2>2, <2>3 DEF Wait, TimedWait
<1>8. ASSUME NEW t \in Threads, Timeout(t) PROVE t \in Waiters
  BY <1>8 DEF Timeout, Waiters
<1>9. ASSUME NEW t \in Threads, Wake(t) PROVE t \in Waiters
  BY <1>9 DEF Wake
<1> QED BY <1>1, <1>2, <1>3, <1>4, <1>5, <1>6, <1>7, <1>8, <1>9
        DEF Next, Run, Library, User

\* One step, whatever it is, loses no signal.
LEMMA SignalStep ==
  ASSUME IInv, [Next]_vars, signaled # 0
  PROVE  /\ Waiters' # {} => signaled' # 0
         /\ \A t \in Waiters : t \notin Waiters' => result'[t] = "0"
<1>1. CASE Waiters' = Waiters /\ signaled' = signaled
  BY <1>1
<1>2. CASE Waiters' = Waiters /\ signaled' # 0
  BY <1>2
<1>3. ASSUME NEW t \in Waiters, Wake(t)
      PROVE /\ Waiters' # {} => signaled' # 0
            /\ \A u \in Waiters : u \notin Waiters' => result'[u] = "0"
  <2>1. Goto(t, "in") \/ Goto(t, "relock")
    BY <1>3 DEF Wake, LockAttempt
  <2>2. Waiters' = Waiters \ {t} /\ Cardinality(Waiters') = Cardinality(Waiters) - 1
    BY <2>1, LeaveRemoves DEF IInv
  <2>3. result'[t] = "0"
    BY <1>3 DEF Wake, Return, IInv, TypeOK, Waiters
  <2>4. Waiters' # {} => waiting - 1 # 0
    BY <2>2, NextWaitersFinite DEF IInv, NoStaleSignal
  <2>5. waiting - 1 # 0 => signaled' = signaled
    BY <1>3 DEF Wake, LeaveWait
  <2> QED BY <2>2, <2>3, <2>4, <2>5
<1>4. ASSUME NEW t \in Threads, Block(t, "wait") \/ Block(t, "timed") \/ Timeout(t)
      PROVE FALSE
  BY <1>4 DEF Block, Timeout
<1> QED BY <1>1, <1>2, <1>3, <1>4, WaitSteps DEF Waiters

\* A signal stays posted until the last thread that waits has left, and every one of them
\* returns 0 from its wait, even one whose deadline has passed by the time it runs.
THEOREM SignalsReachAll == Spec => SignalReachesAll
BY Invariance, SignalStep, PTL DEF Spec, SignalReachesAll

-----------------------------------------------------------------------------
(* Refinement *)

\* A lock attempt looks to the monitor like entering it or like nothing.
LEMMA AttemptRefines ==
  ASSUME IInv, NEW t \in Threads, NEW spin, LockAttempt(t, spin)
  PROVE  owner' = owner \/ (owner = NoThread /\ owner' = t)
BY DEF IInv, MutexExclusion, LockAttempt, mutex

\* Every step of the code is a step of the monitor or leaves the monitor's state alone.
LEMMA StepRefines == IInv /\ [Next]_vars => [M!Next]_(M!vars)
<1> SUFFICES ASSUME IInv, [Next]_vars PROVE M!Next \/ UNCHANGED M!vars
  OBVIOUS
<1> USE DEF M!Next, M!vars, M!Enter, M!Leave, M!Block, M!Notify, M!Wake, M!Expire, M!MayEnter
<1>1. ASSUME NEW t \in Threads, NEW place \in {"wait", "timed"}, pc[t] = "in", Block(t, place)
      PROVE M!Block(t)
  <2>1. Waiters' = Waiters \cup {t}
    BY <1>1, BlockAdds DEF IInv, Block
  <2> QED BY <1>1, <2>1 DEF Block, IInv, MutexExclusion
<1>2. ASSUME NEW t \in Waiters, Wake(t)
      PROVE M!Wake(t)
  <2>1. Goto(t, "in") \/ Goto(t, "relock")
    BY <1>2 DEF Wake, LockAttempt
  <2>2. Waiters' = Waiters \ {t}
    BY <2>1, LeaveRemoves DEF IInv
  <2>3. Woken' = Woken \ {t} /\ t \in Woken
    BY <1>2, <2>2, SignalStep DEF Wake, Woken, LeaveWait
  <2>4. M!MayEnter(t)
    BY <1>2, AttemptRefines DEF Wake, Waiters
  <2> QED BY <2>2, <2>3, <2>4 DEF Woken
<1>3. ASSUME NEW t \in Waiters, Timeout(t)
      PROVE M!Expire(t)
  <2>1. Goto(t, "in") \/ Goto(t, "relock")
    BY <1>3 DEF Timeout, LockAttempt
  <2>2. Waiters' = Waiters \ {t}
    BY <2>1, LeaveRemoves DEF IInv
  <2>3. M!MayEnter(t)
    BY <1>3, AttemptRefines DEF Timeout, Waiters
  <2> QED BY <1>3, <2>2, <2>3 DEF Timeout
<1>4. CASE Waiters' = Waiters /\ signaled' = signaled
  <2>1. \/ owner' = owner
        \/ \E t \in Threads \ Waiters : owner = NoThread /\ owner' = t
        \/ \E t \in Threads : owner = t /\ owner' = NoThread
    <3>1. ASSUME NEW t \in Threads, Lock(t) \/ Relock(t) \/ TryLock(t)
          PROVE \/ owner' = owner
                \/ owner = NoThread /\ owner' = t /\ t \notin Waiters
      BY <3>1, AttemptRefines DEF Lock, Relock, TryLock, Waiters, IInv, MutexExclusion
    <3>2. ASSUME NEW t \in Threads, Unlock(t) PROVE owner = t /\ owner' = NoThread
      BY <3>2 DEF Unlock, IInv, MutexExclusion
    <3>3. ASSUME NEW t \in Threads, Wait(t) \/ TimedWait(t)
          PROVE owner' = owner \/ (owner = t /\ owner' = NoThread)
      BY <3>3 DEF Wait, TimedWait, WaitThrough, Block, IInv, MutexExclusion
    <3>4. ASSUME NEW t \in Threads,
                 \/ Dispatch(t) \/ Tick(t) \/ Poll(t) \/ Yield(t)
                 \/ Signal(t) \/ Broadcast(t)
          PROVE owner' = owner
      BY <3>4 DEF Dispatch, Tick, Poll, Yield, Signal, Broadcast, mutex
    <3>5. ASSUME NEW t \in Threads, Wake(t) \/ Timeout(t) PROVE Waiters' # Waiters
      <4>1. t \in Waiters /\ (Goto(t, "in") \/ Goto(t, "relock"))
        BY <3>5 DEF Wake, Timeout, LockAttempt, Waiters
      <4> QED BY <4>1, LeaveRemoves DEF IInv
    <3>6. CASE UNCHANGED vars
      BY <3>6 DEF vars
    <3> QED BY <1>4, <3>1, <3>2, <3>3, <3>4, <3>5, <3>6 DEF Next, Run, Library, User
  <2> QED BY <1>4, <2>1
<1>5. CASE Waiters' = Waiters /\ signaled' # 0 /\ signaled' # signaled
  <2>1. owner' = owner
    <3>1. ASSUME NEW t \in Threads, Signal(t) \/ Broadcast(t) PROVE owner' = owner
      BY <3>1 DEF Signal, Broadcast, mutex
    <3>2. ASSUME NEW t \in Threads,
                 \/ Dispatch(t) \/ Tick(t) \/ Lock(t) \/ TryLock(t) \/ Unlock(t)
                 \/ Relock(t) \/ Poll(t) \/ Yield(t) \/ Timeout(t)
          PROVE signaled' = signaled
      BY <3>2 DEF Dispatch, Tick, Lock, TryLock, Unlock, Relock, Poll, Yield, Timeout, cond
    <3>3. ASSUME NEW t \in Threads, Wake(t) \/ Wait(t) \/ TimedWait(t)
          PROVE signaled' \in {0, signaled}
      BY <3>3 DEF Wake, Wait, TimedWait, WaitThrough, LeaveWait, Block, cond
    <3> QED BY <1>5, <3>1, <3>2, <3>3 DEF Next, Run, Library, User, vars
  <2> QED BY <1>5, <2>1
<1> QED BY <1>1, <1>2, <1>3, <1>4, <1>5, WaitSteps DEF Waiters

\* The initial state is the monitor's.
LEMMA InitRefines == Init => M!Init
BY DEF Init, M!Init, Waiters

\* The mutex and the condition variable implement the monitor in which every notification
\* reaches all the waiters of its moment, none of the later ones, and no timed-out one.
THEOREM Refinement == Spec => ImplementsMonitor
BY Invariance, InitRefines, StepRefines, PTL DEF Spec, ImplementsMonitor, M!Spec

=============================================================================
