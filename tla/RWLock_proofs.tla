---------------------------- MODULE RWLock_proofs ----------------------------
(***************************************************************************)
(* Proofs about RWLock for any finite set of threads.  RWExclusion is      *)
(* inductive together with the types: what has to be carried through the   *)
(* steps is that rwlock->readers is the number of threads that read.       *)
(***************************************************************************)
EXTENDS RWLock, FiniteSetTheorems, TLAPS

IInv == TypeOK /\ RWExclusion

\* The readers are finitely many, before a step and after it.
LEMMA ReadingFinite ==
  /\ IsFiniteSet(Reading)
  /\ IsFiniteSet(Reading')
  /\ Cardinality(Threads) \in Nat
  /\ Cardinality(Reading) \in 0 .. Cardinality(Threads)
  /\ Cardinality(Reading') \in 0 .. Cardinality(Threads)
  /\ Cardinality(Reading) = 0 <=> Reading = {}
<1>1. IsFiniteSet(Threads) /\ Reading \subseteq Threads /\ Reading' \subseteq Threads
  BY ThreadsAssumption DEF Reading
<1>2. /\ IsFiniteSet(Reading) /\ Cardinality(Reading) <= Cardinality(Threads)
      /\ IsFiniteSet(Reading') /\ Cardinality(Reading') <= Cardinality(Threads)
  BY <1>1, FS_Subset
<1>3. /\ Cardinality(Threads) \in Nat
      /\ Cardinality(Reading) \in Nat
      /\ Cardinality(Reading') \in Nat
  BY <1>1, <1>2, FS_CardinalityType
<1>4. Cardinality(Reading) = 0 <=> Reading = {}
  BY <1>2, FS_EmptySet
<1> QED BY <1>2, <1>3, <1>4

\* A granted read lock is counted.
LEMMA GrantReadInv ==
  ASSUME IInv, NEW t \in Threads, pc[t] \in {"idle", "rdlock"}, GrantRead(t)
  PROVE  IInv'
<1>1. Reading' = Reading \cup {t} /\ t \notin Reading
  BY DEF GrantRead, Goto, Reading, IInv, TypeOK
<1>2. readers' = Cardinality(Reading')
  BY <1>1, ReadingFinite, FS_AddElement DEF GrantRead, IInv, RWExclusion
<1>3. TypeOK'
  BY <1>2, ReadingFinite DEF GrantRead, Goto, IInv, TypeOK, Places
<1>4. \A u \in Threads : pc'[u] # "writing" /\ writer' = NoThread
  BY ThreadsAssumption DEF GrantRead, Goto, IInv, TypeOK, RWExclusion
<1>5. RWExclusion'
  BY <1>2, <1>4, ThreadsAssumption DEF RWExclusion, Writing
<1> QED BY <1>3, <1>5 DEF IInv

\* A granted write lock finds nobody inside.
LEMMA GrantWriteInv ==
  ASSUME IInv, NEW t \in Threads, pc[t] \in {"idle", "wrlock"}, GrantWrite(t)
  PROVE  IInv'
<1>1. Reading' = {} /\ Reading = {}
  BY ReadingFinite DEF GrantWrite, Goto, Reading, IInv, TypeOK, RWExclusion
<1>2. TypeOK'
  BY DEF GrantWrite, Goto, IInv, TypeOK, Places
<1>3. \A u \in Threads : pc'[u] = "writing" <=> u = t
  BY ThreadsAssumption DEF GrantWrite, Goto, IInv, TypeOK, RWExclusion
<1>4. RWExclusion'
  BY <1>1, <1>3 DEF GrantWrite, IInv, RWExclusion
<1> QED BY <1>2, <1>4 DEF IInv

\* A call that goes on waiting changes no field.
LEMMA WaitInv ==
  ASSUME IInv, NEW t \in Threads, NEW place \in {"rdlock", "wrlock"},
         pc[t] \in {"idle", "rdlock", "wrlock"}, Goto(t, place), UNCHANGED <<readers, writer>>
  PROVE  IInv'
<1>1. Reading' = Reading /\ Writing' = Writing
  BY DEF Goto, Reading, Writing, IInv, TypeOK
<1>2. TypeOK'
  BY DEF Goto, IInv, TypeOK, Places
<1>3. RWExclusion'
  BY <1>1, ThreadsAssumption DEF IInv, TypeOK, RWExclusion, Goto
<1> QED BY <1>2, <1>3 DEF IInv

\* An unlock gives back the caller's own kind of lock.
LEMMA UnlockInv ==
  ASSUME IInv, NEW t \in Threads, Unlock(t)
  PROVE  IInv'
<1>1. CASE writer = t
  <2>1. Reading' = {} /\ Reading = {} /\ readers = 0
    BY <1>1, ReadingFinite DEF Unlock, Goto, Reading, Writing, IInv, TypeOK, RWExclusion
  <2>2. TypeOK'
    BY <1>1 DEF Unlock, Goto, IInv, TypeOK, Places
  <2>3. \A u \in Threads : pc'[u] # "writing" /\ writer' = NoThread
    BY <1>1, ThreadsAssumption DEF Unlock, Goto, IInv, TypeOK, RWExclusion
  <2>4. RWExclusion'
    BY <1>1, <2>1, <2>3, ThreadsAssumption DEF Unlock, RWExclusion, Writing, IInv
  <2> QED BY <2>2, <2>4 DEF IInv
<1>2. CASE writer # t
  <2>1. pc[t] = "reading"
    BY <1>2 DEF Unlock, IInv, RWExclusion
  <2>2. Reading' = Reading \ {t} /\ t \in Reading
    BY <2>1 DEF Unlock, Goto, Reading, IInv, TypeOK
  <2>3. Cardinality(Reading') = Cardinality(Reading) - 1
    BY <2>2, ReadingFinite, FS_RemoveElement
  <2>4. readers' = readers - 1 /\ readers' = Cardinality(Reading')
    BY <1>2, <2>3, ReadingFinite DEF Unlock, IInv, TypeOK, RWExclusion
  <2>5. TypeOK'
    BY <1>2, <2>4, ReadingFinite DEF Unlock, Goto, IInv, TypeOK, Places
  <2>6. Writing' = Writing /\ Writing = {}
    BY <2>1, <2>2 DEF Unlock, Goto, Writing, IInv, TypeOK, RWExclusion
  <2>7. RWExclusion'
    BY <1>2, <2>4, <2>6 DEF Unlock, IInv, TypeOK, RWExclusion, Writing
  <2> QED BY <2>5, <2>7 DEF IInv
<1> QED BY <1>1, <1>2

\* The invariant holds initially.
LEMMA InitInv == Init => IInv
<1> SUFFICES ASSUME Init PROVE IInv
  OBVIOUS
<1>1. Reading = {} /\ Writing = {}
  BY DEF Init, Reading, Writing
<1> QED BY <1>1, ReadingFinite, FS_EmptySet, ThreadsAssumption
        DEF Init, IInv, TypeOK, Places, RWExclusion

\* Every step keeps it.
LEMMA NextInv == IInv /\ [Next]_vars => IInv'
<1> SUFFICES ASSUME IInv, [Next]_vars PROVE IInv'
  OBVIOUS
<1>1. CASE UNCHANGED vars
  BY <1>1 DEF vars, IInv, TypeOK, RWExclusion, Reading, Writing
<1>2. ASSUME NEW t \in Threads, RdLock(t) PROVE IInv'
  BY <1>2, GrantReadInv, WaitInv DEF RdLock
<1>3. ASSUME NEW t \in Threads, WrLock(t) PROVE IInv'
  BY <1>3, GrantWriteInv, WaitInv DEF WrLock
<1>4. ASSUME NEW t \in Threads, TryRdLock(t) PROVE IInv'
  BY <1>4, GrantReadInv DEF TryRdLock
<1>5. ASSUME NEW t \in Threads, TryWrLock(t) PROVE IInv'
  BY <1>5, GrantWriteInv DEF TryWrLock
<1> QED BY <1>1, <1>2, <1>3, <1>4, <1>5, UnlockInv DEF Next

\* The variables keep their types: the reader count never passes the number of threads.
THEOREM TypeCorrect == Spec => []TypeOK
BY InitInv, NextInv, PTL DEF Spec, IInv

\* Readers exclude writers, writers exclude everyone, and the two fields of the lock tell
\* exactly who is inside.
THEOREM Exclusion == Spec => []RWExclusion
BY InitInv, NextInv, PTL DEF Spec, IInv
=============================================================================
