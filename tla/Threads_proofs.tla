---------------------------- MODULE Threads_proofs ----------------------------
(***************************************************************************)
(* Proofs about Threads, for tables, thread ids and keys of any number.    *)
(* A slot in use belongs to the thread that was created in it: no id is    *)
(* given out twice, and a slot is freed only by the one call that is       *)
(* entitled to it, which without pthread_cancel comes after the thread's   *)
(* end.  The last part is about the joins that wait: each of them can come *)
(* back.                                                                   *)
(***************************************************************************)
EXTENDS Threads, FiniteSetTheorems, TLAPS

\* Before the table is initialized there are no other threads, and nothing is in it.
Untouched ==
  ~thread_table_initialized =>
    /\ claims = {}
    /\ \A s \in Slots : ~thread_table[s].inUse
    /\ \A t \in Tids \ {Main} : pc[t] = "none"

\* main has slot 0, and does not end.
MainStays == /\ pc[Main] \in {"run", "join"}
             /\ home[Main] = 0

\* No thread is in the table twice, or before it is created.
OwnIds ==
  /\ \A s \in Slots : thread_table[s].inUse =>
       thread_table[s].threadID \in Tids /\ pc[thread_table[s].threadID] # "none"
  /\ \A r, s \in Slots :
       thread_table[r].inUse /\ thread_table[s].inUse
         /\ thread_table[r].threadID = thread_table[s].threadID => r = s

Joiners == {t \in Tids : pc[t] = "join"}

\* Somebody is entitled to collect thread n from slot s.
Entitled(s, n) == /\ s # 0
                  /\ thread_table[s].inUse
                  /\ ~thread_table[s].detached
                  /\ thread_table[s].threadID = n

\* A claim or a join is for the thread it was made for, and nobody else has one for the slot.
Single ==
  /\ \A c \in claims : Entitled(c[1], c[2])
  /\ \A t \in Joiners : Entitled(target[t].slot, target[t].tid)
  /\ \A b, c \in claims : b[1] = c[1] => b = c
  /\ \A t, u \in Joiners : target[t].slot = target[u].slot => t = u
  /\ \A c \in claims, t \in Joiners : c[1] # target[t].slot

\* Without a cancel, a thread that has not ended is in its slot, and a finished one has left its
\* own result there.
Undisturbed ==
  ~cancelled =>
    /\ \A t \in Tids : User(t) => /\ thread_table[home[t]].inUse
                                  /\ thread_table[home[t]].threadID = t
                                  /\ ~thread_table[home[t]].finished
    /\ \A s \in Slots : thread_table[s].inUse /\ thread_table[s].finished
                          => thread_table[s].result = thread_table[s].threadID

IInv == /\ TypeOK /\ Untouched /\ MainStays /\ OwnIds /\ Single /\ SlotAccounted
        /\ Undisturbed /\ JoinDelivers

-----------------------------------------------------------------------------
(* Helpers *)

\* A set of naturals that is not empty has a least element.
LEMMA MinOfNaturals ==
  ASSUME NEW S \in SUBSET Nat, S # {}
  PROVE  Min(S) \in S /\ \A x \in S : Min(S) <= x
<1> DEFINE R == StrictSubsetOrdering(Nat)
           Upto == {0 .. k : k \in S}
<1>1. IsWellFoundedOn(R, FiniteSubsetsOf(Nat))
  BY FS_StrictSubsetOrderingWellFounded
<1>2. Upto \subseteq FiniteSubsetsOf(Nat) /\ Upto # {}
  <2>1. ASSUME NEW k \in S PROVE 0 .. k \in FiniteSubsetsOf(Nat)
    <3>1. IsFiniteSet(0 .. k)
      BY FS_Interval
    <3> QED BY <3>1 DEF FiniteSubsetsOf
  <2> QED BY <2>1
<1>3. \E u \in Upto : \A v \in Upto : <<v, u>> \notin R
  <2> HIDE DEF R, Upto
  <2> QED BY <1>1, <1>2, WFMin
<1>4. PICK m \in S : \A y \in S : <<0 .. y, 0 .. m>> \notin R
  BY <1>3
<1>5. ASSUME NEW y \in S, y < m PROVE FALSE
  <2>1. 0 .. y \subseteq 0 .. m /\ m \in 0 .. m /\ m \notin 0 .. y
    BY <1>5
  <2>2. <<0 .. y, 0 .. m>> \in R
    BY <2>1 DEF StrictSubsetOrdering
  <2> QED BY <1>4, <2>2
<1>6. \A y \in S : m <= y
  BY <1>5
<1> QED BY <1>6 DEF Min

\* A thread is found in a slot that is in use and holds its id, or not at all.
LEMMA IndexFound ==
  ASSUME NEW table, NEW t
  PROVE  \/ get_thread_index(table, t) = Null
         \/ /\ get_thread_index(table, t) \in Slots
            /\ table[get_thread_index(table, t)].inUse
            /\ table[get_thread_index(table, t)].threadID = t
<1> DEFINE found == {s \in Slots : table[s].inUse /\ table[s].threadID = t}
<1>1. CASE found = {}
  BY <1>1 DEF get_thread_index
<1>2. CASE found # {}
  <2>1. found \in SUBSET Nat
    BY SizesAssumption DEF Slots
  <2>2. Min(found) \in found
    BY <1>2, <2>1, MinOfNaturals
  <2>3. get_thread_index(table, t) = Min(found)
    BY <1>2 DEF get_thread_index
  <2> HIDE DEF found
  <2> DEFINE m == Min(found)
  <2>4. m \in Slots /\ table[m].inUse /\ table[m].threadID = t
    BY <2>2 DEF found
  <2> HIDE DEF m
  <2> QED BY <2>3, <2>4 DEF m
<1> QED BY <1>1, <1>2

\* The slots but s are as they were; s keeps the fields it is not said otherwise of.
OthersKept(new, s) == \A r \in Slots \ {s} : new[r] = thread_table[r]

\* What the end of a thread makes of the table.
LEMMA Finishing ==
  ASSUME TypeOK, NEW s \in Slots, NEW t \in Tids
  PROVE  LET new == Finished(s, t) IN
           /\ new \in [Slots -> Entries]
           /\ OthersKept(new, s)
           /\ new[s].inUse = thread_table[s].inUse
           /\ new[s].detached = thread_table[s].detached
           /\ new[s].threadID = thread_table[s].threadID
           /\ new[s].finished = TRUE
           /\ new[s].result = t
<1> DEFINE x == thread_table[s]
           y == [x EXCEPT !.result = t, !.finished = TRUE]
<1>1. thread_table \in [Slots -> Entries]
  BY DEF TypeOK
<1>2. Finished(s, t) = [thread_table EXCEPT ![s] = y]
  BY <1>1 DEF Finished
<1>3. y \in Entries
  BY <1>1 DEF Entries
<1>4. /\ y.inUse = x.inUse /\ y.detached = x.detached /\ y.threadID = x.threadID
      /\ y.finished = TRUE /\ y.result = t
  BY <1>1 DEF Entries
<1> HIDE DEF y
<1> QED BY <1>1, <1>2, <1>3, <1>4 DEF OthersKept

\* What a join makes of it.
LEMMA Freeing ==
  ASSUME TypeOK, NEW s \in Slots
  PROVE  LET new == [thread_table EXCEPT ![s].inUse = FALSE] IN
           /\ new \in [Slots -> Entries]
           /\ OthersKept(new, s)
           /\ new[s].inUse = FALSE
<1> DEFINE y == [thread_table[s] EXCEPT !.inUse = FALSE]
<1>1. thread_table \in [Slots -> Entries]
  BY DEF TypeOK
<1>2. [thread_table EXCEPT ![s].inUse = FALSE] = [thread_table EXCEPT ![s] = y]
  BY <1>1
<1>3. y \in Entries /\ y.inUse = FALSE
  BY <1>1 DEF Entries
<1> HIDE DEF y
<1> QED BY <1>1, <1>2, <1>3 DEF OthersKept

\* And a detach.
LEMMA Detaching ==
  ASSUME TypeOK, NEW s \in Slots
  PROVE  LET new == [thread_table EXCEPT ![s].detached = TRUE,
                                         ![s].inUse = ~thread_table[s].finished]
         IN /\ new \in [Slots -> Entries]
            /\ OthersKept(new, s)
            /\ new[s].detached = TRUE
            /\ new[s].inUse = ~thread_table[s].finished
            /\ new[s].threadID = thread_table[s].threadID
            /\ new[s].finished = thread_table[s].finished
            /\ new[s].result = thread_table[s].result
<1> DEFINE x == thread_table[s]
           y == [x EXCEPT !.detached = TRUE, !.inUse = ~x.finished]
<1>1. thread_table \in [Slots -> Entries]
  BY DEF TypeOK
<1>2. [thread_table EXCEPT ![s].detached = TRUE, ![s].inUse = ~thread_table[s].finished]
        = [thread_table EXCEPT ![s] = y]
  BY <1>1
<1>3. y \in Entries
  BY <1>1 DEF Entries
<1>4. /\ y.detached = TRUE /\ y.inUse = ~x.finished /\ y.threadID = x.threadID
      /\ y.finished = x.finished /\ y.result = x.result
  BY <1>1 DEF Entries
<1> HIDE DEF y
<1> QED BY <1>1, <1>2, <1>3, <1>4 DEF OthersKept

\* And a cancel.
LEMMA Cancelling ==
  ASSUME TypeOK, NEW s \in Slots
  PROVE  LET new == [thread_table EXCEPT ![s].finished = TRUE] IN
           /\ new \in [Slots -> Entries]
           /\ OthersKept(new, s)
           /\ new[s].inUse = thread_table[s].inUse
           /\ new[s].detached = thread_table[s].detached
           /\ new[s].threadID = thread_table[s].threadID
<1> DEFINE x == thread_table[s]
           y == [x EXCEPT !.finished = TRUE]
<1>1. thread_table \in [Slots -> Entries]
  BY DEF TypeOK
<1>2. [thread_table EXCEPT ![s].finished = TRUE] = [thread_table EXCEPT ![s] = y]
  BY <1>1
<1>3. y \in Entries /\ y.inUse = x.inUse /\ y.detached = x.detached /\ y.threadID = x.threadID
  BY <1>1 DEF Entries
<1> HIDE DEF y
<1> QED BY <1>1, <1>2, <1>3 DEF OthersKept

\* pthread_create takes a slot that is free, other than main's, and a new id.
LEMMA CreatesInFreeSlot ==
  ASSUME NEW t \in Tids, NEW d \in BOOLEAN, Create(t, d)
  PROVE  \E s \in Slots \ {0}, n \in Tids :
           /\ thread_table_initialized
           /\ ~thread_table[s].inUse
           /\ pc[n] = "none"
           /\ thread_table' = [thread_table EXCEPT ![s] =
                                 [Zeroed EXCEPT !.inUse = TRUE, !.detached = d, !.threadID = n]]
           /\ home' = [home EXCEPT ![n] = s]
           /\ pc' = [pc EXCEPT ![n] = "run"]
           /\ claims' = IF d THEN claims ELSE claims \cup {<<s, n>>}
           /\ UNCHANGED <<thread_table_initialized, tls_data, tls_keys, target, dtor, joined,
                          cancelled>>
<1> DEFINE s == Min(alloc_thread)
           n == Min(Unborn)
<1>1. s \in alloc_thread
  BY MinOfNaturals, SizesAssumption DEF Create, alloc_thread, FreeSlots, Slots
<1>2. n \in Unborn
  BY MinOfNaturals, SizesAssumption DEF Create, Unborn, Tids
<1>3. /\ thread_table_initialized
      /\ thread_table' = [thread_table EXCEPT ![s] =
                            [Zeroed EXCEPT !.inUse = TRUE, !.detached = d, !.threadID = n]]
      /\ home' = [home EXCEPT ![n] = s]
      /\ pc' = [pc EXCEPT ![n] = "run"]
      /\ claims' = IF d THEN claims ELSE claims \cup {<<s, n>>}
      /\ UNCHANGED <<thread_table_initialized, tls_data, tls_keys, target, dtor, joined, cancelled>>
  BY DEF Create, Goto
<1> HIDE DEF s, n
<1> QED BY <1>1, <1>2, <1>3 DEF alloc_thread, FreeSlots, Unborn

\* A creation that fails zeroes a free slot.
LEMMA FailureZeroesFreeSlot ==
  ASSUME NEW t \in Tids, CreateFails(t)
  PROVE  \E s \in Slots \ {0} :
           /\ thread_table_initialized
           /\ ~thread_table[s].inUse
           /\ thread_table' = [thread_table EXCEPT ![s] = Zeroed]
           /\ UNCHANGED <<thread_table_initialized, tls_data, tls_keys, control, program>>
<1> DEFINE s == Min(alloc_thread)
<1>1. s \in alloc_thread
  BY MinOfNaturals, SizesAssumption DEF CreateFails, alloc_thread, FreeSlots, Slots
<1>2. /\ thread_table_initialized
      /\ thread_table' = [thread_table EXCEPT ![s] = Zeroed]
      /\ UNCHANGED <<thread_table_initialized, tls_data, tls_keys, control, program>>
  BY DEF CreateFails
<1> HIDE DEF s
<1> QED BY <1>1, <1>2 DEF alloc_thread, FreeSlots

\* The same, slot by slot and thread by thread: n is born in s.
BornIn(s, n, d) ==
  /\ thread_table_initialized /\ thread_table_initialized'
  /\ ~thread_table[s].inUse
  /\ pc[n] = "none"
  /\ OthersKept(thread_table', s)
  /\ thread_table'[s].inUse = TRUE
  /\ thread_table'[s].detached = d
  /\ thread_table'[s].finished = FALSE
  /\ thread_table'[s].threadID = n
  /\ home'[n] = s /\ \A u \in Tids \ {n} : home'[u] = home[u]
  /\ pc'[n] = "run" /\ \A u \in Tids \ {n} : pc'[u] = pc[u]
  /\ claims' = IF d THEN claims ELSE claims \cup {<<s, n>>}
  /\ UNCHANGED <<target, joined, cancelled>>

\* That is what pthread_create does.
LEMMA Creating ==
  ASSUME TypeOK, NEW t \in Tids, NEW d \in BOOLEAN, Create(t, d)
  PROVE  \E s \in Slots \ {0}, n \in Tids : BornIn(s, n, d)
<1>1. PICK s \in Slots \ {0}, n \in Tids :
         /\ thread_table_initialized
         /\ ~thread_table[s].inUse
         /\ pc[n] = "none"
         /\ thread_table' = [thread_table EXCEPT ![s] =
                               [Zeroed EXCEPT !.inUse = TRUE, !.detached = d, !.threadID = n]]
         /\ home' = [home EXCEPT ![n] = s]
         /\ pc' = [pc EXCEPT ![n] = "run"]
         /\ claims' = IF d THEN claims ELSE claims \cup {<<s, n>>}
         /\ UNCHANGED <<thread_table_initialized, tls_data, tls_keys, target, dtor, joined,
                        cancelled>>
  BY CreatesInFreeSlot
<1> DEFINE x == [Zeroed EXCEPT !.inUse = TRUE, !.detached = d, !.threadID = n]
<1>2. x.inUse = TRUE /\ x.detached = d /\ x.finished = FALSE /\ x.threadID = n
  BY DEF Zeroed
<1> HIDE DEF x
<1>3. OthersKept(thread_table', s) /\ thread_table'[s] = x
  BY <1>1 DEF TypeOK, OthersKept, x
<1>4. /\ home'[n] = s /\ \A u \in Tids \ {n} : home'[u] = home[u]
      /\ pc'[n] = "run" /\ \A u \in Tids \ {n} : pc'[u] = pc[u]
  BY <1>1 DEF TypeOK
<1> WITNESS s \in Slots \ {0}, n \in Tids
<1> QED BY <1>1, <1>2, <1>3, <1>4 DEF BornIn

\* The thread waits in a destructor, or is gone; nobody else is concerned.
Leaves(t) ==
  /\ pc' \in {[pc EXCEPT ![t] = "dtor"], [pc EXCEPT ![t] = "dead"]}
  /\ home' \in {home, [home EXCEPT ![t] = 0]}
  /\ dtor' \in [Tids -> [row : Slots, key : 0 .. MaxKeys, value : Tids \cup {Null}]]

\* The Thread Manager's disposal does that.
LEMMA VanishLeaves == ASSUME TypeOK, NEW t \in Tids, Vanish(t) PROVE Leaves(t)
<1>1. NoDtor \in [row : Slots, key : 0 .. MaxKeys, value : Tids \cup {Null}]
  BY SizesAssumption DEF NoDtor, Slots
<1> QED BY <1>1 DEF Vanish, Goto, Leaves, TypeOK

\* So does a thread that comes to a destructor, or past the last.
LEMMA DestructorsLeave ==
  ASSUME TypeOK, NEW t \in Tids, NEW row \in Slots, NEW from, RunDestructors(t, row, from)
  PROVE  Leaves(t)
<1> DEFINE due == {k \in Keys : /\ k >= from
                                /\ tls_keys[k].used
                                /\ tls_keys[k].destructor
                                /\ tls_data[row][k] # Null}
           k == Min(due)
<1>1. CASE due = {}
  <2>1. Vanish(t)
    BY <1>1 DEF RunDestructors
  <2> QED BY <2>1, VanishLeaves
<1>2. CASE due # {}
  <2>1. due \in SUBSET Nat
    BY SizesAssumption DEF Keys
  <2>2. k \in due
    BY <1>2, <2>1, MinOfNaturals
  <2>3. /\ Goto(t, "dtor")
        /\ UNCHANGED home
        /\ dtor' = [dtor EXCEPT ![t] = [row |-> row, key |-> k, value |-> tls_data[row][k]]]
    BY <1>2 DEF RunDestructors
  <2> HIDE DEF k
  <2>4. k \in Keys /\ k \in 0 .. MaxKeys
    BY <2>2, SizesAssumption DEF Keys
  <2>5. tls_data[row][k] \in Tids \cup {Null}
    BY <2>4 DEF TypeOK
  <2> QED BY <2>3, <2>4, <2>5 DEF Leaves, TypeOK, Goto
<1> QED BY <1>1, <1>2

\* The end of a thread: its result goes to the slot it was created in or is found in, or nowhere.
LEMMA EndLeaves ==
  ASSUME TypeOK, MainStays, NEW t \in Tids,
         Return(t) \/ Exit(t) \/ DestructorReturns(t)
  PROVE  /\ t # Main
         /\ pc[t] \in {"run", "dtor"}
         /\ Leaves(t)
         /\ \/ UNCHANGED thread_table
            \/ /\ pc[t] = "run"
               /\ \E s \in Slots :
                    /\ thread_table' = Finished(s, t)
                    /\ \/ s = home[t]
                       \/ thread_table[s].inUse /\ thread_table[s].threadID = t
         /\ UNCHANGED <<thread_table_initialized, tls_data, tls_keys, target, program>>
<1>1. CASE Return(t)
  <2> DEFINE s == home[t]
             row == get_thread_index(Finished(s, t), thread_table[s].threadID)
  <2>1. s \in Slots /\ (row = Null \/ row \in Slots)
    BY IndexFound DEF TypeOK
  <2>2. t # Main /\ pc[t] = "run" /\ End(t, s, row)
    BY <1>1 DEF Return, Runs
  <2> HIDE DEF s, row
  <2>3. Vanish(t) \/ (RunDestructors(t, row, 0) /\ row \in Slots)
    BY <2>1, <2>2 DEF End
  <2>4. Leaves(t)
    BY <2>3, VanishLeaves, DestructorsLeave
  <2> QED BY <2>1, <2>2, <2>4 DEF End, s
<1>2. CASE Exit(t)
  <2> DEFINE s == Index(t)
  <2>1. \/ s = Null
        \/ s \in Slots /\ thread_table[s].inUse /\ thread_table[s].threadID = t
    BY IndexFound DEF Index
  <2>2. /\ t # Main /\ pc[t] = "run"
        /\ IF s = Null THEN Vanish(t) /\ UNCHANGED <<library, target, program>>
                       ELSE End(t, s, s)
    BY <1>2 DEF Exit, Runs
  <2> HIDE DEF s
  <2>3. CASE s = Null
    BY <2>2, <2>3, VanishLeaves DEF library
  <2>4. CASE s # Null
    <3>1. Leaves(t)
      BY <2>1, <2>2, <2>4, DestructorsLeave DEF End
    <3> QED BY <2>1, <2>2, <2>4, <3>1 DEF End
  <2> QED BY <2>3, <2>4
<1>3. CASE DestructorReturns(t)
  <2>1. dtor[t].row \in Slots
    BY DEF TypeOK
  <2>2. Leaves(t)
    BY <1>3, <2>1, DestructorsLeave DEF DestructorReturns
  <2> QED BY <1>3, <2>2 DEF DestructorReturns, MainStays, library
<1> QED BY <1>1, <1>2, <1>3

\* What the calls for thread-specific data leave alone.
OnlyData == UNCHANGED <<thread_table_initialized, thread_table, control, program>>

\* The kinds of steps there are.
LEMMA Kinds ==
  ASSUME [Next]_vars
  PROVE  \/ init_thread_table
         \/ OnlyData
         \/ \E t \in Tids :
              \/ \E d \in BOOLEAN : Create(t, d)
              \/ CreateFails(t)
              \/ Return(t) \/ Exit(t) \/ DestructorReturns(t)
              \/ JoinReturns(t)
              \/ \E c \in Slots \X Tids : Join(t, c) \/ Detach(t, c) \/ Cancel(t, c)
  BY DEF Next, vars, library, OnlyData, KeyCreate, KeyDelete, SetSpecific

\* A join collects from slot s.
Collects(s, n) ==
  /\ thread_table[s].finished
  /\ joined' = joined \cup {<<n, thread_table[s].result>>}
  /\ thread_table' = [thread_table EXCEPT ![s].inUse = FALSE]

\* A join that finds its thread finished collects at once; one that does not waits for it.
LEMMA JoinCases ==
  ASSUME NEW t \in Tids, NEW c \in Slots \X Tids, Join(t, c)
  PROVE  /\ pc[t] = "run"
         /\ c \in claims
         /\ claims' = claims \ {c}
         /\ \/ Collects(c[1], c[2]) /\ UNCHANGED <<pc, target>>
            \/ /\ pc' = [pc EXCEPT ![t] = "join"]
               /\ target' = [target EXCEPT ![t] = [slot |-> c[1], tid |-> c[2]]]
               /\ UNCHANGED <<thread_table, joined>>
         /\ UNCHANGED <<thread_table_initialized, tls_data, tls_keys, home, dtor, cancelled>>
  BY DEF Join, Runs, WaitIsOver, Collects, Collect, Goto

-----------------------------------------------------------------------------
(* Types *)

\* Every variable keeps its type.
LEMMA TypeStep == TypeOK /\ MainStays /\ [Next]_vars => TypeOK'
<1> SUFFICES ASSUME TypeOK, MainStays, [Next]_vars PROVE TypeOK'
  OBVIOUS
<1>1. Null \notin Tids /\ 0 \in Tids /\ 0 \in Slots
  BY SizesAssumption DEF Null, Tids, Slots
<1>2. Zeroed \in Entries
  BY <1>1 DEF Zeroed, Entries
<1>3. ASSUME NEW d \in BOOLEAN, NEW n \in Tids
      PROVE  [Zeroed EXCEPT !.inUse = TRUE, !.detached = d, !.threadID = n] \in Entries
  BY <1>1 DEF Zeroed, Entries
<1>4. CASE init_thread_table
  <2>1. [Zeroed EXCEPT !.inUse = TRUE, !.threadID = Main] \in Entries
    BY <1>1 DEF Zeroed, Entries, Main
  <2>2. thread_table' \in [Slots -> Entries]
    BY <1>2, <1>4, <2>1 DEF init_thread_table
  <2> QED BY <1>1, <1>4, <2>2 DEF TypeOK, init_thread_table, NoKey, control, program
<1>5. ASSUME NEW t \in Tids, NEW d \in BOOLEAN, Create(t, d) PROVE TypeOK'
  <2>1. PICK s \in Slots \ {0}, n \in Tids :
           /\ thread_table' = [thread_table EXCEPT ![s] =
                                 [Zeroed EXCEPT !.inUse = TRUE, !.detached = d, !.threadID = n]]
           /\ home' = [home EXCEPT ![n] = s]
           /\ pc' = [pc EXCEPT ![n] = "run"]
           /\ claims' = IF d THEN claims ELSE claims \cup {<<s, n>>}
           /\ UNCHANGED <<thread_table_initialized, tls_data, tls_keys, target, dtor, joined,
                          cancelled>>
    BY <1>5, CreatesInFreeSlot
  <2>2. thread_table' \in [Slots -> Entries]
    BY <1>3, <2>1 DEF TypeOK
  <2> QED BY <2>1, <2>2 DEF TypeOK
<1>6. ASSUME NEW t \in Tids, CreateFails(t) PROVE TypeOK'
  BY <1>2, <1>6, FailureZeroesFreeSlot DEF TypeOK, control, program
<1>7. ASSUME NEW t \in Tids, Return(t) \/ Exit(t) \/ DestructorReturns(t) PROVE TypeOK'
  <2>1. thread_table' \in [Slots -> Entries]
    <3>1. UNCHANGED thread_table \/ \E s \in Slots : thread_table' = Finished(s, t)
      BY <1>7, EndLeaves
    <3>2. thread_table \in [Slots -> Entries]
      BY DEF TypeOK
    <3> QED BY <3>1, <3>2, Finishing
  <2>2. /\ Leaves(t)
        /\ UNCHANGED <<thread_table_initialized, tls_data, tls_keys, target, program>>
    BY <1>7, EndLeaves
  <2>3. pc' \in [Tids -> {"none", "run", "join", "dtor", "dead"}] /\ home' \in [Tids -> Slots]
    <3>1. pc \in [Tids -> {"none", "run", "join", "dtor", "dead"}] /\ home \in [Tids -> Slots]
      BY DEF TypeOK
    <3> QED BY <1>1, <2>2, <3>1 DEF Leaves
  <2> QED BY <2>1, <2>2, <2>3 DEF TypeOK, Leaves, program
<1>8. ASSUME NEW s \in Slots, NEW n \in Tids, Collects(s, n)
      PROVE  thread_table' \in [Slots -> Entries] /\ joined' \subseteq Tids \X (Tids \cup {Null})
  <2>1. thread_table' \in [Slots -> Entries]
    BY <1>8, Freeing DEF Collects
  <2>2. thread_table[s].result \in Tids \cup {Null}
    BY DEF TypeOK, Entries
  <2> QED BY <1>8, <2>1, <2>2 DEF Collects, TypeOK
<1>9. ASSUME NEW t \in Tids, JoinReturns(t) PROVE TypeOK'
  <2>1. target[t].slot \in Slots /\ target[t].tid \in Tids
    BY DEF TypeOK
  <2>2. Collects(target[t].slot, target[t].tid)
    BY <1>9 DEF JoinReturns, Collects, Collect, WaitIsOver
  <2> QED BY <1>1, <1>8, <1>9, <2>1, <2>2 DEF TypeOK, JoinReturns, Goto, NoTarget, Main
<1>10. ASSUME NEW t \in Tids, NEW c \in Slots \X Tids, Join(t, c) PROVE TypeOK'
  <2>1. thread_table' \in [Slots -> Entries] /\ joined' \subseteq Tids \X (Tids \cup {Null})
    <3>1. Collects(c[1], c[2]) \/ UNCHANGED <<thread_table, joined>>
      BY <1>10, JoinCases
    <3>2. thread_table \in [Slots -> Entries] /\ joined \subseteq Tids \X (Tids \cup {Null})
      BY DEF TypeOK
    <3> QED BY <1>8, <3>1, <3>2
  <2>2. pc' \in [Tids -> {"none", "run", "join", "dtor", "dead"}]
    BY <1>10, JoinCases DEF TypeOK
  <2>3. target' \in [Tids -> [slot : Slots, tid : Tids]]
    <3>1. \/ UNCHANGED target
          \/ target' = [target EXCEPT ![t] = [slot |-> c[1], tid |-> c[2]]]
      BY <1>10, JoinCases
    <3> QED BY SMTT(40), <3>1 DEF TypeOK
  <2> QED BY <1>10, <2>1, <2>2, <2>3, JoinCases DEF TypeOK
<1>11. ASSUME NEW t \in Tids, NEW c \in Slots \X Tids, Detach(t, c) PROVE TypeOK'
  <2>1. thread_table' \in [Slots -> Entries]
    BY <1>11, Detaching DEF Detach
  <2> QED BY <1>11, <2>1 DEF TypeOK, Detach, control
<1>12. ASSUME NEW t \in Tids, NEW c \in Slots \X Tids, Cancel(t, c) PROVE TypeOK'
  <2>1. thread_table' \in [Slots -> Entries]
    BY <1>12, Cancelling DEF Cancel
  <2> QED BY <1>12, <2>1 DEF TypeOK, Cancel, control
<1>13. ASSUME NEW t \in Tids, KeyCreate(t) PROVE TypeOK'
  BY <1>13 DEF TypeOK, KeyCreate, control, program
<1>14. ASSUME NEW t \in Tids, NEW k \in Keys, KeyDelete(t, k) PROVE TypeOK'
  BY <1>14 DEF TypeOK, KeyDelete, NoKey, control, program
<1>15. ASSUME NEW t \in Tids, NEW k \in Keys, SetSpecific(t, k) PROVE TypeOK'
  <2>1. Row(t) = Null \/ Row(t) \in Slots
    BY IndexFound DEF Row, Index
  <2> QED BY <1>15, <2>1 DEF TypeOK, SetSpecific, control, program
<1>16. CASE UNCHANGED vars
  BY <1>16 DEF TypeOK, vars, library, control, program
<1> QED
  BY <1>4, <1>5, <1>6, <1>7, <1>9, <1>10, <1>11, <1>12, <1>13, <1>14, <1>15, <1>16 DEF Next

-----------------------------------------------------------------------------
(* Who is in the table *)

\* What all steps but the first call and a creation leave: no slot gets a thread, and none is born.
Fewer ==
  /\ thread_table_initialized' = thread_table_initialized
  /\ claims' \subseteq claims
  /\ \A s \in Slots : thread_table'[s].inUse =>
       thread_table[s].inUse /\ thread_table'[s].threadID = thread_table[s].threadID
  /\ \A t \in Tids : pc'[t] = "none" <=> pc[t] = "none"
  /\ pc'[Main] \in {"run", "join"}
  /\ home'[Main] = home[Main]

\* And every other step is of that kind.
LEMMA OthersAreFewer ==
  ASSUME TypeOK, MainStays, [Next]_vars
  PROVE  \/ init_thread_table
         \/ \E t \in Tids, d \in BOOLEAN : Create(t, d)
         \/ Fewer
<1>1. ASSUME OnlyData PROVE Fewer
  BY <1>1 DEF OnlyData, control, program, Fewer, MainStays
<1>2. ASSUME NEW t \in Tids, CreateFails(t) PROVE Fewer
  <2>1. PICK s \in Slots \ {0} :
           /\ ~thread_table[s].inUse
           /\ thread_table' = [thread_table EXCEPT ![s] = Zeroed]
           /\ UNCHANGED <<thread_table_initialized, tls_data, tls_keys, control, program>>
    BY <1>2, FailureZeroesFreeSlot
  <2> QED BY <2>1 DEF TypeOK, Zeroed, control, program, Fewer, MainStays
<1>3. ASSUME NEW t \in Tids, Return(t) \/ Exit(t) \/ DestructorReturns(t) PROVE Fewer
  <2>1. \/ UNCHANGED thread_table
        \/ \E s \in Slots : thread_table' = Finished(s, t)
    BY <1>3, EndLeaves
  <2>2. \A s \in Slots : /\ thread_table'[s].inUse = thread_table[s].inUse
                         /\ thread_table'[s].threadID = thread_table[s].threadID
    <3>1. CASE UNCHANGED thread_table
      BY <3>1
    <3>2. ASSUME NEW s \in Slots, thread_table' = Finished(s, t)
          PROVE  \A r \in Slots : /\ thread_table'[r].inUse = thread_table[r].inUse
                                  /\ thread_table'[r].threadID = thread_table[r].threadID
      <4>1. /\ OthersKept(thread_table', s)
            /\ thread_table'[s].inUse = thread_table[s].inUse
            /\ thread_table'[s].threadID = thread_table[s].threadID
        BY <3>2, Finishing
      <4> QED BY <4>1 DEF OthersKept
    <3> QED BY <2>1, <3>1, <3>2
  <2>3. /\ t # Main
        /\ pc[t] \in {"run", "dtor"}
        /\ Leaves(t)
        /\ UNCHANGED <<thread_table_initialized, tls_data, tls_keys, target, program>>
    BY <1>3, EndLeaves
  <2>4. /\ \A u \in Tids \ {t} : pc'[u] = pc[u] /\ home'[u] = home[u]
        /\ pc'[t] # "none"
    BY <2>3 DEF Leaves, TypeOK
  <2>5. Main \in Tids \ {t}
    BY <2>3, SizesAssumption DEF Main, Tids
  <2> QED BY <2>2, <2>3, <2>4, <2>5 DEF Fewer, MainStays, program
<1>4. ASSUME NEW s \in Slots, thread_table' = [thread_table EXCEPT ![s].inUse = FALSE]
      PROVE  \A r \in Slots : thread_table'[r].inUse =>
               thread_table[r].inUse /\ thread_table'[r].threadID = thread_table[r].threadID
  BY <1>4, Freeing DEF OthersKept
<1>5. ASSUME NEW t \in Tids, JoinReturns(t) PROVE Fewer
  <2>1. target[t].slot \in Slots
    BY DEF TypeOK
  <2>2. \A r \in Slots : thread_table'[r].inUse =>
          thread_table[r].inUse /\ thread_table'[r].threadID = thread_table[r].threadID
    BY <1>4, <1>5, <2>1 DEF JoinReturns, Collect
  <2> QED BY <1>5, <2>2 DEF JoinReturns, Goto, Fewer, TypeOK, MainStays
<1>6. ASSUME NEW t \in Tids, NEW c \in Slots \X Tids, Join(t, c) PROVE Fewer
  <2>1. \/ thread_table' = [thread_table EXCEPT ![c[1]].inUse = FALSE]
        \/ UNCHANGED thread_table
    BY <1>6, JoinCases DEF Collects
  <2>2. \A r \in Slots : thread_table'[r].inUse =>
          thread_table[r].inUse /\ thread_table'[r].threadID = thread_table[r].threadID
    BY <1>4, <2>1
  <2>3. pc[t] = "run" /\ (UNCHANGED pc \/ pc' = [pc EXCEPT ![t] = "join"])
    BY <1>6, JoinCases
  <2>4. \A u \in Tids : \/ pc'[u] = pc[u]
                        \/ pc[u] = "run" /\ pc'[u] = "join"
    BY <2>3 DEF TypeOK
  <2>5. Main \in Tids
    BY SizesAssumption DEF Main, Tids
  <2> QED BY <1>6, <2>2, <2>4, <2>5, JoinCases DEF Fewer, MainStays
<1>7. ASSUME NEW t \in Tids, NEW c \in Slots \X Tids, Detach(t, c) PROVE Fewer
  <2>1. \A r \in Slots : thread_table'[r].inUse =>
          thread_table[r].inUse /\ thread_table'[r].threadID = thread_table[r].threadID
    <3> DEFINE new == [thread_table EXCEPT ![c[1]].detached = TRUE,
                                           ![c[1]].inUse = ~thread_table[c[1]].finished]
    <3>1. c[1] \in Slots
      BY <1>7
    <3>2. /\ OthersKept(new, c[1])
          /\ new[c[1]].inUse = ~thread_table[c[1]].finished
          /\ new[c[1]].threadID = thread_table[c[1]].threadID
      BY <3>1, Detaching
    <3>3. thread_table' = new /\ thread_table[c[1]].inUse
      BY <1>7 DEF Detach
    <3> HIDE DEF new
    <3> QED BY <3>1, <3>2, <3>3 DEF OthersKept
  <2> QED BY <1>7, <2>1 DEF Detach, control, Fewer, MainStays
<1>8. ASSUME NEW t \in Tids, NEW c \in Slots \X Tids, Cancel(t, c) PROVE Fewer
  <2>1. \A r \in Slots : thread_table'[r].inUse =>
          thread_table[r].inUse /\ thread_table'[r].threadID = thread_table[r].threadID
    BY <1>8, Cancelling DEF Cancel, OthersKept
  <2> QED BY <1>8, <2>1 DEF Cancel, control, Fewer, MainStays
<1> QED BY Kinds, <1>1, <1>2, <1>3, <1>5, <1>6, <1>7, <1>8

Roots == Untouched /\ MainStays /\ OwnIds

\* Ids stay unique, and main stays where it is.
LEMMA RootsStep == TypeOK /\ Roots /\ [Next]_vars => Roots'
<1> SUFFICES ASSUME TypeOK, Roots, [Next]_vars PROVE Roots'
  OBVIOUS
<1>1. CASE init_thread_table
  BY <1>1, SizesAssumption
     DEF Roots, Untouched, MainStays, OwnIds, init_thread_table, Zeroed, control, program, Main,
         Tids, Slots
<1>2. ASSUME NEW t \in Tids, NEW d \in BOOLEAN, Create(t, d) PROVE Roots'
  <2>1. PICK s \in Slots \ {0}, n \in Tids : BornIn(s, n, d)
    BY <1>2, Creating
  <2>2. n # Main /\ Main \in Tids
    BY <2>1, SizesAssumption DEF BornIn, Roots, MainStays, Main, Tids
  <2> QED BY <2>1, <2>2 DEF BornIn, Roots, Untouched, MainStays, OwnIds, OthersKept
<1>3. CASE Fewer
  BY <1>3 DEF Fewer, Roots, Untouched, MainStays, OwnIds
<1> QED BY <1>1, <1>2, <1>3, OthersAreFewer DEF Roots

-----------------------------------------------------------------------------
(* Who may collect *)

Entitlement == Single /\ SlotAccounted

\* Steps that move no claim and no joiner, and leave the slots in use as they are, change nothing.
LEMMA EntitlementKept ==
  ASSUME TypeOK, Entitlement,
         claims' = claims, target' = target,
         \A t \in Tids : pc'[t] = "join" <=> pc[t] = "join",
         \A s \in Slots : /\ thread_table'[s].inUse <=> thread_table[s].inUse
                          /\ thread_table[s].inUse =>
                               /\ thread_table'[s].detached = thread_table[s].detached
                               /\ thread_table'[s].threadID = thread_table[s].threadID
  PROVE  Entitlement'
<1>1. Joiners' = Joiners
  BY DEF Joiners
<1>2. \A s \in Slots : \A n : Entitled(s, n)' <=> Entitled(s, n)
  BY DEF Entitled
<1>3. /\ \A c \in claims : c[1] \in Slots
      /\ \A t \in Joiners : target[t].slot \in Slots
  BY DEF TypeOK, Joiners
<1>4. Single'
  BY <1>1, <1>2, <1>3 DEF Entitlement, Single
<1>5. SlotAccounted'
  BY DEF Entitlement, SlotAccounted
<1> QED BY <1>4, <1>5 DEF Entitlement

\* The first call finds nobody entitled, and puts main into slot 0.
LEMMA EntitlementStarts ==
  ASSUME TypeOK, Untouched, init_thread_table
  PROVE  Entitlement'
<1>1. claims' = {} /\ \A t \in Tids : pc'[t] # "join"
  BY DEF Untouched, init_thread_table, Runs, control, program
<1>2. \A s \in Slots \ {0} : ~thread_table'[s].inUse
  BY DEF init_thread_table, Zeroed
<1> QED BY <1>1, <1>2 DEF Entitlement, Single, SlotAccounted, Joiners

\* pthread_create gives the creator of a joinable thread the one claim there is on the slot.
LEMMA EntitlementCreated ==
  ASSUME TypeOK, Entitlement, NEW t \in Tids, NEW d \in BOOLEAN, Create(t, d)
  PROVE  Entitlement'
<1>1. PICK s \in Slots \ {0}, n \in Tids : BornIn(s, n, d)
  BY Creating
<1>2. Joiners' = Joiners
  BY <1>1 DEF BornIn, Joiners
<1>3. /\ \A c \in claims : c[1] \in Slots /\ c[1] # s
      /\ \A u \in Joiners : target[u].slot \in Slots /\ target[u].slot # s
  BY <1>1 DEF BornIn, TypeOK, Joiners, Entitlement, Single, Entitled
<1>4. \A r \in Slots \ {s} : \A m : Entitled(r, m)' <=> Entitled(r, m)
  BY <1>1 DEF BornIn, Entitled, OthersKept
<1>5. ~d => Entitled(s, n)'
  BY <1>1 DEF BornIn, Entitled
<1>6. Single'
  BY <1>1, <1>2, <1>3, <1>4, <1>5 DEF BornIn, Entitlement, Single
<1>7. SlotAccounted'
  <2>1. ASSUME NEW r \in Slots \ {0}, r # s
        PROVE  /\ (\E m \in Tids : <<r, m>> \in claims') <=> \E m \in Tids : <<r, m>> \in claims
               /\ (\E u \in Tids : pc'[u] = "join" /\ target'[u].slot = r)
                    <=> \E u \in Tids : pc[u] = "join" /\ target[u].slot = r
    BY <1>1, <2>1 DEF BornIn
  <2>2. \A m \in Tids : <<s, m>> \notin claims
    BY <1>3
  <2>3. \A u \in Tids : ~(pc'[u] = "join" /\ target'[u].slot = s)
    BY <1>1, <1>3 DEF BornIn, Joiners
  <2>4. (\E m \in Tids : <<s, m>> \in claims') <=> ~d
    BY <1>1, <2>2 DEF BornIn
  <2> SUFFICES ASSUME NEW r \in Slots \ {0}
               PROVE  (thread_table'[r].inUse /\ ~thread_table'[r].detached) <=>
                        \/ \E m \in Tids : <<r, m>> \in claims'
                        \/ \E u \in Tids : pc'[u] = "join" /\ target'[u].slot = r
    BY DEF SlotAccounted
  <2>5. CASE r = s
    BY <1>1, <2>3, <2>4, <2>5 DEF BornIn
  <2>6. CASE r # s
    BY SMTT(40), <1>1, <2>1, <2>6 DEF BornIn, Entitlement, SlotAccounted, OthersKept
  <2> QED BY <2>5, <2>6
<1> QED BY <1>6, <1>7 DEF Entitlement

\* A claim that is used frees its slot, or turns into a join, or the slot is detached.
LEMMA EntitlementUsed ==
  ASSUME TypeOK, Entitlement, NEW c \in claims, c \in Slots \X Tids,
         claims' = claims \ {c}, UNCHANGED target,
         \A t \in Tids : pc'[t] = "join" <=> pc[t] = "join",
         OthersKept(thread_table', c[1]),
         ~thread_table'[c[1]].inUse \/ thread_table'[c[1]].detached
  PROVE  Entitlement'
<1>1. Joiners' = Joiners
  BY DEF Joiners
<1>2. /\ \A b \in claims' : b[1] \in Slots /\ b[1] # c[1]
      /\ \A t \in Joiners : target[t].slot \in Slots /\ target[t].slot # c[1]
  BY DEF TypeOK, Joiners, Entitlement, Single
<1>3. \A r \in Slots \ {c[1]} : \A m : Entitled(r, m)' <=> Entitled(r, m)
  BY DEF Entitled, OthersKept
<1>4. Single'
  BY <1>1, <1>2, <1>3 DEF Entitlement, Single
<1>5. SlotAccounted'
  <2>1. ASSUME NEW r \in Slots \ {0}, r # c[1]
        PROVE  /\ (\E m \in Tids : <<r, m>> \in claims') <=> \E m \in Tids : <<r, m>> \in claims
               /\ (\E u \in Tids : pc'[u] = "join" /\ target'[u].slot = r)
                    <=> \E u \in Tids : pc[u] = "join" /\ target[u].slot = r
    BY <2>1
  <2>2. \A m \in Tids : <<c[1], m>> \notin claims'
    BY <1>2
  <2>3. \A u \in Tids : ~(pc'[u] = "join" /\ target'[u].slot = c[1])
    BY <1>2 DEF Joiners
  <2> SUFFICES ASSUME NEW r \in Slots \ {0}
               PROVE  (thread_table'[r].inUse /\ ~thread_table'[r].detached) <=>
                        \/ \E m \in Tids : <<r, m>> \in claims'
                        \/ \E u \in Tids : pc'[u] = "join" /\ target'[u].slot = r
    BY DEF SlotAccounted
  <2>4. CASE r = c[1]
    BY <2>2, <2>3, <2>4
  <2>5. CASE r # c[1]
    BY <2>1, <2>5 DEF Entitlement, SlotAccounted, OthersKept
  <2> QED BY <2>4, <2>5
<1> QED BY <1>4, <1>5 DEF Entitlement

\* A join that has to wait turns its claim into a join.
LEMMA EntitlementWaits ==
  ASSUME TypeOK, Entitlement, NEW t \in Tids, pc[t] = "run", NEW c \in claims,
         c \in Slots \X Tids,
         claims' = claims \ {c},
         pc' = [pc EXCEPT ![t] = "join"],
         target' = [target EXCEPT ![t] = [slot |-> c[1], tid |-> c[2]]],
         UNCHANGED thread_table
  PROVE  Entitlement'
<1>1. /\ pc'[t] = "join" /\ target'[t].slot = c[1] /\ target'[t].tid = c[2]
      /\ \A u \in Tids \ {t} : pc'[u] = pc[u] /\ target'[u] = target[u]
  BY DEF TypeOK
<1>2. Joiners' = Joiners \cup {t} /\ t \notin Joiners
  BY <1>1 DEF Joiners
<1>3. /\ \A b \in claims : b[1] \in Slots
      /\ \A u \in Joiners : target[u].slot \in Slots
  BY DEF TypeOK, Joiners
<1>4. \A r, m : Entitled(r, m)' <=> Entitled(r, m)
  BY DEF Entitled
<1>5. \A u \in Joiners : target'[u] = target[u]
  BY <1>1, <1>2 DEF Joiners
<1>6. Single'
  <2>1. \A b \in claims' : Entitled(b[1], b[2])'
    BY <1>4 DEF Entitlement, Single
  <2>2. \A u \in Joiners' : LET r == target'[u].slot IN
          r # 0 /\ thread_table'[r].inUse /\ ~thread_table'[r].detached
            /\ thread_table'[r].threadID = target'[u].tid
    BY <1>1, <1>2, <1>5 DEF Entitlement, Single, Entitled
  <2>3. \A a, b \in claims' : a[1] = b[1] => a = b
    BY DEF Entitlement, Single
  <2>4. \A u, v \in Joiners' : target'[u].slot = target'[v].slot => u = v
    BY <1>1, <1>2, <1>5 DEF Entitlement, Single
  <2>5. \A b \in claims', u \in Joiners' : b[1] # target'[u].slot
    BY <1>1, <1>2, <1>5 DEF Entitlement, Single
  <2> QED BY <2>1, <2>2, <2>3, <2>4, <2>5 DEF Single, Entitled
<1>7. SlotAccounted'
  <2> SUFFICES ASSUME NEW r \in Slots \ {0}
               PROVE  (\/ \E m \in Tids : <<r, m>> \in claims'
                       \/ \E u \in Tids : pc'[u] = "join" /\ target'[u].slot = r)
                      <=> \/ \E m \in Tids : <<r, m>> \in claims
                          \/ \E u \in Tids : pc[u] = "join" /\ target[u].slot = r
    BY DEF Entitlement, SlotAccounted
  <2>1. CASE r = c[1]
    BY <1>1, <2>1
  <2>2. CASE r # c[1]
    <3>1. \A m \in Tids : <<r, m>> \in claims' <=> <<r, m>> \in claims
      BY <2>2
    <3>2. \A u \in Tids : pc'[u] = "join" /\ target'[u].slot = r
                            <=> pc[u] = "join" /\ target[u].slot = r
      BY <1>1, <2>2
    <3> QED BY <3>1, <3>2
  <2> QED BY <2>1, <2>2
<1> QED BY <1>6, <1>7 DEF Entitlement

\* A join that comes back frees the slot nobody else is entitled to.
LEMMA EntitlementCollected ==
  ASSUME TypeOK, Entitlement, NEW t \in Tids, pc[t] = "join",
         OthersKept(thread_table', target[t].slot),
         ~thread_table'[target[t].slot].inUse,
         pc' = [pc EXCEPT ![t] = "run"],
         target' = [target EXCEPT ![t] = NoTarget],
         UNCHANGED claims
  PROVE  Entitlement'
<1> DEFINE s == target[t].slot
<1>1. /\ pc'[t] = "run"
      /\ \A u \in Tids \ {t} : pc'[u] = pc[u] /\ target'[u] = target[u]
  BY DEF TypeOK
<1>2. Joiners' = Joiners \ {t} /\ t \in Joiners
  BY <1>1 DEF Joiners
<1>3. /\ \A b \in claims : b[1] \in Slots /\ b[1] # s
      /\ \A u \in Joiners' : target[u].slot \in Slots /\ target[u].slot # s
  BY <1>2 DEF TypeOK, Joiners, Entitlement, Single
<1>4. \A r \in Slots \ {s} : \A m : Entitled(r, m)' <=> Entitled(r, m)
  BY DEF Entitled, OthersKept
<1>5. \A u \in Joiners' : u \in Joiners /\ target'[u] = target[u]
  BY <1>1, <1>2 DEF Joiners
<1> HIDE DEF s
<1>6. Single'
  <2>1. \A b \in claims' : Entitled(b[1], b[2])'
    BY <1>3, <1>4 DEF Entitlement, Single
  <2>2. \A u \in Joiners' : LET r == target'[u].slot IN
          r # 0 /\ thread_table'[r].inUse /\ ~thread_table'[r].detached
            /\ thread_table'[r].threadID = target'[u].tid
    BY <1>3, <1>5 DEF Entitlement, Single, Entitled, OthersKept, s
  <2>3. \A a, b \in claims' : a[1] = b[1] => a = b
    BY DEF Entitlement, Single
  <2>4. \A u, v \in Joiners' : target'[u].slot = target'[v].slot => u = v
    BY <1>5 DEF Entitlement, Single
  <2>5. \A b \in claims', u \in Joiners' : b[1] # target'[u].slot
    BY <1>5 DEF Entitlement, Single
  <2> QED BY <2>1, <2>2, <2>3, <2>4, <2>5 DEF Single, Entitled
<1>7. SlotAccounted'
  <2> SUFFICES ASSUME NEW r \in Slots \ {0}
               PROVE  (thread_table'[r].inUse /\ ~thread_table'[r].detached) <=>
                        \/ \E m \in Tids : <<r, m>> \in claims'
                        \/ \E u \in Tids : pc'[u] = "join" /\ target'[u].slot = r
    BY DEF SlotAccounted
  <2>1. CASE r = s
    <3>1. \A m \in Tids : <<r, m>> \notin claims'
      BY <1>3, <2>1
    <3>2. \A u \in Tids : ~(pc'[u] = "join" /\ target'[u].slot = r)
      BY <1>3, <1>5, <2>1 DEF Joiners
    <3> QED BY <2>1, <3>1, <3>2 DEF s
  <2>2. CASE r # s
    <3>1. \A u \in Tids : pc'[u] = "join" /\ target'[u].slot = r
                            <=> pc[u] = "join" /\ target[u].slot = r
      BY <1>1, <2>2 DEF s
    <3> QED BY <2>2, <3>1 DEF s, Entitlement, SlotAccounted, OthersKept
  <2> QED BY <2>1, <2>2
<1> QED BY <1>6, <1>7 DEF Entitlement

\* Every slot that is joinable has one that may collect from it, and no other slot has.
LEMMA EntitlementStep ==
  TypeOK /\ Untouched /\ MainStays /\ Entitlement /\ [Next]_vars => Entitlement'
<1> SUFFICES ASSUME TypeOK, Untouched, MainStays, Entitlement, [Next]_vars
             PROVE  Entitlement'
  OBVIOUS
<1>1. ASSUME OnlyData PROVE Entitlement'
  <2>1. UNCHANGED <<thread_table, pc, target, claims>>
    BY <1>1 DEF OnlyData, control, program
  <2> QED BY <2>1, EntitlementKept
<1>2. ASSUME NEW t \in Tids, CreateFails(t) PROVE Entitlement'
  <2>1. PICK s \in Slots \ {0} :
           /\ ~thread_table[s].inUse
           /\ thread_table' = [thread_table EXCEPT ![s] = Zeroed]
           /\ UNCHANGED <<thread_table_initialized, tls_data, tls_keys, control, program>>
    BY <1>2, FailureZeroesFreeSlot
  <2>2. \A r \in Slots : /\ thread_table'[r].inUse <=> thread_table[r].inUse
                         /\ thread_table[r].inUse =>
                              /\ thread_table'[r].detached = thread_table[r].detached
                              /\ thread_table'[r].threadID = thread_table[r].threadID
    BY <2>1 DEF TypeOK, Zeroed
  <2> QED BY <2>1, <2>2, EntitlementKept DEF control, program
<1>3. ASSUME NEW t \in Tids, Return(t) \/ Exit(t) \/ DestructorReturns(t) PROVE Entitlement'
  <2>1. \/ UNCHANGED thread_table
        \/ \E s \in Slots : thread_table' = Finished(s, t)
    BY <1>3, EndLeaves
  <2>2. ASSUME NEW s \in Slots, thread_table' = Finished(s, t)
        PROVE  /\ OthersKept(thread_table', s)
               /\ thread_table'[s].inUse = thread_table[s].inUse
               /\ thread_table'[s].detached = thread_table[s].detached
               /\ thread_table'[s].threadID = thread_table[s].threadID
    BY <2>2, Finishing
  <2>3. \A r \in Slots : /\ thread_table'[r].inUse <=> thread_table[r].inUse
                         /\ thread_table'[r].detached = thread_table[r].detached
                         /\ thread_table'[r].threadID = thread_table[r].threadID
    BY <2>1, <2>2 DEF OthersKept
  <2>4. /\ pc[t] \in {"run", "dtor"}
        /\ Leaves(t)
        /\ UNCHANGED <<target, claims>>
    BY <1>3, EndLeaves DEF program
  <2>5. \A u \in Tids : pc'[u] = "join" <=> pc[u] = "join"
    BY <2>4 DEF Leaves, TypeOK
  <2> QED BY <2>3, <2>4, <2>5, EntitlementKept
<1>4. ASSUME NEW t \in Tids, JoinReturns(t) PROVE Entitlement'
  <2>1. target[t].slot \in Slots
    BY DEF TypeOK
  <2>2. /\ OthersKept(thread_table', target[t].slot)
        /\ ~thread_table'[target[t].slot].inUse
    BY <1>4, <2>1, Freeing DEF JoinReturns, Collect
  <2>3. /\ pc[t] = "join"
        /\ pc' = [pc EXCEPT ![t] = "run"]
        /\ target' = [target EXCEPT ![t] = NoTarget]
        /\ UNCHANGED claims
    BY <1>4 DEF JoinReturns, Goto
  <2> QED BY <2>2, <2>3, EntitlementCollected
<1>5. ASSUME NEW t \in Tids, NEW c \in Slots \X Tids, Join(t, c) PROVE Entitlement'
  <2>1. pc[t] = "run" /\ c \in claims /\ claims' = claims \ {c}
    BY <1>5, JoinCases
  <2>2. CASE Collects(c[1], c[2]) /\ UNCHANGED <<pc, target>>
    <3>1. OthersKept(thread_table', c[1]) /\ ~thread_table'[c[1]].inUse
      BY <2>2, Freeing DEF Collects
    <3> QED BY <2>1, <2>2, <3>1, EntitlementUsed
  <2>3. CASE /\ pc' = [pc EXCEPT ![t] = "join"]
             /\ target' = [target EXCEPT ![t] = [slot |-> c[1], tid |-> c[2]]]
             /\ UNCHANGED <<thread_table, joined>>
    BY <2>1, <2>3, EntitlementWaits
  <2> QED BY <1>5, <2>2, <2>3, JoinCases
<1>6. ASSUME NEW t \in Tids, NEW c \in Slots \X Tids, Detach(t, c) PROVE Entitlement'
  <2>1. OthersKept(thread_table', c[1]) /\ thread_table'[c[1]].detached
    BY <1>6, Detaching DEF Detach
  <2>2. c \in claims /\ claims' = claims \ {c} /\ UNCHANGED <<pc, target>>
    BY <1>6 DEF Detach, control
  <2> QED BY <2>1, <2>2, EntitlementUsed
<1>7. ASSUME NEW t \in Tids, NEW c \in Slots \X Tids, Cancel(t, c) PROVE Entitlement'
  <2>1. /\ OthersKept(thread_table', c[1])
        /\ thread_table'[c[1]].inUse = thread_table[c[1]].inUse
        /\ thread_table'[c[1]].detached = thread_table[c[1]].detached
        /\ thread_table'[c[1]].threadID = thread_table[c[1]].threadID
    BY <1>7, Cancelling DEF Cancel
  <2>2. \A r \in Slots : /\ thread_table'[r].inUse <=> thread_table[r].inUse
                         /\ thread_table'[r].detached = thread_table[r].detached
                         /\ thread_table'[r].threadID = thread_table[r].threadID
    BY <2>1 DEF OthersKept
  <2>3. UNCHANGED <<pc, target, claims>>
    BY <1>7 DEF Cancel, control
  <2> QED BY <2>2, <2>3, EntitlementKept
<1> QED
  BY Kinds, EntitlementStarts, EntitlementCreated, <1>1, <1>2, <1>3, <1>4, <1>5, <1>6, <1>7

-----------------------------------------------------------------------------
(* What is in the slots *)

Delivery == Undisturbed /\ JoinDelivers

\* A step that gives no user another slot, kills no entry in use that is not finished, and lets
\* no entry finish keeps every thread where it was.
LEMMA UndisturbedKept ==
  ASSUME TypeOK, Undisturbed, cancelled' = cancelled,
         \A t \in Tids : User(t)' => User(t) /\ home'[t] = home[t],
         \A s \in Slots :
           /\ thread_table[s].inUse /\ ~thread_table[s].finished =>
                /\ thread_table'[s].inUse
                /\ ~thread_table'[s].finished
                /\ thread_table'[s].threadID = thread_table[s].threadID
           /\ thread_table'[s].inUse /\ thread_table'[s].finished =>
                /\ thread_table[s].inUse
                /\ thread_table[s].finished
                /\ thread_table'[s].threadID = thread_table[s].threadID
                /\ thread_table'[s].result = thread_table[s].result
  PROVE  Undisturbed'
<1> SUFFICES ASSUME ~cancelled
             PROVE  /\ \A t \in Tids : User(t)' => /\ thread_table'[home'[t]].inUse
                                                   /\ thread_table'[home'[t]].threadID = t
                                                   /\ ~thread_table'[home'[t]].finished
                    /\ \A s \in Slots : thread_table'[s].inUse /\ thread_table'[s].finished
                          => thread_table'[s].result = thread_table'[s].threadID
  BY DEF Undisturbed
<1>1. ASSUME NEW t \in Tids, User(t)'
      PROVE  /\ thread_table'[home'[t]].inUse
             /\ thread_table'[home'[t]].threadID = t
             /\ ~thread_table'[home'[t]].finished
  <2>1. User(t) /\ home'[t] = home[t] /\ home[t] \in Slots
    BY <1>1 DEF TypeOK
  <2> QED BY <2>1 DEF Undisturbed
<1>2. ASSUME NEW s \in Slots, thread_table'[s].inUse, thread_table'[s].finished
      PROVE  thread_table'[s].result = thread_table'[s].threadID
  BY <1>2 DEF Undisturbed
<1> QED BY <1>1, <1>2

\* The first call finds no thread but main.
LEMMA DeliveryStarts ==
  ASSUME TypeOK, Untouched, MainStays, Delivery, init_thread_table
  PROVE  Delivery'
<1>1. UNCHANGED <<pc, home, joined, cancelled>>
  BY DEF init_thread_table, control, program
<1>2. \A t \in Tids \ {Main} : pc'[t] = "none"
  BY <1>1 DEF Untouched, init_thread_table
<1>3. thread_table' = [s \in Slots |-> IF s = 0 THEN [Zeroed EXCEPT !.inUse = TRUE,
                                                                   !.threadID = Main]
                                                ELSE Zeroed]
  BY DEF init_thread_table
<1>4. 0 \in Slots
  BY SizesAssumption DEF Slots
<1>5. \A s \in Slots : ~thread_table'[s].finished
  BY <1>3 DEF Zeroed
<1>6. thread_table'[0].inUse /\ thread_table'[0].threadID = Main
  BY <1>3, <1>4 DEF Zeroed
<1>7. \A t \in Tids : User(t)' => t = Main
  BY <1>2 DEF User
<1>8. Undisturbed'
  BY <1>1, <1>4, <1>5, <1>6, <1>7 DEF Undisturbed, MainStays
<1> QED BY <1>1, <1>8 DEF Delivery, JoinDelivers

\* The slot pthread_create takes is nobody's.
LEMMA DeliveryCreated ==
  ASSUME TypeOK, Delivery, NEW t \in Tids, NEW d \in BOOLEAN, Create(t, d)
  PROVE  Delivery'
<1>1. PICK s \in Slots \ {0}, n \in Tids : BornIn(s, n, d)
  BY Creating
<1>2. UNCHANGED <<joined, cancelled>>
  BY <1>1 DEF BornIn
<1>3. ASSUME ~cancelled, NEW u \in Tids, User(u)'
      PROVE  /\ thread_table'[home'[u]].inUse
             /\ thread_table'[home'[u]].threadID = u
             /\ ~thread_table'[home'[u]].finished
  <2>1. CASE u = n
    BY <1>1, <2>1 DEF BornIn
  <2>2. CASE u # n
    <3>1. User(u) /\ home'[u] = home[u] /\ home[u] \in Slots
      BY <1>1, <1>3, <2>2 DEF BornIn, User, TypeOK
    <3>2. /\ thread_table[home[u]].inUse
          /\ thread_table[home[u]].threadID = u
          /\ ~thread_table[home[u]].finished
      BY <1>3, <3>1 DEF Delivery, Undisturbed
    <3>3. thread_table'[home[u]] = thread_table[home[u]]
      BY <1>1, <3>1, <3>2 DEF BornIn, OthersKept
    <3> QED BY <3>1, <3>2, <3>3
  <2> QED BY <2>1, <2>2
<1>4. ASSUME ~cancelled, NEW r \in Slots, thread_table'[r].inUse, thread_table'[r].finished
      PROVE  thread_table'[r].result = thread_table'[r].threadID
  <2>1. r # s
    BY <1>1, <1>4 DEF BornIn
  <2> QED BY <1>1, <1>4, <2>1 DEF BornIn, OthersKept, Delivery, Undisturbed
<1>5. Undisturbed'
  BY <1>2, <1>3, <1>4 DEF Undisturbed
<1> QED BY <1>2, <1>5 DEF Delivery, JoinDelivers

\* A thread that ends leaves its result in its own slot.
LEMMA DeliveryEnds ==
  ASSUME TypeOK, Untouched, MainStays, OwnIds, Delivery, NEW t \in Tids,
         Return(t) \/ Exit(t) \/ DestructorReturns(t)
  PROVE  Delivery'
<1>1. /\ t # Main
      /\ pc[t] \in {"run", "dtor"}
      /\ Leaves(t)
      /\ UNCHANGED <<thread_table_initialized, joined, cancelled>>
  BY EndLeaves DEF program
<1>2. \A u \in Tids : User(u)' => u # t /\ User(u) /\ home'[u] = home[u]
  BY <1>1 DEF Leaves, User, TypeOK
<1>3. CASE UNCHANGED thread_table
  <2>1. Undisturbed'
    BY <1>1, <1>2, <1>3, UndisturbedKept DEF Delivery
  <2> QED BY <1>1, <2>1 DEF Delivery, JoinDelivers
<1>4. ASSUME pc[t] = "run", NEW s \in Slots, thread_table' = Finished(s, t),
             s = home[t] \/ (thread_table[s].inUse /\ thread_table[s].threadID = t)
      PROVE  Delivery'
  <2>1. /\ OthersKept(thread_table', s)
        /\ thread_table'[s].inUse = thread_table[s].inUse
        /\ thread_table'[s].threadID = thread_table[s].threadID
        /\ thread_table'[s].result = t
    BY <1>4, Finishing
  <2>2. User(t)
    BY <1>1, <1>4 DEF User, Untouched
  <2>3. ~cancelled => thread_table[s].threadID = t
    BY <1>4, <2>2 DEF Delivery, Undisturbed
  <2>4. ASSUME ~cancelled, NEW u \in Tids, User(u)'
        PROVE  /\ thread_table'[home'[u]].inUse
               /\ thread_table'[home'[u]].threadID = u
               /\ ~thread_table'[home'[u]].finished
    <3>1. u # t /\ User(u) /\ home'[u] = home[u] /\ home[u] \in Slots
      BY <1>2, <2>4 DEF TypeOK
    <3>2. /\ thread_table[home[u]].inUse
          /\ thread_table[home[u]].threadID = u
          /\ ~thread_table[home[u]].finished
      BY <2>4, <3>1 DEF Delivery, Undisturbed
    <3>3. thread_table'[home[u]] = thread_table[home[u]]
      BY <2>1, <2>3, <2>4, <3>1, <3>2 DEF OthersKept
    <3> QED BY <3>1, <3>2, <3>3
  <2>5. ASSUME ~cancelled, NEW r \in Slots, thread_table'[r].inUse, thread_table'[r].finished
        PROVE  thread_table'[r].result = thread_table'[r].threadID
    <3>1. CASE r = s
      BY <2>1, <2>3, <2>5, <3>1
    <3>2. CASE r # s
      BY <2>1, <2>5, <3>2 DEF OthersKept, Delivery, Undisturbed
    <3> QED BY <3>1, <3>2
  <2>6. Undisturbed'
    BY <1>1, <2>4, <2>5 DEF Undisturbed
  <2> QED BY <1>1, <2>6 DEF Delivery, JoinDelivers
<1> QED BY <1>3, <1>4, EndLeaves

\* A join collects the result of the thread it is entitled to, from a slot nobody lives in.
LEMMA DeliveryCollected ==
  ASSUME TypeOK, Delivery, NEW s \in Slots, NEW n \in Tids, Entitled(s, n), Collects(s, n),
         UNCHANGED <<thread_table_initialized, home, cancelled>>,
         \A u \in Tids : pc'[u] \in {"run", "join"} => pc[u] \in {"run", "join"}
  PROVE  Delivery'
<1>1. /\ thread_table[s].finished
      /\ joined' = joined \cup {<<n, thread_table[s].result>>}
      /\ thread_table' = [thread_table EXCEPT ![s].inUse = FALSE]
  BY DEF Collects
<1>2. OthersKept(thread_table', s) /\ thread_table'[s].inUse = FALSE
  BY <1>1, Freeing
<1>3. \A t \in Tids : User(t)' => User(t) /\ home'[t] = home[t]
  BY DEF User
<1>4. Undisturbed'
  BY <1>1, <1>2, <1>3, UndisturbedKept DEF OthersKept, Delivery
<1>5. ~cancelled => thread_table[s].result = n
  BY <1>1 DEF Delivery, Undisturbed, Entitled
<1> QED BY <1>1, <1>4, <1>5 DEF Delivery, JoinDelivers

\* Every step keeps the threads in their slots and the results where their joins find them.
LEMMA DeliveryStep ==
  TypeOK /\ Untouched /\ MainStays /\ OwnIds /\ Entitlement /\ Delivery /\ [Next]_vars => Delivery'
<1> SUFFICES ASSUME TypeOK, Untouched, MainStays, OwnIds, Entitlement, Delivery, [Next]_vars
             PROVE  Delivery'
  OBVIOUS
<1>1. ASSUME OnlyData PROVE Delivery'
  BY <1>1 DEF OnlyData, control, program, Delivery, Undisturbed, JoinDelivers, User
<1>2. ASSUME NEW t \in Tids, CreateFails(t) PROVE Delivery'
  <2>1. PICK s \in Slots \ {0} :
           /\ ~thread_table[s].inUse
           /\ thread_table' = [thread_table EXCEPT ![s] = Zeroed]
           /\ UNCHANGED <<thread_table_initialized, tls_data, tls_keys, control, program>>
    BY <1>2, FailureZeroesFreeSlot
  <2>2. UNCHANGED <<thread_table_initialized, pc, home, joined, cancelled>>
    BY <2>1 DEF control, program
  <2>3. \A u \in Tids : User(u)' => User(u) /\ home'[u] = home[u]
    BY <2>2 DEF User
  <2>4. OthersKept(thread_table', s) /\ thread_table'[s].inUse = FALSE
    BY <2>1 DEF OthersKept, Zeroed, TypeOK
  <2>5. Undisturbed'
    BY <2>1, <2>2, <2>3, <2>4, UndisturbedKept DEF OthersKept, Delivery
  <2> QED BY <2>2, <2>5 DEF Delivery, JoinDelivers
<1>3. ASSUME NEW t \in Tids, JoinReturns(t) PROVE Delivery'
  <2>1. target[t].slot \in Slots /\ target[t].tid \in Tids
    BY DEF TypeOK
  <2>2. pc[t] = "join" /\ Entitled(target[t].slot, target[t].tid)
    BY <1>3 DEF JoinReturns, Joiners, Entitlement, Single
  <2>3. Collects(target[t].slot, target[t].tid)
    BY <1>3 DEF JoinReturns, Collects, Collect, WaitIsOver
  <2>4. /\ UNCHANGED <<thread_table_initialized, home, cancelled>>
        /\ \A u \in Tids : pc'[u] \in {"run", "join"} => pc[u] \in {"run", "join"}
    BY <1>3, <2>2 DEF JoinReturns, Goto, TypeOK
  <2> QED BY <2>1, <2>2, <2>3, <2>4, DeliveryCollected
<1>4. ASSUME NEW t \in Tids, NEW c \in Slots \X Tids, Join(t, c) PROVE Delivery'
  <2>1. UNCHANGED <<thread_table_initialized, home, cancelled>>
    BY <1>4, JoinCases
  <2>2. CASE Collects(c[1], c[2]) /\ UNCHANGED <<pc, target>>
    <3>1. Entitled(c[1], c[2])
      BY <1>4, JoinCases DEF Entitlement, Single
    <3> QED BY <2>1, <2>2, <3>1, DeliveryCollected
  <2>3. CASE pc' = [pc EXCEPT ![t] = "join"] /\ UNCHANGED <<thread_table, joined>>
    <3>1. pc[t] = "run"
      BY <1>4, JoinCases
    <3>2. \A u \in Tids : User(u)' => User(u) /\ home'[u] = home[u]
      BY <2>1, <2>3, <3>1 DEF User, TypeOK
    <3>3. Undisturbed'
      BY <2>1, <2>3, <3>2, UndisturbedKept DEF Delivery
    <3> QED BY <2>1, <2>3, <3>3 DEF Delivery, JoinDelivers
  <2> QED BY <1>4, <2>2, <2>3, JoinCases
<1>5. ASSUME NEW t \in Tids, NEW c \in Slots \X Tids, Detach(t, c) PROVE Delivery'
  <2>1. UNCHANGED <<thread_table_initialized, pc, home, joined, cancelled>>
    BY <1>5 DEF Detach, control
  <2>2. \A u \in Tids : User(u)' => User(u) /\ home'[u] = home[u]
    BY <2>1 DEF User
  <2>3. /\ thread_table[c[1]].inUse
        /\ OthersKept(thread_table', c[1])
        /\ thread_table'[c[1]].inUse = ~thread_table[c[1]].finished
        /\ thread_table'[c[1]].threadID = thread_table[c[1]].threadID
        /\ thread_table'[c[1]].finished = thread_table[c[1]].finished
        /\ thread_table'[c[1]].result = thread_table[c[1]].result
    BY <1>5, Detaching DEF Detach
  <2>4. Undisturbed'
    BY <2>1, <2>2, <2>3, UndisturbedKept DEF OthersKept, Delivery
  <2> QED BY <2>1, <2>4 DEF Delivery, JoinDelivers
<1>6. ASSUME NEW t \in Tids, NEW c \in Slots \X Tids, Cancel(t, c) PROVE Delivery'
  BY <1>6 DEF Cancel, Delivery, Undisturbed, JoinDelivers
<1> QED
  BY Kinds, DeliveryStarts, DeliveryCreated, DeliveryEnds, <1>1, <1>2, <1>3, <1>4, <1>5, <1>6

-----------------------------------------------------------------------------
(* The invariant, and what follows from it *)

\* The static zeros satisfy it.
LEMMA Base == Init => IInv
<1> SUFFICES ASSUME Init PROVE IInv
  OBVIOUS
<1>1. 0 \in Tids /\ 0 \in Slots /\ Null \notin Tids /\ 0 \in 0 .. MaxKeys
  BY SizesAssumption DEF Tids, Slots, Null
<1>2. TypeOK
  <2>1. Zeroed \in Entries
    BY DEF Zeroed, Entries
  <2> QED BY <1>1, <2>1 DEF Init, TypeOK, NoTarget, NoDtor, NoKey, Main
<1>3. Untouched /\ MainStays /\ OwnIds
  BY <1>1 DEF Init, Untouched, MainStays, OwnIds, Zeroed, Main
<1>4. Single /\ SlotAccounted
  BY DEF Init, Single, Joiners, SlotAccounted, Zeroed
<1>5. Undisturbed /\ JoinDelivers
  BY DEF Init, Undisturbed, JoinDelivers, User, Zeroed
<1> QED BY <1>2, <1>3, <1>4, <1>5 DEF IInv

\* And it is an invariant of the table.
LEMMA Invariance == Spec => []IInv
<1>1. IInv /\ [Next]_vars => IInv'
  BY TypeStep, RootsStep, EntitlementStep, DeliveryStep DEF IInv, Roots, Entitlement, Delivery
<1> QED BY Base, <1>1, PTL DEF Spec

\* Every variable keeps its type: no call writes outside the table, whatever is created and freed.
THEOREM TypeCorrect == Spec => []TypeOK
<1>1. IInv => TypeOK
  BY DEF IInv
<1> QED BY <1>1, Invariance, PTL

\* Without pthread_cancel a thread is found in the slot it was created in, and is the only one
\* found there, until its start routine has returned.
THEOREM KeepsItsSlot == Spec => []SlotOwned
<1>1. ASSUME IInv PROVE SlotOwned
  <2> SUFFICES ASSUME ~cancelled, NEW t \in Tids, User(t)
               PROVE  Index(t) = home[t] /\ ~thread_table[home[t]].finished
    BY DEF SlotOwned
  <2>1. /\ home[t] \in Slots
        /\ thread_table[home[t]].inUse
        /\ thread_table[home[t]].threadID = t
        /\ ~thread_table[home[t]].finished
    BY <1>1 DEF IInv, TypeOK, Undisturbed
  <2> DEFINE found == {s \in Slots : thread_table[s].inUse /\ thread_table[s].threadID = t}
  <2>2. found = {home[t]}
    BY <1>1, <2>1 DEF IInv, OwnIds
  <2>3. Index(t) = Min(found)
    BY <2>2 DEF Index, get_thread_index
  <2>4. Min(found) = home[t]
    <3>1. found \in SUBSET Nat /\ found # {}
      BY <2>2, SizesAssumption DEF Slots
    <3> QED BY <2>2, <3>1, MinOfNaturals
  <2> QED BY <2>1, <2>3, <2>4
<1> QED BY <1>1, Invariance, PTL

\* Without pthread_cancel a join returns the result of the thread it was called for, however its
\* slot's neighbours are reused while it waits.
THEOREM JoinsDeliver == Spec => []JoinDelivers
<1>1. IInv => JoinDelivers
  BY DEF IInv
<1> QED BY <1>1, Invariance, PTL

\* A joinable thread's slot is in use exactly as long as somebody may collect from it, cancelled
\* or not.
THEOREM SlotsAccounted == Spec => []SlotAccounted
<1>1. IInv => SlotAccounted
  BY DEF IInv
<1> QED BY <1>1, Invariance, PTL

\* Only the first call and pthread_setspecific write thread-specific data.
LEMMA Writers ==
  ASSUME [Next]_vars
  PROVE  \/ UNCHANGED tls_data
         \/ init_thread_table
         \/ \E t \in Tids, k \in Keys : SetSpecific(t, k)
<1>1. ASSUME NEW t \in Tids, Return(t) \/ Exit(t) \/ DestructorReturns(t) PROVE UNCHANGED tls_data
  BY <1>1 DEF Return, Exit, End, DestructorReturns, library
<1>2. ASSUME NEW t \in Tids, NEW s \in Slots, NEW n \in Tids,
             Join(t, <<s, n>>) \/ Detach(t, <<s, n>>) \/ Cancel(t, <<s, n>>)
      PROVE  UNCHANGED tls_data
  BY <1>2 DEF Join, Detach, Cancel
<1>3. ASSUME NEW t \in Tids, CreateFails(t) \/ JoinReturns(t) \/ KeyCreate(t)
      PROVE  UNCHANGED tls_data
  BY <1>3 DEF CreateFails, JoinReturns, KeyCreate
<1>4. ASSUME NEW t \in Tids, NEW d \in BOOLEAN, Create(t, d) PROVE UNCHANGED tls_data
  BY <1>4 DEF Create
<1>5. ASSUME NEW t \in Tids, NEW k \in Keys, KeyDelete(t, k) PROVE UNCHANGED tls_data
  BY <1>5 DEF KeyDelete
<1>6. CASE UNCHANGED vars
  BY <1>6 DEF vars, library
<1> QED BY <1>1, <1>2, <1>3, <1>4, <1>5, <1>6 DEF Next

\* A thread that finds itself in the table finds its own values there: nobody else writes its row,
\* even where pthread_cancel lets a slot be reused too early.
THEOREM KeepsItsData == Spec => TlsKept
<1>1. ASSUME TypeOK, [Next]_vars, NEW t \in Tids, NEW k \in Keys, Index(t) # Null,
             tls_data'[Index(t)][k] # tls_data[Index(t)][k]
      PROVE  tls_data'[Index(t)][k] \in {t, Null}
  <2> DEFINE s == Index(t)
  <2>1. s \in Slots /\ thread_table[s].threadID = t
    BY <1>1, IndexFound DEF Index
  <2> HIDE DEF s
  <2>2. CASE init_thread_table
    <3>1. tls_data'[s][k] = Null
      BY <2>1, <2>2 DEF init_thread_table
    <3> QED BY <3>1 DEF s
  <2>3. ASSUME NEW u \in Tids, NEW j \in Keys, SetSpecific(u, j)
        PROVE  tls_data'[s][k] = tls_data[s][k] \/ tls_data'[s][k] \in {t, Null}
    <3> DEFINE r == Row(u)
    <3>1. r \in Slots /\ thread_table[r].threadID = u
      BY <2>3, IndexFound DEF SetSpecific, Row, Index
    <3>2. PICK v \in {u, Null} : tls_data' = [tls_data EXCEPT ![r][j] = v]
      BY <2>3 DEF SetSpecific
    <3> HIDE DEF r
    <3>3. CASE s = r
      <4>1. t = u
        BY <2>1, <3>1, <3>3
      <4> QED BY <1>1, <2>1, <3>2, <3>3, <4>1 DEF TypeOK
    <3>4. CASE s # r
      BY <1>1, <2>1, <3>2, <3>4 DEF TypeOK
    <3> QED BY <3>3, <3>4
  <2> QED BY <1>1, <2>2, <2>3, Writers DEF s
<1>2. TypeOK /\ [Next]_vars =>
        [\A t \in Tids, k \in Keys :
           Index(t) # Null /\ tls_data'[Index(t)][k] # tls_data[Index(t)][k]
             => tls_data'[Index(t)][k] \in {t, Null}]_vars
  BY <1>1
<1> QED BY <1>2, TypeCorrect, PTL DEF Spec, TlsKept
-----------------------------------------------------------------------------
(* Every join can come back                                                *)
(*                                                                         *)
(* The part of JoinsReturn that is not about fairness: what a join waits   *)
(* for can still happen, joins do not wait for each other in a circle, and *)
(* a wait that is over stays so until its thread gets its turn.            *)

\* A slot that is in use and not marked finished has a thread that is yet to mark it: it has not
\* ended, and the slot is the one whose address it was given.
Attended ==
  \A s \in Slots : thread_table[s].inUse /\ ~thread_table[s].finished =>
    /\ pc[thread_table[s].threadID] \in {"run", "join"}
    /\ home[thread_table[s].threadID] = s

\* A program joins only threads younger than the caller.
Downwards == \A t \in Joiners : target[t].tid > t

WaitInv == IInv /\ Attended /\ Downwards

\* Who waits, waits for a thread that runs, or joins on its part, and will mark the slot.
NoneInVain ==
  \A t \in Joiners : ~WaitIsOver(target[t].slot) =>
    /\ pc[target[t].tid] \in {"run", "join"}
    /\ home[target[t].tid] = target[t].slot

\* Of those who wait, one can go on, or is waiting for a thread that does not wait.
OneGoesOn ==
  Joiners # {} => \E t \in Joiners : WaitIsOver(target[t].slot) \/ pc[target[t].tid] = "run"

\* A join whose wait is over returns with the next step it takes, and nobody makes it wait again.
OverUntilReturned ==
  \A t \in Joiners : WaitIsOver(target[t].slot) =>
    pc'[t] = "run" \/ (pc'[t] = "join" /\ target'[t] = target[t] /\ WaitIsOver(target[t].slot)')

StaysOver == [][OverUntilReturned]_vars

\* A thread that is not found by its id is in no slot.
LEMMA NotFound ==
  ASSUME NEW table, NEW t, get_thread_index(table, t) = Null, NEW s \in Slots,
         table[s].inUse, table[s].threadID = t
  PROVE  FALSE
<1> DEFINE found == {r \in Slots : table[r].inUse /\ table[r].threadID = t}
<1>1. found # {} /\ found \in SUBSET Nat
  BY SizesAssumption DEF Slots
<1>2. get_thread_index(table, t) = Min(found)
  BY <1>1 DEF get_thread_index
<1>3. Min(found) \in found
  BY <1>1, MinOfNaturals
<1> HIDE DEF found
<1> QED BY <1>1, <1>2, <1>3 DEF Null

\* A step that adds no slot, and lets no thread end that has yet to mark one.
LEMMA AttendedKept ==
  ASSUME Attended,
         \A s \in Slots : thread_table'[s].inUse /\ ~thread_table'[s].finished =>
           /\ thread_table[s].inUse /\ ~thread_table[s].finished
           /\ thread_table'[s].threadID = thread_table[s].threadID
           /\ pc'[thread_table[s].threadID] \in {"run", "join"}
           /\ home'[thread_table[s].threadID] = home[thread_table[s].threadID]
  PROVE  Attended'
BY DEF Attended

\* A thread that ends marks the slot it is in, whether it returns, by the address it was given, or
\* exits, by its id.
LEMMA EndMarks ==
  ASSUME IInv, Attended, NEW t \in Tids, Return(t) \/ Exit(t) \/ DestructorReturns(t),
         NEW s \in Slots, thread_table'[s].inUse, ~thread_table'[s].finished
  PROVE  thread_table'[s] = thread_table[s] /\ thread_table[s].threadID # t
<1>1. ASSUME NEW r \in Slots, thread_table' = Finished(r, t)
      PROVE  s # r /\ thread_table'[s] = thread_table[s]
  <2>1. TypeOK
    BY DEF IInv
  <2>2. OthersKept(thread_table', r) /\ thread_table'[r].finished = TRUE
    BY <1>1, <2>1, Finishing
  <2>3. s # r
    BY <2>2
  <2> QED BY <2>2, <2>3 DEF OthersKept
<1>2. ASSUME thread_table'[s] = thread_table[s], thread_table[s].threadID = t
      PROVE  pc[t] \in {"run", "join"} /\ home[t] = s
  BY <1>2 DEF Attended
<1>3. CASE Return(t)
  <2>1. home[t] \in Slots /\ thread_table' = Finished(home[t], t)
    BY <1>3 DEF Return, End, IInv, TypeOK
  <2> QED BY <1>1, <1>2, <2>1
<1>4. CASE Exit(t) /\ Index(t) = Null
  <2>1. UNCHANGED thread_table
    BY <1>4 DEF Exit, library
  <2>2. thread_table[s].threadID # t
    BY <1>4, <2>1, NotFound DEF Index
  <2> QED BY <2>1, <2>2
<1>5. CASE Exit(t) /\ Index(t) # Null
  <2> DEFINE r == Index(t)
  <2>1. r \in Slots /\ thread_table[r].inUse /\ thread_table[r].threadID = t
    BY <1>5, IndexFound DEF Index
  <2>2. thread_table' = Finished(r, t)
    BY <1>5 DEF Exit, End
  <2> HIDE DEF r
  <2>3. s # r /\ thread_table'[s] = thread_table[s]
    BY <1>1, <2>1, <2>2
  <2> QED BY <2>1, <2>3 DEF IInv, OwnIds
<1>6. CASE DestructorReturns(t)
  <2>1. UNCHANGED thread_table /\ pc[t] = "dtor"
    BY <1>6 DEF DestructorReturns, library
  <2> QED BY <1>2, <2>1
<1> QED BY <1>3, <1>4, <1>5, <1>6

\* No step leaves a slot waiting for a thread that has ended.
LEMMA AttendedStep == IInv /\ Attended /\ [Next]_vars => Attended'
<1> SUFFICES ASSUME IInv, Attended, [Next]_vars PROVE Attended'
  OBVIOUS
<1>0. /\ pc \in [Tids -> {"none", "run", "join", "dtor", "dead"}] /\ home \in [Tids -> Slots]
      /\ thread_table \in [Slots -> Entries]
  BY DEF IInv, TypeOK
<1>1. ASSUME NEW s \in Slots, thread_table[s].inUse
      PROVE  thread_table[s].threadID \in Tids /\ pc[thread_table[s].threadID] # "none"
  BY <1>1 DEF IInv, OwnIds
<1>2. CASE init_thread_table
  <2>1. pc' = pc /\ home' = home
    BY <1>2 DEF init_thread_table, control
  <2>2. ASSUME NEW s \in Slots, thread_table'[s].inUse
        PROVE  s = 0 /\ thread_table'[s].threadID = Main
    BY <1>2, <2>2 DEF init_thread_table, Zeroed
  <2> QED BY <2>1, <2>2 DEF Attended, IInv, MainStays
<1>3. CASE OnlyData
  <2>1. UNCHANGED <<thread_table, pc, home>>
    BY <1>3 DEF OnlyData, control
  <2> QED BY <2>1, AttendedKept DEF Attended
<1>4. ASSUME NEW t \in Tids, NEW d \in BOOLEAN, Create(t, d) PROVE Attended'
  <2>1. PICK s \in Slots \ {0}, n \in Tids : BornIn(s, n, d)
    BY <1>4, Creating DEF IInv
  <2>2. /\ pc[n] = "none" /\ pc'[n] = "run" /\ home'[n] = s /\ thread_table'[s].threadID = n
        /\ \A u \in Tids \ {n} : pc'[u] = pc[u] /\ home'[u] = home[u]
        /\ \A r \in Slots \ {s} : thread_table'[r] = thread_table[r]
    BY <2>1 DEF BornIn, OthersKept
  <2>3. ASSUME NEW r \in Slots \ {s}, thread_table'[r].inUse, ~thread_table'[r].finished
        PROVE  /\ pc'[thread_table'[r].threadID] \in {"run", "join"}
               /\ home'[thread_table'[r].threadID] = r
    <3>1. thread_table'[r] = thread_table[r]
      BY <2>2
    <3>2. thread_table[r].threadID \in Tids \ {n}
      BY <1>1, <2>2, <2>3, <3>1
    <3> QED BY <2>2, <2>3, <3>1, <3>2 DEF Attended
  <2> QED BY <2>2, <2>3 DEF Attended
<1>5. ASSUME NEW t \in Tids, CreateFails(t) PROVE Attended'
  <2>1. PICK s \in Slots \ {0} :
           /\ thread_table' = [thread_table EXCEPT ![s] = Zeroed]
           /\ UNCHANGED <<thread_table_initialized, tls_data, tls_keys, control, program>>
    BY <1>5, FailureZeroesFreeSlot
  <2>2. pc' = pc /\ home' = home
    BY <2>1 DEF control
  <2>3. \A r \in Slots : thread_table'[r].inUse => thread_table'[r] = thread_table[r]
    BY <1>0, <2>1 DEF Zeroed
  <2> QED BY <2>2, <2>3, AttendedKept DEF Attended
<1>6. ASSUME NEW t \in Tids, Return(t) \/ Exit(t) \/ DestructorReturns(t) PROVE Attended'
  <2>1. Leaves(t)
    BY <1>6, EndLeaves DEF IInv
  <2>2. \A u \in Tids \ {t} : pc'[u] = pc[u] /\ home'[u] = home[u]
    BY <1>0, <2>1 DEF Leaves
  <2>3. ASSUME NEW s \in Slots, thread_table'[s].inUse, ~thread_table'[s].finished
        PROVE  /\ thread_table'[s] = thread_table[s]
               /\ thread_table[s].threadID \in Tids \ {t}
    BY <1>1, <1>6, <2>3, EndMarks
  <2> QED BY <2>2, <2>3, AttendedKept DEF Attended
<1>7. ASSUME NEW t \in Tids, JoinReturns(t) PROVE Attended'
  <2>1. target[t].slot \in Slots
    BY DEF IInv, TypeOK
  <2>2. /\ thread_table' = [thread_table EXCEPT ![target[t].slot].inUse = FALSE]
        /\ pc' = [pc EXCEPT ![t] = "run"] /\ home' = home
    BY <1>7 DEF JoinReturns, Collect, Goto
  <2>3. \A s \in Slots : thread_table'[s].inUse => thread_table'[s] = thread_table[s]
    BY <2>1, <2>2, Freeing DEF IInv, OthersKept
  <2>4. \A u \in Tids : pc[u] \in {"run", "join"} => pc'[u] \in {"run", "join"}
    BY <1>0, <2>2
  <2> QED BY <1>1, <2>2, <2>3, <2>4, AttendedKept DEF Attended
<1>8. ASSUME NEW t \in Tids, NEW c \in Slots \X Tids, Join(t, c) PROVE Attended'
  <2>1. /\ home' = home
        /\ \/ UNCHANGED thread_table
           \/ thread_table' = [thread_table EXCEPT ![c[1]].inUse = FALSE]
        /\ pc' = pc \/ pc' = [pc EXCEPT ![t] = "join"]
    BY <1>8, JoinCases DEF Collects
  <2>2. \A s \in Slots : thread_table'[s].inUse => thread_table'[s] = thread_table[s]
    BY <2>1, Freeing DEF IInv, OthersKept
  <2>3. \A u \in Tids : pc[u] \in {"run", "join"} => pc'[u] \in {"run", "join"}
    BY <1>0, <2>1
  <2> QED BY <1>1, <2>1, <2>2, <2>3, AttendedKept DEF Attended
<1>9. ASSUME NEW t \in Tids, NEW c \in Slots \X Tids, Detach(t, c) PROVE Attended'
  <2>1. pc' = pc /\ home' = home
    BY <1>9 DEF Detach, control
  <2>2. /\ thread_table[c[1]].inUse
        /\ OthersKept(thread_table', c[1])
        /\ thread_table'[c[1]].threadID = thread_table[c[1]].threadID
        /\ thread_table'[c[1]].finished = thread_table[c[1]].finished
    BY <1>9, Detaching DEF Detach, IInv
  <2> QED BY <2>1, <2>2, AttendedKept DEF Attended, OthersKept
<1>10. ASSUME NEW t \in Tids, NEW c \in Slots \X Tids, Cancel(t, c) PROVE Attended'
  <2>1. pc' = pc /\ home' = home /\ thread_table' = [thread_table EXCEPT ![c[1]].finished = TRUE]
    BY <1>10 DEF Cancel, control
  <2>2. \A s \in Slots : ~thread_table'[s].finished => thread_table'[s] = thread_table[s]
    BY <1>0, <2>1 DEF Entries
  <2> QED BY <2>1, <2>2, AttendedKept DEF Attended
<1> QED BY Kinds, <1>2, <1>3, <1>4, <1>5, <1>6, <1>7, <1>8, <1>9, <1>10

\* Only pthread_join makes a thread wait, and it is told to wait only for a younger one.
LEMMA DownwardsStep == IInv /\ Downwards /\ [Next]_vars => Downwards'
<1> SUFFICES ASSUME IInv, Downwards, [Next]_vars PROVE Downwards'
  OBVIOUS
<1>0. /\ pc \in [Tids -> {"none", "run", "join", "dtor", "dead"}]
      /\ target \in [Tids -> [slot : Slots, tid : Tids]]
  BY DEF IInv, TypeOK
<1>1. ASSUME UNCHANGED target, \A u \in Tids : pc'[u] = "join" => pc[u] = "join"
      PROVE  Downwards'
  BY <1>1 DEF Downwards, Joiners
<1>2. ASSUME init_thread_table \/ OnlyData PROVE Downwards'
  BY <1>1, <1>2 DEF init_thread_table, OnlyData, control
<1>3. ASSUME NEW t \in Tids, NEW d \in BOOLEAN, Create(t, d) PROVE Downwards'
  <2>1. PICK s \in Slots \ {0}, n \in Tids : BornIn(s, n, d)
    BY <1>3, Creating DEF IInv
  <2>2. UNCHANGED target /\ \A u \in Tids : pc'[u] = "join" => pc[u] = "join"
    BY <2>1 DEF BornIn
  <2> QED BY <1>1, <2>2
<1>4. ASSUME NEW t \in Tids, CreateFails(t) PROVE Downwards'
  BY <1>1, <1>4 DEF CreateFails, control
<1>5. ASSUME NEW t \in Tids, Return(t) \/ Exit(t) \/ DestructorReturns(t) PROVE Downwards'
  <2>1. Leaves(t) /\ UNCHANGED target
    BY <1>5, EndLeaves DEF IInv
  <2> QED BY <1>0, <1>1, <2>1 DEF Leaves
<1>6. ASSUME NEW t \in Tids, JoinReturns(t) PROVE Downwards'
  <2>1. pc' = [pc EXCEPT ![t] = "run"] /\ target' = [target EXCEPT ![t] = NoTarget]
    BY <1>6 DEF JoinReturns, Goto
  <2> QED BY <1>0, <2>1 DEF Downwards, Joiners
<1>7. ASSUME NEW t \in Tids, NEW c \in Slots \X Tids, Join(t, c) PROVE Downwards'
  <2>1. c[2] > t
    BY <1>7 DEF Join
  <2>2. CASE UNCHANGED <<pc, target>>
    BY <1>1, <2>2
  <2>3. CASE /\ pc' = [pc EXCEPT ![t] = "join"]
             /\ target' = [target EXCEPT ![t] = [slot |-> c[1], tid |-> c[2]]]
    BY <1>0, <2>1, <2>3 DEF Downwards, Joiners
  <2> QED BY <1>7, <2>2, <2>3, JoinCases
<1>8. ASSUME NEW t \in Tids, NEW c \in Slots \X Tids, Detach(t, c) \/ Cancel(t, c)
      PROVE  Downwards'
  BY <1>1, <1>8 DEF Detach, Cancel, control
<1> QED BY Kinds, <1>2, <1>3, <1>4, <1>5, <1>6, <1>7, <1>8

\* The slot of a wait that is over is left to that wait: it is in use, and nobody else may
\* collect from it.
LEMMA OverStep == IInv /\ [Next]_vars => OverUntilReturned
<1> SUFFICES ASSUME IInv, [Next]_vars, NEW t \in Joiners, WaitIsOver(target[t].slot)
             PROVE  \/ pc'[t] = "run"
                    \/ /\ pc'[t] = "join" /\ target'[t] = target[t]
                       /\ WaitIsOver(target[t].slot)'
  BY DEF OverUntilReturned
<1> DEFINE s == target[t].slot
<1>0. /\ pc \in [Tids -> {"none", "run", "join", "dtor", "dead"}]
      /\ target \in [Tids -> [slot : Slots, tid : Tids]]
      /\ thread_table \in [Slots -> Entries]
  BY DEF IInv, TypeOK
<1>1. t \in Tids /\ pc[t] = "join" /\ s \in Slots \ {0}
  BY <1>0 DEF Joiners, IInv, Single, Entitled
<1>2. /\ thread_table[s].inUse /\ thread_table[s].finished
      /\ \A u \in Joiners : target[u].slot = s => u = t
      /\ \A c \in claims : c[1] # s
  BY DEF IInv, Single, Entitled, WaitIsOver
<1> HIDE DEF s
<1>3. SUFFICES \/ pc'[t] = "run"
               \/ pc'[t] = "join" /\ target'[t] = target[t] /\ thread_table'[s].finished
  BY DEF WaitIsOver, s
<1>4. ASSUME init_thread_table PROVE FALSE
  BY <1>1, <1>2, <1>4 DEF init_thread_table, IInv, Untouched
<1>5. CASE OnlyData
  BY <1>1, <1>2, <1>5 DEF OnlyData, control
<1>6. ASSUME NEW u \in Tids, NEW d \in BOOLEAN, Create(u, d)
      PROVE  pc'[t] = "join" /\ target'[t] = target[t] /\ thread_table'[s].finished
  <2>1. PICK r \in Slots \ {0}, n \in Tids : BornIn(r, n, d)
    BY <1>6, Creating DEF IInv
  <2>2. r # s /\ n # t
    BY <1>1, <1>2, <2>1 DEF BornIn
  <2> QED BY <1>1, <1>2, <2>1, <2>2 DEF BornIn, OthersKept
<1>7. ASSUME NEW u \in Tids, CreateFails(u)
      PROVE  pc'[t] = "join" /\ target'[t] = target[t] /\ thread_table'[s].finished
  <2>1. PICK r \in Slots \ {0} :
           /\ ~thread_table[r].inUse
           /\ thread_table' = [thread_table EXCEPT ![r] = Zeroed]
           /\ UNCHANGED <<thread_table_initialized, tls_data, tls_keys, control, program>>
    BY <1>7, FailureZeroesFreeSlot
  <2>2. r # s /\ UNCHANGED <<pc, target>>
    BY <1>2, <2>1 DEF control
  <2> QED BY <1>0, <1>1, <1>2, <2>1, <2>2
<1>8. ASSUME NEW u \in Tids, Return(u) \/ Exit(u) \/ DestructorReturns(u)
      PROVE  pc'[t] = "join" /\ target'[t] = target[t] /\ thread_table'[s].finished
  <2>1. TypeOK /\ MainStays
    BY DEF IInv
  <2>2. /\ pc[u] \in {"run", "dtor"} /\ Leaves(u) /\ UNCHANGED target
        /\ UNCHANGED thread_table \/ \E r \in Slots : thread_table' = Finished(r, u)
    BY <1>8, <2>1, EndLeaves
  <2>3. pc'[t] = "join"
    BY <1>0, <1>1, <2>2 DEF Leaves
  <2>4. ASSUME NEW r \in Slots, thread_table' = Finished(r, u)
        PROVE  thread_table'[s].finished
    <3>1. OthersKept(thread_table', r) /\ thread_table'[r].finished = TRUE
      BY <2>1, <2>4, Finishing
    <3> QED BY <1>1, <1>2, <3>1 DEF OthersKept
  <2> QED BY <1>2, <2>2, <2>3, <2>4
<1>9. ASSUME NEW r \in Slots, r # s, thread_table' = [thread_table EXCEPT ![r].inUse = FALSE]
      PROVE  thread_table'[s].finished
  BY <1>0, <1>1, <1>2, <1>9
<1>10. ASSUME NEW u \in Tids, JoinReturns(u)
       PROVE  \/ pc'[t] = "run"
              \/ pc'[t] = "join" /\ target'[t] = target[t] /\ thread_table'[s].finished
  <2>1. /\ pc[u] = "join"
        /\ pc' = [pc EXCEPT ![u] = "run"] /\ target' = [target EXCEPT ![u] = NoTarget]
        /\ thread_table' = [thread_table EXCEPT ![target[u].slot].inUse = FALSE]
    BY <1>10 DEF JoinReturns, Goto, Collect
  <2>2. CASE u = t
    BY <1>0, <1>1, <2>1, <2>2
  <2>3. CASE u # t
    <3>1. target[u].slot \in Slots /\ target[u].slot # s
      BY <1>0, <1>2, <2>1, <2>3 DEF Joiners
    <3>2. thread_table'[s].finished
      BY <1>9, <2>1, <3>1
    <3> QED BY <1>0, <1>1, <2>1, <2>3, <3>2
  <2> QED BY <2>2, <2>3
<1>11. ASSUME NEW u \in Tids, NEW c \in Slots \X Tids, Join(u, c)
       PROVE  pc'[t] = "join" /\ target'[t] = target[t] /\ thread_table'[s].finished
  <2>1. u # t /\ c[1] \in Slots /\ c[1] # s
    BY <1>1, <1>2, <1>11, JoinCases
  <2>2. \/ thread_table' = [thread_table EXCEPT ![c[1]].inUse = FALSE] /\ UNCHANGED <<pc, target>>
        \/ /\ pc' = [pc EXCEPT ![u] = "join"]
           /\ target' = [target EXCEPT ![u] = [slot |-> c[1], tid |-> c[2]]]
           /\ UNCHANGED thread_table
    BY <1>11, JoinCases DEF Collects
  <2> QED BY <1>0, <1>1, <1>2, <1>9, <2>1, <2>2
<1>12. ASSUME NEW u \in Tids, NEW c \in Slots \X Tids, Detach(u, c)
       PROVE  pc'[t] = "join" /\ target'[t] = target[t] /\ thread_table'[s].finished
  <2>1. /\ UNCHANGED <<pc, target>> /\ c[1] # s
        /\ OthersKept(thread_table', c[1])
    BY <1>2, <1>12, Detaching DEF Detach, control, IInv
  <2> QED BY <1>1, <1>2, <2>1 DEF OthersKept
<1>13. ASSUME NEW u \in Tids, NEW c \in Slots \X Tids, Cancel(u, c)
       PROVE  pc'[t] = "join" /\ target'[t] = target[t] /\ thread_table'[s].finished
  <2>1. UNCHANGED <<pc, target>> /\ thread_table' = [thread_table EXCEPT ![c[1]].finished = TRUE]
    BY <1>13 DEF Cancel, control
  <2> QED BY <1>0, <1>1, <1>2, <2>1
<1> QED
  BY Kinds, <1>4, <1>5, <1>6, <1>7, <1>8, <1>10, <1>11, <1>12, <1>13

\* The invariant of the joins.
LEMMA WaitInvariance == Spec => []WaitInv
<1>1. Init => WaitInv
  <2>1. Init => Attended /\ Downwards
    BY DEF Init, Attended, Downwards, Joiners, Zeroed
  <2> QED BY <2>1, Base DEF WaitInv
<1>2. WaitInv /\ [Next]_vars => WaitInv'
  <2>1. IInv /\ [Next]_vars => IInv'
    BY TypeStep, RootsStep, EntitlementStep, DeliveryStep DEF IInv, Roots, Entitlement, Delivery
  <2> QED BY <2>1, AttendedStep, DownwardsStep DEF WaitInv
<1> QED BY <1>1, <1>2, PTL DEF Spec

\* A join never waits in vain: until the slot it waits for is marked, the thread that will mark it
\* has not ended, whatever was detached and cancelled and whose slots were used again.
THEOREM JoinsCanReturn == Spec => []NoneInVain
<1>1. WaitInv => NoneInVain
  <2> SUFFICES ASSUME WaitInv, NEW t \in Joiners, ~WaitIsOver(target[t].slot)
               PROVE  /\ pc[target[t].tid] \in {"run", "join"}
                      /\ home[target[t].tid] = target[t].slot
    BY DEF NoneInVain
  <2>1. target[t].slot \in Slots
    BY DEF Joiners, WaitInv, IInv, TypeOK
  <2>2. /\ thread_table[target[t].slot].inUse
        /\ thread_table[target[t].slot].threadID = target[t].tid
    BY DEF WaitInv, IInv, Single, Entitled
  <2> QED BY <2>1, <2>2 DEF WaitInv, Attended, WaitIsOver
<1> QED BY <1>1, WaitInvariance, PTL

\* And not all of them for each other: the youngest that waits either need not wait any longer, or
\* waits for a thread that runs.  It rests on the rule that a program joins only younger threads.
THEOREM NoCircle == Spec => []OneGoesOn
<1>1. WaitInv => OneGoesOn
  <2> SUFFICES ASSUME WaitInv, Joiners # {}
               PROVE  \E t \in Joiners :
                        WaitIsOver(target[t].slot) \/ pc[target[t].tid] = "run"
    BY DEF OneGoesOn
  <2> DEFINE Ages == {MaxTid - t : t \in Joiners}
  <2>1. \A t \in Joiners : t \in Tids /\ target[t].tid \in Tids /\ target[t].slot \in Slots
    BY DEF Joiners, WaitInv, IInv, TypeOK
  <2>2. Ages \in SUBSET Nat /\ Ages # {}
    BY <2>1, SizesAssumption DEF Tids
  <2>3. Min(Ages) \in Ages /\ \A a \in Ages : Min(Ages) <= a
    BY <2>2, MinOfNaturals
  <2>4. PICK t \in Joiners : \A u \in Joiners : MaxTid - t <= MaxTid - u
    BY <2>3
  <2>5. target[t].tid \notin Joiners
    <3>1. target[t].tid > t
      BY DEF WaitInv, Downwards
    <3> QED BY <2>1, <2>4, <3>1, SizesAssumption DEF Tids
  <2>6. CASE ~WaitIsOver(target[t].slot)
    <3>1. /\ thread_table[target[t].slot].inUse
          /\ thread_table[target[t].slot].threadID = target[t].tid
      BY DEF WaitInv, IInv, Single, Entitled
    <3>2. pc[target[t].tid] \in {"run", "join"}
      BY <2>1, <2>6, <3>1 DEF WaitInv, Attended, WaitIsOver
    <3> QED BY <2>1, <2>5, <3>2 DEF Joiners
  <2> QED BY <2>6
<1> QED BY <1>1, WaitInvariance, PTL

\* A wait that is over stays over until its thread has its turn: nobody else gives the slot back,
\* and no new thread gets it and clears the mark.
THEOREM WaitStaysOver == Spec => StaysOver
<1>1. IInv /\ [Next]_vars => [OverUntilReturned]_vars
  BY OverStep
<1> QED BY <1>1, Invariance, PTL DEF Spec, StaysOver
=============================================================================
