------------------------------- MODULE Threads -------------------------------
(***************************************************************************)
(* The thread table of src/src/posix9_thread.c: create, join, detach,      *)
(* exit, cancel and thread-specific data, over the Thread Manager, which   *)
(* gives every thread an id of its own.  Threads are cooperative: an       *)
(* action is the code between two yields.  A program yields anywhere in    *)
(* its own code, TLS destructors included; the library only in the loop    *)
(* of pthread_join.                                                        *)
(*                                                                         *)
(* A program joins or detaches each joinable thread at most once, joins    *)
(* only threads younger than the caller (so that joins never form a        *)
(* circle), uses keys that are not deleted, and main does not end.         *)
(***************************************************************************)
EXTENDS Integers, FiniteSets, FiniteSetsExt

CONSTANTS MaxThreads,  \* MAX_THREADS, the slots of the table, main's included
          MaxTid,      \* bound: thread ids 1 .. MaxTid are given out, in this order; main has 0
          MaxKeys      \* MAX_KEYS

ASSUME SizesAssumption == /\ MaxThreads \in Nat \ {0}
                          /\ MaxTid \in Nat
                          /\ MaxKeys \in Nat

Main == 0
Tids == 0 .. MaxTid
Slots == 0 .. MaxThreads - 1
Keys == 0 .. MaxKeys - 1
Null == -1      \* the NULL value, and kNoThreadID

VARIABLES
  thread_table_initialized,
  thread_table,  \* slot -> entry
  tls_data,      \* slot -> key -> value; a value is the id of the thread that stored it
  tls_keys,      \* key -> tls_key_used and tls_destructors, both
  pc,            \* thread -> "none", "run", "join", "dtor" or "dead"
  home,          \* thread -> the slot whose address thread_entry was given
  target,        \* joining thread -> the slot it waits for and the thread the program means
  dtor,          \* thread in its destructors -> the row it walks, the key, the value handed out
  claims,        \* program: the <<slot, thread>> it may still join or detach
  joined,        \* program: the <<thread, result>> its joins have returned
  cancelled      \* program: some pthread_cancel has been called

library == <<thread_table_initialized, thread_table, tls_data, tls_keys>>
control == <<pc, home, target, dtor>>
program == <<claims, joined, cancelled>>
vars == <<library, control, program>>

Zeroed == [inUse |-> FALSE, detached |-> FALSE, finished |-> FALSE,
           threadID |-> Null, result |-> Null]

Entries == [inUse : BOOLEAN, detached : BOOLEAN, finished : BOOLEAN,
            threadID : Tids \cup {Null}, result : Tids \cup {Null}]

TypeOK == /\ thread_table_initialized \in BOOLEAN
          /\ thread_table \in [Slots -> Entries]
          /\ tls_data \in [Slots -> [Keys -> Tids \cup {Null}]]
          /\ tls_keys \in [Keys -> [used : BOOLEAN, destructor : BOOLEAN]]
          /\ pc \in [Tids -> {"none", "run", "join", "dtor", "dead"}]
          /\ home \in [Tids -> Slots]
          /\ target \in [Tids -> [slot : Slots, tid : Tids]]
          /\ dtor \in [Tids -> [row : Slots, key : 0 .. MaxKeys, value : Tids \cup {Null}]]
          /\ claims \subseteq Slots \X Tids
          /\ joined \subseteq Tids \X (Tids \cup {Null})
          /\ cancelled \in BOOLEAN

NoTarget == [slot |-> 0, tid |-> Main]
NoDtor == [row |-> 0, key |-> 0, value |-> Null]
NoKey == [used |-> FALSE, destructor |-> FALSE]

\* Static storage is zero until the first call that initialises the table.
Init == /\ thread_table_initialized = FALSE
        /\ thread_table = [s \in Slots |-> Zeroed]
        /\ tls_data = [s \in Slots |-> [k \in Keys |-> Null]]
        /\ tls_keys = [k \in Keys |-> NoKey]
        /\ pc = [t \in Tids |-> IF t = Main THEN "run" ELSE "none"]
        /\ home = [t \in Tids |-> 0]
        /\ target = [t \in Tids |-> NoTarget]
        /\ dtor = [t \in Tids |-> NoDtor]
        /\ claims = {}
        /\ joined = {}
        /\ cancelled = FALSE

Runs(t) == pc[t] = "run"
Goto(t, place) == pc' = [pc EXCEPT ![t] = place]

-----------------------------------------------------------------------------
(* The table *)

\* The first slot in use that holds the thread's id; Null stands for -1.
get_thread_index(table, t) ==
  LET found == {s \in Slots : table[s].inUse /\ table[s].threadID = t}
  IN  IF found = {} THEN Null ELSE Min(found)

Index(t) == get_thread_index(thread_table, t)

\* The first call of pthread_self or pthread_create: the keys are cleared too.
init_thread_table ==
  /\ ~thread_table_initialized
  /\ Runs(Main)
  /\ thread_table_initialized' = TRUE
  /\ thread_table' = [s \in Slots |-> IF s = 0 THEN [Zeroed EXCEPT !.inUse = TRUE,
                                                                  !.threadID = Main]
                                               ELSE Zeroed]
  /\ tls_data' = [s \in Slots |-> [k \in Keys |-> Null]]
  /\ tls_keys' = [k \in Keys |-> NoKey]
  /\ UNCHANGED <<control, program>>

\* A mutant of FreeSlots below: the loop runs over the handles, which are one more than the indices.
FreeSlotsByHandle == {s \in 2 .. MaxThreads : s \notin Slots \/ ~thread_table[s].inUse}

FreeSlots == {s \in Slots \ {0} : ~thread_table[s].inUse}

\* The ids the Thread Manager has not given out.
Unborn == {n \in Tids : pc[n] = "none"}

\* Two mutants of alloc_thread below: the slot of a finished thread counts as free; the pthread_t,
\* which is one more than the index, is taken for the index.
alloc_thread_finished == {s \in Slots \ {0} : thread_table[s].finished \/ ~thread_table[s].inUse}

alloc_thread_handle == {s + 1 : s \in FreeSlots}

alloc_thread == FreeSlots

\* pthread_create takes the first free slot, zeroes it, and gives its address to the new thread.
\* The row of tls_data keeps what the slot's previous thread has stored. A full table (EAGAIN)
\* changes nothing.
Create(t, detach) ==
  /\ thread_table_initialized
  /\ Runs(t)
  /\ alloc_thread # {}
  /\ Unborn # {}
  /\ LET s == Min(alloc_thread)
         n == Min(Unborn)
     IN  /\ thread_table' = [thread_table EXCEPT ![s] =
                              [Zeroed EXCEPT !.inUse = TRUE, !.detached = detach,
                                             !.threadID = n]]
         /\ home' = [home EXCEPT ![n] = s]
         /\ Goto(n, "run")
         /\ claims' = IF detach THEN claims ELSE claims \cup {<<s, n>>}
  /\ UNCHANGED <<thread_table_initialized, tls_data, tls_keys, target, dtor, joined, cancelled>>

\* NewThread fails (no memory): the slot, zeroed, is free again. (Of a detached creation it
\* keeps the detached flag too, which the next user of the slot clears.)
CreateFails(t) ==
  /\ thread_table_initialized
  /\ Runs(t)
  /\ alloc_thread # {}
  /\ thread_table' = [thread_table EXCEPT ![Min(alloc_thread)] = Zeroed]
  /\ UNCHANGED <<thread_table_initialized, tls_data, tls_keys, control, program>>

-----------------------------------------------------------------------------
(* The end of a thread *)

\* The Thread Manager disposes of the thread and its stack.
Vanish(t) == /\ Goto(t, "dead")
             /\ home' = [home EXCEPT ![t] = 0]
             /\ dtor' = [dtor EXCEPT ![t] = NoDtor]

\* The destructor loop from key "from" on: the thread stops in the next destructor there is to
\* call, with the value it is called with, or is gone.
RunDestructors(t, row, from) ==
  LET due == {k \in Keys : /\ k >= from
                           /\ tls_keys[k].used
                           /\ tls_keys[k].destructor
                           /\ tls_data[row][k] # Null}
  IN  IF due = {}
        THEN Vanish(t)
        ELSE /\ Goto(t, "dtor")
             /\ UNCHANGED home
             /\ dtor' = [dtor EXCEPT ![t] = [row |-> row, key |-> Min(due),
                                             value |-> tls_data[row][Min(due)]]]

\* A mutant of Finished below: the flag is not set.
FinishedQuietly(s, t) == [thread_table EXCEPT ![s].result = t]

Finished(s, t) == [thread_table EXCEPT ![s].result = t, ![s].finished = TRUE]

\* The thread's result (its own id) goes to slot s; the destructors walk the given row, if any.
End(t, s, row) ==
  /\ thread_table' = Finished(s, t)
  /\ IF row = Null THEN Vanish(t) ELSE RunDestructors(t, row, 0)
  /\ UNCHANGED <<thread_table_initialized, tls_data, tls_keys, target, program>>

\* thread_entry after the start routine: the result goes to the slot the thread was created in,
\* and the row is looked up by the id that slot has then.
Return(t) ==
  /\ t # Main
  /\ Runs(t)
  /\ LET s == home[t]
     IN  End(t, s, get_thread_index(Finished(s, t), thread_table[s].threadID))

\* pthread_exit: the slot is looked up by the caller's id.
Exit(t) ==
  /\ t # Main
  /\ Runs(t)
  /\ IF Index(t) = Null
       THEN /\ Vanish(t)
            /\ UNCHANGED <<library, target, program>>
       ELSE End(t, Index(t), Index(t))

\* A destructor returns and the loop goes on with the key after it.
DestructorReturns(t) ==
  /\ pc[t] = "dtor"
  /\ RunDestructors(t, dtor[t].row, dtor[t].key + 1)
  /\ UNCHANGED <<library, target, program>>

-----------------------------------------------------------------------------
(* Join, detach, cancel *)

WaitIsOver(s) == thread_table[s].finished

\* A mutant of Collect below: the slot is not given back.
CollectKeeps(s, n) ==
  /\ joined' = joined \cup {<<n, thread_table[s].result>>}
  /\ UNCHANGED thread_table

\* What pthread_join does once the loop ends.
Collect(s, n) ==
  /\ joined' = joined \cup {<<n, thread_table[s].result>>}
  /\ thread_table' = [thread_table EXCEPT ![s].inUse = FALSE]

\* ESRCH and EINVAL change nothing. The program gives up its claim with the call.
Join(t, c) ==
  /\ Runs(t)
  /\ c \in claims
  /\ c[2] > t
  /\ claims' = claims \ {c}
  /\ thread_table[c[1]].inUse
  /\ ~thread_table[c[1]].detached
  /\ IF WaitIsOver(c[1])
       THEN Collect(c[1], c[2]) /\ UNCHANGED <<pc, target>>
       ELSE /\ Goto(t, "join")
            /\ target' = [target EXCEPT ![t] = [slot |-> c[1], tid |-> c[2]]]
            /\ UNCHANGED <<thread_table, joined>>
  /\ UNCHANGED <<thread_table_initialized, tls_data, tls_keys, home, dtor, cancelled>>

\* The turn of the loop that finds entry->finished set.
JoinReturns(t) ==
  /\ pc[t] = "join"
  /\ WaitIsOver(target[t].slot)
  /\ Collect(target[t].slot, target[t].tid)
  /\ Goto(t, "run")
  /\ target' = [target EXCEPT ![t] = NoTarget]
  /\ UNCHANGED <<thread_table_initialized, tls_data, tls_keys, home, dtor, claims, cancelled>>

\* A finished thread's slot is freed at once; a running one's is only marked.
Detach(t, c) ==
  /\ Runs(t)
  /\ c \in claims
  /\ thread_table[c[1]].inUse
  /\ claims' = claims \ {c}
  /\ thread_table' = [thread_table EXCEPT ![c[1]].detached = TRUE,
                                          ![c[1]].inUse = ~thread_table[c[1]].finished]
  /\ UNCHANGED <<thread_table_initialized, tls_data, tls_keys, control, joined, cancelled>>

\* The thread is marked finished and goes on running.
Cancel(t, c) ==
  /\ Runs(t)
  /\ c \in claims
  /\ thread_table[c[1]].inUse
  /\ thread_table' = [thread_table EXCEPT ![c[1]].finished = TRUE]
  /\ cancelled' = TRUE
  /\ UNCHANGED <<thread_table_initialized, tls_data, tls_keys, control, claims, joined>>

-----------------------------------------------------------------------------
(* Thread-specific data *)

\* The first free key. The call does not initialise the table: a key made before the table is
\* initialised is forgotten then.
KeyCreate(t) ==
  /\ Runs(t)
  /\ \E destructor \in BOOLEAN, k \in Keys :
       /\ ~tls_keys[k].used
       /\ \A j \in Keys : j < k => tls_keys[j].used
       /\ tls_keys' = [tls_keys EXCEPT ![k] = [used |-> TRUE, destructor |-> destructor]]
  /\ UNCHANGED <<thread_table_initialized, thread_table, tls_data, control, program>>

\* The values stored under the key stay in tls_data.
KeyDelete(t, k) ==
  /\ Runs(t)
  /\ tls_keys[k].used
  /\ tls_keys' = [tls_keys EXCEPT ![k] = NoKey]
  /\ UNCHANGED <<thread_table_initialized, thread_table, tls_data, control, program>>

\* A mutant of Row below: the ids are not compared, so the first slot in use is found, main's.
RowOfAnyone(t) == IF thread_table[0].inUse THEN 0 ELSE Null

\* The row of the calling thread.
Row(t) == Index(t)

\* EINVAL (an unknown caller) changes nothing.
SetSpecific(t, k) ==
  /\ Runs(t)
  /\ tls_keys[k].used
  /\ Row(t) # Null
  /\ \E v \in {t, Null} : tls_data' = [tls_data EXCEPT ![Row(t)][k] = v]
  /\ UNCHANGED <<thread_table_initialized, thread_table, tls_keys, control, program>>

-----------------------------------------------------------------------------
Next == \/ init_thread_table
        \/ \E t \in Tids :
             \/ CreateFails(t) \/ Return(t) \/ Exit(t) \/ DestructorReturns(t)
             \/ JoinReturns(t) \/ KeyCreate(t)
             \/ \E d \in BOOLEAN : Create(t, d)
             \/ \E s \in Slots, n \in Tids :
                  Join(t, <<s, n>>) \/ Detach(t, <<s, n>>) \/ Cancel(t, <<s, n>>)
             \/ \E k \in Keys : KeyDelete(t, k) \/ SetSpecific(t, k)

Spec == Init /\ [][Next]_vars

\* Threads are scheduled in turn, a started thread ends, and so do its destructors.
FairSpec == /\ Spec
            /\ \A t \in Tids : /\ WF_vars(Return(t))
                               /\ WF_vars(DestructorReturns(t))
                               /\ WF_vars(JoinReturns(t))

-----------------------------------------------------------------------------
(* Properties *)

User(t) == thread_table_initialized /\ pc[t] \in {"run", "join"}

\* Until its start routine has returned, a thread keeps the slot it was created in, is found
\* there by its id, and is the only one found there: pthread_self() and the TLS calls work on
\* the caller's own entry, whatever slots are freed and reused around it.
SlotOwned == ~cancelled => \A t \in Tids : User(t) => /\ Index(t) = home[t]
                                        /\ ~thread_table[home[t]].finished

\* A join returns the result of the thread whose handle it was given, however long it waited
\* and whatever else was created, joined and detached meanwhile.
JoinDelivers == ~cancelled => \A j \in joined : j[1] = j[2]

\* The slot of a joinable thread is neither lost nor kept: it is in use exactly as long as the
\* thread runs or somebody is still to collect its result.
SlotAccounted ==
  \A s \in Slots \ {0} :
    (thread_table[s].inUse /\ ~thread_table[s].detached) <=>
      \/ \E n \in Tids : <<s, n>> \in claims
      \/ \E t \in Tids : pc[t] = "join" /\ target[t].slot = s

\* While a thread is in the table, nobody else writes its row of thread-specific data, whoever
\* had its slot before and whatever is cancelled and reused around it.
TlsKept ==
  [][\A t \in Tids, k \in Keys :
       Index(t) # Null /\ tls_data'[Index(t)][k] # tls_data[Index(t)][k]
         => tls_data'[Index(t)][k] \in {t, Null}]_vars

\* Every join comes back once its thread has ended.
JoinsReturn == \A t \in Tids : pc[t] = "join" ~> pc[t] # "join"
=============================================================================
