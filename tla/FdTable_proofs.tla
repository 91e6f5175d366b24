---------------------------- MODULE FdTable_proofs ----------------------------
(***************************************************************************)
(* Proofs about FdTable: the descriptors are well formed, no fork is       *)
(* leaked, posix9_cleanup closes every fork, and without dup and dup2 a    *)
(* descriptor stays at the file it was opened for.                         *)
(***************************************************************************)
EXTENDS FdTable, TLAPS

\* Before the first initialization, and after posix9_cleanup, no fork is open: init_fd_table,
\* which forgets every descriptor, then forgets none that holds a fork.
NothingToForget == ~fd_table_initialized => \A r \in RefNums : fork[r] = ClosedFork

\* The inductive invariant.
IInv == TypeOK /\ NoFileLeaked /\ NothingToForget

\* A descriptor of a program comes after the three standard ones.
LEMMA Bounds == /\ StdioFds \subseteq Fds
                /\ \A fd \in Fds : fd \notin StdioFds <=> fd \in 3 .. OpenMax - 1
BY FdAssumption DEF StdioFds, Fds

\* What init_fd_table leaves is a table, and it keeps the holders of every open fork.
LEMMA ReadyTable ==
  ASSUME IInv
  PROVE  /\ Ready \in [Fds -> Entry]
         /\ \A fd \in Fds : Ready[fd].isStdio => Ready[fd].inUse
         /\ \A r \in RefNums : fork[r] # ClosedFork =>
              \E fd \in Fds \ StdioFds : Closable(Ready, fd) /\ Ready[fd].refNum = r
BY FdAssumption DEF IInv, TypeOK, NoFileLeaked, NothingToForget, Ready, Entry, Holders

\* Freeing descriptors that are not stdio leaves a table.
LEMMA FreedTable ==
  ASSUME NEW table \in [Fds -> Entry],
         \A fd \in Fds : table[fd].isStdio => table[fd].inUse,
         NEW fds \in SUBSET Fds, \A fd \in fds : ~table[fd].isStdio
  PROVE  /\ free_fd(table, fds) \in [Fds -> Entry]
         /\ \A fd \in Fds : free_fd(table, fds)[fd].isStdio => free_fd(table, fds)[fd].inUse
BY DEF free_fd, Entry

\* So does writing one descriptor.
LEMMA WrittenTable ==
  ASSUME NEW table \in [Fds -> Entry],
         \A fd \in Fds : table[fd].isStdio => table[fd].inUse,
         NEW fd \in Fds, NEW entry \in Entry, entry.isStdio => entry.inUse
  PROVE  /\ [table EXCEPT ![fd] = entry] \in [Fds -> Entry]
         /\ \A i \in Fds : [table EXCEPT ![fd] = entry][i].isStdio
                             => [table EXCEPT ![fd] = entry][i].inUse
OBVIOUS

\* FSClose leaves every fork a fork.
LEMMA FSCloseForks ==
  ASSUME IInv, NEW refNums
  PROVE  FSClose(refNums) \in [RefNums -> Fork]
BY DEF IInv, TypeOK, FSClose, Fork, ClosedFork

\* The table that has not been made has no holder to lose.
LEMMA Initially == Init => IInv
<1> SUFFICES ASSUME Init
             PROVE  IInv
  OBVIOUS
<1>1. fd_table \in [Fds -> Entry] /\ \A fd \in Fds : ~fd_table[fd].isStdio
  BY DEF Init, Entry
<1>2. fork \in [RefNums -> Fork] /\ \A r \in RefNums : fork[r] = ClosedFork
  BY DEF Init, Fork, ClosedFork
<1> QED
  BY <1>1, <1>2 DEF Init, IInv, TypeOK, NoFileLeaked, NothingToForget

\* A step that only initializes the table.
LEMMA OnlyInitializes ==
  ASSUME IInv, init_fd_table, UNCHANGED fork,
         files' \subseteq Files
  PROVE  IInv'
BY ReadyTable DEF IInv, TypeOK, NoFileLeaked, NothingToForget, init_fd_table, Holders, Closable

\* open makes a file of the ones there may be, and no others.
LEMMA FilesStay ==
  ASSUME IInv, NEW f \in Files, NEW flags
  PROVE  FilesAfter(f, flags) \subseteq Files
BY DEF IInv, TypeOK, FilesAfter

\* open that returns a descriptor: the slot was free, so no holder is lost, and it holds r.
LEMMA OpenKeeps ==
  ASSUME IInv, NEW f \in Files, NEW flags \in OpenFlags, NEW r \in RefNums, NEW fd \in Fds,
         Open(f, flags, r, fd)
  PROVE  IInv'
<1>1. fd \in Fds \ StdioFds /\ ~Ready[fd].inUse /\ ~Ready[fd].isStdio
  BY ReadyTable DEF Open, Allocated, Free
<1>2. /\ fd_table' = [Ready EXCEPT ![fd] = [Ready[fd] EXCEPT !.inUse = TRUE, !.refNum = r]]
      /\ fd_table_initialized' = TRUE
      /\ fork' = [fork EXCEPT ![r] = [file |-> f, writing |-> "O_WRONLY" \in flags]]
  BY DEF Open
<1>3. TypeOK'
  <2> DEFINE entry == [Ready[fd] EXCEPT !.inUse = TRUE, !.refNum = r]
  <2>0. entry \in Entry /\ entry.inUse
    <3>1. Ready[fd] \in Entry
      BY ReadyTable
    <3> QED BY <3>1 DEF Entry
  <2>1. fd_table' \in [Fds -> Entry] /\ \A i \in Fds : fd_table'[i].isStdio => fd_table'[i].inUse
    <3> HIDE DEF entry
    <3>1. fd_table' = [Ready EXCEPT ![fd] = entry]
      BY <1>2 DEF entry
    <3> QED
      BY <2>0, <3>1, ReadyTable, WrittenTable
  <2>2. fork' \in [RefNums -> Fork]
    BY <1>2 DEF IInv, TypeOK, Fork
  <2> QED
    BY <1>2, <2>1, <2>2, FilesStay DEF Open, FSpOpenDF, IInv, TypeOK
<1>4. ASSUME NEW q \in RefNums, fork'[q] # ClosedFork
      PROVE  Holders(q)' # {}
  <2>1. CASE q = r
    <3>1. Closable(fd_table', fd) /\ fd_table'[fd].refNum = q
      BY <1>1, <1>2, <2>1, ReadyTable DEF Closable, Entry
    <3> QED
      BY <1>1, <3>1 DEF Holders, Closable
  <2>2. CASE q # r
    <3>1. fork[q] # ClosedFork
      BY <1>2, <1>4, <2>2 DEF IInv, TypeOK
    <3>2. PICK i \in Fds \ StdioFds : Closable(Ready, i) /\ Ready[i].refNum = q
      BY <3>1, ReadyTable
    <3>3. fd_table'[i] = Ready[i]
      BY <1>1, <1>2, <3>2, ReadyTable DEF Closable
    <3> QED
      BY <3>2, <3>3 DEF Holders, Closable
  <2> QED
    BY <2>1, <2>2
<1> QED
  BY <1>2, <1>3, <1>4 DEF IInv, NoFileLeaked, NothingToForget

\* close: the fork is closed, so those that other descriptors hold are not lost.
LEMMA CloseKeeps ==
  ASSUME IInv, NEW fd \in Fds, Close(fd)
  PROVE  IInv'
<1>1. Closable(fd_table, fd) /\ ~fd_table[fd].isStdio
  BY DEF Close, Closable
<1>2. TypeOK'
  <2>1. fd_table' \in [Fds -> Entry] /\ \A i \in Fds : fd_table'[i].isStdio => fd_table'[i].inUse
    BY <1>1, FreedTable DEF IInv, TypeOK, Close
  <2> QED
    BY <2>1, FSCloseForks DEF IInv, TypeOK, Close
<1>3. ASSUME NEW q \in RefNums, fork'[q] # ClosedFork
      PROVE  Holders(q)' # {}
  <2>1. fork[q] # ClosedFork /\ q # fd_table[fd].refNum
    BY <1>3 DEF Close, FSClose
  <2>2. PICK i \in Fds \ StdioFds : Closable(fd_table, i) /\ fd_table[i].refNum = q
    BY <2>1 DEF IInv, NoFileLeaked, Holders
  <2>3. fd_table'[i] = fd_table[i]
    BY <2>1, <2>2 DEF Close, free_fd
  <2> QED
    BY <2>2, <2>3 DEF Holders, Closable
<1>4. NothingToForget'
  BY DEF IInv, NothingToForget, Close, FSClose
<1> QED
  BY <1>2, <1>3, <1>4 DEF IInv, NoFileLeaked

\* dup takes a free slot, and a free slot holds nothing.
LEMMA DupKeeps ==
  ASSUME IInv, NEW oldfd \in Fds, NEW newfd \in Fds, Dup(oldfd, newfd)
  PROVE  IInv'
<1>1. newfd \in Fds \ StdioFds /\ ~Ready[newfd].inUse /\ ~Ready[newfd].isStdio
  BY ReadyTable DEF Dup, Allocated, Free
<1>2. fd_table' = [Ready EXCEPT ![newfd] = IF newfd = oldfd THEN [Ready[newfd] EXCEPT !.inUse = TRUE]
                                                            ELSE Ready[oldfd]]
  BY DEF Dup
<1>3. TypeOK'
  <2> DEFINE entry == IF newfd = oldfd THEN [Ready[newfd] EXCEPT !.inUse = TRUE]
                                       ELSE Ready[oldfd]
  <2>0. entry \in Entry /\ (entry.isStdio => entry.inUse)
    BY ReadyTable DEF Entry
  <2>1. fd_table' \in [Fds -> Entry] /\ \A i \in Fds : fd_table'[i].isStdio => fd_table'[i].inUse
    <3> HIDE DEF entry
    <3>1. fd_table' = [Ready EXCEPT ![newfd] = entry]
      BY <1>2 DEF entry
    <3> QED
      BY <2>0, <3>1, ReadyTable, WrittenTable
  <2> QED
    BY <2>1 DEF IInv, TypeOK, Dup
<1>4. ASSUME NEW q \in RefNums, fork'[q] # ClosedFork
      PROVE  Holders(q)' # {}
  <2>1. PICK i \in Fds \ StdioFds : Closable(Ready, i) /\ Ready[i].refNum = q
    BY <1>4, ReadyTable DEF Dup
  <2>2. fd_table'[i] = Ready[i]
    BY <1>1, <1>2, <2>1, ReadyTable DEF Closable
  <2> QED
    BY <2>1, <2>2 DEF Holders, Closable
<1> QED
  BY <1>3, <1>4 DEF IInv, NoFileLeaked, NothingToForget, Dup

\* dup2 overwrites a descriptor only after closing the fork that it held.
LEMMA Dup2Keeps ==
  ASSUME IInv, NEW oldfd \in Fds, NEW newfd \in Fds, Dup2(oldfd, newfd)
  PROVE  IInv'
<1> DEFINE closed == ClosedByDup2(newfd)
           table == free_fd(fd_table, closed)
<1>1. closed \in SUBSET Fds /\ \A fd \in closed : ~fd_table[fd].isStdio
  BY DEF ClosedByDup2, Closable
<1>2. table \in [Fds -> Entry] /\ \A i \in Fds : table[i].isStdio => table[i].inUse
  BY <1>1, FreedTable DEF IInv, TypeOK
<1>3. /\ fd_table' = [table EXCEPT ![newfd] = [table[oldfd] EXCEPT !.inUse = TRUE]]
      /\ fork' = FSClose({fd_table[fd].refNum : fd \in closed})
  BY DEF Dup2
<1>4. TypeOK'
  <2>1. fd_table' \in [Fds -> Entry] /\ \A i \in Fds : fd_table'[i].isStdio => fd_table'[i].inUse
    <3> HIDE DEF table
    <3> QED
      BY <1>2, <1>3 DEF Entry
  <2> QED
    BY <1>3, <2>1, FSCloseForks DEF IInv, TypeOK, Dup2
<1>5. ASSUME NEW q \in RefNums, fork'[q] # ClosedFork
      PROVE  Holders(q)' # {}
  <2>1. fork[q] # ClosedFork /\ \A fd \in closed : fd_table[fd].refNum # q
    BY <1>3, <1>5 DEF FSClose
  <2>2. PICK i \in Fds \ StdioFds : Closable(fd_table, i) /\ fd_table[i].refNum = q
    BY <2>1 DEF IInv, NoFileLeaked, Holders
  <2>3. i # newfd
    BY <2>1, <2>2 DEF ClosedByDup2
  <2>4. fd_table'[i] = fd_table[i]
    BY <1>2, <1>3, <2>2, <2>3 DEF free_fd, ClosedByDup2
  <2> QED
    BY <2>2, <2>4 DEF Holders, Closable
<1>6. NothingToForget'
  BY <1>3 DEF IInv, NothingToForget, Dup2, FSClose
<1> QED
  BY <1>4, <1>5, <1>6 DEF IInv, NoFileLeaked

\* The holders of every open fork are among the descriptors that posix9_cleanup closes.
LEMMA CleanupReleasesAll ==
  ASSUME IInv, Cleanup
  PROVE  \A r \in RefNums : fork'[r] = ClosedFork
<1> SUFFICES ASSUME NEW r \in RefNums, fork[r] # ClosedFork
             PROVE  fork'[r] = ClosedFork
  BY DEF Cleanup, FSClose
<1>1. PICK fd \in Fds \ StdioFds : Closable(fd_table, fd) /\ fd_table[fd].refNum = r
  BY DEF IInv, NoFileLeaked, Holders
<1>2. fd \in ClosedByCleanup
  BY <1>1, Bounds DEF ClosedByCleanup
<1> QED
  BY <1>1, <1>2 DEF Cleanup, FSClose

\* The cleanup at exit frees what it closes.
LEMMA CleanupKeeps ==
  ASSUME IInv, Cleanup
  PROVE  IInv'
<1>1. ClosedByCleanup \in SUBSET Fds /\ \A fd \in ClosedByCleanup : ~fd_table[fd].isStdio
  BY FdAssumption DEF ClosedByCleanup, Closable, Fds
<1>2. fd_table' \in [Fds -> Entry] /\ \A i \in Fds : fd_table'[i].isStdio => fd_table'[i].inUse
  BY <1>1, FreedTable DEF IInv, TypeOK, Cleanup
<1>3. TypeOK'
  BY <1>2, FSCloseForks DEF IInv, TypeOK, Cleanup
<1> QED
  BY <1>3, CleanupReleasesAll DEF IInv, NoFileLeaked, NothingToForget

\* Every call keeps the invariant.
LEMMA NextKeeps == IInv /\ [Next]_vars => IInv'
<1> SUFFICES ASSUME IInv, [Next]_vars
             PROVE  IInv'
  OBVIOUS
<1>1. CASE Cleanup
  BY <1>1, CleanupKeeps
<1>2. CASE Initialize
  BY <1>2, OnlyInitializes DEF Initialize, IInv, TypeOK
<1>3. ASSUME NEW f \in Files, OpenNotFound(f)
      PROVE  IInv'
  BY <1>3, OnlyInitializes DEF OpenNotFound, IInv, TypeOK
<1>4. ASSUME NEW f \in Files, Unlink(f)
      PROVE  IInv'
  BY <1>4 DEF Unlink, IInv, TypeOK, NoFileLeaked, NothingToForget, Holders, Closable
<1>5. ASSUME NEW f \in Files, NEW flags \in OpenFlags, OpenExcluded(f, flags)
      PROVE  IInv'
  BY <1>5, OnlyInitializes, FilesStay DEF OpenExcluded
<1>6. ASSUME NEW f \in Files, NEW flags \in OpenFlags, OpenRefused(f, flags)
      PROVE  IInv'
  BY <1>6, OnlyInitializes, FilesStay DEF OpenRefused
<1>7. ASSUME NEW f \in Files, NEW flags \in OpenFlags, NEW r \in RefNums, OpenNoSlot(f, flags, r)
      PROVE  IInv'
  BY <1>7, OnlyInitializes, FilesStay DEF OpenNoSlot, FSpOpenDF
<1>8. ASSUME NEW fd \in Fds, DupNoSlot(fd)
      PROVE  IInv'
  BY <1>8, OnlyInitializes DEF DupNoSlot, IInv, TypeOK
<1>9. CASE UNCHANGED vars
  BY <1>9 DEF vars, IInv, TypeOK, NoFileLeaked, NothingToForget, Holders, Closable
<1> QED
  BY <1>1, <1>2, <1>3, <1>4, <1>5, <1>6, <1>7, <1>8, <1>9, OpenKeeps, CloseKeeps, DupKeeps, Dup2Keeps
  DEF Next

\* The invariant holds in every state.
THEOREM Invariance == Spec => []IInv
BY Initially, NextKeeps, PTL DEF Spec

\* The table, the forks and the files are what their types say, and no free slot is stdio, so
\* that open never hands out a descriptor which close would ignore.
THEOREM TypeCorrect == Spec => []TypeOK
BY Invariance, PTL DEF IInv

\* A fork that is open always has a descriptor above stdio, for any number of slots and forks.
THEOREM NoLeak == Spec => []NoFileLeaked
BY Invariance, PTL DEF IInv

\* posix9_cleanup leaves no fork open, whatever dup and dup2 did to the table before.
THEOREM CleanupReleases == Spec => CleanupClosesAll
<1>1. IInv /\ [Next]_vars =>
        [fd_table_initialized /\ ~fd_table_initialized'
           => \A r \in RefNums : fork'[r] = ClosedFork]_vars
  BY NextKeeps DEF IInv, NothingToForget
<1> QED
  BY <1>1, Invariance, PTL DEF Spec, CleanupClosesAll
-----------------------------------------------------------------------------
(* Programs that do not duplicate.  A dup makes two descriptors of one     *)
(* fork, a close of either closes it, and the other's number may by then   *)
(* be another file's.  That is the only way a descriptor comes to be at a  *)
(* file it was not opened for.                                             *)

\* Every call except dup and dup2.
NoDupNext ==
  \/ Cleanup
  \/ Initialize
  \/ \E f \in Files : OpenNotFound(f) \/ Unlink(f)
  \/ \E f \in Files, flags \in OpenFlags :
       \/ OpenExcluded(f, flags)
       \/ OpenRefused(f, flags)
       \/ \E r \in RefNums : \/ OpenNoSlot(f, flags, r)
                             \/ \E fd \in Fds : Open(f, flags, r, fd)
  \/ \E fd \in Fds : Close(fd)

NoDupSpec == Init /\ [][NoDupNext]_vars

\* A descriptor that close would close has a fork that is open, and has it alone.
OwnFork ==
  \A fd \in Fds : Closable(fd_table, fd) =>
    /\ fd_table[fd].refNum \in RefNums
    /\ fork[fd_table[fd].refNum] # ClosedFork
    /\ \A i \in Fds : Closable(fd_table, i) /\ fd_table[i].refNum = fd_table[fd].refNum => i = fd

\* A descriptor that stays in use stays with its fork, and the fork at its file, for reading or
\* for writing, as it was.
FileKeptStep ==
  \A fd \in Fds : Closable(fd_table, fd) /\ Closable(fd_table', fd) =>
    /\ fd_table'[fd].refNum = fd_table[fd].refNum
    /\ fork'[fd_table[fd].refNum] = fork[fd_table[fd].refNum]

FileKept == [][FileKeptStep]_vars

\* The inductive invariant: that an initialization forgets nothing, and that no leftover
\* descriptor names a fork that was opened later, each rests on the other.
Single == IInv /\ OwnFork

\* Calls without dup are calls.
LEMMA NoDupIsNext == NoDupNext => Next
BY DEF NoDupNext, Next

\* What init_fd_table leaves has the descriptors of programs as they were.
LEMMA ReadySame ==
  ASSUME Single, NEW fd \in Fds
  PROVE  /\ Closable(Ready, fd) <=> Closable(fd_table, fd)
         /\ Closable(Ready, fd) => Ready[fd] = fd_table[fd]
BY DEF Single, IInv, NothingToForget, OwnFork, Ready, Closable

\* A step that frees descriptors together with their forks, and changes no others.
LEMMA FreeingKeeps ==
  ASSUME Single, NEW fds \in SUBSET Fds, \A fd \in fds : Closable(fd_table, fd),
         fd_table' = free_fd(fd_table, fds),
         fork' = FSClose({fd_table[fd].refNum : fd \in fds})
  PROVE  /\ \A fd \in Fds : Closable(fd_table', fd) =>
              /\ Closable(fd_table, fd)
              /\ fd_table'[fd] = fd_table[fd]
              /\ fork'[fd_table[fd].refNum] = fork[fd_table[fd].refNum]
         /\ OwnFork'
<1>1. ASSUME NEW fd \in Fds, Closable(fd_table', fd)
      PROVE  /\ Closable(fd_table, fd)
             /\ fd_table'[fd] = fd_table[fd]
             /\ fork'[fd_table[fd].refNum] = fork[fd_table[fd].refNum]
  <2>1. fd \notin fds
    <3> SUFFICES ASSUME fd \in fds
                 PROVE  FALSE
      OBVIOUS
    <3>1. fd_table'[fd].inUse = FALSE
      BY DEF free_fd, Single, IInv, TypeOK, Entry
    <3> QED
      BY <1>1, <3>1 DEF Closable
  <2>2. fd_table'[fd] = fd_table[fd] /\ Closable(fd_table, fd)
    BY <1>1, <2>1 DEF free_fd, Closable
  <2>3. /\ fd_table[fd].refNum \in RefNums
        /\ fd_table[fd].refNum \notin {fd_table[i].refNum : i \in fds}
    BY <2>1, <2>2 DEF Single, OwnFork
  <2> QED
    BY <2>2, <2>3 DEF FSClose
<1>2. OwnFork'
  <2> SUFFICES ASSUME NEW fd \in Fds, Closable(fd_table', fd)
               PROVE  /\ fd_table'[fd].refNum \in RefNums
                      /\ fork'[fd_table'[fd].refNum] # ClosedFork
                      /\ \A i \in Fds : /\ Closable(fd_table', i)
                                        /\ fd_table'[i].refNum = fd_table'[fd].refNum
                                        => i = fd
    BY DEF OwnFork, Closable
  <2>1. /\ Closable(fd_table, fd)
        /\ fd_table'[fd] = fd_table[fd]
        /\ fork'[fd_table[fd].refNum] = fork[fd_table[fd].refNum]
    BY <1>1
  <2>2. fd_table[fd].refNum \in RefNums /\ fork[fd_table[fd].refNum] # ClosedFork
    BY <2>1 DEF Single, OwnFork
  <2>3. ASSUME NEW i \in Fds, Closable(fd_table', i), fd_table'[i].refNum = fd_table'[fd].refNum
        PROVE  i = fd
    <3>1. Closable(fd_table, i) /\ fd_table'[i] = fd_table[i]
      BY <1>1, <2>3
    <3>2. fd_table[i].refNum = fd_table[fd].refNum
      BY <2>1, <2>3, <3>1
    <3> QED
      BY <2>1, <3>1, <3>2 DEF Single, OwnFork
  <2> QED
    BY <2>1, <2>2, <2>3
<1> QED
  BY <1>1, <1>2

\* close frees one descriptor and the fork that it has alone.
LEMMA CloseSingle ==
  ASSUME Single, NEW fd \in Fds, Close(fd)
  PROVE  Single' /\ FileKeptStep
<1>1. fork' = FSClose({fd_table[i].refNum : i \in {fd}})
  BY DEF Close
<1>2. Closable(fd_table, fd) /\ fd_table' = free_fd(fd_table, {fd})
  BY DEF Close
<1> QED
  BY <1>1, <1>2, FreeingKeeps, CloseKeeps DEF Single, FileKeptStep

\* The cleanup frees them all.
LEMMA CleanupSingle ==
  ASSUME Single, Cleanup
  PROVE  Single' /\ FileKeptStep
<1>1. ClosedByCleanup \in SUBSET Fds /\ \A fd \in ClosedByCleanup : Closable(fd_table, fd)
  BY FdAssumption DEF ClosedByCleanup, Fds
<1> QED
  BY <1>1, FreeingKeeps, CleanupKeeps DEF Single, FileKeptStep, Cleanup

\* open takes a free slot and a fork that was closed: no descriptor names it yet.
LEMMA OpenSingle ==
  ASSUME Single, NEW f \in Files, NEW flags \in OpenFlags, NEW r \in RefNums, NEW fd \in Fds,
         Open(f, flags, r, fd)
  PROVE  Single' /\ FileKeptStep
<1>1. ~Closable(fd_table, fd) /\ fork[r] = ClosedFork
  BY ReadySame DEF Open, Allocated, Free, FSpOpenDF, Closable
<1>2. /\ fork' = [fork EXCEPT ![r] = [file |-> f, writing |-> "O_WRONLY" \in flags]]
      /\ fd_table'[fd].refNum = r
  BY ReadyTable DEF Open, Single, Entry
<1>3. ASSUME NEW i \in Fds, i # fd
      PROVE  /\ Closable(fd_table', i) <=> Closable(fd_table, i)
             /\ Closable(fd_table', i) => fd_table'[i] = fd_table[i]
  <2>1. fd_table'[i] = Ready[i]
    BY <1>3, ReadyTable DEF Open, Single
  <2> QED
    BY <2>1, ReadySame DEF Closable
<1>4. fork'[r] # ClosedFork /\ \A q \in RefNums : q # r => fork'[q] = fork[q]
  BY <1>2, FdAssumption DEF ClosedFork, Single, IInv, TypeOK
<1>5. ASSUME NEW i \in Fds, i # fd, Closable(fd_table, i)
      PROVE  fd_table[i].refNum \in RefNums /\ fd_table[i].refNum # r
  BY <1>1, <1>5 DEF Single, OwnFork
<1>6. OwnFork'
  <2> SUFFICES ASSUME NEW i \in Fds, Closable(fd_table', i)
               PROVE  /\ fd_table'[i].refNum \in RefNums
                      /\ fork'[fd_table'[i].refNum] # ClosedFork
                      /\ \A j \in Fds : /\ Closable(fd_table', j)
                                        /\ fd_table'[j].refNum = fd_table'[i].refNum
                                        => j = i
    BY DEF OwnFork, Closable
  <2>1. CASE i = fd
    BY <1>2, <1>3, <1>4, <1>5, <2>1
  <2>2. CASE i # fd
    <3>1. /\ Closable(fd_table, i)
          /\ fd_table'[i] = fd_table[i]
          /\ fd_table[i].refNum \in RefNums \ {r}
      BY <1>3, <1>5, <2>2
    <3>2. fork'[fd_table'[i].refNum] # ClosedFork
      BY <1>4, <3>1 DEF Single, OwnFork
    <3>3. ASSUME NEW j \in Fds, Closable(fd_table', j), fd_table'[j].refNum = fd_table'[i].refNum
          PROVE  j = i
      BY <1>2, <1>3, <3>1, <3>3 DEF Single, OwnFork
    <3> QED
      BY <3>1, <3>2, <3>3
  <2> QED
    BY <2>1, <2>2
<1>7. FileKeptStep
  BY <1>1, <1>3, <1>4, <1>5 DEF FileKeptStep
<1> QED
  BY <1>6, <1>7, OpenKeeps DEF Single

\* A step that leaves the descriptors of programs and the forks alone.
LEMMA AloneSingle ==
  ASSUME Single, IInv', UNCHANGED fork,
         \A fd \in Fds : /\ Closable(fd_table', fd) <=> Closable(fd_table, fd)
                         /\ Closable(fd_table', fd) => fd_table'[fd] = fd_table[fd]
  PROVE  Single' /\ FileKeptStep
<1>1. FileKeptStep
  BY DEF FileKeptStep
<1>2. OwnFork'
  <2> SUFFICES ASSUME NEW i \in Fds, Closable(fd_table', i)
               PROVE  /\ fd_table'[i].refNum \in RefNums
                      /\ fork'[fd_table'[i].refNum] # ClosedFork
                      /\ \A j \in Fds : /\ Closable(fd_table', j)
                                        /\ fd_table'[j].refNum = fd_table'[i].refNum
                                        => j = i
    BY DEF OwnFork, Closable
  <2> QED
    BY DEF Single, OwnFork
<1> QED
  BY <1>1, <1>2 DEF Single

\* So does one that only initializes the table.
LEMMA InitSingle ==
  ASSUME Single, IInv', init_fd_table, UNCHANGED fork
  PROVE  Single' /\ FileKeptStep
<1>1. ASSUME NEW fd \in Fds
      PROVE  /\ Closable(fd_table', fd) <=> Closable(fd_table, fd)
             /\ Closable(fd_table', fd) => fd_table'[fd] = fd_table[fd]
  BY ReadySame DEF init_fd_table, Closable
<1> QED
  BY <1>1, AloneSingle

\* Every call but dup and dup2 keeps the invariant and every descriptor's file.
LEMMA SingleStep == Single /\ [NoDupNext]_vars => Single' /\ FileKeptStep
<1> SUFFICES ASSUME Single, [NoDupNext]_vars
             PROVE  Single' /\ FileKeptStep
  OBVIOUS
<1>0. IInv'
  BY NoDupIsNext, NextKeeps DEF Single
<1>1. CASE Cleanup
  BY <1>1, CleanupSingle
<1>2. CASE Initialize
  BY <1>0, <1>2, InitSingle DEF Initialize
<1>3. ASSUME NEW f \in Files, OpenNotFound(f)
      PROVE  Single' /\ FileKeptStep
  BY <1>0, <1>3, InitSingle DEF OpenNotFound
<1>4. ASSUME NEW f \in Files, Unlink(f)
      PROVE  Single' /\ FileKeptStep
  BY <1>0, <1>4, AloneSingle DEF Unlink, Closable
<1>5. ASSUME NEW f \in Files, NEW flags \in OpenFlags,
             \/ OpenExcluded(f, flags)
             \/ OpenRefused(f, flags)
             \/ \E r \in RefNums : OpenNoSlot(f, flags, r)
      PROVE  Single' /\ FileKeptStep
  BY <1>0, <1>5, InitSingle DEF OpenExcluded, OpenRefused, OpenNoSlot
<1>6. CASE UNCHANGED vars
  BY <1>0, <1>6, AloneSingle DEF vars, Closable
<1> QED
  BY <1>1, <1>2, <1>3, <1>4, <1>5, <1>6, OpenSingle, CloseSingle DEF NoDupNext

\* As long as a program does not duplicate, a descriptor is at the file it was opened for, with
\* the mode it was opened in, until it is closed: no other open, close or unlink, no failing
\* call and no initialization moves it to another's.  With dup or dup2 that is not so.
THEOREM StaysAtItsFile == NoDupSpec => FileKept
<1>1. Init => Single
  BY Initially DEF Init, Single, OwnFork, Closable
<1>2. FileKeptStep => [FileKeptStep]_vars
  OBVIOUS
<1> QED
  BY <1>1, <1>2, SingleStep, PTL DEF NoDupSpec, FileKept

\* And it shares no fork, so that its close closes no other descriptor's.
THEOREM ForksAreOwn == NoDupSpec => []OwnFork
<1>1. Init => Single
  BY Initially DEF Init, Single, OwnFork, Closable
<1>2. Single => OwnFork
  BY DEF Single
<1> QED
  BY <1>1, <1>2, SingleStep, PTL DEF NoDupSpec
===============================================================================
