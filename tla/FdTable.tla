------------------------------- MODULE FdTable -------------------------------
(***************************************************************************)
(* The descriptor table of src/src/posix9_file.c over the forks that the   *)
(* File Manager has open: open, close, dup, dup2, posix9_cleanup.  What a  *)
(* file holds, and where in it a fork's mark is, is left out: read, write, *)
(* lseek, ftruncate, fsync and fstat change neither table nor forks.       *)
(* No call yields, so each is one action.                                  *)
(***************************************************************************)
EXTENDS Integers

CONSTANTS OpenMax,  \* POSIX9_OPEN_MAX
          Files,    \* the files that programs name
          RefNums,  \* the File Manager's numbers for open forks
          NoFile    \* not a file: the fork is not open

ASSUME FdAssumption == /\ OpenMax \in Nat /\ OpenMax > 3
                       /\ RefNums \subseteq Nat \ {0}
                       /\ NoFile \notin Files

VARIABLES fd_table,              \* per descriptor
          fd_table_initialized,
          fork,                  \* per refNum: the file, and whether it is open for writing
          files                  \* the files that exist

vars == <<fd_table, fd_table_initialized, fork, files>>

Fds == 0 .. OpenMax - 1
StdioFds == 0 .. 2
Entry == [inUse : BOOLEAN, isStdio : BOOLEAN, refNum : RefNums \cup {0}]
Fork == [file : Files \cup {NoFile}, writing : BOOLEAN]
ClosedFork == [file |-> NoFile, writing |-> FALSE]
OpenFlags == SUBSET {"O_WRONLY", "O_CREAT", "O_EXCL"}

\* A slot out of use does not count as stdio: open does not set isStdio, and close leaves a
\* descriptor alone that has it.
TypeOK == /\ fd_table \in [Fds -> Entry]
          /\ fd_table_initialized \in BOOLEAN
          /\ fork \in [RefNums -> Fork]
          /\ files \subseteq Files
          /\ \A fd \in Fds : fd_table[fd].isStdio => fd_table[fd].inUse

Init == /\ fd_table = [fd \in Fds |-> [inUse |-> FALSE, isStdio |-> FALSE, refNum |-> 0]]
        /\ fd_table_initialized = FALSE
        /\ fork = [r \in RefNums |-> ClosedFork]
        /\ files \in SUBSET Files

-----------------------------------------------------------------------------
(* Helpers *)

\* The table as init_fd_table leaves it.
Ready ==
  IF fd_table_initialized
    THEN fd_table
    ELSE [fd \in Fds |-> [inUse |-> fd \in StdioFds, isStdio |-> fd \in StdioFds, refNum |-> 0]]

init_fd_table == fd_table' = Ready /\ fd_table_initialized' = TRUE

\* alloc_fd takes the lowest free slot above the three of stdio.
Free(table) == {fd \in Fds \ StdioFds : ~table[fd].inUse}
Allocated(table, fd) == fd \in Free(table) /\ \A i \in Free(table) : fd <= i

FSClose(refNums) == [r \in RefNums |-> IF r \in refNums THEN ClosedFork ELSE fork[r]]

\* A mutant of Closable below: stdio is closed like any other descriptor.
ClosableAny(table, fd) == table[fd].inUse

Closable(table, fd) == table[fd].inUse /\ ~table[fd].isStdio

free_fd(table, fds) ==
  [fd \in Fds |-> IF fd \in fds THEN [table[fd] EXCEPT !.inUse = FALSE, !.refNum = 0]
                                ELSE table[fd]]

-----------------------------------------------------------------------------
(* open *)

\* FSpCreate has made the file, if it was asked to.
Created(f, flags) == f \notin files /\ "O_CREAT" \in flags
FilesAfter(f, flags) == IF Created(f, flags) THEN files \cup {f} ELSE files

\* There is no such file, and without O_CREAT, or because FSpCreate fails, there will be none.
OpenNotFound(f) ==
  /\ f \notin files
  /\ init_fd_table
  /\ UNCHANGED <<fork, files>>

\* The test for O_EXCL comes after the creation, and sees the new file.
Excluded(flags) == {"O_CREAT", "O_EXCL"} \subseteq flags

OpenExcluded(f, flags) ==
  /\ Excluded(flags)
  /\ files' = FilesAfter(f, flags)
  /\ init_fd_table
  /\ UNCHANGED fork

\* The file is there, as FSpOpenDF wants it.
Openable(f, flags) == ~Excluded(flags) /\ f \in FilesAfter(f, flags)

\* FSpOpenDF refuses a second writer, or has no fork left.
OpenRefused(f, flags) ==
  /\ Openable(f, flags)
  /\ \/ /\ "O_WRONLY" \in flags
        /\ \E r \in RefNums : fork[r] = [file |-> f, writing |-> TRUE]
     \/ \A r \in RefNums : fork[r] # ClosedFork
  /\ files' = FilesAfter(f, flags)
  /\ init_fd_table
  /\ UNCHANGED fork

\* FSpOpenDF opens the fork r.
FSpOpenDF(f, flags, r) ==
  /\ Openable(f, flags)
  /\ fork[r] = ClosedFork
  /\ "O_WRONLY" \in flags => \A q \in RefNums : fork[q] # [file |-> f, writing |-> TRUE]
  /\ files' = FilesAfter(f, flags)

\* alloc_fd finds no slot; open closes the fork again.
OpenNoSlot(f, flags, r) ==
  /\ FSpOpenDF(f, flags, r)
  /\ Free(Ready) = {}
  /\ init_fd_table
  /\ UNCHANGED fork

Open(f, flags, r, fd) ==
  /\ FSpOpenDF(f, flags, r)
  /\ Allocated(Ready, fd)
  /\ fd_table' = [Ready EXCEPT ![fd] = [@ EXCEPT !.inUse = TRUE, !.refNum = r]]
  /\ fork' = [fork EXCEPT ![r] = [file |-> f, writing |-> "O_WRONLY" \in flags]]
  /\ fd_table_initialized' = TRUE

-----------------------------------------------------------------------------
(* close, dup, dup2, posix9_cleanup *)

\* The slot is freed whether FSClose knows the refNum or not.
Close(fd) == /\ Closable(fd_table, fd)
             /\ fork' = FSClose({fd_table[fd].refNum})
             /\ fd_table' = free_fd(fd_table, {fd})
             /\ UNCHANGED <<fd_table_initialized, files>>

\* The whole entry is copied, so both descriptors name one fork, and closing either closes it.
\* alloc_fd may initialize the table that oldfd was found in.
Dup(oldfd, newfd) == /\ fd_table[oldfd].inUse
                     /\ Allocated(Ready, newfd)
                     /\ fd_table' = [Ready EXCEPT ![newfd] =
                                       IF newfd = oldfd THEN [@ EXCEPT !.inUse = TRUE]
                                                        ELSE Ready[oldfd]]
                     /\ fd_table_initialized' = TRUE
                     /\ UNCHANGED <<fork, files>>

DupNoSlot(oldfd) == /\ fd_table[oldfd].inUse
                    /\ Free(Ready) = {}
                    /\ init_fd_table
                    /\ UNCHANGED <<fork, files>>

\* A mutant of ClosedByDup2 below: newfd is overwritten without being closed.
ClosedByDup2Nothing(newfd) == {}

ClosedByDup2(newfd) == IF Closable(fd_table, newfd) THEN {newfd} ELSE {}

\* With oldfd = newfd the entry that is copied is the one that has just been closed.
Dup2(oldfd, newfd) ==
  /\ fd_table[oldfd].inUse
  /\ fork' = FSClose({fd_table[fd].refNum : fd \in ClosedByDup2(newfd)})
  /\ LET table == free_fd(fd_table, ClosedByDup2(newfd))
     IN  fd_table' = [table EXCEPT ![newfd] = [table[oldfd] EXCEPT !.inUse = TRUE]]
  /\ UNCHANGED <<fd_table_initialized, files>>

\* A mutant of ClosedByCleanup below: the loop stops before the last slot.
ClosedByCleanupShort == {fd \in 3 .. OpenMax - 2 : Closable(fd_table, fd)}

ClosedByCleanup == {fd \in 3 .. OpenMax - 1 : Closable(fd_table, fd)}

Cleanup == /\ fork' = FSClose({fd_table[fd].refNum : fd \in ClosedByCleanup})
           /\ fd_table' = free_fd(fd_table, ClosedByCleanup)
           /\ fd_table_initialized' = FALSE
           /\ UNCHANGED files

\* posix9_init.
Initialize == /\ init_fd_table
              /\ UNCHANGED <<fork, files>>

\* unlink: FSpDelete deletes no file that has a fork open.
Unlink(f) == /\ f \in files
             /\ \A r \in RefNums : fork[r].file # f
             /\ files' = files \ {f}
             /\ UNCHANGED <<fd_table, fd_table_initialized, fork>>

Next == \/ Cleanup
        \/ Initialize
        \/ \E f \in Files : OpenNotFound(f) \/ Unlink(f)
        \/ \E f \in Files, flags \in OpenFlags :
             \/ OpenExcluded(f, flags)
             \/ OpenRefused(f, flags)
             \/ \E r \in RefNums : \/ OpenNoSlot(f, flags, r)
                                   \/ \E fd \in Fds : Open(f, flags, r, fd)
        \/ \E fd \in Fds : Close(fd) \/ DupNoSlot(fd)
        \/ \E oldfd, newfd \in Fds : Dup(oldfd, newfd) \/ Dup2(oldfd, newfd)

Spec == Init /\ [][Next]_vars

-----------------------------------------------------------------------------
(* Properties *)

Holders(r) == {fd \in Fds \ StdioFds : /\ Closable(fd_table, fd)
                                       /\ fd_table[fd].refNum = r}

\* No fork is leaked: through every order of open, dup, dup2, close and initialization, with
\* aliased and dangling descriptors, a fork that is open has a descriptor that a close, or
\* posix9_cleanup, which passes over 0 to 2, will close it by.
NoFileLeaked == \A r \in RefNums : fork[r] # ClosedFork => Holders(r) # {}

\* After posix9_cleanup no fork is open, although it passes over descriptors 0 to 2, which dup2
\* may have pointed at a file.
CleanupClosesAll ==
  [][fd_table_initialized /\ ~fd_table_initialized'
       => \A r \in RefNums : fork'[r] = ClosedFork]_vars
=============================================================================
