----------------------------- MODULE Directories -----------------------------
(***************************************************************************)
(* Directory streams and the current directory: src/src/posix9_dir.c, the  *)
(* end of src/src/posix9_path.c, and the calls of src/src/posix9_file.c    *)
(* that change the catalog.  The catalog and the default directory are the *)
(* File Manager's; what is in a file is left out.  A call that fails is    *)
(* left out: it changes nothing, or has come to init_cwd as getcwd does.   *)
(***************************************************************************)
EXTENDS Paths

CONSTANTS NameOrder,      \* the names as HFS sorts them
          MaxDirStreams,  \* MAX_DIR_STREAMS
          CallPaths,      \* the paths that programs call with
          AllPaths        \* and those that the translations are asked for

ASSUME DirectoryAssumption ==
  /\ NameOrder \in Seq(Names)
  /\ Names = {NameOrder[i] : i \in 1 .. Len(NameOrder)}
  /\ MaxDirStreams \in Nat \ {0}
  /\ CallPaths \subseteq AllPaths
  /\ \A p \in AllPaths : p.start \in {"here", "root", "volume"} /\ p.parts \in Seq(Names)

VARIABLES catalog,
          here,             \* the default directory, as HSetVol has set it: cwd_dirID
          cwd_mac,
          cwd_initialized,
          dir_pool,
          seen,             \* what a stream has returned since it was opened or rewound,
          since,            \* what has been in its directory all that time,
          changes,          \* and what has happened there to other entries
          given,            \* the last chdir was by a whole path, without dots, that still holds
          overwritten       \* init_cwd has written the volume's name over cwd_mac since then

cwd == <<here, cwd_mac, cwd_initialized, given, overwritten>>
streams == <<dir_pool, seen, since, changes>>
vars == <<catalog, cwd, streams>>

Streams == 1 .. MaxDirStreams
Stream == [inUse : BOOLEAN, dirID : Nodes \cup {Root}, index : Nat \ {0}]

\* The index stays within the entries and one past them.
TypeOK == /\ \E items \in SUBSET Nodes : catalog \in [items -> Item]
          /\ \A n \in DOMAIN catalog : IsDir(catalog, catalog[n].parent)
          /\ here \in Nodes \cup {Root}
          /\ cwd_mac \in Seq(Names \cup {":"})
          /\ cwd_initialized \in BOOLEAN /\ given \in BOOLEAN /\ overwritten \in BOOLEAN
          /\ dir_pool \in [Streams -> Stream]
          /\ \A s \in Streams : dir_pool[s].index <= Cardinality(Nodes) + 1
          /\ seen \in [Streams -> SUBSET Nodes] /\ since \in [Streams -> SUBSET Nodes]
          /\ changes \in [Streams -> SUBSET {"created", "deleted"}]

\* The program is started in the root, or in a directory there.  cwd_mac is still empty.
Init == /\ \/ catalog = <<>> /\ here = Root
           \/ \E n \in Nodes, name \in Names \ Dots :
                /\ catalog = [m \in {n} |-> [parent |-> Root, name |-> name, isDir |-> TRUE]]
                /\ here = n
        /\ cwd_mac = <<>>
        /\ cwd_initialized = FALSE
        /\ dir_pool = [s \in Streams |-> [inUse |-> FALSE, dirID |-> Root, index |-> 1]]
        /\ seen = [s \in Streams |-> {}] /\ since = [s \in Streams |-> {}]
        /\ changes = [s \in Streams |-> {}]
        /\ given = FALSE /\ overwritten = FALSE

-----------------------------------------------------------------------------
(* Helpers *)

MacPath == [p \in AllPaths |-> posix9_path_to_mac(p)]
BasicPath == [p \in AllPaths |-> path_to_fsspec_basic(p)]

\* What the two translations of a path lead to.
Full(p) == Resolve(catalog, here, MacPath[p])
Basic(p) == Resolve(catalog, here, BasicPath[p])

\* HFS gives a new item a number of its own: here, one that nothing refers to any more.
Fresh(n) == /\ n \in Nodes \ DOMAIN catalog
            /\ n # here
            /\ \A s \in Streams : n # dir_pool[s].dirID
            /\ \A m \in Nodes \ DOMAIN catalog :
                 m < n => m = here \/ \E s \in Streams : m = dir_pool[s].dirID

\* What a change in directory d means to the streams that are in it.
Changed(d, change, entry) ==
  /\ since' = [s \in Streams |-> IF dir_pool[s].dirID = d THEN since[s] \ {entry} ELSE since[s]]
  /\ changes' = [s \in Streams |-> IF dir_pool[s].inUse /\ dir_pool[s].dirID = d
                                     THEN changes[s] \cup change ELSE changes[s]]
  /\ seen' = [s \in Streams |-> IF dir_pool[s].dirID = d THEN seen[s] \ {entry} ELSE seen[s]]
  /\ UNCHANGED dir_pool

\* DirCreate and FSpCreate
Create(d, name, isDir) ==
  /\ IsDir(catalog, d)
  /\ Child(catalog, d, name) = NoNode
  /\ \E n \in Nodes :
       /\ Fresh(n)
       /\ catalog' = [m \in DOMAIN catalog \cup {n} |->
                        IF m = n THEN [parent |-> d, name |-> name, isDir |-> isDir]
                                 ELSE catalog[m]]
       /\ Changed(d, {"created"}, n)

\* FSpDelete of a file or an empty directory.
Delete(n) ==
  /\ n \in DOMAIN catalog
  /\ Children(catalog, n) = {}
  /\ catalog' = Restrict(catalog, DOMAIN catalog \ {n})
  /\ Changed(catalog[n].parent, {"deleted"}, n)

\* The path in cwd_mac leads through n.
Through(n) ==
  \E i \in 1 .. Len(cwd_mac) : Resolve(catalog, here, SubSeq(cwd_mac, 1, i)) = n

\* init_cwd gives cwd_mac the volume's name, wherever the default directory is.
Initialized == IF cwd_initialized THEN cwd_mac ELSE <<Volume>>

init_cwd == /\ cwd_mac' = Initialized
            /\ cwd_initialized' = TRUE
            /\ overwritten' = (overwritten \/ ~cwd_initialized)
            /\ UNCHANGED given

\* posix9_path_to_mac comes to init_cwd by a path that starts with "/" and names no volume.
Translate(p) ==
  IF p.start = "root" THEN init_cwd
                      ELSE UNCHANGED <<cwd_mac, cwd_initialized, given, overwritten>>

-----------------------------------------------------------------------------
(* The catalog *)

\* strrchr: the last colon, 0 if there is none.
LastSep(path) == SelectLastInSeq(path, LAMBDA token : token = ":")

\* A mutant of Mkdir below: the directory is made in the default one, whatever the path.
MkdirHere(p) ==
  LET path == MacPath[p]
      dirname == SubSeq(path, LastSep(path) + 1, Len(path))
  IN /\ Len(dirname) = 1
     /\ Create(here, dirname[1], TRUE)
     /\ Translate(p)
     /\ UNCHANGED here

\* mkdir makes, in what its Macintosh path up to the last colon leads to, what follows that.
\* FSMakeFSSpec takes an empty path for the default directory, as the code does.
Mkdir(p) ==
  LET path == MacPath[p]
      parent == Resolve(catalog, here, SubSeq(path, 1, LastSep(path) - 1))
      dirname == SubSeq(path, LastSep(path) + 1, Len(path))
  IN /\ Len(dirname) = 1
     /\ Create(parent, dirname[1], TRUE)
     /\ Translate(p)
     /\ UNCHANGED here

\* open with O_CREAT
CreateFile(p) ==
  LET path == BasicPath[p] IN
    /\ path # <<>> /\ Last(path) # ":"
    /\ Create(Resolve(catalog, here, Front(path)), Last(path), FALSE)
    /\ UNCHANGED cwd

Rmdir(p) ==
  /\ IsDir(catalog, Full(p))
  /\ Delete(Full(p))
  /\ given' = (given /\ ~Through(Full(p)))
  /\ overwritten' = (overwritten \/ (p.start = "root" /\ ~cwd_initialized))
  /\ cwd_mac' = IF p.start = "root" THEN Initialized ELSE cwd_mac
  /\ cwd_initialized' = (cwd_initialized \/ p.start = "root")
  /\ UNCHANGED here

\* FSpDelete does not ask what it deletes.
Unlink(p) ==
  /\ Delete(Basic(p))
  /\ given' = (given /\ ~Through(Basic(p)))
  /\ UNCHANGED <<here, cwd_mac, cwd_initialized, overwritten>>

\* What follows the last slash.
LastPart(p) == IF p.parts = <<>> THEN Volume ELSE Last(p.parts)

\* FSpRename gives the last part of the new path as a name: the item stays where it is.
Rename(p, new) ==
  LET n == Basic(p)
      name == LastPart(new)
  IN
    /\ n \in DOMAIN catalog
    /\ new.start = "root" => new.parts # <<>>
    /\ Child(catalog, catalog[n].parent, name) = NoNode
    /\ catalog' = [catalog EXCEPT ![n].name = name]
    /\ Changed(catalog[n].parent, {"created", "deleted"}, n)
    /\ given' = (given /\ ~Through(n))
    /\ UNCHANGED <<here, cwd_mac, cwd_initialized, overwritten>>

-----------------------------------------------------------------------------
(* Streams *)

AllocatedDir(s) == ~dir_pool[s].inUse /\ \A i \in Streams : i < s => dir_pool[i].inUse

\* The stream's history starts.
Started(s, d) ==
  /\ seen' = [seen EXCEPT ![s] = {}]
  /\ since' = [since EXCEPT ![s] = Children(catalog, d)]
  /\ changes' = [changes EXCEPT ![s] = {}]

opendir(p, s) ==
  /\ IsDir(catalog, Full(p))
  /\ AllocatedDir(s)
  /\ dir_pool' = [dir_pool EXCEPT ![s] = [inUse |-> TRUE, dirID |-> Full(p), index |-> 1]]
  /\ Started(s, Full(p))
  /\ Translate(p)
  /\ UNCHANGED <<catalog, here>>

Rank(n) == SelectInSeq(NameOrder, LAMBDA name : name = catalog[n].name)

\* Where an entry stands in its directory, as ioFDirIndex counts.
Place(n) == Cardinality({c \in Children(catalog, catalog[n].parent) : Rank(c) <= Rank(n)})

\* A mutant of readdir below: the index stays.
readdirStuck(s) ==
  /\ dir_pool[s].inUse
  /\ \E n \in Children(catalog, dir_pool[s].dirID) :
       /\ Place(n) = dir_pool[s].index
       /\ seen' = [seen EXCEPT ![s] = @ \cup {n}]
  /\ UNCHANGED <<catalog, cwd, dir_pool, since, changes>>

\* A mutant of readdir below: the index moves at the end too.
readdirPast(s) ==
  /\ dir_pool[s].inUse
  /\ dir_pool[s].index < 9
  /\ seen' = [seen EXCEPT ![s] = @ \cup {n \in Children(catalog, dir_pool[s].dirID) :
                                           Place(n) = dir_pool[s].index}]
  /\ dir_pool' = [dir_pool EXCEPT ![s].index = @ + 1]
  /\ UNCHANGED <<catalog, cwd, since, changes>>

\* The entry at the index.  At the end readdir returns NULL and changes nothing.
readdir(s) ==
  /\ dir_pool[s].inUse
  /\ \E n \in Children(catalog, dir_pool[s].dirID) :
       /\ Place(n) = dir_pool[s].index
       /\ seen' = [seen EXCEPT ![s] = @ \cup {n}]
  /\ dir_pool' = [dir_pool EXCEPT ![s].index = @ + 1]
  /\ UNCHANGED <<catalog, cwd, since, changes>>

\* A mutant of rewinddir below: the index is left alone.
rewinddirNot(s) ==
  /\ dir_pool[s].inUse
  /\ Started(s, dir_pool[s].dirID)
  /\ UNCHANGED <<catalog, cwd, dir_pool>>

rewinddir(s) ==
  /\ dir_pool[s].inUse
  /\ dir_pool' = [dir_pool EXCEPT ![s].index = 1]
  /\ Started(s, dir_pool[s].dirID)
  /\ UNCHANGED <<catalog, cwd>>

\* The rest of the slot stays (Root stands for what it then holds: nobody reads it).
closedir(s) ==
  /\ dir_pool[s].inUse
  /\ dir_pool' = [dir_pool EXCEPT ![s] = [inUse |-> FALSE, dirID |-> Root, index |-> 1]]
  /\ seen' = [seen EXCEPT ![s] = {}]
  /\ since' = [since EXCEPT ![s] = {}]
  /\ changes' = [changes EXCEPT ![s] = {}]
  /\ UNCHANGED <<catalog, cwd>>

-----------------------------------------------------------------------------
(* The current directory *)

\* A mutant of Chdir below: cwd_mac is set before the path is known to lead to a directory.
ChdirEarly(p) ==
  /\ here' = IF IsDir(catalog, Full(p)) THEN Full(p) ELSE here
  /\ cwd_mac' = MacPath[p]
  /\ cwd_initialized' = (cwd_initialized \/ p.start = "root")
  /\ given' = (~Relative(p) /\ p.parts # <<>> /\ Range(p.parts) \cap Dots = {})
  /\ overwritten' = FALSE
  /\ UNCHANGED <<catalog, streams>>

\* Without a "/" path before, cwd_initialized stays false: getcwd will write over cwd_mac.
Chdir(p) ==
  /\ IsDir(catalog, Full(p))
  /\ here' = Full(p)
  /\ cwd_mac' = MacPath[p]
  /\ cwd_initialized' = (cwd_initialized \/ p.start = "root")
  /\ given' = (~Relative(p) /\ p.parts # <<>> /\ Range(p.parts) \cap Dots = {})
  /\ overwritten' = FALSE
  /\ UNCHANGED <<catalog, streams>>

Getcwd == init_cwd /\ UNCHANGED <<catalog, here, streams>>

Call(p) == \/ Mkdir(p) \/ CreateFile(p) \/ Rmdir(p) \/ Unlink(p)
           \/ \E new \in CallPaths : Rename(p, new)
           \/ \E s \in Streams : opendir(p, s)
           \/ Chdir(p)

Next == \/ \E p \in CallPaths : Call(p)
        \/ \E s \in Streams : readdir(s) \/ rewinddir(s) \/ closedir(s)
        \/ Getcwd

Spec == Init /\ [][Next]_vars

-----------------------------------------------------------------------------
(* Properties *)

Listed(s) == Children(catalog, dir_pool[s].dirID)

\* A stream does not come to an entry again, whatever is deleted meanwhile; an entry that is
\* created, or renamed, before the index moves the others up.
NoEntryTwice ==
  \A s \in Streams :
    dir_pool[s].inUse /\ "created" \notin changes[s]
      => \A n \in Listed(s) : Place(n) >= dir_pool[s].index => n \notin seen[s]

\* A stream leaves out no entry that has been there since it was opened or rewound, whatever is
\* created meanwhile; an entry that is deleted, or renamed, before the index moves the others down.
NoEntryMissed ==
  \A s \in Streams :
    dir_pool[s].inUse /\ "deleted" \notin changes[s]
      => \A n \in since[s] : Place(n) < dir_pool[s].index => n \in seen[s]

\* The paths that posix9_path_to_mac gets right: no "." but at the start, no ".." after another or
\* after "./", none first after "/", and more than the volume.
Plain(p) ==
  /\ \A i \in 1 .. Len(p.parts) :
       /\ p.parts[i] = "." => i = 1 /\ Relative(p)
       /\ p.parts[i] = ".." => IF i = 1 THEN Relative(p) ELSE p.parts[i - 1] \notin Dots
  /\ ~Relative(p) => p.parts # <<>>

\* The Macintosh path leads to the file that POSIX means, from every current directory and
\* through every catalog.  The paths that it is wrong for are in the README.
TranslationMeans ==
  \A p \in AllPaths : Plain(p) => Full(p) = Meant(catalog, here, p)

\* open, stat, unlink and rename go by a translation of their own.  They see the files that
\* opendir, mkdir, rmdir and chdir see, if a path has no dots and does not lean on the default
\* volume.
TranslatorsAgree ==
  \A p \in AllPaths :
    p.start # "root" /\ p.parts # <<>> /\ Range(p.parts) \cap Dots = {} => Basic(p) = Full(p)

\* mkdir makes the directory that the path names: a path without dots, that does not name an
\* entry of the root from "/", for which the parent's path is wrong.
MkdirWhereNamed ==
  [][\A p \in CallPaths :
       (/\ Range(p.parts) \cap Dots = {}
        /\ p.parts # <<>> /\ (~Relative(p) => Len(p.parts) > 1)
        /\ Mkdir(p))
         => /\ Meant(catalog, here, p) = NoNode
            /\ IsDir(catalog', Meant(catalog', here, p))]_vars

\* After a chdir by a whole path, and as long as nobody renames or deletes a directory on it,
\* chdir(getcwd()) changes nothing, but in one case, in which it never does that: the chdir came
\* before any call that runs init_cwd, and such a call (getcwd itself, or another one by a path
\* from "/") has since written the volume's name over cwd_mac.
CwdAgrees ==
  given /\ cwd_initialized
    => (Resolve(catalog, here, posix9_path_to_mac(posix9_path_from_mac(cwd_mac))) = here
          <=> ~overwritten)
=============================================================================
