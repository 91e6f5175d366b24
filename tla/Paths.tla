-------------------------------- MODULE Paths --------------------------------
(***************************************************************************)
(* The translations of src/src/posix9_path.c and src/src/posix9_file.c     *)
(* between POSIX and Macintosh paths, and what the File Manager finds by a *)
(* Macintosh path in a catalog.                                            *)
(*                                                                         *)
(* A POSIX path is where it starts and its parts: the slashes are left     *)
(* out, so an empty part or a slash at the end is too.  A Macintosh path   *)
(* is a sequence of names and colons.  There is one volume, the default    *)
(* one.  A name that two names are glued to is "garbled".                  *)
(***************************************************************************)
EXTENDS Integers, Sequences, SequencesExt

CONSTANTS Names,   \* what a part, or a file, may be called, "." and ".." among it
          Volume,  \* default_volume
          Nodes    \* the numbers of files and directories, the root's left out

Dots == {".", ".."}

ASSUME PathAssumption == /\ Dots \cup {Volume} \subseteq Names
                         /\ {":", "garbled"} \cap Names = {}
                         /\ Nodes \subseteq Nat \ {0} /\ IsFiniteSet(Nodes)

Root == 0
NoNode == -1

\* "/Volumes/" and the volume's name come before the parts of a path that starts at "volume",
\* "/" before those of one that starts at "root".
Path(start, parts) == [start |-> start, parts |-> parts]
Relative(p) == p.start = "here"

-----------------------------------------------------------------------------
(* From POSIX *)

\* A mutant of Parts below: the loop takes no notice of "..".
PartsLiteral(parts, slash) ==
  LET joined == [i \in 1 .. 2 * Len(parts) |-> IF i % 2 = 1 THEN ":" ELSE parts[i \div 2]]
  IN IF slash \/ parts = <<>> THEN joined ELSE Tail(joined)

\* The loop over the components.  A ".." is seen after a slash that the loop has come to, which
\* is none of those that are skipped: after "/", "./", "../" and another "..".
Parts(parts, slash) ==
  LET after[i \in 0 .. Len(parts)] ==
        IF i = 0 THEN [mac |-> <<>>, atSlash |-> slash]
        ELSE LET so == after[i - 1] IN
               IF so.atSlash /\ parts[i] = ".."
                 THEN [mac |-> so.mac \o <<":", ":">>, atSlash |-> FALSE]
                 ELSE [mac |-> so.mac \o (IF so.atSlash THEN <<":">> ELSE <<>>) \o <<parts[i]>>,
                       atSlash |-> TRUE]
  IN after[Len(parts)].mac

\* The colon at the end goes, unless one stands before it.
Trimmed(path) ==
  IF Len(path) > 1 /\ Last(path) = ":" /\ path[Len(path) - 1] # ":"
    THEN Front(path)
    ELSE path

posix9_path_to_mac(p) ==
  Trimmed(
    CASE p.start = "volume" -> <<Volume>> \o Parts(p.parts, TRUE)
      [] p.start = "root" -> <<Volume, ":">> \o Parts(p.parts, FALSE)
      [] Relative(p) ->
           IF p.parts = <<>> THEN <<>>
           ELSE IF p.parts[1] = "." THEN <<":">> \o Parts(Tail(p.parts), FALSE)
           ELSE IF p.parts[1] = ".." THEN <<":", ":">> \o Parts(Tail(p.parts), FALSE)
           ELSE <<":">> \o Parts(p.parts, FALSE))

\* A mutant of path_to_fsspec_basic below: a relative path is not given its colon.
BasicWithoutColon(p) ==
  LET joined == PartsLiteral(p.parts, FALSE) IN
    IF p.start = "volume" THEN <<Volume>> \o PartsLiteral(p.parts, TRUE) ELSE joined

\* The other translation: every slash is a colon, dots are names, and "/" is just dropped.
path_to_fsspec_basic(p) ==
  CASE p.start = "volume" -> <<Volume>> \o PartsLiteral(p.parts, TRUE)
    [] p.start = "root" -> PartsLiteral(p.parts, FALSE)
    [] Relative(p) -> PartsLiteral(p.parts, TRUE)

-----------------------------------------------------------------------------
(* Back to POSIX *)

\* The second loop.  "::" is written as "/..", and a name after it follows without a slash.
PartsOf(path) ==
  LET IsName(i) == i <= Len(path) /\ path[i] # ":"
      from[i \in 1 .. Len(path) + 2] ==
        IF i > Len(path) THEN <<>>
        ELSE IF IsName(i) THEN <<path[i]>> \o from[i + 1]
        ELSE IF i = Len(path) \/ IsName(i + 1) THEN from[i + 1]
        ELSE IF IsName(i + 2) THEN <<"garbled">> \o from[i + 3]
        ELSE <<"..">> \o from[i + 2]
  IN from[1]

\* The colons a relative path starts with, the first one left out.
LeadingUps(path) ==
  Cardinality({i \in 2 .. Len(path) : \A j \in 2 .. i : path[j] = ":"})

posix9_path_from_mac(path) ==
  IF path = <<>> THEN Path("here", <<>>)
  ELSE IF path[1] # ":" THEN Path("volume", PartsOf(Tail(path)))
  ELSE LET ups == LeadingUps(path) IN
         Path("here", <<".">> \o [i \in 1 .. ups |-> ".."]
                        \o PartsOf(SubSeq(path, ups + 2, Len(path))))

-----------------------------------------------------------------------------
(* The File Manager: what a Macintosh path leads to, from the default directory *)

\* A catalog is a function from the nodes there are, the root left out, to these.
Item == [parent : Nodes \cup {Root}, name : Names, isDir : BOOLEAN]

IsDir(catalog, n) == n = Root \/ (n \in DOMAIN catalog /\ catalog[n].isDir)
Children(catalog, n) == {c \in DOMAIN catalog : catalog[c].parent = n}
Child(catalog, n, name) ==
  LET found == {c \in Children(catalog, n) : catalog[c].name = name}
  IN IF found = {} THEN NoNode ELSE CHOOSE c \in found : TRUE
Parent(catalog, n) == IF n \in DOMAIN catalog THEN catalog[n].parent ELSE NoNode

\* A colon that follows a name separates; any other goes up.
Walk(catalog, start, path) ==
  LET after[i \in 0 .. Len(path)] ==
        IF i = 0 THEN start
        ELSE IF path[i] # ":" THEN Child(catalog, after[i - 1], path[i])
        ELSE IF i > 1 /\ path[i - 1] # ":" THEN after[i - 1]
        ELSE Parent(catalog, after[i - 1])
  IN after[Len(path)]

\* A path without a colon is a name in the default directory; one that starts with a name and
\* has a colon starts at a volume.
Resolve(catalog, here, path) ==
  IF path = <<>> THEN here
  ELSE IF path[1] = ":" THEN Walk(catalog, here, Tail(path))
  ELSE IF Len(path) = 1 THEN Child(catalog, here, path[1])
  ELSE IF path[1] = Volume THEN Walk(catalog, Root, SubSeq(path, 3, Len(path)))
  ELSE NoNode

-----------------------------------------------------------------------------
(* What POSIX means by a path.  Above the root there is nothing. *)

Meant(catalog, here, p) ==
  LET after[i \in 0 .. Len(p.parts)] ==
        IF i = 0 THEN (IF Relative(p) THEN here ELSE Root)
        ELSE IF p.parts[i] = "." THEN after[i - 1]
        ELSE IF p.parts[i] = ".." THEN Parent(catalog, after[i - 1])
        ELSE Child(catalog, after[i - 1], p.parts[i])
  IN after[Len(p.parts)]
=============================================================================
