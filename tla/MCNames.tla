------------------------------- MODULE MCNames -------------------------------
(***************************************************************************)
(* The instance TLC checks of directories and of the environment.  They    *)
(* share nothing: a behavior is of the paths and the catalog, or of the    *)
(* streams in one directory, or of the environment.                        *)
(***************************************************************************)
EXTENDS Directories, Environment

CONSTANTS PathNodes,     \* bound: the nodes there may be, where the paths are checked,
          AllOpenNodes   \* and how many, while every stream is in use

VARIABLE checked  \* the component whose calls are made

allVars == <<vars, environment, checked>>

A == "a"
B == "b"
Here(parts) == Path("here", parts)

MCOrder == <<".", "..", A, B, "HD">>

\* What is created, renamed and deleted while a stream is read.
FilePaths == {Here(<<A>>), Here(<<B>>), Here(<<"HD">>)}

MCCallPaths == {Here(<<A>>), Here(<<B>>), Here(<<A, B>>), Here(<<"..">>), Here(<<"..", A>>),
                Path("root", <<>>), Path("root", <<A>>),
                Path("volume", <<>>), Path("volume", <<A>>), Path("volume", <<A, B>>)}

\* With these, every path of at most two parts, dots or a name, the empty path left out.
MCAllPaths ==
  MCCallPaths \cup FilePaths
    \cup ({Path(start, parts) : start \in {"here", "root", "volume"},
                               parts \in BoundedSeq({A, ".", ".."}, 2)}
          \ {Here(<<>>)})

\* The paths of the streams' part are some that the translations are asked for.
ASSUME MCAssumption == FilePaths \cup {Here(<<".">>)} \subseteq AllPaths

MCSize(name, value) == IF value = "long" THEN 4 ELSE 3

MCDefault == <<[name |-> "HOME", value |-> "short"]>>

MCInit == /\ Init /\ EnvInit
          /\ checked \in {"paths", "streams", "environment"}
          /\ checked # "paths" => here = Root

RunPaths ==
  /\ checked = "paths"
  /\ \/ \E p \in CallPaths : \/ Mkdir(p) \/ CreateFile(p) \/ Rmdir(p) \/ Unlink(p) \/ Chdir(p)
                             \/ \E new \in CallPaths : Rename(p, new)
     \/ Getcwd
  /\ DOMAIN catalog' \subseteq PathNodes
  /\ UNCHANGED <<environment, checked>>

RunStreams ==
  /\ checked = "streams"
  /\ \/ \E p \in FilePaths : CreateFile(p) \/ Unlink(p) \/ \E new \in FilePaths : Rename(p, new)
     \/ \E s \in Streams : opendir(Here(<<".">>), s) \/ readdir(s) \/ rewinddir(s) \/ closedir(s)
  /\ (\A s \in Streams : dir_pool'[s].inUse) => Cardinality(DOMAIN catalog') <= AllOpenNodes
  /\ UNCHANGED <<environment, checked>>

RunEnvironment == checked = "environment" /\ EnvNext /\ UNCHANGED <<vars, checked>>

MCNext == RunPaths \/ RunStreams \/ RunEnvironment

MCSpec == MCInit /\ [][MCNext]_allVars

\* Every variable of the two modules keeps its type, and storage, table and index their limits.
AllTypeOK == TypeOK /\ EnvTypeOK
=============================================================================
