-------------------------------- MODULE PathTree ------------------------------
(***************************************************************************)
(* What the shell's file system promises: a tree of directories, one of    *)
(* which is the current one, and files in them.  Every command of the      *)
(* shell is one of these steps, or changes nothing.                        *)
(***************************************************************************)
EXTENDS PathState

CONSTANT MaxFiles     \* PATH_STATE_DYNAMIC_MAX_FILES

VARIABLES
  dirs,     \* the directories
  cwd,      \* the current one
  files     \* the contents of the files made by redirections

storeVars == <<dirs, cwd, files>>

Init == dirs = {Root} \cup SeedDirs /\ cwd = Root /\ files = <<>>

\* cd goes to a directory that exists.
Cd == cwd' \in dirs /\ UNCHANGED <<dirs, files>>

\* mkdir adds directories with names short enough, each in one that is there, where
\* no file is, as long as nodes are left.
Mkdir ==
  /\ dirs \subseteq dirs' /\ IsFiniteSet(dirs') /\ Cardinality(dirs') <= MaxNodes
  /\ \A path \in dirs' \ dirs :
       /\ Parent(path) \in dirs' /\ path \notin SeedFiles \cup DOMAIN files
       /\ LastName(path) \notin LongNames
  /\ UNCHANGED <<cwd, files>>

\* A redirection changes or makes one file, in a directory that is there, where no
\* directory is, as long as slots are left.
Write(path) ==
  /\ path # Root /\ Parent(path) \in dirs /\ path \notin dirs
  /\ DOMAIN files' = DOMAIN files \cup {path}
  /\ path \in DOMAIN files \/ Cardinality(DOMAIN files) < MaxFiles
  /\ \A other \in DOMAIN files \ {path} : files'[other] = files[other]
  /\ UNCHANGED <<dirs, cwd>>

Next == Cd \/ Mkdir \/ \E path \in DOMAIN files' : Write(path)

Spec == Init /\ [][Next]_storeVars

-------------------------------------------------------------------------------
(* Properties *)

\* No path is a file and a directory, every file and every directory lies in a
\* directory, and the current directory is one: mkdir and redirections look at two
\* tables of two files of the program before they add to one of them.
FilesUnderDirs ==
  /\ cwd \in dirs /\ Root \in dirs
  /\ \A path \in dirs \ {Root} : Parent(path) \in dirs
  /\ \A path \in SeedFiles \cup DOMAIN files : path \notin dirs /\ Parent(path) \in dirs
===============================================================================
