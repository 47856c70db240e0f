------------------------------ MODULE PathState -------------------------------
(***************************************************************************)
(* The directories of a session: shell/path_state.c over the tree of       *)
(* fs/dir.c.  A path is the sequence of its names from the root, the form  *)
(* in which a tree looks it up once it is resolved; a tree is the set of   *)
(* its paths, for which the linked nodes of fs/dir.c stand (DirTree, shown *)
(* to implement such a set through PathTree), and the current one.  Files  *)
(* made by redirections belong to the shell alone (PathFiles).             *)
(***************************************************************************)
EXTENDS Integers, Sequences, FiniteSets

CONSTANTS
  SeedDirs,     \* the directories ensure_initialized makes, besides the root
  SeedFiles,    \* g_seed_files
  MaxNodes,     \* FS_DIR_MAX_NODES
  LongNames     \* names of more than FS_DIR_NAME_MAX characters

Root == <<>>
Parent(path) == SubSeq(path, 1, Len(path) - 1)
LastName(path) == path[Len(path)]

ASSUME PathAssumption ==
  /\ MaxNodes \in Nat /\ Cardinality(SeedDirs) + 1 <= MaxNodes
  /\ Root \notin SeedDirs \cup SeedFiles /\ SeedDirs \cap SeedFiles = {}
  /\ \A path \in SeedDirs \cup SeedFiles : Parent(path) \in SeedDirs \cup {Root}
  /\ \A path \in SeedDirs : LastName(path) \notin LongNames

\* path_state_context_init, and ensure_initialized at the first use.
NewTree == [dirs |-> {Root} \cup SeedDirs, cwd |-> Root]

fs_dir_cd(tree, path) == IF path \in tree.dirs THEN [tree EXCEPT !.cwd = path] ELSE tree

\* mkdir_internal without create_parents: the parent exists, so its names are short
\* enough, the directory does not, its name is short enough, and a node is left for it.
CanMake(tree, path) ==
  /\ path # Root /\ path \notin tree.dirs /\ Parent(path) \in tree.dirs
  /\ LastName(path) \notin LongNames
  /\ Cardinality(tree.dirs) < MaxNodes
fs_dir_mkdir(tree, path) ==
  IF CanMake(tree, path) THEN [tree EXCEPT !.dirs = @ \cup {path}] ELSE tree

\* A file of that name is in the way.  Files made by the shell belong to the tree
\* of the shell alone.
path_state_context_mkdir(tree, path) ==
  IF path \in SeedFiles THEN tree ELSE fs_dir_mkdir(tree, path)
===============================================================================
