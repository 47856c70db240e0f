------------------------------- MODULE PathFiles ------------------------------
(***************************************************************************)
(* The files and directories of the shell: shell/path_state.c with its     *)
(* default context.  Files are the built-in ones and those that            *)
(* redirections make, which hide a built-in file of the same path.  A slot *)
(* of g_dynamic_files is never freed, and no result depends on which slot  *)
(* a file has: the table is the function from its paths to the contents.   *)
(***************************************************************************)
EXTENDS DirTree

CONSTANTS
  SeedDirs,     \* the directories ensure_initialized makes, in order
  SeedFiles,    \* g_seed_files: the content of each path
  MaxFiles,     \* PATH_STATE_DYNAMIC_MAX_FILES
  ContentMax,   \* PATH_STATE_DYNAMIC_CONTENT_MAX
  LsMax         \* SHELL_FS_LS_MAX

ASSUME PathFilesAssumption ==
  /\ {MaxNodes, NameMax, PathMax, MaxFiles, ContentMax, LsMax} \subseteq Nat \ {0}
  /\ Len(SeedDirs) < MaxNodes
  /\ SeedDirs \in Seq(Seq(Name)) /\ DOMAIN SeedFiles \subseteq Seq(Name) /\ IsFiniteSet(DOMAIN SeedFiles)
  /\ \A path \in DOMAIN SeedFiles : SeedFiles[path] \in Seq(Char) /\ Len(SeedFiles[path]) < ContentMax
  /\ Range(SeedDirs) \cap DOMAIN SeedFiles = {}
  /\ \A path \in Range(SeedDirs) \cup DOMAIN SeedFiles :
       path # Root /\ Front(path) \in Range(SeedDirs) \cup {Root}
  /\ \A k \in DOMAIN SeedDirs :
       /\ Front(SeedDirs[k]) \in {Root} \cup {SeedDirs[m] : m \in 1 .. k - 1}
       /\ Len(Last(SeedDirs[k])) <= NameMax

path_parent(path) == Front(path)

\* path_state_init and ensure_initialized
InitialTree ==
  LET Make(tree, path) == fs_dir_mkdir(tree, path).tree
      MakeP(tree, path) == fs_dir_mkdir_p(tree, path).tree
      parents == {path_parent(path) : path \in DOMAIN SeedFiles} \ {Root}
  IN  FoldLeft(MakeP, FoldLeft(Make, fs_dir_init, SeedDirs), SetToSeq(parents))

resolve_to_absolute(tree, word) ==
  fs_path_resolve(fs_dir_pwd(tree), IF word = <<>> THEN <<Dot>> ELSE word)

IsFile(files, path) == path \in DOMAIN SeedFiles \cup DOMAIN files

\* Mutant: only the built-in files are in the way of a directory.
mkdir_over_files(tree, files, word) ==
  LET Make(path) == IF path \in DOMAIN SeedFiles THEN [tree |-> tree, ok |-> FALSE]
                    ELSE fs_dir_mkdir(tree, path)
  IN  Make(resolve_to_absolute(tree, word))

path_state_mkdir(tree, files, word) ==
  LET Make(path) == IF IsFile(files, path) THEN [tree |-> tree, ok |-> FALSE]
                    ELSE fs_dir_mkdir(tree, path)
  IN  Make(resolve_to_absolute(tree, word))

\* The content of a file, the one made by the shell first.
Visible(files, path) == IF path \in DOMAIN files THEN files[path] ELSE SeedFiles[path]
path_state_cat(tree, files, word) ==
  LET Content(path) == IF IsFile(files, path) THEN [ok |-> TRUE, text |-> Visible(files, path)]
                       ELSE [ok |-> FALSE, text |-> <<>>]
  IN  Content(resolve_to_absolute(tree, word))

Entry(name, kind) == [name |-> name, kind |-> kind]

\* Mutant: an entry goes behind the others.
insert_last(s, entry) ==
  IF ~s.ok \/ Len(s.entries) >= LsMax \/ Len(entry.name) > NameMax THEN [s EXCEPT !.ok = FALSE]
  ELSE [s EXCEPT !.entries = Append(@, entry)]

\* entry_insert_sorted; a name that is there already is left as it is.
entry_insert_sorted(s, entry) ==
  LET smaller == {k \in DOMAIN s.entries : \A j \in 1 .. k : dir_less(s.entries[j].name, entry.name)}
      at == Cardinality(smaller) + 1
      there == at \in DOMAIN s.entries /\ s.entries[at].name = entry.name
  IN  IF ~s.ok THEN s
      ELSE IF Len(s.entries) >= LsMax \/ Len(entry.name) > NameMax THEN [s EXCEPT !.ok = FALSE]
      ELSE IF there THEN s
      ELSE [s EXCEPT !.entries = InsertAt(@, at, entry)]

\* The files of a table that lie in a directory, in some order: entry_insert_sorted
\* sorts them.
FilesIn(paths, dir) == SetToSeq({path \in paths : path_parent(path) = dir})

\* What path_state_ls puts into its list, in the order in which it comes to it.
DirEntries(names) == [k \in DOMAIN names |-> Entry(names[k], "dir")]
FileEntries(paths) == [k \in DOMAIN paths |-> Entry(Last(paths[k]), "file")]
ToList(tree, files, path, node) ==
  IF IsFile(files, path) THEN FileEntries(<<path>>)
  ELSE DirEntries(fs_dir_readdir(tree, node)) \o
       FileEntries(FilesIn(DOMAIN SeedFiles \ DOMAIN files, path) \o FilesIn(DOMAIN files, path))

path_state_ls(tree, files, word) ==
  LET List(path, node) ==
        IF ~IsFile(files, path) /\ node = 0 THEN [ok |-> FALSE, entries |-> <<>>]
        ELSE FoldLeft(entry_insert_sorted, [ok |-> TRUE, entries |-> <<>>],
                      ToList(tree, files, path, node))
      At(path) == List(path, lookup_absolute(tree, path))
  IN  At(resolve_to_absolute(tree, word))

\* Mutant: the directory of the file need not exist.
CanWriteAnywhere(tree, files, path) ==
  /\ path \notin {NoPath, Root} /\ lookup_absolute(tree, path) = 0
  /\ path \in DOMAIN files \/ Cardinality(DOMAIN files) < MaxFiles

\* The file may be written: its directory exists, it is none itself, and a slot is
\* left if it is new.
CanWrite(tree, files, path) ==
  /\ path \notin {NoPath, Root}
  /\ lookup_absolute(tree, path_parent(path)) # 0 /\ lookup_absolute(tree, path) = 0
  /\ path \in DOMAIN files \/ Cardinality(DOMAIN files) < MaxFiles

\* Mutant: an append to a built-in file starts a new one empty.
OldWithoutSeed(files, path, append) == IF append /\ path \in DOMAIN files THEN files[path] ELSE <<>>

\* What is in the file when its new size is looked at.
OldContent(files, path, append) ==
  IF append /\ IsFile(files, path) THEN Visible(files, path) ELSE <<>>

\* The file is made, and cleared or filled with the built-in content, before its
\* new size is looked at: a text that does not fit leaves it so.
path_state_write_file(tree, files, word, text, append) ==
  LET Stored(path, new) == [p \in DOMAIN files \cup {path} |-> IF p = path THEN new ELSE files[p]]
      Write(path, old) ==
        LET fits == Len(old) + Len(text) + 1 <= ContentMax
        IN  [ok |-> fits, files |-> Stored(path, IF fits THEN old \o text ELSE old)]
      At(path) == IF CanWrite(tree, files, path) THEN Write(path, OldContent(files, path, append))
                  ELSE [ok |-> FALSE, files |-> files]
  IN  At(resolve_to_absolute(tree, word))
===============================================================================
