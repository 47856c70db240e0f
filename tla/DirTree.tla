-------------------------------- MODULE DirTree -------------------------------
(***************************************************************************)
(* The directory tree of fs/dir.c: a table of nodes, each with the link to *)
(* its first child and to its next sibling, and the index of the current   *)
(* directory.  Nodes are numbered from 1 in the order in which alloc_node  *)
(* hands them out; the root is node 1, and 0 stands for the index -1.      *)
(* Operations are functions of the tree.                                   *)
(***************************************************************************)
EXTENDS FsPath, FiniteSets

CONSTANTS
  MaxNodes,     \* FS_DIR_MAX_NODES
  NameMax       \* FS_DIR_NAME_MAX

\* dir_strcmp(a, b) < 0
dir_less(a, b) ==
  \E k \in DOMAIN b :
    /\ k <= Len(a) + 1 /\ \A j \in 1 .. k - 1 : a[j] = b[j]
    /\ k = Len(a) + 1 \/ a[k] < b[k]

\* The nodes from first on, along the next links.
Linked(tree, first) ==
  LET after == [n \in 0 .. Len(tree.nodes) |-> IF n = 0 THEN 0 ELSE tree.nodes[n].next]
      at[k \in 1 .. MaxNodes] == IF k = 1 THEN first ELSE after[at[k - 1]]
  IN  SubSeq(at, 1, Cardinality({k \in 1 .. MaxNodes : at[k] # 0}))
Children(tree, i) == Linked(tree, tree.nodes[i].first)

find_child(tree, i, name) ==
  LET list == Children(tree, i)
      found == {k \in DOMAIN list : tree.nodes[list[k]].name = name}
  IN  IF found = {} THEN 0 ELSE list[Min(found)]

fs_dir_init == [nodes |-> <<[name |-> <<>>, parent |-> 0, first |-> 0, next |-> 0]>>, cwd |-> 1]

\* The child goes behind the last of the leading children with a smaller name.
insert_child_sorted(tree, i, child) ==
  LET list == Children(tree, i)
      smaller == {k \in DOMAIN list :
                    \A j \in 1 .. k : dir_less(tree.nodes[list[j]].name, tree.nodes[child].name)}
      prev == list[Max(smaller)]
  IN  IF smaller = {}
        THEN [tree EXCEPT !.nodes[child].next = tree.nodes[i].first, !.nodes[i].first = child]
        ELSE [tree EXCEPT !.nodes[child].next = tree.nodes[prev].next, !.nodes[prev].next = child]

\* alloc_node, and the assignments of mkdir_internal that follow it.
AddNode(tree, i, name) ==
  insert_child_sorted(
    [tree EXCEPT !.nodes = Append(@, [name |-> name, parent |-> i, first |-> 0, next |-> 0])],
    i, Len(tree.nodes) + 1)

\* One turn of the loop of mkdir_internal, for the k-th name of the path, which
\* is the name of the node child, if any.
MakeStep(s, path, k, child, create_parents) ==
  LET last == k = Len(path)
      refused ==
        \/ Len(path[k]) > NameMax
        \/ child # 0 /\ last /\ ~create_parents
        \/ child = 0 /\ ~last /\ ~create_parents
        \/ child = 0 /\ Len(s.tree.nodes) >= MaxNodes
  IN  IF ~s.ok THEN s
      ELSE IF refused THEN [s EXCEPT !.ok = FALSE]
      ELSE IF child # 0 THEN [s EXCEPT !.cur = child]
      ELSE [s EXCEPT !.tree = AddNode(@, s.cur, path[k]), !.cur = Len(s.tree.nodes) + 1]

\* mkdir_internal of a path that is resolved; directories made before a name is
\* refused stay.
mkdir_internal(tree, path, create_parents) ==
  IF path \in {Root, NoPath} THEN [tree |-> tree, ok |-> FALSE]
  ELSE LET Step(s, k) == MakeStep(s, path, k, find_child(s.tree, s.cur, path[k]), create_parents)
           Result(end) == [tree |-> end.tree, ok |-> end.ok]
       IN  Result(FoldLeftDomain(Step, [tree |-> tree, cur |-> 1, ok |-> TRUE], path))
fs_dir_mkdir(tree, path) == mkdir_internal(tree, path, FALSE)
fs_dir_mkdir_p(tree, path) == mkdir_internal(tree, path, TRUE)

\* path_from_index, along the parent links.
PathTo(tree, i) ==
  LET to[n \in DOMAIN tree.nodes] ==
        IF n = 1 THEN Root ELSE Append(to[tree.nodes[n].parent], tree.nodes[n].name)
  IN  to[i]
fs_dir_pwd(tree) == PathTo(tree, tree.cwd)

\* The node of a resolved path, or 0.
lookup_absolute(tree, path) ==
  LET Step(cur, name) ==
        IF cur = 0 \/ name = <<>> \/ Len(name) > NameMax THEN 0 ELSE find_child(tree, cur, name)
  IN  FoldLeft(Step, 1, path)

fs_dir_walk(tree, word) == lookup_absolute(tree, fs_path_resolve(fs_dir_pwd(tree), word))

fs_dir_cd(tree, word) ==
  LET Enter(node) == IF node = 0 THEN tree ELSE [tree EXCEPT !.cwd = node]
  IN  Enter(fs_dir_walk(tree, word))

\* The names fs_dir_readdir stores for node i; every caller has room for all nodes.
fs_dir_readdir(tree, i) == LET list == Children(tree, i)
                           IN  [k \in DOMAIN list |-> tree.nodes[list[k]].name]
===============================================================================
