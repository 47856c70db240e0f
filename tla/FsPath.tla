-------------------------------- MODULE FsPath --------------------------------
(***************************************************************************)
(* Paths: fs/path.c.  A character is its code, a word a sequence of them;  *)
(* an absolute path is the sequence of its names from the root.            *)
(***************************************************************************)
EXTENDS Integers, Sequences, SequencesExt

CONSTANT PathMax      \* FS_PATH_MAX, the size of a buffer that holds a path

Char == 0 .. 255
Slash == 47
Dot == 46
Root == <<>>
NoPath == << <<>> >>  \* a call that fails: no path has an empty name

\* The items of s at the places of a set, in order.
Picked(s, Places) ==
  LET upto[n \in 0 .. Len(s)] ==
        IF n = 0 THEN <<>> ELSE IF n \in Places THEN Append(upto[n - 1], s[n]) ELSE upto[n - 1]
  IN  upto[Len(s)]

\* The pieces of s between the characters of Sep, without the empty ones.
Runs(s, Sep) ==
  LET Step(runs, i) ==
        IF s[i] \in Sep THEN runs
        ELSE IF runs = <<>> \/ s[i - 1] \in Sep THEN Append(runs, <<s[i]>>)
        ELSE Append(Front(runs), Append(Last(runs), s[i]))
  IN  FoldLeftDomain(Step, <<>>, s)

segment_is_dot(seg) == seg = <<Dot>>
segment_is_dotdot(seg) == seg = <<Dot, Dot>>

\* What a directory or a file can be called.
Name == {word \in Seq(Char) \ {<<>>} :
           Slash \notin Range(word) /\ ~segment_is_dot(word) /\ ~segment_is_dotdot(word)}

\* The word that spells an absolute path.
Spelled(path) ==
  IF path = Root THEN <<Slash>> ELSE FlattenSeq([i \in DOMAIN path |-> <<Slash>> \o path[i]])

\* Mutant: ".." at the root is kept as a name.
NormalizeKeepsDots(word) ==
  LET Step(s, seg) ==
        IF segment_is_dot(seg) THEN s
        ELSE IF segment_is_dotdot(seg) /\ s.segs # <<>> THEN [s EXCEPT !.segs = Front(@)]
        ELSE [s EXCEPT !.segs = Append(@, seg), !.pool = @ + Len(seg) + 1]
      end == FoldLeft(Step, [segs |-> <<>>, pool |-> 0], Runs(word, {Slash}))
  IN  end.segs

\* fs_path_normalize of an absolute path, the only kind it is given.  Segments are
\* pushed on a stack whose characters stay in segment_pool when they are popped:
\* the pool, the stack or the result may run full.
fs_path_normalize(word) ==
  LET Step(s, seg) ==
        IF ~s.ok \/ segment_is_dot(seg) THEN s
        ELSE IF segment_is_dotdot(seg)
               THEN IF s.segs = <<>> THEN s ELSE [s EXCEPT !.segs = Front(@)]
        ELSE IF Len(s.segs) >= PathMax \div 2 \/ s.pool + Len(seg) + 1 > PathMax
               THEN [s EXCEPT !.ok = FALSE]
        ELSE [s EXCEPT !.segs = Append(@, seg), !.pool = @ + Len(seg) + 1]
      Result(end) == IF end.ok /\ Len(Spelled(end.segs)) + 1 <= PathMax THEN end.segs ELSE NoPath
  IN  Result(FoldLeft(Step, [segs |-> <<>>, pool |-> 0, ok |-> TRUE], Runs(word, {Slash})))

\* cwd is a path the tree spells, word what the user typed.
fs_path_resolve(cwd, word) ==
  LET absolute == word # <<>> /\ word[1] = Slash
  IN  IF word = <<>> THEN cwd
      ELSE IF ~absolute /\ Len(Spelled(cwd)) + Len(word) + 2 > PathMax THEN NoPath
      ELSE fs_path_normalize(IF absolute THEN word ELSE Spelled(cwd) \o <<Slash>> \o word)

-------------------------------------------------------------------------------
(* Reference *)

\* What is left of s when every undo takes back the last item that is still there,
\* stated without a stack: an item stays when, up to any later place, more items
\* than undos have followed from it on.
Uncancelled(s, Undo) ==
  LET Undos(i, j) == {k \in i .. j : s[k] \in Undo}
      Stays(i) == \A j \in i .. Len(s) : 2 * Cardinality(Undos(i, j)) < j - i + 1
  IN  Picked(s, {i \in DOMAIN s : Stays(i)})

\* Where a word leads from cwd: its names and those of cwd, each ".." taking back
\* the name before it, if any.
Meant(cwd, word) ==
  LET runs == Runs(word, {Slash})
      names == Picked(runs, {i \in DOMAIN runs : ~segment_is_dot(runs[i])})
  IN  Uncancelled((IF word # <<>> /\ word[1] = Slash THEN <<>> ELSE cwd) \o names,
                  {<<Dot, Dot>>})
===============================================================================
