--------------------------------- MODULE Shell --------------------------------
(***************************************************************************)
(* The shell: shell_run reads a line byte by byte (shell/line_io.c),       *)
(* parses it (ShellParser), runs one command or two joined by a pipe       *)
(* (shell/exec_pipeline.c, builtins_basic.c, builtins_fs.c), and writes    *)
(* redirected output to a file (PathFiles).  Commands hand their output on *)
(* through globals: the stdout mode, the stdin pointer and the capture     *)
(* buffer of shell/fd_table.c, which outlive the line.                     *)
(*                                                                         *)
(* A character is its code.  Each fixed text that a command prints is one  *)
(* character of its own, and so is the name of a command: the properties   *)
(* only tell texts apart and count characters at the limits.               *)
(***************************************************************************)
EXTENDS PathFiles, ShellParser

CONSTANTS
  Builtins,     \* g_shell_builtins: the program that each command word names
  CaptureCap,   \* SHELL_FD_CAPTURE_CAP
  PipeCap,      \* SHELL_PIPE_INPUT_CAP
  BufferSize,   \* LINE_IO_BUFFER_SIZE
  LineSize,     \* SHELL_LINE_BUFFER_SIZE
  FirstLines,   \* bound: what is typed when nothing else follows
  Lines,        \* bound: what is typed line by line
  MaxLines      \* bound: lines of the second kind

ASSUME InputAssumption ==
  /\ FirstLines \cup Lines \subseteq Seq(Char)
  /\ {BufferSize, LineSize} \subseteq Nat \ {0}

\* What a command leaves in the capture fits the input of the next one.
ASSUME ProgramAssumption ==
  /\ \A word \in DOMAIN Builtins :
       Builtins[word] \in {"echo", "cat", "ls", "pwd", "cd", "mkdir", "help", "meminfo"}
  /\ {CaptureCap, PipeCap} \subseteq Nat \ {0} /\ CaptureCap <= PipeCap

VARIABLES
  input,    \* external: bytes on the serial line that are not read yet
  more,     \* bound: lines still to come
  buffer,   \* g_line_buffer, up to g_line_len
  skip_lf,  \* g_skip_lf_after_cr
  pc,       \* where shell_run is
  line,     \* the line shell_run executes
  cmd,      \* parse_result
  fd,       \* fd_table.c: stdout mode, stdin and capture
  tree,     \* g_default_path_context.tree
  files,    \* g_dynamic_files
  console,  \* what the line has printed on the console so far
  typed,    \* history: the bytes read from the end of the last executed line on
  empties,  \* history: the empty lines readline has returned since then
  before    \* history: tree and files when the line started

readVars == <<input, more, buffer, skip_lf, typed, empties>>
vars == <<readVars, pc, line, cmd, fd, tree, files, console, before>>

CR == 13
LF == 10
Erase == {8, 127}
Printable == 32 .. 126
Text(k) == <<200 + k, LF>>        \* a fixed text of its own line
Prefix(k) == <<200 + k>>          \* a fixed text that something follows

Cut(text, n) == SubSeq(text, 1, IF Len(text) < n THEN Len(text) ELSE n)

Init ==
  /\ \/ input \in FirstLines /\ more = 0
     \/ input = <<>> /\ more = MaxLines
  /\ buffer = <<>> /\ skip_lf = FALSE /\ pc = "read" /\ line = <<>> /\ cmd = ParseError
  /\ fd = [stdout |-> "console", stdin |-> <<>>, capture |-> <<>>]
  /\ tree = InitialTree /\ files = <<>>
  /\ console = <<>> /\ typed = <<LF>> /\ empties = 0 /\ before = [tree |-> InitialTree, files |-> <<>>]

-------------------------------------------------------------------------------
(* fd_table.c.  To its readers, no stdin and an empty one are the same.     *)

shell_fd_set_stdout_console(f) == [f EXCEPT !.stdout = "console"]

\* Mutant: the capture starts with what the last command left in it.
capture_not_cleared(f) == [f EXCEPT !.stdout = "capture"]

shell_fd_set_stdout_capture(f) == [f EXCEPT !.stdout = "capture", !.capture = <<>>]
shell_fd_set_stdin(f, text) == [f EXCEPT !.stdin = text]

\* Characters that do not fit the capture are dropped.
shell_fd_write(f, text) ==
  IF f.stdout = "console" THEN f ELSE [f EXCEPT !.capture = Cut(@ \o text, CaptureCap - 1)]
ToConsole(f, text) == IF f.stdout = "console" THEN text ELSE <<>>

-------------------------------------------------------------------------------
(* Builtins.  Each returns the text it prints and the tree it leaves.       *)

Joined(words) ==
  FlattenSeq([i \in DOMAIN words |-> IF i = 1 THEN words[i] ELSE <<Space>> \o words[i]])
EndLine(text) == IF text # <<>> /\ Last(text) = LF THEN text ELSE text \o <<LF>>

shell_builtin_echo(argv) ==
  Prefix(1) \o (IF Len(argv) > 1 THEN <<Space>> \o Joined(Tail(argv)) ELSE <<>>) \o <<LF>>

CatFile(t, fs, word) ==
  LET Shown(file) == IF file.ok THEN EndLine(file.text) ELSE Prefix(2) \o word \o <<LF>>
  IN  Shown(path_state_cat(t, fs, word))
shell_builtin_cat(argv, t, fs, stdin) ==
  IF Len(argv) >= 2 THEN FlattenSeq([i \in 1 .. Len(argv) - 1 |-> CatFile(t, fs, argv[i + 1])])
  ELSE IF stdin # <<>> THEN EndLine(stdin)
  ELSE Text(3)

shell_builtin_ls(argv, t, fs) ==
  LET Line(e) == e.name \o (IF e.kind = "dir" THEN <<Slash>> ELSE <<>>) \o <<LF>>
      Shown(listed) ==
        IF ~listed.ok THEN Text(4)
        ELSE FlattenSeq([k \in DOMAIN listed.entries |-> Line(listed.entries[k])])
  IN  Shown(path_state_ls(t, fs, IF Len(argv) >= 2 THEN argv[2] ELSE <<Dot>>))

shell_builtin_pwd(t) == Spelled(fs_dir_pwd(t)) \o <<LF>>

shell_builtin_cd(argv, t) ==
  LET target == IF Len(argv) >= 2 THEN argv[2] ELSE <<Slash>>
  IN  [tree |-> fs_dir_cd(t, target), text |-> IF fs_dir_walk(t, target) = 0 THEN Text(5) ELSE <<>>]

shell_builtin_mkdir(argv, t, fs) ==
  LET After(text, word, made) ==
        [tree |-> made.tree, text |-> text \o (IF made.ok THEN <<>> ELSE Prefix(6) \o word \o <<LF>>)]
      Step(s, word) == After(s.text, word, path_state_mkdir(s.tree, fs, word))
  IN  IF Len(argv) < 2 THEN [tree |-> t, text |-> Text(7)]
      ELSE FoldLeft(Step, [tree |-> t, text |-> <<>>], Tail(argv))

\* Texts that do not change while the shell runs: no command allocates pages.
shell_builtin_help == Text(8)
shell_builtin_meminfo == Text(9)

shell_execute_builtin(argv, t, fs, stdin) ==
  LET program == Builtins[argv[1]]
      Prints(text) == [tree |-> t, text |-> text]
  IN  CASE program = "echo" -> Prints(shell_builtin_echo(argv))
        [] program = "cat" -> Prints(shell_builtin_cat(argv, t, fs, stdin))
        [] program = "ls" -> Prints(shell_builtin_ls(argv, t, fs))
        [] program = "pwd" -> Prints(shell_builtin_pwd(t))
        [] program = "cd" -> shell_builtin_cd(argv, t)
        [] program = "mkdir" -> shell_builtin_mkdir(argv, t, fs)
        [] program = "help" -> Prints(shell_builtin_help)
        [] program = "meminfo" -> Prints(shell_builtin_meminfo)

\* A word that names no program is printed with its arguments.  (The text fits its
\* buffer, because the line does, which is no shorter.)
shell_execute_or_fallback(argv, t, fs, stdin) ==
  IF argv[1] \in DOMAIN Builtins THEN shell_execute_builtin(argv, t, fs, stdin)
  ELSE [tree |-> t, text |-> Prefix(10) \o Joined(argv) \o <<LF>>]

-------------------------------------------------------------------------------
(* line_io_readline: one step for every byte.  The loop of shell_run calls  *)
(* it again when the line is empty.                                         *)

\* The next line arrives.
Arrive(bytes) ==
  /\ pc = "read" /\ input = <<>> /\ more > 0
  /\ input' = bytes /\ more' = more - 1
  /\ UNCHANGED <<buffer, skip_lf, typed, empties, pc, line, cmd, fd, tree, files, console, before>>

\* The line feed of a carriage return that has ended a line already.
SkipLineFeed ==
  /\ pc = "read" /\ input # <<>> /\ skip_lf /\ Head(input) = LF
  /\ input' = Tail(input) /\ skip_lf' = FALSE /\ typed' = Append(typed, LF)
  /\ UNCHANGED <<more, buffer, empties, pc, line, cmd, fd, tree, files, console, before>>

\* line_io_handle_backspace and line_io_handle_byte
Edited(b, byte) ==
  IF byte \in Erase THEN IF b = <<>> THEN b ELSE Front(b)
  ELSE IF byte \in Printable /\ Len(b) + 1 < BufferSize THEN Append(b, byte) ELSE b

\* Mutant: the carriage return is remembered while the next line is typed.
EditKeepsSkip ==
  /\ pc = "read" /\ input # <<>> /\ Head(input) \notin {CR, LF}
  /\ input' = Tail(input) /\ typed' = Append(typed, Head(input))
  /\ buffer' = Edited(buffer, Head(input))
  /\ UNCHANGED <<more, skip_lf, empties, pc, line, cmd, fd, tree, files, console, before>>

EditLine ==
  /\ pc = "read" /\ input # <<>> /\ Head(input) \notin {CR, LF}
  /\ input' = Tail(input) /\ skip_lf' = FALSE /\ typed' = Append(typed, Head(input))
  /\ buffer' = Edited(buffer, Head(input))
  /\ UNCHANGED <<more, empties, pc, line, cmd, fd, tree, files, console, before>>

\* line_io_copy_out cuts the line to the buffer of shell_run.
ReturnLine ==
  /\ pc = "read" /\ input # <<>> /\ Head(input) \in {CR, LF} /\ ~(skip_lf /\ Head(input) = LF)
  /\ input' = Tail(input) /\ skip_lf' = (Head(input) = CR) /\ typed' = Append(typed, Head(input))
  /\ line' = Cut(buffer, LineSize - 1) /\ buffer' = <<>>
  /\ pc' = IF buffer = <<>> THEN "read" ELSE "parse"
  /\ empties' = IF buffer = <<>> THEN empties + 1 ELSE empties
  /\ UNCHANGED <<more, cmd, fd, tree, files, console, before>>

-------------------------------------------------------------------------------
(* shell_execute_line *)

\* shell_parse_with_redirection, and what follows when it fails.
ParseLine ==
  /\ pc = "parse" /\ cmd' = shell_parse_with_redirection(line)
  /\ typed' = <<Last(typed)>> /\ empties' = 0
  /\ before' = [tree |-> tree, files |-> files]
  /\ pc' = IF cmd'.ok THEN "left" ELSE "done"
  /\ console' = IF cmd'.ok THEN <<>> ELSE Text(11)
  /\ fd' = IF cmd'.ok THEN fd ELSE shell_fd_set_stdout_console(fd)
  /\ UNCHANGED <<input, more, buffer, skip_lf, line, tree, files>>

\* The first command, of shell_execute_single or shell_execute_pipe.
ExecuteLeft ==
  LET redirected == cmd.pipe \/ cmd.redir # "none"
      out == shell_fd_set_stdin(IF redirected THEN shell_fd_set_stdout_capture(fd)
                                              ELSE shell_fd_set_stdout_console(fd), <<>>)
  IN /\ pc = "left"
     /\ \E ran \in {shell_execute_or_fallback(cmd.left, tree, files, out.stdin)} :
          /\ tree' = ran.tree /\ fd' = shell_fd_write(out, ran.text)
          /\ console' = console \o ToConsole(out, ran.text)
     /\ pc' = IF cmd.pipe THEN "right" ELSE IF redirected THEN "write" ELSE "done"
     /\ UNCHANGED <<readVars, line, cmd, files, before>>

\* The second command of shell_execute_pipe reads what the first one printed, from
\* a copy on the stack.
ExecuteRight ==
  LET pipe_input == Cut(fd.capture, PipeCap - 1)
      given == shell_fd_set_stdin(fd, pipe_input)
      out == IF cmd.redir = "none" THEN shell_fd_set_stdout_console(given)
                                   ELSE shell_fd_set_stdout_capture(given)
  IN /\ pc = "right"
     /\ \E ran \in {shell_execute_or_fallback(cmd.right, tree, files, out.stdin)} :
          /\ tree' = ran.tree /\ fd' = shell_fd_set_stdin(shell_fd_write(out, ran.text), <<>>)
          /\ console' = console \o ToConsole(out, ran.text)
     /\ pc' = IF cmd.redir = "none" THEN "done" ELSE "write"
     /\ UNCHANGED <<readVars, line, cmd, files, before>>

\* After a success, stdout stays captured until the next line sets it.
shell_write_redirection ==
  /\ pc = "write" /\ pc' = "done"
  /\ \E written \in {path_state_write_file(tree, files, cmd.path, fd.capture, cmd.redir = "append")} :
       /\ files' = written.files
       /\ fd' = IF written.ok THEN fd ELSE shell_fd_set_stdout_console(fd)
       /\ console' = IF written.ok THEN console ELSE console \o Text(12)
  /\ UNCHANGED <<readVars, line, cmd, tree, before>>

\* shell_run prints its prompt and reads on.
Prompt ==
  /\ pc = "done" /\ pc' = "read" /\ console' = <<>>
  /\ UNCHANGED <<readVars, line, cmd, fd, tree, files, before>>

Next ==
  \/ \E bytes \in Lines : Arrive(bytes)
  \/ SkipLineFeed \/ EditLine \/ ReturnLine
  \/ ParseLine \/ ExecuteLeft \/ ExecuteRight \/ shell_write_redirection \/ Prompt

Spec == Init /\ [][Next]_vars

-------------------------------------------------------------------------------
(* Properties *)

\* Where lines end: at a carriage return, and at a line feed that follows none.
LineEnds(bytes) ==
  {i \in DOMAIN bytes : bytes[i] = CR \/ (bytes[i] = LF /\ (i = 1 \/ bytes[i - 1] # CR))}

\* The text and the erasing keys behind the last carriage return or line feed.
Counted(bytes) ==
  Picked(bytes, {i \in DOMAIN bytes : /\ bytes[i] \in Printable \cup Erase
                                      /\ \A j \in i .. Len(bytes) : bytes[j] \notin {CR, LF}})

\* The line that is executed is the text as typed since the line before it ended,
\* without what was erased, cut to the size of the line: an erasing key at the start
\* of the line erases nothing, a byte that is neither text nor a control adds nothing,
\* and nothing of an earlier line is left.  (A line that overfills the line editor
\* loses what did not fit.)  Every line end since the last executed line but the last
\* has returned an empty line: a line feed behind its carriage return returns none,
\* and one that is typed later ends a line.
LineAsTyped ==
  LET counted == Counted(Front(typed))
      overfull == \E n \in DOMAIN counted :
                    Len(Uncancelled(Cut(counted, n), Erase)) >= BufferSize
  IN  pc = "parse" =>
        /\ Cardinality(LineEnds(typed)) = empties + 2
        /\ ~overfull => line = Cut(Uncancelled(counted, Erase), LineSize - 1)

\* The tokenizer, which carries an operator that ends a word over to the next call,
\* and the loop around it accept exactly the lines of the grammar, with the same
\* words on each side.
ParsedByGrammar == pc \in {"left", "done"} => cmd = GrammarParse(line)

\* A path that a command is given leads where its names say, from the current
\* directory and never above the root; it is refused only when, joined to the
\* current directory, it does not fit a buffer: the pool and the stack of
\* fs_path_normalize never run full before that.
ResolvedAsMeant ==
  pc = "left" =>
    \A i \in 2 .. Len(cmd.left) :
      LET word == cmd.left[i]
          here == fs_dir_pwd(tree)
          joined == IF word[1] = Slash THEN Len(word) + 1 ELSE Len(Spelled(here)) + Len(word) + 2
          found == fs_path_resolve(here, word)
      IN  found = Meant(here, word) \/ (found = NoPath /\ joined > PathMax)

\* The directories that can be found from the root.
Dirs == {PathTo(tree, i) : i \in {j \in DOMAIN tree.nodes : lookup_absolute(tree, PathTo(tree, j)) = j}}

Store == INSTANCE PathTree WITH
  SeedDirs <- Range(SeedDirs), SeedFiles <- DOMAIN SeedFiles,
  LongNames <- {name \in Seq(Char) : Len(name) > NameMax}, dirs <- Dirs, cwd <- fs_dir_pwd(tree)

\* The node table and the table of files implement a tree of paths with files: no
\* command loses, moves or doubles a directory or a file that it does not name.
ImplementsPathTree == Store!Spec

\* No path is a file and a directory, everything lies in a directory, and every node
\* of the table is found at its path: none is lost, and no directory is there twice.
FilesUnderDirs ==
  pc = "done" =>
    /\ Store!FilesUnderDirs
    /\ \A node \in DOMAIN tree.nodes : lookup_absolute(tree, PathTo(tree, node)) = node

\* A line that is done has had the effect of its commands run one after the other
\* with the first one's output as the second one's input, and nothing of the stdout
\* mode, the stdin or the capture of an earlier command or line shows in it: its
\* output is on the console, or in the file behind what an append keeps, and no
\* other file has changed.
LineMeansPipeline ==
  pc = "done" /\ cmd.ok =>
    \E first \in {shell_execute_or_fallback(cmd.left, before.tree, before.files, <<>>)} :
    \E last \in {IF ~cmd.pipe THEN first
                 ELSE shell_execute_or_fallback(cmd.right, first.tree, before.files,
                                                Cut(first.text, CaptureCap - 1))} :
    \E path \in {Meant(fs_dir_pwd(last.tree), cmd.path)} :
      /\ tree = last.tree
      /\ IF cmd.redir = "none" THEN console = last.text /\ files = before.files
         ELSE /\ \A other \in DOMAIN files \ {path} : files[other] = before.files[other]
              /\ console = <<>> =>
                   files[path] = (IF cmd.redir = "append" /\ IsFile(before.files, path)
                                    THEN Visible(before.files, path) ELSE <<>>)
                                 \o Cut(last.text, CaptureCap - 1)
              /\ console # <<>> => console = Text(12)

\* An append that fails leaves every file with the content it had, also a built-in
\* file, which the append has replaced by a copy before it failed.
FailedAppendKeeps ==
  [][pc = "write" /\ cmd.redir = "append" /\ console' # console =>
       \A path \in DOMAIN SeedFiles \cup DOMAIN files : Visible(files', path) = Visible(files, path)]_vars

\* ls of a directory whose names are short enough shows what lies in it: each
\* directory and each file once, in ascending order, with its kind.
InDir(dir) ==
  {Entry(Last(path), "dir") : path \in {d \in Dirs \ {Root} : path_parent(d) = dir}} \cup
  {Entry(Last(path), "file") : path \in {f \in DOMAIN SeedFiles \cup DOMAIN files : path_parent(f) = dir}}
LsShowsDirectory ==
  pc = "done" =>
    \A dir \in Dirs :
      \E listed \in {path_state_ls(tree, files, Spelled(dir))} :
          (\A e \in InDir(dir) : Len(e.name) <= NameMax) /\ Cardinality(InDir(dir)) <= LsMax =>
            /\ listed.ok /\ Range(listed.entries) = InDir(dir)
            /\ \A k \in 1 .. Len(listed.entries) - 1 :
                 dir_less(listed.entries[k].name, listed.entries[k + 1].name)

\* Every directory can be listed, whatever the commands have put into it.
LsListsEveryDirectory ==
  pc = "done" => \A dir \in Dirs : path_state_ls(tree, files, Spelled(dir)).ok
===============================================================================
