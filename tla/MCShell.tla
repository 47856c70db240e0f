-------------------------------- MODULE MCShell -------------------------------
(* Commands and names of one letter, a directory t and a file s to begin     *)
(* with, and names of two letters that are too long for a directory.         *)
EXTENDS Shell

a == 97
b == 98
s == 115
t == 116

MCBuiltins ==
  <<101>> :> "echo" @@ <<99>> :> "cat" @@ <<108>> :> "ls" @@ <<112>> :> "pwd" @@
  <<100>> :> "cd" @@ <<109>> :> "mkdir" @@ <<104>> :> "help" @@ <<105>> :> "meminfo"
echo == 101
cat == 99
ls == 108
pwd == 112
cd == 100
mkdir == 109
help == 104
meminfo == 105

MCSeedDirs == << <<<<t>>>> >>
MCSeedFiles == (<<<<s>>>> :> <<s, LF>>) @@ (<<<<t>>, <<s>>>> :> <<s>>)

Ended(bytes) == Append(bytes, LF)
UpToLen(S, n) == UNION {[1 .. k -> S] : k \in 1 .. n}

\* Every short line that is edited, every line of the parser's alphabet, and one that
\* overfills the line editor.
MCFirstLines ==
  {Ended(l) : l \in UpToLen({a, Space, CR, LF, 8, 127, 9}, 5)} \cup
  {Ended(l) : l \in UpToLen({a, Space, Bar, More}, 7)} \cup
  {Ended([i \in 1 .. 14 |-> a])}

MCLines == {Ended(l) : l \in {
  <<mkdir, Space, a>>,                              \* mkdir a
  <<mkdir, Space, b, Space, a, Slash, b>>,          \* mkdir b a/b
  <<mkdir, Space, a, b>>,                           \* mkdir ab
  <<cd, Space, a>>,                                 \* cd a
  <<cd, Space, Dot, Dot, Slash, t>>,                \* cd ../t
  <<cd>>,                                           \* cd
  <<cd, Space, Slash, t, Slash, Dot, Dot, Slash, a>>,  \* cd /t/../a
  <<cd, Space, a, Bar, pwd>>,                       \* cd a|pwd
  <<echo, Space, b, More, a>>,                      \* echo b>a
  <<echo, Space, b, More, More, s>>,                \* echo b>>s
  <<echo, Space, a, b, b, a, More, More, s>>,       \* echo abba>>s
  <<pwd, More, More, b>>,                           \* pwd>>b
  <<echo, More, t>>,                                \* echo>t
  <<echo, More, b, Slash, a>>,                      \* echo>b/a
  <<help, More, a, b>>,                             \* help>ab
  <<cat, Space, s, Space, a, Bar, cat, More, b>>,   \* cat s a|cat>b
  <<meminfo, Bar, cat>>,                            \* meminfo|cat
  <<ls, Bar, cat, More, b>>,                        \* ls|cat>b
  <<cat, Bar, ls>>,                                 \* cat|ls
  <<echo, Space, a, b, a, b, a, b, a, b, More, a>>  \* echo abababab>a, cut before ">"
  }}
===============================================================================
