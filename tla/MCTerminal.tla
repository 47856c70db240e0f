------------------------------ MODULE MCTerminal ------------------------------
(* Two terminals and a plain window in a scene for two; one letter.          *)
EXTENDS Terminal, TLC

CONSTANTS t1, t2, w, e1, e2

Small == [x |-> 0, y |-> 0, w |-> 3, h |-> 4]
SameFrame == [win \in Windows |-> Small]
New == <<"new">>
MCCommands ==
  <<Text("a", FALSE)>> :> [name |-> "mkdir", path |-> New] @@
  <<Text("a", TRUE)>> :> [name |-> "cd", path |-> New]
MCSeedDirs == {<<"tmp">>}
MCSeedFiles == {<<"hello.txt">>}
Swaps == Permutations(Terminals) \cup Permutations(Endpoints)
===============================================================================
