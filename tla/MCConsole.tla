------------------------------- MODULE MCConsole ------------------------------
(* Two lines of the boot thread, a two-letter line of the handler. *)
EXTENDS Console

CONSTANTS a, b, c, t, k

TwoLines == <<a, b, NL, c, NL>>
TickLine == <<t, k, NL>>
===============================================================================
