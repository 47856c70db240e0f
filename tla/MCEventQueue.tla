----------------------------- MODULE MCEventQueue -----------------------------
(* Two events in a ring of four. *)
EXTENDS EventQueue

CONSTANTS e1, e2
===============================================================================
