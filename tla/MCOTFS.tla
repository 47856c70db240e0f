-------------------------------- MODULE MCOTFS --------------------------------
(* Values of the constants of OTFS for TLC. *)
EXTENDS OTFS

RW == {{"READ", "WRITE", "CREATE"}, {"READ", "WRITE", "TRUNC"}}
WC == {{"READ", "WRITE", "CREATE"}}
===============================================================================
