--------------------------- MODULE MCOTFSRefinement ---------------------------
(* Values of the constants of OTFSRefinement for TLC. *)
EXTENDS OTFSRefinement

RW == {{"READ", "WRITE", "CREATE"}, {"READ", "WRITE", "TRUNC"}}
===============================================================================
