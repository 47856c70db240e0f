----------------------------- MODULE MCPageAlloc ------------------------------
(* Values of the constants of PageAlloc for TLC. *)
EXTENDS PageAlloc

\* Aligned, unaligned on both sides, longer than MaxPages, and empty.
MCRanges == {<<4, 16>>, <<5, 30>>, <<9, 63>>, <<6, 7>>}
MCPointers == 0 .. 40
===============================================================================
