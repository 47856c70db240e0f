----------------------------- MODULE MCMouseDrag ------------------------------
(* Two overlapping windows with a border of one pixel and a title bar of two,  *)
(* an accent of one pixel in it; the screen is smaller than they are, and the  *)
(* right edge of the second one is past the largest coordinate.                *)
EXTENDS Desktop, TLC

CONSTANTS w1, w2, left, right

TwoFrames == (w1 :> [x |-> 0, y |-> 0, w |-> 5, h |-> 5])
          @@ (w2 :> [x |-> 2, y |-> 0, w |-> 14, h |-> 5])
TwoOwners == (w1 :> 1) @@ (w2 :> 2)
TwoHashes == (w1 :> 3) @@ (w2 :> 4)
FewPoints == {<<1, 1>>, <<3, 1>>, <<0, 0>>}
===============================================================================
