-------------------------------- MODULE Desktop -------------------------------
(***************************************************************************)
(* The windows as the mouse moves them (MouseDrag) and as the compositor   *)
(* draws them (Render).                                                    *)
(***************************************************************************)
EXTENDS MouseDrag, Render

\* The property of the picture, evaluated once the events that are pending are
\* handled: every scene is also met in such a state.
VisibleIsHitWhenIdle == queue = <<>> => VisibleIsHit
===============================================================================
