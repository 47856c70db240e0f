----------------------------- MODULE WindowManager ----------------------------
(***************************************************************************)
(* Windows (kernel/wm/window.c), their layer stack (layers.c), the focus   *)
(* (focus.c) and the scene that keeps the two together (compositor.c).     *)
(* A window is named by its address; titles and colours are left out, and  *)
(* drawing is in Render.  The stack is ordered from the back to the front. *)
(***************************************************************************)
EXTENDS Integers, Sequences, SequencesExt

CONSTANTS
  Windows, NoWindow,
  MaxWindows,       \* WM_MAX_WINDOWS
  Word,             \* 2^32: coordinates are uint32_t
  Border,           \* WM_DEFAULT_BORDER_THICKNESS
  TitleHeight       \* WM_DEFAULT_TITLE_BAR_HEIGHT

ASSUME WindowAssumption ==
  /\ NoWindow \notin Windows /\ MaxWindows \in Nat \ {0} /\ Word \in Nat \ {0}
  /\ Border \in Nat /\ TitleHeight \in Nat

VARIABLES
  frame,    \* the frame of each window
  stack,    \* g_scene.layers
  active    \* g_active_window

wmVars == <<frame, stack, active>>

Coord == 0 .. Word - 1
Rect == [x : Coord, y : Coord, w : Coord, h : Coord]

Least(a, b) == IF a < b THEN a ELSE b
\* Mutant: A subtraction that wraps around.
WrapSub(a, b) == (a - b + Word) % Word

ClampSub(a, b) == IF a <= b THEN 0 ELSE a - b
SatAdd(a, b) == IF a + b >= Word THEN Word - 1 ELSE a + b

InRect(rect, pt) ==
  /\ rect.w # 0 /\ rect.h # 0 /\ pt[1] >= rect.x /\ pt[2] >= rect.y
  /\ pt[1] - rect.x < rect.w /\ pt[2] - rect.y < rect.h

NoRect == [x |-> 0, y |-> 0, w |-> 0, h |-> 0]
EffectiveBorder(f) == Least(Border, Least(f.w \div 2, f.h \div 2))
InnerHeight(f) == ClampSub(ClampSub(f.h, EffectiveBorder(f)), EffectiveBorder(f))

wm_window_title_bar_rect(f) ==
  IF f.w = 0 \/ f.h = 0 THEN NoRect
  ELSE LET b == EffectiveBorder(f) IN
       [x |-> SatAdd(f.x, b), y |-> SatAdd(f.y, b),
        w |-> ClampSub(ClampSub(f.w, b), b), h |-> Least(TitleHeight, InnerHeight(f))]

wm_window_content_rect(f) ==
  LET bar == wm_window_title_bar_rect(f) IN
  IF f.h = 0 THEN NoRect
  ELSE [x |-> bar.x, y |-> SatAdd(bar.y, bar.h),
        w |-> bar.w, h |-> ClampSub(InnerHeight(f), bar.h)]

wm_window_is_valid(f) ==
  /\ f.w # 0 /\ f.h # 0
  /\ wm_window_title_bar_rect(f).w # 0 /\ wm_window_title_bar_rect(f).h # 0
  /\ wm_window_content_rect(f).w # 0 /\ wm_window_content_rect(f).h # 0

\* The front-most window that contains the point.
Hit(pt) == {i \in DOMAIN stack : InRect(frame[stack[i]], pt)}
wm_compositor_hit_test(pt) ==
  IF Hit(pt) = {} THEN NoWindow
  ELSE stack[CHOOSE i \in Hit(pt) : \A j \in Hit(pt) : j <= i]

wm_compositor_reset == stack' = <<>> /\ active' = NoWindow

\* wm_compositor_add_window refuses an invalid window, one that is in the scene
\* and one too many.
CanAdd(win, f) == wm_window_is_valid(f) /\ ~Contains(stack, win) /\ Len(stack) < MaxWindows
AddWindow(win) == stack' = Append(stack, win) /\ active' = win

\* Mutant: An activation that moves the focus and not the layer.
focus_only(win) == active' = (IF Contains(stack, win) THEN win ELSE active) /\ UNCHANGED stack

\* The windows in front of win move back by one.
wm_layers_index_of(win) ==
  CHOOSE i \in DOMAIN stack : stack[i] = win /\ \A j \in 1 .. i - 1 : stack[j] # win
wm_layers_move_to_front(win) ==
  LET index == wm_layers_index_of(win)
  IN  [i \in DOMAIN stack |-> IF i < index THEN stack[i]
                             ELSE IF i < Len(stack) THEN stack[i + 1] ELSE win]

\* The layer and the focus; a window outside the scene is refused.
wm_compositor_activate_window(win) ==
  IF Contains(stack, win)
    THEN stack' = wm_layers_move_to_front(win) /\ active' = win
    ELSE UNCHANGED <<stack, active>>

-------------------------------------------------------------------------------
(* Properties *)

\* The window that takes the keys is always the one in front, and no window is in
\* the scene twice: the focus and the layers are separate globals of two files,
\* and every path that changes one must change the other.
ActiveIsFront ==
  /\ active = IF stack = <<>> THEN NoWindow ELSE Last(stack)
  /\ \A i, j \in DOMAIN stack : stack[i] = stack[j] => i = j
===============================================================================
