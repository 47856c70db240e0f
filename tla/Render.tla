-------------------------------- MODULE Render --------------------------------
(***************************************************************************)
(* Drawing: the clipped rectangles of kernel/gfx/framebuffer.c, and the    *)
(* scene that wm_compositor_render of kernel/wm/compositor.c paints with   *)
(* them.  A pixel holds what was painted on it, a window and one of its    *)
(* parts, instead of a colour.                                             *)
(***************************************************************************)
EXTENDS WindowManager

CONSTANTS
  Width, Height,    \* of the video mode
  Stride,           \* pixels from one row to the next
  TitleHash,        \* hash_title of each window
  AccentMin,        \* 8: the least width of a title's accent
  AccentInset       \* 4: its distance from the edges of the title bar

ASSUME RenderAssumption ==
  /\ {Width, Height} \subseteq Coord \ {0} /\ Stride \in Nat /\ Stride >= Width
  /\ TitleHash \in [Windows -> Nat] /\ AccentMin \in Nat /\ AccentInset \in 0 .. AccentMin

Background == <<NoWindow, "background">>

\* Mutant: the last row and column are cut off by one too few.
clip_one_more(start, size, limit) ==
  LET end == (start + size) % Word IN IF end < start \/ end > limit THEN limit ELSE end + 1

\* max_x and max_y of framebuffer_fill_rect: the sum may wrap around.
ClippedEnd(start, size, limit) ==
  LET end == (start + size) % Word IN IF end < start \/ end > limit THEN limit ELSE end

framebuffer_fill_rect(pixels, rect, paint) ==
  LET max_x == ClippedEnd(rect.x, rect.w, Width)
      max_y == ClippedEnd(rect.y, rect.h, Height)
  IN  IF rect.w = 0 \/ rect.h = 0 \/ rect.x >= Width \/ rect.y >= Height THEN pixels
      ELSE [i \in DOMAIN pixels |->
              IF i % Stride \in rect.x .. max_x - 1 /\ i \div Stride \in rect.y .. max_y - 1
                THEN paint ELSE pixels[i]]

\* The stripe in the title bar whose width stands for the title.
Accent(f, hash) ==
  LET bar == wm_window_title_bar_rect(f)
  IN  IF bar.w > AccentMin /\ bar.h > AccentInset
        THEN [x |-> (bar.x + AccentInset) % Word, y |-> (bar.y + AccentInset) % Word,
              w |-> AccentMin + (hash % (bar.w - AccentMin)) - AccentInset, h |-> 1]
        ELSE NoRect

wm_draw_window(pixels, win) ==
  LET f == frame[win]
      border == framebuffer_fill_rect(pixels, f, <<win, "border">>)
      title == framebuffer_fill_rect(border, wm_window_title_bar_rect(f), <<win, "title">>)
      content == framebuffer_fill_rect(title, wm_window_content_rect(f), <<win, "content">>)
  IN  IF ~wm_window_is_valid(f) THEN pixels
      ELSE framebuffer_fill_rect(content, Accent(f, TitleHash[win]), <<win, "title">>)

\* The background, then the windows from the back to the front.
wm_compositor_render ==
  LET screen == [x |-> 0, y |-> 0, w |-> Width, h |-> Height]
      blank == [i \in 0 .. Height * Stride - 1 |-> Background]
  IN  FoldLeft(wm_draw_window, framebuffer_fill_rect(blank, screen, Background), stack)

-------------------------------------------------------------------------------
(* Properties *)

\* What is seen is what is clicked: at every pixel of the screen, a click goes to
\* the window that the compositor has painted there, and it grabs the window
\* exactly where its title bar is painted, also where windows overlap, reach over
\* the edge of the screen or are so wide that their right edge wraps around.
\* Drawing clips sums, the hit test subtracts; they agree.  (Not for a window
\* within AccentInset pixels of the largest coordinate: its accent wraps around to
\* the other side of the screen, where no window is.)
VisibleIsHit ==
  LET pixels == wm_compositor_render
  IN  \A x \in 0 .. Width - 1, y \in 0 .. Height - 1 :
        LET shown == pixels[y * Stride + x]
            win == wm_compositor_hit_test(<<x, y>>)
        IN  /\ shown[1] = win
            /\ win # NoWindow =>
                 (shown[2] = "title") = InRect(wm_window_title_bar_rect(frame[win]), <<x, y>>)
===============================================================================
