------------------------------- MODULE MouseDrag ------------------------------
(***************************************************************************)
(* Mouse events from drivers/input/mouse.c through the event queue to      *)
(* kernel/wm/drag.c and on to the application windows of                   *)
(* apps/libapp/app_window.c.  All of it runs on the boot thread; events    *)
(* pile up between two calls of wm_drag_dispatch_pending, and an event     *)
(* that does not fit the queue is dropped.  The queue is the one           *)
(* EventQueue is shown to implement.                                       *)
(*                                                                         *)
(* The mouse is a real one: it presses a button that is up, releases one   *)
(* that is down, and reports the buttons that are down with every move.    *)
(***************************************************************************)
EXTENDS WindowManager

CONSTANTS
  Capacity,       \* INPUT_EVENT_QUEUE_CAPACITY
  Points,         \* where the mouse goes
  Buttons, Left,  \* the mouse buttons; INPUT_MOUSE_BUTTON_LEFT
  Owner,          \* the id of the task that opens each window
  Descs           \* the frame each window is opened with

ASSUME DragAssumption ==
  /\ Capacity \in Nat \ {0} /\ Points \subseteq Coord \X Coord
  /\ Left \in Buttons
  /\ Owner \in [Windows -> Nat \ {0}] /\ Descs \in [Windows -> Rect]

VARIABLES
  buttons,    \* g_mouse_state.buttons: those that are down
  queue,      \* g_input_event_queue
  bindings,   \* g_drag_state.bindings: the registered windows, with their tasks
  drag,       \* g_drag_state.drag_binding: an index of bindings, 0 for none
  offset,     \* g_drag_state.drag_offset_x, drag_offset_y
  apps,       \* g_bindings of app_window.c: the window of each task
  draining,   \* wm_drag_dispatch_pending is running
  sent,       \* the callback made for the last event, or Nothing
  pressed,    \* history: the window the left button was last pressed on
  lost        \* history: an event of this session was dropped

dragVars == <<bindings, drag, offset, apps>>
vars == <<wmVars, buttons, queue, dragVars, draining, sent, pressed, lost>>

Nothing == [kind |-> "nothing"]

Init ==
  /\ frame = Descs /\ stack = <<>> /\ active = NoWindow
  /\ buttons = {} /\ queue = <<>>
  /\ bindings = <<>> /\ drag = 0 /\ offset = <<0, 0>> /\ apps = <<>>
  /\ draining = FALSE /\ sent = Nothing /\ pressed = NoWindow /\ lost = FALSE

\* Mutant: A session that starts without wm_drag_reset.
StartSessionKeepsBindings ==
  /\ ~draining
  /\ wm_compositor_reset /\ UNCHANGED frame
  /\ UNCHANGED <<bindings, drag, offset>> /\ apps' = <<>>
  /\ buttons' = {} /\ queue' = <<>>
  /\ sent' = Nothing /\ pressed' = NoWindow /\ lost' = FALSE /\ UNCHANGED draining

\* The start of demo_window_app_task (and of the mouse test of kernel_main): a new
\* scene, no bindings, an empty queue.  mouse_reset forgets the buttons.
StartSession ==
  /\ ~draining
  /\ wm_compositor_reset /\ UNCHANGED frame
  /\ bindings' = <<>> /\ drag' = 0 /\ offset' = <<0, 0>> /\ apps' = <<>>
  /\ buttons' = {} /\ queue' = <<>>
  /\ sent' = Nothing /\ pressed' = NoWindow /\ lost' = FALSE /\ UNCHANGED draining

Bound(win) == {i \in DOMAIN bindings : bindings[i].window = win}

find_binding_for_window(win) ==
  IF Bound(win) = {} THEN 0 ELSE CHOOSE i \in Bound(win) : \A j \in Bound(win) : i <= j

\* Mutant: A table of applications searched without comparing the task.
WithAppFirst(task, win) ==
  IF apps = <<>> THEN <<[task |-> task, window |-> win]>> ELSE [apps EXCEPT ![1].window = win]

\* app_window.c keeps one window per task: the last one it opened.
WithApp(task, win) ==
  IF \E i \in DOMAIN apps : apps[i].task = task
    THEN [i \in DOMAIN apps |-> IF apps[i].task = task THEN [apps[i] EXCEPT !.window = win]
                                                       ELSE apps[i]]
    ELSE IF Len(apps) < MaxWindows THEN Append(apps, [task |-> task, window |-> win]) ELSE apps
AppOf(task) ==
  IF \E i \in DOMAIN apps : apps[i].task = task
    THEN apps[CHOOSE i \in DOMAIN apps : apps[i].task = task].window
    ELSE NoWindow

\* app_window_open initialises the window before it asks the compositor: a window
\* that is refused has already been moved.
app_window_open(win) ==
  /\ ~draining
  /\ frame' = [frame EXCEPT ![win] = Descs[win]]
  /\ IF CanAdd(win, Descs[win])
       THEN /\ AddWindow(win)
            /\ IF Len(bindings) < MaxWindows
                 THEN /\ bindings' = Append(bindings, [window |-> win, task |-> Owner[win]])
                      /\ apps' = WithApp(Owner[win], win)
                 ELSE UNCHANGED <<bindings, apps>>
       ELSE UNCHANGED <<stack, active, bindings, apps>>
  /\ sent' = Nothing
  /\ UNCHANGED <<buttons, queue, drag, offset, draining, pressed, lost>>

\* A program brings a window to the front itself.
Activate(win) ==
  /\ ~draining /\ wm_compositor_activate_window(win) /\ sent' = Nothing
  /\ UNCHANGED <<frame, buttons, queue, dragVars, draining, pressed, lost>>

\* mouse_emit: the state of the mouse changes also when the event is dropped.
mouse_emit(type, pt, down, button) ==
  /\ ~draining /\ buttons' = down
  /\ lost' = (lost \/ Len(queue) = Capacity)
  /\ queue' = IF Len(queue) < Capacity
                THEN Append(queue, [type |-> type, pt |-> pt, buttons |-> down, button |-> button])
                ELSE queue
  /\ sent' = Nothing
  /\ UNCHANGED <<wmVars, dragVars, draining, pressed>>

mouse_emit_move(pt) == mouse_emit("move", pt, buttons, {})
mouse_emit_button_down(pt, b) == b \notin buttons /\ mouse_emit("down", pt, buttons \cup {b}, {b})
mouse_emit_button_up(pt, b) == b \in buttons /\ mouse_emit("up", pt, buttons \ {b}, {b})

\* dispatch_to_task and app_window_dispatch_cb: binding i gets the event.
Dispatch(i, kind, pt) ==
  sent' = IF i = 0 \/ AppOf(bindings[i].task) = NoWindow THEN Nothing
          ELSE [kind |-> kind, window |-> bindings[i].window, pt |-> pt,
                app |-> AppOf(bindings[i].task)]

BindingAt(pt) == find_binding_for_window(wm_compositor_hit_test(pt))

process_mouse_move(e) ==
  /\ IF drag # 0 /\ Left \in e.buttons
       THEN /\ frame' = [frame EXCEPT ![bindings[drag].window].x = ClampSub(e.pt[1], offset[1]),
                                      ![bindings[drag].window].y = ClampSub(e.pt[2], offset[2])]
            /\ Dispatch(drag, "drag", e.pt)
       ELSE Dispatch(BindingAt(e.pt), "move", e.pt) /\ UNCHANGED frame
  /\ UNCHANGED <<stack, active, drag, offset, pressed>>

process_mouse_button_down(e) ==
  LET i == BindingAt(e.pt)
      win == bindings[i].window
      grabbed == Left \in e.button /\ InRect(wm_window_title_bar_rect(frame[win]), e.pt)
  IN /\ IF i = 0
          THEN sent' = Nothing /\ UNCHANGED <<stack, active, drag, offset>>
          ELSE /\ wm_compositor_activate_window(win)
               /\ Dispatch(i, "down", e.pt)
               /\ drag' = IF grabbed THEN i ELSE drag
               /\ offset' = IF grabbed THEN <<e.pt[1] - frame[win].x, e.pt[2] - frame[win].y>>
                                       ELSE offset
     /\ pressed' = IF Left \notin e.button THEN pressed ELSE IF i = 0 THEN NoWindow ELSE win
     /\ UNCHANGED frame

\* Mutant: A button-up that does not end the drag.
button_up_keeps_drag(e) ==
  /\ Dispatch(IF drag # 0 THEN drag ELSE BindingAt(e.pt), "up", e.pt)
  /\ UNCHANGED <<wmVars, drag, offset, pressed>>

process_mouse_button_up(e) ==
  /\ Dispatch(IF drag # 0 THEN drag ELSE BindingAt(e.pt), "up", e.pt)
  /\ drag' = IF Left \in e.button THEN 0 ELSE drag
  /\ UNCHANGED <<wmVars, offset, pressed>>

\* wm_drag_dispatch_pending pops and processes events until the queue is empty;
\* none is emitted meanwhile.
wm_drag_dispatch_pending ==
  /\ ~draining /\ queue # <<>> /\ draining' = TRUE /\ sent' = Nothing
  /\ UNCHANGED <<wmVars, buttons, queue, dragVars, pressed, lost>>

wm_drag_process_event ==
  /\ draining /\ queue # <<>> /\ queue' = Tail(queue)
  /\ \/ Head(queue).type = "move" /\ process_mouse_move(Head(queue))
     \/ Head(queue).type = "down" /\ process_mouse_button_down(Head(queue))
     \/ Head(queue).type = "up" /\ process_mouse_button_up(Head(queue))
  /\ UNCHANGED <<buttons, bindings, apps, draining, lost>>

DispatchReturn ==
  /\ draining /\ queue = <<>> /\ draining' = FALSE /\ sent' = Nothing
  /\ UNCHANGED <<wmVars, buttons, queue, dragVars, pressed, lost>>

Next ==
  \/ StartSession
  \/ \E win \in Windows : app_window_open(win) \/ Activate(win)
  \/ \E pt \in Points :
       \/ mouse_emit_move(pt)
       \/ \E b \in Buttons : mouse_emit_button_down(pt, b) \/ mouse_emit_button_up(pt, b)
  \/ wm_drag_dispatch_pending \/ wm_drag_process_event \/ DispatchReturn

Spec == Init /\ [][Next]_vars

-------------------------------------------------------------------------------
(* Properties *)

\* A window is in the scene exactly when it is registered for the mouse: a window
\* that can be seen can be clicked, and no binding outlives its scene.
SceneIsBound ==
  /\ Range(stack) = {bindings[i].window : i \in DOMAIN bindings}
  /\ Len(stack) = Len(bindings)

\* Every callback reaches the application that owns the window concerned: the
\* three tables (layers, drag bindings, app bindings) lead to the same window.
RoutedToOwner == sent # Nothing => sent.app = sent.window

\* A dragged window stays under the pointer, at the edges of the screen too, where
\* its position is clamped, and when it was reopened elsewhere during the drag.
DraggedUnderPointer ==
  sent # Nothing /\ sent.kind = "drag" => InRect(frame[sent.window], sent.pt)

\* As long as no event of the session was dropped, only the window the left button
\* was last pressed on is dragged, whatever else the other buttons do.  (A dropped
\* button-up leaves drag_binding set: a later press elsewhere drags the old window.)
DragFollowsPress ==
  ~lost /\ sent # Nothing /\ sent.kind = "drag" => sent.window = pressed
===============================================================================
