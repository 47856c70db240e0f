------------------------------- MODULE Terminal -------------------------------
(***************************************************************************)
(* Terminal windows (kernel/wm/terminal_window.c) and their sessions       *)
(* (kernel/tty/terminal_session.c), fed by the keyboard dispatcher and     *)
(* driven the way apps/terminal/multi_terminal_test.c drives them.  All of *)
(* it runs on the boot thread; keys pile up between two calls of           *)
(* keyboard_dispatch_pending.                                              *)
(*                                                                         *)
(* A terminal is named by its window, which is a part of it.  A line is a  *)
(* sequence of characters; cd and mkdir change the directories of the      *)
(* session.  marker_hash, over what commands print, is left out, and so is *)
(* cwd_cache, which repeats the directory.                                 *)
(***************************************************************************)
EXTENDS Keyboard, PathState, FiniteSetsExt

CONSTANTS
  Terminals,              \* the windows that are terminals; the others are plain
  Endpoints, NoEndpoint,  \* endpoint ids; 0
  Descs,                  \* the frame each window is initialised with
  InputCap,               \* TERMINAL_SESSION_INPUT_CAP
  HistoryCap,             \* TERMINAL_SESSION_HISTORY_CAP
  Commands,               \* the lines that are a cd or a mkdir, with name and path
  MaxLines                \* bound: lines executed by all terminals

ASSUME TerminalAssumption ==
  /\ Terminals \subseteq Windows /\ NoEndpoint \notin Endpoints
  /\ Descs \in [Windows -> Rect]
  /\ {"enter", "backspace"} \subseteq Control
  /\ InputCap \in Nat \ {0} /\ HistoryCap \in Nat \ {0} /\ MaxLines \in Nat

VARIABLES
  bindings,   \* g_terminal_dispatch_state.bindings
  session,    \* the terminal_session_t of each terminal
  draining,   \* keyboard_dispatch_pending is running
  held,       \* external: the shift keys that are down
  recent      \* history: the last lines each terminal executed, oldest first

vars == <<wmVars, keyVars, endpoints, bindings, session, draining, held, recent>>

\* terminal_session_init
NewSession(e) ==
  [endpoint |-> e, input |-> <<>>, history |-> [i \in 0 .. HistoryCap - 1 |-> <<>>],
   count |-> 0, head |-> 0, lines |-> 0, tree |-> NewTree]

-------------------------------------------------------------------------------
(* Sessions *)

\* Mutant: a full ring always overwrites its first line.
HistoryHeadStays(s, line) ==
  IF s.count < HistoryCap
    THEN [s EXCEPT !.history[s.count] = line, !.count = @ + 1]
    ELSE [s EXCEPT !.history[s.head] = line]

\* A ring that fills up first and then overwrites its oldest line.
ts_store_history(s, line) ==
  IF s.count < HistoryCap
    THEN [s EXCEPT !.history[s.count] = line, !.count = @ + 1]
    ELSE [s EXCEPT !.history[s.head] = line, !.head = IF @ + 1 >= HistoryCap THEN 0 ELSE @ + 1]

\* shell_parse_line finds no word.
Blank(line) == \A i \in DOMAIN line : line[i].key = Space

execute_cd(tree, path) == fs_dir_cd(tree, path)
execute_mkdir(tree, path) == path_state_context_mkdir(tree, path)

\* The commands that only print, and unknown ones, leave the directories alone.
Execute(tree, line) ==
  IF line \notin DOMAIN Commands THEN tree
  ELSE IF Commands[line].name = "cd" THEN execute_cd(tree, Commands[line].path)
  ELSE execute_mkdir(tree, Commands[line].path)

terminal_session_execute_line(s, line) ==
  IF Blank(line) THEN s
  ELSE [ts_store_history(s, line) EXCEPT !.lines = @ + 1, !.tree = Execute(@, line)]

terminal_session_handle_event(s, event) ==
  CASE event.type = "text" ->
         IF Len(s.input) + 1 >= InputCap THEN s ELSE [s EXCEPT !.input = Append(@, event)]
    [] event.key = "backspace" ->
         IF s.input = <<>> THEN s ELSE [s EXCEPT !.input = Front(@)]
    [] event.key = "enter" ->
         [terminal_session_execute_line(s, s.input) EXCEPT !.input = <<>>]
    [] OTHER -> s

-------------------------------------------------------------------------------
(* Programs.  They initialise a terminal once, before they attach it.       *)

Init ==
  /\ frame = Descs /\ stack = <<>> /\ active = NoWindow
  /\ keys = <<>> /\ shift = {} /\ extended = FALSE /\ endpoints = <<>>
  /\ bindings = <<>> /\ session = [t \in Terminals |-> NewSession(NoEndpoint)]
  /\ draining = FALSE /\ held = {} /\ recent = [t \in Terminals |-> <<>>]

wm_terminal_window_dispatch_reset == bindings' = <<>>

\* The resets that close one multi_terminal_test_run and open the next, between two
\* sequences of the keyboard.  The terminals are locals of the run.
StartSession ==
  /\ ~draining /\ ~extended
  /\ keyboard_reset /\ keyboard_dispatch_reset /\ wm_terminal_window_dispatch_reset
  /\ wm_compositor_reset
  /\ session' = [t \in Terminals |-> NewSession(NoEndpoint)]
  /\ recent' = [t \in Terminals |-> <<>>]
  /\ UNCHANGED <<frame, draining, held>>

\* Another program adds a window that takes no keys.
AddPlain(win) ==
  /\ ~draining /\ win \notin Terminals /\ CanAdd(win, frame[win]) /\ AddWindow(win)
  /\ UNCHANGED <<frame, keyVars, endpoints, bindings, session, draining, held, recent>>

Activate(win) ==
  /\ ~draining /\ wm_compositor_activate_window(win)
  /\ UNCHANGED <<frame, keyVars, endpoints, bindings, session, draining, held, recent>>

find_binding_by_window(t) == FirstIndex({i \in DOMAIN bindings : bindings[i].window = t})
find_binding_by_endpoint(e) == FirstIndex({i \in DOMAIN bindings : bindings[i].endpoint = e})

wm_terminal_window_init(t, e) ==
  /\ ~draining /\ session[t].endpoint = NoEndpoint
  /\ frame' = [frame EXCEPT ![t] = Descs[t]]
  /\ session' = [session EXCEPT ![t] = NewSession(e)]
  /\ UNCHANGED <<stack, active, keyVars, endpoints, bindings, draining, held, recent>>

\* register_terminal_window refuses an endpoint of another terminal and one
\* terminal too many.
CanRegister(t, e) ==
  /\ e # NoEndpoint
  /\ IF find_binding_by_window(t) # 0
       THEN find_binding_by_endpoint(e) \in {0, find_binding_by_window(t)}
       ELSE find_binding_by_endpoint(e) = 0 /\ Len(bindings) < MaxWindows
Registered(t, e) ==
  IF find_binding_by_window(t) # 0
    THEN [bindings EXCEPT ![find_binding_by_window(t)].endpoint = e]
    ELSE Append(bindings, [window |-> t, endpoint |-> e])

\* Mutant: a failed attach leaves its binding behind.
StaysRegistered(b, t) == b

\* unregister_terminal_window: the last entry takes the place of the one removed.
Unregistered(b, t) ==
  LET i == CHOOSE k \in DOMAIN b : b[k].window = t
  IN  Front([b EXCEPT ![i] = Last(b)])

\* A terminal that the compositor refuses is unregistered again, unless it was
\* registered before.
wm_terminal_window_attach(t) ==
  LET e == session[t].endpoint
      registered == Registered(t, e)
  IN /\ ~draining /\ CanRegister(t, e)
     /\ IF CanAdd(t, frame[t])
          THEN bindings' = registered /\ AddWindow(t) /\ keyboard_dispatch_register_window(t, e)
          ELSE /\ bindings' = IF find_binding_by_window(t) # 0 THEN registered
                                                               ELSE Unregistered(registered, t)
               /\ UNCHANGED <<stack, active, endpoints>>
     /\ UNCHANGED <<frame, keyVars, session, draining, held, recent>>

-------------------------------------------------------------------------------
(* Keys *)

\* The keyboard: a shift key goes down when it is up and up when it is down; a key
\* with a prefix may carry the code of a shift.
Press(code) ==
  /\ ~draining /\ keyboard_handle_scancode(code)
  /\ IF ~extended /\ code.key \in ShiftKeys
       THEN /\ code.break = (code.key \in held)
            /\ held' = IF code.break THEN held \ {code.key} ELSE held \cup {code.key}
       ELSE UNCHANGED held
  /\ UNCHANGED <<wmVars, endpoints, bindings, session, draining, recent>>

keyboard_dispatch_pending ==
  /\ ~draining /\ keys # <<>> /\ draining' = TRUE
  /\ UNCHANGED <<wmVars, keyVars, endpoints, bindings, session, held, recent>>

\* Mutant: a key goes to the window that has the focus when it is dispatched.
TargetOfActive(win) ==
  LET k == find_endpoint(active)
      b == IF k = 0 THEN 0 ELSE find_binding_by_endpoint(endpoints[k].endpoint)
  IN  IF b = 0 THEN NoWindow ELSE bindings[b].window

\* dispatch_to_window_endpoint and wm_terminal_window_dispatch_event: the terminal
\* that gets a key queued under window win, if any.
Target(win) ==
  LET k == find_endpoint(win)
      b == IF k = 0 THEN 0 ELSE find_binding_by_endpoint(endpoints[k].endpoint)
  IN  IF b = 0 THEN NoWindow ELSE bindings[b].window

Executes(t, event) == event = ControlEvent("enter") /\ ~Blank(session[t].input)
Lines == MapThenSumSet(LAMBDA t : session[t].lines, Terminals)

DispatchOne ==
  LET event == Head(keys).event
      t == Target(Head(keys).focus)
  IN /\ draining /\ keys # <<>> /\ keys' = Tail(keys)
     /\ IF t = NoWindow THEN UNCHANGED <<session, recent>>
        ELSE /\ Executes(t, event) => Lines < MaxLines
             /\ session' = [session EXCEPT ![t] = terminal_session_handle_event(@, event)]
             /\ recent' = IF ~Executes(t, event) THEN recent
                          ELSE [recent EXCEPT ![t] =
                                  LET all == Append(@, session[t].input)
                                  IN  IF Len(all) > HistoryCap THEN Tail(all) ELSE all]
     /\ UNCHANGED <<wmVars, shift, extended, endpoints, bindings, draining, held>>

DispatchReturn ==
  /\ draining /\ keys = <<>> /\ draining' = FALSE
  /\ UNCHANGED <<wmVars, keyVars, endpoints, bindings, session, held, recent>>

Codes ==
  {Prefix} \cup {Scancode(k, b) : k \in Printable \cup Control \cup ShiftKeys, b \in BOOLEAN}

Next ==
  \/ StartSession
  \/ \E win \in Windows : AddPlain(win) \/ Activate(win)
  \/ \E t \in Terminals :
       wm_terminal_window_attach(t) \/ \E e \in Endpoints : wm_terminal_window_init(t, e)
  \/ \E code \in Codes : Press(code)
  \/ keyboard_dispatch_pending \/ DispatchOne \/ DispatchReturn

Spec == Init /\ [][Next]_vars

-------------------------------------------------------------------------------
(* Properties *)

\* The layers, the endpoints of the keyboard and the bindings of the terminals are
\* tables of three files: they hold the same terminals under the same endpoints,
\* and an attach that fails half-way leaves none of them changed.
TablesAgree ==
  /\ Range(endpoints) = Range(bindings)
  /\ {b.window : b \in Range(bindings)} = Range(stack) \cap Terminals
  /\ \A i, j \in DOMAIN bindings :
       bindings[i].window = bindings[j].window \/ bindings[i].endpoint = bindings[j].endpoint => i = j
  /\ \A b \in Range(bindings) : b.endpoint = session[b.window].endpoint

\* A key is handled by the terminal that had the focus when it was pressed, also
\* when the focus has moved on since, and by no other: line buffer, history and
\* directory of the other terminals stay as they are.  It was queued as a capital
\* only if a shift key was really down: prefixed codes never make the shift stick.
KeyReachesFocus ==
  [][/\ draining /\ keys # <<>> =>
          \A t \in Terminals :
            session'[t] = IF t = Head(keys).focus /\ Contains(stack, t)
                            THEN terminal_session_handle_event(session[t], Head(keys).event)
                            ELSE session[t]
     /\ Len(keys') > Len(keys) => (Last(keys').event.shifted => held # {})]_vars

\* Read from its oldest entry on, the history of a terminal is the last lines it
\* executed, in order.
HistoryKeepsLast ==
  \A t \in Terminals :
    LET s == session[t]
    IN  recent[t] = [k \in 1 .. s.count |-> s.history[(s.head + k - 1) % HistoryCap]]
===============================================================================
