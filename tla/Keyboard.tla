------------------------------- MODULE Keyboard -------------------------------
(***************************************************************************)
(* drivers/input/keyboard.c and kernel/input/keyboard_dispatch.c:          *)
(* scancodes become events, each event is queued with the window that has  *)
(* the focus at that moment, and the dispatcher later sends it to the      *)
(* endpoint registered for that window.                                    *)
(*                                                                         *)
(* A scancode is the prefix 0xe0 or a key with its break bit; a character  *)
(* is a printable key with the shift that applies to it.  The queue is a   *)
(* ring like the one of EventQueue, with the focus in a second array.      *)
(***************************************************************************)
EXTENDS WindowManager

CONSTANTS
  KeyCapacity,          \* KEYBOARD_EVENT_QUEUE_CAPACITY
  Printable, Space,     \* the keys with a character; the one shift does not change
  Control,              \* Enter, Backspace, Tab and Escape
  ShiftKeys             \* left and right shift; other keys have no meaning

ASSUME KeyboardAssumption ==
  /\ KeyCapacity \in Nat \ {0}
  /\ Printable \cap Control = {} /\ (Printable \cup Control) \cap ShiftKeys = {}
  /\ "e0" \notin Printable \cup Control \cup ShiftKeys

VARIABLES
  keys,         \* events[] and focus_windows[]
  shift,        \* shift_mask
  extended,     \* saw_extended_prefix
  endpoints     \* g_keyboard_dispatch_state.bindings

keyVars == <<keys, shift, extended>>

Scancode(key, break) == [key |-> key, break |-> break]
Prefix == Scancode("e0", TRUE)

Text(key, shifted) == [type |-> "text", key |-> key, shifted |-> shifted /\ key # Space]
ControlEvent(key) == [type |-> "control", key |-> key, shifted |-> FALSE]

keyboard_reset == keys' = <<>> /\ shift' = {} /\ extended' = FALSE

\* A full queue refuses the event; the focus is read when the event is queued.
keyboard_queue_push(event) ==
  keys' = IF Len(keys) < KeyCapacity THEN Append(keys, [event |-> event, focus |-> active]) ELSE keys

\* The release of a key that is not a shift is ignored, and so is a key that has no
\* meaning.
HandleKey(code) ==
  \/ /\ code.key \in ShiftKeys /\ UNCHANGED keys
     /\ shift' = IF code.break THEN shift \ {code.key} ELSE shift \cup {code.key}
  \/ /\ code.key \in Control /\ ~code.break /\ UNCHANGED shift
     /\ keyboard_queue_push(ControlEvent(code.key))
  \/ /\ code.key \in Printable /\ ~code.break /\ UNCHANGED shift
     /\ keyboard_queue_push(Text(code.key, shift # {}))
  \/ /\ code.key \notin ShiftKeys
     /\ code.break \/ code.key \notin Printable \cup Control
     /\ UNCHANGED <<keys, shift>>

\* The key after the prefix is ignored, whatever it is.
keyboard_handle_scancode(code) ==
  /\ extended' = (code = Prefix)
  /\ IF code = Prefix \/ extended THEN UNCHANGED <<keys, shift>> ELSE HandleKey(code)

\* The first index of a table whose entry satisfies a condition, or 0.
FirstIndex(S) == IF S = {} THEN 0 ELSE CHOOSE i \in S : \A j \in S : i <= j

find_endpoint(win) == FirstIndex({i \in DOMAIN endpoints : endpoints[i].window = win})

keyboard_dispatch_reset == endpoints' = <<>>

\* A known window gets a new endpoint, a full table refuses.
keyboard_dispatch_register_window(win, e) ==
  endpoints' =
    IF find_endpoint(win) # 0 THEN [endpoints EXCEPT ![find_endpoint(win)].endpoint = e]
    ELSE IF Len(endpoints) < MaxWindows THEN Append(endpoints, [window |-> win, endpoint |-> e])
    ELSE endpoints
===============================================================================
