---------------------------- MODULE MouseDragProofs ---------------------------
(***************************************************************************)
(* Proofs about MouseDrag, for every set of windows, every frame they are  *)
(* opened with, every capacity of the tables and of the queue, and every   *)
(* sequence of mouse events, dispatches, openings and activations.         *)
(***************************************************************************)
EXTENDS Desktop, SequenceTheorems, WellFoundedInduction, TLAPS

USE WindowAssumption, DragAssumption

Event == [type : {"move", "down", "up"}, pt : Coord \X Coord,
          buttons : SUBSET Buttons, button : SUBSET Buttons]
Entry == [window : Windows, task : Nat]

Types ==
  /\ frame \in [Windows -> Rect] /\ stack \in Seq(Windows)
  /\ buttons \subseteq Buttons /\ queue \in Seq(Event) /\ Len(queue) <= Capacity
  /\ bindings \in Seq(Entry) /\ apps \in Seq(Entry)
  /\ drag \in 0 .. Len(bindings) /\ offset \in Coord \X Coord

\* No window is registered twice, and each under the task that opened it.
BoundOnce ==
  /\ \A i, j \in DOMAIN bindings : bindings[i].window = bindings[j].window => i = j
  /\ \A i \in DOMAIN bindings : bindings[i].task = Owner[bindings[i].window]

SceneInv == Types /\ ActiveIsFront /\ SceneIsBound /\ BoundOnce

\* Nothing resizes a window, and the point at which a window is held is inside it.
Grip ==
  /\ \A win \in Windows : frame[win].w = Descs[win].w /\ frame[win].h = Descs[win].h
  /\ drag # 0 => /\ offset[1] < Descs[bindings[drag].window].w
                 /\ offset[2] < Descs[bindings[drag].window].h

LeftDown(e) == e.type = "down" /\ Left \in e.button
LeftUp(e) == e.type = "up" /\ Left \in e.button

\* In a queue q: a release between any two presses; a release before any press; a
\* release after any press; a release.
Alternate(q) ==
  \A i, j \in DOMAIN q : i < j /\ LeftDown(q[i]) /\ LeftDown(q[j])
    => \E k \in DOMAIN q : i < k /\ k < j /\ LeftUp(q[k])
UpFirst(q) == \A j \in DOMAIN q : LeftDown(q[j]) => \E k \in DOMAIN q : k < j /\ LeftUp(q[k])
DownClosed(q) == \A i \in DOMAIN q : LeftDown(q[i]) => \E k \in DOMAIN q : i < k /\ LeftUp(q[k])
HasUp(q) == \E k \in DOMAIN q : LeftUp(q[k])

\* The queue holds the presses and releases of the left button in turn, with the
\* drag as what is left of the events handled before: a drag has its press behind
\* and its release ahead, in the queue or still in the hand.
InTurn ==
  ~lost => /\ drag # 0 => pressed = bindings[drag].window
           /\ Alternate(queue)
           /\ drag # 0 => UpFirst(queue)
           /\ Left \notin buttons => DownClosed(queue) /\ (drag # 0 => HasUp(queue))

\* When no task opens two windows, the applications' table repeats the bindings.
OneWindowEach == \A v, w \in Windows : Owner[v] = Owner[w] => v = w
AppsFollow ==
  /\ Len(apps) = Len(bindings)
  /\ \A i \in DOMAIN apps : apps[i] = bindings[i]

-------------------------------------------------------------------------------
(* The operators *)

\* A set of indices that is not empty has a greatest one.
LEMMA GreatestIndex ==
  ASSUME NEW n \in Nat, NEW T, T \subseteq 1 .. n, T # {}
  PROVE  \E x \in T : \A y \in T : y <= x
<1> DEFINE U == {k \in Nat : k <= n /\ n - k \in T}
<1>1. \E R : /\ IsWellFoundedOn(R, Nat)
             /\ \A x, y \in Nat : x < y => <<x, y>> \in R
  <2>1. \A x, y \in Nat : x < y => <<x, y>> \in OpToRel(<, Nat)
    BY DEF OpToRel
  <2> QED BY <2>1, NatLessThanWellFounded, Zenon
<1>2. PICK R : /\ IsWellFoundedOn(R, Nat)
               /\ \A x, y \in Nat : x < y => <<x, y>> \in R
  BY <1>1
<1>3. U \subseteq Nat /\ U # {}
  <2>1. PICK t \in T : TRUE
    OBVIOUS
  <2>2. n - t \in U
    BY <2>1
  <2> QED BY <2>2
<1> HIDE DEF U
<1>4. PICK x \in U : \A y \in U : ~ (<<y, x>> \in R)
  <2>1. \A Q, S, V : IsWellFoundedOn(Q, S) /\ V \subseteq S /\ V # {}
                       => \E x \in V : \A y \in V : ~ (<<y, x>> \in Q)
    BY WFMin, Zenon
  <2>2. IsWellFoundedOn(R, Nat)
    BY <1>2
  <2>3. \E x \in U : \A y \in U : ~ (<<y, x>> \in R)
    BY <1>3, <2>1, <2>2
  <2> QED BY <2>3, Zenon
<1>5. \A y \in U : ~ (y < x)
  BY <1>2, <1>3, <1>4, Zenon
<1>6. n - x \in T /\ x \in Nat /\ x <= n
  BY <1>4 DEF U
<1>7. ASSUME NEW y \in T PROVE y <= n - x
  <2>1. y \in 1 .. n /\ n - y \in Nat /\ n - (n - y) = y
    OBVIOUS
  <2>2. n - y \in U
    BY <2>1 DEF U
  <2>3. ~ (n - y < x)
    BY <1>5, <2>2
  <2> QED BY <1>6, <2>1, <2>3
<1> QED BY <1>6, <1>7

\* A window that is hit is in the scene and contains the point.
LEMMA HitIs ==
  ASSUME Types, NEW pt, NEW win, win = wm_compositor_hit_test(pt), win # NoWindow
  PROVE  win \in Range(stack) /\ InRect(frame[win], pt)
<1>1. Hit(pt) # {}
  BY DEF wm_compositor_hit_test
<1>2. Len(stack) \in Nat /\ Hit(pt) \subseteq 1 .. Len(stack) /\ DOMAIN stack = 1 .. Len(stack)
  BY DEF Types, Hit
<1>3. \E i \in Hit(pt) : \A j \in Hit(pt) : j <= i
  BY <1>1, <1>2, GreatestIndex
<1>4. \E i \in Hit(pt) : win = stack[i]
  BY <1>1, <1>3 DEF wm_compositor_hit_test
<1> QED BY <1>4 DEF Hit, Range

\* A binding that is found at a point has a window that contains the point.
LEMMA BindingIs ==
  ASSUME SceneInv, NEW pt, NEW i, i = BindingAt(pt)
  PROVE  i = 0 \/ (i \in DOMAIN bindings /\ InRect(frame[bindings[i].window], pt))
<1> DEFINE win == wm_compositor_hit_test(pt)
<1>1. CASE Bound(win) = {}
  BY <1>1 DEF BindingAt, find_binding_for_window
<1>2. CASE Bound(win) # {}
  <2>1. PICK b \in DOMAIN bindings : bindings[b].window = win
    BY <1>2 DEF Bound
  <2>2. DOMAIN bindings = 1 .. Len(bindings) /\ bindings[b] \in Entry
    BY <2>1 DEF SceneInv, Types
  <2>3. win # NoWindow
    BY <2>1, <2>2 DEF Entry
  <2>4. \A j \in Bound(win) : j = b
    BY <2>1 DEF Bound, SceneInv, BoundOnce
  <2>5. b \in Bound(win) /\ b \in Nat
    BY <2>1, <2>2 DEF Bound
  <2>6. \E j \in Bound(win) : \A k \in Bound(win) : j <= k
    BY <2>4, <2>5
  <2>7. i \in Bound(win)
    BY <1>2, <2>6 DEF BindingAt, find_binding_for_window
  <2>8. i = b
    BY <2>4, <2>7
  <2>9. InRect(frame[win], pt)
    BY <2>3, HitIs DEF SceneInv
  <2> QED BY <2>1, <2>8, <2>9
<1> QED BY <1>1, <1>2

\* Moving a window to the front permutes the layers and takes the focus along.
LEMMA FrontIs ==
  ASSUME Types, ActiveIsFront, NEW win, wm_compositor_activate_window(win)
  PROVE  /\ stack' \in Seq(Windows) /\ Len(stack') = Len(stack)
         /\ Range(stack') = Range(stack) /\ ActiveIsFront'
<1>1. stack \in Seq(Windows) /\ Len(stack) \in Nat /\ DOMAIN stack = 1 .. Len(stack)
  BY DEF Types
<1>2. CASE ~Contains(stack, win)
  BY <1>1, <1>2 DEF wm_compositor_activate_window, ActiveIsFront
<1>3. CASE Contains(stack, win)
  <2> DEFINE n == Len(stack)
             index == wm_layers_index_of(win)
  <2>1. index \in 1 .. n /\ stack[index] = win
    <3>1. PICK i \in 1 .. n : stack[i] = win
      BY <1>3 DEF Contains
    <3>2. \A j \in 1 .. i - 1 : stack[j] # win
      BY <1>1, <3>1, SMTT(30) DEF ActiveIsFront
    <3>3. \E k \in DOMAIN stack : stack[k] = win /\ \A j \in 1 .. k - 1 : stack[j] # win
      BY <1>1, <3>1, <3>2
    <3> QED BY <1>1, <3>3 DEF wm_layers_index_of
  <2>2. n \in Nat \ {0} /\ win \in Windows
    BY <1>1, <2>1
  <2> HIDE DEF index
  <2> DEFINE f == [i \in 1 .. n |-> IF i < index THEN stack[i]
                                   ELSE IF i < n THEN stack[i + 1] ELSE win]
  <2>3. stack' = f /\ active' = win
    BY <1>1, <1>3 DEF wm_compositor_activate_window, wm_layers_move_to_front, index
  <2>4. f \in [1 .. n -> Windows]
    BY <1>1, <2>1, <2>2
  <2>5. f \in Seq(Windows) /\ Len(f) = n /\ DOMAIN f = 1 .. n
    BY <2>2, <2>4
  <2>6. ASSUME NEW i \in 1 .. n
        PROVE  \E j \in 1 .. n : f[i] = stack[j]
                                 /\ j = (IF i < index THEN i ELSE IF i < n THEN i + 1 ELSE index)
    BY <2>1, <2>2
  <2>7. ASSUME NEW j \in 1 .. n PROVE \E i \in 1 .. n : f[i] = stack[j]
    <3>1. CASE j < index
      BY <3>1
    <3>2. CASE j = index
      <4>1. n \in 1 .. n /\ f[n] = win
        BY <2>1, <2>2
      <4> QED BY <2>1, <3>2, <4>1
    <3>3. CASE j > index
      <4>1. j - 1 \in 1 .. n /\ j - 1 < n /\ ~(j - 1 < index) /\ (j - 1) + 1 = j
        BY <2>1, <2>2, <3>3
      <4>2. f[j - 1] = stack[j]
        BY <4>1
      <4> QED BY <4>1, <4>2
    <3> QED BY <2>1, <2>2, <3>1, <3>2, <3>3
  <2> HIDE DEF f
  <2>8. Range(f) = Range(stack)
    <3>1. Range(f) = {f[i] : i \in 1 .. n} /\ Range(stack) = {stack[i] : i \in 1 .. n}
      BY <1>1, <2>5 DEF Range
    <3>2. \A i \in 1 .. n : \E j \in 1 .. n : f[i] = stack[j]
      BY <2>6
    <3>3. \A j \in 1 .. n : \E i \in 1 .. n : f[i] = stack[j]
      BY <2>7
    <3> HIDE DEF n
    <3> QED BY <3>1, <3>2, <3>3
  <2>9. f # <<>> /\ Last(f) = win
    <3>1. f[n] = win
      BY <2>1, <2>2 DEF f
    <3> QED BY <2>2, <2>5, <3>1 DEF Last
  <2>10. ASSUME NEW i \in 1 .. n, NEW k \in 1 .. n, f[i] = f[k] PROVE i = k
    <3>1. PICK a \in 1 .. n : f[i] = stack[a]
                /\ a = (IF i < index THEN i ELSE IF i < n THEN i + 1 ELSE index)
      BY <2>6
    <3>2. PICK b \in 1 .. n : f[k] = stack[b]
                /\ b = (IF k < index THEN k ELSE IF k < n THEN k + 1 ELSE index)
      BY <2>6
    <3>3. a = b
      BY <1>1, <2>10, <3>1, <3>2 DEF ActiveIsFront
    <3> QED BY <2>1, <2>2, <3>1, <3>2, <3>3
  <2>11. ActiveIsFront'
    BY <2>3, <2>5, <2>9, <2>10 DEF ActiveIsFront
  <2> QED BY <2>3, <2>5, <2>8, <2>11
<1> QED BY <1>2, <1>3

-------------------------------------------------------------------------------
(* The scene and its bindings *)

\* What an added window does to the layers.
LEMMA AddIs ==
  ASSUME Types, ActiveIsFront, NEW win \in Windows, ~Contains(stack, win), AddWindow(win)
  PROVE  /\ stack' \in Seq(Windows) /\ Len(stack') = Len(stack) + 1
         /\ Range(stack') = Range(stack) \cup {win} /\ ActiveIsFront'
<1> DEFINE n == Len(stack)
<1>1. stack \in Seq(Windows) /\ n \in Nat /\ DOMAIN stack = 1 .. n
  BY DEF Types
<1>2. stack' = Append(stack, win) /\ active' = win
  BY DEF AddWindow
<1>3. /\ stack' \in Seq(Windows) /\ Len(stack') = n + 1
      /\ \A i \in 1 .. n : stack'[i] = stack[i]
      /\ stack'[n + 1] = win
  BY <1>1, <1>2, AppendProperties
<1>4. DOMAIN stack' = 1 .. n + 1
  BY <1>3
<1>5. \A i \in 1 .. n : stack[i] # win
  BY DEF Contains
<1> HIDE DEF n
<1>6. Range(stack') = Range(stack) \cup {win}
  <2>1. Range(stack') = {stack'[i] : i \in 1 .. n + 1} /\ Range(stack) = {stack[i] : i \in 1 .. n}
    BY <1>1, <1>4 DEF Range
  <2>2. 1 .. n + 1 = (1 .. n) \cup {n + 1}
    BY <1>1
  <2>3. ASSUME NEW x \in Range(stack') PROVE x \in Range(stack) \cup {win}
    <3>1. PICK i \in 1 .. n + 1 : x = stack'[i]
      BY <2>1, <2>3
    <3>2. i \in 1 .. n \/ i = n + 1
      BY <2>2
    <3> QED BY <1>3, <2>1, <3>1, <3>2
  <2>4. ASSUME NEW x \in Range(stack) \cup {win} PROVE x \in Range(stack')
    <3>1. (\E i \in 1 .. n : x = stack'[i]) \/ x = stack'[n + 1]
      BY <1>3, <2>1, <2>4
    <3> QED BY <2>1, <2>2, <3>1
  <2> QED BY <2>3, <2>4
<1>7. stack' # <<>> /\ Last(stack') = win
  BY <1>1, <1>3 DEF Last
<1>8. ASSUME NEW i \in 1 .. n + 1, NEW j \in 1 .. n + 1, stack'[i] = stack'[j]
      PROVE  i = j
  <2>1. i \in 1 .. n \/ i = n + 1
    BY <1>1
  <2>2. j \in 1 .. n \/ j = n + 1
    BY <1>1
  <2> QED BY <1>1, <1>3, <1>5, <1>8, <2>1, <2>2 DEF ActiveIsFront
<1>9. ActiveIsFront'
  BY <1>2, <1>4, <1>7, <1>8 DEF ActiveIsFront
<1> QED BY <1>3, <1>6, <1>9 DEF n

\* The applications' table stays one.
LEMMA WithAppIs ==
  ASSUME Types, NEW task \in Nat, NEW win \in Windows
  PROVE  WithApp(task, win) \in Seq(Entry)
<1> DEFINE f == [i \in 1 .. Len(apps) |-> IF apps[i].task = task
                                            THEN [apps[i] EXCEPT !.window = win] ELSE apps[i]]
<1>1. apps \in Seq(Entry) /\ Len(apps) \in Nat /\ DOMAIN apps = 1 .. Len(apps)
  BY DEF Types
<1>2. [task |-> task, window |-> win] \in Entry
  BY DEF Entry
<1>3. Append(apps, [task |-> task, window |-> win]) \in Seq(Entry)
  BY <1>1, <1>2, AppendProperties
<1>4. ASSUME NEW i \in 1 .. Len(apps) PROVE f[i] \in Entry
  <2>1. apps[i] \in Entry
    BY <1>1
  <2>2. [apps[i] EXCEPT !.window = win] \in Entry
    BY <2>1 DEF Entry
  <2> QED BY <2>1, <2>2
<1>5. f \in [1 .. Len(apps) -> Entry]
  BY <1>4
<1>6. f \in Seq(Entry)
  BY <1>1, <1>5
<1> QED BY <1>1, <1>3, <1>6 DEF WithApp

\* An opened window enters the three tables, a refused one none of them.
LEMMA OpenStep ==
  ASSUME SceneInv, NEW win \in Windows, app_window_open(win)
  PROVE  /\ SceneInv'
         /\ \/ UNCHANGED <<bindings, apps>>
            \/ /\ bindings' = Append(bindings, [window |-> win, task |-> Owner[win]])
               /\ apps' = WithApp(Owner[win], win)
               /\ \A i \in DOMAIN bindings : bindings[i].window # win
               /\ Len(bindings) < MaxWindows
<1> USE DEF SceneInv
<1>0. /\ frame' = [frame EXCEPT ![win] = Descs[win]]
      /\ UNCHANGED <<buttons, queue, drag, offset>>
  BY DEF app_window_open
<1>1. frame' \in [Windows -> Rect]
  BY <1>0 DEF Types
<1>2. bindings \in Seq(Entry) /\ Len(bindings) \in Nat /\ DOMAIN bindings = 1 .. Len(bindings)
  BY DEF Types
<1>3. CASE ~CanAdd(win, Descs[win])
  <2>1. UNCHANGED <<stack, active, bindings, apps>>
    BY <1>3 DEF app_window_open
  <2> QED BY <1>0, <1>1, <2>1, SMTT(30) DEF Types, ActiveIsFront, SceneIsBound, BoundOnce
<1>4. CASE CanAdd(win, Descs[win])
  <2> DEFINE new == [window |-> win, task |-> Owner[win]]
             n == Len(bindings)
  <2>1. ~Contains(stack, win) /\ n < MaxWindows /\ AddWindow(win)
    BY <1>4 DEF CanAdd, SceneIsBound, app_window_open
  <2>2. bindings' = Append(bindings, new) /\ apps' = WithApp(Owner[win], win)
    BY <1>4, <2>1 DEF app_window_open
  <2>3. /\ stack' \in Seq(Windows) /\ Len(stack') = Len(stack) + 1
        /\ Range(stack') = Range(stack) \cup {win} /\ ActiveIsFront'
    BY <2>1, AddIs
  <2>4. new \in Entry /\ Owner[win] \in Nat
    BY DEF Entry
  <2>5. /\ bindings' \in Seq(Entry) /\ Len(bindings') = n + 1
        /\ \A i \in 1 .. n : bindings'[i] = bindings[i]
        /\ bindings'[n + 1] = new
    BY <1>2, <2>2, <2>4, AppendProperties
  <2>6. DOMAIN bindings' = 1 .. n + 1 /\ 1 .. n + 1 = (1 .. n) \cup {n + 1}
    BY <1>2, <2>5
  <2>7. apps' \in Seq(Entry)
    BY <2>2, <2>4, WithAppIs
  <2>8. Types'
    BY <1>0, <1>1, <1>2, <2>3, <2>5, <2>7, SMTT(30) DEF Types
  <2>9. ASSUME NEW i \in 1 .. n PROVE bindings[i].window # win
    <3>1. bindings[i].window \in Range(stack)
      BY <1>2 DEF SceneIsBound
    <3>2. win \notin Range(stack)
      BY <2>1 DEF Contains, Range, Types
    <3> QED BY <3>1, <3>2
  <2>10. SceneIsBound'
    <3> HIDE DEF n, new
    <3>1. {bindings'[i].window : i \in 1 .. n + 1}
             = {bindings[i].window : i \in 1 .. n} \cup {new.window}
      BY <2>5, <2>6, SMTT(30)
    <3>2. new.window = win
      BY DEF new
    <3> QED BY <1>2, <2>3, <2>5, <2>6, <3>1, <3>2 DEF SceneIsBound, n
  <2>11. BoundOnce'
    <3>1. ASSUME NEW i \in 1 .. n + 1, NEW j \in 1 .. n + 1,
                 bindings'[i].window = bindings'[j].window
          PROVE  i = j
      <4>1. (i \in 1 .. n \/ i = n + 1) /\ (j \in 1 .. n \/ j = n + 1)
        BY <1>2
      <4>2. \A k \in 1 .. n : bindings'[k].window = bindings[k].window
        BY <2>5
      <4>3. bindings'[n + 1].window = win
        BY <2>5
      <4>4. CASE i \in 1 .. n /\ j \in 1 .. n
        BY <1>2, <3>1, <4>2, <4>4 DEF BoundOnce
      <4>5. CASE i = n + 1 \/ j = n + 1
        BY <2>9, <3>1, <4>1, <4>2, <4>3, <4>5
      <4> QED BY <4>1, <4>4, <4>5
    <3>2. ASSUME NEW i \in 1 .. n + 1 PROVE bindings'[i].task = Owner[bindings'[i].window]
      <4>1. i \in 1 .. n \/ i = n + 1
        BY <1>2
      <4>2. CASE i \in 1 .. n
        <5>1. bindings'[i] = bindings[i]
          BY <2>5, <4>2
        <5>2. bindings[i].task = Owner[bindings[i].window]
          BY <1>2, <4>2 DEF BoundOnce
        <5> QED BY <5>1, <5>2
      <4>3. CASE i = n + 1
        <5>1. bindings'[i] = new
          BY <2>5, <4>3
        <5> QED BY <5>1 DEF new
      <4> QED BY <4>1, <4>2, <4>3
    <3> QED BY <2>6, <3>1, <3>2 DEF BoundOnce
  <2> QED BY <1>2, <2>1, <2>2, <2>3, <2>8, <2>9, <2>10, <2>11
<1> QED BY <1>3, <1>4

\* Emitting an event changes nothing but the queue.
LEMMA EmitStep ==
  ASSUME SceneInv, NEW type \in {"move", "down", "up"}, NEW pt \in Points,
         NEW down \in SUBSET Buttons, NEW button \in SUBSET Buttons,
         mouse_emit(type, pt, down, button)
  PROVE  SceneInv' /\ UNCHANGED <<wmVars, dragVars, pressed>> /\ sent' = Nothing
<1> DEFINE e == [type |-> type, pt |-> pt, buttons |-> down, button |-> button]
<1>1. UNCHANGED <<frame, stack, active, bindings, drag, offset, apps, pressed>> /\ sent' = Nothing
      /\ buttons' \subseteq Buttons
  BY DEF mouse_emit, wmVars, dragVars
<1>2. e \in Event
  BY DEF Event
<1>3. queue' \in Seq(Event) /\ Len(queue') <= Capacity
  <2>1. queue \in Seq(Event) /\ Len(queue) \in Nat /\ Len(queue) <= Capacity
    BY DEF SceneInv, Types
  <2>2. Append(queue, e) \in Seq(Event) /\ Len(Append(queue, e)) = Len(queue) + 1
    BY <1>2, <2>1, AppendProperties
  <2> QED BY <2>1, <2>2 DEF mouse_emit
<1> QED BY <1>1, <1>3 DEF SceneInv, Types, ActiveIsFront, SceneIsBound, BoundOnce, wmVars, dragVars

\* Only a press on a window changes a drag, to one of that window.
LEMMA DownIs ==
  ASSUME SceneInv, NEW e \in Event, process_mouse_button_down(e), UNCHANGED bindings
  PROVE  /\ UNCHANGED frame /\ stack' \in Seq(Windows) /\ Len(stack') = Len(stack)
         /\ Range(stack') = Range(stack) /\ ActiveIsFront'
         /\ \/ UNCHANGED <<drag, offset>>
            \/ /\ drag' \in DOMAIN bindings /\ Left \in e.button
               /\ pressed' = bindings[drag'].window
               /\ InRect(frame[bindings[drag'].window], e.pt)
               /\ offset' = <<e.pt[1] - frame[bindings[drag'].window].x,
                              e.pt[2] - frame[bindings[drag'].window].y>>
         /\ Left \notin e.button => UNCHANGED pressed
         /\ sent' = Nothing \/ sent'.kind = "down"
<1> DEFINE i == BindingAt(e.pt)
           win == bindings[i].window
<1>1. i = 0 \/ (i \in DOMAIN bindings /\ InRect(frame[win], e.pt))
  BY BindingIs
<1>2. Left \notin e.button => UNCHANGED pressed
  BY DEF process_mouse_button_down
<1>3. UNCHANGED frame
  BY DEF process_mouse_button_down
<1>4. CASE i = 0
  <2>1. sent' = Nothing /\ UNCHANGED <<stack, active, drag, offset>>
    BY <1>4 DEF process_mouse_button_down
  <2> QED BY <1>2, <1>3, <2>1 DEF SceneInv, Types, ActiveIsFront
<1>5. CASE i # 0
  <2>1. wm_compositor_activate_window(win)
    BY <1>5 DEF process_mouse_button_down
  <2>2. /\ stack' \in Seq(Windows) /\ Len(stack') = Len(stack)
        /\ Range(stack') = Range(stack) /\ ActiveIsFront'
    BY <2>1, FrontIs DEF SceneInv
  <2>3. sent' = Nothing \/ sent'.kind = "down"
    BY <1>5 DEF process_mouse_button_down, Dispatch
  <2> DEFINE grabbed == Left \in e.button /\ InRect(wm_window_title_bar_rect(frame[win]), e.pt)
  <2>4. /\ drag' = IF grabbed THEN i ELSE drag
        /\ offset' = IF grabbed THEN <<e.pt[1] - frame[win].x, e.pt[2] - frame[win].y>> ELSE offset
        /\ Left \in e.button => pressed' = win
    BY <1>5 DEF process_mouse_button_down
  <2> HIDE DEF i
  <2> QED BY <1>1, <1>2, <1>3, <1>5, <2>2, <2>3, <2>4
<1> QED BY <1>4, <1>5

\* Handling an event leaves the scene and its bindings together.
LEMMA ProcessStep ==
  ASSUME SceneInv, wm_drag_process_event
  PROVE  SceneInv'
<1> USE DEF SceneInv
<1> DEFINE e == Head(queue)
<1>1. queue \in Seq(Event) /\ queue # <<>> /\ queue' = Tail(queue)
      /\ UNCHANGED <<buttons, bindings, apps>>
  BY DEF Types, wm_drag_process_event
<1>2. e \in Event /\ queue' \in Seq(Event) /\ Len(queue') <= Capacity
  <2>1. Len(queue) <= Capacity /\ Len(queue) \in Nat
    BY DEF Types
  <2> QED BY <1>1, <2>1, HeadTailProperties
<1> HIDE DEF e
<1>3. CASE process_mouse_move(e)
  <2>1. UNCHANGED <<stack, active, drag, offset>>
    BY <1>3 DEF process_mouse_move
  <2>2. frame' \in [Windows -> Rect]
    <3>1. CASE UNCHANGED frame
      BY <3>1 DEF Types
    <3>2. CASE drag # 0 /\ Left \in e.buttons
      <4> DEFINE win == bindings[drag].window
                 x == ClampSub(e.pt[1], offset[1])
                 y == ClampSub(e.pt[2], offset[2])
      <4>1. win \in Windows
        <5>1. drag \in 1 .. Len(bindings) /\ bindings \in Seq(Entry)
          BY <3>2 DEF Types
        <5>2. bindings[drag] \in Entry
          BY <5>1
        <5> QED BY <5>2 DEF Entry
      <4>2. x \in Coord /\ y \in Coord
        <5>1. e.pt \in Coord \X Coord /\ offset \in Coord \X Coord
          BY <1>2 DEF Event, Types
        <5>2. /\ e.pt[1] \in 0 .. Word - 1 /\ e.pt[2] \in 0 .. Word - 1
              /\ offset[1] \in 0 .. Word - 1 /\ offset[2] \in 0 .. Word - 1
          BY <5>1 DEF Coord
        <5> QED BY <5>2 DEF Coord, ClampSub
      <4> HIDE DEF win, x, y
      <4>3. frame' = [frame EXCEPT ![win].x = x, ![win].y = y]
        BY <1>3, <3>2 DEF process_mouse_move, win, x, y
      <4>4. frame' = [frame EXCEPT ![win] = [frame[win] EXCEPT !.x = x, !.y = y]]
        BY <4>1, <4>3 DEF Types, Rect
      <4>5. [frame[win] EXCEPT !.x = x, !.y = y] \in Rect
        <5>1. frame[win] \in Rect
          BY <4>1 DEF Types
        <5> QED BY <4>2, <5>1 DEF Rect
      <4> QED BY <4>1, <4>4, <4>5 DEF Types
    <3> QED BY <1>3, <3>1, <3>2 DEF process_mouse_move
  <2> QED BY <1>1, <1>2, <2>1, <2>2 DEF Types, ActiveIsFront, SceneIsBound, BoundOnce
<1>4. CASE process_mouse_button_down(e)
  <2>1. /\ UNCHANGED frame /\ stack' \in Seq(Windows) /\ Len(stack') = Len(stack)
        /\ Range(stack') = Range(stack) /\ ActiveIsFront'
        /\ \/ UNCHANGED <<drag, offset>>
           \/ /\ drag' \in DOMAIN bindings
              /\ InRect(frame[bindings[drag'].window], e.pt)
              /\ offset' = <<e.pt[1] - frame[bindings[drag'].window].x,
                             e.pt[2] - frame[bindings[drag'].window].y>>
    BY <1>1, <1>2, <1>4, DownIs
  <2>2. drag' \in 0 .. Len(bindings) /\ offset' \in Coord \X Coord
    <3>1. CASE UNCHANGED <<drag, offset>>
      BY <3>1 DEF Types
    <3>2. CASE /\ drag' \in DOMAIN bindings
               /\ InRect(frame[bindings[drag'].window], e.pt)
               /\ offset' = <<e.pt[1] - frame[bindings[drag'].window].x,
                              e.pt[2] - frame[bindings[drag'].window].y>>
      <4> DEFINE f == frame[bindings[drag'].window]
      <4>1. DOMAIN bindings = 1 .. Len(bindings) /\ bindings[drag'] \in Entry
        BY <3>2 DEF Types
      <4>2. f \in Rect
        BY <4>1 DEF Types, Entry
      <4>3. e.pt \in Coord \X Coord
        BY <1>2 DEF Event
      <4> HIDE DEF f
      <4>4. /\ f.x \in 0 .. Word - 1 /\ f.y \in 0 .. Word - 1
            /\ e.pt[1] \in 0 .. Word - 1 /\ e.pt[2] \in 0 .. Word - 1
        BY <4>2, <4>3 DEF Rect, Coord
      <4>5. e.pt[1] >= f.x /\ e.pt[2] >= f.y /\ offset' = <<e.pt[1] - f.x, e.pt[2] - f.y>>
        BY <3>2 DEF InRect, f
      <4>6. e.pt[1] - f.x \in Coord /\ e.pt[2] - f.y \in Coord
        BY <4>4, <4>5 DEF Coord
      <4> QED BY <3>2, <4>1, <4>5, <4>6
    <3> QED BY <2>1, <3>1, <3>2
  <2>3. Types'
    BY <1>1, <1>2, <2>1, <2>2 DEF Types
  <2>4. SceneIsBound' /\ BoundOnce'
    BY <1>1, <2>1 DEF SceneIsBound, BoundOnce
  <2> QED BY <2>1, <2>3, <2>4
<1>5. CASE process_mouse_button_up(e)
  <2>1. UNCHANGED <<frame, stack, active, offset>> /\ drag' \in {0, drag}
    BY <1>5 DEF process_mouse_button_up, wmVars
  <2> QED BY <1>1, <1>2, <2>1 DEF Types, ActiveIsFront, SceneIsBound, BoundOnce
<1> QED BY <1>3, <1>4, <1>5 DEF wm_drag_process_event, e

LEMMA SceneStart ==
  ASSUME Init
  PROVE  SceneInv
<1>1. /\ frame = Descs /\ stack = <<>> /\ active = NoWindow /\ buttons = {} /\ queue = <<>>
      /\ bindings = <<>> /\ drag = 0 /\ offset = <<0, 0>> /\ apps = <<>>
  BY DEF Init
<1>2. <<0, 0>> \in Coord \X Coord
  BY DEF Coord
<1>3. Types
  BY <1>1, <1>2 DEF Types
<1>4. SceneIsBound
  BY <1>1 DEF SceneIsBound, Range
<1> QED BY <1>1, <1>3, <1>4 DEF SceneInv, ActiveIsFront, BoundOnce

LEMMA StartStep ==
  ASSUME SceneInv, StartSession
  PROVE  SceneInv'
<1>1. /\ UNCHANGED frame /\ stack' = <<>> /\ active' = NoWindow /\ buttons' = {}
      /\ queue' = <<>> /\ bindings' = <<>> /\ drag' = 0 /\ offset' = <<0, 0>> /\ apps' = <<>>
  BY DEF StartSession, wm_compositor_reset
<1>2. <<0, 0>> \in Coord \X Coord
  BY DEF Coord
<1>3. Types'
  BY <1>1, <1>2 DEF SceneInv, Types
<1>4. SceneIsBound'
  BY <1>1 DEF SceneIsBound, Range
<1> QED BY <1>1, <1>3, <1>4 DEF SceneInv, ActiveIsFront, BoundOnce

\* The events the mouse emits.
Emits ==
  \E pt \in Points :
    \/ mouse_emit_move(pt)
    \/ \E b \in Buttons : mouse_emit_button_down(pt, b) \/ mouse_emit_button_up(pt, b)

LEMMA EmitsStep ==
  ASSUME SceneInv, Emits
  PROVE  SceneInv' /\ UNCHANGED <<wmVars, dragVars, pressed>> /\ sent' = Nothing
<1>1. buttons \in SUBSET Buttons
  BY DEF SceneInv, Types
<1>2. PICK pt \in Points : \/ mouse_emit_move(pt)
                          \/ \E b \in Buttons : mouse_emit_button_down(pt, b)
                                               \/ mouse_emit_button_up(pt, b)
  BY DEF Emits
<1>3. CASE mouse_emit_move(pt)
  BY <1>1, <1>3, EmitStep DEF mouse_emit_move
<1>4. ASSUME NEW b \in Buttons, mouse_emit_button_down(pt, b)
      PROVE  SceneInv' /\ UNCHANGED <<wmVars, dragVars, pressed>> /\ sent' = Nothing
  <2>1. buttons \cup {b} \in SUBSET Buttons /\ {b} \in SUBSET Buttons
    BY <1>1
  <2> QED BY <1>4, <2>1, EmitStep DEF mouse_emit_button_down
<1>5. ASSUME NEW b \in Buttons, mouse_emit_button_up(pt, b)
      PROVE  SceneInv' /\ UNCHANGED <<wmVars, dragVars, pressed>> /\ sent' = Nothing
  <2>1. buttons \ {b} \in SUBSET Buttons /\ {b} \in SUBSET Buttons
    BY <1>1
  <2> QED BY <1>5, <2>1, EmitStep DEF mouse_emit_button_up
<1> QED BY <1>2, <1>3, <1>4, <1>5

LEMMA ActivateStep ==
  ASSUME SceneInv, NEW win \in Windows, Activate(win)
  PROVE  SceneInv' /\ UNCHANGED <<frame, queue, buttons, dragVars, pressed, lost>> /\ sent' = Nothing
<1>1. UNCHANGED <<frame, buttons, queue, bindings, drag, offset, apps, pressed, lost>>
      /\ sent' = Nothing /\ wm_compositor_activate_window(win)
  BY DEF Activate, dragVars
<1>2. /\ stack' \in Seq(Windows) /\ Len(stack') = Len(stack)
      /\ Range(stack') = Range(stack) /\ ActiveIsFront'
  BY <1>1, FrontIs DEF SceneInv
<1> QED BY <1>1, <1>2 DEF SceneInv, Types, SceneIsBound, BoundOnce, dragVars

\* A step outside the handling of events.
Waiting ==
  /\ UNCHANGED <<wmVars, buttons, queue, dragVars, pressed, lost>>
  /\ sent' \in {Nothing, sent}

LEMMA WaitingStep ==
  ASSUME SceneInv, Waiting
  PROVE  SceneInv'
BY DEF Waiting, wmVars, dragVars, SceneInv, Types, ActiveIsFront, SceneIsBound, BoundOnce

\* The steps of the model, by what they do to the scene.
LEMMA NextIs ==
  ASSUME [Next]_vars
  PROVE  \/ StartSession
         \/ \E win \in Windows : app_window_open(win)
         \/ \E win \in Windows : Activate(win)
         \/ Emits
         \/ wm_drag_process_event
         \/ Waiting
<1>1. UNCHANGED vars => Waiting
  BY DEF vars, Waiting
<1>2. wm_drag_dispatch_pending \/ DispatchReturn => Waiting
  BY DEF wm_drag_dispatch_pending, DispatchReturn, Waiting
<1> QED BY <1>1, <1>2 DEF Next, Emits

LEMMA SceneStep ==
  ASSUME SceneInv, [Next]_vars
  PROVE  SceneInv'
BY NextIs, StartStep, OpenStep, ActivateStep, EmitsStep, ProcessStep, WaitingStep

LEMMA SceneAlways == Spec => []SceneInv
<1>1. Init => SceneInv
  BY SceneStart
<1>2. SceneInv /\ [Next]_vars => SceneInv'
  BY SceneStep
<1> QED BY <1>1, <1>2, PTL DEF Spec

\* Whatever is opened, clicked and activated in whatever order, the focus of focus.c
\* is on the front window of layers.c.
THEOREM FocusIsFront == Spec => []ActiveIsFront
BY SceneAlways, PTL DEF SceneInv

\* The windows of the compositor are those registered for the mouse, and every one
\* of them once.
THEOREM SceneAndBindingsAgree == Spec => []SceneIsBound
BY SceneAlways, PTL DEF SceneInv

-------------------------------------------------------------------------------
(* Drags *)

\* A window that is opened leaves the bindings before it where they are.
LEMMA OpenKeepsBindings ==
  ASSUME SceneInv, NEW win \in Windows, app_window_open(win), NEW i \in DOMAIN bindings
  PROVE  i \in DOMAIN bindings' /\ bindings'[i] = bindings[i]
<1>1. bindings \in Seq(Entry) /\ DOMAIN bindings = 1 .. Len(bindings)
  BY DEF SceneInv, Types
<1>2. CASE UNCHANGED bindings
  BY <1>2
<1>3. CASE bindings' = Append(bindings, [window |-> win, task |-> Owner[win]])
  <2>1. [window |-> win, task |-> Owner[win]] \in Entry
    BY DEF Entry
  <2> QED BY <1>1, <1>3, <2>1, AppendProperties
<1> QED BY <1>2, <1>3, OpenStep

\* What a callback made by the handling of an event says.
LEMMA DispatchIs ==
  ASSUME NEW i, NEW kind, NEW pt, Dispatch(i, kind, pt), sent' # Nothing
  PROVE  /\ i # 0 /\ sent'.kind = kind /\ sent'.window = bindings[i].window /\ sent'.pt = pt
         /\ sent'.app = AppOf(bindings[i].task)
BY DEF Dispatch

\* The event that moves a dragged window, and the only one that reports a drag.
LEMMA MoveIs ==
  ASSUME SceneInv, NEW e \in Event, process_mouse_move(e)
  PROVE  \/ UNCHANGED frame /\ (sent' # Nothing => sent'.kind = "move")
         \/ /\ drag \in DOMAIN bindings /\ bindings[drag].window \in Windows
            /\ frame' = [frame EXCEPT ![bindings[drag].window] =
                           [frame[bindings[drag].window] EXCEPT
                              !.x = ClampSub(e.pt[1], offset[1]),
                              !.y = ClampSub(e.pt[2], offset[2])]]
            /\ sent' # Nothing => sent'.window = bindings[drag].window /\ sent'.pt = e.pt
<1>1. CASE drag # 0 /\ Left \in e.buttons
  <2> DEFINE win == bindings[drag].window
             x == ClampSub(e.pt[1], offset[1])
             y == ClampSub(e.pt[2], offset[2])
  <2>1. drag \in DOMAIN bindings /\ bindings[drag] \in Entry
    BY <1>1 DEF SceneInv, Types
  <2>2. win \in Windows
    BY <2>1 DEF Entry
  <2>3. frame' = [frame EXCEPT ![win].x = x, ![win].y = y] /\ Dispatch(drag, "drag", e.pt)
    BY <1>1 DEF process_mouse_move
  <2>4. frame \in [Windows -> Rect]
    BY DEF SceneInv, Types
  <2> HIDE DEF win, x, y
  <2>5. frame' = [frame EXCEPT ![win] = [frame[win] EXCEPT !.x = x, !.y = y]]
    BY <2>2, <2>3, <2>4 DEF Rect
  <2> QED BY <2>1, <2>2, <2>3, <2>5, DispatchIs DEF win, x, y
<1>2. CASE ~(drag # 0 /\ Left \in e.buttons)
  BY <1>2, DispatchIs DEF process_mouse_move
<1> QED BY <1>1, <1>2

\* The size of a window never changes, and neither does the grip on it.
LEMMA GripStep ==
  ASSUME SceneInv, SceneInv', Grip, DraggedUnderPointer, [Next]_vars
  PROVE  Grip' /\ DraggedUnderPointer'
<1> DEFINE Sized(f) == \A win \in Windows : f[win].w = Descs[win].w /\ f[win].h = Descs[win].h
<1>0. /\ Sized(frame) /\ frame \in [Windows -> Rect]
      /\ bindings \in Seq(Entry) /\ DOMAIN bindings = 1 .. Len(bindings)
      /\ drag # 0 => drag \in DOMAIN bindings
  BY DEF Grip, SceneInv, Types
<1>1. CASE StartSession
  BY <1>0, <1>1 DEF StartSession, Grip, DraggedUnderPointer
<1>2. ASSUME NEW win \in Windows, app_window_open(win)
      PROVE  Grip' /\ DraggedUnderPointer'
  <2>1. frame' = [frame EXCEPT ![win] = Descs[win]] /\ UNCHANGED <<drag, offset>>
        /\ sent' = Nothing
    BY <1>2 DEF app_window_open
  <2>2. Sized(frame')
    BY <1>0, <2>1
  <2>3. drag # 0 => bindings'[drag] = bindings[drag]
    BY <1>0, <1>2, OpenKeepsBindings
  <2> QED BY <2>1, <2>2, <2>3 DEF Grip, DraggedUnderPointer
<1>3. ASSUME NEW win \in Windows, Activate(win)
      PROVE  Grip' /\ DraggedUnderPointer'
  BY <1>3, ActivateStep DEF dragVars, Grip, DraggedUnderPointer
<1>4. CASE Emits
  BY <1>4, EmitsStep DEF wmVars, dragVars, Grip, DraggedUnderPointer
<1>5. CASE Waiting
  BY <1>5 DEF Waiting, wmVars, dragVars, Grip, DraggedUnderPointer
<1>6. CASE wm_drag_process_event
  <2> DEFINE e == Head(queue)
  <2>1. e \in Event /\ UNCHANGED bindings
    BY <1>6, HeadTailProperties DEF wm_drag_process_event, SceneInv, Types
  <2> HIDE DEF e
  <2>2. e.pt \in Coord \X Coord /\ offset \in Coord \X Coord
    BY <2>1 DEF Event, SceneInv, Types
  <2>3. /\ e.pt[1] \in 0 .. Word - 1 /\ e.pt[2] \in 0 .. Word - 1
        /\ offset[1] \in 0 .. Word - 1 /\ offset[2] \in 0 .. Word - 1
    BY <2>2 DEF Coord
  <2>4. CASE process_mouse_move(e)
    <3>0. UNCHANGED <<drag, offset>>
      BY <2>4 DEF process_mouse_move
    <3>1. CASE UNCHANGED frame /\ (sent' # Nothing => sent'.kind = "move")
      BY <2>1, <3>0, <3>1 DEF Grip, DraggedUnderPointer
    <3>2. CASE /\ drag \in DOMAIN bindings /\ bindings[drag].window \in Windows
               /\ frame' = [frame EXCEPT ![bindings[drag].window] =
                              [frame[bindings[drag].window] EXCEPT
                                 !.x = ClampSub(e.pt[1], offset[1]),
                                 !.y = ClampSub(e.pt[2], offset[2])]]
               /\ sent' # Nothing => sent'.window = bindings[drag].window /\ sent'.pt = e.pt
      <4> DEFINE win == bindings[drag].window
                 f == frame'[win]
      <4>1. drag # 0
        BY <1>0, <3>2
      <4>2. /\ offset[1] < Descs[win].w /\ offset[2] < Descs[win].h
            /\ Descs[win].w \in Nat /\ Descs[win].h \in Nat
        BY <3>2, <4>1 DEF Grip, Rect, Coord
      <4>3. frame[win] \in Rect
        BY <1>0, <3>2
      <4>4. /\ f.x = ClampSub(e.pt[1], offset[1]) /\ f.y = ClampSub(e.pt[2], offset[2])
            /\ f.w = frame[win].w /\ f.h = frame[win].h
        BY <1>0, <3>2, <4>3 DEF Rect
      <4>5. f.w = Descs[win].w /\ f.h = Descs[win].h
        BY <1>0, <3>2, <4>4
      <4>6. Sized(frame')
        BY <1>0, <3>2, <4>5
      <4> HIDE DEF f
      <4>7. InRect(f, e.pt)
        BY <2>3, <4>2, <4>4, <4>5 DEF InRect, ClampSub
      <4>8. DraggedUnderPointer'
        BY <3>2, <4>7 DEF DraggedUnderPointer, f
      <4> QED BY <2>1, <3>0, <4>6, <4>8 DEF Grip
    <3> QED BY <2>1, <2>4, <3>1, <3>2, MoveIs
  <2>5. CASE process_mouse_button_down(e)
    <3>1. /\ UNCHANGED frame
          /\ \/ UNCHANGED <<drag, offset>>
             \/ /\ drag' \in DOMAIN bindings
                /\ InRect(frame[bindings[drag'].window], e.pt)
                /\ offset' = <<e.pt[1] - frame[bindings[drag'].window].x,
                               e.pt[2] - frame[bindings[drag'].window].y>>
          /\ sent' = Nothing \/ sent'.kind = "down"
      BY <2>1, <2>5, DownIs
    <3>2. DraggedUnderPointer'
      BY <3>1 DEF DraggedUnderPointer
    <3>3. CASE UNCHANGED <<drag, offset>>
      BY <2>1, <3>1, <3>2, <3>3 DEF Grip
    <3>4. CASE /\ drag' \in DOMAIN bindings
               /\ InRect(frame[bindings[drag'].window], e.pt)
               /\ offset' = <<e.pt[1] - frame[bindings[drag'].window].x,
                              e.pt[2] - frame[bindings[drag'].window].y>>
      <4> DEFINE win == bindings[drag'].window
      <4>1. win \in Windows
        <5>1. bindings[drag'] \in Entry
          BY <1>0, <3>4
        <5> QED BY <5>1 DEF Entry
      <4>2. frame[win].w = Descs[win].w /\ frame[win].h = Descs[win].h
        BY <1>0, <4>1
      <4>3. offset'[1] < frame[win].w /\ offset'[2] < frame[win].h
        BY <3>4 DEF InRect
      <4> QED BY <1>0, <2>1, <3>1, <3>2, <4>2, <4>3 DEF Grip
    <3> QED BY <3>1, <3>3, <3>4
  <2>6. CASE process_mouse_button_up(e)
    <3>1. UNCHANGED <<frame, offset>> /\ drag' \in {0, drag}
      BY <2>6 DEF process_mouse_button_up, wmVars
    <3>2. sent' # Nothing => sent'.kind = "up"
      BY <2>6, DispatchIs DEF process_mouse_button_up
    <3> QED BY <2>1, <3>1, <3>2 DEF Grip, DraggedUnderPointer
  <2> QED BY <1>6, <2>4, <2>5, <2>6 DEF wm_drag_process_event, e
<1> QED BY <1>1, <1>2, <1>3, <1>4, <1>5, <1>6, NextIs

\* A dragged window stays under the pointer: the clamped position of
\* process_mouse_move keeps the grip inside the window, at every edge and also when
\* the window was opened again elsewhere in the middle of the drag.
THEOREM DragKeepsPointerInside == Spec => []DraggedUnderPointer
<1>1. Init => Grip /\ DraggedUnderPointer
  BY DEF Init, Grip, DraggedUnderPointer
<1>2. SceneInv /\ SceneInv' /\ Grip /\ DraggedUnderPointer /\ [Next]_vars
        => Grip' /\ DraggedUnderPointer'
  BY GripStep
<1> QED BY <1>1, <1>2, SceneAlways, PTL DEF Spec

-------------------------------------------------------------------------------
(* Presses and releases *)

\* What one more event does to the turns in a queue.
LEMMA AppendTurns ==
  ASSUME NEW q \in Seq(Event), NEW e \in Event, NEW r, r = Append(q, e)
  PROVE  /\ Alternate(q) /\ (LeftDown(e) => DownClosed(q)) => Alternate(r)
         /\ UpFirst(q) /\ (LeftDown(e) => HasUp(q)) => UpFirst(r)
         /\ LeftUp(e) => DownClosed(r) /\ HasUp(r)
         /\ ~LeftDown(e) /\ DownClosed(q) => DownClosed(r)
         /\ HasUp(q) => HasUp(r)
<1> DEFINE n == Len(q)
<1>1. n \in Nat /\ DOMAIN q = 1 .. n
  OBVIOUS
<1>2. /\ r \in Seq(Event) /\ Len(r) = n + 1
      /\ \A i \in 1 .. n : r[i] = q[i]
      /\ r[n + 1] = e
  BY AppendProperties
<1>3. DOMAIN r = 1 .. n + 1
  BY <1>2
<1>4. \A i \in 1 .. n + 1 : i \in 1 .. n \/ i = n + 1
  BY <1>1
<1>5. \A i \in 1 .. n : i \in 1 .. n + 1 /\ i < n + 1
  BY <1>1
<1>6. n + 1 \in 1 .. n + 1
  BY <1>1
<1>7. LeftUp(e) => ~LeftDown(e)
  BY DEF LeftUp, LeftDown
<1> HIDE DEF n
<1>8. HasUp(q) => HasUp(r)
  BY <1>1, <1>2, <1>3, <1>5 DEF HasUp
<1>9. ASSUME UpFirst(q), LeftDown(e) => HasUp(q) PROVE UpFirst(r)
  <2> SUFFICES ASSUME NEW j \in 1 .. n + 1, LeftDown(r[j])
               PROVE  \E k \in 1 .. n + 1 : k < j /\ LeftUp(r[k])
    BY <1>3 DEF UpFirst
  <2>1. CASE j \in 1 .. n
    <3>1. PICK k \in 1 .. n : k < j /\ LeftUp(q[k])
      BY <1>1, <1>2, <1>9, <2>1 DEF UpFirst
    <3> QED BY <1>2, <1>5, <3>1
  <2>2. CASE j = n + 1
    <3>1. PICK k \in 1 .. n : LeftUp(q[k])
      BY <1>1, <1>2, <1>9, <2>2 DEF HasUp
    <3> QED BY <1>2, <1>5, <2>2, <3>1
  <2> QED BY <1>4, <2>1, <2>2
<1>10. ASSUME Alternate(q), LeftDown(e) => DownClosed(q) PROVE Alternate(r)
  <2> SUFFICES ASSUME NEW i \in 1 .. n + 1, NEW j \in 1 .. n + 1, i < j,
                      LeftDown(r[i]), LeftDown(r[j])
               PROVE  \E k \in 1 .. n + 1 : i < k /\ k < j /\ LeftUp(r[k])
    BY <1>3 DEF Alternate
  <2>1. i \in 1 .. n
    BY <1>1
  <2>2. CASE j \in 1 .. n
    <3>1. PICK k \in 1 .. n : i < k /\ k < j /\ LeftUp(q[k])
      BY <1>1, <1>2, <1>10, <2>1, <2>2 DEF Alternate
    <3> QED BY <1>2, <1>5, <3>1
  <2>3. CASE j = n + 1
    <3>1. PICK k \in 1 .. n : i < k /\ LeftUp(q[k])
      BY <1>1, <1>2, <1>10, <2>1, <2>3 DEF DownClosed
    <3> QED BY <1>2, <1>5, <2>3, <3>1
  <2> QED BY <1>4, <2>2, <2>3
<1>11. ASSUME LeftUp(e) PROVE DownClosed(r) /\ HasUp(r)
  <2>1. HasUp(r)
    BY <1>2, <1>3, <1>6, <1>11 DEF HasUp
  <2>2. ASSUME NEW i \in 1 .. n + 1, LeftDown(r[i])
        PROVE  \E k \in 1 .. n + 1 : i < k /\ LeftUp(r[k])
    <3>1. i \in 1 .. n
      BY <1>2, <1>4, <1>7, <1>11, <2>2
    <3> QED BY <1>2, <1>5, <1>6, <1>11, <3>1
  <2> QED BY <1>3, <2>1, <2>2 DEF DownClosed
<1>12. ASSUME ~LeftDown(e), DownClosed(q) PROVE DownClosed(r)
  <2> SUFFICES ASSUME NEW i \in 1 .. n + 1, LeftDown(r[i])
               PROVE  \E k \in 1 .. n + 1 : i < k /\ LeftUp(r[k])
    BY <1>3 DEF DownClosed
  <2>1. i \in 1 .. n
    BY <1>2, <1>4, <1>12
  <2>2. PICK k \in 1 .. n : i < k /\ LeftUp(q[k])
    BY <1>1, <1>2, <1>12, <2>1 DEF DownClosed
  <2> QED BY <1>2, <1>5, <2>2
<1> QED BY <1>8, <1>9, <1>10, <1>11, <1>12

\* What taking the first event off a queue does to the turns in it.
LEMMA TailTurns ==
  ASSUME NEW q \in Seq(Event), q # <<>>, NEW r, r = Tail(q)
  PROVE  /\ Alternate(q) => Alternate(r)
         /\ DownClosed(q) => DownClosed(r)
         /\ UpFirst(q) /\ ~LeftUp(Head(q)) => UpFirst(r)
         /\ HasUp(q) /\ ~LeftUp(Head(q)) => HasUp(r)
         /\ UpFirst(q) => ~LeftDown(Head(q))
         /\ Alternate(q) /\ LeftDown(Head(q)) => UpFirst(r)
         /\ DownClosed(q) /\ LeftDown(Head(q)) => HasUp(r)
<1> DEFINE n == Len(q)
<1>1. n \in Nat \ {0} /\ DOMAIN q = 1 .. n /\ 1 \in 1 .. n
  OBVIOUS
<1>2. r \in Seq(Event) /\ Len(r) = n - 1 /\ \A i \in 1 .. n - 1 : r[i] = q[i + 1]
  BY HeadTailProperties
<1>3. DOMAIN r = 1 .. n - 1
  BY <1>2
<1>4. Head(q) = q[1]
  OBVIOUS
<1>5. ASSUME NEW k \in 1 .. n, k # 1
      PROVE  k - 1 \in 1 .. n - 1 /\ r[k - 1] = q[k] /\ k - 1 < k
  <2>1. k - 1 \in 1 .. n - 1 /\ (k - 1) + 1 = k /\ k - 1 < k
    BY <1>1, <1>5
  <2> QED BY <1>2, <2>1
<1>6. ASSUME NEW k \in 1 .. n - 1
      PROVE  k + 1 \in 1 .. n /\ r[k] = q[k + 1] /\ k + 1 # 1 /\ 1 < k + 1
  BY <1>1, <1>2
<1> HIDE DEF n
<1>7. Alternate(q) => Alternate(r)
  <2> SUFFICES ASSUME Alternate(q), NEW i \in 1 .. n - 1, NEW j \in 1 .. n - 1, i < j,
                      LeftDown(r[i]), LeftDown(r[j])
               PROVE  \E k \in 1 .. n - 1 : i < k /\ k < j /\ LeftUp(r[k])
    BY <1>3 DEF Alternate
  <2>1. PICK k \in 1 .. n : i + 1 < k /\ k < j + 1 /\ LeftUp(q[k])
    <3>1. i + 1 < j + 1
      OBVIOUS
    <3> QED BY <1>1, <1>6, <3>1 DEF Alternate
  <2>2. k # 1 /\ i < k - 1 /\ k - 1 < j
    BY <1>1, <2>1
  <2> QED BY <1>5, <2>1, <2>2
<1>8. DownClosed(q) => DownClosed(r)
  <2> SUFFICES ASSUME DownClosed(q), NEW i \in 1 .. n - 1, LeftDown(r[i])
               PROVE  \E k \in 1 .. n - 1 : i < k /\ LeftUp(r[k])
    BY <1>3 DEF DownClosed
  <2>1. PICK k \in 1 .. n : i + 1 < k /\ LeftUp(q[k])
    BY <1>1, <1>6 DEF DownClosed
  <2>2. k # 1 /\ i < k - 1
    BY <1>1, <2>1
  <2> QED BY <1>5, <2>1, <2>2
<1>9. ASSUME UpFirst(q), ~LeftUp(Head(q)) PROVE UpFirst(r)
  <2> SUFFICES ASSUME NEW j \in 1 .. n - 1, LeftDown(r[j])
               PROVE  \E k \in 1 .. n - 1 : k < j /\ LeftUp(r[k])
    BY <1>3 DEF UpFirst
  <2>1. PICK k \in 1 .. n : k < j + 1 /\ LeftUp(q[k])
    BY <1>1, <1>6, <1>9 DEF UpFirst
  <2>2. k # 1
    BY <1>4, <1>9, <2>1
  <2>3. k - 1 < j
    BY <1>1, <2>1
  <2> QED BY <1>5, <2>1, <2>2, <2>3
<1>10. ASSUME HasUp(q), ~LeftUp(Head(q)) PROVE HasUp(r)
  <2>1. PICK k \in 1 .. n : LeftUp(q[k])
    BY <1>1, <1>10 DEF HasUp
  <2>2. k # 1
    BY <1>4, <1>10, <2>1
  <2> QED BY <1>3, <1>5, <2>1, <2>2 DEF HasUp
<1>11. UpFirst(q) => ~LeftDown(Head(q))
  <2> SUFFICES ASSUME UpFirst(q), LeftDown(q[1]) PROVE FALSE
    BY <1>4
  <2>1. PICK k \in 1 .. n : k < 1
    BY <1>1 DEF UpFirst
  <2> QED BY <1>1, <2>1
<1>12. ASSUME Alternate(q), LeftDown(Head(q)) PROVE UpFirst(r)
  <2> SUFFICES ASSUME NEW j \in 1 .. n - 1, LeftDown(r[j])
               PROVE  \E k \in 1 .. n - 1 : k < j /\ LeftUp(r[k])
    BY <1>3 DEF UpFirst
  <2>1. PICK k \in 1 .. n : 1 < k /\ k < j + 1 /\ LeftUp(q[k])
    BY <1>1, <1>4, <1>6, <1>12 DEF Alternate
  <2>2. k # 1 /\ k - 1 < j
    BY <1>1, <2>1
  <2> QED BY <1>5, <2>1, <2>2
<1>13. ASSUME DownClosed(q), LeftDown(Head(q)) PROVE HasUp(r)
  <2>1. PICK k \in 1 .. n : 1 < k /\ LeftUp(q[k])
    BY <1>1, <1>4, <1>13 DEF DownClosed
  <2>2. k # 1
    BY <1>1, <2>1
  <2> QED BY <1>3, <1>5, <2>1, <2>2 DEF HasUp
<1> QED BY <1>7, <1>8, <1>9, <1>10, <1>11, <1>12, <1>13

\* An event of a real mouse is queued in turn, or lost.
LEMMA EmitTurn ==
  ASSUME SceneInv, InTurn, NEW type \in {"move", "down", "up"}, NEW pt \in Points,
         NEW down \in SUBSET Buttons, NEW button \in SUBSET Buttons,
         type = "down" /\ Left \in button => Left \notin buttons /\ Left \in down,
         Left \notin down => Left \notin buttons \/ (type = "up" /\ Left \in button),
         mouse_emit(type, pt, down, button)
  PROVE  InTurn'
<1> DEFINE e == [type |-> type, pt |-> pt, buttons |-> down, button |-> button]
<1>1. UNCHANGED <<bindings, drag, pressed>> /\ buttons' = down
  BY DEF mouse_emit, dragVars
<1>2. queue \in Seq(Event) /\ Len(queue) \in Nat /\ Len(queue) <= Capacity
  BY DEF SceneInv, Types
<1>3. e \in Event
  BY DEF Event
<1>4. /\ LeftDown(e) => Left \notin buttons /\ Left \in down
      /\ Left \notin down => Left \notin buttons \/ LeftUp(e)
      /\ LeftDown(e) => ~LeftUp(e)
  BY DEF LeftDown, LeftUp
<1>5. CASE Len(queue) = Capacity
  BY <1>5 DEF mouse_emit, InTurn
<1>6. CASE Len(queue) < Capacity
  <2>1. queue' = Append(queue, e) /\ (~lost' => ~lost)
    BY <1>6 DEF mouse_emit
  <2> HIDE DEF e
  <2>2. /\ Alternate(queue) /\ (LeftDown(e) => DownClosed(queue)) => Alternate(queue')
        /\ UpFirst(queue) /\ (LeftDown(e) => HasUp(queue)) => UpFirst(queue')
        /\ LeftUp(e) => DownClosed(queue') /\ HasUp(queue')
        /\ ~LeftDown(e) /\ DownClosed(queue) => DownClosed(queue')
        /\ HasUp(queue) => HasUp(queue')
    BY <1>2, <1>3, <2>1, AppendTurns
  <2> QED BY <1>1, <1>4, <2>1, <2>2 DEF InTurn
<1> QED BY <1>2, <1>5, <1>6

LEMMA TurnStep ==
  ASSUME SceneInv, SceneInv', InTurn, DragFollowsPress, [Next]_vars
  PROVE  InTurn' /\ DragFollowsPress'
<1>0. /\ bindings \in Seq(Entry) /\ DOMAIN bindings = 1 .. Len(bindings)
      /\ drag # 0 => drag \in DOMAIN bindings
      /\ buttons \in SUBSET Buttons
  BY DEF SceneInv, Types
<1>1. CASE StartSession
  <2>1. drag' = 0 /\ queue' = <<>> /\ sent' = Nothing
    BY <1>1 DEF StartSession
  <2>2. Alternate(<<>>) /\ DownClosed(<<>>)
    BY DEF Alternate, DownClosed
  <2> QED BY <2>1, <2>2 DEF InTurn, DragFollowsPress
<1>2. ASSUME NEW win \in Windows, app_window_open(win)
      PROVE  InTurn' /\ DragFollowsPress'
  <2>1. UNCHANGED <<drag, queue, buttons, pressed, lost>> /\ sent' = Nothing
    BY <1>2 DEF app_window_open
  <2>2. drag # 0 => bindings'[drag] = bindings[drag]
    BY <1>0, <1>2, OpenKeepsBindings
  <2> QED BY <2>1, <2>2 DEF InTurn, DragFollowsPress
<1>3. ASSUME NEW win \in Windows, Activate(win)
      PROVE  InTurn' /\ DragFollowsPress'
  BY <1>3, ActivateStep DEF dragVars, InTurn, DragFollowsPress
<1>4. CASE Emits
  <2>1. DragFollowsPress'
    BY <1>4, EmitsStep DEF DragFollowsPress
  <2>2. PICK pt \in Points : \/ mouse_emit_move(pt)
                            \/ \E b \in Buttons : mouse_emit_button_down(pt, b)
                                                 \/ mouse_emit_button_up(pt, b)
    BY <1>4 DEF Emits
  <2>3. ASSUME mouse_emit_move(pt)
        PROVE  InTurn'
    <3>1. {} \in SUBSET Buttons /\ mouse_emit("move", pt, buttons, {})
      BY <2>3 DEF mouse_emit_move
    <3> QED BY <1>0, <3>1, EmitTurn
  <2>4. ASSUME NEW b \in Buttons, mouse_emit_button_down(pt, b)
        PROVE  InTurn'
    <3>1. /\ buttons \cup {b} \in SUBSET Buttons /\ {b} \in SUBSET Buttons /\ b \notin buttons
          /\ mouse_emit("down", pt, buttons \cup {b}, {b})
      BY <1>0, <2>4 DEF mouse_emit_button_down
    <3> QED BY <3>1, EmitTurn
  <2>5. ASSUME NEW b \in Buttons, mouse_emit_button_up(pt, b)
        PROVE  InTurn'
    <3>1. /\ buttons \ {b} \in SUBSET Buttons /\ {b} \in SUBSET Buttons /\ b \in buttons
          /\ mouse_emit("up", pt, buttons \ {b}, {b})
      BY <1>0, <2>5 DEF mouse_emit_button_up
    <3> QED BY <3>1, EmitTurn
  <2> QED BY <2>1, <2>2, <2>3, <2>4, <2>5
<1>5. CASE Waiting
  BY <1>5 DEF Waiting, dragVars, InTurn, DragFollowsPress
<1>6. CASE wm_drag_process_event
  <2> DEFINE e == Head(queue)
  <2>1. e \in Event /\ UNCHANGED <<bindings, buttons, lost>> /\ queue' = Tail(queue)
        /\ queue \in Seq(Event) /\ queue # <<>>
    BY <1>6, HeadTailProperties DEF wm_drag_process_event, SceneInv, Types
  <2>2. /\ Alternate(queue) => Alternate(queue')
        /\ DownClosed(queue) => DownClosed(queue')
        /\ UpFirst(queue) /\ ~LeftUp(e) => UpFirst(queue')
        /\ HasUp(queue) /\ ~LeftUp(e) => HasUp(queue')
        /\ UpFirst(queue) => ~LeftDown(e)
        /\ Alternate(queue) /\ LeftDown(e) => UpFirst(queue')
        /\ DownClosed(queue) /\ LeftDown(e) => HasUp(queue')
    BY <2>1, TailTurns
  <2> HIDE DEF e
  <2>3. CASE e.type = "move" /\ process_mouse_move(e)
    <3>1. UNCHANGED <<drag, pressed>> /\ ~LeftUp(e) /\ ~LeftDown(e)
      BY <2>3 DEF process_mouse_move, LeftUp, LeftDown
    <3>2. InTurn'
      BY <2>1, <2>2, <3>1 DEF InTurn
    <3>3. sent' # Nothing /\ sent'.kind = "drag"
            => drag # 0 /\ sent'.window = bindings[drag].window
      <4>1. \/ drag # 0 /\ Dispatch(drag, "drag", e.pt)
            \/ Dispatch(BindingAt(e.pt), "move", e.pt)
        BY <2>3 DEF process_mouse_move
      <4> QED BY <4>1, DispatchIs
    <3> QED BY <2>1, <3>1, <3>2, <3>3 DEF InTurn, DragFollowsPress
  <2>4. CASE e.type = "down" /\ process_mouse_button_down(e)
    <3>1. /\ \/ UNCHANGED drag
             \/ /\ drag' \in DOMAIN bindings /\ Left \in e.button
                /\ pressed' = bindings[drag'].window
          /\ Left \notin e.button => UNCHANGED pressed
          /\ sent' = Nothing \/ sent'.kind = "down"
      BY <2>1, <2>4, DownIs
    <3>2. ~LeftUp(e) /\ (LeftDown(e) <=> Left \in e.button)
      BY <2>4 DEF LeftUp, LeftDown
    <3>3. InTurn'
      <4>1. CASE Left \notin e.button
        BY <2>1, <2>2, <3>1, <3>2, <4>1 DEF InTurn
      <4>2. CASE Left \in e.button
        <5>1. ~lost => drag = 0
          BY <2>2, <3>2, <4>2 DEF InTurn
        <5>2. ~lost /\ drag' # 0 => pressed' = bindings[drag'].window
          BY <3>1, <5>1
        <5> QED BY <2>1, <2>2, <3>2, <4>2, <5>1, <5>2 DEF InTurn
      <4> QED BY <4>1, <4>2
    <3> QED BY <3>1, <3>3 DEF DragFollowsPress
  <2>5. CASE e.type = "up" /\ process_mouse_button_up(e)
    <3>1. /\ drag' = IF Left \in e.button THEN 0 ELSE drag
          /\ UNCHANGED pressed
      BY <2>5 DEF process_mouse_button_up
    <3>2. ~LeftDown(e) /\ (LeftUp(e) <=> Left \in e.button)
      BY <2>5 DEF LeftUp, LeftDown
    <3>3. sent' # Nothing => sent'.kind = "up"
      BY <2>5, DispatchIs DEF process_mouse_button_up
    <3>4. InTurn'
      BY <2>1, <2>2, <3>1, <3>2 DEF InTurn
    <3> QED BY <3>3, <3>4 DEF DragFollowsPress
  <2> QED BY <1>6, <2>3, <2>4, <2>5 DEF wm_drag_process_event, e
<1> QED BY <1>1, <1>2, <1>3, <1>4, <1>5, <1>6, NextIs

\* Unless the queue was full when the button went up, no window is dragged but the
\* one the left button was pressed on.
THEOREM OnlyPressedWindowDragged == Spec => []DragFollowsPress
<1>1. Init => InTurn /\ DragFollowsPress
  BY DEF Init, InTurn, Alternate, DownClosed, DragFollowsPress
<1>2. SceneInv /\ SceneInv' /\ InTurn /\ DragFollowsPress /\ [Next]_vars
        => InTurn' /\ DragFollowsPress'
  BY TurnStep
<1> QED BY <1>1, <1>2, SceneAlways, PTL DEF Spec

-------------------------------------------------------------------------------
(* Callbacks *)

\* The window app_window.c finds for the task of a binding is the one of the binding.
LEMMA AppOfIs ==
  ASSUME SceneInv, OneWindowEach, AppsFollow, NEW i \in DOMAIN bindings
  PROVE  AppOf(bindings[i].task) = bindings[i].window
<1>1. /\ bindings \in Seq(Entry) /\ apps \in Seq(Entry)
      /\ DOMAIN apps = 1 .. Len(apps) /\ DOMAIN bindings = 1 .. Len(bindings)
  BY DEF SceneInv, Types
<1>2. DOMAIN apps = DOMAIN bindings
  BY <1>1 DEF AppsFollow
<1>3. ASSUME NEW k \in DOMAIN apps, apps[k].task = bindings[i].task
      PROVE  apps[k].window = bindings[i].window
  <2>1. apps[k] = bindings[k] /\ bindings[k] \in Entry /\ bindings[i] \in Entry
    BY <1>1, <1>2, <1>3 DEF AppsFollow
  <2>2. bindings[k].window \in Windows /\ bindings[i].window \in Windows
    BY <2>1 DEF Entry
  <2>3. Owner[bindings[k].window] = Owner[bindings[i].window]
    BY <1>2, <1>3, <2>1 DEF SceneInv, BoundOnce
  <2> QED BY <2>1, <2>2, <2>3 DEF OneWindowEach
<1>4. i \in DOMAIN apps /\ apps[i].task = bindings[i].task
  BY <1>2 DEF AppsFollow
<1> QED BY <1>3, <1>4 DEF AppOf

LEMMA RouteStep ==
  ASSUME SceneInv, SceneInv', OneWindowEach, AppsFollow, RoutedToOwner, [Next]_vars
  PROVE  AppsFollow' /\ RoutedToOwner'
<1>0. /\ bindings \in Seq(Entry) /\ DOMAIN bindings = 1 .. Len(bindings)
      /\ apps \in Seq(Entry) /\ DOMAIN apps = 1 .. Len(apps)
      /\ Len(apps) = Len(bindings) /\ Len(apps) \in Nat
      /\ drag # 0 => drag \in DOMAIN bindings
  BY DEF SceneInv, Types, AppsFollow
<1>1. CASE StartSession
  <2>1. apps' = <<>> /\ bindings' = <<>> /\ sent' = Nothing
    BY <1>1 DEF StartSession
  <2> QED BY <2>1 DEF AppsFollow, RoutedToOwner
<1>2. ASSUME NEW win \in Windows, app_window_open(win)
      PROVE  AppsFollow' /\ RoutedToOwner'
  <2>1. RoutedToOwner'
    BY <1>2 DEF app_window_open, RoutedToOwner
  <2>2. CASE UNCHANGED <<bindings, apps>>
    BY <2>1, <2>2 DEF AppsFollow
  <2>3. CASE /\ bindings' = Append(bindings, [window |-> win, task |-> Owner[win]])
             /\ apps' = WithApp(Owner[win], win)
             /\ \A i \in DOMAIN bindings : bindings[i].window # win
             /\ Len(bindings) < MaxWindows
    <3> DEFINE new == [window |-> win, task |-> Owner[win]]
               n == Len(bindings)
    <3>1. ~ \E i \in DOMAIN apps : apps[i].task = Owner[win]
      <4> SUFFICES ASSUME NEW i \in DOMAIN apps, apps[i].task = Owner[win] PROVE FALSE
        OBVIOUS
      <4>1. i \in DOMAIN bindings /\ bindings[i].task = Owner[win] /\ bindings[i] \in Entry
        BY <1>0 DEF AppsFollow
      <4>2. Owner[bindings[i].window] = Owner[win] /\ bindings[i].window \in Windows
        BY <4>1 DEF SceneInv, BoundOnce, Entry
      <4> QED BY <2>3, <4>1, <4>2 DEF OneWindowEach
    <3>2. [task |-> Owner[win], window |-> win] = new /\ new \in Entry
      BY DEF Entry
    <3>3. apps' = Append(apps, new)
      BY <1>0, <2>3, <3>1, <3>2 DEF WithApp
    <3>4. /\ Len(bindings') = n + 1 /\ bindings'[n + 1] = new
          /\ \A i \in 1 .. n : bindings'[i] = bindings[i]
      BY <1>0, <2>3, <3>2, AppendProperties
    <3>5. /\ apps' \in Seq(Entry) /\ Len(apps') = n + 1 /\ apps'[n + 1] = new
          /\ \A i \in 1 .. n : apps'[i] = apps[i]
      BY <1>0, <3>2, <3>3, AppendProperties
    <3>6. DOMAIN apps' = 1 .. n + 1 /\ \A i \in 1 .. n + 1 : i \in 1 .. n \/ i = n + 1
      BY <1>0, <3>5
    <3> HIDE DEF n, new
    <3>7. \A i \in 1 .. n : apps[i] = bindings[i]
      BY <1>0 DEF AppsFollow, n
    <3>8. AppsFollow'
      BY <3>4, <3>5, <3>6, <3>7 DEF AppsFollow
    <3> QED BY <2>1, <3>8
  <2> QED BY <1>2, <2>2, <2>3, OpenStep
<1>3. ASSUME NEW win \in Windows, Activate(win)
      PROVE  AppsFollow' /\ RoutedToOwner'
  BY <1>3, ActivateStep DEF dragVars, AppsFollow, RoutedToOwner
<1>4. CASE Emits
  BY <1>4, EmitsStep DEF dragVars, AppsFollow, RoutedToOwner
<1>5. CASE Waiting
  BY <1>5 DEF Waiting, dragVars, AppsFollow, RoutedToOwner
<1>6. CASE wm_drag_process_event
  <2> DEFINE e == Head(queue)
  <2>1. UNCHANGED <<bindings, apps>>
    BY <1>6 DEF wm_drag_process_event
  <2>2. \E i, kind, pt : \/ (i = 0 \/ i \in DOMAIN bindings) /\ Dispatch(i, kind, pt)
                         \/ sent' = Nothing
    <3>1. BindingAt(e.pt) = 0 \/ BindingAt(e.pt) \in DOMAIN bindings
      BY BindingIs
    <3> HIDE DEF e
    <3>2. CASE process_mouse_move(e)
      BY <1>0, <3>1, <3>2 DEF process_mouse_move
    <3>3. CASE process_mouse_button_down(e)
      BY <3>1, <3>3 DEF process_mouse_button_down
    <3>4. CASE process_mouse_button_up(e)
      BY <1>0, <3>1, <3>4 DEF process_mouse_button_up
    <3> QED BY <1>6, <3>2, <3>3, <3>4 DEF wm_drag_process_event, e
  <2>3. RoutedToOwner'
    <3> SUFFICES ASSUME sent' # Nothing PROVE sent'.app = sent'.window
      BY DEF RoutedToOwner
    <3>1. PICK i, kind, pt : (i = 0 \/ i \in DOMAIN bindings) /\ Dispatch(i, kind, pt)
      BY <2>2
    <3>2. i # 0 /\ sent'.window = bindings[i].window /\ sent'.app = AppOf(bindings[i].task)
      BY <3>1, DispatchIs
    <3> QED BY <3>1, <3>2, AppOfIs
  <2> QED BY <2>1, <2>3 DEF AppsFollow
<1> QED BY <1>1, <1>2, <1>3, <1>4, <1>5, <1>6, NextIs

\* When every task opens one window, the layers, the drag bindings and the table of
\* app_window.c lead every callback to the window that the event concerns.  (With
\* two windows of one task, app_window.c reports both under the one opened last.)
THEOREM CallbacksReachOwner ==
  ASSUME OneWindowEach
  PROVE  Spec => []RoutedToOwner
<1>1. Init => AppsFollow /\ RoutedToOwner
  BY DEF Init, AppsFollow, RoutedToOwner
<1>2. SceneInv /\ SceneInv' /\ AppsFollow /\ RoutedToOwner /\ [Next]_vars
        => AppsFollow' /\ RoutedToOwner'
  BY RouteStep
<1> QED BY <1>1, <1>2, SceneAlways, PTL DEF Spec

-------------------------------------------------------------------------------
(* The picture.  A fold over the layers paints it; each step of the fold leaves *)
(* every pixel with the topmost window so far that contains it.                 *)

USE RenderAssumption

\* What holds at 0 and passes from each number to the next holds up to any number.
LEMMA UpTo ==
  ASSUME NEW n \in Nat, NEW T, 0 \in T, \A k \in 0 .. n - 1 : k \in T => k + 1 \in T
  PROVE  \A k \in 0 .. n : k \in T
<1> DEFINE Good == {k \in 1 .. n + 1 : \A j \in 0 .. k - 1 : j \in T}
<1>1. 1 \in Good
  OBVIOUS
<1>2. Good \subseteq 1 .. n + 1 /\ Good # {}
  BY <1>1
<1> HIDE DEF Good
<1>3. PICK x \in Good : \A y \in Good : y <= x
  <2>1. n + 1 \in Nat
    OBVIOUS
  <2> DEFINE m == n + 1
  <2>2. m \in Nat /\ Good \subseteq 1 .. m
    BY <1>2
  <2> HIDE DEF m
  <2> QED BY <1>2, <2>2, GreatestIndex
<1>4. x \in 1 .. n + 1 /\ \A j \in 0 .. x - 1 : j \in T
  BY <1>3 DEF Good
<1>5. CASE x = n + 1
  BY <1>4, <1>5
<1>6. CASE x # n + 1
  <2>1. x - 1 \in 0 .. n - 1 /\ x - 1 \in T /\ (x - 1) + 1 = x
    BY <1>4, <1>6
  <2>2. x \in T
    BY <2>1
  <2>3. \A j \in 0 .. (x + 1) - 1 : j \in T
    BY <1>4, <2>2
  <2>4. x + 1 \in Good
    BY <1>4, <1>6, <2>3 DEF Good
  <2> QED BY <1>3, <1>4, <2>4
<1> QED BY <1>5, <1>6

Blank == [i \in 0 .. Height * Stride - 1 |-> Background]
FirstPaint == framebuffer_fill_rect(Blank, [x |-> 0, y |-> 0, w |-> Width, h |-> Height], Background)

\* g is the function by which FoldLeft runs through the windows up to layer n.
IsPaint(g, n) ==
  g = [s \in SUBSET (1 .. n) |->
         IF s = {} THEN FirstPaint ELSE wm_draw_window(g[s \ {Max(s)}], stack[Max(s)])]

LEMMA GreatestIs ==
  ASSUME NEW n \in Nat, NEW s \in SUBSET (1 .. n), s # {}
  PROVE  Max(s) \in s /\ \A y \in s : Max(s) >= y
<1>1. \E x \in s : \A y \in s : y <= x
  BY GreatestIndex
<1>2. \E x \in s : \A y \in s : x >= y
  BY <1>1
<1> QED BY <1>2 DEF Max

\* Such a function exists ...
LEMMA PaintExists == ASSUME NEW m \in Nat PROVE \E g : IsPaint(g, m)
<1> DEFINE T == {n \in Nat : \E g : IsPaint(g, n)}
<1>1. 0 \in T
  <2> DEFINE g == [s \in SUBSET (1 .. 0) |-> FirstPaint]
  <2>1. ASSUME NEW s \in SUBSET (1 .. 0) PROVE s = {}
    OBVIOUS
  <2>2. IsPaint(g, 0)
    BY <2>1 DEF IsPaint
  <2> QED BY <2>2
<1>2. ASSUME NEW n \in 0 .. m - 1, n \in T PROVE n + 1 \in T
  <2>1. PICK g : IsPaint(g, n)
    BY <1>2
  <2> DEFINE new == [s \in SUBSET (1 .. n + 1) |->
                       IF n + 1 \notin s THEN g[s] ELSE wm_draw_window(g[s \ {n + 1}], stack[n + 1])]
  <2>2. ASSUME NEW s \in SUBSET (1 .. n + 1)
        PROVE  new[s] = IF s = {} THEN FirstPaint
                                  ELSE wm_draw_window(new[s \ {Max(s)}], stack[Max(s)])
    <3>0. \A t \in SUBSET (1 .. n) :
            g[t] = IF t = {} THEN FirstPaint ELSE wm_draw_window(g[t \ {Max(t)}], stack[Max(t)])
      BY <2>1 DEF IsPaint
    <3>1. CASE n + 1 \notin s
      <4>1. s \in SUBSET (1 .. n) /\ new[s] = g[s]
        BY <3>1
      <4>2. s \ {Max(s)} \in SUBSET (1 .. n + 1) /\ n + 1 \notin s \ {Max(s)}
        BY <3>1
      <4>3. new[s \ {Max(s)}] = g[s \ {Max(s)}]
        BY <4>2
      <4> QED BY <3>0, <4>1, <4>3
    <3>2. CASE n + 1 \in s
      <4>1. s # {} /\ Max(s) \in s /\ \A y \in s : Max(s) >= y
        <5> DEFINE k == n + 1
        <5>1. k \in Nat /\ s \in SUBSET (1 .. k) /\ s # {}
          BY <3>2
        <5> HIDE DEF k
        <5> QED BY <5>1, GreatestIs
      <4>2. Max(s) = n + 1
        <5>1. Max(s) \in 1 .. n + 1 /\ Max(s) >= n + 1
          BY <3>2, <4>1
        <5> QED BY <5>1
      <4>3. s \ {n + 1} \in SUBSET (1 .. n + 1) /\ n + 1 \notin s \ {n + 1}
        OBVIOUS
      <4>4. new[s \ {n + 1}] = g[s \ {n + 1}]
        BY <4>3
      <4>5. new[s] = wm_draw_window(g[s \ {n + 1}], stack[n + 1])
        BY <3>2
      <4> HIDE DEF new
      <4> QED BY <4>1, <4>2, <4>4, <4>5
    <3> QED BY <3>1, <3>2
  <2>3. IsPaint(new, n + 1)
    <3>1. new = [s \in SUBSET (1 .. n + 1) |-> new[s]]
      OBVIOUS
    <3> HIDE DEF new
    <3> QED BY <2>2, <3>1 DEF IsPaint
  <2>4. n + 1 \in Nat
    OBVIOUS
  <2> HIDE DEF new
  <2> QED BY <2>3, <2>4
<1>3. \A n \in 0 .. m : n \in T
  <2> HIDE DEF T
  <2> QED BY <1>1, <1>2, UpTo
<1>4. m \in 0 .. m
  OBVIOUS
<1> QED BY <1>3, <1>4

\* ... and runs through the layers from the back.
LEMMA PaintLayers ==
  ASSUME NEW n \in Nat, NEW g, IsPaint(g, n)
  PROVE  /\ g[1 .. 0] = FirstPaint
         /\ \A k \in 0 .. n - 1 : g[1 .. k + 1] = wm_draw_window(g[1 .. k], stack[k + 1])
<1>1. \A s \in SUBSET (1 .. n) :
        g[s] = IF s = {} THEN FirstPaint ELSE wm_draw_window(g[s \ {Max(s)}], stack[Max(s)])
  BY DEF IsPaint
<1>2. 1 .. 0 = {}
  OBVIOUS
<1>3. ASSUME NEW k \in 0 .. n - 1 PROVE g[1 .. k + 1] = wm_draw_window(g[1 .. k], stack[k + 1])
  <2> DEFINE s == 1 .. k + 1
  <2>1. s \in SUBSET (1 .. n) /\ k + 1 \in s /\ s # {}
    OBVIOUS
  <2>2. Max(s) \in s /\ \A y \in s : Max(s) >= y
    <3> HIDE DEF s
    <3> QED BY <2>1, GreatestIs
  <2>3. Max(s) = k + 1
    <3>1. Max(s) \in 1 .. k + 1 /\ Max(s) >= k + 1
      BY <2>1, <2>2
    <3> QED BY <3>1
  <2>4. s \ {k + 1} = 1 .. k
    OBVIOUS
  <2> HIDE DEF s
  <2>5. g[s] = wm_draw_window(g[s \ {Max(s)}], stack[Max(s)])
    BY <1>1, <2>1
  <2> QED BY <2>3, <2>4, <2>5 DEF s
<1> QED BY <1>1, <1>2, <1>3

LEMMA RenderIs ==
  ASSUME stack \in Seq(Windows)
  PROVE  \E g : IsPaint(g, Len(stack)) /\ wm_compositor_render = g[1 .. Len(stack)]
<1> DEFINE W == CHOOSE g : IsPaint(g, Len(stack))
<1>1. DOMAIN stack = 1 .. Len(stack) /\ Len(stack) \in Nat
  OBVIOUS
<1>2. wm_compositor_render = W[1 .. Len(stack)]
  BY <1>1, Zenon DEF wm_compositor_render, FoldLeft, MapThenFoldSet, IsPaint, FirstPaint, Blank
<1>3. IsPaint(W, Len(stack))
  <2>1. \E g : IsPaint(g, Len(stack))
    BY <1>1, PaintExists
  <2> QED BY <2>1
<1> QED BY <1>2, <1>3

\* The pixel of a row and a column.
LEMMA CellIs ==
  ASSUME NEW x \in Nat, NEW y \in Nat, NEW S \in Nat, NEW H \in Nat, x < S, y < H
  PROVE  /\ y * S + x \in 0 .. H * S - 1
         /\ (y * S + x) % S = x /\ (y * S + x) \div S = y
<1> DEFINE i == y * S + x
           q == i \div S
           r == i % S
<1>1. y * S \in Nat /\ i \in Nat /\ S > 0
  OBVIOUS
<1>2. q \in Nat /\ r \in 0 .. S - 1 /\ i = S * q + r
  <2> HIDE DEF i
  <2> QED BY <1>1
<1>3. q = y
  <2> HIDE DEF q, r
  <2>1. S * q + r = S * y + x
    BY <1>2
  <2>2. \A a, b \in Nat : a < b => S * a + S <= S * b
    OBVIOUS
  <2> QED BY <1>1, <1>2, <2>1, <2>2
<1>4. r = x
  <2> HIDE DEF q, r
  <2> QED BY <1>1, <1>2, <1>3
<1>5. y * S + S <= H * S
  <2>1. y + 1 <= H
    OBVIOUS
  <2>2. (H - (y + 1)) * S >= 0
    BY <2>1
  <2> QED BY <2>2
<1> QED BY <1>1, <1>3, <1>4, <1>5

\* Clipping ends a stretch where the hit test does.
LEMMA ClipIs ==
  ASSUME NEW start \in Coord, NEW size \in Coord, NEW limit \in Coord,
         NEW p \in 0 .. limit - 1
  PROVE  p \in start .. ClippedEnd(start, size, limit) - 1 <=> p >= start /\ p - start < size
<1> DEFINE sum == start + size
<1>1. sum \in 0 .. Word + Word - 2 /\ Word \in Nat /\ limit < Word
  BY DEF Coord
<1>2. sum % Word = IF sum < Word THEN sum ELSE sum - Word
  <2> HIDE DEF sum
  <2> QED BY <1>1
<1> QED BY <1>1, <1>2 DEF ClippedEnd, Coord

Screen == 0 .. Height * Stride - 1
IsCell(i, x, y) == i = y * Stride + x

\* A rectangle is painted on the pixels inside it, as far as there is a screen.
LEMMA FillIs ==
  ASSUME NEW x \in 0 .. Width - 1, NEW y \in 0 .. Height - 1, NEW rect \in Rect, NEW paint,
         NEW pixels, DOMAIN pixels = Screen, NEW i, IsCell(i, x, y),
         NEW after, after = framebuffer_fill_rect(pixels, rect, paint)
  PROVE  /\ DOMAIN after = Screen
         /\ after[i] = IF InRect(rect, <<x, y>>) THEN paint ELSE pixels[i]
<1> DEFINE max_x == ClippedEnd(rect.x, rect.w, Width)
           max_y == ClippedEnd(rect.y, rect.h, Height)
<1>1. i \in DOMAIN pixels /\ i % Stride = x /\ i \div Stride = y
  <2>1. /\ x \in Nat /\ y \in Nat /\ Stride \in Nat /\ Height \in Nat /\ x < Stride /\ y < Height
    BY DEF Coord
  <2> QED BY <2>1, CellIs DEF Screen, IsCell
<1>2. rect.x \in Coord /\ rect.y \in Coord /\ rect.w \in Coord /\ rect.h \in Coord
  BY DEF Rect
<1>3. /\ x \in rect.x .. max_x - 1 <=> x >= rect.x /\ x - rect.x < rect.w
      /\ y \in rect.y .. max_y - 1 <=> y >= rect.y /\ y - rect.y < rect.h
  BY <1>2, ClipIs
<1> HIDE DEF max_x, max_y
<1>4. CASE rect.w = 0 \/ rect.h = 0 \/ rect.x >= Width \/ rect.y >= Height
  <2>1. after = pixels
    BY <1>4 DEF framebuffer_fill_rect
  <2>2. ~InRect(rect, <<x, y>>)
    BY <1>2, <1>4 DEF InRect, Coord
  <2> QED BY <2>1, <2>2
<1>5. CASE ~(rect.w = 0 \/ rect.h = 0 \/ rect.x >= Width \/ rect.y >= Height)
  <2> DEFINE Painted(j) == j % Stride \in rect.x .. max_x - 1 /\ j \div Stride \in rect.y .. max_y - 1
  <2>1. after = [j \in DOMAIN pixels |-> IF Painted(j) THEN paint ELSE pixels[j]]
    BY <1>5 DEF framebuffer_fill_rect, max_x, max_y
  <2>2. Painted(i) <=> InRect(rect, <<x, y>>)
    BY <1>1, <1>3, <1>5 DEF InRect
  <2> HIDE DEF Painted
  <2> QED BY <1>1, <2>1, <2>2
<1> QED BY <1>4, <1>5


\* A window is far enough from the largest coordinate for the accent of its title.
Near(f) == f.x + Border + AccentInset < Word /\ f.y + Border + AccentInset < Word

\* The parts of a window that is drawn.
LEMMA BarIs ==
  ASSUME NEW f \in Rect, wm_window_is_valid(f), Near(f), NEW bar, bar = wm_window_title_bar_rect(f)
  PROVE  /\ bar \in Rect /\ bar.w \in Nat \ {0} /\ bar.h \in Nat \ {0}
         /\ f.x <= bar.x /\ bar.x + bar.w <= f.x + f.w /\ bar.x + AccentInset < Word
         /\ f.y <= bar.y /\ bar.y + bar.h <= f.y + f.h /\ bar.y + AccentInset < Word
         /\ bar.y + bar.h + ClampSub(InnerHeight(f), bar.h) <= f.y + f.h
         /\ InnerHeight(f) \in Coord
<1> DEFINE b == EffectiveBorder(f)
<1>1. f.x \in Coord /\ f.y \in Coord /\ f.w \in Coord /\ f.h \in Coord
  BY DEF Rect
<1>2. f.w # 0 /\ f.h # 0 /\ bar.w # 0 /\ bar.h # 0
  BY DEF wm_window_is_valid
<1>3. b \in Nat /\ b <= Border /\ b + b <= f.w /\ b + b <= f.h
  BY <1>1 DEF EffectiveBorder, Least, Coord
<1>4. InnerHeight(f) = f.h - b - b
  BY <1>1, <1>3 DEF InnerHeight, ClampSub, Coord
<1>5. bar = [x |-> SatAdd(f.x, b), y |-> SatAdd(f.y, b),
             w |-> ClampSub(ClampSub(f.w, b), b), h |-> Least(TitleHeight, InnerHeight(f))]
  BY <1>2 DEF wm_window_title_bar_rect
<1> HIDE DEF b
<1>6. AccentInset \in Nat
  OBVIOUS
<1>7. SatAdd(f.x, b) = f.x + b /\ SatAdd(f.y, b) = f.y + b
  BY <1>1, <1>3, <1>6 DEF SatAdd, Near, Coord
<1>8. ClampSub(ClampSub(f.w, b), b) = f.w - b - b
  BY <1>1, <1>3 DEF ClampSub, Coord
<1>9. /\ bar.x = f.x + b /\ bar.y = f.y + b /\ bar.w = f.w - b - b
      /\ bar.h = Least(TitleHeight, f.h - b - b)
  BY <1>4, <1>5, <1>7, <1>8
<1>10. bar.h \in Nat /\ bar.h <= f.h - b - b
  BY <1>1, <1>3, <1>9 DEF Least, Coord
<1>11. bar.x \in Coord /\ bar.y \in Coord /\ bar.w \in Coord /\ bar.h \in Coord
  BY <1>1, <1>3, <1>6, <1>9, <1>10 DEF Near, Coord
<1>12. bar \in Rect
  BY <1>5, <1>11 DEF Rect
<1>13. ClampSub(InnerHeight(f), bar.h) = (f.h - b - b) - bar.h
  BY <1>1, <1>3, <1>4, <1>10 DEF ClampSub, Coord
<1>14. InnerHeight(f) \in Coord
  BY <1>1, <1>3, <1>4 DEF Coord
<1> QED BY <1>1, <1>2, <1>3, <1>6, <1>9, <1>10, <1>12, <1>13, <1>14 DEF Near, Coord

LEMMA ContentIs ==
  ASSUME NEW f \in Rect, wm_window_is_valid(f), Near(f), NEW bar, bar = wm_window_title_bar_rect(f),
         NEW c, c = wm_window_content_rect(f),
         NEW x \in 0 .. Width - 1, NEW y \in 0 .. Height - 1, InRect(c, <<x, y>>)
  PROVE  InRect(f, <<x, y>>) /\ ~InRect(bar, <<x, y>>)
<1>1. f.x \in Coord /\ f.y \in Coord /\ f.w \in Coord /\ f.h \in Coord /\ f.w # 0 /\ f.h # 0
  BY DEF Rect, wm_window_is_valid
<1>2. /\ bar.x \in Coord /\ bar.y \in Coord /\ bar.w \in Coord /\ bar.h \in Coord
      /\ f.x <= bar.x /\ bar.x + bar.w <= f.x + f.w /\ f.y <= bar.y
      /\ bar.y + bar.h + ClampSub(InnerHeight(f), bar.h) <= f.y + f.h
      /\ ClampSub(InnerHeight(f), bar.h) \in Nat
  BY BarIs DEF Rect, ClampSub, Coord
<1>3. c = [x |-> bar.x, y |-> SatAdd(bar.y, bar.h), w |-> bar.w, h |-> ClampSub(InnerHeight(f), bar.h)]
  BY <1>1 DEF wm_window_content_rect
<1>4. x >= bar.x /\ x - bar.x < bar.w
  BY <1>3 DEF InRect
<1>5. y >= SatAdd(bar.y, bar.h) /\ y - SatAdd(bar.y, bar.h) < ClampSub(InnerHeight(f), bar.h)
  BY <1>3 DEF InRect
<1>6. SatAdd(bar.y, bar.h) = bar.y + bar.h
  BY <1>2, <1>5 DEF SatAdd, Coord
<1> QED BY <1>1, <1>2, <1>4, <1>5, <1>6 DEF InRect, Coord

LEMMA ContentType ==
  ASSUME NEW f \in Rect, wm_window_is_valid(f), Near(f)
  PROVE  wm_window_content_rect(f) \in Rect
<1> DEFINE bar == wm_window_title_bar_rect(f)
<1>1. bar \in Rect /\ InnerHeight(f) \in Coord
  BY BarIs
<1>2. f.h # 0
  BY DEF wm_window_is_valid
<1>3. wm_window_content_rect(f) = [x |-> bar.x, y |-> SatAdd(bar.y, bar.h),
        w |-> bar.w, h |-> ClampSub(InnerHeight(f), bar.h)]
  BY <1>2 DEF wm_window_content_rect
<1> HIDE DEF bar
<1>4. bar.x \in Coord /\ bar.y \in Coord /\ bar.w \in Coord /\ bar.h \in Coord
  BY <1>1 DEF Rect
<1>5. SatAdd(bar.y, bar.h) \in Coord /\ ClampSub(InnerHeight(f), bar.h) \in Coord
  BY <1>1, <1>4 DEF SatAdd, ClampSub, Coord
<1> QED BY <1>3, <1>4, <1>5 DEF Rect

LEMMA AccentIs ==
  ASSUME NEW f \in Rect, wm_window_is_valid(f), Near(f), NEW hash \in Nat,
         NEW bar, bar = wm_window_title_bar_rect(f), NEW x \in Nat, NEW y \in Nat
  PROVE  /\ Accent(f, hash) \in Rect
         /\ InRect(Accent(f, hash), <<x, y>>) => InRect(bar, <<x, y>>)
<1>1. /\ bar.x \in Coord /\ bar.y \in Coord /\ bar.w \in Coord /\ bar.h \in Coord
      /\ bar.w # 0 /\ bar.h # 0 /\ bar.x + AccentInset < Word /\ bar.y + AccentInset < Word
  BY BarIs DEF Rect
<1>2. AccentInset \in Nat /\ AccentMin \in Nat /\ AccentInset <= AccentMin /\ Word > 1
  BY <1>1 DEF Coord
<1>3. CASE bar.w > AccentMin /\ bar.h > AccentInset
  <2> DEFINE rest == hash % (bar.w - AccentMin)
             width == AccentMin + rest - AccentInset
  <2>1. rest \in 0 .. bar.w - AccentMin - 1
    <3> DEFINE d == bar.w - AccentMin
    <3>1. d \in Nat \ {0}
      BY <1>1, <1>2, <1>3 DEF Coord
    <3> HIDE DEF d
    <3>2. hash % d \in 0 .. d - 1
      BY <3>1
    <3> QED BY <3>2 DEF d
  <2> HIDE DEF rest
  <2>2. width \in Coord /\ width + AccentInset < bar.w
    BY <1>1, <1>2, <1>3, <2>1 DEF Coord
  <2>3. (bar.x + AccentInset) % Word = bar.x + AccentInset
        /\ (bar.y + AccentInset) % Word = bar.y + AccentInset
    BY <1>1, <1>2 DEF Coord
  <2>4. Accent(f, hash) = [x |-> bar.x + AccentInset, y |-> bar.y + AccentInset, w |-> width, h |-> 1]
    BY <1>3, <2>3 DEF Accent, rest
  <2> HIDE DEF width
  <2>5. bar.x + AccentInset \in Coord /\ bar.y + AccentInset \in Coord /\ 1 \in Coord
    BY <1>1, <1>2 DEF Coord
  <2>6. Accent(f, hash) \in Rect
    BY <2>2, <2>4, <2>5 DEF Rect
  <2>7. ASSUME InRect(Accent(f, hash), <<x, y>>) PROVE InRect(bar, <<x, y>>)
    <3>1. /\ x >= bar.x + AccentInset /\ x - (bar.x + AccentInset) < width
          /\ y >= bar.y + AccentInset /\ y - (bar.y + AccentInset) < 1
      BY <2>4, <2>7 DEF InRect
    <3> QED BY <1>1, <1>2, <1>3, <2>2, <3>1 DEF InRect, Coord
  <2> QED BY <2>6, <2>7
<1>4. CASE ~(bar.w > AccentMin /\ bar.h > AccentInset)
  <2>1. Accent(f, hash) = NoRect
    BY <1>4 DEF Accent
  <2> QED BY <2>1 DEF NoRect, Rect, Coord, InRect
<1> QED BY <1>3, <1>4

\* A window is drawn exactly where it is hit, and its title where it is grabbed.
LEMMA DrawIs ==
  ASSUME NEW x \in 0 .. Width - 1, NEW y \in 0 .. Height - 1, NEW win \in Windows,
         NEW f, f = frame[win], f \in Rect, wm_window_is_valid(f), Near(f),
         NEW pixels, DOMAIN pixels = Screen,
         NEW after, after = wm_draw_window(pixels, win), NEW i, IsCell(i, x, y)
  PROVE  /\ DOMAIN after = Screen
         /\ ~InRect(f, <<x, y>>) => after[i] = pixels[i]
         /\ InRect(f, <<x, y>>) =>
              /\ after[i][1] = win
              /\ (after[i][2] = "title") = InRect(wm_window_title_bar_rect(f), <<x, y>>)
<1> DEFINE bar == wm_window_title_bar_rect(f)
           inner == wm_window_content_rect(f)
           accent == Accent(f, TitleHash[win])
           border == framebuffer_fill_rect(pixels, f, <<win, "border">>)
           title == framebuffer_fill_rect(border, bar, <<win, "title">>)
           content == framebuffer_fill_rect(title, inner, <<win, "content">>)
           pt == <<x, y>>
<1>1. after = framebuffer_fill_rect(content, accent, <<win, "title">>)
  BY DEF wm_draw_window
<1>2. bar \in Rect /\ inner \in Rect /\ accent \in Rect
  <2>1. TitleHash[win] \in Nat /\ x \in Nat /\ y \in Nat
    OBVIOUS
  <2> QED BY <2>1, BarIs, ContentType, AccentIs
<1>3. /\ InRect(accent, pt) => InRect(bar, pt)
      /\ InRect(inner, pt) => InRect(f, pt) /\ ~InRect(bar, pt)
      /\ InRect(bar, pt) => InRect(f, pt)
  <2>1. TitleHash[win] \in Nat /\ x \in Nat /\ y \in Nat
    OBVIOUS
  <2>2. InRect(accent, pt) => InRect(bar, pt)
    BY <2>1, AccentIs
  <2>3. InRect(inner, pt) => InRect(f, pt) /\ ~InRect(bar, pt)
    BY ContentIs
  <2>4. ASSUME InRect(bar, pt) PROVE InRect(f, pt)
    <3>1. f.x <= bar.x /\ bar.x + bar.w <= f.x + f.w /\ f.y <= bar.y /\ bar.y + bar.h <= f.y + f.h
      BY BarIs
    <3>2. /\ bar.x \in Nat /\ bar.y \in Nat /\ bar.w \in Nat /\ bar.h \in Nat
          /\ f.x \in Nat /\ f.y \in Nat /\ f.w \in Nat /\ f.h \in Nat /\ f.w # 0 /\ f.h # 0
      BY <1>2 DEF Rect, Coord, wm_window_is_valid
    <3> HIDE DEF bar
    <3> QED BY <2>1, <2>4, <3>1, <3>2 DEF InRect
  <2> QED BY <2>2, <2>3, <2>4
<1> HIDE DEF bar, inner, accent, pt
<1>d. ASSUME NEW p, DOMAIN p = Screen, NEW rect \in Rect, NEW paint,
             NEW new, new = framebuffer_fill_rect(p, rect, paint)
      PROVE  DOMAIN new = Screen /\ new[i] = IF InRect(rect, pt) THEN paint ELSE p[i]
  BY <1>d, FillIs DEF pt
<1>4. DOMAIN border = Screen /\ border[i] = IF InRect(f, pt) THEN <<win, "border">> ELSE pixels[i]
  BY <1>d
<1> HIDE DEF border
<1>5. DOMAIN title = Screen /\ title[i] = IF InRect(bar, pt) THEN <<win, "title">> ELSE border[i]
  BY <1>2, <1>4, <1>d
<1> HIDE DEF title
<1>6. DOMAIN content = Screen /\ content[i] = IF InRect(inner, pt) THEN <<win, "content">> ELSE title[i]
  BY <1>2, <1>5, <1>d
<1> HIDE DEF content
<1>7. DOMAIN after = Screen /\ after[i] = IF InRect(accent, pt) THEN <<win, "title">> ELSE content[i]
  BY <1>1, <1>2, <1>6, <1>d
<1>8. CASE ~InRect(f, pt)
  BY <1>3, <1>4, <1>5, <1>6, <1>7, <1>8 DEF pt
<1>9. CASE InRect(f, pt) /\ InRect(bar, pt)
  <2>1. after[i] = <<win, "title">>
    BY <1>3, <1>4, <1>5, <1>6, <1>7, <1>9
  <2>2. after[i][1] = win /\ (after[i][2] = "title") = TRUE
    BY <2>1
  <2>3. InRect(wm_window_title_bar_rect(f), <<x, y>>) = TRUE
    BY <1>9 DEF bar, pt, InRect
  <2> QED BY <1>7, <1>9, <2>2, <2>3, Zenon DEF pt
<1>10. CASE InRect(f, pt) /\ ~InRect(bar, pt)
  <2>1. after[i] = <<win, "border">> \/ after[i] = <<win, "content">>
    BY <1>3, <1>4, <1>5, <1>6, <1>7, <1>10
  <2>2. after[i][1] = win /\ after[i][2] # "title"
    BY <2>1
  <2>3. ~InRect(wm_window_title_bar_rect(f), <<x, y>>)
    BY <1>10 DEF bar, pt
  <2> QED BY <1>7, <1>10, <2>2, <2>3 DEF pt, InRect
<1> QED BY <1>8, <1>9, <1>10 DEF pt

\* The windows of the scene can be drawn.
Drawable ==
  /\ \A win \in Windows : Near(frame[win])
  /\ \A k \in DOMAIN stack : wm_window_is_valid(frame[stack[k]])

\* A pixel shows the topmost of the windows that have been drawn over it.
Shows(shown, win, pt) ==
  /\ shown[1] = win
  /\ (shown[2] = "title") = InRect(wm_window_title_bar_rect(frame[win]), pt)
Over(k, pt) == {j \in 1 .. k : InRect(frame[stack[j]], pt)}
Layered(pixels, k, i, pt) ==
  /\ DOMAIN pixels = Screen
  /\ Over(k, pt) = {} => pixels[i] = Background
  /\ \A j \in Over(k, pt) : (\A l \in Over(k, pt) : l <= j) => Shows(pixels[i], stack[j], pt)

LEMMA FirstLayer ==
  ASSUME NEW x \in 0 .. Width - 1, NEW y \in 0 .. Height - 1, NEW i, IsCell(i, x, y)
  PROVE  Layered(FirstPaint, 0, i, <<x, y>>)
<1> DEFINE rect == [x |-> 0, y |-> 0, w |-> Width, h |-> Height]
<1>1. rect \in Rect
  BY DEF Rect, Coord
<1>2. DOMAIN Blank = Screen
  BY DEF Blank, Screen
<1>3. i \in Screen
  <2>1. /\ x \in Nat /\ y \in Nat /\ Stride \in Nat /\ Height \in Nat /\ x < Stride /\ y < Height
    BY DEF Coord
  <2> QED BY <2>1, CellIs DEF Screen, IsCell
<1>4. Blank[i] = Background
  BY <1>3 DEF Blank, Screen
<1> HIDE DEF rect
<1>5. FirstPaint = framebuffer_fill_rect(Blank, rect, Background)
  BY DEF FirstPaint, rect
<1>6. DOMAIN FirstPaint = Screen /\ FirstPaint[i] = IF InRect(rect, <<x, y>>) THEN Background ELSE Blank[i]
  BY <1>1, <1>2, <1>5, FillIs
<1>7. Over(0, <<x, y>>) = {}
  BY DEF Over
<1> QED BY <1>4, <1>6, <1>7 DEF Layered

LEMMA OneMoreIndex == ASSUME NEW k \in Nat PROVE 1 .. k + 1 = (1 .. k) \cup {k + 1}
OBVIOUS

LEMMA NextLayer ==
  ASSUME frame \in [Windows -> Rect], stack \in Seq(Windows), Drawable,
         NEW x \in 0 .. Width - 1, NEW y \in 0 .. Height - 1, NEW i, IsCell(i, x, y),
         NEW k \in 0 .. Len(stack) - 1, NEW pixels, Layered(pixels, k, i, <<x, y>>),
         NEW after, after = wm_draw_window(pixels, stack[k + 1])
  PROVE  Layered(after, k + 1, i, <<x, y>>)
<1> DEFINE pt == <<x, y>>
           top == k + 1
           win == stack[top]
           f == frame[win]
<1>0. k \in Nat /\ Len(stack) \in Nat /\ k < Len(stack) /\ DOMAIN stack = 1 .. Len(stack)
  OBVIOUS
<1>1. top \in DOMAIN stack /\ win \in Windows /\ f \in Rect /\ wm_window_is_valid(f) /\ Near(f)
  <2>1. top \in DOMAIN stack
    BY <1>0
  <2>2. win \in Windows
    <3> HIDE DEF top
    <3> QED BY <2>1
  <2> HIDE DEF top
  <2>3. wm_window_is_valid(f)
    BY <2>1 DEF Drawable
  <2> HIDE DEF win
  <2> QED BY <2>1, <2>2, <2>3 DEF Drawable
<1>2. /\ DOMAIN after = Screen
      /\ ~InRect(f, pt) => after[i] = pixels[i]
      /\ InRect(f, pt) => Shows(after[i], win, pt)
  <2> HIDE DEF top, win, f
  <2>1. DOMAIN pixels = Screen /\ after = wm_draw_window(pixels, win) /\ f = frame[win]
    BY DEF Layered, win, top, f
  <2>2. /\ DOMAIN after = Screen
        /\ ~InRect(f, <<x, y>>) => after[i] = pixels[i]
        /\ InRect(f, <<x, y>>) =>
              /\ after[i][1] = win
              /\ (after[i][2] = "title") = InRect(wm_window_title_bar_rect(f), <<x, y>>)
    BY <1>1, <2>1, DrawIs, SMTT(30)
  <2> QED BY <2>2 DEF Shows, f
<1>3. CASE ~InRect(f, pt)
  <2>1. Over(k + 1, pt) = Over(k, pt)
    <3>1. k \in Nat
      BY <1>0
    <3>2. 1 .. k + 1 = (1 .. k) \cup {top}
      BY <3>1, OneMoreIndex
    <3> QED BY <1>3, <3>2, Zenon DEF Over
  <2> QED BY <1>2, <1>3, <2>1 DEF Layered
<1>4. CASE InRect(f, pt)
  <2>1. top \in Over(k + 1, pt) /\ \A l \in Over(k + 1, pt) : l \in 1 .. k + 1
    BY <1>4 DEF Over
  <2>2. ASSUME NEW j \in Over(k + 1, pt), \A l \in Over(k + 1, pt) : l <= j PROVE j = top
    <3>1. j \in 1 .. k + 1 /\ top <= j
      BY <2>1, <2>2
    <3> QED BY <3>1
  <2> QED BY <1>2, <1>4, <2>1, <2>2 DEF Layered
<1> QED BY <1>3, <1>4

\* In a scene that can be drawn, what is seen is what is hit.
LEMMA DrawnIsHit ==
  ASSUME frame \in [Windows -> Rect], stack \in Seq(Windows), Drawable
  PROVE  VisibleIsHit
<1> DEFINE n == Len(stack)
<1>1. PICK g : IsPaint(g, n) /\ wm_compositor_render = g[1 .. n]
  BY RenderIs
<1>2. n \in Nat /\ DOMAIN stack = 1 .. n
  OBVIOUS
<1>3. /\ g[1 .. 0] = FirstPaint
      /\ \A k \in 0 .. n - 1 : g[1 .. k + 1] = wm_draw_window(g[1 .. k], stack[k + 1])
  <2> HIDE DEF n
  <2> QED BY <1>1, <1>2, PaintLayers
<1> DEFINE Right(shown, win, pt) ==
             /\ shown[1] = win
             /\ win # NoWindow => (shown[2] = "title") = InRect(wm_window_title_bar_rect(frame[win]), pt)
<1>s. (\A x \in 0 .. Width - 1, y \in 0 .. Height - 1 :
         Right(wm_compositor_render[y * Stride + x], wm_compositor_hit_test(<<x, y>>), <<x, y>>))
        => VisibleIsHit
  BY Zenon DEF VisibleIsHit
<1> SUFFICES ASSUME NEW x \in 0 .. Width - 1, NEW y \in 0 .. Height - 1,
                    NEW shown, shown = wm_compositor_render[y * Stride + x],
                    NEW win, win = wm_compositor_hit_test(<<x, y>>)
             PROVE  Right(shown, win, <<x, y>>)
  <2> HIDE DEF Right
  <2> QED BY <1>s
<1> DEFINE i == y * Stride + x
<1>i. IsCell(i, x, y) /\ shown = g[1 .. n][i]
  BY <1>1 DEF IsCell
<1> HIDE DEF i
<1> DEFINE pt == <<x, y>>
           T == {k \in 0 .. n : Layered(g[1 .. k], k, i, pt)}
<1>4. 0 \in T
  BY <1>2, <1>3, <1>i, FirstLayer
<1>5. ASSUME NEW k \in 0 .. n - 1, k \in T PROVE k + 1 \in T
  <2>1. Layered(g[1 .. k], k, i, <<x, y>>) /\ g[1 .. k + 1] = wm_draw_window(g[1 .. k], stack[k + 1])
    BY <1>3, <1>5
  <2>2. Layered(g[1 .. k + 1], k + 1, i, <<x, y>>)
    BY <1>i, <2>1, NextLayer
  <2>3. k + 1 \in 0 .. n
    BY <1>2
  <2> QED BY <2>2, <2>3
<1>6. Layered(g[1 .. n], n, i, pt)
  <2>1. \A k \in 0 .. n : k \in T
    <3> HIDE DEF T, n
    <3> QED BY <1>2, <1>4, <1>5, UpTo
  <2>2. n \in 0 .. n
    BY <1>2
  <2> QED BY <2>1, <2>2
<1>7. Over(n, pt) = Hit(pt)
  BY <1>2 DEF Over, Hit
<1> HIDE DEF n, T
<1>8. CASE Hit(pt) = {}
  <2>1. shown = Background /\ win = NoWindow
    BY <1>6, <1>7, <1>8, <1>i DEF Layered, wm_compositor_hit_test
  <2> QED BY <2>1 DEF Background
<1>9. CASE Hit(pt) # {}
  <2> DEFINE j == CHOOSE j \in Hit(pt) : \A l \in Hit(pt) : l <= j
  <2>1. Hit(pt) \subseteq 1 .. n
    BY <1>2 DEF Hit
  <2>2. \E l \in Hit(pt) : \A m \in Hit(pt) : m <= l
    BY <1>2, <1>9, <2>1, GreatestIndex
  <2>3. j \in Hit(pt) /\ \A l \in Hit(pt) : l <= j
    BY <2>2
  <2>4. win = stack[j]
    BY <1>9 DEF wm_compositor_hit_test
  <2> HIDE DEF j
  <2>5. Shows(shown, win, pt)
    BY <1>i, <1>6, <1>7, <2>3, <2>4 DEF Layered
  <2> QED BY <2>5 DEF Shows
<1> QED BY <1>8, <1>9

\* Windows are opened, and the mouse goes, where an accent does not wrap around.
NearPlaces ==
  /\ \A win \in Windows : Near(Descs[win])
  /\ \A pt \in Points : Near([x |-> pt[1], y |-> pt[2]])

\* Whether a window is valid depends on its size, which nothing changes, and a window
\* is dragged to no larger coordinates than the mouse goes to.
PictureInv ==
  /\ \A win \in Windows : Near(frame[win])
  /\ \A k \in DOMAIN queue : queue[k].pt \in Points
  /\ \A win \in Range(stack) : wm_window_is_valid(Descs[win])

LEMMA ValidBySize ==
  ASSUME NEW f \in Rect, NEW d \in Rect, f.w = d.w, f.h = d.h, wm_window_is_valid(d)
  PROVE  wm_window_is_valid(f)
<1>1. EffectiveBorder(f) = EffectiveBorder(d)
  BY DEF EffectiveBorder
<1>2. InnerHeight(f) = InnerHeight(d)
  BY <1>1 DEF InnerHeight
<1>3. f.w # 0 /\ f.h # 0 /\ d.w # 0 /\ d.h # 0
  BY DEF wm_window_is_valid
<1>4. /\ wm_window_title_bar_rect(f).w = wm_window_title_bar_rect(d).w
      /\ wm_window_title_bar_rect(f).h = wm_window_title_bar_rect(d).h
  BY <1>1, <1>2, <1>3 DEF wm_window_title_bar_rect
<1>5. /\ wm_window_content_rect(f).w = wm_window_content_rect(d).w
      /\ wm_window_content_rect(f).h = wm_window_content_rect(d).h
  BY <1>2, <1>3, <1>4 DEF wm_window_content_rect
<1> QED BY <1>3, <1>4, <1>5 DEF wm_window_is_valid

LEMMA PictureEmit ==
  ASSUME SceneInv, PictureInv, NEW pt \in Points, NEW type, NEW down, NEW button,
         mouse_emit(type, pt, down, button)
  PROVE  PictureInv'
<1> DEFINE e == [type |-> type, pt |-> pt, buttons |-> down, button |-> button]
<1>1. UNCHANGED <<frame, stack>> /\ queue' \in {queue, Append(queue, e)}
  BY DEF mouse_emit, wmVars
<1>2. e.pt \in Points /\ queue \in Seq(Event)
  BY DEF SceneInv, Types
<1> HIDE DEF e
<1>3. ASSUME NEW k \in DOMAIN queue' PROVE queue'[k].pt \in Points
  <2>1. CASE queue' = queue
    BY <1>3, <2>1 DEF PictureInv
  <2>2. CASE queue' = Append(queue, e)
    <3>1. /\ DOMAIN queue' = 1 .. Len(queue) + 1 /\ DOMAIN queue = 1 .. Len(queue) /\ Len(queue) \in Nat
      BY <1>2, <2>2
    <3>2. queue'[k] = IF k = Len(queue) + 1 THEN e ELSE queue[k]
      BY <1>2, <1>3, <2>2, <3>1
    <3> QED BY <1>2, <1>3, <3>1, <3>2 DEF PictureInv
  <2> QED BY <1>1, <2>1, <2>2
<1> QED BY <1>1, <1>3 DEF PictureInv

\* Where a dragged window goes.
LEMMA PictureMove ==
  ASSUME SceneInv, NEW e \in Event, Near([x |-> e.pt[1], y |-> e.pt[2]]),
         \A win \in Windows : Near(frame[win]), process_mouse_move(e)
  PROVE  \A win \in Windows : Near(frame'[win])
<1>1. frame \in [Windows -> Rect]
  BY DEF SceneInv, Types
<1>2. CASE UNCHANGED frame
  BY <1>2
<1>3. CASE /\ drag \in DOMAIN bindings /\ bindings[drag].window \in Windows
           /\ frame' = [frame EXCEPT ![bindings[drag].window] =
                          [frame[bindings[drag].window] EXCEPT
                             !.x = ClampSub(e.pt[1], offset[1]),
                             !.y = ClampSub(e.pt[2], offset[2])]]
  <2> DEFINE it == bindings[drag].window
             f == frame'[it]
  <2>1. frame[it] \in Rect
    BY <1>1, <1>3
  <2>2. f.x = ClampSub(e.pt[1], offset[1]) /\ f.y = ClampSub(e.pt[2], offset[2])
    BY <1>1, <1>3, <2>1 DEF Rect
  <2>3. /\ e.pt[1] \in Nat /\ e.pt[2] \in Nat /\ offset[1] \in Nat /\ offset[2] \in Nat
    BY SMTT(30) DEF SceneInv, Types, Event, Coord
  <2>4. e.pt[1] + Border + AccentInset < Word /\ e.pt[2] + Border + AccentInset < Word
    BY DEF Near
  <2>5. AccentInset \in Nat
    OBVIOUS
  <2> HIDE DEF f
  <2>6. f.x + Border + AccentInset < Word /\ f.y + Border + AccentInset < Word
    BY <2>2, <2>3, <2>4, <2>5 DEF ClampSub
  <2>7. Near(f)
    BY <2>6 DEF Near
  <2> QED BY <1>1, <1>3, <2>7 DEF f
<1> QED BY <1>2, <1>3, MoveIs

LEMMA PictureStep ==
  ASSUME NearPlaces, SceneInv, SceneInv', PictureInv, [Next]_vars
  PROVE  PictureInv'
<1>0. /\ frame \in [Windows -> Rect] /\ queue \in Seq(Event) /\ stack \in Seq(Windows)
  BY DEF SceneInv, Types
<1>1. CASE StartSession
  <2>1. frame' = frame /\ stack' = <<>> /\ queue' = <<>>
    BY <1>1 DEF StartSession, wm_compositor_reset
  <2> QED BY <2>1 DEF PictureInv, Range
<1>2. ASSUME NEW win \in Windows, app_window_open(win) PROVE PictureInv'
  <2>1. frame' = [frame EXCEPT ![win] = Descs[win]] /\ queue' = queue
    BY <1>2 DEF app_window_open
  <2>2. \A v \in Windows : Near(frame'[v])
    BY <1>0, <2>1 DEF PictureInv, NearPlaces
  <2>3. CASE CanAdd(win, Descs[win])
    <3>1. AddWindow(win) /\ wm_window_is_valid(Descs[win]) /\ ~Contains(stack, win)
      BY <1>2, <2>3 DEF app_window_open, CanAdd
    <3>2. Range(stack') = Range(stack) \cup {win}
      BY <3>1, AddIs DEF SceneInv
    <3> QED BY <2>1, <2>2, <3>1, <3>2 DEF PictureInv
  <2>4. CASE ~CanAdd(win, Descs[win])
    <3>1. stack' = stack
      BY <1>2, <2>4 DEF app_window_open
    <3> QED BY <2>1, <2>2, <3>1 DEF PictureInv
  <2> QED BY <2>3, <2>4
<1>3. ASSUME UNCHANGED bindings PROVE Range(stack') = Range(stack)
  BY <1>3 DEF SceneInv, SceneIsBound
<1>4. ASSUME NEW win \in Windows, Activate(win) PROVE PictureInv'
  <2>1. UNCHANGED <<frame, queue, bindings>>
    BY <1>4 DEF Activate, dragVars
  <2> QED BY <1>3, <2>1 DEF PictureInv
<1>5. CASE Emits
  BY <1>5, PictureEmit DEF Emits, mouse_emit_move, mouse_emit_button_down, mouse_emit_button_up
<1>6. CASE Waiting
  BY <1>6 DEF Waiting, wmVars, PictureInv
<1>7. CASE wm_drag_process_event
  <2> DEFINE e == Head(queue)
  <2>1. queue # <<>> /\ queue' = Tail(queue) /\ UNCHANGED bindings
    BY <1>7 DEF wm_drag_process_event
  <2>2. e \in Event /\ e.pt \in Points
    BY <1>0, <2>1 DEF PictureInv
  <2>3. ASSUME NEW k \in DOMAIN queue' PROVE queue'[k].pt \in Points
    <3>1. k + 1 \in DOMAIN queue /\ queue'[k] = queue[k + 1]
      BY <1>0, <2>1, <2>3
    <3> QED BY <3>1 DEF PictureInv
  <2>4. \A win \in Windows : Near(frame'[win])
    <3>0. Near([x |-> e.pt[1], y |-> e.pt[2]])
      BY <2>2 DEF NearPlaces
    <3> HIDE DEF e
    <3>1. CASE process_mouse_move(e)
      BY <2>2, <3>0, <3>1, PictureMove DEF PictureInv
    <3>2. CASE process_mouse_button_down(e) \/ process_mouse_button_up(e)
      <4>1. UNCHANGED frame
        BY <3>2 DEF process_mouse_button_down, process_mouse_button_up, wmVars
      <4> QED BY <4>1 DEF PictureInv
    <3> QED BY <1>7, <3>1, <3>2 DEF wm_drag_process_event, e
  <2> QED BY <1>3, <2>1, <2>3, <2>4 DEF PictureInv
<1> QED BY <1>1, <1>2, <1>4, <1>5, <1>6, <1>7, NextIs

\* What is seen is what is clicked (VisibleIsHit): for every screen, all sizes and
\* positions of windows and every sequence of openings, activations, clicks and
\* drags, a pixel shows the window that wm_compositor_hit_test finds there, and its
\* title bar where wm_drag_process_event would grab it.  (A window within AccentInset
\* pixels of the largest coordinate is excluded: its accent wraps around.)
THEOREM SeenIsClicked == ASSUME NearPlaces PROVE Spec => []VisibleIsHit
<1>1. Init => PictureInv
  BY DEF Init, PictureInv, NearPlaces, Range
<1>2. SceneInv /\ SceneInv' /\ PictureInv /\ [Next]_vars => PictureInv'
  BY PictureStep
<1>3. SceneInv /\ Grip /\ PictureInv => VisibleIsHit
  <2> SUFFICES ASSUME SceneInv, Grip, PictureInv PROVE VisibleIsHit
    OBVIOUS
  <2>1. frame \in [Windows -> Rect] /\ stack \in Seq(Windows)
    BY DEF SceneInv, Types
  <2>2. ASSUME NEW k \in DOMAIN stack PROVE wm_window_is_valid(frame[stack[k]])
    <3> DEFINE win == stack[k]
    <3>1. win \in Windows /\ win \in Range(stack)
      BY <2>1 DEF Range
    <3> HIDE DEF win
    <3>2. /\ frame[win] \in Rect /\ Descs[win] \in Rect /\ wm_window_is_valid(Descs[win])
          /\ frame[win].w = Descs[win].w /\ frame[win].h = Descs[win].h
      BY <2>1, <3>1 DEF Grip, PictureInv
    <3>3. wm_window_is_valid(frame[win])
      BY <3>2, ValidBySize
    <3> QED BY <3>3 DEF win
  <2>3. Drawable
    BY <2>2 DEF Drawable, PictureInv
  <2> QED BY <2>1, <2>3, DrawnIsHit
<1>4. Init => Grip /\ DraggedUnderPointer
  BY DEF Init, Grip, DraggedUnderPointer
<1>5. SceneInv /\ SceneInv' /\ Grip /\ DraggedUnderPointer /\ [Next]_vars
        => Grip' /\ DraggedUnderPointer'
  BY GripStep
<1> QED BY <1>1, <1>2, <1>3, <1>4, <1>5, SceneAlways, PTL DEF Spec

\* The same, as it is checked: between two calls of wm_drag_dispatch_pending that
\* find the queue empty.
THEOREM SeenIsClickedWhenIdle == ASSUME NearPlaces PROVE Spec => []VisibleIsHitWhenIdle
<1>1. VisibleIsHit => VisibleIsHitWhenIdle
  BY DEF VisibleIsHitWhenIdle
<1> QED BY <1>1, SeenIsClicked, PTL
===============================================================================
