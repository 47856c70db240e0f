----------------------------- MODULE TerminalProofs ---------------------------
(***************************************************************************)
(* Proofs about Terminal, for every set of windows, terminals, endpoints   *)
(* and keys, every capacity of the tables, the key queue, the line buffer  *)
(* and the history, and every sequence of keys, dispatches, attaches and   *)
(* changes of the focus.                                                   *)
(***************************************************************************)
EXTENDS Terminal, SequenceTheorems, TLAPS

USE WindowAssumption, KeyboardAssumption, TerminalAssumption

KeyEvent ==
  {Text(key, shifted) : key \in Printable, shifted \in BOOLEAN} \cup {ControlEvent(key) : key \in Control}
Queued == [event : KeyEvent, focus : Windows \cup {NoWindow}]
Binding == [window : Terminals, endpoint : Endpoints]
Places == 0 .. HistoryCap - 1

\* A session, whatever its directories: its ring turns only once it is full, and
\* starts to fill only once the terminal has an endpoint.
IsSession(s) ==
  /\ s = [endpoint |-> s.endpoint, input |-> s.input, history |-> s.history,
          count |-> s.count, head |-> s.head, lines |-> s.lines, tree |-> s.tree]
  /\ s.endpoint \in Endpoints \cup {NoEndpoint} /\ s.input \in Seq(KeyEvent)
  /\ s.history \in [Places -> Seq(KeyEvent)]
  /\ s.count \in 0 .. HistoryCap /\ s.head \in Places
  /\ s.count < HistoryCap => s.head = 0
  /\ s.endpoint = NoEndpoint => s.count = 0

Types ==
  /\ stack \in Seq(Windows) /\ active \in Windows \cup {NoWindow}
  /\ keys \in Seq(Queued) /\ bindings \in Seq(Binding)
  /\ DOMAIN session = Terminals /\ \A t \in Terminals : IsSession(session[t])
  /\ recent \in [Terminals -> Seq(Seq(KeyEvent))]
  /\ shift \subseteq held

\* The two tables are filled and emptied together, entry by entry.
SameTables ==
  /\ endpoints = bindings
  /\ \A i, j \in DOMAIN bindings :
       bindings[i].window = bindings[j].window \/ bindings[i].endpoint = bindings[j].endpoint => i = j
  /\ \A i \in DOMAIN bindings : bindings[i].endpoint = session[bindings[i].window].endpoint
  /\ \A t \in Terminals : (\E i \in DOMAIN bindings : bindings[i].window = t) <=> t \in Range(stack)

Inv == Types /\ ActiveIsFront /\ SameTables /\ HistoryKeepsLast

-------------------------------------------------------------------------------
(* The scene *)

\* Moving a window to the front permutes the layers and takes the focus along.
LEMMA FrontIs ==
  ASSUME Types, ActiveIsFront, NEW win, wm_compositor_activate_window(win)
  PROVE  /\ stack' \in Seq(Windows) /\ Len(stack') = Len(stack)
         /\ Range(stack') = Range(stack) /\ ActiveIsFront'
<1>1. stack \in Seq(Windows) /\ Len(stack) \in Nat /\ DOMAIN stack = 1 .. Len(stack)
  BY DEF Types
<1>2. CASE ~Contains(stack, win)
  BY <1>1, <1>2 DEF wm_compositor_activate_window, ActiveIsFront
<1>3. CASE Contains(stack, win)
  <2> DEFINE n == Len(stack)
             index == wm_layers_index_of(win)
  <2>1. index \in 1 .. n /\ stack[index] = win
    <3>1. PICK i \in 1 .. n : stack[i] = win
      BY <1>3 DEF Contains
    <3>2. \A j \in 1 .. i - 1 : stack[j] # win
      BY <1>1, <3>1 DEF ActiveIsFront
    <3>3. \E k \in DOMAIN stack : stack[k] = win /\ \A j \in 1 .. k - 1 : stack[j] # win
      BY <1>1, <3>1, <3>2
    <3> QED BY <1>1, <3>3 DEF wm_layers_index_of
  <2>2. n \in Nat \ {0} /\ win \in Windows
    BY <1>1, <2>1
  <2> HIDE DEF index
  <2> DEFINE f == [i \in 1 .. n |-> IF i < index THEN stack[i]
                                   ELSE IF i < n THEN stack[i + 1] ELSE win]
  <2>3. stack' = f /\ active' = win
    BY <1>1, <1>3 DEF wm_compositor_activate_window, wm_layers_move_to_front, index
  <2>4. f \in [1 .. n -> Windows]
    BY <1>1, <2>1, <2>2
  <2>5. f \in Seq(Windows) /\ Len(f) = n /\ DOMAIN f = 1 .. n
    BY <2>2, <2>4
  <2>6. ASSUME NEW i \in 1 .. n
        PROVE  \E j \in 1 .. n : f[i] = stack[j]
                                 /\ j = (IF i < index THEN i ELSE IF i < n THEN i + 1 ELSE index)
    BY <2>1, <2>2
  <2>7. ASSUME NEW j \in 1 .. n PROVE \E i \in 1 .. n : f[i] = stack[j]
    <3>1. CASE j < index
      BY <3>1
    <3>2. CASE j = index
      <4>1. n \in 1 .. n /\ f[n] = win
        BY <2>1, <2>2
      <4> QED BY <2>1, <3>2, <4>1
    <3>3. CASE j > index
      <4>1. j - 1 \in 1 .. n /\ j - 1 < n /\ ~(j - 1 < index) /\ (j - 1) + 1 = j
        BY <2>1, <2>2, <3>3
      <4>2. f[j - 1] = stack[j]
        BY <4>1
      <4> QED BY <4>1, <4>2
    <3> QED BY <2>1, <2>2, <3>1, <3>2, <3>3
  <2> HIDE DEF f
  <2>8. Range(f) = Range(stack)
    <3>1. Range(f) = {f[i] : i \in 1 .. n} /\ Range(stack) = {stack[i] : i \in 1 .. n}
      BY <1>1, <2>5 DEF Range
    <3>2. \A i \in 1 .. n : \E j \in 1 .. n : f[i] = stack[j]
      BY <2>6
    <3>3. \A j \in 1 .. n : \E i \in 1 .. n : f[i] = stack[j]
      BY <2>7
    <3> HIDE DEF n
    <3> QED BY <3>1, <3>2, <3>3
  <2>9. f # <<>> /\ Last(f) = win
    <3>1. f[n] = win
      BY <2>1, <2>2 DEF f
    <3> QED BY <2>2, <2>5, <3>1 DEF Last
  <2>10. ASSUME NEW i \in 1 .. n, NEW k \in 1 .. n, f[i] = f[k] PROVE i = k
    <3>1. PICK a \in 1 .. n : f[i] = stack[a]
                /\ a = (IF i < index THEN i ELSE IF i < n THEN i + 1 ELSE index)
      BY <2>6
    <3>2. PICK b \in 1 .. n : f[k] = stack[b]
                /\ b = (IF k < index THEN k ELSE IF k < n THEN k + 1 ELSE index)
      BY <2>6
    <3>3. a = b
      BY <1>1, <2>10, <3>1, <3>2 DEF ActiveIsFront
    <3> QED BY <2>1, <2>2, <3>1, <3>2, <3>3
  <2>11. ActiveIsFront'
    BY <2>3, <2>5, <2>9, <2>10 DEF ActiveIsFront
  <2> QED BY <2>3, <2>5, <2>8, <2>11
<1> QED BY <1>2, <1>3

\* What an added window does to the layers.
LEMMA AddIs ==
  ASSUME Types, ActiveIsFront, NEW win \in Windows, ~Contains(stack, win), AddWindow(win)
  PROVE  /\ stack' \in Seq(Windows) /\ Len(stack') = Len(stack) + 1
         /\ Range(stack') = Range(stack) \cup {win} /\ ActiveIsFront'
<1> DEFINE n == Len(stack)
<1>1. stack \in Seq(Windows) /\ n \in Nat /\ DOMAIN stack = 1 .. n
  BY DEF Types
<1>2. stack' = Append(stack, win) /\ active' = win
  BY DEF AddWindow
<1>3. /\ stack' \in Seq(Windows) /\ Len(stack') = n + 1
      /\ \A i \in 1 .. n : stack'[i] = stack[i]
      /\ stack'[n + 1] = win
  BY <1>1, <1>2, AppendProperties
<1>4. DOMAIN stack' = 1 .. n + 1
  BY <1>3
<1>5. \A i \in 1 .. n : stack[i] # win
  BY DEF Contains
<1> HIDE DEF n
<1>6. Range(stack') = Range(stack) \cup {win}
  <2>1. Range(stack') = {stack'[i] : i \in 1 .. n + 1} /\ Range(stack) = {stack[i] : i \in 1 .. n}
    BY <1>1, <1>4 DEF Range
  <2>2. 1 .. n + 1 = (1 .. n) \cup {n + 1}
    BY <1>1
  <2>3. ASSUME NEW x \in Range(stack') PROVE x \in Range(stack) \cup {win}
    <3>1. PICK i \in 1 .. n + 1 : x = stack'[i]
      BY <2>1, <2>3
    <3>2. i \in 1 .. n \/ i = n + 1
      BY <2>2
    <3> QED BY <1>3, <2>1, <3>1, <3>2
  <2>4. ASSUME NEW x \in Range(stack) \cup {win} PROVE x \in Range(stack')
    <3>1. (\E i \in 1 .. n : x = stack'[i]) \/ x = stack'[n + 1]
      BY <1>3, <2>1, <2>4
    <3> QED BY <2>1, <2>2, <3>1
  <2> QED BY <2>3, <2>4
<1>7. stack' # <<>> /\ Last(stack') = win
  BY <1>1, <1>3 DEF Last
<1>8. ASSUME NEW i \in 1 .. n + 1, NEW j \in 1 .. n + 1, stack'[i] = stack'[j]
      PROVE  i = j
  <2>1. i \in 1 .. n \/ i = n + 1
    BY <1>1
  <2>2. j \in 1 .. n \/ j = n + 1
    BY <1>1
  <2> QED BY <1>1, <1>3, <1>5, <1>8, <2>1, <2>2 DEF ActiveIsFront
<1>9. ActiveIsFront'
  BY <1>2, <1>4, <1>7, <1>8 DEF ActiveIsFront
<1> QED BY <1>3, <1>6, <1>9 DEF n

-------------------------------------------------------------------------------
(* The tables *)

\* A sequence without its last element.
LEMMA FrontIsSeq ==
  ASSUME NEW S, NEW s \in Seq(S), s # <<>>
  PROVE  /\ Front(s) \in Seq(S) /\ Len(Front(s)) = Len(s) - 1
         /\ \A i \in 1 .. Len(s) - 1 : Front(s)[i] = s[i]
<1>1. Len(s) \in Nat \ {0}
  OBVIOUS
<1> DEFINE m == Len(s) - 1
<1>2. m \in Nat /\ m - 1 + 1 = m /\ \A i \in 1 .. m : s[i] \in S /\ 1 + i - 1 = i
  BY <1>1
<1> HIDE DEF m
<1>3. /\ SubSeq(s, 1, m) \in Seq(S) /\ Len(SubSeq(s, 1, m)) = IF 1 <= m THEN m - 1 + 1 ELSE 0
      /\ \A i \in 1 .. m - 1 + 1 : SubSeq(s, 1, m)[i] = s[1 + i - 1]
  BY <1>2, SubSeqProperties
<1>4. Len(SubSeq(s, 1, m)) = m /\ \A i \in 1 .. m : SubSeq(s, 1, m)[i] = s[i]
  BY <1>2, <1>3
<1> QED BY <1>3, <1>4 DEF Front, m

\* A search that can find one entry only returns that entry, or 0.
LEMMA FirstIs ==
  ASSUME NEW n \in Nat, NEW S, S \subseteq 1 .. n, \A i, j \in S : i = j
  PROVE  /\ S = {} => FirstIndex(S) = 0
         /\ \A i \in S : FirstIndex(S) = i /\ i # 0
<1>1. S = {} => FirstIndex(S) = 0
  BY DEF FirstIndex
<1>2. ASSUME NEW i \in S PROVE FirstIndex(S) = i /\ i # 0
  <2>1. i \in 1 .. n /\ \A j \in S : i <= j
    OBVIOUS
  <2>2. \E k \in S : \A j \in S : k <= j
    BY <2>1
  <2>3. FirstIndex(S) \in S
    BY <2>2 DEF FirstIndex
  <2>4. FirstIndex(S) = i
    BY <2>3, Zenon
  <2> QED BY <2>1, <2>4
<1> QED BY <1>1, <1>2

\* The table is a sequence of bindings, each of a terminal.
LEMMA Table ==
  ASSUME Types
  PROVE  /\ bindings \in Seq(Binding) /\ Len(bindings) \in Nat
         /\ DOMAIN bindings = 1 .. Len(bindings)
         /\ \A i \in 1 .. Len(bindings) :
              /\ bindings[i] \in Binding
              /\ bindings[i].window \in Terminals /\ bindings[i].endpoint \in Endpoints
              /\ bindings[i] = [window |-> bindings[i].window, endpoint |-> bindings[i].endpoint]
<1>1. bindings \in Seq(Binding) /\ Len(bindings) \in Nat /\ DOMAIN bindings = 1 .. Len(bindings)
  BY DEF Types
<1>2. ASSUME NEW i \in 1 .. Len(bindings)
      PROVE  /\ bindings[i] \in Binding
             /\ bindings[i].window \in Terminals /\ bindings[i].endpoint \in Endpoints
             /\ bindings[i] = [window |-> bindings[i].window, endpoint |-> bindings[i].endpoint]
  <2>1. bindings[i] \in Binding
    BY <1>1
  <2> QED BY <2>1 DEF Binding
<1> QED BY <1>1, <1>2

\* The searches of the three files find the entry of a terminal, or nothing.
LEMMA Searches ==
  ASSUME Types, SameTables, NEW t
  PROVE  /\ find_endpoint(t) = find_binding_by_window(t)
         /\ \A i \in DOMAIN bindings :
              bindings[i].window = t => find_binding_by_window(t) = i /\ i # 0
         /\ (\A i \in DOMAIN bindings : bindings[i].window # t) => find_binding_by_window(t) = 0
         /\ \A i \in DOMAIN bindings :
              bindings[i].endpoint = t => find_binding_by_endpoint(t) = i /\ i # 0
         /\ (\A i \in DOMAIN bindings : bindings[i].endpoint # t) => find_binding_by_endpoint(t) = 0
<1> DEFINE n == Len(bindings)
           W == {i \in DOMAIN bindings : bindings[i].window = t}
           E == {i \in DOMAIN bindings : bindings[i].endpoint = t}
<1>1. n \in Nat /\ W \subseteq 1 .. n /\ E \subseteq 1 .. n
  BY Table
<1>2. (\A i, j \in W : i = j) /\ (\A i, j \in E : i = j)
  BY DEF SameTables
<1>3. (W = {} => FirstIndex(W) = 0) /\ \A i \in W : FirstIndex(W) = i /\ i # 0
  <2> HIDE DEF W, E, n
  <2> QED BY <1>1, <1>2, FirstIs
<1>4. (E = {} => FirstIndex(E) = 0) /\ \A i \in E : FirstIndex(E) = i /\ i # 0
  <2> HIDE DEF W, E, n
  <2> QED BY <1>1, <1>2, FirstIs
<1>5. find_binding_by_window(t) = FirstIndex(W) /\ find_binding_by_endpoint(t) = FirstIndex(E)
  BY DEF find_binding_by_window, find_binding_by_endpoint
<1>6. find_endpoint(t) = FirstIndex(W)
  BY DEF find_endpoint, SameTables
<1>7. ASSUME NEW i \in DOMAIN bindings, bindings[i].window = t
      PROVE  find_binding_by_window(t) = i /\ i # 0
  BY <1>3, <1>5, <1>7
<1>8. ASSUME NEW i \in DOMAIN bindings, bindings[i].endpoint = t
      PROVE  find_binding_by_endpoint(t) = i /\ i # 0
  BY <1>4, <1>5, <1>8
<1>9. ASSUME \A i \in DOMAIN bindings : bindings[i].window # t
      PROVE  find_binding_by_window(t) = 0
  BY <1>3, <1>5, <1>9
<1>10. ASSUME \A i \in DOMAIN bindings : bindings[i].endpoint # t
       PROVE  find_binding_by_endpoint(t) = 0
  BY <1>4, <1>5, <1>10
<1> QED BY <1>5, <1>6, <1>7, <1>8, <1>9, <1>10

\* A key queued under a window goes to that window when it is an attached terminal,
\* and to none otherwise.
LEMMA TargetIs ==
  ASSUME Types, SameTables, NEW win \in Windows \cup {NoWindow}
  PROVE  Target(win) = IF win \in Terminals /\ Contains(stack, win) THEN win ELSE NoWindow
<1>1. Contains(stack, win) <=> win \in Range(stack)
  <2>1. stack \in Seq(Windows) /\ DOMAIN stack = 1 .. Len(stack)
    BY DEF Types
  <2> QED BY <2>1 DEF Contains, Range
<1>2. CASE \E i \in DOMAIN bindings : bindings[i].window = win
  <2>1. PICK i \in DOMAIN bindings : bindings[i].window = win
    BY <1>2
  <2>2. find_endpoint(win) = i /\ i # 0
    BY <2>1, Searches
  <2>3. find_binding_by_endpoint(bindings[i].endpoint) = i
    BY <2>1, Searches
  <2>4. endpoints[i] = bindings[i]
    BY DEF SameTables
  <2>5. Target(win) = win
    BY <2>1, <2>2, <2>3, <2>4 DEF Target
  <2>6. win \in Terminals
    BY <2>1, Table
  <2>7. win \in Range(stack)
    BY <2>1, <2>6 DEF SameTables
  <2> QED BY <1>1, <2>5, <2>6, <2>7
<1>3. CASE \A i \in DOMAIN bindings : bindings[i].window # win
  <2>1. find_endpoint(win) = 0
    BY <1>3, Searches
  <2>2. Target(win) = NoWindow
    BY <2>1 DEF Target
  <2>3. ~(win \in Terminals /\ win \in Range(stack))
    BY <1>3 DEF SameTables
  <2> QED BY <1>1, <2>2, <2>3
<1> QED BY <1>2, <1>3

-------------------------------------------------------------------------------
(* The history *)

\* The lines of a session, from the oldest on, and what becomes of a list of the
\* last lines when one more is executed.
Ring(s) == [k \in 1 .. s.count |-> s.history[(s.head + k - 1) % HistoryCap]]
Remember(r, line) == LET all == Append(r, line) IN IF Len(all) > HistoryCap THEN Tail(all) ELSE all

\* An index that runs past the end of the ring goes on at its start.
LEMMA Wrap ==
  ASSUME NEW x \in Nat, x < HistoryCap + HistoryCap
  PROVE  /\ x % HistoryCap = IF x < HistoryCap THEN x ELSE x - HistoryCap
         /\ x % HistoryCap \in Places
BY DEF Places

\* The ring is read as a sequence of as many lines as it holds.
LEMMA RingIs ==
  ASSUME NEW s, IsSession(s)
  PROVE  Ring(s) \in Seq(Seq(KeyEvent)) /\ Len(Ring(s)) = s.count
<1>1. s.count \in Nat /\ s.count <= HistoryCap /\ s.head \in Places
      /\ s.history \in [Places -> Seq(KeyEvent)]
  BY DEF IsSession
<1>2. ASSUME NEW k \in 1 .. s.count PROVE s.history[(s.head + k - 1) % HistoryCap] \in Seq(KeyEvent)
  <2>1. s.head + k - 1 \in Nat /\ s.head + k - 1 < HistoryCap + HistoryCap
    BY <1>1, SMTT(30) DEF Places
  <2>2. (s.head + k - 1) % HistoryCap \in Places
    BY <2>1, Wrap
  <2> QED BY <1>1, <2>2
<1>3. Ring(s) \in [1 .. s.count -> Seq(KeyEvent)]
  BY <1>2 DEF Ring
<1> QED BY <1>1, <1>3

\* The places of a full ring after its oldest line was overwritten at h: those it
\* was read from, from the second on, and then h itself.
LEMMA NextPlaces ==
  ASSUME NEW h \in Places, NEW k \in 1 .. HistoryCap,
         NEW g, g = IF h + 1 >= HistoryCap THEN 0 ELSE h + 1
  PROVE  /\ g \in Places /\ (g + k - 1) % HistoryCap \in Places
         /\ k = HistoryCap => (g + k - 1) % HistoryCap = h
         /\ k < HistoryCap => /\ (g + k - 1) % HistoryCap = (h + (k + 1) - 1) % HistoryCap
                              /\ (g + k - 1) % HistoryCap # h
<1>1. h \in Nat /\ h < HistoryCap /\ g \in Nat /\ g < HistoryCap /\ g \in Places
  BY DEF Places
<1> DEFINE x == g + k - 1
           y == h + k
<1>2. x \in Nat /\ x < HistoryCap + HistoryCap /\ y = h + (k + 1) - 1
  BY <1>1
<1>3. y \in Nat /\ (k < HistoryCap => y < HistoryCap + HistoryCap)
  BY <1>1
<1> HIDE DEF x, y
<1>4. /\ x % HistoryCap = IF x < HistoryCap THEN x ELSE x - HistoryCap
      /\ x % HistoryCap \in Places
  BY <1>2, Wrap
<1>5. k < HistoryCap => y % HistoryCap = IF y < HistoryCap THEN y ELSE y - HistoryCap
  BY <1>3, Wrap
<1>6. x = (IF h + 1 >= HistoryCap THEN 0 ELSE h + 1) + k - 1 /\ y = h + k
  BY DEF x, y
<1>7. k = HistoryCap => x % HistoryCap = h
  BY <1>1, <1>4, <1>6
<1>8. k < HistoryCap => x % HistoryCap = y % HistoryCap /\ x % HistoryCap # h
  BY <1>1, <1>4, <1>5, <1>6
<1> QED BY <1>1, <1>2, <1>4, <1>7, <1>8 DEF x

\* A line that is stored is the newest of the ring and, when the ring is full,
\* pushes out the oldest.
LEMMA StoreIs ==
  ASSUME NEW s, IsSession(s), NEW line \in Seq(KeyEvent), s.endpoint # NoEndpoint,
         NEW n, n = ts_store_history(s, line)
  PROVE  /\ IsSession(n) /\ n.endpoint = s.endpoint
         /\ Ring(n) = Remember(Ring(s), line)
<1> DEFINE c == s.count
           h == s.head
           r == Ring(s)
           L == Seq(KeyEvent)
<1>1. /\ c \in Nat /\ c <= HistoryCap /\ h \in Places /\ s.history \in [Places -> L]
      /\ c < HistoryCap => h = 0
      /\ s.endpoint \in Endpoints \cup {NoEndpoint} /\ s.input \in L
      /\ s = [endpoint |-> s.endpoint, input |-> s.input, history |-> s.history,
              count |-> c, head |-> h, lines |-> s.lines, tree |-> s.tree]
  BY DEF IsSession
<1>2. r \in Seq(L) /\ Len(r) = c
  BY RingIs
<1>4. \A k \in 1 .. c : r[k] = s.history[(h + k - 1) % HistoryCap]
  BY DEF Ring
<1>5. CASE c < HistoryCap
  <2> DEFINE f == [s.history EXCEPT ![c] = line]
  <2>1. n = [endpoint |-> s.endpoint, input |-> s.input, history |-> f,
             count |-> c + 1, head |-> h, lines |-> s.lines, tree |-> s.tree]
    BY <1>1, <1>5 DEF ts_store_history
  <2>2. c \in Places /\ f \in [Places -> L]
    BY <1>1, <1>5, SMTT(30) DEF Places
  <2>3. IsSession(n) /\ n.endpoint = s.endpoint
    BY <1>1, <1>5, <2>1, <2>2, SMTT(30) DEF IsSession
  <2>4. n.count = c + 1 /\ n.head = h /\ n.history = f
    BY <2>1
  <2> HIDE DEF r, L, h, c
  <2>5. /\ Append(r, line) \in Seq(L) /\ Len(Append(r, line)) = c + 1
        /\ \A k \in 1 .. c : Append(r, line)[k] = r[k]
        /\ Append(r, line)[c + 1] = line
    BY <1>2, AppendProperties DEF L
  <2>6. ASSUME NEW k \in 1 .. c + 1 PROVE Ring(n)[k] = Append(r, line)[k]
    <3>1. k - 1 \in Nat /\ k - 1 < HistoryCap /\ h + k - 1 = k - 1
      BY <1>1, <1>5
    <3>2. (k - 1) % HistoryCap = k - 1 /\ k - 1 \in Places
      BY <3>1, Wrap DEF Places
    <3>3. Ring(n)[k] = f[k - 1]
      BY <2>4, <3>1, <3>2 DEF Ring
    <3>4. CASE k \in 1 .. c
      <4>1. k - 1 # c
        BY <1>1, <3>4
      <4>2. f[k - 1] = s.history[k - 1]
        BY <1>1, <3>2, <4>1
      <4>3. r[k] = s.history[k - 1]
        BY <1>4, <3>1, <3>2, <3>4
      <4> QED BY <2>5, <3>3, <3>4, <4>2, <4>3
    <3>5. CASE k = c + 1
      <4>1. k - 1 = c
        BY <1>1, <3>5
      <4>2. f[k - 1] = line
        BY <1>1, <2>2, <4>1
      <4> QED BY <2>5, <3>3, <3>5, <4>2
    <3>6. k \in 1 .. c \/ k = c + 1
      BY <1>1
    <3> QED BY <3>4, <3>5, <3>6
  <2>7. Ring(n) \in Seq(L) /\ Len(Ring(n)) = c + 1
    BY <2>3, <2>4, RingIs DEF L
  <2>8. Ring(n) = Append(r, line)
    <3> HIDE DEF f
    <3> QED BY <2>5, <2>6, <2>7, SeqEqual
  <2>9. Remember(r, line) = Append(r, line)
    BY <1>1, <1>5, <2>5, SMTT(30) DEF Remember
  <2> QED BY <2>3, <2>8, <2>9 DEF r
<1>6. CASE ~(c < HistoryCap)
  <2> DEFINE f == [s.history EXCEPT ![h] = line]
             g == IF h + 1 >= HistoryCap THEN 0 ELSE h + 1
             all == Append(r, line)
  <2>1. n = [endpoint |-> s.endpoint, input |-> s.input, history |-> f,
             count |-> c, head |-> g, lines |-> s.lines, tree |-> s.tree]
    BY <1>1, <1>6 DEF ts_store_history
  <2>2. g \in Places /\ f \in [Places -> L] /\ c = HistoryCap
    BY <1>1, <1>6, SMTT(30) DEF Places
  <2>3. IsSession(n) /\ n.endpoint = s.endpoint
    BY <1>1, <2>1, <2>2 DEF IsSession
  <2>4. n.count = c /\ n.head = g /\ n.history = f
    BY <2>1
  <2> HIDE DEF r, L, h, c
  <2>5. /\ all \in Seq(L) /\ Len(all) = c + 1
        /\ \A k \in 1 .. c : all[k] = r[k]
        /\ all[c + 1] = line
    BY <1>2, AppendProperties DEF L
  <2>6. all # <<>>
    BY <1>1, <2>5, SMTT(30)
  <2> HIDE DEF all
  <2>7. Tail(all) \in Seq(L) /\ Len(Tail(all)) = c /\ \A k \in 1 .. c : Tail(all)[k] = all[k + 1]
    BY <1>1, <2>5, <2>6, HeadTailProperties, SMTT(30)
  <2>8. ASSUME NEW k \in 1 .. c PROVE Ring(n)[k] = Tail(all)[k]
    <3> DEFINE x == (g + k - 1) % HistoryCap
    <3>1. Ring(n)[k] = f[x]
      BY <2>4 DEF Ring
    <3>2. /\ x \in Places
          /\ k = HistoryCap => x = h
          /\ k < HistoryCap => x = (h + (k + 1) - 1) % HistoryCap /\ x # h
      BY <1>1, <2>2, NextPlaces
    <3> HIDE DEF x, g
    <3>3. CASE k < HistoryCap
      <4>1. k + 1 \in 1 .. c
        BY <1>1, <2>2, <3>3
      <4>2. f[x] = s.history[x]
        BY <1>1, <3>2, <3>3
      <4>3. r[k + 1] = s.history[x]
        BY <1>4, <3>2, <3>3, <4>1
      <4>4. Tail(all)[k] = r[k + 1]
        BY <2>5, <2>7, <4>1
      <4> QED BY <3>1, <4>2, <4>3, <4>4
    <3>4. CASE k = HistoryCap
      <4>1. f[x] = line
        BY <1>1, <3>2, <3>4
      <4>2. Tail(all)[k] = line
        BY <2>2, <2>5, <2>7, <3>4
      <4> QED BY <3>1, <4>1, <4>2
    <3>5. k < HistoryCap \/ k = HistoryCap
      BY <2>2
    <3> QED BY <3>3, <3>4, <3>5
  <2>9. Ring(n) \in Seq(L) /\ Len(Ring(n)) = c
    BY <2>3, <2>4, RingIs DEF L
  <2>10. Ring(n) = Tail(all)
    <3> HIDE DEF f, g
    <3> QED BY <2>7, <2>8, <2>9, SeqEqual
  <2>11. Remember(r, line) = Tail(all)
    BY <2>2, <2>5 DEF Remember, all
  <2> QED BY <2>3, <2>10, <2>11 DEF r
<1> QED BY <1>5, <1>6

-------------------------------------------------------------------------------
(* The session *)

\* The events of a key.
LEMMA EventFacts ==
  ASSUME NEW event \in KeyEvent
  PROVE  \/ /\ event.type = "text" /\ event.key \in Printable
            /\ event.key # "enter" /\ event.key # "backspace" /\ event # ControlEvent("enter")
         \/ /\ event.type # "text" /\ event.key \in Control
            /\ event.key = "enter" <=> event = ControlEvent("enter")
<1>1. CASE event \in {Text(key, shifted) : key \in Printable, shifted \in BOOLEAN}
  <2>1. PICK key \in Printable, shifted \in BOOLEAN : event = Text(key, shifted)
    BY <1>1
  <2>2. event.type = "text" /\ event.key = key
    BY <2>1 DEF Text
  <2>3. event # ControlEvent("enter")
    BY <2>2 DEF ControlEvent
  <2> QED BY <2>2, <2>3
<1>2. CASE event \in {ControlEvent(key) : key \in Control}
  <2>1. PICK key \in Control : event = ControlEvent(key)
    BY <1>2
  <2>2. event.type = "control" /\ event.key = key
    BY <2>1 DEF ControlEvent
  <2>3. ControlEvent("enter").key = "enter"
    BY DEF ControlEvent
  <2> QED BY <2>1, <2>2, <2>3
<1> QED BY <1>1, <1>2 DEF KeyEvent

\* A session that changes its line, its counter or its directories only.
LEMMA SameRing ==
  ASSUME NEW s, IsSession(s), NEW n, n.input \in Seq(KeyEvent),
         n = [endpoint |-> s.endpoint, input |-> n.input, history |-> s.history,
              count |-> s.count, head |-> s.head, lines |-> n.lines, tree |-> n.tree]
  PROVE  IsSession(n) /\ n.endpoint = s.endpoint /\ Ring(n) = Ring(s)
BY DEF IsSession, Ring

\* A line that is executed is remembered, a blank one is not.
LEMMA ExecuteIs ==
  ASSUME NEW s, IsSession(s), s.endpoint # NoEndpoint, NEW line \in Seq(KeyEvent),
         NEW n, n = terminal_session_execute_line(s, line)
  PROVE  /\ IsSession(n) /\ n.endpoint = s.endpoint
         /\ Ring(n) = IF Blank(line) THEN Ring(s) ELSE Remember(Ring(s), line)
<1>1. CASE Blank(line)
  BY <1>1 DEF terminal_session_execute_line
<1>2. CASE ~Blank(line)
  <2> DEFINE m == ts_store_history(s, line)
  <2>1. IsSession(m) /\ m.endpoint = s.endpoint /\ Ring(m) = Remember(Ring(s), line)
    BY StoreIs
  <2> HIDE DEF m
  <2>2. n = [m EXCEPT !.lines = m.lines + 1, !.tree = Execute(m.tree, line)]
    BY <1>2 DEF terminal_session_execute_line, m
  <2>3. /\ m = [endpoint |-> m.endpoint, input |-> m.input, history |-> m.history,
                count |-> m.count, head |-> m.head, lines |-> m.lines, tree |-> m.tree]
        /\ m.input \in Seq(KeyEvent)
    BY <2>1 DEF IsSession
  <2>4. n = [endpoint |-> m.endpoint, input |-> m.input, history |-> m.history, count |-> m.count,
             head |-> m.head, lines |-> m.lines + 1, tree |-> Execute(m.tree, line)]
    BY <2>2, <2>3
  <2>5. IsSession(n) /\ n.endpoint = m.endpoint /\ Ring(n) = Ring(m)
    <3>1. n.input \in Seq(KeyEvent)
      BY <2>3, <2>4
    <3>2. n = [endpoint |-> m.endpoint, input |-> n.input, history |-> m.history,
               count |-> m.count, head |-> m.head, lines |-> n.lines, tree |-> n.tree]
      BY <2>4
    <3> QED BY <2>1, <3>1, <3>2, SameRing
  <2> QED BY <1>2, <2>1, <2>5
<1> QED BY <1>1, <1>2

\* What a key does to the history of the terminal that gets it.
LEMMA HandleIs ==
  ASSUME NEW s, IsSession(s), s.endpoint # NoEndpoint, NEW event \in KeyEvent,
         NEW n, n = terminal_session_handle_event(s, event)
  PROVE  /\ IsSession(n) /\ n.endpoint = s.endpoint
         /\ Ring(n) = IF event = ControlEvent("enter") /\ ~Blank(s.input)
                        THEN Remember(Ring(s), s.input) ELSE Ring(s)
<1>0. s.input \in Seq(KeyEvent)
      /\ s = [endpoint |-> s.endpoint, input |-> s.input, history |-> s.history,
              count |-> s.count, head |-> s.head, lines |-> s.lines, tree |-> s.tree]
  BY DEF IsSession
<1>1. CASE event.type = "text"
  <2>1. event # ControlEvent("enter") /\ event.key # "enter" /\ event.key # "backspace"
    BY <1>1, EventFacts
  <2>2. n = IF Len(s.input) + 1 >= InputCap THEN s ELSE [s EXCEPT !.input = Append(s.input, event)]
    BY <1>1, <2>1 DEF terminal_session_handle_event
  <2>3. CASE n = s
    BY <2>1, <2>3
  <2>4. CASE n = [s EXCEPT !.input = Append(s.input, event)]
    <3>1. Append(s.input, event) \in Seq(KeyEvent)
      BY <1>0, AppendProperties
    <3>2. n = [endpoint |-> s.endpoint, input |-> Append(s.input, event), history |-> s.history,
               count |-> s.count, head |-> s.head, lines |-> s.lines, tree |-> s.tree]
      BY <1>0, <2>4
    <3>3. IsSession(n) /\ n.endpoint = s.endpoint /\ Ring(n) = Ring(s)
      <4>1. n.input \in Seq(KeyEvent)
        BY <3>1, <3>2
      <4>2. n = [endpoint |-> s.endpoint, input |-> n.input, history |-> s.history,
                 count |-> s.count, head |-> s.head, lines |-> n.lines, tree |-> n.tree]
        BY <3>2
      <4> QED BY <4>1, <4>2, SameRing
    <3> QED BY <2>1, <3>3
  <2> QED BY <2>2, <2>3, <2>4
<1>2. CASE event.type # "text" /\ event.key = "backspace"
  <2>1. event # ControlEvent("enter")
    BY <1>2, EventFacts
  <2>2. n = IF s.input = <<>> THEN s ELSE [s EXCEPT !.input = Front(s.input)]
    BY <1>2 DEF terminal_session_handle_event
  <2>3. CASE n = s
    BY <2>1, <2>3
  <2>4. CASE n = [s EXCEPT !.input = Front(s.input)] /\ s.input # <<>>
    <3>1. Front(s.input) \in Seq(KeyEvent)
      BY <1>0, <2>4, FrontIsSeq
    <3>2. n = [endpoint |-> s.endpoint, input |-> Front(s.input), history |-> s.history,
               count |-> s.count, head |-> s.head, lines |-> s.lines, tree |-> s.tree]
      BY <1>0, <2>4
    <3>3. IsSession(n) /\ n.endpoint = s.endpoint /\ Ring(n) = Ring(s)
      <4>1. n.input \in Seq(KeyEvent)
        BY <3>1, <3>2
      <4>2. n = [endpoint |-> s.endpoint, input |-> n.input, history |-> s.history,
                 count |-> s.count, head |-> s.head, lines |-> n.lines, tree |-> n.tree]
        BY <3>2
      <4> QED BY <4>1, <4>2, SameRing
    <3> QED BY <2>1, <3>3
  <2> QED BY <2>2, <2>3, <2>4
<1>3. CASE event.type # "text" /\ event.key = "enter"
  <2> DEFINE m == terminal_session_execute_line(s, s.input)
  <2>1. event = ControlEvent("enter")
    BY <1>3, EventFacts
  <2>2. n = [m EXCEPT !.input = <<>>]
    BY <1>3 DEF terminal_session_handle_event
  <2>3. /\ IsSession(m) /\ m.endpoint = s.endpoint
        /\ Ring(m) = IF Blank(s.input) THEN Ring(s) ELSE Remember(Ring(s), s.input)
    BY <1>0, ExecuteIs
  <2> HIDE DEF m
  <2>4. m = [endpoint |-> m.endpoint, input |-> m.input, history |-> m.history,
             count |-> m.count, head |-> m.head, lines |-> m.lines, tree |-> m.tree]
    BY <2>3 DEF IsSession
  <2>5. n = [endpoint |-> m.endpoint, input |-> <<>>, history |-> m.history,
             count |-> m.count, head |-> m.head, lines |-> m.lines, tree |-> m.tree]
    BY <2>2, <2>4
  <2>6. <<>> \in Seq(KeyEvent)
    OBVIOUS
  <2>7. IsSession(n) /\ n.endpoint = m.endpoint /\ Ring(n) = Ring(m)
    <3>1. n.input \in Seq(KeyEvent)
      BY <2>5, <2>6
    <3>2. n = [endpoint |-> m.endpoint, input |-> n.input, history |-> m.history,
               count |-> m.count, head |-> m.head, lines |-> n.lines, tree |-> n.tree]
      BY <2>5
    <3> QED BY <2>3, <3>1, <3>2, SameRing
  <2> QED BY <2>1, <2>3, <2>7
<1>4. CASE event.type # "text" /\ event.key # "backspace" /\ event.key # "enter"
  <2>1. event # ControlEvent("enter")
    BY <1>4 DEF ControlEvent
  <2>2. n = s
    BY <1>4 DEF terminal_session_handle_event
  <2> QED BY <2>1, <2>2
<1> QED BY <1>1, <1>2, <1>3, <1>4

-------------------------------------------------------------------------------
(* The steps *)

\* A session starts with no history.
LEMMA NewIs ==
  ASSUME NEW e \in Endpoints \cup {NoEndpoint}
  PROVE  /\ IsSession(NewSession(e)) /\ NewSession(e).endpoint = e
         /\ Ring(NewSession(e)) = <<>>
<1> DEFINE n == NewSession(e)
<1>1. [i \in 0 .. HistoryCap - 1 |-> <<>>] \in [Places -> Seq(KeyEvent)]
  BY DEF Places
<1>2. /\ n.endpoint = e /\ n.input = <<>> /\ n.count = 0 /\ n.head = 0
      /\ n.history = [i \in 0 .. HistoryCap - 1 |-> <<>>]
      /\ n = [endpoint |-> n.endpoint, input |-> n.input, history |-> n.history,
              count |-> n.count, head |-> n.head, lines |-> n.lines, tree |-> n.tree]
  BY DEF NewSession
<1> HIDE DEF n
<1>3. 0 \in 0 .. HistoryCap /\ 0 \in Places
  BY DEF Places
<1>4. IsSession(n)
  BY <1>1, <1>2, <1>3 DEF IsSession
<1>5. Ring(n) \in Seq(Seq(KeyEvent)) /\ Len(Ring(n)) = 0
  BY <1>2, <1>4, RingIs
<1>6. Ring(n) = <<>>
  BY <1>5
<1> QED BY <1>2, <1>4, <1>6 DEF n

\* The history as the ring.
LEMMA Kept == HistoryKeepsLast <=> \A t \in Terminals : recent[t] = Ring(session[t])
BY DEF HistoryKeepsLast, Ring

LEMMA KeptNext == HistoryKeepsLast' <=> \A t \in Terminals : recent'[t] = Ring(session'[t])
BY DEF HistoryKeepsLast, Ring

\* Programs that start, or start over, find empty tables.
LEMMA EmptyTables ==
  ASSUME stack = <<>>, active = NoWindow, keys = <<>>, shift = {}, endpoints = <<>>, bindings = <<>>,
         session = [t \in Terminals |-> NewSession(NoEndpoint)], recent = [t \in Terminals |-> <<>>]
  PROVE  Inv
<1>1. \A t \in Terminals : IsSession(session[t]) /\ recent[t] = Ring(session[t])
  BY NewIs
<1>2. recent \in [Terminals -> Seq(Seq(KeyEvent))]
  OBVIOUS
<1>3. Types
  BY <1>1, <1>2 DEF Types
<1>4. ActiveIsFront
  BY DEF ActiveIsFront
<1>5. DOMAIN bindings = {} /\ Range(stack) = {}
  BY DEF Range
<1>6. SameTables
  BY <1>5 DEF SameTables
<1> QED BY <1>1, <1>3, <1>4, <1>6, Kept DEF Inv

\* A step that leaves the two tables alone, the terminals in the scene and the
\* endpoints of those that are bound.
LEMMA TablesStay ==
  ASSUME Types, SameTables, UNCHANGED <<endpoints, bindings>>,
         \A t \in Terminals : t \in Range(stack') <=> t \in Range(stack),
         \A i \in DOMAIN bindings : session'[bindings[i].window].endpoint = session[bindings[i].window].endpoint
  PROVE  SameTables'
BY DEF SameTables

\* A binding that is repeated stays as it is.
LEMMA RegisterAgain ==
  ASSUME Types, SameTables, NEW t, NEW i \in DOMAIN bindings, bindings[i].window = t
  PROVE  Registered(t, session[t].endpoint) = bindings
<1> DEFINE e == session[t].endpoint
<1>1. find_binding_by_window(t) = i /\ i # 0
  BY Searches
<1>2. bindings[i].endpoint = e
  BY DEF SameTables
<1>3. bindings[i] = [window |-> bindings[i].window, endpoint |-> bindings[i].endpoint]
  BY Table
<1> HIDE DEF e
<1>4. Registered(t, e) = [bindings EXCEPT ![i] = [bindings[i] EXCEPT !.endpoint = e]]
  BY <1>1 DEF Registered
<1>5. [bindings[i] EXCEPT !.endpoint = e] = bindings[i]
  BY <1>2, <1>3
<1>6. [bindings EXCEPT ![i] = bindings[i]] = bindings
  BY Table
<1> QED BY <1>4, <1>5, <1>6 DEF e

\* What a refused terminal leaves in the table: nothing.
LEMMA UnregisterLast ==
  ASSUME Types, NEW t \in Terminals, NEW e \in Endpoints,
         \A i \in DOMAIN bindings : bindings[i].window # t
  PROVE  Unregistered(Append(bindings, [window |-> t, endpoint |-> e]), t) = bindings
<1> DEFINE n == Len(bindings)
           new == [window |-> t, endpoint |-> e]
           b == Append(bindings, new)
<1>1. bindings \in Seq(Binding) /\ n \in Nat /\ DOMAIN bindings = 1 .. n
  BY Table
<1>2. new \in Binding /\ new.window = t
  BY DEF Binding
<1> HIDE DEF new
<1>3. b \in Seq(Binding) /\ Len(b) = n + 1 /\ (\A i \in 1 .. n : b[i] = bindings[i]) /\ b[n + 1] = new
  BY <1>1, <1>2, AppendProperties
<1> HIDE DEF n, b
<1>4. DOMAIN b = 1 .. n + 1
  BY <1>3
<1> DEFINE k == CHOOSE k \in DOMAIN b : b[k].window = t
<1>5. k = n + 1
  <2>1. n + 1 \in DOMAIN b /\ b[n + 1].window = t
    BY <1>1, <1>2, <1>3, <1>4
  <2>2. k \in DOMAIN b /\ b[k].window = t
    BY <2>1
  <2>3. k \in 1 .. n \/ k = n + 1
    BY <1>1, <1>4, <2>2
  <2> QED BY <1>1, <1>3, <2>2, <2>3
<1>6. Unregistered(b, t) = Front([b EXCEPT ![k] = Last(b)])
  BY DEF Unregistered
<1>7. Last(b) = b[n + 1]
  BY <1>3 DEF Last
<1> HIDE DEF k
<1>8. [b EXCEPT ![k] = Last(b)] = b
  BY <1>3, <1>5, <1>7
<1>9. b # <<>> /\ Len(b) - 1 = n
  BY <1>1, <1>3
<1>10. Front(b) \in Seq(Binding) /\ Len(Front(b)) = n /\ \A i \in 1 .. n : Front(b)[i] = b[i]
  BY <1>3, <1>9, FrontIsSeq
<1>11. Front(b) = bindings
  BY <1>1, <1>3, <1>10, SeqEqual DEF n
<1> QED BY <1>6, <1>8, <1>11 DEF b, new

\* The same at a restart.
LEMMA StartStep ==
  ASSUME StartSession
  PROVE  Inv'
<1>0. /\ stack' = <<>> /\ active' = NoWindow /\ keys' = <<>> /\ shift' = {}
      /\ endpoints' = <<>> /\ bindings' = <<>>
      /\ session' = [t \in Terminals |-> NewSession(NoEndpoint)]
      /\ recent' = [t \in Terminals |-> <<>>]
  BY DEF StartSession, keyboard_reset, keyboard_dispatch_reset, wm_terminal_window_dispatch_reset,
         wm_compositor_reset
<1>1. \A t \in Terminals : IsSession(session'[t]) /\ recent'[t] = Ring(session'[t])
  BY <1>0, NewIs
<1>2. recent' \in [Terminals -> Seq(Seq(KeyEvent))]
  BY <1>0
<1>3. Types'
  BY <1>0, <1>1, <1>2 DEF Types
<1>4. ActiveIsFront'
  BY <1>0 DEF ActiveIsFront
<1>5. DOMAIN bindings' = {} /\ Range(stack') = {}
  BY <1>0 DEF Range
<1>6. SameTables'
  BY <1>0, <1>5 DEF SameTables
<1> QED BY <1>1, <1>3, <1>4, <1>6, KeptNext DEF Inv

\* A plain window enters the scene and no table.
LEMMA AddPlainStep ==
  ASSUME Inv, NEW win \in Windows, AddPlain(win)
  PROVE  Inv'
<1>1. /\ win \notin Terminals /\ ~Contains(stack, win) /\ AddWindow(win)
      /\ UNCHANGED <<frame, keys, shift, extended, endpoints, bindings, session, draining, held, recent>>
  BY DEF AddPlain, CanAdd, keyVars
<1>2. stack' \in Seq(Windows) /\ Range(stack') = Range(stack) \cup {win} /\ ActiveIsFront'
  BY <1>1, AddIs DEF Inv
<1>3. active' = win
  BY <1>1 DEF AddWindow
<1>4. Types'
  BY <1>1, <1>2, <1>3 DEF Inv, Types
<1>5. SameTables'
  <2>1. \A t \in Terminals : t \in Range(stack') <=> t \in Range(stack)
    BY <1>1, <1>2
  <2> QED BY <1>1, <2>1, TablesStay DEF Inv
<1>6. HistoryKeepsLast'
  BY <1>1, Kept, KeptNext DEF Inv
<1> QED BY <1>2, <1>4, <1>5, <1>6 DEF Inv

\* The focus moves within the scene.
LEMMA ActivateStep ==
  ASSUME Inv, NEW win \in Windows, Activate(win)
  PROVE  Inv'
<1>1. /\ wm_compositor_activate_window(win)
      /\ UNCHANGED <<frame, keys, shift, extended, endpoints, bindings, session, draining, held, recent>>
  BY DEF Activate, keyVars
<1>2. stack' \in Seq(Windows) /\ Range(stack') = Range(stack) /\ ActiveIsFront'
  BY <1>1, FrontIs DEF Inv
<1>3. active' \in Windows \cup {NoWindow}
  BY <1>1 DEF wm_compositor_activate_window, Inv, Types
<1>4. Types'
  BY <1>1, <1>2, <1>3 DEF Inv, Types
<1>5. SameTables'
  BY <1>1, <1>2, TablesStay DEF Inv
<1>6. HistoryKeepsLast'
  BY <1>1, Kept, KeptNext DEF Inv
<1> QED BY <1>2, <1>4, <1>5, <1>6 DEF Inv

\* A terminal is initialised while it has no endpoint, and so is in no table.
LEMMA InitStep ==
  ASSUME Inv, NEW t \in Terminals, NEW e \in Endpoints, wm_terminal_window_init(t, e)
  PROVE  Inv'
<1>1. /\ session[t].endpoint = NoEndpoint
      /\ session' = [session EXCEPT ![t] = NewSession(e)]
      /\ UNCHANGED <<stack, active, keys, shift, extended, endpoints, bindings, draining, held, recent>>
  BY DEF wm_terminal_window_init, keyVars
<1>2. IsSession(NewSession(e)) /\ NewSession(e).endpoint = e /\ Ring(NewSession(e)) = <<>>
  BY NewIs
<1>3. DOMAIN session' = Terminals /\ session'[t] = NewSession(e)
      /\ \A u \in Terminals \ {t} : session'[u] = session[u]
  BY <1>1 DEF Inv, Types
<1>4. \A u \in Terminals : IsSession(session'[u])
  BY <1>2, <1>3 DEF Inv, Types
<1>5. Types'
  BY <1>1, <1>3, <1>4 DEF Inv, Types
<1>6. ActiveIsFront'
  BY <1>1 DEF Inv, ActiveIsFront
<1>7. \A i \in DOMAIN bindings : bindings[i].window # t
  <2> SUFFICES ASSUME NEW i \in DOMAIN bindings, bindings[i].window = t PROVE FALSE
    OBVIOUS
  <2>1. bindings[i].endpoint = NoEndpoint
    BY <1>1 DEF Inv, SameTables
  <2> QED BY <2>1, Table DEF Inv
<1>8. SameTables'
  <2>1. \A i \in DOMAIN bindings : session'[bindings[i].window] = session[bindings[i].window]
    BY <1>3, <1>7, Table DEF Inv
  <2> QED BY <1>1, <2>1, TablesStay DEF Inv
<1>9. HistoryKeepsLast'
  <2>1. IsSession(session[t]) /\ session[t].count = 0
    BY <1>1 DEF Inv, Types, IsSession
  <2>2. Ring(session[t]) \in Seq(Seq(KeyEvent)) /\ Len(Ring(session[t])) = 0
    BY <2>1, RingIs
  <2>3. Ring(session[t]) = <<>>
    BY <2>2
  <2> QED BY <1>1, <1>2, <1>3, <2>3, Kept, KeptNext DEF Inv
<1> QED BY <1>5, <1>6, <1>8, <1>9 DEF Inv

\* An attach changes both tables, in the same way, or none.
LEMMA AttachStep ==
  ASSUME Inv, NEW t \in Terminals, wm_terminal_window_attach(t)
  PROVE  Inv'
<1> DEFINE e == session[t].endpoint
           new == [window |-> t, endpoint |-> e]
           n == Len(bindings)
<1>0. Types /\ SameTables
  BY DEF Inv
<1>1. /\ CanRegister(t, e)
      /\ UNCHANGED <<frame, keys, shift, extended, session, draining, held, recent>>
  BY DEF wm_terminal_window_attach, keyVars
<1>2. e \in Endpoints
  BY <1>0, <1>1 DEF CanRegister, Types, IsSession
<1>3. HistoryKeepsLast'
  BY <1>1, Kept, KeptNext DEF Inv
<1>4. n \in Nat /\ bindings \in Seq(Binding) /\ DOMAIN bindings = 1 .. n
  BY <1>0, Table
<1>5. t \in Windows /\ (Contains(stack, t) <=> t \in Range(stack))
  <2>1. stack \in Seq(Windows) /\ DOMAIN stack = 1 .. Len(stack)
    BY <1>0 DEF Types
  <2> QED BY <2>1 DEF Contains, Range
<1>6. CASE UNCHANGED <<stack, active, endpoints, bindings>>
  <2>1. Types'
    BY <1>0, <1>1, <1>6 DEF Types
  <2>2. ActiveIsFront'
    BY <1>6 DEF Inv, ActiveIsFront
  <2>3. SameTables'
    BY <1>0, <1>1, <1>6, TablesStay
  <2> QED BY <1>3, <2>1, <2>2, <2>3 DEF Inv
<1>7. CASE \E i \in DOMAIN bindings : bindings[i].window = t
  <2>1. PICK i \in DOMAIN bindings : bindings[i].window = t
    BY <1>7
  <2>2. find_binding_by_window(t) = i /\ i # 0
    BY <1>0, <2>1, Searches
  <2>3. t \in Range(stack)
    BY <1>0, <2>1 DEF SameTables
  <2>4. ~CanAdd(t, frame[t])
    BY <1>5, <2>3 DEF CanAdd
  <2>5. Registered(t, e) = bindings
    BY <1>0, <2>1, RegisterAgain
  <2>6. UNCHANGED <<stack, active, endpoints, bindings>>
    BY <2>2, <2>4, <2>5 DEF wm_terminal_window_attach
  <2> QED BY <1>6, <2>6
<1>8. CASE \A i \in DOMAIN bindings : bindings[i].window # t
  <2>1. find_binding_by_window(t) = 0 /\ find_endpoint(t) = 0
    BY <1>0, <1>8, Searches
  <2>2. Registered(t, e) = Append(bindings, new)
    BY <2>1 DEF Registered
  <2>3. find_binding_by_endpoint(e) = 0 /\ n < MaxWindows
    BY <1>1, <2>1 DEF CanRegister
  <2>4. \A i \in DOMAIN bindings : bindings[i].endpoint # e
    BY <1>0, <2>3, Searches
  <2>5. CASE ~CanAdd(t, frame[t])
    <3>1. Unregistered(Append(bindings, new), t) = bindings
      BY <1>0, <1>2, <1>8, UnregisterLast
    <3>2. UNCHANGED <<stack, active, endpoints, bindings>>
      BY <2>1, <2>2, <2>5, <3>1 DEF wm_terminal_window_attach
    <3> QED BY <1>6, <3>2
  <2>6. CASE CanAdd(t, frame[t])
    <3>1. bindings' = Append(bindings, new) /\ AddWindow(t) /\ keyboard_dispatch_register_window(t, e)
      BY <2>2, <2>6 DEF wm_terminal_window_attach
    <3>2. endpoints' = bindings'
      BY <1>0, <2>1, <2>3, <3>1 DEF keyboard_dispatch_register_window, SameTables
    <3>3. stack' \in Seq(Windows) /\ Range(stack') = Range(stack) \cup {t} /\ ActiveIsFront'
      BY <1>0, <1>5, <2>6, <3>1, AddIs DEF Inv, CanAdd
    <3>4. active' = t
      BY <3>1 DEF AddWindow
    <3>5. new \in Binding /\ new.window = t /\ new.endpoint = e
      BY <1>2 DEF Binding
    <3> HIDE DEF new
    <3>6. /\ bindings' \in Seq(Binding) /\ Len(bindings') = n + 1
          /\ (\A i \in 1 .. n : bindings'[i] = bindings[i]) /\ bindings'[n + 1] = new
      BY <1>4, <3>1, <3>5, AppendProperties
    <3>7. DOMAIN bindings' = 1 .. n + 1
      BY <3>6
    <3> HIDE DEF n
    <3>8. \A i \in DOMAIN bindings' : i \in 1 .. n \/ i = n + 1
      BY <1>4, <3>7
    <3>9. Types'
      BY <1>0, <1>1, <1>5, <3>3, <3>4, <3>6 DEF Types
    <3>10. ASSUME NEW i \in DOMAIN bindings', NEW j \in DOMAIN bindings',
                  bindings'[i].window = bindings'[j].window \/ bindings'[i].endpoint = bindings'[j].endpoint
           PROVE  i = j
      <4>1. CASE i \in 1 .. n /\ j \in 1 .. n
        <5>1. bindings'[i] = bindings[i] /\ bindings'[j] = bindings[j]
          BY <3>6, <4>1
        <5> QED BY <1>0, <1>4, <3>10, <4>1, <5>1 DEF SameTables
      <4>2. CASE i \in 1 .. n /\ j = n + 1
        <5>1. bindings'[i] = bindings[i] /\ bindings'[j] = new
          BY <3>6, <4>2
        <5> QED BY <1>4, <1>8, <2>4, <3>5, <3>10, <4>2, <5>1
      <4>3. CASE i = n + 1 /\ j \in 1 .. n
        <5>1. bindings'[i] = new /\ bindings'[j] = bindings[j]
          BY <3>6, <4>3
        <5> QED BY <1>4, <1>8, <2>4, <3>5, <3>10, <4>3, <5>1
      <4> QED BY <3>8, <4>1, <4>2, <4>3
    <3>11. ASSUME NEW i \in DOMAIN bindings'
           PROVE  bindings'[i].endpoint = session'[bindings'[i].window].endpoint
      <4>1. CASE i \in 1 .. n
        BY <1>0, <1>1, <1>4, <3>6, <4>1 DEF SameTables
      <4>2. CASE i = n + 1
        BY <1>1, <3>5, <3>6, <4>2
      <4> QED BY <3>8, <4>1, <4>2
    <3>12. ASSUME NEW u \in Terminals
           PROVE  (\E i \in DOMAIN bindings' : bindings'[i].window = u) <=> u \in Range(stack')
      <4>1. CASE u = t
        BY <1>4, <3>3, <3>5, <3>6, <3>7, <4>1
      <4>2. CASE u # t
        <5>1. (\E i \in DOMAIN bindings' : bindings'[i].window = u)
                <=> \E i \in DOMAIN bindings : bindings[i].window = u
          <6>1. ASSUME NEW i \in DOMAIN bindings', bindings'[i].window = u
                PROVE  \E j \in DOMAIN bindings : bindings[j].window = u
            BY <1>4, <3>5, <3>6, <3>8, <4>2, <6>1
          <6>2. ASSUME NEW i \in DOMAIN bindings, bindings[i].window = u
                PROVE  \E j \in DOMAIN bindings' : bindings'[j].window = u
            BY <1>4, <3>6, <3>7, <6>2
          <6> QED BY <6>1, <6>2
        <5>2. (\E i \in DOMAIN bindings : bindings[i].window = u) <=> u \in Range(stack)
          BY <1>0 DEF SameTables
        <5> QED BY <3>3, <4>2, <5>1, <5>2
      <4> QED BY <4>1, <4>2
    <3>13. SameTables'
      BY <3>2, <3>10, <3>11, <3>12 DEF SameTables
    <3> QED BY <1>3, <3>3, <3>9, <3>13 DEF Inv
  <2> QED BY <2>5, <2>6
<1> QED BY <1>7, <1>8

\* What a key adds to the queue: nothing, or one event under the present focus, which
\* is a capital only when the keyboard has seen a shift.
LEMMA PressIs ==
  ASSUME Types, NEW code \in Codes, Press(code)
  PROVE  /\ \/ keys' = keys
            \/ \E event \in KeyEvent :
                 /\ keys' = Append(keys, [event |-> event, focus |-> active])
                 /\ event.shifted => shift # {}
         /\ shift' \subseteq held'
<1>1. keyboard_handle_scancode(code) /\ shift \subseteq held
  BY DEF Press, Types
<1>2. CASE code = Prefix \/ extended
  <2>1. UNCHANGED <<keys, shift>>
    BY <1>1, <1>2 DEF keyboard_handle_scancode
  <2>2. code = Prefix => code.key \notin ShiftKeys
    BY DEF Prefix, Scancode
  <2>3. held' = held
    BY <1>2, <2>2 DEF Press
  <2> QED BY <1>1, <2>1, <2>3
<1>3. CASE ~(code = Prefix \/ extended)
  <2>1. HandleKey(code)
    BY <1>1, <1>3 DEF keyboard_handle_scancode
  <2>2. /\ code.key \in ShiftKeys
             => held' = IF code.break THEN held \ {code.key} ELSE held \cup {code.key}
        /\ code.key \notin ShiftKeys => held' = held
    BY <1>3 DEF Press
  <2>3. CASE /\ code.key \in ShiftKeys /\ UNCHANGED keys
             /\ shift' = IF code.break THEN shift \ {code.key} ELSE shift \cup {code.key}
    <3>1. shift' \subseteq held'
      BY <1>1, <2>2, <2>3
    <3> QED BY <2>3, <3>1
  <2>4. CASE /\ code.key \in Control /\ ~code.break /\ UNCHANGED shift
             /\ keyboard_queue_push(ControlEvent(code.key))
    <3>1. ControlEvent(code.key) \in KeyEvent /\ ~ControlEvent(code.key).shifted
      <4>1. ControlEvent(code.key) \in KeyEvent
        BY <2>4 DEF KeyEvent
      <4>2. ControlEvent(code.key).shifted = FALSE
        BY DEF ControlEvent
      <4> QED BY <4>1, <4>2
    <3>2. keys' = keys \/ keys' = Append(keys, [event |-> ControlEvent(code.key), focus |-> active])
      BY <2>4 DEF keyboard_queue_push
    <3>3. code.key \notin ShiftKeys
      BY <2>4
    <3>4. shift' \subseteq held'
      BY <1>1, <2>2, <2>4, <3>3
    <3> QED BY <3>1, <3>2, <3>4
  <2>5. CASE /\ code.key \in Printable /\ ~code.break /\ UNCHANGED shift
             /\ keyboard_queue_push(Text(code.key, shift # {}))
    <3>1. Text(code.key, shift # {}) \in KeyEvent
      <4>1. (shift # {}) \in BOOLEAN
        OBVIOUS
      <4>2. \A x \in BOOLEAN : Text(code.key, x) \in KeyEvent
        BY <2>5 DEF KeyEvent
      <4> QED BY <4>1, <4>2
    <3>2. Text(code.key, shift # {}).shifted => shift # {}
      BY DEF Text
    <3>3. keys' = keys \/ keys' = Append(keys, [event |-> Text(code.key, shift # {}), focus |-> active])
      BY <2>5 DEF keyboard_queue_push
    <3>4. code.key \notin ShiftKeys
      BY <2>5
    <3>5. shift' \subseteq held'
      BY <1>1, <2>2, <2>5, <3>4
    <3> QED BY <3>1, <3>2, <3>3, <3>5
  <2>6. CASE code.key \notin ShiftKeys /\ UNCHANGED <<keys, shift>>
    BY <1>1, <2>2, <2>6
  <2> QED BY <2>1, <2>3, <2>4, <2>5, <2>6 DEF HandleKey
<1> QED BY <1>2, <1>3

LEMMA PressStep ==
  ASSUME Inv, NEW code \in Codes, Press(code)
  PROVE  Inv'
<1>1. UNCHANGED <<frame, stack, active, endpoints, bindings, session, draining, recent>>
  BY DEF Press, wmVars
<1>2. /\ \/ keys' = keys
         \/ \E event \in KeyEvent : keys' = Append(keys, [event |-> event, focus |-> active])
      /\ shift' \subseteq held'
  BY PressIs DEF Inv
<1>3. keys \in Seq(Queued) /\ active \in Windows \cup {NoWindow}
  BY DEF Inv, Types
<1>4. keys' \in Seq(Queued)
  <2>1. CASE keys' = keys
    BY <1>3, <2>1
  <2>2. ASSUME NEW event \in KeyEvent, keys' = Append(keys, [event |-> event, focus |-> active])
        PROVE  keys' \in Seq(Queued)
    <3>1. [event |-> event, focus |-> active] \in Queued
      BY <1>3 DEF Queued
    <3> QED BY <1>3, <2>2, <3>1, AppendProperties
  <2> QED BY <1>2, <2>1, <2>2
<1>5. Types'
  BY <1>1, <1>2, <1>4 DEF Inv, Types
<1>6. ActiveIsFront'
  BY <1>1 DEF Inv, ActiveIsFront
<1>7. SameTables'
  BY <1>1, TablesStay DEF Inv
<1>8. HistoryKeepsLast'
  BY <1>1, Kept, KeptNext DEF Inv
<1> QED BY <1>5, <1>6, <1>7, <1>8 DEF Inv

\* A key that is dispatched reaches the terminal it was queued under, if that is
\* attached, and nobody else.
LEMMA DispatchIs ==
  ASSUME Inv, DispatchOne
  PROVE  /\ Head(keys) \in Queued /\ keys' = Tail(keys) /\ keys # <<>>
         /\ LET event == Head(keys).event
                t == Head(keys).focus
            IN IF t \in Terminals /\ Contains(stack, t)
                 THEN /\ session' = [session EXCEPT ![t] = terminal_session_handle_event(session[t], event)]
                      /\ recent' = IF event = ControlEvent("enter") /\ ~Blank(session[t].input)
                                     THEN [recent EXCEPT ![t] = Remember(recent[t], session[t].input)]
                                     ELSE recent
                 ELSE UNCHANGED <<session, recent>>
<1> DEFINE event == Head(keys).event
           win == Head(keys).focus
           t == Target(win)
<1>1. keys \in Seq(Queued) /\ keys # <<>> /\ keys' = Tail(keys)
  BY DEF DispatchOne, Inv, Types
<1>2. Head(keys) \in Queued
  BY <1>1, HeadTailProperties
<1>3. win \in Windows \cup {NoWindow}
  BY <1>2 DEF Queued
<1>4. t = IF win \in Terminals /\ Contains(stack, win) THEN win ELSE NoWindow
  BY <1>3, TargetIs DEF Inv
<1>5. /\ t = NoWindow => UNCHANGED <<session, recent>>
      /\ t # NoWindow =>
           /\ session' = [session EXCEPT ![t] = terminal_session_handle_event(session[t], event)]
           /\ recent' = IF event = ControlEvent("enter") /\ ~Blank(session[t].input)
                          THEN [recent EXCEPT ![t] = Remember(recent[t], session[t].input)]
                          ELSE recent
  BY DEF DispatchOne, Executes, Remember
<1>6. win \in Terminals => win # NoWindow
  OBVIOUS
<1> HIDE DEF t, event, win
<1>7. CASE win \in Terminals /\ Contains(stack, win)
  BY <1>1, <1>2, <1>4, <1>5, <1>6, <1>7 DEF event, win
<1>8. CASE ~(win \in Terminals /\ Contains(stack, win))
  BY <1>1, <1>2, <1>4, <1>5, <1>8 DEF event, win
<1> QED BY <1>7, <1>8

LEMMA DispatchStep ==
  ASSUME Inv, DispatchOne
  PROVE  Inv'
<1> DEFINE event == Head(keys).event
           t == Head(keys).focus
<1>1. UNCHANGED <<frame, stack, active, shift, extended, endpoints, bindings, draining, held>>
  BY DEF DispatchOne, wmVars
<1>2. Head(keys) \in Queued /\ keys' \in Seq(Queued) /\ event \in KeyEvent
  <2>1. Head(keys) \in Queued /\ keys' = Tail(keys) /\ keys # <<>>
    BY DispatchIs
  <2>2. keys \in Seq(Queued)
    BY DEF Inv, Types
  <2> QED BY <2>1, <2>2, HeadTailProperties DEF Queued
<1>3. ActiveIsFront'
  BY <1>1 DEF Inv, ActiveIsFront
<1>4. CASE UNCHANGED <<session, recent>>
  <2>1. Types'
    BY <1>1, <1>2, <1>4 DEF Inv, Types
  <2>2. SameTables'
    BY <1>1, <1>4, TablesStay DEF Inv
  <2>3. HistoryKeepsLast'
    BY <1>4, Kept, KeptNext DEF Inv
  <2> QED BY <1>3, <2>1, <2>2, <2>3 DEF Inv
<1>5. CASE t \in Terminals /\ Contains(stack, t)
  <2> DEFINE s == session[t]
             n == terminal_session_handle_event(s, event)
             runs == event = ControlEvent("enter") /\ ~Blank(s.input)
  <2>1. /\ session' = [session EXCEPT ![t] = n]
        /\ recent' = IF runs THEN [recent EXCEPT ![t] = Remember(recent[t], s.input)] ELSE recent
    BY <1>5, DispatchIs
  <2>2. IsSession(s) /\ s.input \in Seq(KeyEvent) /\ DOMAIN session = Terminals
        /\ recent \in [Terminals -> Seq(Seq(KeyEvent))]
    BY <1>5 DEF Inv, Types, IsSession
  <2>3. s.endpoint # NoEndpoint
    <3>1. t \in Range(stack)
      <4>1. stack \in Seq(Windows) /\ DOMAIN stack = 1 .. Len(stack)
        BY DEF Inv, Types
      <4> QED BY <1>5, <4>1 DEF Contains, Range
    <3>2. PICK i \in DOMAIN bindings : bindings[i].window = t
      BY <1>5, <3>1 DEF Inv, SameTables
    <3>3. bindings[i].endpoint \in Endpoints
      BY <3>2, Table DEF Inv
    <3>4. bindings[i].endpoint = s.endpoint
      BY <3>2 DEF Inv, SameTables
    <3> QED BY <3>3, <3>4
  <2>4. /\ IsSession(n) /\ n.endpoint = s.endpoint
        /\ Ring(n) = IF runs THEN Remember(Ring(s), s.input) ELSE Ring(s)
    BY <1>2, <2>2, <2>3, HandleIs
  <2>5. recent[t] = Ring(s) /\ \A u \in Terminals : recent[u] = Ring(session[u])
    BY <1>5, Kept DEF Inv
  <2> HIDE DEF n, runs
  <2>6. /\ DOMAIN session' = Terminals /\ session'[t] = n
        /\ \A u \in Terminals \ {t} : session'[u] = session[u]
    BY <1>5, <2>1, <2>2
  <2>7. \A u \in Terminals : IsSession(session'[u])
    BY <2>4, <2>6 DEF Inv, Types
  <2>8. IsSession(n) => Ring(n) \in Seq(Seq(KeyEvent))
    BY RingIs
  <2>9. recent'[t] = Ring(n) /\ \A u \in Terminals \ {t} : recent'[u] = recent[u]
    BY <1>5, <2>1, <2>2, <2>4, <2>5
  <2>10. recent' \in [Terminals -> Seq(Seq(KeyEvent))]
    <3>1. recent' \in [Terminals -> Seq(Seq(KeyEvent))] \/ runs
      BY <2>1, <2>2
    <3>2. runs => Remember(recent[t], s.input) \in Seq(Seq(KeyEvent))
      BY <2>4, <2>5, <2>8
    <3> QED BY <1>5, <2>1, <2>2, <3>1, <3>2
  <2>11. Types'
    BY <1>1, <1>2, <2>6, <2>7, <2>10 DEF Inv, Types
  <2>12. SameTables'
    <3>1. \A u \in Terminals : session'[u].endpoint = session[u].endpoint
      BY <2>4, <2>6
    <3>2. \A i \in DOMAIN bindings :
            session'[bindings[i].window].endpoint = session[bindings[i].window].endpoint
      BY <3>1, Table DEF Inv
    <3> QED BY <1>1, <3>2, TablesStay DEF Inv
  <2>13. HistoryKeepsLast'
    BY <2>5, <2>6, <2>9, KeptNext
  <2> QED BY <1>3, <2>11, <2>12, <2>13 DEF Inv
<1> QED BY <1>4, <1>5, DispatchIs

\* Starting and ending a dispatch, and stuttering, change none of it.
LEMMA IdleStep ==
  ASSUME Inv, UNCHANGED <<frame, stack, active, keys, shift, extended, endpoints, bindings, session,
                          held, recent>>
  PROVE  Inv'
<1>1. Types'
  BY DEF Inv, Types
<1>2. ActiveIsFront'
  BY DEF Inv, ActiveIsFront
<1>3. SameTables'
  BY TablesStay DEF Inv
<1>4. HistoryKeepsLast'
  BY Kept, KeptNext DEF Inv
<1> QED BY <1>1, <1>2, <1>3, <1>4 DEF Inv

LEMMA InvStep == Inv /\ [Next]_vars => Inv'
<1> SUFFICES ASSUME Inv, [Next]_vars PROVE Inv'
  OBVIOUS
<1>1. CASE StartSession
  BY <1>1, StartStep
<1>2. ASSUME NEW win \in Windows, AddPlain(win) \/ Activate(win) PROVE Inv'
  BY <1>2, AddPlainStep, ActivateStep
<1>3. ASSUME NEW t \in Terminals, wm_terminal_window_attach(t) PROVE Inv'
  BY <1>3, AttachStep
<1>4. ASSUME NEW t \in Terminals, NEW e \in Endpoints, wm_terminal_window_init(t, e) PROVE Inv'
  BY <1>4, InitStep
<1>5. ASSUME NEW code \in Codes, Press(code) PROVE Inv'
  BY <1>5, PressStep
<1>6. CASE DispatchOne
  BY <1>6, DispatchStep
<1>7. CASE keyboard_dispatch_pending \/ DispatchReturn \/ UNCHANGED vars
  BY <1>7, IdleStep DEF keyboard_dispatch_pending, DispatchReturn, vars, wmVars, keyVars
<1> QED BY <1>1, <1>2, <1>3, <1>4, <1>5, <1>6, <1>7 DEF Next

LEMMA InvAlways == Spec => []Inv
<1>1. Init => Inv
  BY EmptyTables DEF Init
<1> QED BY <1>1, InvStep, PTL DEF Spec

-------------------------------------------------------------------------------
(* The theorems *)

\* Whatever is attached, refused, activated and restarted, the layers, the
\* endpoints of keyboard_dispatch.c and the bindings of terminal_window.c hold
\* the same terminals under the same endpoints.
THEOREM TablesAlwaysAgree == Spec => []TablesAgree
<1>1. Inv => TablesAgree
  <2> SUFFICES ASSUME Inv PROVE TablesAgree
    OBVIOUS
  <2>1. Types /\ SameTables
    BY DEF Inv
  <2>2. DOMAIN bindings = 1 .. Len(bindings) /\ \A i \in DOMAIN bindings : bindings[i].window \in Terminals
    BY <2>1, Table
  <2>3. {b.window : b \in Range(bindings)} = {bindings[i].window : i \in DOMAIN bindings}
    BY DEF Range
  <2>4. {bindings[i].window : i \in DOMAIN bindings} = Range(stack) \cap Terminals
    <3>1. ASSUME NEW i \in DOMAIN bindings PROVE bindings[i].window \in Range(stack) \cap Terminals
      BY <2>1, <2>2 DEF SameTables
    <3>2. ASSUME NEW t \in Range(stack) \cap Terminals
          PROVE  \E i \in DOMAIN bindings : t = bindings[i].window
      BY <2>1 DEF SameTables
    <3> QED BY <3>1, <3>2
  <2>5. \A b \in Range(bindings) : b.endpoint = session[b.window].endpoint
    BY <2>1 DEF SameTables, Range
  <2>6. Range(endpoints) = Range(bindings)
    BY <2>1 DEF SameTables
  <2> QED BY <2>1, <2>3, <2>4, <2>5, <2>6 DEF TablesAgree, SameTables
<1> QED BY <1>1, InvAlways, PTL

\* The ring of terminal_session.c always holds the last lines its terminal executed,
\* in order from head on, however long it runs.
THEOREM HistoryIsRecent == Spec => []HistoryKeepsLast
<1>1. Inv => HistoryKeepsLast
  BY DEF Inv
<1> QED BY <1>1, InvAlways, PTL

\* A key is handled by the terminal that had the focus when it was pressed, and by
\* no other, and is a capital only if a shift was down.
THEOREM KeysReachTheirWindow == Spec => KeyReachesFocus
<1> DEFINE Handled ==
             draining /\ keys # <<>> =>
               \A t \in Terminals :
                 session'[t] = IF t = Head(keys).focus /\ Contains(stack, t)
                                 THEN terminal_session_handle_event(session[t], Head(keys).event)
                                 ELSE session[t]
           Queuing == Len(keys') > Len(keys) => (Last(keys').event.shifted => held # {})
<1>1. Inv /\ [Next]_vars => [Handled /\ Queuing]_vars
  <2> SUFFICES ASSUME Inv, Next PROVE Handled /\ Queuing
    OBVIOUS
  <2>1. Handled
    <3> SUFFICES ASSUME draining, keys # <<>>, NEW t \in Terminals
                 PROVE  session'[t] = IF t = Head(keys).focus /\ Contains(stack, t)
                                        THEN terminal_session_handle_event(session[t], Head(keys).event)
                                        ELSE session[t]
      OBVIOUS
    <3>1. DispatchOne
      BY DEF Next, StartSession, AddPlain, Activate, wm_terminal_window_attach,
             wm_terminal_window_init, Press, keyboard_dispatch_pending, DispatchReturn
    <3>2. DOMAIN session = Terminals
      BY DEF Inv, Types
    <3> QED BY <3>1, <3>2, DispatchIs
  <2>2. Queuing
    <3>1. keys \in Seq(Queued) /\ Len(keys) \in Nat
      BY DEF Inv, Types
    <3>2. ASSUME NEW code \in Codes, Press(code) PROVE Queuing
      <4>1. shift \subseteq held /\ active \in Windows \cup {NoWindow}
        BY DEF Inv, Types
      <4>2. CASE keys' = keys
        BY <3>1, <4>2
      <4>3. ASSUME NEW event \in KeyEvent, keys' = Append(keys, [event |-> event, focus |-> active]),
                   event.shifted => shift # {}
            PROVE  Queuing
        <5> DEFINE q == [event |-> event, focus |-> active]
        <5>1. q \in Queued /\ q.event = event
          BY <4>1 DEF Queued
        <5> HIDE DEF q
        <5>2. Len(Append(keys, q)) = Len(keys) + 1 /\ Append(keys, q)[Len(keys) + 1] = q
          BY <3>1, <5>1, AppendProperties
        <5>3. keys' = Append(keys, q)
          BY <4>3 DEF q
        <5>4. Last(keys') = q
          BY <5>2, <5>3 DEF Last
        <5> QED BY <4>1, <4>3, <5>1, <5>4
      <4> QED BY <3>2, <4>2, <4>3, PressIs DEF Inv
    <3>3. CASE keys' = keys \/ keys' = <<>>
      BY <3>1, <3>3
    <3>4. CASE DispatchOne
      <4>1. keys' = Tail(keys) /\ keys # <<>>
        BY <3>4 DEF DispatchOne
      <4>2. Len(keys') = Len(keys) - 1
        BY <3>1, <4>1, HeadTailProperties
      <4> QED BY <3>1, <4>2
    <3> HIDE DEF Queuing
    <3>5. CASE StartSession \/ keyboard_dispatch_pending \/ DispatchReturn
      BY <3>3, <3>5 DEF StartSession, keyboard_reset, keyboard_dispatch_pending, DispatchReturn, keyVars
    <3>6. CASE \E win \in Windows : AddPlain(win) \/ Activate(win)
      BY <3>3, <3>6 DEF AddPlain, Activate, keyVars
    <3>7. CASE \E t \in Terminals :
                 wm_terminal_window_attach(t) \/ \E e \in Endpoints : wm_terminal_window_init(t, e)
      BY <3>3, <3>7 DEF wm_terminal_window_attach, wm_terminal_window_init, keyVars
    <3> QED BY <3>2, <3>4, <3>5, <3>6, <3>7 DEF Next
  <2> QED BY <2>1, <2>2
<1> QED BY <1>1, InvAlways, PTL DEF Spec, KeyReachesFocus
===============================================================================
