----------------------------- MODULE ConsoleProofs ----------------------------
(***************************************************************************)
(* Proofs about Console, for every text, FIFO depth of two or more and     *)
(* placement of the interrupts.                                            *)
(***************************************************************************)
EXTENDS Console, SequenceTheorems, WellFoundedInduction, TLAPS

USE ConsoleAssumption

\* Nothing is written before uart_init, and only a running handler has tested
\* TX_EMPTY for itself.
Quiet ==
  /\ depth = 0 => fifo = <<>> /\ ready = [w \in Writers |-> FALSE]
  /\ ready["irq"] => inIrq /\ hand["irq"] # <<>>

\* A stale test of TX_EMPTY lets one byte of the handler in, never more.
AtMostTwo ==
  /\ Len(fifo) <= 2
  /\ ready["main"] => Len(fifo) <= 1
  /\ ready["irq"] => fifo = <<>>

Inv == TypeOK /\ NoOverrun /\ AtMostTwo /\ Quiet

Byte == [by : Writers, ch : Chars]

\* The initial state.
LEMMA InitInv == Init => Inv
<1> SUFFICES ASSUME Init PROVE Inv
  OBVIOUS
<1> USE DEF Init, Writers
<1>1. TypeOK
  <2>1. todo \in [Writers -> Seq(Chars)] /\ hand \in [Writers -> Seq(Chars)]
    OBVIOUS
  <2>2. ready \in [Writers -> BOOLEAN] /\ inIrq \in BOOLEAN /\ overrun \in BOOLEAN
    BY Zenon
  <2>3. fifo \in Seq([by : Writers, ch : Chars]) /\ wire \in Seq([by : Writers, ch : Chars])
    OBVIOUS
  <2> QED BY <2>1, <2>2, <2>3 DEF TypeOK
<1>2. NoOverrun /\ AtMostTwo /\ Quiet
  BY DEF NoOverrun, AtMostTwo, Quiet
<1> QED BY <1>1, <1>2 DEF Inv

\* console_putc takes a character: the FIFO is not touched.
LEMMA PutcStep ==
  ASSUME Inv, NEW w \in Writers, console_putc(w)
  PROVE  Inv'
<1> USE DEF Inv
<1>1. todo[w] \in Seq(Chars) /\ todo[w] # <<>>
  BY DEF console_putc, TypeOK
<1>2. Head(todo[w]) \in Chars /\ Tail(todo[w]) \in Seq(Chars)
  BY <1>1
<1>3. Bytes(Head(todo[w])) \in Seq(Chars)
  BY <1>2 DEF Bytes
<1>4. hand' \in [Writers -> Seq(Chars)] /\ todo' \in [Writers -> Seq(Chars)]
  BY <1>2, <1>3 DEF console_putc, TypeOK
<1>5. UNCHANGED <<depth, fifo, wire, overrun, ready, inIrq, irqs>>
  BY DEF console_putc, uart
<1>6. ready["irq"] => hand'["irq"] # <<>>
  <2>1. ready["irq"] => w # "irq"
    BY DEF console_putc, Quiet
  <2> QED BY <2>1 DEF console_putc, TypeOK, Quiet, Writers
<1> QED BY <1>4, <1>5, <1>6 DEF TypeOK, NoOverrun, AtMostTwo, Quiet

\* A poll that ends finds the FIFO empty.
LEMMA TxEmptyStep ==
  ASSUME Inv, NEW w \in Writers, TxEmpty(w)
  PROVE  Inv'
<1> USE DEF Inv
<1>1. /\ UNCHANGED <<depth, fifo, wire, overrun, todo, hand, inIrq, irqs>>
      /\ fifo = <<>> /\ depth # 0 /\ inIrq = (w = "irq")
      /\ ready' = [ready EXCEPT ![w] = TRUE]
  BY DEF TxEmpty, uart, Executes
<1>2. ready' \in [Writers -> BOOLEAN]
  BY <1>1, Zenon DEF TypeOK
<1>3. TypeOK'
  BY <1>1, <1>2 DEF TypeOK
<1>4. ready["irq"]' => inIrq' /\ hand'["irq"] # <<>>
  <2>1. CASE w = "irq"
    BY <1>1, <2>1 DEF TxEmpty
  <2>2. CASE w = "main"
    BY <1>1, <2>2 DEF TypeOK, Writers, Quiet
  <2> QED BY <2>1, <2>2 DEF Writers
<1>5. NoOverrun' /\ AtMostTwo' /\ Quiet'
  BY <1>1, <1>4 DEF NoOverrun, AtMostTwo, Quiet
<1> QED BY <1>3, <1>5

\* A byte is written to a FIFO that has room, on a stale test too.
LEMMA WriteIs ==
  ASSUME Inv, NEW w \in Writers, uart_write_byte(w)
  PROVE  /\ UNCHANGED <<depth, wire, overrun, todo, inIrq, irqs>>
         /\ depth # 0 /\ inIrq = (w = "irq") /\ ready[w] /\ Len(fifo) <= 1
         /\ hand[w] \in Seq(Chars) /\ hand[w] # <<>>
         /\ ready' = [ready EXCEPT ![w] = FALSE] /\ hand' = [hand EXCEPT ![w] = Tail(hand[w])]
         /\ [by |-> w, ch |-> Head(hand[w])] \in Byte
         /\ fifo' = Append(fifo, [by |-> w, ch |-> Head(hand[w])])
<1> USE DEF Inv
<1> DEFINE byte == [by |-> w, ch |-> Head(hand[w])]
<1>1. /\ UNCHANGED <<depth, wire, todo, inIrq, irqs>>
      /\ depth # 0 /\ inIrq = (w = "irq") /\ ready[w]
      /\ ready' = [ready EXCEPT ![w] = FALSE] /\ hand' = [hand EXCEPT ![w] = Tail(@)]
  BY DEF uart_write_byte, Executes
<1>2. hand[w] \in Seq(Chars) /\ hand[w] # <<>>
  BY DEF uart_write_byte, TypeOK
<1>3. Head(hand[w]) \in Chars
  BY <1>2
<1>4. byte \in Byte
  BY <1>3 DEF Byte
<1>5. Len(fifo) \in Nat
  BY DEF TypeOK
<1>6. Len(fifo) <= 1 /\ depth = FifoDepth
  <2>1. CASE w = "main"
    BY <1>1, <2>1 DEF AtMostTwo, TypeOK
  <2>2. CASE w = "irq"
    BY <1>1, <2>2 DEF AtMostTwo, TypeOK
  <2> QED BY <2>1, <2>2 DEF Writers
<1>7. fifo' = Append(fifo, byte) /\ UNCHANGED overrun
  BY <1>5, <1>6 DEF uart_write_byte
<1> QED BY <1>1, <1>2, <1>4, <1>6, <1>7

LEMMA WriteStep ==
  ASSUME Inv, NEW w \in Writers, uart_write_byte(w)
  PROVE  Inv'
<1> USE DEF Inv
<1> DEFINE byte == [by |-> w, ch |-> Head(hand[w])]
<1>1. /\ UNCHANGED <<depth, wire, todo, inIrq, irqs>>
      /\ depth # 0 /\ inIrq = (w = "irq") /\ ready[w]
      /\ ready' = [ready EXCEPT ![w] = FALSE] /\ hand' = [hand EXCEPT ![w] = Tail(hand[w])]
  BY WriteIs
<1>2. hand[w] \in Seq(Chars) /\ hand[w] # <<>>
  BY WriteIs
<1>3. Tail(hand[w]) \in Seq(Chars)
  BY <1>2
<1>4. byte \in Byte /\ Len(fifo) <= 1
  BY WriteIs
<1>5. fifo \in Seq(Byte) /\ Len(fifo) \in Nat
  BY DEF TypeOK, Byte
<1>7. fifo' = Append(fifo, byte) /\ UNCHANGED overrun
  BY WriteIs
<1>8. fifo' \in Seq(Byte) /\ Len(fifo') = Len(fifo) + 1
  BY <1>4, <1>5, <1>7
<1>9. ready' \in [Writers -> BOOLEAN]
  BY <1>1, Zenon DEF TypeOK
<1>10. hand' \in [Writers -> Seq(Chars)]
  BY <1>1, <1>3 DEF TypeOK
<1>11. TypeOK'
  BY <1>1, <1>7, <1>8, <1>9, <1>10 DEF TypeOK, Byte
<1>12. ~ready'["irq"]
  <2>1. CASE w = "irq"
    BY <1>1, <2>1 DEF TypeOK, Writers
  <2>2. CASE w = "main"
    BY <1>1, <2>2 DEF TypeOK, Writers, Quiet
  <2> QED BY <2>1, <2>2 DEF Writers
<1>13. ready'["main"] => w = "irq"
  <2>1. CASE w = "main"
    BY <1>1, <2>1 DEF TypeOK, Writers
  <2> QED BY <2>1 DEF Writers
<1>14. w = "irq" => Len(fifo) = 0
  BY <1>1 DEF AtMostTwo
<1>15. AtMostTwo'
  BY <1>4, <1>5, <1>8, <1>12, <1>13, <1>14 DEF AtMostTwo
<1>16. NoOverrun' /\ Quiet'
  BY <1>1, <1>7, <1>12 DEF NoOverrun, Quiet
<1> QED BY <1>11, <1>15, <1>16

\* Sending a byte only makes room.
LEMMA TransmitStep ==
  ASSUME Inv, Transmit
  PROVE  Inv'
<1> USE DEF Inv
<1>1. /\ UNCHANGED <<depth, overrun, todo, hand, ready, inIrq, irqs>>
      /\ fifo # <<>> /\ wire' = Append(wire, Head(fifo)) /\ fifo' = Tail(fifo)
  BY DEF Transmit
<1>2. fifo \in Seq(Byte) /\ wire \in Seq(Byte)
  BY DEF TypeOK, Byte
<1>3. Head(fifo) \in Byte /\ Tail(fifo) \in Seq(Byte) /\ Len(Tail(fifo)) = Len(fifo) - 1
      /\ Len(fifo) \in Nat
  BY <1>1, <1>2
<1>4. TypeOK'
  <2>1. wire' \in Seq(Byte) /\ fifo' \in Seq(Byte)
    BY <1>1, <1>2, <1>3
  <2>2. ready' \in [Writers -> BOOLEAN]
    BY <1>1 DEF TypeOK
  <2> QED BY <1>1, <2>1, <2>2 DEF TypeOK, Byte
<1>5. ~ready["irq"] /\ depth # 0
  BY <1>1 DEF AtMostTwo, Quiet
<1>6. NoOverrun' /\ AtMostTwo' /\ Quiet'
  BY <1>1, <1>3, <1>5 DEF NoOverrun, AtMostTwo, Quiet
<1> QED BY <1>4, <1>6

\* The inductive invariant.
THEOREM ConsoleInvariant == Spec => []Inv
<1>1. Inv /\ [Next]_vars => Inv'
  <2> SUFFICES ASSUME Inv, [Next]_vars PROVE Inv'
    OBVIOUS
  <2> USE DEF Inv
  <2>1. CASE uart_init
    BY <2>1 DEF uart_init, TypeOK, NoOverrun, AtMostTwo, Quiet
  <2>2. CASE \E w \in Writers : Write(w)
    BY <2>2, PutcStep, TxEmptyStep, WriteStep DEF Write
  <2>3. CASE Transmit
    BY <2>3, TransmitStep
  <2>4. CASE Interrupt
    <3>1. /\ UNCHANGED <<depth, fifo, wire, overrun, hand, ready>>
          /\ inIrq' = TRUE /\ irqs' = irqs + 1 /\ todo' = [todo EXCEPT !["irq"] = IrqText]
      BY <2>4 DEF Interrupt, uart
    <3>2. todo' \in [Writers -> Seq(Chars)]
      BY <3>1 DEF TypeOK
    <3> QED BY <3>1, <3>2 DEF TypeOK, NoOverrun, AtMostTwo, Quiet
  <2>5. CASE InterruptReturn
    <3>1. /\ UNCHANGED <<depth, fifo, wire, overrun, todo, hand, ready, irqs>> /\ inIrq' = FALSE
          /\ hand["irq"] = <<>>
      BY <2>5 DEF InterruptReturn, uart
    <3> QED BY <3>1 DEF TypeOK, NoOverrun, AtMostTwo, Quiet
  <2>6. CASE UNCHANGED vars
    BY <2>6 DEF vars, TypeOK, NoOverrun, AtMostTwo, Quiet
  <2> QED BY <2>1, <2>2, <2>3, <2>4, <2>5, <2>6 DEF Next
<1> QED BY <1>1, InitInv, PTL DEF Spec

\* uart_write_byte never writes to a full THR, whatever the interrupts do between
\* its test of TX_EMPTY and its write.
THEOREM NeverOverrun == Spec => []NoOverrun
BY ConsoleInvariant, PTL DEF Inv

-------------------------------------------------------------------------------
(* Lines of the handler.  The output is the wire and, after it, the FIFO.   *)

Output == wire \o fifo

ByIrq(s, i) == s[i].by = "irq"
EndsLine(s, i) == ByIrq(s, i) /\ s[i].ch = NL

\* Byte i of the output, of the handler, has the end of its line behind it; all
\* the bytes of the handler have.
Ended(s, i) == \E k \in i .. Len(s) : EndsLine(s, k)
AllEnded(s) == \A i \in 1 .. Len(s) : ByIrq(s, i) => Ended(s, i)

\* A line that the handler has not ended goes on to the end of the output; what
\* it has written of one line is in one piece.
OpenToTheEnd(s) ==
  \A i \in 1 .. Len(s) : ByIrq(s, i) /\ ~Ended(s, i) => \A k \in i .. Len(s) : ByIrq(s, k)
InOnePiece(s) ==
  \A i, j \in 1 .. Len(s) :
    i < j /\ ByIrq(s, i) /\ ByIrq(s, j) /\ (\A k \in i .. j - 1 : ~EndsLine(s, k))
      => \A k \in i .. j : ByIrq(s, k)

\* A handler that returns has ended its line: what it still has to write ends
\* with \n.
WholeLines ==
  IF inIrq
    THEN \/ todo["irq"] # <<>> /\ Last(todo["irq"]) = NL
         \/ todo["irq"] = <<>> /\ hand["irq"] # <<>> /\ Last(hand["irq"]) = NL
         \/ todo["irq"] = <<>> /\ hand["irq"] = <<>> /\ AllEnded(Output)
    ELSE todo["irq"] = <<>> /\ hand["irq"] = <<>> /\ AllEnded(Output)

LinesInv == OpenToTheEnd(Output) /\ InOnePiece(Output) /\ WholeLines

\* A byte that is sent moves from one part of the output to the other.
LEMMA Sent ==
  ASSUME NEW S, NEW v \in Seq(S), NEW q \in Seq(S), q # <<>>
  PROVE  Append(v, Head(q)) \o Tail(q) = v \o q
<1> DEFINE m == Len(v)
           n == Len(q)
           a == Append(v, Head(q))
           b == Tail(q)
<1>1. /\ m \in Nat /\ n \in Nat /\ n # 0
      /\ Head(q) \in S /\ Head(q) = q[1] /\ b \in Seq(S) /\ Len(b) = n - 1
      /\ \A i \in 1 .. n - 1 : b[i] = q[i + 1]
  BY HeadTailProperties
<1>2. a \in Seq(S) /\ Len(a) = m + 1 /\ (\A i \in 1 .. m : a[i] = v[i]) /\ a[m + 1] = q[1]
  BY <1>1, AppendProperties
<1> HIDE DEF a, b
<1>3. /\ a \o b \in Seq(S) /\ Len(a \o b) = Len(a) + Len(b)
      /\ \A i \in 1 .. Len(a) + Len(b) : (a \o b)[i] = IF i <= Len(a) THEN a[i] ELSE b[i - Len(a)]
  BY <1>1, <1>2, ConcatProperties
<1>4. /\ v \o q \in Seq(S) /\ Len(v \o q) = m + n
      /\ \A i \in 1 .. m + n : (v \o q)[i] = IF i <= m THEN v[i] ELSE q[i - m]
  BY ConcatProperties
<1> HIDE DEF m, n
<1>5. /\ Len(a \o b) = m + n
      /\ \A i \in 1 .. m + n : (a \o b)[i] = IF i <= m + 1 THEN a[i] ELSE b[i - (m + 1)]
  <2>1. Len(a) = m + 1 /\ Len(a) + Len(b) = m + n
    BY <1>1, <1>2
  <2> QED BY <1>3, <2>1
<1>6. ASSUME NEW i \in 1 .. m + n PROVE (a \o b)[i] = (v \o q)[i]
  <2>0. i \in Int /\ 1 <= i /\ i <= m + n
    BY <1>1
  <2>1. CASE i <= m
    <3>1. i \in 1 .. m /\ i <= m + 1
      BY <1>1, <2>0, <2>1
    <3>2. (a \o b)[i] = a[i] /\ a[i] = v[i]
      BY <1>2, <1>5, <3>1
    <3>3. (v \o q)[i] = v[i]
      BY <1>4, <2>1
    <3> QED BY <3>2, <3>3
  <2>2. CASE i = m + 1
    <3>1. i <= m + 1 /\ ~(i <= m) /\ i - m = 1
      BY <1>1, <2>0, <2>2
    <3>2. (a \o b)[i] = a[i] /\ a[i] = q[1]
      BY <1>2, <1>5, <2>2, <3>1
    <3>3. (v \o q)[i] = q[1]
      BY <1>4, <3>1
    <3> QED BY <3>2, <3>3
  <2>3. CASE i > m + 1
    <3>1. i - (m + 1) \in 1 .. n - 1 /\ (i - (m + 1)) + 1 = i - m
      BY <1>1, <2>0, <2>3
    <3>2. ~(i <= m + 1) /\ ~(i <= m)
      BY <1>1, <2>0, <2>3
    <3>3. (a \o b)[i] = b[i - (m + 1)]
      BY <1>5, <3>2
    <3>4. b[i - (m + 1)] = q[i - m]
      BY <1>1, <3>1
    <3>5. (v \o q)[i] = q[i - m]
      BY <1>4, <3>2
    <3> QED BY <3>3, <3>4, <3>5
  <2>4. i <= m \/ i = m + 1 \/ i > m + 1
    BY <1>1
  <2> QED BY <2>1, <2>2, <2>3, <2>4
<1>7. a \o b = v \o q
  BY <1>3, <1>4, <1>5, <1>6, SeqEqual
<1> QED BY <1>7 DEF a, b

\* A byte that is written is the last of the output.
LEMMA Queued ==
  ASSUME NEW S, NEW v \in Seq(S), NEW q \in Seq(S), NEW x \in S
  PROVE  v \o Append(q, x) = Append(v \o q, x)
<1> DEFINE m == Len(v)
           n == Len(q)
           a == Append(q, x)
           b == v \o q
           c == Append(b, x)
<1>1. m \in Nat /\ n \in Nat
  OBVIOUS
<1>2. a \in Seq(S) /\ Len(a) = n + 1 /\ (\A i \in 1 .. n : a[i] = q[i]) /\ a[n + 1] = x
  BY AppendProperties
<1>3. b \in Seq(S) /\ Len(b) = m + n /\ \A i \in 1 .. m + n : b[i] = IF i <= m THEN v[i] ELSE q[i - m]
  BY ConcatProperties
<1> HIDE DEF a, b
<1>4. c \in Seq(S) /\ Len(c) = Len(b) + 1 /\ (\A i \in 1 .. Len(b) : c[i] = b[i]) /\ c[Len(b) + 1] = x
  <2>1. ASSUME NEW s \in Seq(S)
        PROVE  /\ Append(s, x) \in Seq(S) /\ Len(Append(s, x)) = Len(s) + 1
               /\ \A i \in 1 .. Len(s) : Append(s, x)[i] = s[i]
               /\ Append(s, x)[Len(s) + 1] = x
    BY AppendProperties
  <2> QED BY <1>3, <2>1
<1>5. /\ v \o a \in Seq(S) /\ Len(v \o a) = m + Len(a)
      /\ \A i \in 1 .. m + Len(a) : (v \o a)[i] = IF i <= m THEN v[i] ELSE a[i - m]
  BY <1>2, ConcatProperties
<1> HIDE DEF c, m, n
<1>6. Len(v \o a) = m + n + 1 /\ Len(c) = m + n + 1 /\ m + Len(a) = m + n + 1
  BY <1>1, <1>2, <1>3, <1>4, <1>5
<1>7. ASSUME NEW i \in 1 .. m + n + 1 PROVE (v \o a)[i] = c[i]
  <2>1. CASE i <= m
    BY <1>1, <1>3, <1>4, <1>5, <1>6, <2>1
  <2>2. CASE i > m /\ i <= m + n
    <3>1. i - m \in 1 .. n /\ i \in 1 .. m + n /\ ~(i <= m)
      BY <1>1, <2>2
    <3>2. (v \o a)[i] = a[i - m]
      BY <1>5, <1>6, <3>1
    <3>3. c[i] = b[i] /\ b[i] = q[i - m] /\ a[i - m] = q[i - m]
      BY <1>2, <1>3, <1>4, <3>1
    <3> QED BY <3>2, <3>3
  <2>3. CASE i = m + n + 1
    <3>1. i - m = n + 1 /\ i = Len(b) + 1 /\ ~(i <= m)
      BY <1>1, <1>3, <2>3
    <3>2. (v \o a)[i] = a[i - m]
      BY <1>5, <1>6, <3>1
    <3> QED BY <1>2, <1>4, <3>1, <3>2
  <2>4. i <= m \/ (i > m /\ i <= m + n) \/ i = m + n + 1
    BY <1>1
  <2> QED BY <2>1, <2>2, <2>3, <2>4
<1>8. v \o a = c
  BY <1>4, <1>5, <1>6, <1>7, SeqEqual
<1> QED BY <1>8 DEF a, b, c

\* One more byte: of the boot thread when all lines of the handler are ended, or
\* of the handler.
LEMMA OneMore ==
  ASSUME NEW s \in Seq(Byte), OpenToTheEnd(s), InOnePiece(s), NEW x \in Byte,
         x.by = "irq" \/ AllEnded(s)
  PROVE  LET t == Append(s, x)
         IN  /\ OpenToTheEnd(t) /\ InOnePiece(t)
             /\ x.by # "irq" => AllEnded(t)
             /\ x.by = "irq" /\ x.ch = NL => AllEnded(t)
<1> DEFINE n == Len(s)
           t == Append(s, x)
<1>1. /\ n \in Nat /\ t \in Seq(Byte) /\ Len(t) = n + 1
      /\ (\A i \in 1 .. n : t[i] = s[i]) /\ t[n + 1] = x
  BY AppendProperties
<1> HIDE DEF t
<1>2. /\ \A i \in 1 .. n : (ByIrq(t, i) <=> ByIrq(s, i)) /\ (EndsLine(t, i) <=> EndsLine(s, i))
      /\ ByIrq(t, n + 1) <=> x.by = "irq"
      /\ EndsLine(t, n + 1) <=> x.by = "irq" /\ x.ch = NL
  BY <1>1 DEF ByIrq, EndsLine
<1> HIDE DEF n
<1>3. ASSUME NEW i \in 1 .. n, Ended(s, i) PROVE Ended(t, i)
  <2>1. PICK k \in i .. n : EndsLine(s, k)
    BY <1>3 DEF Ended, n
  <2>2. k \in i .. n + 1 /\ k \in 1 .. n
    BY <1>1, <2>1
  <2> QED BY <1>1, <1>2, <2>1, <2>2 DEF Ended
<1>4. OpenToTheEnd(t)
  <2> SUFFICES ASSUME NEW i \in 1 .. n + 1, ByIrq(t, i), ~Ended(t, i), NEW k \in i .. n + 1
               PROVE  ByIrq(t, k)
    BY <1>1 DEF OpenToTheEnd
  <2>1. CASE i = n + 1
    BY <1>1, <2>1
  <2>2. CASE i \in 1 .. n
    <3>1. ByIrq(s, i) /\ ~Ended(s, i)
      BY <1>2, <1>3, <2>2
    <3>2. x.by = "irq"
      BY <2>2, <3>1 DEF AllEnded, n
    <3>3. \A m \in i .. n : ByIrq(s, m)
      BY <2>2, <3>1 DEF OpenToTheEnd, n
    <3>4. (k \in i .. n /\ k \in 1 .. n) \/ k = n + 1
      BY <1>1, <2>2
    <3> QED BY <1>2, <3>2, <3>3, <3>4
  <2> QED BY <1>1, <2>1, <2>2
<1>5. InOnePiece(t)
  <2> SUFFICES ASSUME NEW i \in 1 .. n + 1, NEW j \in 1 .. n + 1, i < j, ByIrq(t, i), ByIrq(t, j),
                      \A k \in i .. j - 1 : ~EndsLine(t, k), NEW k \in i .. j
               PROVE  ByIrq(t, k)
    BY <1>1 DEF InOnePiece
  <2>1. i \in 1 .. n /\ ByIrq(s, i)
    BY <1>1, <1>2
  <2>2. \A m \in i .. j - 1 : m \in 1 .. n /\ ~EndsLine(s, m)
    BY <1>1, <1>2
  <2>3. CASE j \in 1 .. n
    <3>1. ByIrq(s, j) /\ k \in 1 .. n
      BY <1>1, <1>2, <2>3
    <3>2. \A m \in i .. j : ByIrq(s, m)
      BY <2>1, <2>2, <2>3, <3>1 DEF InOnePiece, n
    <3> QED BY <1>2, <3>1, <3>2
  <2>4. CASE j = n + 1
    <3>1. ~Ended(s, i)
      <4>1. j - 1 = n
        BY <1>1, <2>4
      <4> QED BY <2>2, <4>1 DEF Ended, n
    <3>2. \A m \in i .. n : ByIrq(s, m)
      BY <2>1, <3>1 DEF OpenToTheEnd, n
    <3>3. (k \in i .. n /\ k \in 1 .. n) \/ k = n + 1
      BY <1>1, <2>1, <2>4
    <3> QED BY <1>2, <2>4, <3>2, <3>3
  <2> QED BY <1>1, <2>3, <2>4
<1>6. ASSUME x.by # "irq" PROVE AllEnded(t)
  <2> SUFFICES ASSUME NEW i \in 1 .. n + 1, ByIrq(t, i) PROVE Ended(t, i)
    BY <1>1 DEF AllEnded
  <2>1. i \in 1 .. n /\ ByIrq(s, i)
    BY <1>1, <1>2, <1>6
  <2>2. Ended(s, i)
    BY <1>6, <2>1 DEF AllEnded, n
  <2> QED BY <1>3, <2>1, <2>2
<1>7. ASSUME x.by = "irq", x.ch = NL PROVE AllEnded(t)
  <2> SUFFICES ASSUME NEW i \in 1 .. n + 1 PROVE Ended(t, i)
    BY <1>1 DEF AllEnded
  <2>1. n + 1 \in i .. Len(t) /\ EndsLine(t, n + 1)
    BY <1>1, <1>2, <1>7
  <2> QED BY <2>1 DEF Ended
<1> QED BY <1>4, <1>5, <1>6, <1>7 DEF t

\* The last element of a sequence is that of its tail.
LEMMA LastOfTail ==
  ASSUME NEW S, NEW s \in Seq(S), s # <<>>, Last(s) = NL
  PROVE  IF Tail(s) = <<>> THEN Head(s) = NL ELSE Last(Tail(s)) = NL
<1> DEFINE n == Len(s)
           v == Tail(s)
<1>1. /\ n \in Nat \ {0} /\ Head(s) = s[1] /\ v \in Seq(S) /\ Len(v) = n - 1
      /\ \A i \in 1 .. n - 1 : v[i] = s[i + 1]
  BY HeadTailProperties
<1>2. s[n] = NL
  BY DEF Last
<1> HIDE DEF n, v
<1>3. CASE v = <<>>
  <2>1. n = 1
    BY <1>1, <1>3
  <2> QED BY <1>1, <1>2, <1>3, <2>1 DEF v
<1>4. CASE v # <<>>
  <2>1. n - 1 \in 1 .. n - 1 /\ (n - 1) + 1 = n
    BY <1>1, <1>4
  <2>2. v[n - 1] = s[n]
    BY <1>1, <2>1
  <2>3. Last(v) = NL
    BY <1>1, <1>2, <2>2 DEF Last
  <2> QED BY <1>4, <2>3 DEF v
<1> QED BY <1>3, <1>4

\* console_putc(\n) ends with \n.
LEMMA LinesPutc ==
  ASSUME Inv, LinesInv, NEW w \in Writers, console_putc(w)
  PROVE  LinesInv'
<1>1. /\ UNCHANGED <<wire, fifo, inIrq>> /\ inIrq = (w = "irq")
      /\ hand[w] = <<>> /\ todo[w] # <<>> /\ todo[w] \in Seq(Chars)
      /\ hand' = [hand EXCEPT ![w] = Bytes(Head(todo[w]))]
      /\ todo' = [todo EXCEPT ![w] = Tail(todo[w])]
      /\ DOMAIN hand = Writers /\ DOMAIN todo = Writers
  BY DEF console_putc, uart, Executes, Inv, TypeOK
<1>2. Output' = Output
  BY <1>1 DEF Output
<1>3. CASE w = "main"
  <2>1. hand'["irq"] = hand["irq"] /\ todo'["irq"] = todo["irq"]
    BY <1>1, <1>3 DEF Writers
  <2> QED BY <1>1, <1>2, <2>1 DEF LinesInv, WholeLines
<1>4. CASE w = "irq"
  <2>1. inIrq /\ Last(todo["irq"]) = NL /\ inIrq'
    BY <1>1, <1>4 DEF LinesInv, WholeLines
  <2>2. hand'["irq"] = Bytes(Head(todo["irq"])) /\ todo'["irq"] = Tail(todo["irq"])
    BY <1>1, <1>4 DEF Writers
  <2>3. IF Tail(todo["irq"]) = <<>> THEN Head(todo["irq"]) = NL ELSE Last(Tail(todo["irq"])) = NL
    BY <1>1, <1>4, <2>1, LastOfTail
  <2>4. Bytes(NL) # <<>> /\ Last(Bytes(NL)) = NL
    BY DEF Bytes, Last
  <2>5. WholeLines'
    BY <2>1, <2>2, <2>3, <2>4 DEF WholeLines
  <2> QED BY <1>2, <2>5 DEF LinesInv
<1> QED BY <1>3, <1>4 DEF Writers

\* The boot thread writes only while the handler is not running, and so between
\* its lines.
LEMMA LinesWrite ==
  ASSUME Inv, LinesInv, NEW w \in Writers, uart_write_byte(w)
  PROVE  LinesInv'
<1> DEFINE byte == [by |-> w, ch |-> Head(hand[w])]
           all == Output
<1>1. /\ UNCHANGED <<wire, todo, inIrq>> /\ inIrq = (w = "irq")
      /\ hand[w] \in Seq(Chars) /\ hand[w] # <<>> /\ hand' = [hand EXCEPT ![w] = Tail(hand[w])]
      /\ byte \in Byte /\ fifo' = Append(fifo, byte)
  BY WriteIs
<1>2. wire \in Seq(Byte) /\ fifo \in Seq(Byte) /\ DOMAIN hand = Writers
  BY DEF Inv, TypeOK, Byte
<1>3. byte.by = w /\ byte.ch = Head(hand[w])
  OBVIOUS
<1> HIDE DEF byte
<1>4. Output' = Append(all, byte)
  BY <1>1, <1>2, Queued, SMTT(30) DEF Output
<1>5. all \in Seq(Byte)
  BY <1>2, ConcatProperties DEF Output
<1>6. OpenToTheEnd(all) /\ InOnePiece(all)
  BY DEF LinesInv
<1>7. w # "irq" => AllEnded(all)
  BY <1>1 DEF LinesInv, WholeLines
<1> HIDE DEF all
<1> DEFINE new == Append(all, byte)
<1>8. /\ OpenToTheEnd(new) /\ InOnePiece(new)
      /\ w # "irq" => AllEnded(new)
      /\ w = "irq" /\ Head(hand[w]) = NL => AllEnded(new)
  BY <1>1, <1>3, <1>5, <1>6, <1>7, OneMore
<1> HIDE DEF new
<1>9. Output' = new
  BY <1>4 DEF new
<1>10. WholeLines'
  <2>1. CASE w = "main"
    <3>1. hand'["irq"] = hand["irq"] /\ ~inIrq
      BY <1>1, <1>2, <2>1 DEF Writers
    <3> QED BY <1>1, <1>8, <1>9, <2>1, <3>1 DEF LinesInv, WholeLines
  <2>2. CASE w = "irq"
    <3>1. hand'["irq"] = Tail(hand["irq"]) /\ inIrq /\ inIrq' /\ todo' = todo
      BY <1>1, <1>2, <2>2
    <3>2. \/ todo["irq"] # <<>> /\ Last(todo["irq"]) = NL
          \/ todo["irq"] = <<>> /\ Last(hand["irq"]) = NL
      BY <1>1, <2>2 DEF LinesInv, WholeLines
    <3>3. CASE todo["irq"] # <<>> /\ Last(todo["irq"]) = NL
      BY <3>1, <3>3 DEF WholeLines
    <3>4. CASE todo["irq"] = <<>> /\ Last(hand["irq"]) = NL
      <4>1. IF Tail(hand["irq"]) = <<>> THEN Head(hand["irq"]) = NL ELSE Last(Tail(hand["irq"])) = NL
        BY <1>1, <2>2, <3>4, LastOfTail
      <4> QED BY <1>8, <1>9, <2>2, <3>1, <3>4, <4>1 DEF WholeLines
    <3> QED BY <3>2, <3>3, <3>4
  <2> QED BY <2>1, <2>2 DEF Writers
<1> QED BY <1>8, <1>9, <1>10 DEF LinesInv

LEMMA LinesStep == Inv /\ LinesInv /\ [Next]_vars => LinesInv'
<1> SUFFICES ASSUME Inv, LinesInv, [Next]_vars PROVE LinesInv'
  OBVIOUS
<1>1. CASE UNCHANGED <<wire, fifo, todo, hand, inIrq>>
  BY <1>1 DEF LinesInv, WholeLines, Output
<1>2. CASE uart_init \/ UNCHANGED vars
  BY <1>1, <1>2 DEF uart_init, vars
<1>3. ASSUME NEW w \in Writers, Write(w) PROVE LinesInv'
  <2>1. CASE TxEmpty(w)
    BY <1>1, <2>1 DEF TxEmpty, uart
  <2> QED BY <1>3, <2>1, LinesPutc, LinesWrite DEF Write
<1>4. CASE Transmit
  <2>1. wire \in Seq(Byte) /\ fifo \in Seq(Byte)
    BY DEF Inv, TypeOK, Byte
  <2>2. Output' = Output
    BY <1>4, <2>1, Sent DEF Transmit, Output
  <2>3. UNCHANGED <<todo, hand, inIrq>>
    BY <1>4 DEF Transmit
  <2> QED BY <2>2, <2>3 DEF LinesInv, WholeLines
<1>5. CASE Interrupt
  <2>1. /\ UNCHANGED <<wire, fifo, hand>> /\ ~inIrq /\ inIrq' = TRUE
        /\ todo'["irq"] = IrqText
    BY <1>5 DEF Interrupt, uart, Inv, TypeOK, Writers
  <2>2. Output' = Output
    BY <2>1 DEF Output
  <2> QED BY <2>1, <2>2, HandlerAssumption DEF LinesInv, WholeLines
<1>6. CASE InterruptReturn
  <2>1. /\ UNCHANGED <<wire, fifo, hand, todo>> /\ inIrq /\ inIrq' = FALSE
        /\ todo["irq"] = <<>> /\ hand["irq"] = <<>>
    BY <1>6 DEF InterruptReturn, uart
  <2>2. Output' = Output
    BY <2>1 DEF Output
  <2> QED BY <2>1, <2>2 DEF LinesInv, WholeLines
<1> QED BY <1>2, <1>3, <1>4, <1>5, <1>6 DEF Next

\* A line the timer handler prints is never split by the boot thread, wherever the
\* interrupt falls in its console_write and however the FIFO drains.
THEOREM HandlerLinesStayWhole == Spec => []HandlerLinesWhole
<1>1. Init => LinesInv
  <2> SUFFICES ASSUME Init PROVE LinesInv
    OBVIOUS
  <2>1. Output = <<>> /\ Len(Output) = 0
    BY DEF Init, Output
  <2>2. ~inIrq /\ todo["irq"] = <<>> /\ hand["irq"] = <<>>
    BY DEF Init, Writers
  <2> QED BY <2>1, <2>2 DEF LinesInv, WholeLines, OpenToTheEnd, InOnePiece, AllEnded
<1>2. Inv /\ LinesInv => HandlerLinesWhole
  <2> SUFFICES ASSUME Inv, LinesInv, NEW i \in 1 .. Len(wire), NEW j \in 1 .. Len(wire), SameLine(i, j),
                      NEW k \in i .. j
               PROVE  wire[k].by = "irq"
    BY DEF HandlerLinesWhole
  <2>1. wire \in Seq(Byte) /\ fifo \in Seq(Byte) /\ Len(wire) \in Nat /\ Len(fifo) \in Nat
    BY DEF Inv, TypeOK, Byte
  <2>2. /\ Len(Output) = Len(wire) + Len(fifo)
        /\ \A m \in 1 .. Len(wire) : Output[m] = wire[m]
    <3>1. /\ Len(Output) = Len(wire) + Len(fifo)
          /\ \A m \in 1 .. Len(wire) + Len(fifo) :
               Output[m] = IF m <= Len(wire) THEN wire[m] ELSE fifo[m - Len(wire)]
      BY <2>1, ConcatProperties DEF Output
    <3> QED BY <2>1, <3>1
  <2>3. i \in 1 .. Len(Output) /\ j \in 1 .. Len(Output) /\ k \in 1 .. Len(wire)
    BY <2>1, <2>2
  <2>4. i < j /\ ByIrq(Output, i) /\ ByIrq(Output, j)
    BY <2>2 DEF SameLine, ByIrq
  <2>5. \A m \in i .. j - 1 : ~EndsLine(Output, m)
    <3> TAKE m \in i .. j - 1
    <3>1. m \in 1 .. Len(wire)
      BY <2>1
    <3> QED BY <2>2, <3>1 DEF SameLine, EndsLine, ByIrq
  <2>6. ByIrq(Output, k)
    BY <2>3, <2>4, <2>5 DEF LinesInv, InOnePiece
  <2> QED BY <2>2, <2>3, <2>6 DEF ByIrq
<1> QED BY <1>1, <1>2, LinesStep, ConsoleInvariant, PTL DEF Spec

-------------------------------------------------------------------------------
(* Texts.  FlattenSeq is defined by a recursive function; IsFlat says that a    *)
(* is that function for the first n parts of s.                                 *)

\* A non-empty set of numbers has a least one.
LEMMA LeastNumber ==
  ASSUME NEW T, T \subseteq Nat, T # {}
  PROVE  \E x \in T : \A y \in T : x <= y
<1>1. \E R : /\ IsWellFoundedOn(R, Nat)
             /\ \A x, y \in Nat : x < y => <<x, y>> \in R
  <2>1. \A x, y \in Nat : x < y => <<x, y>> \in OpToRel(<, Nat)
    BY DEF OpToRel
  <2> QED BY <2>1, NatLessThanWellFounded, Zenon
<1>2. PICK R : /\ IsWellFoundedOn(R, Nat)
               /\ \A x, y \in Nat : x < y => <<x, y>> \in R
  BY <1>1
<1>3. IsWellFoundedOn(R, Nat)
  BY <1>2
<1>4. PICK x \in T : \A y \in T : ~ (<<y, x>> \in R)
  <2>1. \A Q, S, U : IsWellFoundedOn(Q, S) /\ U \subseteq S /\ U # {}
                       => \E x \in U : \A y \in U : ~ (<<y, x>> \in Q)
    BY WFMin, Zenon
  <2>2. \E x \in T : \A y \in T : ~ (<<y, x>> \in R)
    BY <1>3, <2>1
  <2> QED BY <2>2, Zenon
<1>5. \A y \in T : ~ (y < x)
  BY <1>2, <1>4, Zenon
<1> QED BY <1>5

\* What holds at 0 and passes from each number to the next holds everywhere.
LEMMA Upward ==
  ASSUME NEW T, 0 \in T, \A k \in Nat : k \in T => k + 1 \in T
  PROVE  \A k \in Nat : k \in T
<1> DEFINE Bad == {k \in Nat : k \notin T}
<1> SUFFICES ASSUME Bad # {} PROVE FALSE
  OBVIOUS
<1>1. Bad \subseteq Nat
  OBVIOUS
<1>2. PICK x \in Bad : \A y \in Bad : x <= y
  <2> HIDE DEF Bad
  <2> QED BY <1>1, LeastNumber
<1>3. x \in Nat /\ x # 0 /\ x \notin T
  OBVIOUS
<1>4. x - 1 \in Nat /\ x - 1 \notin Bad /\ (x - 1) + 1 = x
  BY <1>2, <1>3
<1>5. x - 1 \in T
  BY <1>4
<1> QED BY <1>3, <1>4, <1>5

SameUpTo(n, s, t) == \A i \in 1 .. n : s[i] = t[i]
IsFlat(s, n, a) == a = [i \in 1 .. n |-> IF i = 1 THEN s[i] ELSE a[i - 1] \o s[i]]

\* It exists ...
LEMMA FlatExists ==
  ASSUME NEW s PROVE \A n \in Nat : \E a : IsFlat(s, n, a)
<1> DEFINE T == {n \in Nat : \E a : IsFlat(s, n, a)}
<1>1. 0 \in T
  <2> DEFINE a == [i \in 1 .. 0 |-> s[i]]
  <2>1. IsFlat(s, 0, a)
    BY DEF IsFlat
  <2> QED BY <2>1
<1>2. ASSUME NEW n \in Nat, n \in T PROVE n + 1 \in T
  <2>1. PICK a : IsFlat(s, n, a)
    BY <1>2
  <2> DEFINE new == [i \in 1 .. n + 1 |-> IF i <= n THEN a[i]
                                         ELSE IF i = 1 THEN s[i] ELSE a[n] \o s[i]]
  <2>2. \A i \in 1 .. n : a[i] = IF i = 1 THEN s[i] ELSE a[i - 1] \o s[i]
    BY <2>1 DEF IsFlat
  <2>3. ASSUME NEW i \in 1 .. n + 1
        PROVE  new[i] = IF i = 1 THEN s[i] ELSE new[i - 1] \o s[i]
    <3>1. CASE i <= n
      <4>1. i \in 1 .. n /\ (i # 1 => i - 1 \in 1 .. n + 1 /\ i - 1 <= n)
        BY <3>1
      <4>2. new[i] = a[i] /\ (i # 1 => new[i - 1] = a[i - 1])
        BY <3>1, <4>1
      <4> QED BY <2>2, <4>1, <4>2
    <3>2. CASE i = n + 1
      <4>1. ~(i <= n) /\ i - 1 = n /\ (i # 1 => n \in 1 .. n + 1)
        BY <3>2
      <4>2. new[i] = (IF i = 1 THEN s[i] ELSE a[n] \o s[i]) /\ (i # 1 => new[i - 1] = a[n])
        BY <4>1
      <4> QED BY <4>1, <4>2
    <3> QED BY <3>1, <3>2
  <2>4. IsFlat(s, n + 1, new)
    BY <2>3 DEF IsFlat
  <2> HIDE DEF new
  <2> QED BY <2>4
<1>3. \A n \in Nat : n \in T
  <2> HIDE DEF T
  <2> QED BY <1>1, <1>2, Upward
<1> QED BY <1>3

\* ... and depends on the parts only.
LEMMA FlatAgree ==
  ASSUME NEW s, NEW t, NEW n \in Nat, NEW m \in Nat, n <= m, SameUpTo(n, s, t),
         NEW a, IsFlat(s, n, a), NEW b, IsFlat(t, m, b)
  PROVE  SameUpTo(n, a, b)
<1> DEFINE T == {i \in Nat : i + 1 <= n => a[i + 1] = b[i + 1]}
<1>1. /\ \A i \in 1 .. n : a[i] = IF i = 1 THEN s[i] ELSE a[i - 1] \o s[i]
      /\ \A i \in 1 .. m : b[i] = IF i = 1 THEN t[i] ELSE b[i - 1] \o t[i]
  BY DEF IsFlat
<1>2. 0 \in T
  <2> SUFFICES ASSUME 1 <= n PROVE a[1] = b[1]
    OBVIOUS
  <2>1. 1 \in 1 .. n /\ 1 \in 1 .. m
    OBVIOUS
  <2> QED BY <1>1, <2>1 DEF SameUpTo
<1>3. ASSUME NEW i \in Nat, i \in T PROVE i + 1 \in T
  <2> DEFINE j == i + 1
  <2> SUFFICES ASSUME j + 1 <= n PROVE a[j + 1] = b[j + 1]
    OBVIOUS
  <2>1. j <= n /\ j + 1 \in 1 .. n /\ j + 1 \in 1 .. m /\ j + 1 # 1 /\ (j + 1) - 1 = j
    OBVIOUS
  <2>2. a[j] = b[j]
    BY <1>3, <2>1
  <2>3. a[j + 1] = a[j] \o s[j + 1] /\ b[j + 1] = b[j] \o t[j + 1] /\ s[j + 1] = t[j + 1]
    <3> HIDE DEF j
    <3> QED BY <1>1, <2>1 DEF SameUpTo
  <2> QED BY <2>2, <2>3
<1>4. \A i \in Nat : i \in T
  <2> HIDE DEF T
  <2> QED BY <1>2, <1>3, Upward
<1>5. ASSUME NEW i \in 1 .. n PROVE a[i] = b[i]
  <2>1. i - 1 \in Nat /\ (i - 1) + 1 = i /\ i <= n
    OBVIOUS
  <2> QED BY <1>4, <2>1
<1> QED BY <1>5 DEF SameUpTo

\* One more part is one more \o.
LEMMA FlatAppend ==
  ASSUME NEW S, NEW s \in Seq(Seq(S)), NEW x \in Seq(S)
  PROVE  FlattenSeq(Append(s, x)) = FlattenSeq(s) \o x
<1> DEFINE W(q) == CHOOSE a : IsFlat(q, Len(q), a)
           n == Len(s)
           t == Append(s, x)
<1>1. ASSUME NEW q, Len(q) # 0 PROVE FlattenSeq(q) = W(q)[Len(q)]
  BY <1>1, Zenon DEF FlattenSeq, IsFlat
<1>2. ASSUME NEW q, Len(q) \in Nat PROVE IsFlat(q, Len(q), W(q))
  <2>1. \E a : IsFlat(q, Len(q), a)
    BY <1>2, FlatExists
  <2> QED BY <2>1
<1>3. /\ t \in Seq(Seq(S)) /\ n \in Nat /\ Len(t) = n + 1 /\ t[n + 1] = x /\ \A i \in 1 .. n : s[i] = t[i]
  BY AppendProperties
<1>4. IsFlat(s, n, W(s)) /\ IsFlat(t, n + 1, W(t))
  <2>1. Len(s) \in Nat /\ Len(t) \in Nat
    BY <1>3
  <2>2. IsFlat(s, Len(s), W(s)) /\ IsFlat(t, Len(t), W(t))
    BY <1>2, <2>1
  <2> QED BY <1>3, <2>2
<1>5. FlattenSeq(t) = W(t)[n + 1]
  <2>1. Len(t) # 0
    BY <1>3
  <2> QED BY <1>1, <1>3, <2>1
<1>6. n # 0 => FlattenSeq(s) = W(s)[n]
  BY <1>1
<1>7. n = 0 => FlattenSeq(s) = <<>>
  BY DEF FlattenSeq
<1> HIDE DEF W, t
<1>8. CASE n = 0
  <2>1. W(t)[n + 1] = t[n + 1]
    BY <1>4, <1>8 DEF IsFlat
  <2> QED BY <1>3, <1>5, <1>7, <1>8, <2>1, ConcatEmptySeq DEF t
<1>9. CASE n # 0
  <2>1. n + 1 \in 1 .. n + 1 /\ n + 1 # 1 /\ (n + 1) - 1 = n /\ n \in 1 .. n /\ n <= n + 1 /\ n + 1 \in Nat
    BY <1>3, <1>9
  <2> HIDE DEF n
  <2>2. W(t)[n + 1] = W(t)[n] \o t[n + 1]
    BY <1>4, <2>1 DEF IsFlat
  <2>3. W(s)[n] = W(t)[n]
    <3>1. ASSUME NEW a, NEW b, IsFlat(s, n, a), IsFlat(t, n + 1, b) PROVE a[n] = b[n]
      <4> DEFINE m == n + 1
      <4>1. n \in Nat /\ m \in Nat /\ n <= m /\ IsFlat(t, m, b)
        BY <1>3, <2>1, <3>1
      <4>2. SameUpTo(n, s, t)
        BY <1>3 DEF SameUpTo
      <4> HIDE DEF m
      <4>3. SameUpTo(n, a, b)
        BY <3>1, <4>1, <4>2, FlatAgree
      <4> QED BY <2>1, <4>3 DEF SameUpTo
    <3> QED BY <1>4, <3>1
  <2> QED BY <1>3, <1>5, <1>6, <1>9, <2>2, <2>3 DEF t
<1> QED BY <1>8, <1>9

\* Flattening gives a sequence of the same elements ...
LEMMA FlatType ==
  ASSUME NEW S, NEW s \in Seq(Seq(S)) PROVE FlattenSeq(s) \in Seq(S)
<1> DEFINE T == {n \in Nat : \A q \in Seq(Seq(S)) : Len(q) = n => FlattenSeq(q) \in Seq(S)}
<1>1. 0 \in T
  BY DEF FlattenSeq
<1>2. ASSUME NEW n \in Nat, n \in T PROVE n + 1 \in T
  <2> SUFFICES ASSUME NEW q \in Seq(Seq(S)), Len(q) = n + 1 PROVE FlattenSeq(q) \in Seq(S)
    OBVIOUS
  <2>1. PICK t \in Seq(Seq(S)), x \in Seq(S) : q = Append(t, x)
    <3>1. q # <<>>
      OBVIOUS
    <3> QED BY <3>1, SequenceEmptyOrAppend
  <2>2. Len(t) = n
    <3>1. Len(q) = Len(t) + 1 /\ Len(t) \in Nat
      BY <2>1, AppendProperties
    <3> QED BY <3>1
  <2>3. FlattenSeq(q) = FlattenSeq(t) \o x /\ FlattenSeq(t) \in Seq(S)
    BY <1>2, <2>1, <2>2, FlatAppend
  <2> QED BY <2>3, ConcatProperties
<1>3. \A n \in Nat : n \in T
  <2> HIDE DEF T
  <2> QED BY <1>1, <1>2, Upward
<1>4. Len(s) \in Nat
  OBVIOUS
<1> QED BY <1>3, <1>4

\* (\o as an operator of no theory: its law is all the next proof needs.)
Cat(p, q) == p \o q

LEMMA CatAssociative ==
  ASSUME NEW S, NEW p \in Seq(S), NEW q \in Seq(S), NEW z \in Seq(S)
  PROVE  Cat(Cat(p, q), z) = Cat(p, Cat(q, z))
BY ConcatAssociative, SMTT(30) DEF Cat

\* ... and can be done in two halves.
LEMMA FlatOneMore ==
  ASSUME NEW S, NEW s \in Seq(Seq(S)), NEW u \in Seq(Seq(S)), NEW x \in Seq(S),
         FlattenSeq(s \o u) = FlattenSeq(s) \o FlattenSeq(u)
  PROVE  FlattenSeq(s \o Append(u, x)) = FlattenSeq(s) \o FlattenSeq(Append(u, x))
<1>1. FlattenSeq(Append(u, x)) = FlattenSeq(u) \o x
  BY FlatAppend
<1>2. s \o Append(u, x) = Append(s \o u, x)
  BY Queued, SMTT(30)
<1>3. s \o u \in Seq(Seq(S))
  BY ConcatProperties
<1>4. FlattenSeq(Append(s \o u, x)) = FlattenSeq(s \o u) \o x
  BY <1>3, FlatAppend
<1>5. FlattenSeq(s) \in Seq(S) /\ FlattenSeq(u) \in Seq(S)
  BY FlatType
<1>6. Cat(Cat(FlattenSeq(s), FlattenSeq(u)), x) = Cat(FlattenSeq(s), Cat(FlattenSeq(u), x))
  BY <1>5, CatAssociative
<1>7. (FlattenSeq(s) \o FlattenSeq(u)) \o x = FlattenSeq(s) \o (FlattenSeq(u) \o x)
  BY <1>6, Zenon DEF Cat
<1> QED BY <1>1, <1>2, <1>4, <1>7

LEMMA FlatConcat ==
  ASSUME NEW S, NEW s \in Seq(Seq(S)), NEW t \in Seq(Seq(S))
  PROVE  FlattenSeq(s \o t) = FlattenSeq(s) \o FlattenSeq(t)
<1> DEFINE T == {n \in Nat : \A q \in Seq(Seq(S)) :
                   Len(q) = n => FlattenSeq(s \o q) = FlattenSeq(s) \o FlattenSeq(q)}
<1>0. FlattenSeq(s) \in Seq(S)
  BY FlatType
<1>1. 0 \in T
  <2> SUFFICES ASSUME NEW q \in Seq(Seq(S)), Len(q) = 0
               PROVE  FlattenSeq(s \o q) = FlattenSeq(s) \o FlattenSeq(q)
    OBVIOUS
  <2>1. q = <<>> /\ FlattenSeq(q) = <<>>
    BY DEF FlattenSeq
  <2>2. s \o q = s
    BY <2>1, ConcatEmptySeq
  <2>3. FlattenSeq(s) \o <<>> = FlattenSeq(s)
    BY <1>0, ConcatEmptySeq
  <2> QED BY <2>1, <2>2, <2>3
<1>2. ASSUME NEW n \in Nat, n \in T PROVE n + 1 \in T
  <2> SUFFICES ASSUME NEW q \in Seq(Seq(S)), Len(q) = n + 1
               PROVE  FlattenSeq(s \o q) = FlattenSeq(s) \o FlattenSeq(q)
    OBVIOUS
  <2>1. PICK u \in Seq(Seq(S)), x \in Seq(S) : q = Append(u, x)
    <3>1. q # <<>>
      OBVIOUS
    <3> QED BY <3>1, SequenceEmptyOrAppend
  <2>2. Len(u) = n
    <3>1. Len(q) = Len(u) + 1 /\ Len(u) \in Nat
      BY <2>1, AppendProperties
    <3> QED BY <3>1
  <2>3. FlattenSeq(s \o u) = FlattenSeq(s) \o FlattenSeq(u)
    BY <1>2, <2>2
  <2> QED BY <2>1, <2>3, FlatOneMore
<1>3. \A n \in Nat : n \in T
  <2> HIDE DEF T
  <2> QED BY <1>1, <1>2, Upward
<1>4. Len(t) \in Nat
  OBVIOUS
<1> QED BY <1>3, <1>4

\* What console_putc sends for a text, character by character ...
Coded(text) == [i \in 1 .. Len(text) |-> Bytes(text[i])]

LEMMA CodedType ==
  ASSUME NEW text \in Seq(Chars) PROVE Coded(text) \in Seq(Seq(Chars)) /\ Encode(text) \in Seq(Chars)
<1>1. \A c \in Chars : Bytes(c) \in Seq(Chars)
  BY DEF Bytes
<1>2. Len(text) \in Nat /\ \A i \in 1 .. Len(text) : text[i] \in Chars
  BY ElementOfSeq
<1>3. Coded(text) \in Seq(Seq(Chars))
  BY <1>1, <1>2, IsASeq DEF Coded
<1>4. Encode(text) = FlattenSeq(Coded(text))
  BY DEF Encode, Coded
<1> QED BY <1>3, <1>4, FlatType

\* ... is sent piece by piece as well.
LEMMA EncodeConcat ==
  ASSUME NEW u \in Seq(Chars), NEW v \in Seq(Chars)
  PROVE  Encode(u \o v) = Encode(u) \o Encode(v)
<1> DEFINE a == Coded(u)
           b == Coded(v)
           c == Coded(u \o v)
           m == Len(u)
           n == Len(v)
<1>1. a \in Seq(Seq(Chars)) /\ b \in Seq(Seq(Chars))
  BY CodedType
<1>2. /\ u \o v \in Seq(Chars) /\ Len(u \o v) = m + n
      /\ \A i \in 1 .. m + n : (u \o v)[i] = IF i <= m THEN u[i] ELSE v[i - m]
  BY ConcatProperties
<1>3. c \in Seq(Seq(Chars))
  BY <1>2, CodedType
<1>4. m \in Nat /\ n \in Nat
  OBVIOUS
<1>5. /\ Len(a) = m /\ Len(b) = n /\ Len(c) = m + n
      /\ \A i \in 1 .. m : a[i] = Bytes(u[i])
      /\ \A i \in 1 .. n : b[i] = Bytes(v[i])
      /\ \A i \in 1 .. m + n : c[i] = Bytes((u \o v)[i])
  <2> HIDE DEF m, n
  <2>1. a = [i \in 1 .. m |-> Bytes(u[i])] /\ b = [i \in 1 .. n |-> Bytes(v[i])]
        /\ c = [i \in 1 .. m + n |-> Bytes((u \o v)[i])]
    BY <1>2 DEF Coded, m, n
  <2>2. m + n \in Nat
    BY <1>4
  <2> HIDE DEF a, b, c
  <2>3. Len(a) = m /\ \A i \in 1 .. m : a[i] = Bytes(u[i])
    BY <1>4, <2>1
  <2>4. Len(b) = n /\ \A i \in 1 .. n : b[i] = Bytes(v[i])
    BY <1>4, <2>1
  <2>5. Len(c) = m + n /\ \A i \in 1 .. m + n : c[i] = Bytes((u \o v)[i])
    <3>1. ASSUME NEW w, NEW k \in Nat, c = [i \in 1 .. k |-> Bytes(w[i])]
          PROVE  Len(c) = k /\ \A i \in 1 .. k : c[i] = Bytes(w[i])
      BY <3>1
    <3> QED BY <2>1, <2>2, <3>1
  <2> QED BY <2>3, <2>4, <2>5
<1> HIDE DEF a, b, c, m, n
<1>6. /\ a \o b \in Seq(Seq(Chars)) /\ Len(a \o b) = m + n
      /\ \A i \in 1 .. m + n : (a \o b)[i] = IF i <= m THEN a[i] ELSE b[i - m]
  BY <1>1, <1>5, ConcatProperties
<1>7. ASSUME NEW i \in 1 .. m + n PROVE c[i] = (a \o b)[i]
  <2>1. CASE i <= m
    <3>1. i \in 1 .. m
      BY <1>4, <2>1
    <3>2. (u \o v)[i] = u[i]
      BY <1>2, <2>1
    <3>3. (a \o b)[i] = a[i]
      BY <1>6, <2>1
    <3>4. c[i] = Bytes((u \o v)[i])
      BY <1>5
    <3>5. a[i] = Bytes(u[i])
      BY <1>5, <3>1
    <3> QED BY <3>2, <3>3, <3>4, <3>5
  <2>2. CASE ~(i <= m)
    <3>1. i - m \in 1 .. n
      BY <1>4, <2>2
    <3>2. (u \o v)[i] = v[i - m]
      BY <1>2, <2>2
    <3>3. (a \o b)[i] = b[i - m]
      BY <1>6, <2>2
    <3>4. c[i] = Bytes((u \o v)[i])
      BY <1>5
    <3>5. b[i - m] = Bytes(v[i - m])
      BY <1>5, <3>1
    <3> QED BY <3>2, <3>3, <3>4, <3>5
  <2> QED BY <2>1, <2>2
<1>8. c = a \o b
  BY <1>3, <1>5, <1>6, <1>7, SeqEqual
<1>9. FlattenSeq(c) = FlattenSeq(a) \o FlattenSeq(b)
  BY <1>1, <1>8, FlatConcat
<1> QED BY <1>9 DEF Encode, Coded, a, b, c

\* The next character of console_write.
LEMMA EncodeHead ==
  ASSUME NEW text \in Seq(Chars), text # <<>>
  PROVE  Encode(text) = Bytes(Head(text)) \o Encode(Tail(text))
<1> DEFINE h == Head(text)
           one == <<h>>
<1>1. h \in Chars /\ Tail(text) \in Seq(Chars) /\ one \in Seq(Chars)
  BY HeadTailProperties
<1>2. text = one \o Tail(text)
  <2>1. Append(<<>>, h) \o Tail(text) = <<>> \o text
    BY Sent
  <2>2. Append(<<>>, h) = one /\ <<>> \o text = text
    BY ConcatEmptySeq
  <2> QED BY <2>1, <2>2
<1>3. Encode(one) = Bytes(h)
  <2>1. Bytes(h) \in Seq(Chars)
    BY <1>1 DEF Bytes
  <2>2. Len(one) = 1 /\ one[1] = h
    OBVIOUS
  <2> HIDE DEF one
  <2>3. Coded(one) = Append(<<>>, Bytes(h))
    <3>1. Coded(one) = [i \in 1 .. 1 |-> Bytes(h)]
      BY <2>2 DEF Coded
    <3> QED BY <3>1
  <2>4. FlattenSeq(Append(<<>>, Bytes(h))) = FlattenSeq(<<>>) \o Bytes(h)
    <3>1. <<>> \in Seq(Seq(Chars))
      OBVIOUS
    <3> QED BY <2>1, <3>1, FlatAppend
  <2>5. FlattenSeq(<<>>) = <<>>
    BY DEF FlattenSeq
  <2> QED BY <2>1, <2>3, <2>4, <2>5, ConcatEmptySeq DEF Encode, Coded
<1> HIDE DEF one, h
<1>4. Encode(one \o Tail(text)) = Encode(one) \o Encode(Tail(text))
  BY <1>1, EncodeConcat
<1> QED BY <1>2, <1>3, <1>4 DEF h

\* The bytes of one party in a sequence of bytes.
Part(x, w) == IF x.by = w THEN <<x.ch>> ELSE <<>>
Parts(out, w) == [i \in 1 .. Len(out) |-> Part(out[i], w)]
Mine(out, w) == FlattenSeq(Parts(out, w))

LEMMA OfIsMine == ASSUME NEW w PROVE FlattenSeq(Of(w)) = Mine(Output, w)
BY Zenon DEF Of, Mine, Parts, Part, Output

\* One more byte is one more of its writer and none of the other party.
LEMMA MineAppend ==
  ASSUME NEW out \in Seq(Byte), NEW x \in Byte, NEW w
  PROVE  /\ Mine(out, w) \in Seq(Chars)
         /\ Mine(Append(out, x), w) = Mine(out, w) \o Part(x, w)
<1> DEFINE n == Len(out)
           t == Append(out, x)
           p == Parts(out, w)
<1>1. \A y \in Byte : Part(y, w) \in Seq(Chars)
  <2> TAKE y \in Byte
  <2>1. y.ch \in Chars
    BY DEF Byte
  <2> QED BY <2>1 DEF Part
<1>2. n \in Nat /\ (\A i \in 1 .. n : out[i] \in Byte)
  BY ElementOfSeq
<1>3. t \in Seq(Byte) /\ Len(t) = n + 1 /\ (\A i \in 1 .. n : t[i] = out[i]) /\ t[n + 1] = x
  BY AppendProperties
<1> HIDE DEF t
<1>4. p \in Seq(Seq(Chars)) /\ Len(p) = n /\ \A i \in 1 .. n : p[i] = Part(out[i], w)
  <2>1. p = [i \in 1 .. n |-> Part(out[i], w)]
    BY DEF Parts
  <2>2. p \in Seq(Seq(Chars))
    BY <1>1, <1>2, <2>1, IsASeq
  <2> HIDE DEF n, p
  <2> QED BY <1>2, <2>1, <2>2
<1> HIDE DEF n, p
<1>5. Parts(t, w) = Append(p, Part(x, w))
  <2> DEFINE a == Append(p, Part(x, w))
  <2>1. /\ a \in Seq(Seq(Chars)) /\ Len(a) = n + 1
        /\ \A i \in 1 .. n : a[i] = p[i]
        /\ a[n + 1] = Part(x, w)
    BY <1>1, <1>4, AppendProperties
  <2> HIDE DEF a
  <2>2. a = [i \in 1 .. n + 1 |-> a[i]]
    BY <2>1
  <2>3. ASSUME NEW i \in 1 .. n + 1 PROVE a[i] = Part(t[i], w)
    <3>1. i \in 1 .. n \/ i = n + 1
      BY <1>2
    <3> QED BY <1>3, <1>4, <2>1, <3>1
  <2>4. Parts(t, w) = [i \in 1 .. n + 1 |-> Part(t[i], w)]
    BY <1>3 DEF Parts
  <2>5. Parts(t, w) = [i \in 1 .. n + 1 |-> a[i]]
    BY <2>3, <2>4
  <2> QED BY <2>2, <2>5 DEF a
<1>6. FlattenSeq(Append(p, Part(x, w))) = FlattenSeq(p) \o Part(x, w) /\ FlattenSeq(p) \in Seq(Chars)
  BY <1>1, <1>4, FlatAppend, FlatType
<1>7. FlattenSeq(p) = Mine(out, w)
  BY DEF Mine, p
<1> QED BY <1>5, <1>6, <1>7 DEF Mine, t

\* The text of n runs of the handler.
Runs(n) == FlattenSeq([i \in 1 .. n |-> IrqText])

LEMMA OneMoreRun ==
  ASSUME NEW n \in Nat PROVE Runs(n) \in Seq(Chars) /\ Runs(n + 1) = Runs(n) \o IrqText
<1> DEFINE p == [i \in 1 .. n |-> IrqText]
           q == [i \in 1 .. n + 1 |-> IrqText]
           a == Append(p, IrqText)
<1>0. IrqText \in Seq(Chars)
  OBVIOUS
<1>1. p \in Seq(Seq(Chars))
  BY <1>0, IsASeq
<1>2. Len(p) = n /\ \A i \in 1 .. n : p[i] = IrqText
  OBVIOUS
<1> HIDE DEF p
<1>3. /\ a \in Seq(Seq(Chars)) /\ Len(a) = n + 1
      /\ \A i \in 1 .. n : a[i] = p[i]
      /\ a[n + 1] = IrqText
  BY <1>0, <1>1, <1>2, AppendProperties
<1> HIDE DEF a
<1>4. \A i \in 1 .. n + 1 : a[i] = IrqText
  <2> TAKE i \in 1 .. n + 1
  <2>1. i \in 1 .. n \/ i = n + 1
    OBVIOUS
  <2> QED BY <1>2, <1>3, <2>1
<1>5. a = [i \in 1 .. n + 1 |-> a[i]]
  BY <1>3
<1>6. a = q
  BY <1>4, <1>5
<1>7. FlattenSeq(Append(p, IrqText)) = FlattenSeq(p) \o IrqText /\ FlattenSeq(p) \in Seq(Chars)
  BY <1>0, <1>1, FlatAppend, FlatType
<1> QED BY <1>6, <1>7 DEF Runs, p, a

\* The equation of one party.
Balanced(w) == Cat(Cat(Mine(Output, w), hand[w]), Encode(todo[w])) = Encode(Written(w))

\* TextPreserved made inductive, party by party: a handler that is not running has nothing to write.
TextInv ==
  /\ \A w \in Writers : Balanced(w)
  /\ ~inIrq => todo["irq"] = <<>> /\ hand["irq"] = <<>>

LEMMA TextIsBalanced == TextPreserved <=> \A w \in Writers : Balanced(w)
<1>1. ASSUME NEW w
      PROVE  (FlattenSeq(Of(w)) \o hand[w] \o Encode(todo[w]) = Encode(Written(w))) <=> Balanced(w)
  BY OfIsMine, Zenon DEF Balanced, Cat
<1> QED BY <1>1, Zenon DEF TextPreserved

\* What is read of a state: the output, the texts and the number of runs.
LEMMA PartyTypes ==
  ASSUME Inv, NEW w \in Writers
  PROVE  /\ wire \in Seq(Byte) /\ fifo \in Seq(Byte) /\ Output \in Seq(Byte)
         /\ Mine(Output, w) \in Seq(Chars) /\ hand[w] \in Seq(Chars) /\ todo[w] \in Seq(Chars)
         /\ Encode(todo[w]) \in Seq(Chars) /\ DOMAIN hand = Writers /\ DOMAIN todo = Writers
         /\ irqs \in Nat
<1>1. /\ wire \in Seq(Byte) /\ fifo \in Seq(Byte)
      /\ hand[w] \in Seq(Chars) /\ todo[w] \in Seq(Chars) /\ DOMAIN hand = Writers /\ DOMAIN todo = Writers
      /\ irqs \in Nat
  BY DEF Inv, TypeOK, Byte
<1>2. Output \in Seq(Byte)
  BY <1>1, ConcatProperties DEF Output
<1>3. \E x : x \in Byte
  <2>1. [by |-> "irq", ch |-> NL] \in Byte
    BY DEF Byte, Writers
  <2> QED BY <2>1
<1>4. Mine(Output, w) \in Seq(Chars)
  BY <1>2, <1>3, MineAppend
<1> QED BY <1>1, <1>2, <1>4, CodedType

\* A step that leaves the output and the texts of a party alone.
LEMMA BalancedKept ==
  ASSUME NEW w \in Writers, Balanced(w), Output' = Output, irqs' = irqs \/ w = "main",
         hand'[w] = hand[w], todo'[w] = todo[w]
  PROVE  Balanced(w)'
<1>1. Written(w)' = Written(w)
  BY DEF Written
<1> QED BY <1>1 DEF Balanced

\* \o with nothing.
LEMMA CatEmpty ==
  ASSUME NEW S, NEW s \in Seq(S) PROVE Cat(s, <<>>) = s /\ Cat(<<>>, s) = s
BY ConcatEmptySeq DEF Cat

\* console_putc: the next character is coded.
LEMMA TextPutc ==
  ASSUME Inv, TextInv, NEW w \in Writers, console_putc(w) PROVE TextInv'
<1>1. /\ UNCHANGED <<wire, fifo, inIrq, irqs>> /\ inIrq = (w = "irq")
      /\ hand[w] = <<>> /\ todo[w] # <<>>
      /\ hand' = [hand EXCEPT ![w] = Bytes(Head(todo[w]))]
      /\ todo' = [todo EXCEPT ![w] = Tail(todo[w])]
  BY DEF console_putc, uart, Executes
<1>2. Output' = Output
  BY <1>1 DEF Output
<1>3. \A v \in Writers : Balanced(v)
  BY DEF TextInv
<1>4. ASSUME NEW v \in Writers, v # w PROVE Balanced(v)' /\ hand'[v] = hand[v] /\ todo'[v] = todo[v]
  <2>1. hand'[v] = hand[v] /\ todo'[v] = todo[v]
    BY <1>1, <1>4, PartyTypes
  <2> QED BY <1>1, <1>2, <1>3, <2>1, BalancedKept
<1>5. Balanced(w)'
  <2> DEFINE m == Mine(Output, w)
             b == Bytes(Head(todo[w]))
             e == Encode(Tail(todo[w]))
  <2>1. m \in Seq(Chars) /\ todo[w] \in Seq(Chars)
    BY PartyTypes
  <2>2. Head(todo[w]) \in Chars /\ Tail(todo[w]) \in Seq(Chars)
    BY <1>1, <2>1, HeadTailProperties
  <2>3. b \in Seq(Chars) /\ e \in Seq(Chars)
    <3>1. \A c \in Chars : Bytes(c) \in Seq(Chars)
      BY DEF Bytes
    <3> QED BY <2>2, <3>1, CodedType
  <2>4. Encode(todo[w]) = Cat(b, e)
    BY <1>1, <2>1, EncodeHead, Zenon DEF Cat
  <2>5. hand'[w] = b /\ todo'[w] = Tail(todo[w]) /\ Written(w)' = Written(w)
    BY <1>1, PartyTypes DEF Written
  <2>6. Cat(Cat(m, <<>>), Cat(b, e)) = Encode(Written(w))
    BY <1>1, <1>3, <2>4 DEF Balanced
  <2> HIDE DEF m, b, e
  <2>7. Cat(m, <<>>) = m /\ Cat(m, Cat(b, e)) = Cat(Cat(m, b), e)
    BY <2>1, <2>3, CatEmpty, CatAssociative
  <2>8. Cat(Cat(m, b), e) = Encode(Written(w))
    BY <2>6, <2>7
  <2> QED BY <1>2, <2>5, <2>8 DEF Balanced, m, e
<1>6. \A v \in Writers : Balanced(v)'
  BY <1>4, <1>5
<1>8. ~inIrq' => todo'["irq"] = <<>> /\ hand'["irq"] = <<>>
  BY <1>1, <1>4 DEF TextInv, Writers
<1> QED BY <1>6, <1>8 DEF TextInv

\* uart_write_byte: the next byte goes from the hand of its writer to the output.
LEMMA TextWrite ==
  ASSUME Inv, TextInv, NEW w \in Writers, uart_write_byte(w) PROVE TextInv'
<1> DEFINE h == Head(hand[w])
           byte == [by |-> w, ch |-> h]
<1>1. /\ UNCHANGED <<wire, todo, inIrq, irqs>> /\ inIrq = (w = "irq")
      /\ hand[w] \in Seq(Chars) /\ hand[w] # <<>> /\ hand' = [hand EXCEPT ![w] = Tail(hand[w])]
      /\ byte \in Byte /\ fifo' = Append(fifo, byte)
  BY WriteIs
<1>2. byte.by = w /\ byte.ch = h
  OBVIOUS
<1> HIDE DEF byte
<1>3. wire \in Seq(Byte) /\ fifo \in Seq(Byte) /\ Output \in Seq(Byte)
  BY PartyTypes
<1>4. Output' = Append(Output, byte)
  BY <1>1, <1>3, Queued, SMTT(30) DEF Output
<1>5. \A v \in Writers : Balanced(v)
  BY DEF TextInv
<1>6. \A v \in Writers : /\ Mine(Output, v) \in Seq(Chars)
                         /\ Mine(Append(Output, byte), v) = Cat(Mine(Output, v), Part(byte, v))
  BY <1>1, <1>3, MineAppend DEF Cat
<1>7. ASSUME NEW v \in Writers, v # w PROVE Balanced(v)' /\ hand'[v] = hand[v]
  <2>1. hand'[v] = hand[v] /\ todo'[v] = todo[v] /\ Written(v)' = Written(v)
    BY <1>1, <1>7, PartyTypes DEF Written
  <2>2. Part(byte, v) = <<>>
    BY <1>2, <1>7 DEF Part
  <2>3. Mine(Output', v) = Mine(Output, v)
    BY <1>4, <1>6, <2>2, CatEmpty
  <2> QED BY <1>5, <2>1, <2>3 DEF Balanced
<1>8. Balanced(w)'
  <2> DEFINE m == Mine(Output, w)
             one == <<h>>
             rest == Tail(hand[w])
  <2>1. m \in Seq(Chars)
    BY <1>6
  <2>2. h \in Chars /\ rest \in Seq(Chars) /\ one \in Seq(Chars)
    BY <1>1, HeadTailProperties
  <2>3. hand[w] = Cat(one, rest)
    <3>1. Append(<<>>, Head(hand[w])) \o Tail(hand[w]) = <<>> \o hand[w]
      BY <1>1, Sent
    <3>2. Append(<<>>, Head(hand[w])) = one /\ <<>> \o hand[w] = hand[w]
      BY <1>1, ConcatEmptySeq
    <3> QED BY <3>1, <3>2 DEF Cat
  <2>4. Part(byte, w) = one
    BY <1>2 DEF Part
  <2>5. hand'[w] = rest /\ todo'[w] = todo[w] /\ Written(w)' = Written(w)
    BY <1>1, PartyTypes DEF Written
  <2> HIDE DEF one, rest, m
  <2>6. Mine(Output', w) = Cat(m, one)
    BY <1>4, <1>6, <2>4 DEF m
  <2>7. Cat(Cat(m, one), rest) = Cat(m, hand[w])
    BY <2>1, <2>2, <2>3, CatAssociative
  <2>8. Cat(Cat(m, hand[w]), Encode(todo[w])) = Encode(Written(w))
    BY <1>5 DEF Balanced, m
  <2> QED BY <2>5, <2>6, <2>7, <2>8 DEF Balanced
<1>9. \A v \in Writers : Balanced(v)'
  BY <1>7, <1>8
<1>11. ~inIrq' => todo'["irq"] = <<>> /\ hand'["irq"] = <<>>
  BY <1>1, <1>7 DEF TextInv, Writers
<1> QED BY <1>9, <1>11 DEF TextInv

\* The interrupt gives the handler one more text to write.
LEMMA TextInterrupt ==
  ASSUME Inv, TextInv, Interrupt PROVE TextInv'
<1>1. /\ UNCHANGED <<wire, fifo, hand>> /\ ~inIrq /\ inIrq' = TRUE /\ irqs' = irqs + 1
      /\ todo' = [todo EXCEPT !["irq"] = IrqText]
      /\ todo["irq"] = <<>> /\ hand["irq"] = <<>>
  BY DEF Interrupt, uart, TextInv
<1>2. Output' = Output
  BY <1>1 DEF Output
<1>3. "irq" \in Writers /\ "main" \in Writers
  BY DEF Writers
<1>4. \A v \in Writers : Balanced(v)
  BY DEF TextInv
<1>5. todo'["main"] = todo["main"] /\ todo'["irq"] = IrqText
  BY <1>1, <1>3, PartyTypes
<1>6. Balanced("main")'
  BY <1>1, <1>2, <1>3, <1>4, <1>5, BalancedKept
<1>7. Balanced("irq")'
  <2> DEFINE m == Mine(Output, "irq")
             e == Encode(IrqText)
             t == Runs(irqs)
  <2>1. m \in Seq(Chars) /\ irqs \in Nat
    BY <1>3, PartyTypes
  <2>2. e \in Seq(Chars) /\ t \in Seq(Chars) /\ Runs(irqs + 1) = t \o IrqText
    BY <2>1, CodedType, OneMoreRun
  <2>3. Written("irq") = t /\ Written("irq")' = Runs(irqs + 1)
    BY <1>1 DEF Written, Runs
  <2>4. Encode(<<>>) = <<>>
    BY DEF Encode, FlattenSeq
  <2>5. Cat(Cat(m, <<>>), <<>>) = Encode(t)
    BY <1>1, <1>3, <1>4, <2>3, <2>4 DEF Balanced
  <2> HIDE DEF m, t, e
  <2>6. m = Encode(t) /\ Cat(m, <<>>) = m
    BY <2>1, <2>5, CatEmpty
  <2>7. Encode(t \o IrqText) = Cat(Encode(t), e)
    BY <2>2, EncodeConcat DEF Cat, e
  <2>8. Cat(Cat(m, <<>>), e) = Encode(Runs(irqs + 1))
    BY <2>2, <2>6, <2>7
  <2> QED BY <1>1, <1>2, <1>5, <2>3, <2>8 DEF Balanced, m, e
<1>8. \A v \in Writers : Balanced(v)'
  BY <1>6, <1>7 DEF Writers
<1> QED BY <1>1, <1>8 DEF TextInv

\* Every step keeps the texts.
LEMMA TextStep == Inv /\ TextInv /\ [Next]_vars => TextInv'
<1> SUFFICES ASSUME Inv, TextInv, [Next]_vars PROVE TextInv'
  OBVIOUS
<1>1. ASSUME Output' = Output, UNCHANGED <<todo, hand, irqs>>,
             ~inIrq' => todo["irq"] = <<>> /\ hand["irq"] = <<>>
      PROVE  TextInv'
  <2>1. \A v \in Writers : Balanced(v)
    BY DEF TextInv
  <2>2. \A v \in Writers : Balanced(v)'
    BY <1>1, <2>1, BalancedKept
  <2> QED BY <1>1, <2>2 DEF TextInv
<1>2. CASE uart_init \/ UNCHANGED vars
  <2>1. UNCHANGED <<wire, fifo, todo, hand, irqs, inIrq>>
    BY <1>2 DEF uart_init, vars
  <2> QED BY <1>1, <2>1 DEF Output, TextInv
<1>3. ASSUME NEW w \in Writers, Write(w) PROVE TextInv'
  <2>1. CASE TxEmpty(w)
    <3>1. UNCHANGED <<wire, fifo, todo, hand, irqs, inIrq>>
      BY <2>1 DEF TxEmpty, uart
    <3> QED BY <1>1, <3>1 DEF Output, TextInv
  <2> QED BY <1>3, <2>1, TextPutc, TextWrite DEF Write
<1>4. CASE Transmit
  <2>1. wire \in Seq(Byte) /\ fifo \in Seq(Byte)
    BY DEF Inv, TypeOK, Byte
  <2>2. Output' = Output
    BY <1>4, <2>1, Sent DEF Transmit, Output
  <2>3. UNCHANGED <<todo, hand, inIrq, irqs>>
    BY <1>4 DEF Transmit
  <2> QED BY <1>1, <2>2, <2>3 DEF TextInv
<1>5. CASE Interrupt
  BY <1>5, TextInterrupt
<1>6. CASE InterruptReturn
  <2>1. /\ UNCHANGED <<wire, fifo, hand, todo, irqs>>
        /\ todo["irq"] = <<>> /\ hand["irq"] = <<>>
    BY <1>6 DEF InterruptReturn, uart
  <2> QED BY <1>1, <2>1 DEF Output
<1> QED BY <1>2, <1>3, <1>4, <1>5, <1>6 DEF Next

\* Nothing sent, nothing in hand, everything to do.
LEMMA TextInit == Init => TextInv
<1> SUFFICES ASSUME Init PROVE TextInv
  OBVIOUS
<1>1. /\ wire = <<>> /\ fifo = <<>> /\ irqs = 0
      /\ todo["irq"] = <<>> /\ todo["main"] = MainText /\ \A w \in Writers : hand[w] = <<>>
  BY DEF Init, Writers
<1>2. Output = <<>>
  BY <1>1 DEF Output
<1>3. \A w \in Writers : Mine(Output, w) = <<>>
  <2> TAKE w \in Writers
  <2>1. Parts(<<>>, w) = <<>>
    BY DEF Parts
  <2> QED BY <1>2, <2>1 DEF Mine, FlattenSeq
<1>4. Cat(<<>>, <<>>) = <<>> /\ Encode(<<>>) = <<>>
  BY DEF Cat, Encode, FlattenSeq
<1>5. Written("main") = MainText /\ Written("irq") = <<>>
  BY <1>1 DEF Written, FlattenSeq
<1>6. Cat(<<>>, Encode(MainText)) = Encode(MainText)
  <2>1. MainText \in Seq(Chars)
    OBVIOUS
  <2>2. Encode(MainText) \in Seq(Chars)
    BY <2>1, CodedType
  <2> QED BY <2>2, CatEmpty
<1>7. Balanced("main") /\ Balanced("irq")
  BY <1>1, <1>3, <1>4, <1>5, <1>6 DEF Balanced, Writers
<1>8. \A w \in Writers : Balanced(w)
  BY <1>7 DEF Writers
<1> QED BY <1>1, <1>8, Zenon DEF TextInv, Writers

\* Whatever the interrupts and the FIFO do, the bytes of the boot thread and of the
\* handler reach the UART complete, in order and with \r before every \n
\* (TextPreserved): neither party loses, repeats or reorders the other's.
THEOREM TextsArePreserved == Spec => []TextPreserved
<1>1. TextInv => TextPreserved
  BY TextIsBalanced DEF TextInv
<1> QED BY <1>1, TextInit, TextStep, ConsoleInvariant, PTL DEF Spec
===============================================================================
