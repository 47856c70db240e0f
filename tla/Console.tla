------------------------------- MODULE Console --------------------------------
(***************************************************************************)
(* kernel/console.c over drivers/uart/uart.c, written to by two parties:   *)
(* the boot thread and the timer handler that interrupts it, with no lock  *)
(* between them.  uart_write_byte polls LSR.TX_EMPTY and then writes THR:  *)
(* an interrupt may fall between the two and write bytes of its own.  The  *)
(* handler is not interrupted.                                             *)
(*                                                                         *)
(* The UART is the 16550 of the machine (external): THR is a FIFO of       *)
(* FifoDepth bytes once FCR enables it and a single byte otherwise; a      *)
(* write to a full one loses a byte.  A character is a letter or NL.       *)
(***************************************************************************)
EXTENDS Integers, Sequences, SequencesExt

CONSTANTS
  FifoDepth,    \* depth of the transmit FIFO
  MainText,     \* what the boot thread writes with console_write
  IrqText,      \* what one run of the handler writes
  MaxIrqs,      \* bound: how often the handler runs
  Chars,        \* the characters
  NL, CR        \* the characters \n and \r

ASSUME ConsoleAssumption ==
  /\ FifoDepth \in Nat /\ FifoDepth >= 2 /\ MaxIrqs \in Nat
  /\ {NL, CR} \subseteq Chars /\ NL # CR
  /\ MainText \in Seq(Chars) /\ IrqText \in Seq(Chars)

\* The handler writes whole lines.
ASSUME HandlerAssumption == IrqText # <<>> => Last(IrqText) = NL

Writers == {"main", "irq"}

VARIABLES
  depth,        \* capacity of THR: set by uart_init
  fifo, wire,   \* the bytes in THR, the bytes sent, each with its writer
  overrun,      \* a byte was lost
  todo,         \* the characters console_write has still to pass to console_putc
  hand,         \* the bytes console_putc has still to pass to uart_write_byte
  ready,        \* uart_write_byte has seen TX_EMPTY and not yet written
  inIrq, irqs   \* the handler is running; how often it was entered

vars == <<depth, fifo, wire, overrun, todo, hand, ready, inIrq, irqs>>
uart == <<depth, fifo, wire, overrun>>

Init ==
  /\ depth = 0 /\ fifo = <<>> /\ wire = <<>> /\ overrun = FALSE
  /\ todo = [w \in Writers |-> IF w = "main" THEN MainText ELSE <<>>]
  /\ hand = [w \in Writers |-> <<>>] /\ ready = [w \in Writers |-> FALSE]
  /\ inIrq = FALSE /\ irqs = 0

\* Mutant: uart_init that does not enable the FIFO.
uart_init_no_fifo ==
  /\ depth = 0 /\ depth' = 1
  /\ UNCHANGED <<fifo, wire, overrun, todo, hand, ready, inIrq, irqs>>

\* The write of FCR in uart_init; the divisor and line settings are left out.
uart_init ==
  /\ depth = 0 /\ depth' = FifoDepth
  /\ UNCHANGED <<fifo, wire, overrun, todo, hand, ready, inIrq, irqs>>

\* Mutant: A boot thread that goes on while the handler runs.
ExecutesInParallel(w) == depth # 0 /\ (w = "irq" => inIrq)

\* The hart executes w.
Executes(w) == depth # 0 /\ inIrq = (w = "irq")

Bytes(c) == IF c = NL THEN <<CR, NL>> ELSE <<c>>

\* Mutant: console_putc that sends \r after \n.
console_putc_lf_cr(w) ==
  /\ Executes(w) /\ hand[w] = <<>> /\ todo[w] # <<>>
  /\ hand' = [hand EXCEPT ![w] = Reverse(Bytes(Head(todo[w])))]
  /\ todo' = [todo EXCEPT ![w] = Tail(@)]
  /\ UNCHANGED <<uart, ready, inIrq, irqs>>

console_putc(w) ==
  /\ Executes(w) /\ hand[w] = <<>> /\ todo[w] # <<>>
  /\ hand' = [hand EXCEPT ![w] = Bytes(Head(todo[w]))]
  /\ todo' = [todo EXCEPT ![w] = Tail(@)]
  /\ UNCHANGED <<uart, ready, inIrq, irqs>>

\* Mutant: uart_write_byte that polls for the wrong level.
TxBusy(w) ==
  /\ Executes(w) /\ hand[w] # <<>> /\ ~ready[w] /\ fifo # <<>>
  /\ ready' = [ready EXCEPT ![w] = TRUE]
  /\ UNCHANGED <<uart, todo, hand, inIrq, irqs>>

\* The loop of uart_write_byte ends when it reads TX_EMPTY.
TxEmpty(w) ==
  /\ Executes(w) /\ hand[w] # <<>> /\ ~ready[w] /\ fifo = <<>>
  /\ ready' = [ready EXCEPT ![w] = TRUE]
  /\ UNCHANGED <<uart, todo, hand, inIrq, irqs>>

uart_write_byte(w) ==
  /\ Executes(w) /\ ready[w] /\ hand[w] # <<>>
  /\ ready' = [ready EXCEPT ![w] = FALSE]
  /\ hand' = [hand EXCEPT ![w] = Tail(@)]
  /\ IF Len(fifo) < depth
       THEN fifo' = Append(fifo, [by |-> w, ch |-> Head(hand[w])]) /\ UNCHANGED overrun
       ELSE overrun' = TRUE /\ UNCHANGED fifo
  /\ UNCHANGED <<depth, wire, todo, inIrq, irqs>>

\* The UART shifts a byte out.
Transmit ==
  /\ fifo # <<>>
  /\ wire' = Append(wire, Head(fifo)) /\ fifo' = Tail(fifo)
  /\ UNCHANGED <<depth, overrun, todo, hand, ready, inIrq, irqs>>

Interrupt ==
  /\ depth # 0 /\ ~inIrq /\ irqs < MaxIrqs
  /\ inIrq' = TRUE /\ irqs' = irqs + 1
  /\ todo' = [todo EXCEPT !["irq"] = IrqText]
  /\ UNCHANGED <<uart, hand, ready>>

InterruptReturn ==
  /\ inIrq /\ todo["irq"] = <<>> /\ hand["irq"] = <<>>
  /\ inIrq' = FALSE
  /\ UNCHANGED <<uart, todo, hand, ready, irqs>>

Write(w) == console_putc(w) \/ TxEmpty(w) \/ uart_write_byte(w)

Next ==
  \/ uart_init
  \/ \E w \in Writers : Write(w)
  \/ Transmit \/ Interrupt \/ InterruptReturn

Spec == Init /\ [][Next]_vars

\* The hart executes and the UART sends; no interrupt is ever owed.
FairSpec ==
  /\ Spec /\ WF_vars(uart_init) /\ WF_vars(Transmit) /\ WF_vars(InterruptReturn)
  /\ \A w \in Writers : WF_vars(Write(w))

-------------------------------------------------------------------------------
(* Properties *)

\* Every variable has its type.
TypeOK ==
  /\ depth \in {0, FifoDepth} /\ overrun \in BOOLEAN
  /\ fifo \in Seq([by : Writers, ch : Chars])
  /\ wire \in Seq([by : Writers, ch : Chars])
  /\ todo \in [Writers -> Seq(Chars)] /\ hand \in [Writers -> Seq(Chars)]
  /\ ready \in [Writers -> BOOLEAN] /\ inIrq \in BOOLEAN /\ irqs \in Nat

\* No byte is written to a full THR, although the test of TX_EMPTY may be stale
\* when the byte is written.
NoOverrun == ~overrun

Encode(text) == FlattenSeq([i \in 1 .. Len(text) |-> Bytes(text[i])])
Of(w) == [i \in 1 .. Len(wire \o fifo) |->
            LET out == (wire \o fifo)[i] IN IF out.by = w THEN <<out.ch>> ELSE <<>>]
Written(w) == IF w = "main" THEN MainText ELSE FlattenSeq([i \in 1 .. irqs |-> IrqText])

\* The bytes sent, queued and still to write of each party are its text, with \r
\* before every \n: none is lost, duplicated or reordered by the other party.
TextPreserved ==
  \A w \in Writers : FlattenSeq(Of(w)) \o hand[w] \o Encode(todo[w]) = Encode(Written(w))

\* Bytes i and j of the output belong to one line of the handler: it ends no line
\* from i to j - 1.
SameLine(i, j) ==
  /\ i < j /\ wire[i].by = "irq" /\ wire[j].by = "irq"
  /\ \A k \in i .. j - 1 : wire[k].by = "irq" => wire[k].ch # NL

\* A line written by the handler, as "TICK: periodic interrupt", is never split.
HandlerLinesWhole ==
  \A i, j \in 1 .. Len(wire) : SameLine(i, j) => \A k \in i .. j : wire[k].by = "irq"

\* Everything written reaches the wire: no poll of TX_EMPTY spins forever.
EverythingSent ==
  <>(todo["main"] = <<>> /\ hand["main"] = <<>> /\ fifo = <<>> /\ ~inIrq)
===============================================================================
