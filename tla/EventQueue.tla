------------------------------ MODULE EventQueue ------------------------------
(***************************************************************************)
(* The ring buffer of kernel/input/event_queue.c, filled by                *)
(* drivers/input/mouse.c and drained by kernel/wm/drag.c, all on the boot  *)
(* thread.  res is what the last call returned.                            *)
(***************************************************************************)
EXTENDS Integers, Sequences

CONSTANTS
  Items,          \* the events
  Capacity,       \* INPUT_EVENT_QUEUE_CAPACITY
  Zero,           \* the contents of a slot never written
  Ok, Failed      \* the return values 0 and -1

ASSUME QueueAssumption ==
  Capacity \in Nat \ {0} /\ Zero \notin Items /\ Ok \notin Items /\ Failed \notin Items

VARIABLES events, read_index, write_index, count, res

vars == <<events, read_index, write_index, count, res>>
Slots == 0 .. Capacity - 1

Init ==
  /\ events = [s \in Slots |-> Zero]
  /\ read_index = 0 /\ write_index = 0 /\ count = 0 /\ res = Ok

Advanced(index) == IF index + 1 >= Capacity THEN 0 ELSE index + 1

\* The slots are not cleared.
input_event_queue_reset ==
  /\ read_index' = 0 /\ write_index' = 0 /\ count' = 0 /\ res' = Ok
  /\ UNCHANGED events

input_event_queue_push(event) ==
  \/ /\ count >= Capacity
     /\ res' = Failed /\ UNCHANGED <<events, read_index, write_index, count>>
  \/ /\ count < Capacity
     /\ events' = [events EXCEPT ![write_index] = event]
     /\ write_index' = Advanced(write_index)
     /\ count' = count + 1 /\ res' = Ok
     /\ UNCHANGED read_index

\* Mutant: A pop that returns the event written last.
pop_newest ==
  /\ IF count = 0 THEN res' = Failed /\ UNCHANGED <<read_index, count>>
     ELSE /\ res' = events[(write_index + Capacity - 1) % Capacity]
          /\ read_index' = Advanced(read_index) /\ count' = count - 1
  /\ UNCHANGED <<events, write_index>>

input_event_queue_pop ==
  \/ /\ count = 0
     /\ res' = Failed /\ UNCHANGED <<events, read_index, write_index, count>>
  \/ /\ count > 0
     /\ res' = events[read_index]
     /\ read_index' = Advanced(read_index)
     /\ count' = count - 1
     /\ UNCHANGED <<events, write_index>>

Next ==
  \/ input_event_queue_reset
  \/ \E event \in Items : input_event_queue_push(event)
  \/ input_event_queue_pop

Spec == Init /\ [][Next]_vars

-------------------------------------------------------------------------------
(* Properties *)

\* Every variable has its type.
TypeOK ==
  /\ events \in [Slots -> Items \cup {Zero}]
  /\ read_index \in Slots /\ write_index \in Slots /\ count \in 0 .. Capacity
  /\ res \in Items \cup {Ok, Failed}

\* The slot that is k places after the read index.
SlotAt(k) == IF read_index + k >= Capacity THEN read_index + k - Capacity ELSE read_index + k

\* The three counters agree in every state, the full and the empty queue included
\* (where the two indices coincide), and no slot in use is one never written.
IndicesAgree ==
  /\ write_index = IF count = Capacity THEN read_index ELSE SlotAt(count)
  /\ \A k \in 0 .. count - 1 : events[SlotAt(k)] \in Items

Fifo == INSTANCE BoundedFifo WITH
          q <- [k \in 1 .. count |-> events[SlotAt(k - 1)]]

\* The ring is a bounded first-in first-out queue: wrapping around, filling up and
\* resetting with stale slots never lose, repeat or reorder an event.
ImplementsFifo == Fifo!FifoSpec
===============================================================================
