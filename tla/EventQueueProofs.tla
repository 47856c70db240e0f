--------------------------- MODULE EventQueueProofs ---------------------------
(***************************************************************************)
(* The ring of EventQueue implements the bounded queue of BoundedFifo, for *)
(* every capacity and every set of events.                                 *)
(***************************************************************************)
EXTENDS EventQueue, SequenceTheorems, TLAPS

USE QueueAssumption

Inv == TypeOK /\ IndicesAgree

\* The queue the ring stands for.
Q == [k \in 1 .. count |-> events[SlotAt(k - 1)]]

\* The slots of a queue are in range, and different positions use different slots.
LEMMA SlotFacts ==
  ASSUME TypeOK
  PROVE  /\ \A k \in 0 .. Capacity - 1 : SlotAt(k) \in Slots
         /\ \A j, k \in 0 .. Capacity - 1 : SlotAt(j) = SlotAt(k) => j = k
         /\ SlotAt(0) = read_index
BY DEF TypeOK, SlotAt, Slots

\* The contents of the ring are a sequence of as many events as are counted.
LEMMA QueueIsSeq ==
  ASSUME Inv
  PROVE  Q \in Seq(Items) /\ Len(Q) = count /\ DOMAIN Q = 1 .. count
<1>1. count \in Nat
  BY DEF Inv, TypeOK
<1>2. \A k \in 1 .. count : events[SlotAt(k - 1)] \in Items
  BY <1>1 DEF Inv, IndicesAgree
<1>3. Q \in [1 .. count -> Items]
  BY <1>2 DEF Q
<1> QED BY <1>1, <1>3

\* Append and Tail, written as functions on the positions.
LEMMA AppendAsFunction ==
  ASSUME NEW S, NEW s \in Seq(S), NEW e \in S
  PROVE  Append(s, e) = [k \in 1 .. Len(s) + 1 |-> IF k = Len(s) + 1 THEN e ELSE s[k]]
<1> DEFINE f == [k \in 1 .. Len(s) + 1 |-> IF k = Len(s) + 1 THEN e ELSE s[k]]
<1>1. Len(s) \in Nat /\ \A k \in 1 .. Len(s) : s[k] \in S
  OBVIOUS
<1>2. f \in [1 .. Len(s) + 1 -> S]
  BY <1>1
<1>3. f \in Seq(S) /\ Len(f) = Len(s) + 1
  BY <1>1, <1>2
<1>4. \A k \in 1 .. Len(s) : k # Len(s) + 1 /\ f[k] = s[k]
  BY <1>1
<1>5. f[Len(s) + 1] = e
  BY <1>1
<1>6. /\ Append(s, e) \in Seq(S) /\ Len(Append(s, e)) = Len(s) + 1
      /\ \A i \in 1 .. Len(s) : Append(s, e)[i] = s[i]
      /\ Append(s, e)[Len(s) + 1] = e
  BY AppendProperties
<1> HIDE DEF f
<1>7. \A i \in 1 .. Len(f) : f[i] = Append(s, e)[i]
  <2> TAKE i \in 1 .. Len(f)
  <2>1. i \in 1 .. Len(s) \/ i = Len(s) + 1
    BY <1>1, <1>3
  <2> QED BY <1>4, <1>5, <1>6, <2>1
<1>8. f = Append(s, e)
  BY <1>3, <1>6, <1>7, SeqEqual
<1> QED BY <1>8 DEF f

LEMMA TailAsFunction ==
  ASSUME NEW S, NEW s \in Seq(S), s # <<>>
  PROVE  Tail(s) = [k \in 1 .. Len(s) - 1 |-> s[k + 1]]
<1> DEFINE f == [k \in 1 .. Len(s) - 1 |-> s[k + 1]]
<1>1. Len(s) \in Nat \ {0} /\ \A k \in 1 .. Len(s) : s[k] \in S
  OBVIOUS
<1>2. f \in [1 .. Len(s) - 1 -> S]
  BY <1>1
<1>3. f \in Seq(S) /\ Len(f) = Len(s) - 1
  BY <1>1, <1>2
<1>4. /\ Tail(s) \in Seq(S) /\ Len(Tail(s)) = Len(s) - 1
      /\ \A i \in 1 .. Len(s) - 1 : Tail(s)[i] = s[i + 1]
  BY HeadTailProperties
<1>5. \A i \in 1 .. Len(f) : f[i] = Tail(s)[i]
  BY <1>3, <1>4
<1> HIDE DEF f
<1>6. f = Tail(s)
  BY <1>3, <1>4, <1>5, SeqEqual
<1> QED BY <1>6 DEF f

\* An accepted push writes the first free slot: the others keep their contents.
LEMMA PushStep ==
  ASSUME Inv, NEW event \in Items, count < Capacity,
         events' = [events EXCEPT ![write_index] = event],
         write_index' = Advanced(write_index), count' = count + 1, res' = Ok,
         UNCHANGED read_index
  PROVE  Inv' /\ Q' = Append(Q, event)
<1> USE DEF Inv
<1>1. /\ count \in Nat /\ read_index \in Slots /\ write_index \in Slots
      /\ write_index = SlotAt(count) /\ count \in 0 .. Capacity - 1
  BY DEF TypeOK, IndicesAgree
<1>2. \A k \in 0 .. count - 1 : SlotAt(k) \in Slots /\ SlotAt(k) # write_index
  BY <1>1, SlotFacts
<1>3. \A k : SlotAt(k)' = SlotAt(k)
  BY DEF SlotAt
<1>4. /\ \A k \in 0 .. count - 1 : events'[SlotAt(k)] = events[SlotAt(k)]
      /\ events'[SlotAt(count)] = event
  BY <1>1, <1>2 DEF TypeOK
<1>5. TypeOK'
  <2>1. write_index' \in Slots /\ read_index' \in Slots
    BY <1>1 DEF Advanced, Slots
  <2>2. events' \in [Slots -> Items \cup {Zero}]
    BY <1>1 DEF TypeOK
  <2> QED BY <1>1, <2>1, <2>2 DEF TypeOK
<1>6. IndicesAgree'
  <2>1. write_index' = IF count' = Capacity THEN read_index ELSE SlotAt(count + 1)
    BY <1>1 DEF SlotAt, Advanced, Slots
  <2>2. \A k \in 0 .. count : events'[SlotAt(k)] \in Items
    BY <1>1, <1>4 DEF IndicesAgree
  <2> QED BY <1>1, <1>3, <2>1, <2>2 DEF IndicesAgree
<1>7. Q' = Append(Q, event)
  <2>1. Q' = [k \in 1 .. count + 1 |-> events'[SlotAt(k - 1)]]
    BY <1>3 DEF Q
  <2>2. \A k \in 1 .. count : Q[k] = events[SlotAt(k - 1)]
    BY DEF Q
  <2>3. Append(Q, event) = [k \in 1 .. count + 1 |-> IF k = count + 1 THEN event ELSE Q[k]]
    BY QueueIsSeq, AppendAsFunction
  <2>4. \A k \in 1 .. count + 1 :
          events'[SlotAt(k - 1)] = IF k = count + 1 THEN event ELSE Q[k]
    <3> TAKE k \in 1 .. count + 1
    <3>1. CASE k = count + 1
      BY <1>1, <1>4, <3>1
    <3>2. CASE k # count + 1
      <4>1. k \in 1 .. count /\ k - 1 \in 0 .. count - 1
        BY <1>1, <3>2
      <4> QED BY <1>4, <2>2, <3>2, <4>1
    <3> QED BY <3>1, <3>2
  <2> QED BY <2>1, <2>3, <2>4
<1> QED BY <1>5, <1>6, <1>7

\* A pop of a queue that is not empty returns its head and keeps the rest.
LEMMA PopStep ==
  ASSUME Inv, count > 0, res' = events[read_index], read_index' = Advanced(read_index),
         count' = count - 1, UNCHANGED <<events, write_index>>
  PROVE  Inv' /\ Q # <<>> /\ res' = Head(Q) /\ Q' = Tail(Q)
<1> USE DEF Inv
<1>1. /\ count \in Nat \ {0} /\ count <= Capacity
      /\ read_index \in Slots /\ write_index \in Slots
  BY DEF TypeOK
<1>2. \A k \in 0 .. count - 2 : SlotAt(k)' = SlotAt(k + 1)
  BY <1>1 DEF SlotAt, Advanced, Slots
<1>3. events[SlotAt(0)] \in Items /\ SlotAt(0) = read_index
  BY <1>1, SlotFacts DEF IndicesAgree
<1>4. TypeOK'
  <2>1. read_index' \in Slots
    BY <1>1 DEF Advanced, Slots
  <2> QED BY <1>1, <1>3, <2>1 DEF TypeOK
<1>5. IndicesAgree'
  <2>1. SlotAt(count)' = IF read_index' + (count - 1) >= Capacity
                         THEN read_index' + (count - 1) - Capacity
                         ELSE read_index' + (count - 1)
    BY DEF SlotAt
  <2>2. write_index = SlotAt(count)'
    <3>1. CASE count = Capacity
      BY <1>1, <2>1, <3>1 DEF IndicesAgree, Advanced, Slots
    <3>2. CASE count # Capacity
      BY <1>1, <2>1, <3>2 DEF IndicesAgree, SlotAt, Advanced, Slots
    <3> QED BY <3>1, <3>2
  <2>3. \A k \in 0 .. count - 2 : events[SlotAt(k)'] \in Items
    BY <1>1, <1>2 DEF IndicesAgree
  <2>4. write_index' = IF count' = Capacity THEN read_index' ELSE SlotAt(count)'
    <3>1. count' # Capacity
      BY <1>1
    <3> QED BY <2>2, <3>1
  <2>5. \A k \in 0 .. count' - 1 : events'[SlotAt(k)'] \in Items
    BY <1>1, <2>3
  <2> QED BY <2>4, <2>5 DEF IndicesAgree
<1>6. Q \in Seq(Items) /\ Len(Q) = count /\ Q # <<>>
  BY <1>1, QueueIsSeq
<1>7. res' = Head(Q)
  BY <1>1, <1>3, <1>6 DEF Q
<1>8. Q' = Tail(Q)
  <2>1. Tail(Q) = [k \in 1 .. count - 1 |-> Q[k + 1]]
    BY <1>6, TailAsFunction
  <2>2. \A k \in 1 .. count - 1 : Q[k + 1] = events[SlotAt(k)]
    BY <1>1 DEF Q
  <2>3. Q' = [k \in 1 .. count - 1 |-> events[SlotAt(k - 1)']]
    BY DEF Q
  <2>4. \A k \in 1 .. count - 1 : SlotAt(k - 1)' = SlotAt(k)
    BY <1>1, <1>2
  <2> QED BY <2>1, <2>2, <2>3, <2>4
<1> QED BY <1>4, <1>5, <1>6, <1>7, <1>8

\* The ring is the queue: every call of the ring is a call of the queue with the
\* same result.
THEOREM RingImplementsFifo == Spec => ImplementsFifo
<1>1. Init => Inv /\ Fifo!FifoInit
  BY DEF Init, Inv, TypeOK, IndicesAgree, SlotAt, Slots, Fifo!FifoInit
<1>2. Inv /\ [Next]_vars => Inv' /\ [Fifo!FifoNext]_<<Q, res>>
  <2> SUFFICES ASSUME Inv, [Next]_vars PROVE Inv' /\ [Fifo!FifoNext]_<<Q, res>>
    OBVIOUS
  <2>0. Len(Q) = count /\ Q \in Seq(Items) /\ count \in 0 .. Capacity
    BY QueueIsSeq DEF Inv, TypeOK
  <2>1. CASE input_event_queue_reset
    <3>1. Inv'
      BY <2>1 DEF input_event_queue_reset, Inv, TypeOK, IndicesAgree, SlotAt, Slots
    <3>2. Q' = <<>> /\ res' = Ok
      BY <2>1 DEF input_event_queue_reset, Q
    <3> QED BY <3>1, <3>2 DEF Fifo!FifoNext, Fifo!Clear, Q
  <2>2. ASSUME NEW event \in Items, input_event_queue_push(event)
        PROVE  Inv' /\ [Fifo!FifoNext]_<<Q, res>>
    <3>1. CASE count >= Capacity /\ res' = Failed
               /\ UNCHANGED <<events, read_index, write_index, count>>
      <4>1. Inv' /\ Q' = Q
        BY <3>1 DEF Inv, TypeOK, IndicesAgree, SlotAt, Q
      <4>2. Len(Q) = Capacity
        BY <2>0, <3>1
      <4>3. Fifo!Push(event)
        BY <3>1, <4>1, <4>2 DEF Fifo!Push, Q
      <4> QED BY <4>1, <4>3 DEF Fifo!FifoNext
    <3>2. CASE count < Capacity /\ events' = [events EXCEPT ![write_index] = event]
               /\ write_index' = Advanced(write_index) /\ count' = count + 1 /\ res' = Ok
               /\ UNCHANGED read_index
      <4>1. Inv' /\ Q' = Append(Q, event)
        BY <3>2, PushStep
      <4>2. Len(Q) < Capacity
        BY <2>0, <3>2
      <4>3. Fifo!Push(event)
        BY <3>2, <4>1, <4>2 DEF Fifo!Push, Q
      <4> QED BY <4>1, <4>3 DEF Fifo!FifoNext
    <3> QED BY <2>2, <3>1, <3>2 DEF input_event_queue_push
  <2>3. CASE input_event_queue_pop
    <3>1. CASE count = 0 /\ res' = Failed
               /\ UNCHANGED <<events, read_index, write_index, count>>
      <4>1. Inv' /\ Q' = Q
        BY <3>1 DEF Inv, TypeOK, IndicesAgree, SlotAt, Q
      <4>2. Q = <<>>
        BY <2>0, <3>1
      <4>3. Fifo!Pop
        BY <3>1, <4>1, <4>2 DEF Fifo!Pop, Q
      <4> QED BY <4>1, <4>3 DEF Fifo!FifoNext
    <3>2. CASE count > 0 /\ res' = events[read_index] /\ read_index' = Advanced(read_index)
               /\ count' = count - 1 /\ UNCHANGED <<events, write_index>>
      <4>1. Inv' /\ Q # <<>> /\ res' = Head(Q) /\ Q' = Tail(Q)
        BY <3>2, PopStep
      <4>2. Fifo!Pop
        BY <4>1 DEF Fifo!Pop, Q
      <4> QED BY <4>1, <4>2 DEF Fifo!FifoNext
    <3> QED BY <2>3, <3>1, <3>2 DEF input_event_queue_pop
  <2>4. CASE UNCHANGED vars
    BY <2>4 DEF vars, Inv, TypeOK, IndicesAgree, SlotAt, Q
  <2> QED BY <2>1, <2>2, <2>3, <2>4 DEF Next
<1> QED BY <1>1, <1>2, PTL DEF Spec, ImplementsFifo, Fifo!FifoSpec, Q
===============================================================================
