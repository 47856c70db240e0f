------------------------------ MODULE BoundedFifo -----------------------------
(***************************************************************************)
(* What the input queues promise: a first-in first-out queue of bounded    *)
(* length that refuses, and thereby drops, what is pushed when it is full. *)
(* res is what the last call returned: an item, Ok or Failed.              *)
(***************************************************************************)
EXTENDS Integers, Sequences

CONSTANTS Items, Capacity, Ok, Failed

VARIABLES q, res

Push(item) ==
  \/ Len(q) < Capacity /\ q' = Append(q, item) /\ res' = Ok
  \/ Len(q) = Capacity /\ res' = Failed /\ UNCHANGED q

Pop ==
  \/ q # <<>> /\ res' = Head(q) /\ q' = Tail(q)
  \/ q = <<>> /\ res' = Failed /\ UNCHANGED q

Clear == q' = <<>> /\ res' = Ok

FifoInit == q = <<>> /\ res = Ok
FifoNext == (\E item \in Items : Push(item)) \/ Pop \/ Clear
FifoSpec == FifoInit /\ [][FifoNext]_<<q, res>>
===============================================================================
