------------------------------- MODULE PagePool -------------------------------
(***************************************************************************)
(* What the page allocator promises: a pool of page addresses, of which    *)
(* some are held.  A pool may be replaced by a new one that nobody holds   *)
(* pages of; an allocation hands out the lowest page not held and fails    *)
(* only if there is none; a free takes back one held page, or is refused.  *)
(***************************************************************************)
EXTENDS Integers, FiniteSets

CONSTANT NoPage
VARIABLES pages, held, ret

poolVars == <<pages, held, ret>>

Init == pages = {} /\ held = {} /\ ret = NoPage

Reset == held' = {} /\ ret' = NoPage

Alloc ==
  \/ \E p \in pages \ held :
       /\ \A q \in pages \ held : p <= q
       /\ held' = held \cup {p} /\ ret' = p /\ pages' = pages
  \/ pages \subseteq held /\ ret' = NoPage /\ UNCHANGED <<pages, held>>

Free ==
  \/ \E p \in held : held' = held \ {p} /\ ret' = p /\ pages' = pages
  \/ ret' = NoPage /\ UNCHANGED <<pages, held>>

Next == Reset \/ Alloc \/ Free

PoolSpec == Init /\ [][Next]_poolVars
===============================================================================
