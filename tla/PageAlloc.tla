------------------------------- MODULE PageAlloc ------------------------------
(***************************************************************************)
(* The bitmap page allocator of kernel/mm/page_alloc.c, with the call of   *)
(* mm_init as one of the ranges it may be set up on.  The allocator has no *)
(* lock and no interrupt handler calls it, so every function is one step.  *)
(* bitmap is the set of page indices whose bit is set; ret is what the     *)
(* last call returned: a page address, or 0 for a null pointer or false.   *)
(***************************************************************************)
EXTENDS Integers, FiniteSets

CONSTANTS
  PageSize,   \* PAGE_ALLOC_PAGE_SIZE
  MaxPages,   \* PAGE_ALLOC_MAX_PAGES
  Word,       \* 2^64: addresses are uintptr_t
  Ranges,     \* the <<start, end>> pairs page_alloc_init is called with
  Pointers    \* the addresses page_free is called with

ASSUME PageAllocAssumption ==
  /\ PageSize \in Nat \ {0} /\ MaxPages \in Nat \ {0} /\ Word \in Nat \ {0}
  /\ Ranges \subseteq (1 .. Word - 1) \X (1 .. Word - 1)
  /\ Pointers \subseteq 0 .. Word - 1

\* mm_init passes __bss_end, an address inside RAM: rounding it up neither wraps
\* around nor yields the null page.
ASSUME RangesFit ==
  /\ Word % PageSize = 0
  /\ \A rg \in Ranges : rg[1] + PageSize - 1 < Word

VARIABLES rangeStart, rangeEnd, total, free, hint, bitmap, ret

vars == <<rangeStart, rangeEnd, total, free, hint, bitmap, ret>>
setup == <<rangeStart, rangeEnd, total>>

AlignDown(addr) == addr - (addr % PageSize)
AlignUp(addr) == AlignDown((addr + PageSize - 1) % Word)

PageAddr(i) == rangeStart + i * PageSize
Indices == 0 .. total - 1

\* Mutant: page_index_from_addr without the test of the alignment.
IsPageUnaligned(addr) ==
  /\ rangeStart <= addr /\ addr < rangeEnd /\ (addr - rangeStart) \div PageSize < total

\* page_index_from_addr accepts exactly the addresses of pages.
IsPage(addr) ==
  /\ rangeStart <= addr /\ addr < rangeEnd
  /\ (addr - rangeStart) % PageSize = 0
  /\ (addr - rangeStart) \div PageSize < total
IndexOf(addr) == (addr - rangeStart) \div PageSize

page_alloc_init(start, end) ==
  LET lo == AlignUp(start)
      hi == AlignDown(end)
      n == (hi - lo) \div PageSize
      cap == IF n > MaxPages THEN MaxPages ELSE n
  IN /\ bitmap' = {} /\ hint' = 0 /\ ret' = 0
     /\ IF hi <= lo
          THEN rangeStart' = 0 /\ rangeEnd' = 0 /\ total' = 0 /\ free' = 0
          ELSE /\ rangeStart' = lo /\ total' = cap /\ free' = cap
               /\ rangeEnd' = IF n > MaxPages THEN lo + cap * PageSize ELSE hi

\* The scan visits hint, hint + 1, ... modulo total and takes the first clear bit.
Scanned(k) == (hint + k) % total
FirstClear(k) == Scanned(k) \notin bitmap /\ \A j \in 0 .. k - 1 : Scanned(j) \in bitmap

page_alloc ==
  /\ \/ /\ free # 0
        /\ \E k \in Indices :
             /\ FirstClear(k)
             /\ bitmap' = bitmap \cup {Scanned(k)}
             /\ hint' = (Scanned(k) + 1) % total
             /\ ret' = PageAddr(Scanned(k))
        /\ free' = free - 1
     \/ /\ free = 0 \/ \A i \in Indices : Scanned(i) \in bitmap
        /\ ret' = 0 /\ UNCHANGED <<free, hint, bitmap>>
  /\ UNCHANGED setup

\* Mutant: page_free that does not test the bit.
page_free_twice(addr) ==
  LET i == IndexOf(addr) IN
  /\ IF addr # 0 /\ IsPage(addr)
       THEN /\ bitmap' = bitmap \ {i} /\ free' = free + 1 /\ ret' = addr
            /\ hint' = IF i < hint \/ free + 1 = 1 THEN i ELSE hint
       ELSE ret' = 0 /\ UNCHANGED <<free, hint, bitmap>>
  /\ UNCHANGED setup

\* Mutant: page_free that always moves the hint to the page it frees.
page_free_moves_hint(addr) ==
  LET i == IndexOf(addr) IN
  /\ IF addr # 0 /\ IsPage(addr) /\ i \in bitmap
       THEN bitmap' = bitmap \ {i} /\ free' = free + 1 /\ ret' = addr /\ hint' = i
       ELSE ret' = 0 /\ UNCHANGED <<free, hint, bitmap>>
  /\ UNCHANGED setup

\* Mutant: page_free that does not count the page.
page_free_uncounted(addr) ==
  LET i == IndexOf(addr) IN
  /\ IF addr # 0 /\ IsPage(addr) /\ i \in bitmap
       THEN /\ bitmap' = bitmap \ {i} /\ ret' = addr
            /\ hint' = IF i < hint THEN i ELSE hint
            /\ UNCHANGED free
       ELSE ret' = 0 /\ UNCHANGED <<free, hint, bitmap>>
  /\ UNCHANGED setup

page_free(addr) ==
  LET i == IndexOf(addr) IN
  /\ IF addr # 0 /\ IsPage(addr) /\ i \in bitmap
       THEN /\ bitmap' = bitmap \ {i} /\ free' = free + 1 /\ ret' = addr
            /\ hint' = IF i < hint \/ free + 1 = 1 THEN i ELSE hint
       ELSE ret' = 0 /\ UNCHANGED <<free, hint, bitmap>>
  /\ UNCHANGED setup

Init ==
  /\ rangeStart = 0 /\ rangeEnd = 0 /\ total = 0 /\ free = 0 /\ hint = 0
  /\ bitmap = {} /\ ret = 0

Next ==
  \/ \E rg \in Ranges : page_alloc_init(rg[1], rg[2])
  \/ page_alloc
  \/ \E addr \in Pointers : page_free(addr)

Spec == Init /\ [][Next]_vars

-------------------------------------------------------------------------------
(* Properties *)

\* The counters hold sizes, the bitmap holds indices of the pool.
TypeOK ==
  /\ rangeStart \in Nat /\ rangeEnd \in Nat /\ total \in 0 .. MaxPages
  /\ free \in Int /\ hint \in Nat /\ bitmap \subseteq Indices /\ ret \in Nat

\* page_alloc_free_pages is exactly the number of clear bits: no sequence of frees
\* (double, misaligned or foreign ones included) makes the count drift, so the early
\* return of page_alloc on a zero count never hides a free page.
FreeCountExact == free = total - Cardinality(bitmap)

\* Every page below the hint is taken, so the scan never has to wrap around; the
\* special case for a pool that was full keeps it so.
HintIsLowest == (total > 0 => hint < total) /\ \A i \in 0 .. hint - 1 : i \in bitmap

\* page_alloc fails only when every page of the pool is taken.
FailsOnlyWhenFull ==
  [][page_alloc /\ ret' = 0 => bitmap = Indices]_vars

Pool == INSTANCE PagePool WITH
          pages <- {PageAddr(i) : i \in Indices},
          held <- {PageAddr(i) : i \in bitmap},
          NoPage <- 0

\* The bitmap, the counters and the hint together behave as a pool that hands out
\* its lowest free page, never one that is held, and takes back held pages only.
ImplementsPagePool == Pool!PoolSpec
===============================================================================
