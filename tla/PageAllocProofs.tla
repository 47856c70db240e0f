---------------------------- MODULE PageAllocProofs ---------------------------
(***************************************************************************)
(* Proofs about PageAlloc, for every page size, pool capacity, range and   *)
(* sequence of calls.                                                      *)
(***************************************************************************)
EXTENDS PageAlloc, FiniteSetTheorems, TLAPS

USE PageAllocAssumption

\* The strengthening: a pool with pages does not start at the null address.
Inv == TypeOK /\ FreeCountExact /\ HintIsLowest /\ (total > 0 => rangeStart > 0)

\* Rounding down lands on an address in the same page.
LEMMA AlignDownBounds ==
  ASSUME NEW a \in Nat
  PROVE  AlignDown(a) \in Nat /\ AlignDown(a) <= a /\ a - AlignDown(a) < PageSize
<1>1. a % PageSize \in 0 .. PageSize - 1 /\ a % PageSize <= a
  OBVIOUS
<1> QED BY <1>1 DEF AlignDown

\* The modulus of a sum below twice the divisor.
LEMMA ModOnce ==
  ASSUME NEW n \in Nat \ {0}, NEW x \in 0 .. n + n - 1
  PROVE  x % n = IF x < n THEN x ELSE x - n
OBVIOUS

\* The bitmap is a finite set.
LEMMA BitmapFinite ==
  ASSUME TypeOK
  PROVE  /\ IsFiniteSet(bitmap) /\ Cardinality(bitmap) \in Nat
         /\ Cardinality(bitmap) <= total
         /\ Cardinality(bitmap) = total => bitmap = Indices
<1>1. total \in Nat /\ bitmap \in SUBSET Indices
  BY DEF TypeOK
<1>2. IsFiniteSet(Indices) /\ Cardinality(Indices) = total
  BY <1>1, FS_Interval DEF Indices
<1> QED BY <1>1, <1>2, FS_Subset, FS_CardinalityType

\* The k-th index of the scan.
LEMMA ScannedIs ==
  ASSUME TypeOK, HintIsLowest, total > 0, NEW k \in Indices
  PROVE  /\ Scanned(k) = IF hint + k < total THEN hint + k ELSE hint + k - total
         /\ Scanned(k) \in Indices
<1>1. total \in Nat \ {0} /\ hint + k \in 0 .. total + total - 1
  BY DEF TypeOK, HintIsLowest, Indices
<1>2. Scanned(k) = IF hint + k < total THEN hint + k ELSE hint + k - total
  <2>1. \A n \in Nat \ {0} : \A x \in 0 .. n + n - 1 : x % n = IF x < n THEN x ELSE x - n
    BY ModOnce
  <2>2. PICK x \in 0 .. total + total - 1 : x = hint + k
    BY <1>1
  <2>3. x % total = IF x < total THEN x ELSE x - total
    BY <1>1, <2>1, Zenon
  <2>4. Scanned(k) = x % total
    BY <2>2, Zenon DEF Scanned
  <2>5. hint \in Nat /\ k \in Nat
    BY DEF TypeOK, Indices
  <2> QED BY <1>1, <2>2, <2>3, <2>4, <2>5
<1> QED BY <1>1, <1>2 DEF Indices, TypeOK, HintIsLowest

\* The index an allocation takes: the lowest clear bit of the whole bitmap.
LEMMA FirstClearIsLowest ==
  ASSUME Inv, total > 0, NEW k \in Indices, FirstClear(k)
  PROVE  /\ Scanned(k) \in Indices \ bitmap
         /\ \A i \in 0 .. Scanned(k) - 1 : i \in bitmap
<1> USE DEF Inv
<1>0. total \in Nat /\ hint \in Nat /\ hint < total /\ k \in Nat /\ k < total
  BY DEF TypeOK, HintIsLowest, Indices
<1>1. /\ Scanned(k) = IF hint + k < total THEN hint + k ELSE hint + k - total
      /\ Scanned(k) \in Indices
  BY ScannedIs
<1>2. Scanned(k) \notin bitmap
  BY DEF FirstClear
<1>3. hint + k < total
  <2>1. ASSUME hint + k >= total PROVE FALSE
    <3>1. Scanned(k) \in 0 .. hint - 1
      BY <1>0, <1>1, <2>1
    <3> QED BY <1>2, <3>1 DEF HintIsLowest
  <2> QED BY <1>0, <2>1
<1>4. ASSUME NEW i \in 0 .. Scanned(k) - 1 PROVE i \in bitmap
  <2>1. CASE i < hint
    BY <1>0, <2>1 DEF HintIsLowest
  <2>2. CASE i >= hint
    <3>1. i - hint \in 0 .. k - 1 /\ i - hint \in Indices /\ hint + (i - hint) = i /\ i < total
      BY <1>0, <1>1, <1>3, <2>2 DEF Indices
    <3>2. Scanned(i - hint) = i
      BY <3>1, ScannedIs
    <3> QED BY <3>1, <3>2 DEF FirstClear
  <2> QED BY <1>0, <2>1, <2>2
<1> QED BY <1>1, <1>2, <1>4

\* page_alloc_init establishes the invariant on any range it is given.
LEMMA InitStep ==
  ASSUME RangesFit, NEW rg \in Ranges, page_alloc_init(rg[1], rg[2])
  PROVE  Inv'
<1> DEFINE lo == AlignUp(rg[1])
           hi == AlignDown(rg[2])
           n == (hi - lo) \div PageSize
           cap == IF n > MaxPages THEN MaxPages ELSE n
<1>1. rg[1] \in Nat \ {0} /\ rg[2] \in Nat /\ rg[1] + PageSize - 1 < Word
  BY DEF RangesFit
<1>2. (rg[1] + PageSize - 1) % Word = rg[1] + PageSize - 1
  BY <1>1
<1>3. lo \in Nat /\ lo > 0
  <2>1. lo = AlignDown(rg[1] + PageSize - 1)
    BY <1>2 DEF AlignUp
  <2> QED BY <1>1, <2>1, AlignDownBounds
<1>4. hi \in Nat
  BY <1>1, AlignDownBounds
<1>5. CASE hi <= lo
  <2>1. rangeStart' = 0 /\ rangeEnd' = 0 /\ total' = 0 /\ free' = 0 /\ hint' = 0
        /\ bitmap' = {} /\ ret' = 0
    BY <1>5 DEF page_alloc_init
  <2> QED BY <2>1, FS_EmptySet DEF Inv, TypeOK, FreeCountExact, HintIsLowest, Indices
<1>6. CASE hi > lo
  <2>1. n \in Nat
    BY <1>3, <1>4, <1>6
  <2>2. cap \in 0 .. MaxPages /\ cap * PageSize \in Nat
    BY <2>1
  <2>3. /\ rangeStart' = lo /\ rangeEnd' \in Nat /\ total' = cap /\ free' = cap /\ hint' = 0
        /\ bitmap' = {} /\ ret' = 0
    BY <1>3, <1>4, <1>6, <2>2 DEF page_alloc_init
  <2> HIDE DEF cap
  <2> QED BY <1>3, <2>2, <2>3, FS_EmptySet DEF Inv, TypeOK, FreeCountExact, HintIsLowest, Indices
<1> QED BY <1>3, <1>4, <1>5, <1>6

\* page_alloc keeps the invariant: it takes the lowest clear bit, or changes nothing.
LEMMA AllocStep ==
  ASSUME Inv, page_alloc
  PROVE  Inv'
<1>1. CASE /\ free # 0 /\ free' = free - 1
           /\ \E k \in Indices :
                /\ FirstClear(k)
                /\ bitmap' = bitmap \cup {Scanned(k)}
                /\ hint' = (Scanned(k) + 1) % total
                /\ ret' = PageAddr(Scanned(k))
  <2>1. PICK k \in Indices :
                /\ FirstClear(k)
                /\ bitmap' = bitmap \cup {Scanned(k)}
                /\ hint' = (Scanned(k) + 1) % total
                /\ ret' = PageAddr(Scanned(k))
    BY <1>1
  <2>2. total > 0 /\ total \in Nat /\ UNCHANGED setup
    BY DEF Indices, Inv, TypeOK, page_alloc
  <2>3. Scanned(k) \in Indices \ bitmap /\ \A i \in 0 .. Scanned(k) - 1 : i \in bitmap
    BY <2>1, <2>2, FirstClearIsLowest
  <2>4. hint' = IF Scanned(k) + 1 < total THEN Scanned(k) + 1 ELSE 0
    <3>1. Scanned(k) + 1 \in 0 .. total + total - 1 /\ total \in Nat \ {0}
      BY <2>2, <2>3 DEF Indices
    <3>2. \A n \in Nat \ {0} : \A x \in 0 .. n + n - 1 : x % n = IF x < n THEN x ELSE x - n
      BY ModOnce
    <3>3. PICK x \in 0 .. total + total - 1 : x = Scanned(k) + 1
      BY <3>1
    <3>4. x % total = IF x < total THEN x ELSE x - total
      BY <3>1, <3>2, Zenon
    <3>5. hint' = x % total
      BY <2>1, <3>3, Zenon
    <3> QED BY <2>2, <2>3, <3>3, <3>4, <3>5 DEF Indices
  <2>5. HintIsLowest'
    BY <2>1, <2>2, <2>3, <2>4 DEF HintIsLowest, setup, Indices
  <2>6. Cardinality(bitmap') = Cardinality(bitmap) + 1
    BY <2>1, <2>3, BitmapFinite, FS_AddElement DEF Inv
  <2>7. FreeCountExact'
    BY <1>1, <2>2, <2>6, BitmapFinite DEF FreeCountExact, Inv, setup, TypeOK
  <2>8. PageAddr(Scanned(k)) \in Nat
    <3>1. Scanned(k) \in Nat /\ rangeStart \in Nat
      BY <2>3 DEF Indices, Inv, TypeOK
    <3> QED BY <3>1 DEF PageAddr
  <2>9. TypeOK'
    <3>1. bitmap' \subseteq Indices' /\ ret' \in Nat
      BY <2>1, <2>2, <2>3, <2>8 DEF TypeOK, Inv, setup, Indices
    <3>2. hint' \in Nat
      BY <2>2, <2>3, <2>4 DEF Indices
    <3>3. free' \in Int
      BY <1>1 DEF TypeOK, Inv
    <3> QED BY <2>2, <3>1, <3>2, <3>3 DEF TypeOK, Inv, setup
  <2> QED BY <2>2, <2>5, <2>7, <2>9 DEF Inv, setup
<1>2. CASE ret' = 0 /\ UNCHANGED <<free, hint, bitmap>>
  BY <1>2 DEF page_alloc, setup, Inv, TypeOK, FreeCountExact, HintIsLowest, Indices
<1> QED BY <1>1, <1>2 DEF page_alloc

\* page_free keeps the invariant: it clears the bit of a held page, or changes nothing.
LEMMA FreeStep ==
  ASSUME Inv, NEW addr \in Pointers, page_free(addr)
  PROVE  Inv'
<1> DEFINE i == IndexOf(addr)
<1>0. UNCHANGED setup /\ total \in Nat /\ addr \in Nat
  BY DEF page_free, Inv, TypeOK
<1>1. CASE addr # 0 /\ IsPage(addr) /\ i \in bitmap
  <2>1. /\ bitmap' = bitmap \ {i} /\ free' = free + 1 /\ ret' = addr
        /\ hint' = IF i < hint \/ free + 1 = 1 THEN i ELSE hint
    BY <1>1 DEF page_free
  <2>2. i \in Indices
    BY <1>1 DEF Inv, TypeOK
  <2>3. Cardinality(bitmap') = Cardinality(bitmap) - 1
    BY <1>1, <2>1, BitmapFinite, FS_RemoveElement DEF Inv
  <2>4. FreeCountExact'
    BY <1>0, <2>1, <2>3, BitmapFinite DEF FreeCountExact, Inv, setup, TypeOK
  <2>5. i \in Nat /\ i < total /\ hint \in Nat
    BY <1>0, <2>2 DEF Indices, Inv, TypeOK
  <2> HIDE DEF i
  <2>6. TypeOK'
    BY <1>0, <2>1, <2>2, <2>5 DEF TypeOK, Inv, setup, Indices
  <2>7. free + 1 = 1 => bitmap = Indices
    BY <1>0, BitmapFinite DEF Inv, FreeCountExact, TypeOK
  <2>8. HintIsLowest'
    BY <1>0, <2>1, <2>5, <2>7 DEF HintIsLowest, Inv, setup, Indices
  <2> QED BY <1>0, <2>4, <2>6, <2>8 DEF Inv, setup
<1>2. CASE ret' = 0 /\ UNCHANGED <<free, hint, bitmap>>
  BY <1>0, <1>2 DEF setup, Inv, TypeOK, FreeCountExact, HintIsLowest, Indices
<1> QED BY <1>1, <1>2 DEF page_free

\* The counters, the bitmap and the hint agree after every sequence of calls.
THEOREM PageAllocInvariant == Spec => []Inv
<1>1. Init => Inv
  BY FS_EmptySet DEF Init, Inv, TypeOK, FreeCountExact, HintIsLowest, Indices
<1>2. Inv /\ [Next]_vars => Inv'
  <2> SUFFICES ASSUME Inv, [Next]_vars PROVE Inv'
    OBVIOUS
  <2>1. CASE UNCHANGED vars
    BY <2>1 DEF vars, Inv, TypeOK, FreeCountExact, HintIsLowest, Indices
  <2> QED BY <2>1, InitStep, AllocStep, FreeStep, RangesFit DEF Next
<1> QED BY <1>1, <1>2, PTL DEF Spec

\* page_alloc_free_pages never drifts from the number of clear bits.
THEOREM FreeCountNeverDrifts == Spec => []FreeCountExact
BY PageAllocInvariant, PTL DEF Inv

\* The hint never passes a free page, so the scan finds the lowest one.
THEOREM HintNeverPassesFreePage == Spec => []HintIsLowest
BY PageAllocInvariant, PTL DEF Inv

\* An allocation returns a null pointer only from a full pool.
LEMMA AllocFails ==
  ASSUME Inv, page_alloc, ret' = 0
  PROVE  bitmap = Indices
<1>1. CASE free = 0
  BY <1>1, BitmapFinite DEF Inv, FreeCountExact, TypeOK
<1>2. CASE \A i \in Indices : Scanned(i) \in bitmap
  <2>1. ASSUME NEW j \in Indices PROVE j \in bitmap
    <3>0. total \in Nat /\ total > 0 /\ hint \in Nat /\ j \in Nat /\ j < total
      BY DEF Inv, TypeOK, Indices
    <3>1. CASE j < hint
      BY <3>0, <3>1 DEF Inv, HintIsLowest
    <3>2. CASE j >= hint
      <4>1. j - hint \in Indices /\ hint + (j - hint) = j
        BY <3>0, <3>2 DEF Indices
      <4>2. Scanned(j - hint) = j
        BY <3>0, <4>1, ScannedIs DEF Inv
      <4> QED BY <1>2, <4>1, <4>2
    <3> QED BY <3>0, <3>1, <3>2
  <2> QED BY <2>1 DEF Inv, TypeOK
<1>3. CASE \E k \in Indices : FirstClear(k) /\ ret' = PageAddr(Scanned(k))
  <2>1. PICK k \in Indices : FirstClear(k) /\ ret' = PageAddr(Scanned(k))
    BY <1>3
  <2>2. total > 0 /\ rangeStart \in Nat /\ rangeStart > 0
    BY DEF Inv, TypeOK, Indices
  <2>3. Scanned(k) \in Nat
    BY <2>1, <2>2, FirstClearIsLowest DEF Indices
  <2>4. Scanned(k) * PageSize \in Nat
    BY <2>3
  <2> QED BY <2>1, <2>2, <2>4 DEF PageAddr
<1> QED BY <1>1, <1>2, <1>3 DEF page_alloc

\* A null return of page_alloc means that every page of the pool is taken.
THEOREM FailureMeansFull == Spec => FailsOnlyWhenFull
<1>1. Inv /\ [Next]_vars => [page_alloc /\ ret' = 0 => bitmap = Indices]_vars
  BY AllocFails
<1> QED BY <1>1, PageAllocInvariant, PTL DEF Spec, FailsOnlyWhenFull

-------------------------------------------------------------------------------
(* The refinement: the set of page addresses whose bit is set is the set of *)
(* pages held.                                                              *)

\* Pages are handed out in the order of their indices, and each has one index.
LEMMA PageAddrOrder ==
  ASSUME rangeStart \in Nat, NEW i \in Nat, NEW j \in Nat
  PROVE  /\ PageAddr(i) \in Nat
         /\ i <= j => PageAddr(i) <= PageAddr(j)
         /\ PageAddr(i) = PageAddr(j) => i = j
<1>1. ASSUME NEW a \in Nat, NEW b \in Nat, a < b
      PROVE  a * PageSize \in Nat /\ b * PageSize \in Nat /\ a * PageSize < b * PageSize
  <2>1. PICK d \in Nat \ {0} : b = a + d
    <3>1. b - a \in Nat \ {0} /\ b = a + (b - a)
      BY <1>1
    <3> QED BY <3>1
  <2>2. b * PageSize = a * PageSize + d * PageSize
    BY <2>1
  <2>3. d * PageSize \in Nat /\ d * PageSize > 0 /\ a * PageSize \in Nat
    BY <2>1
  <2> QED BY <2>2, <2>3
<1>2. i * PageSize \in Nat /\ j * PageSize \in Nat
  OBVIOUS
<1>3. CASE i < j
  BY <1>1, <1>2, <1>3 DEF PageAddr
<1>4. CASE j < i
  BY <1>1, <1>2, <1>4 DEF PageAddr
<1>5. CASE i = j
  BY <1>2, <1>5 DEF PageAddr
<1> QED BY <1>3, <1>4, <1>5

\* page_index_from_addr inverts the address computation.
LEMMA IndexOfPage ==
  ASSUME rangeStart \in Nat, NEW addr \in Nat, IsPage(addr)
  PROVE  PageAddr(IndexOf(addr)) = addr
<1> DEFINE x == addr - rangeStart
           q == x \div PageSize
<1>1. x \in Nat /\ x % PageSize = 0
  BY DEF IsPage
<1>2. q \in Nat /\ x = q * PageSize + (x % PageSize)
  BY <1>1
<1>3. x = q * PageSize /\ addr = rangeStart + x
  BY <1>1, <1>2
<1>4. PageAddr(IndexOf(addr)) = rangeStart + q * PageSize
  BY DEF PageAddr, IndexOf
<1> QED BY <1>1, <1>3, <1>4

\* Every call of the allocator is a step of the pool.
LEMMA PoolStep ==
  ASSUME Inv, [Next]_vars
  PROVE  [Pool!Next]_(Pool!poolVars)
<1> DEFINE pages == {PageAddr(i) : i \in Indices}
           held == {PageAddr(i) : i \in bitmap}
<1>0. /\ total \in Nat /\ rangeStart \in Nat /\ bitmap \subseteq Indices
      /\ Indices \subseteq Nat
  BY DEF Inv, TypeOK, Indices
<1>1. ASSUME UNCHANGED setup
      PROVE  /\ pages' = pages /\ \A i : PageAddr(i)' = PageAddr(i)
             /\ held' = {PageAddr(i) : i \in bitmap'}
  BY <1>1 DEF setup, PageAddr, Indices
<1>2. CASE UNCHANGED vars
  BY <1>2 DEF vars, Pool!poolVars, PageAddr, Indices
<1>3. ASSUME NEW rg \in Ranges, page_alloc_init(rg[1], rg[2])
      PROVE  Pool!Next
  <2>1. held' = {} /\ ret' = 0
    BY <1>3 DEF page_alloc_init
  <2> QED BY <2>1 DEF Pool!Next, Pool!Reset
<1>4. CASE page_alloc
  <2>1. UNCHANGED setup
    BY <1>4 DEF page_alloc
  <2>2. CASE \E k \in Indices : /\ FirstClear(k) /\ bitmap' = bitmap \cup {Scanned(k)}
                                /\ ret' = PageAddr(Scanned(k))
    <3>1. PICK k \in Indices : /\ FirstClear(k) /\ bitmap' = bitmap \cup {Scanned(k)}
                               /\ ret' = PageAddr(Scanned(k))
      BY <2>2
    <3> DEFINE n == Scanned(k)
               p == PageAddr(n)
    <3>2. total > 0
      BY <1>0 DEF Indices
    <3>3. n \in Indices \ bitmap /\ \A i \in 0 .. n - 1 : i \in bitmap
      BY <3>1, <3>2, FirstClearIsLowest
    <3> HIDE DEF n
    <3>4. p \in pages \ held
      BY <1>0, <3>3, PageAddrOrder
    <3>5. ASSUME NEW q \in pages \ held PROVE p <= q
      <4>1. PICK i \in Indices : q = PageAddr(i)
        OBVIOUS
      <4>2. i \notin bitmap /\ i \in Nat /\ n \in Nat
        BY <1>0, <3>3, <4>1
      <4>3. n <= i
        BY <3>3, <4>2
      <4> QED BY <1>0, <4>1, <4>2, <4>3, PageAddrOrder
    <3>6. held' = held \cup {p} /\ pages' = pages /\ ret' = p
      BY <1>1, <2>1, <3>1 DEF n
    <3> QED BY <3>4, <3>5, <3>6 DEF Pool!Next, Pool!Alloc
  <2>3. CASE ret' = 0 /\ UNCHANGED bitmap
    <3>1. bitmap = Indices
      BY <1>4, <2>3, AllocFails
    <3>2. pages \subseteq held /\ pages' = pages /\ held' = held /\ ret' = 0
      BY <1>1, <2>1, <2>3, <3>1
    <3> QED BY <3>2 DEF Pool!Next, Pool!Alloc
  <2> QED BY <1>4, <2>2, <2>3 DEF page_alloc
<1>5. ASSUME NEW addr \in Pointers, page_free(addr)
      PROVE  Pool!Next
  <2>1. UNCHANGED setup
    BY <1>5 DEF page_free
  <2> DEFINE n == IndexOf(addr)
  <2>2. CASE addr # 0 /\ IsPage(addr) /\ n \in bitmap
    <3>1. bitmap' = bitmap \ {n} /\ ret' = addr
      BY <1>5, <2>2 DEF page_free
    <3>2. addr = PageAddr(n)
      BY <1>0, <2>2, IndexOfPage
    <3> HIDE DEF n
    <3>3. addr \in held
      BY <2>2, <3>2
    <3>4. held' = held \ {addr}
      <4>1. ASSUME NEW i \in bitmap PROVE PageAddr(i) = addr => i = n
        BY <1>0, <2>2, <3>2, PageAddrOrder
      <4> QED BY <1>1, <2>1, <3>1, <3>2, <4>1
    <3>5. pages' = pages
      BY <1>1, <2>1
    <3> QED BY <3>1, <3>3, <3>4, <3>5 DEF Pool!Next, Pool!Free
  <2>3. CASE ret' = 0 /\ UNCHANGED bitmap
    <3>1. pages' = pages /\ held' = held
      BY <1>1, <2>1, <2>3
    <3> QED BY <2>3, <3>1 DEF Pool!Next, Pool!Free
  <2> QED BY <1>5, <2>2, <2>3 DEF page_free
<1> QED BY <1>2, <1>3, <1>4, <1>5 DEF Next

\* The bitmap allocator implements the pool of pages: each allocation hands out the
\* lowest page nobody holds, and only held pages are taken back.
THEOREM ImplementsPool == Spec => ImplementsPagePool
<1>1. Init => Pool!Init
  BY DEF Init, Pool!Init, Indices
<1>2. Inv /\ [Next]_vars => [Pool!Next]_(Pool!poolVars)
  BY PoolStep
<1> QED BY <1>1, <1>2, PageAllocInvariant, PTL DEF Spec, ImplementsPagePool, Pool!PoolSpec
===============================================================================
