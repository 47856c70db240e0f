------------------------------ MODULE ShellProofs -----------------------------
(***************************************************************************)
(* Proofs about the shell, for all built-in files and directories, all     *)
(* sizes of buffers and tables, all programs and all that can be typed.    *)
(***************************************************************************)
EXTENDS Shell, FiniteSetTheorems, WellFoundedInduction, TLAPS

\* A non-empty set of indices has a greatest one.
LEMMA Greatest ==
  ASSUME NEW n \in Nat, NEW T, T \subseteq 1 .. n, T # {}
  PROVE  \E x \in T : \A y \in T : y <= x
<1> DEFINE U == {k \in Nat : k <= n /\ n - k \in T}
<1>1. \E R : /\ IsWellFoundedOn(R, Nat)
             /\ \A x, y \in Nat : x < y => <<x, y>> \in R
  <2>1. \A x, y \in Nat : x < y => <<x, y>> \in OpToRel(<, Nat)
    BY DEF OpToRel
  <2> QED BY <2>1, NatLessThanWellFounded, Zenon
<1>2. PICK R : /\ IsWellFoundedOn(R, Nat)
               /\ \A x, y \in Nat : x < y => <<x, y>> \in R
  BY <1>1
<1>3. U \subseteq Nat /\ U # {}
  <2>1. PICK t \in T : TRUE
    OBVIOUS
  <2>2. n - t \in U
    BY <2>1
  <2> QED BY <2>2
<1> HIDE DEF U
<1>4. PICK x \in U : \A y \in U : ~ (<<y, x>> \in R)
  <2>1. \A Q, S, V : IsWellFoundedOn(Q, S) /\ V \subseteq S /\ V # {}
                       => \E x \in V : \A y \in V : ~ (<<y, x>> \in Q)
    BY WFMin, Zenon
  <2>2. IsWellFoundedOn(R, Nat)
    BY <1>2
  <2>3. \E x \in U : \A y \in U : ~ (<<y, x>> \in R)
    BY <1>3, <2>1, <2>2
  <2> QED BY <2>3, Zenon
<1>5. \A y \in U : ~ (y < x)
  BY <1>2, <1>3, <1>4, Zenon
<1>6. n - x \in T /\ x \in Nat /\ x <= n
  BY <1>4 DEF U
<1>7. ASSUME NEW y \in T PROVE y <= n - x
  <2>1. y \in 1 .. n /\ n - y \in Nat /\ n - (n - y) = y
    OBVIOUS
  <2>2. n - y \in U
    BY <2>1 DEF U
  <2>3. ~ (n - y < x)
    BY <1>5, <2>2
  <2> QED BY <1>6, <2>1, <2>3
<1> QED BY <1>6, <1>7

\* What holds at m and passes from each number to the next holds up to n.
LEMMA Reaches ==
  ASSUME NEW n \in Nat, NEW m \in 0 .. n, NEW T, m \in T, \A k \in m .. n - 1 : k \in T => k + 1 \in T
  PROVE  n \in T
<1> DEFINE Good == {k \in 1 .. n + 1 : k >= m + 1 /\ k - 1 \in T}
           top == n + 1
<1>1. m + 1 \in Good
  OBVIOUS
<1>2. Good \subseteq 1 .. top /\ Good # {} /\ top \in Nat
  BY <1>1
<1> HIDE DEF Good, top
<1>3. PICK x \in Good : \A y \in Good : y <= x
  BY <1>2, Greatest
<1>4. x \in 1 .. n + 1 /\ x >= m + 1 /\ x - 1 \in T
  BY <1>3 DEF Good
<1>5. CASE x = n + 1
  BY <1>4, <1>5
<1>6. CASE x # n + 1
  <2>1. x - 1 \in m .. n - 1 /\ (x - 1) + 1 = x
    BY <1>4, <1>6
  <2>2. x \in T
    BY <1>4, <2>1
  <2>3. x + 1 \in Good
    BY <1>4, <1>6, <2>2 DEF Good
  <2> QED BY <1>3, <1>4, <2>3
<1> QED BY <1>5, <1>6

-------------------------------------------------------------------------------
(* Picked *)

\* u is the function by which Picked runs through the first n items of s.
IsPick(u, s, Places, n) ==
  u = [k \in 0 .. n |-> IF k = 0 THEN <<>>
                        ELSE IF k \in Places THEN Append(u[k - 1], s[k]) ELSE u[k - 1]]

\* The characteristic equations of Picked.
LEMMA PickStep ==
  ASSUME NEW s, NEW Places, NEW n \in Nat, NEW u, IsPick(u, s, Places, n)
  PROVE  /\ u[0] = <<>>
         /\ \A k \in 1 .. n : u[k] = IF k \in Places THEN Append(u[k - 1], s[k]) ELSE u[k - 1]
<1>1. \A k \in 0 .. n : u[k] = IF k = 0 THEN <<>>
                        ELSE IF k \in Places THEN Append(u[k - 1], s[k]) ELSE u[k - 1]
  BY DEF IsPick
<1> QED BY <1>1

LEMMA PickStart == ASSUME NEW s, NEW K, NEW n \in Nat, NEW u, IsPick(u, s, K, n) PROVE u[0] = <<>>
BY PickStep

\* It exists ...
LEMMA PickExists == ASSUME NEW s, NEW Places, NEW m \in Nat PROVE \E u : IsPick(u, s, Places, m)
<1> DEFINE T == {n \in Nat : \E u : IsPick(u, s, Places, n)}
<1>1. 0 \in T
  <2> DEFINE u == [k \in 0 .. 0 |-> <<>>]
  <2>1. IsPick(u, s, Places, 0)
    BY DEF IsPick
  <2> QED BY <2>1
<1>2. ASSUME NEW n \in 0 .. m - 1, n \in T PROVE n + 1 \in T
  <2>1. PICK u : IsPick(u, s, Places, n)
    BY <1>2
  <2> DEFINE last == IF n + 1 \in Places THEN Append(u[n], s[n + 1]) ELSE u[n]
             new == [k \in 0 .. n + 1 |-> IF k = n + 1 THEN last ELSE u[k]]
  <2>2. n \in Nat
    OBVIOUS
  <2>3. /\ u[0] = <<>>
        /\ \A k \in 1 .. n : u[k] = IF k \in Places THEN Append(u[k - 1], s[k]) ELSE u[k - 1]
    BY <2>1, <2>2, PickStep
  <2>4. ASSUME NEW k \in 0 .. n + 1
        PROVE  new[k] = IF k = 0 THEN <<>>
                        ELSE IF k \in Places THEN Append(new[k - 1], s[k]) ELSE new[k - 1]
    <3>1. CASE k = 0
      BY <2>3, <3>1
    <3>2. CASE k \in 1 .. n
      <4>1. new[k] = u[k] /\ new[k - 1] = u[k - 1] /\ k # 0
        BY <3>2
      <4> HIDE DEF new
      <4> QED BY <2>3, <3>2, <4>1
    <3>3. CASE k = n + 1
      <4>1. new[k] = last /\ new[k - 1] = u[n] /\ k # 0
        BY <3>3
      <4> HIDE DEF new
      <4> QED BY <3>3, <4>1
    <3> QED BY <3>1, <3>2, <3>3
  <2>5. IsPick(new, s, Places, n + 1)
    <3>1. new = [k \in 0 .. n + 1 |-> new[k]]
      OBVIOUS
    <3> HIDE DEF new
    <3> QED BY <2>4, <3>1 DEF IsPick
  <2> HIDE DEF new
  <2>6. n + 1 \in Nat
    OBVIOUS
  <2> QED BY <2>5, <2>6
<1>3. m \in T
  <2>1. 0 \in 0 .. m
    OBVIOUS
  <2> HIDE DEF T
  <2> QED BY <1>1, <1>2, <2>1, Reaches
<1> QED BY <1>3

LEMMA PickedIs ==
  ASSUME NEW s, NEW Places, Len(s) \in Nat
  PROVE  \E u : IsPick(u, s, Places, Len(s)) /\ Picked(s, Places) = u[Len(s)]
<1> DEFINE W == CHOOSE u : IsPick(u, s, Places, Len(s))
<1>1. Picked(s, Places) = W[Len(s)]
  BY Zenon DEF Picked, IsPick
<1>2. \E u : IsPick(u, s, Places, Len(s))
  BY PickExists
<1>3. IsPick(W, s, Places, Len(s))
  BY <1>2
<1> QED BY <1>1, <1>3

\* Two runs agree as long as they see the same items at the same places.
SameUpTo(h, s, K, t, L) == \A k \in 1 .. h : s[k] = t[k] /\ (k \in K <=> k \in L)

\* Picks from sequences that agree up to a place agree there.
LEMMA PickAgree ==
  ASSUME NEW s, NEW K, NEW n \in Nat, NEW u, IsPick(u, s, K, n),
         NEW t, NEW L, NEW m \in Nat, NEW w, IsPick(w, t, L, m),
         NEW h \in Nat, h <= n, h <= m, SameUpTo(h, s, K, t, L)
  PROVE  u[h] = w[h]
<1> DEFINE T == {k \in 0 .. h : u[k] = w[k]}
<1>1. u[0] = <<>> /\ w[0] = <<>>
  <2>1. u[0] = <<>>
    BY PickStart
  <2>2. w[0] = <<>>
    BY PickStart
  <2> QED BY <2>1, <2>2
<1>2. \A k \in 1 .. n : u[k] = IF k \in K THEN Append(u[k - 1], s[k]) ELSE u[k - 1]
  BY PickStep
<1>3. \A k \in 1 .. m : w[k] = IF k \in L THEN Append(w[k - 1], t[k]) ELSE w[k - 1]
  BY PickStep
<1>4. 0 \in T
  BY <1>1
<1>5. ASSUME NEW k \in 0 .. h - 1, k \in T PROVE k + 1 \in T
  <2>1. k + 1 \in 1 .. h /\ k + 1 \in 1 .. n /\ k + 1 \in 1 .. m /\ (k + 1) - 1 = k
    OBVIOUS
  <2>2. u[k + 1] = IF k + 1 \in K THEN Append(u[k], s[k + 1]) ELSE u[k]
    BY <1>2, <2>1
  <2>3. w[k + 1] = IF k + 1 \in L THEN Append(w[k], t[k + 1]) ELSE w[k]
    BY <1>3, <2>1
  <2>4. s[k + 1] = t[k + 1] /\ (k + 1 \in K <=> k + 1 \in L)
    BY <2>1 DEF SameUpTo
  <2>5. u[k] = w[k]
    BY <1>5
  <2>6. u[k + 1] = w[k + 1]
    BY <2>2, <2>3, <2>4, <2>5, Zenon
  <2> QED BY <2>1, <2>6
<1>6. 0 \in 0 .. h
  OBVIOUS
<1> HIDE DEF T
<1>7. h \in T
  BY <1>4, <1>5, <1>6, Reaches
<1> QED BY <1>7 DEF T

\* Behind the last of its places, a run adds nothing.
NoneBehind(m, K, n) == \A k \in 1 .. n : k \in K => k <= m

LEMMA PickRest ==
  ASSUME NEW s, NEW K, NEW n \in Nat, NEW u, IsPick(u, s, K, n),
         NEW m \in 0 .. n, NoneBehind(m, K, n)
  PROVE  u[n] = u[m]
<1> DEFINE T == {k \in 0 .. n : u[k] = u[m]}
<1>1. \A k \in 1 .. n : u[k] = IF k \in K THEN Append(u[k - 1], s[k]) ELSE u[k - 1]
  BY PickStep
<1>2. m \in T
  OBVIOUS
<1>3. ASSUME NEW k \in m .. n - 1, k \in T PROVE k + 1 \in T
  <2>1. k + 1 \in 1 .. n /\ k + 1 > m /\ (k + 1) - 1 = k
    OBVIOUS
  <2>2. u[k + 1] = IF k + 1 \in K THEN Append(u[k], s[k + 1]) ELSE u[k]
    BY <1>1, <2>1
  <2> QED BY <1>3, <2>1, <2>2 DEF NoneBehind
<1> HIDE DEF T
<1>4. n \in T
  BY <1>2, <1>3, Reaches
<1> QED BY <1>4 DEF T

LEMMA PickType ==
  ASSUME NEW S, NEW s \in Seq(S), NEW K, NEW u, IsPick(u, s, K, Len(s))
  PROVE  u[Len(s)] \in Seq(S)
<1> DEFINE n == Len(s)
           T == {k \in 0 .. n : u[k] \in Seq(S)}
<1>0. n \in Nat /\ \A k \in 1 .. n : s[k] \in S
  OBVIOUS
<1>1. u[0] = <<>> /\ \A k \in 1 .. n : u[k] = IF k \in K THEN Append(u[k - 1], s[k]) ELSE u[k - 1]
  BY <1>0, PickStep
<1> HIDE DEF n
<1>2. 0 \in T
  <2>1. <<>> \in Seq(S) /\ 0 \in 0 .. n
    BY <1>0
  <2> QED BY <1>1, <2>1
<1>3. ASSUME NEW k \in 0 .. n - 1, k \in T PROVE k + 1 \in T
  <2>1. k + 1 \in 1 .. n /\ (k + 1) - 1 = k
    BY <1>0
  <2>2. u[k + 1] = IF k + 1 \in K THEN Append(u[k], s[k + 1]) ELSE u[k]
    BY <1>1, <2>1
  <2>3. u[k] \in Seq(S)
    BY <1>3
  <2>4. Append(u[k], s[k + 1]) \in Seq(S)
    BY <1>0, <2>1, <2>3
  <2>5. u[k + 1] \in Seq(S)
    BY <2>2, <2>3, <2>4
  <2> QED BY <1>0, <2>1, <2>5
<1>4. 0 \in 0 .. n
  BY <1>0
<1> HIDE DEF T
<1>5. n \in T
  BY <1>0, <1>2, <1>3, <1>4, Reaches
<1> QED BY <1>5 DEF T, n

LEMMA PickedType ==
  ASSUME NEW S, NEW s \in Seq(S), NEW K
  PROVE  Picked(s, K) \in Seq(S)
<1>1. Len(s) \in Nat
  OBVIOUS
<1>2. PICK u : IsPick(u, s, K, Len(s)) /\ Picked(s, K) = u[Len(s)]
  BY <1>1, PickedIs
<1> QED BY <1>2, PickType

\* One more item.
LEMMA PickedAppend ==
  ASSUME NEW S, NEW s \in Seq(S), NEW x \in S, NEW K
  PROVE  Picked(Append(s, x), K)
           = IF Len(s) + 1 \in K THEN Append(Picked(s, K), x) ELSE Picked(s, K)
<1> DEFINE n == Len(s)
           t == Append(s, x)
<1>1. n \in Nat /\ Len(t) = n + 1 /\ n + 1 \in Nat /\ t[n + 1] = x /\ \A k \in 1 .. n : s[k] = t[k]
  OBVIOUS
<1> HIDE DEF t
<1>2. PICK u : IsPick(u, s, K, n) /\ Picked(s, K) = u[n]
  BY <1>1, PickedIs
<1>3. PICK w : IsPick(w, t, K, n + 1) /\ Picked(t, K) = w[n + 1]
  <2>1. Len(t) \in Nat
    BY <1>1
  <2>2. PICK w : IsPick(w, t, K, Len(t)) /\ Picked(t, K) = w[Len(t)]
    BY <2>1, PickedIs
  <2> QED BY <1>1, <2>2
<1> HIDE DEF n
<1>4. n <= n /\ n <= n + 1
  BY <1>1
<1>5. u[n] = w[n]
  <2>1. SameUpTo(n, s, K, t, K)
    BY <1>1 DEF SameUpTo
  <2> QED BY <1>1, <1>2, <1>3, <1>4, <2>1, PickAgree
<1>6. w[n + 1] = IF n + 1 \in K THEN Append(w[n], t[n + 1]) ELSE w[n]
  <2>1. \A k \in 1 .. n + 1 : w[k] = IF k \in K THEN Append(w[k - 1], t[k]) ELSE w[k - 1]
    BY <1>1, <1>3, PickStep
  <2>2. n + 1 \in 1 .. n + 1 /\ (n + 1) - 1 = n
    BY <1>1
  <2> QED BY <2>1, <2>2
<1>7. Picked(t, K) = IF n + 1 \in K THEN Append(Picked(s, K), x) ELSE Picked(s, K)
  BY <1>1, <1>2, <1>3, <1>5, <1>6
<1> QED BY <1>7 DEF n, t

\* Only the places inside the sequence count.
LEMMA PickedSame ==
  ASSUME NEW s, Len(s) \in Nat, NEW K, NEW L, \A k \in 1 .. Len(s) : k \in K <=> k \in L
  PROVE  Picked(s, K) = Picked(s, L)
<1> DEFINE n == Len(s)
<1>1. PICK u : IsPick(u, s, K, n) /\ Picked(s, K) = u[n]
  BY PickedIs
<1>2. PICK w : IsPick(w, s, L, n) /\ Picked(s, L) = w[n]
  BY PickedIs
<1>3. n <= n /\ SameUpTo(n, s, K, s, L)
  BY DEF SameUpTo
<1>4. n \in Nat
  OBVIOUS
<1> HIDE DEF n
<1>5. u[n] = w[n]
  BY <1>1, <1>2, <1>3, <1>4, PickAgree
<1> QED BY <1>1, <1>2, <1>5

LEMMA PickedNone ==
  ASSUME NEW s, Len(s) \in Nat, NEW K, \A k \in 1 .. Len(s) : k \notin K
  PROVE  Picked(s, K) = <<>>
<1>1. PICK u : IsPick(u, s, K, Len(s)) /\ Picked(s, K) = u[Len(s)]
  BY PickedIs
<1>2. 0 \in 0 .. Len(s) /\ NoneBehind(0, K, Len(s))
  BY DEF NoneBehind
<1>3. u[Len(s)] = u[0]
  BY <1>1, <1>2, PickRest
<1> QED BY <1>1, <1>3, PickStep

\* The last of the places gives the last item.
LEMMA PickedLast ==
  ASSUME NEW S, NEW s \in Seq(S), NEW K, NEW m \in 1 .. Len(s), m \in K,
         \A k \in 1 .. Len(s) : k \in K => k <= m
  PROVE  Picked(s, K) = Append(Picked(s, K \ {m}), s[m])
<1> DEFINE n == Len(s)
           L == K \ {m}
           h == m - 1
<1>1. n \in Nat /\ m \in 0 .. n /\ m \in 1 .. n /\ h \in 0 .. n /\ h \in Nat /\ h <= n
  OBVIOUS
<1>2. PICK u : IsPick(u, s, K, n) /\ Picked(s, K) = u[n]
  BY <1>1, PickedIs
<1>3. PICK w : IsPick(w, s, L, n) /\ Picked(s, L) = w[n]
  BY <1>1, PickedIs
<1>4. NoneBehind(m, K, n) /\ NoneBehind(h, L, n) /\ SameUpTo(h, s, K, s, L)
  BY DEF NoneBehind, SameUpTo
<1>5. u[m] = Append(u[h], s[m])
  <2>1. \A k \in 1 .. n : u[k] = IF k \in K THEN Append(u[k - 1], s[k]) ELSE u[k - 1]
    BY <1>1, <1>2, PickStep
  <2> QED BY <1>1, <2>1
<1> HIDE DEF n, L, h
<1>6. u[n] = u[m]
  BY <1>1, <1>2, <1>4, PickRest
<1>7. w[n] = w[h]
  BY <1>1, <1>3, <1>4, PickRest
<1>8. u[h] = w[h]
  BY <1>1, <1>2, <1>3, <1>4, PickAgree
<1>9. Picked(s, K) = Append(Picked(s, L), s[m])
  BY <1>2, <1>3, <1>5, <1>6, <1>7, <1>8
<1> QED BY <1>9 DEF L

-------------------------------------------------------------------------------
(* Uncancelled *)

Undos(s, U, i, j) == {k \in i .. j : s[k] \in U}

\* By how many the other items outnumber the undos, from place i to place j.
Excess(s, U, i, j) == (j - i + 1) - 2 * Cardinality(Undos(s, U, i, j))

Stays(s, U, i) == \A j \in i .. Len(s) : Excess(s, U, i, j) >= 1

Staying(s, U) == {i \in DOMAIN s : Stays(s, U, i)}

LEMMA UndosFinite ==
  ASSUME NEW s, NEW U, NEW i \in Int, NEW j \in Int
  PROVE  IsFiniteSet(Undos(s, U, i, j)) /\ Cardinality(Undos(s, U, i, j)) \in Nat
<1>1. IsFiniteSet(i .. j)
  BY FS_Interval
<1>2. Undos(s, U, i, j) \subseteq i .. j
  BY DEF Undos
<1>3. IsFiniteSet(Undos(s, U, i, j))
  BY <1>1, <1>2, FS_Subset
<1> QED BY <1>3, FS_CardinalityType

LEMMA ExcessInt ==
  ASSUME NEW s, NEW U, NEW i \in Int, NEW j \in Int
  PROVE  Excess(s, U, i, j) \in Int
BY UndosFinite DEF Excess

\* Uncancelled, through the excess of items over undos.
LEMMA UncancelledIs ==
  ASSUME NEW S, NEW s \in Seq(S), NEW U
  PROVE  Uncancelled(s, U) = Picked(s, Staying(s, U))
<1> DEFINE K == {i \in DOMAIN s : \A j \in i .. Len(s) :
                   2 * Cardinality({k \in i .. j : s[k] \in U}) < j - i + 1}
<1>1. Uncancelled(s, U) = Picked(s, K)
  BY Zenon DEF Uncancelled
<1>2. K = Staying(s, U)
  <2>1. ASSUME NEW i \in DOMAIN s, NEW j \in i .. Len(s)
        PROVE  2 * Cardinality(Undos(s, U, i, j)) < j - i + 1 <=> Excess(s, U, i, j) >= 1
    <3>1. i \in Int /\ j \in Int
      OBVIOUS
    <3>2. Cardinality(Undos(s, U, i, j)) \in Nat
      BY <3>1, UndosFinite
    <3> QED BY <3>1, <3>2 DEF Excess
  <2> QED BY <2>1 DEF Staying, Stays, Undos
<1> QED BY <1>1, <1>2

LEMMA ExcessOne ==
  ASSUME NEW s, NEW U, NEW i \in Int
  PROVE  Excess(s, U, i, i) = IF s[i] \in U THEN -1 ELSE 1
<1>1. i .. i = {i}
  OBVIOUS
<1>2. CASE s[i] \in U
  <2>1. Undos(s, U, i, i) = {i}
    BY <1>1, <1>2 DEF Undos
  <2>2. Cardinality({i}) = 1
    BY FS_Singleton
  <2> QED BY <1>2, <2>1, <2>2 DEF Excess
<1>3. CASE s[i] \notin U
  <2>1. Undos(s, U, i, i) = {}
    BY <1>1, <1>3 DEF Undos
  <2>2. Cardinality({}) = 0
    BY FS_EmptySet
  <2> QED BY <1>3, <2>1, <2>2 DEF Excess
<1> QED BY <1>2, <1>3

LEMMA ExcessSum ==
  ASSUME NEW s, NEW U, NEW i \in Int, NEW j \in Int, NEW k \in Int, i <= j + 1, j < k
  PROVE  Excess(s, U, i, k) = Excess(s, U, i, j) + Excess(s, U, j + 1, k)
<1> DEFINE A == Undos(s, U, i, j)
           B == Undos(s, U, j + 1, k)
           C == Undos(s, U, i, k)
<1>1. C = A \cup B /\ A \cap B = {}
  BY DEF Undos
<1>2. j + 1 \in Int
  OBVIOUS
<1>3. IsFiniteSet(A) /\ IsFiniteSet(B) /\ Cardinality(A) \in Nat /\ Cardinality(B) \in Nat
  BY <1>2, UndosFinite
<1> HIDE DEF A, B, C
<1>4. Cardinality(A \cup B) = Cardinality(A) + Cardinality(B) - Cardinality(A \cap B)
  BY <1>3, FS_Union
<1>5. Cardinality({}) = 0
  BY FS_EmptySet
<1>6. Cardinality(C) = Cardinality(A) + Cardinality(B)
  <2>1. Cardinality(A \cap B) = 0
    BY <1>1, <1>5
  <2>2. Cardinality(C) = Cardinality(A) + Cardinality(B) - Cardinality(A \cap B)
    BY <1>1, <1>4
  <2> QED BY <1>3, <2>1, <2>2
<1> QED BY <1>3, <1>6 DEF Excess, A, B, C

\* An item behind j does not change what lies up to j.
LEMMA ExcessSame ==
  ASSUME NEW s, NEW t, NEW U, NEW i \in Int, NEW j \in Int, \A k \in i .. j : s[k] = t[k]
  PROVE  Excess(s, U, i, j) = Excess(t, U, i, j)
<1>1. Undos(s, U, i, j) = Undos(t, U, i, j)
  BY DEF Undos
<1> QED BY <1>1 DEF Excess

\* Which items stay when one more comes.
LEMMA StaysAppend ==
  ASSUME NEW S, NEW s \in Seq(S), NEW x \in S, NEW U, NEW i \in 1 .. Len(s)
  PROVE  Stays(Append(s, x), U, i)
           <=> Stays(s, U, i) /\ Excess(s, U, i, Len(s)) + (IF x \in U THEN -1 ELSE 1) >= 1
<1> DEFINE n == Len(s)
           t == Append(s, x)
<1>1. n \in Nat /\ Len(t) = n + 1 /\ t[n + 1] = x /\ \A k \in 1 .. n : s[k] = t[k]
  OBVIOUS
<1> HIDE DEF t, n
<1>2. i \in 1 .. n
  BY DEF n
<1>3. ASSUME NEW j \in i .. n PROVE Excess(t, U, i, j) = Excess(s, U, i, j)
  <2>1. i \in Int /\ j \in Int /\ \A k \in i .. j : s[k] = t[k]
    BY <1>1, <1>2
  <2> QED BY <2>1, ExcessSame
<1>4. Excess(t, U, n + 1, n + 1) = IF x \in U THEN -1 ELSE 1
  <2>1. n + 1 \in Int
    BY <1>1
  <2>2. Excess(t, U, n + 1, n + 1) = IF t[n + 1] \in U THEN -1 ELSE 1
    BY <2>1, ExcessOne
  <2> QED BY <1>1, <2>2
<1>5. Excess(t, U, i, n + 1) = Excess(s, U, i, n) + (IF x \in U THEN -1 ELSE 1)
  <2>1. i \in Int /\ n \in Int /\ n + 1 \in Int /\ i <= n + 1 /\ n < n + 1
    BY <1>1, <1>2
  <2>2. Excess(t, U, i, n + 1) = Excess(t, U, i, n) + Excess(t, U, n + 1, n + 1)
    BY <2>1, ExcessSum
  <2>3. Excess(t, U, i, n) = Excess(s, U, i, n)
    BY <1>1, <1>2, <1>3
  <2> QED BY <1>4, <2>2, <2>3
<1>6. \A j : j \in i .. n + 1 <=> (j \in i .. n \/ j = n + 1)
  BY <1>1, <1>2
<1>7. Stays(t, U, i) <=> (\A j \in i .. n : Excess(s, U, i, j) >= 1) /\ Excess(t, U, i, n + 1) >= 1
  <2>1. Stays(t, U, i) <=> \A j \in i .. n + 1 : Excess(t, U, i, j) >= 1
    BY <1>1 DEF Stays
  <2> QED BY <1>3, <1>6, <2>1
<1> QED BY <1>5, <1>7 DEF Stays, n, t

\* The item that comes last stays unless it is an undo.
LEMMA StaysLast ==
  ASSUME NEW S, NEW s \in Seq(S), NEW x \in S, NEW U
  PROVE  Stays(Append(s, x), U, Len(s) + 1) <=> x \notin U
<1> DEFINE m == Len(s) + 1
           t == Append(s, x)
<1>1. m \in Int /\ Len(t) = m /\ t[m] = x /\ m .. m = {m}
  OBVIOUS
<1> HIDE DEF t, m
<1>2. Excess(t, U, m, m) = IF t[m] \in U THEN -1 ELSE 1
  BY <1>1, ExcessOne
<1>3. Stays(t, U, m) <=> Excess(t, U, m, m) >= 1
  BY <1>1 DEF Stays
<1> QED BY <1>1, <1>2, <1>3 DEF m, t

\* A last item that is no undo stays, and changes nothing for the others.
LEMMA UncancelledAdds ==
  ASSUME NEW S, NEW s \in Seq(S), NEW x \in S, NEW U, x \notin U
  PROVE  Uncancelled(Append(s, x), U) = Append(Uncancelled(s, U), x)
<1> DEFINE n == Len(s)
           t == Append(s, x)
           K == Staying(s, U)
           M == Staying(t, U)
<1>1. t \in Seq(S) /\ n \in Nat /\ Len(t) = n + 1 /\ DOMAIN s = 1 .. n /\ DOMAIN t = 1 .. n + 1
  OBVIOUS
<1>2. ASSUME NEW i \in 1 .. n PROVE i \in K <=> i \in M
  <2>1. Stays(t, U, i) <=> Stays(s, U, i) /\ Excess(s, U, i, n) + 1 >= 1
    BY StaysAppend
  <2>2. Stays(s, U, i) => Excess(s, U, i, n) >= 1
    BY <1>1 DEF Stays
  <2>3. Excess(s, U, i, n) \in Int
    BY <1>1, ExcessInt
  <2>4. i \in DOMAIN s /\ i \in DOMAIN t
    BY <1>1
  <2> HIDE DEF t, n
  <2>5. Stays(t, U, i) <=> Stays(s, U, i)
    BY <2>1, <2>2, <2>3
  <2> QED BY <2>4, <2>5 DEF Staying
<1>3. n + 1 \in M
  <2>1. Stays(t, U, n + 1)
    BY StaysLast
  <2>2. n + 1 \in DOMAIN t
    BY <1>1
  <2> HIDE DEF t, n
  <2> QED BY <2>1, <2>2 DEF Staying
<1>4. Uncancelled(t, U) = Picked(t, M)
  BY <1>1, UncancelledIs
<1>5. Uncancelled(s, U) = Picked(s, K)
  BY UncancelledIs
<1> HIDE DEF K, M
<1>6. Picked(t, M) = IF n + 1 \in M THEN Append(Picked(s, M), x) ELSE Picked(s, M)
  BY PickedAppend
<1> HIDE DEF t
<1>7. Picked(s, K) = Picked(s, M)
  BY <1>1, <1>2, PickedSame
<1>8. Uncancelled(t, U) = Append(Uncancelled(s, U), x)
  BY <1>3, <1>4, <1>5, <1>6, <1>7
<1> QED BY <1>8 DEF t

\* The last item that stays is outnumbered by one undo more: else an item behind it
\* would stay too.
LEMMA LastStaying ==
  ASSUME NEW S, NEW s \in Seq(S), NEW U, NEW m \in Staying(s, U),
         \A i \in Staying(s, U) : i <= m
  PROVE  Excess(s, U, m, Len(s)) = 1
<1> DEFINE n == Len(s)
           E(i, j) == Excess(s, U, i, j)
<1>1. n \in Nat /\ m \in 1 .. n /\ DOMAIN s = 1 .. n
  BY DEF Staying
<1>2. \A j \in m .. n : E(m, j) >= 1
  BY DEF Staying, Stays
<1>3. \A i, j \in Int : E(i, j) \in Int
  BY ExcessInt
<1>4. \A i, j, k \in Int : i <= j + 1 /\ j < k => E(i, k) = E(i, j) + E(j + 1, k)
  BY ExcessSum
<1>5. E(m, m) = 1
  <2>1. m \in Int
    BY <1>1
  <2>2. E(m, m) \in {-1, 1}
    BY <2>1, ExcessOne
  <2>3. m \in m .. n
    BY <1>1
  <2>4. E(m, m) >= 1
    BY <1>2, <2>3
  <2> HIDE DEF E
  <2> QED BY <2>2, <2>4
<1>6. \A i \in 1 .. n : (\A j \in i .. n : E(i, j) >= 1) => i <= m
  BY <1>1 DEF Staying, Stays
<1> HIDE DEF E, n
<1>7. SUFFICES ASSUME E(m, n) # 1 PROVE FALSE
  BY DEF E, n
<1> DEFINE J == {j \in 1 .. n : m <= j /\ E(m, j) = 1}
<1>8. J \subseteq 1 .. n /\ J # {}
  <2>1. m \in J
    BY <1>1, <1>5
  <2> QED BY <2>1
<1>9. PICK j \in J : \A y \in J : y <= j
  <2> HIDE DEF J
  <2> QED BY <1>1, <1>8, Greatest
<1>10. j \in 1 .. n /\ m <= j /\ E(m, j) = 1 /\ j # n
  BY <1>7, <1>9
<1>11. ASSUME NEW k \in j + 1 .. n PROVE E(j + 1, k) >= 1
  <2>1. m \in Int /\ j \in Int /\ k \in Int /\ m <= j + 1 /\ j < k /\ j + 1 \in Int
        /\ k \in m .. n /\ k \in 1 .. n
    BY <1>1, <1>10
  <2>2. E(m, k) = E(m, j) + E(j + 1, k)
    BY <1>4, <2>1
  <2>3. E(m, k) >= 1
    BY <1>2, <2>1
  <2>4. E(m, k) # 1
    <3>1. ~ (k <= j)
      BY <2>1
    <3>2. k \notin J
      BY <1>9, <3>1
    <3> QED BY <2>1, <3>2
  <2>5. E(m, k) \in Int /\ E(j + 1, k) \in Int
    BY <1>3, <2>1
  <2> QED BY <1>10, <2>2, <2>3, <2>4, <2>5
<1>12. j + 1 \in 1 .. n /\ ~ (j + 1 <= m)
  BY <1>1, <1>10
<1> QED BY <1>6, <1>11, <1>12

\* An undo takes back the last item that is still there, if any.
LEMMA UncancelledUndoes ==
  ASSUME NEW S, NEW s \in Seq(S), NEW x \in S, NEW U, x \in U
  PROVE  Uncancelled(Append(s, x), U)
           = IF Uncancelled(s, U) = <<>> THEN <<>> ELSE Front(Uncancelled(s, U))
<1> DEFINE n == Len(s)
           t == Append(s, x)
           K == Staying(s, U)
           M == Staying(t, U)
<1>1. t \in Seq(S) /\ n \in Nat /\ Len(t) = n + 1 /\ DOMAIN s = 1 .. n /\ DOMAIN t = 1 .. n + 1
  OBVIOUS
<1>2. ASSUME NEW i \in 1 .. n PROVE i \in M <=> i \in K /\ Excess(s, U, i, n) >= 2
  <2>1. Stays(t, U, i) <=> Stays(s, U, i) /\ Excess(s, U, i, n) + (-1) >= 1
    BY StaysAppend
  <2>3. Excess(s, U, i, n) \in Int
    BY <1>1, ExcessInt
  <2>4. i \in DOMAIN s /\ i \in DOMAIN t
    BY <1>1
  <2> HIDE DEF t, n
  <2>5. Stays(t, U, i) <=> Stays(s, U, i) /\ Excess(s, U, i, n) >= 2
    BY <2>1, <2>3
  <2> QED BY <2>4, <2>5 DEF Staying
<1>3. n + 1 \notin M
  <2>1. ~ Stays(t, U, n + 1)
    BY StaysLast
  <2> HIDE DEF t, n
  <2> QED BY <2>1 DEF Staying
<1>4. Uncancelled(t, U) = Picked(t, M)
  BY <1>1, UncancelledIs
<1>5. Uncancelled(s, U) = Picked(s, K)
  BY UncancelledIs
<1>6. K \subseteq 1 .. n
  BY <1>1 DEF Staying
<1>7. \A i \in K : \A j \in i .. n : Excess(s, U, i, j) >= 1
  BY DEF Staying, Stays
<1>8. \A m \in K : (\A i \in K : i <= m) => Excess(s, U, m, n) = 1
  BY LastStaying
<1> HIDE DEF K, M
<1>9. Picked(t, M) = Picked(s, M)
  BY <1>3, PickedAppend
<1> HIDE DEF t, n
<1>10. s \in Seq(S) /\ n = Len(s)
  BY DEF n
<1>11. CASE K = {}
  <2>1. Picked(s, K) = <<>>
    BY <1>1, <1>10, <1>11, PickedNone
  <2>2. \A k \in 1 .. Len(s) : k \notin M
    BY <1>2, <1>10, <1>11
  <2>3. Picked(s, M) = <<>>
    BY <1>1, <1>10, <2>2, PickedNone
  <2>4. Uncancelled(t, U) = <<>> /\ Uncancelled(s, U) = <<>>
    BY <1>4, <1>5, <1>9, <2>1, <2>3
  <2> QED BY <2>4 DEF t
<1>12. CASE K # {}
  <2>1. PICK m \in K : \A i \in K : i <= m
    BY <1>1, <1>6, <1>12, Greatest
  <2>2. Excess(s, U, m, n) = 1
    BY <1>8, <2>1
  <2>3. m \in 1 .. Len(s) /\ \A k \in 1 .. Len(s) : k \in K => k <= m
    BY <1>6, <1>10, <2>1
  <2>4. ASSUME NEW i \in K, i # m PROVE Excess(s, U, i, n) >= 2
    <3>1. i \in 1 .. n /\ m \in 1 .. n /\ i < m
      BY <1>6, <2>1, <2>4
    <3> DEFINE h == m - 1
    <3>2. i \in Int /\ h \in Int /\ n \in Int /\ i <= h + 1 /\ h < n /\ h + 1 = m /\ h \in i .. n
      BY <1>1, <3>1
    <3> HIDE DEF h
    <3>3. Excess(s, U, i, n) = Excess(s, U, i, h) + Excess(s, U, h + 1, n)
      BY <3>2, ExcessSum
    <3>4. Excess(s, U, i, h) >= 1 /\ Excess(s, U, i, h) \in Int
      BY <1>7, <3>2, ExcessInt
    <3> QED BY <2>2, <3>2, <3>3, <3>4
  <2>5. \A k \in 1 .. Len(s) : k \in M <=> k \in K \ {m}
    BY <1>2, <1>10, <2>2, <2>4
  <2>6. Picked(s, M) = Picked(s, K \ {m})
    BY <1>1, <1>10, <2>5, PickedSame
  <2>7. Picked(s, K) = Append(Picked(s, K \ {m}), s[m])
    BY <2>1, <2>3, PickedLast
  <2>8. Picked(s, K \ {m}) \in Seq(S) /\ s[m] \in S
    BY <2>3, PickedType
  <2> DEFINE q == Picked(s, K \ {m})
             y == s[m]
  <2>9. Uncancelled(t, U) = q /\ Uncancelled(s, U) = Append(q, y) /\ q \in Seq(S) /\ y \in S
    BY <1>4, <1>5, <1>9, <2>6, <2>7, <2>8
  <2> HIDE DEF q, y
  <2>10. Append(q, y) # <<>> /\ Front(Append(q, y)) = q
    BY <2>9 DEF Front
  <2>11. Uncancelled(t, U) = IF Uncancelled(s, U) = <<>> THEN <<>> ELSE Front(Uncancelled(s, U))
    BY <2>9, <2>10
  <2> QED BY <2>11 DEF t
<1> QED BY <1>11, <1>12

-------------------------------------------------------------------------------
(* The line editor *)

Overfull(bytes) == \E n \in DOMAIN bytes : Len(Uncancelled(Cut(bytes, n), Erase)) >= BufferSize

\* A byte that ends a line leaves nothing of it.
LEMMA CountedEnd ==
  ASSUME NEW bytes \in Seq(Char), NEW x \in {CR, LF} PROVE Counted(Append(bytes, x)) = <<>>
<1> DEFINE t == Append(bytes, x)
           M == {i \in DOMAIN t : /\ t[i] \in Printable \cup Erase
                                  /\ \A j \in i .. Len(t) : t[j] \notin {CR, LF}}
<1>1. t \in Seq(Char) /\ Len(t) \in Nat /\ t[Len(t)] = x /\ DOMAIN t = 1 .. Len(t)
  BY DEF CR, LF, Char
<1>2. \A i \in 1 .. Len(t) : i \notin M
  <2> HIDE DEF t
  <2> QED BY <1>1
<1> HIDE DEF M, t
<1>3. Picked(t, M) = <<>>
  BY <1>1, <1>2, PickedNone
<1> QED BY <1>3 DEF Counted, M, t

LEMMA EmptyLine ==
  Uncancelled(<<>>, Erase) = <<>> /\ \A x \in {CR, LF} : Counted(<<x>>) = <<>>
<1>1. <<>> \in Seq(Char) /\ Len(<<>>) \in Nat /\ \A K : \A k \in 1 .. Len(<<>>) : k \notin K
  OBVIOUS
<1>2. \A K : Picked(<<>>, K) = <<>>
  BY <1>1, PickedNone
<1>3. ASSUME NEW x \in {CR, LF} PROVE Counted(<<x>>) = <<>>
  <2>1. <<x>> = Append(<<>>, x)
    OBVIOUS
  <2> QED BY <1>1, <2>1, CountedEnd
<1> QED BY <1>1, <1>2, <1>3, UncancelledIs

LEMMA CountedAppend ==
  ASSUME NEW bytes \in Seq(Char), NEW x \in Char, x \notin {CR, LF}
  PROVE  /\ Counted(bytes) \in Seq(Char)
         /\ Counted(Append(bytes, x))
              = IF x \in Printable \cup Erase THEN Append(Counted(bytes), x) ELSE Counted(bytes)
<1> DEFINE n == Len(bytes)
           t == Append(bytes, x)
           K == {i \in DOMAIN bytes : /\ bytes[i] \in Printable \cup Erase
                                      /\ \A j \in i .. Len(bytes) : bytes[j] \notin {CR, LF}}
           M == {i \in DOMAIN t : /\ t[i] \in Printable \cup Erase
                                  /\ \A j \in i .. Len(t) : t[j] \notin {CR, LF}}
<1>0. /\ n \in Nat /\ Len(t) = n + 1 /\ DOMAIN t = 1 .. n + 1 /\ DOMAIN bytes = 1 .. n
      /\ t[n + 1] = x /\ \A i \in 1 .. n : t[i] = bytes[i]
  OBVIOUS
<1>1. \A i \in 1 .. n : i \in K <=> i \in M
  <2> HIDE DEF t, n
  <2>1. ASSUME NEW i \in 1 .. n
        PROVE  (\A j \in i .. n : bytes[j] \notin {CR, LF}) <=> (\A j \in i .. n + 1 : t[j] \notin {CR, LF})
    BY <1>0
  <2> QED BY <1>0, <2>1 DEF n
<1>2. n + 1 \in M <=> x \in Printable \cup Erase
  <2> HIDE DEF t, n
  <2> QED BY <1>0
<1> HIDE DEF M, K
<1>3. Picked(t, M) = IF n + 1 \in M THEN Append(Picked(bytes, M), x) ELSE Picked(bytes, M)
  BY PickedAppend
<1>4. Picked(bytes, K) = Picked(bytes, M)
  BY <1>1, PickedSame
<1>5. Counted(bytes) = Picked(bytes, K) /\ Counted(t) = Picked(t, M)
  BY DEF Counted, K, M
<1>6. Picked(bytes, K) \in Seq(Char)
  BY PickedType
<1> QED BY <1>2, <1>3, <1>4, <1>5, <1>6

\* A byte ends one more line, or none.
LEMMA EndsAppend ==
  ASSUME NEW bytes \in Seq(Char), bytes # <<>>, NEW x \in Char
  PROVE  /\ Cardinality(LineEnds(bytes)) \in Nat
         /\ Cardinality(LineEnds(Append(bytes, x)))
              = IF x = CR \/ (x = LF /\ Last(bytes) # CR) THEN Cardinality(LineEnds(bytes)) + 1
                ELSE Cardinality(LineEnds(bytes))
<1> DEFINE n == Len(bytes)
           t == Append(bytes, x)
           ends == x = CR \/ (x = LF /\ Last(bytes) # CR)
<1>0. /\ n \in Nat \ {0} /\ DOMAIN t = 1 .. n + 1 /\ DOMAIN bytes = 1 .. n
      /\ t[n + 1] = x /\ Last(bytes) = t[n] /\ \A i \in 1 .. n : t[i] = bytes[i]
  BY DEF Last
<1> HIDE DEF t, n, ends
<1>1. IsFiniteSet(LineEnds(bytes)) /\ n + 1 \notin LineEnds(bytes)
  <2>1. LineEnds(bytes) \subseteq 1 .. n
    BY <1>0 DEF LineEnds
  <2>2. n + 1 \notin 1 .. n /\ IsFiniteSet(1 .. n)
    BY <1>0, FS_Interval
  <2> QED BY <2>1, <2>2, FS_Subset
<1>2. LineEnds(t) = IF ends THEN LineEnds(bytes) \cup {n + 1} ELSE LineEnds(bytes)
  <2>1. ASSUME NEW i \in 1 .. n PROVE i \in LineEnds(t) <=> i \in LineEnds(bytes)
    <3>1. i # 1 => i - 1 \in 1 .. n
      BY <1>0
    <3> QED BY <1>0, <3>1 DEF LineEnds
  <2>2. n + 1 \in LineEnds(t) <=> ends
    <3>1. n + 1 # 1 /\ (n + 1) - 1 = n /\ n + 1 \in 1 .. n + 1
      BY <1>0
    <3> QED BY <1>0, <3>1 DEF LineEnds, ends
  <2>3. LineEnds(t) \subseteq 1 .. n + 1 /\ LineEnds(bytes) \subseteq 1 .. n
    BY <1>0 DEF LineEnds
  <2>4. \A i \in 1 .. n + 1 : i \in 1 .. n \/ i = n + 1
    BY <1>0
  <2>5. ASSUME NEW i \in 1 .. n + 1
        PROVE  i \in LineEnds(t) <=> i \in LineEnds(bytes) \/ (ends /\ i = n + 1)
    BY <1>1, <2>1, <2>2, <2>4
  <2>6. \A i \in 1 .. n : i \in 1 .. n + 1
    BY <1>0
  <2>7. n + 1 \in 1 .. n + 1
    BY <1>0
  <2> QED BY <2>3, <2>5, <2>6, <2>7, Zenon
<1>3. /\ Cardinality(LineEnds(bytes)) \in Nat
      /\ Cardinality(LineEnds(bytes) \cup {n + 1}) = Cardinality(LineEnds(bytes)) + 1
  BY <1>1, FS_AddElement, FS_CardinalityType
<1> QED BY <1>2, <1>3 DEF t, ends

LEMMA UncancelledType ==
  ASSUME NEW S, NEW s \in Seq(S), NEW U PROVE Uncancelled(s, U) \in Seq(S)
BY UncancelledIs, PickedType

\* A line that is not overfull was not before the last byte either, and fits.
LEMMA NotOverfull ==
  ASSUME NEW c \in Seq(Char), NEW x \in Char, ~Overfull(Append(c, x))
  PROVE  /\ ~Overfull(c)
         /\ ~ (Len(Uncancelled(Append(c, x), Erase)) >= BufferSize)
<1> DEFINE t == Append(c, x)
<1>1. Len(c) \in Nat /\ DOMAIN c = 1 .. Len(c) /\ Len(t) = Len(c) + 1 /\ DOMAIN t = 1 .. Len(c) + 1
  OBVIOUS
<1>2. ASSUME NEW n \in DOMAIN c PROVE Cut(t, n) = Cut(c, n)
  <2>1. Cut(t, n) = SubSeq(t, 1, n) /\ Cut(c, n) = SubSeq(c, 1, n)
    BY <1>1 DEF Cut
  <2>2. SubSeq(t, 1, n) = SubSeq(c, 1, n)
    BY <1>1
  <2> QED BY <2>1, <2>2
<1>3. Cut(t, Len(c) + 1) = t
  <2>1. Cut(t, Len(c) + 1) = SubSeq(t, 1, Len(t))
    BY <1>1 DEF Cut
  <2>2. t \in Seq(Char)
    OBVIOUS
  <2> QED BY <2>1, <2>2
<1>4. Len(c) + 1 \in DOMAIN t /\ \A n \in DOMAIN c : n \in DOMAIN t
  BY <1>1
<1> HIDE DEF t
<1>5. ~Overfull(t)
  BY DEF t
<1>6. \A n \in DOMAIN t : ~ (Len(Uncancelled(Cut(t, n), Erase)) >= BufferSize)
  BY <1>5 DEF Overfull
<1>7. ~Overfull(c)
  BY <1>2, <1>4, <1>6 DEF Overfull
<1>8. ~ (Len(Uncancelled(t, Erase)) >= BufferSize)
  BY <1>3, <1>4, <1>6
<1> QED BY <1>7, <1>8 DEF t

\* One byte: the buffer keeps what is left of the bytes that were typed.
LEMMA EditedIs ==
  ASSUME NEW bytes \in Seq(Char), NEW x \in Char, x \notin {CR, LF},
         NEW b, ~Overfull(Counted(bytes)) => b = Uncancelled(Counted(bytes), Erase),
         ~Overfull(Counted(Append(bytes, x)))
  PROVE  Edited(b, x) = Uncancelled(Counted(Append(bytes, x)), Erase)
<1> DEFINE c == Counted(bytes)
           t == Append(bytes, x)
<1>1. c \in Seq(Char) /\ Counted(t) = IF x \in Printable \cup Erase THEN Append(c, x) ELSE c
  BY CountedAppend
<1>2. \A y \in Erase : y \notin Printable
  BY DEF Erase, Printable
<1> HIDE DEF c, t
<1>3. ~Overfull(Counted(t)) /\ (~Overfull(c) => b = Uncancelled(c, Erase))
  BY DEF c, t
<1>4. CASE x \in Erase
  <2>1. Counted(t) = Append(c, x)
    BY <1>1, <1>4
  <2>2. b = Uncancelled(c, Erase)
    BY <1>1, <1>3, <2>1, NotOverfull
  <2>3. Uncancelled(Append(c, x), Erase) = IF b = <<>> THEN <<>> ELSE Front(b)
    BY <1>1, <1>4, <2>2, UncancelledUndoes
  <2>4. Edited(b, x) = IF b = <<>> THEN b ELSE Front(b)
    BY <1>4 DEF Edited
  <2>5. Edited(b, x) = Uncancelled(Counted(t), Erase)
    BY <2>1, <2>3, <2>4
  <2> QED BY <2>5 DEF t
<1>5. CASE x \in Printable
  <2>1. Counted(t) = Append(c, x) /\ x \notin Erase
    BY <1>1, <1>2, <1>5
  <2>2. b = Uncancelled(c, Erase) /\ ~ (Len(Uncancelled(Append(c, x), Erase)) >= BufferSize)
    BY <1>1, <1>3, <2>1, NotOverfull
  <2>3. Uncancelled(Append(c, x), Erase) = Append(b, x)
    BY <1>1, <2>1, <2>2, UncancelledAdds
  <2>4. b \in Seq(Char)
    BY <1>1, <2>2, UncancelledType
  <2>5. Len(b) + 1 < BufferSize
    BY <2>2, <2>3, <2>4, InputAssumption
  <2>6. Edited(b, x) = Append(b, x)
    BY <1>5, <2>1, <2>5 DEF Edited
  <2>7. Edited(b, x) = Uncancelled(Counted(t), Erase)
    BY <2>1, <2>3, <2>6
  <2> QED BY <2>7 DEF t
<1>6. CASE x \notin Printable \cup Erase
  <2>1. Counted(t) = c /\ Edited(b, x) = b
    BY <1>1, <1>6 DEF Edited
  <2>2. Edited(b, x) = Uncancelled(Counted(t), Erase)
    BY <1>3, <2>1
  <2> QED BY <2>2 DEF t
<1> QED BY <1>4, <1>5, <1>6

\* While a line is read, the buffer holds what is left of the bytes typed since the
\* last line ended, if they never overfilled it; otherwise it is empty.  Each line end
\* but the one that ends a line with text has returned an empty line, and a line feed
\* is to be skipped exactly when the last byte was a carriage return.
EditInv ==
  /\ input \in Seq(Char) /\ typed \in Seq(Char) /\ typed # <<>> /\ empties \in Nat
  /\ skip_lf <=> Last(typed) = CR
  /\ pc = "read" /\ ~Overfull(Counted(typed)) => buffer = Uncancelled(Counted(typed), Erase)
  /\ pc # "read" => buffer = <<>>
  /\ pc = "parse" => Last(typed) \in {CR, LF}
  /\ pc \notin {"read", "parse"} => Counted(typed) = <<>>
  /\ Cardinality(LineEnds(typed)) = IF pc = "parse" THEN empties + 2 ELSE empties + 1
  /\ LineAsTyped

\* A byte that has just ended a line.
LEMMA OneEnd ==
  ASSUME NEW x \in {CR, LF}
  PROVE  <<x>> \in Seq(Char) /\ Last(<<x>>) = x /\ Cardinality(LineEnds(<<x>>)) = 1
<1>1. <<x>> \in Seq(Char) /\ Last(<<x>>) = x
  BY DEF Last, CR, LF, Char
<1>2. LineEnds(<<x>>) = {1}
  BY DEF LineEnds, CR, LF
<1> QED BY <1>1, <1>2, FS_Singleton

LEMMA EditInit == Init => EditInv
<1> SUFFICES ASSUME Init PROVE EditInv
  OBVIOUS
<1>1. pc = "read" /\ buffer = <<>> /\ typed = <<LF>> /\ empties = 0 /\ ~skip_lf /\ input \in Seq(Char)
  <2>1. pc = "read" /\ buffer = <<>> /\ typed = <<LF>> /\ empties = 0 /\ ~skip_lf /\ input \in FirstLines \cup {<<>>}
    BY DEF Init
  <2>2. FirstLines \subseteq Seq(Char)
    BY InputAssumption
  <2>3. <<>> \in Seq(Char)
    OBVIOUS
  <2> QED BY <2>1, <2>2, <2>3
<1>2. typed \in Seq(Char) /\ typed # <<>> /\ Last(typed) = LF /\ LF # CR /\ Cardinality(LineEnds(typed)) = 1
  BY <1>1, OneEnd DEF LF, CR
<1>3. buffer = Uncancelled(Counted(typed), Erase)
  BY <1>1, EmptyLine
<1> QED BY <1>1, <1>2, <1>3 DEF EditInv, LineAsTyped

\* Steps that leave the reading of lines alone, from one that is done to a new one.
LEMMA EditKeeps ==
  ASSUME EditInv, UNCHANGED readVars, pc \notin {"read", "parse"}, pc' # "parse"
  PROVE  EditInv'
<1>1. /\ input' = input /\ typed' = typed /\ buffer' = buffer /\ skip_lf' = skip_lf /\ empties' = empties
      /\ Counted(typed) = <<>> /\ buffer = <<>>
  BY DEF EditInv, readVars
<1>2. buffer' = Uncancelled(Counted(typed'), Erase)
  BY <1>1, EmptyLine
<1> QED BY <1>1, <1>2 DEF EditInv, LineAsTyped

LEMMA EditEdits == EditInv /\ EditLine => EditInv'
<1> SUFFICES ASSUME EditInv, EditLine PROVE EditInv'
  OBVIOUS
<1> DEFINE x == Head(input)
<1>1. x \in Char /\ input' \in Seq(Char) /\ typed' \in Seq(Char)
  BY DEF EditInv, EditLine
<1>2. /\ pc = "read" /\ pc' = "read" /\ buffer' = Edited(buffer, x) /\ typed' = Append(typed, x)
      /\ x \notin {CR, LF} /\ ~skip_lf' /\ empties' = empties
  BY DEF EditLine
<1> HIDE DEF x
<1>3. /\ typed \in Seq(Char) /\ typed # <<>> /\ empties \in Nat
      /\ ~Overfull(Counted(typed)) => buffer = Uncancelled(Counted(typed), Erase)
      /\ Cardinality(LineEnds(typed)) = empties + 1
  BY <1>2 DEF EditInv
<1>4. ~Overfull(Counted(typed')) => buffer' = Uncancelled(Counted(typed'), Erase)
  BY <1>1, <1>2, <1>3, EditedIs
<1>5. Last(typed') = x /\ typed' # <<>>
  BY <1>1, <1>2, <1>3 DEF Last
<1>6. Cardinality(LineEnds(typed')) = empties + 1
  BY <1>1, <1>2, <1>3, EndsAppend
<1> QED BY <1>1, <1>2, <1>3, <1>4, <1>5, <1>6 DEF EditInv, LineAsTyped

LEMMA EditSkips == EditInv /\ SkipLineFeed => EditInv'
<1> SUFFICES ASSUME EditInv, SkipLineFeed PROVE EditInv'
  OBVIOUS
<1>1. /\ pc = "read" /\ pc' = "read" /\ typed' = Append(typed, LF) /\ ~skip_lf'
      /\ UNCHANGED <<buffer, empties>> /\ input' \in Seq(Char)
  BY DEF SkipLineFeed, EditInv
<1>2. LF \in Char /\ LF # CR
  BY DEF LF, CR, Char
<1>3. /\ typed \in Seq(Char) /\ typed # <<>> /\ empties \in Nat /\ Last(typed) = CR
      /\ Cardinality(LineEnds(typed)) = empties + 1
  BY <1>1 DEF EditInv, SkipLineFeed
<1>4. typed' \in Seq(Char) /\ typed' # <<>> /\ Last(typed') = LF
  BY <1>1, <1>2, <1>3 DEF Last
<1>5. Cardinality(LineEnds(typed')) = empties + 1
  BY <1>1, <1>2, <1>3, EndsAppend
<1>6. buffer = <<>>
  <2>1. typed = Append(Front(typed), CR) /\ Front(typed) \in Seq(Char)
    BY <1>3 DEF Front, Last
  <2>2. Counted(typed) = <<>>
    BY <2>1, CountedEnd
  <2>3. ~Overfull(<<>>)
    BY DEF Overfull
  <2> QED BY <1>1, <2>2, <2>3, EmptyLine DEF EditInv
<1>7. Counted(typed') = <<>>
  BY <1>1, <1>3, CountedEnd
<1>8. buffer' = Uncancelled(Counted(typed'), Erase)
  BY <1>1, <1>6, <1>7, EmptyLine
<1> QED BY <1>1, <1>2, <1>3, <1>4, <1>5, <1>8 DEF EditInv, LineAsTyped

LEMMA EditReturns == EditInv /\ ReturnLine => EditInv'
<1> SUFFICES ASSUME EditInv, ReturnLine PROVE EditInv'
  OBVIOUS
<1> DEFINE x == Head(input)
<1>1. /\ pc = "read" /\ buffer' = <<>> /\ line' = Cut(buffer, LineSize - 1)
      /\ pc' = IF buffer = <<>> THEN "read" ELSE "parse"
      /\ typed' = Append(typed, x) /\ empties' = IF buffer = <<>> THEN empties + 1 ELSE empties
      /\ x \in {CR, LF} /\ ~(skip_lf /\ x = LF) /\ (skip_lf' <=> x = CR)
  BY DEF ReturnLine
<1>2. x \in Char /\ input' \in Seq(Char) /\ typed' \in Seq(Char)
  BY DEF EditInv, ReturnLine
<1> HIDE DEF x
<1>3. /\ typed \in Seq(Char) /\ typed # <<>> /\ empties \in Nat /\ (skip_lf <=> Last(typed) = CR)
      /\ Cardinality(LineEnds(typed)) = empties + 1
  BY <1>1 DEF EditInv
<1>4. typed' # <<>> /\ Last(typed') = x /\ Front(typed') = typed
  BY <1>1, <1>2, <1>3 DEF Last, Front
<1>5. Cardinality(LineEnds(typed')) = empties + 2
  <2>1. Cardinality(LineEnds(typed')) = Cardinality(LineEnds(typed)) + 1
    BY <1>1, <1>2, <1>3, EndsAppend
  <2> QED BY <1>3, <2>1
<1>6. Counted(typed') = <<>>
  BY <1>1, <1>3, CountedEnd
<1>7. CASE buffer = <<>>
  <2>1. /\ pc' = "read" /\ buffer' = Uncancelled(Counted(typed'), Erase) /\ empties' = empties + 1
    BY <1>1, <1>6, <1>7, EmptyLine
  <2>2. empties' \in Nat /\ Cardinality(LineEnds(typed')) = empties' + 1
    BY <1>3, <1>5, <2>1
  <2> QED BY <1>1, <1>2, <1>4, <2>1, <2>2 DEF EditInv, LineAsTyped
<1>8. CASE buffer # <<>>
  <2>1. pc' = "parse" /\ empties' = empties
    BY <1>1, <1>8
  <2>2. ~Overfull(Counted(typed)) => line' = Cut(Uncancelled(Counted(typed), Erase), LineSize - 1)
    BY <1>1 DEF EditInv
  <2>3. LineAsTyped'
    BY <1>4, <1>5, <2>1, <2>2 DEF LineAsTyped, Overfull
  <2> QED BY <1>1, <1>2, <1>3, <1>4, <1>5, <2>1, <2>3 DEF EditInv
<1> QED BY <1>7, <1>8

\* The line that is executed is the text typed since the line before it ended, without
\* what was erased and cut to the size of the line (LineAsTyped): line_io_handle_byte and
\* its backspace, byte by byte, leave what counting erasing keys against text over the
\* whole line leaves, and g_skip_lf_after_cr makes a carriage return and the line feed
\* behind it one line end, and no other line feed a part of one.
THEOREM LinesAsTyped == Spec => []LineAsTyped
<1>1. EditInv /\ [Next]_vars => EditInv'
  <2> SUFFICES ASSUME EditInv, [Next]_vars PROVE EditInv'
    OBVIOUS
  <2>1. ASSUME NEW bytes \in Lines, Arrive(bytes) PROVE EditInv'
    <3>1. input' \in Seq(Char) /\ UNCHANGED <<typed, empties, skip_lf, buffer, pc, line>>
      BY <2>1, InputAssumption DEF Arrive
    <3> QED BY <3>1 DEF EditInv, LineAsTyped
  <2>2. CASE SkipLineFeed
    BY <2>2, EditSkips
  <2>3. CASE EditLine
    BY <2>3, EditEdits
  <2>4. CASE ReturnLine
    BY <2>4, EditReturns
  <2>5. CASE ParseLine
    <3>1. /\ pc = "parse" /\ pc' \in {"left", "done"} /\ typed' = <<Last(typed)>> /\ empties' = 0
          /\ UNCHANGED <<input, buffer, skip_lf>>
      BY <2>5 DEF ParseLine
    <3>2. Last(typed) \in {CR, LF} /\ input' \in Seq(Char) /\ buffer' = <<>> /\ (skip_lf' <=> Last(typed) = CR)
      BY <3>1 DEF EditInv
    <3>3. /\ typed' \in Seq(Char) /\ typed' # <<>> /\ Last(typed') = Last(typed) /\ Counted(typed') = <<>>
          /\ Cardinality(LineEnds(typed')) = 1
      BY <3>1, <3>2, OneEnd, EmptyLine
    <3> QED BY <3>1, <3>2, <3>3 DEF EditInv, LineAsTyped
  <2>6. CASE ExecuteLeft
    <3>1. pc = "left" /\ pc' \in {"right", "write", "done"} /\ UNCHANGED readVars
      BY <2>6 DEF ExecuteLeft
    <3> QED BY <3>1, EditKeeps
  <2>7. CASE ExecuteRight
    <3>1. pc = "right" /\ pc' \in {"write", "done"} /\ UNCHANGED readVars
      BY <2>7 DEF ExecuteRight
    <3> QED BY <3>1, EditKeeps
  <2>8. CASE shell_write_redirection
    BY <2>8, EditKeeps DEF shell_write_redirection
  <2>9. CASE Prompt
    BY <2>9, EditKeeps DEF Prompt
  <2>10. CASE UNCHANGED vars
    BY <2>10 DEF vars, readVars, EditInv, LineAsTyped
  <2> QED
    BY <2>1, <2>2, <2>3, <2>4, <2>5, <2>6, <2>7, <2>8, <2>9, <2>10 DEF Next
<1>2. EditInv => LineAsTyped
  BY DEF EditInv
<1> QED BY <1>1, <1>2, EditInit, PTL DEF Spec

-------------------------------------------------------------------------------
(* Appends that fail *)

\* The files after path has got the content new.
Kept(path, new) == [p \in DOMAIN files \cup {path} |-> IF p = path THEN new ELSE files[p]]

LEMMA WrittenIs == ASSUME NEW w, NEW a, NEW b, w = [ok |-> a, files |-> b] PROVE w.ok = a /\ w.files = b
OBVIOUS

\* A copy of the content of a file reads as the file did.
LEMMA CopyKeeps ==
  ASSUME NEW path, NEW old, path \in DOMAIN SeedFiles \cup DOMAIN files => old = Visible(files, path),
         NEW new, new = Kept(path, old),
         NEW p \in DOMAIN SeedFiles \cup DOMAIN files
  PROVE  Visible(new, p) = Visible(files, p)
<1>1. DOMAIN new = DOMAIN files \cup {path}
  BY DEF Kept
<1>2. \A q \in DOMAIN new : new[q] = IF q = path THEN old ELSE files[q]
  BY DEF Kept
<1> QED BY <1>1, <1>2 DEF Visible

\* An append that fails.
LEMMA FailedWrite ==
  ASSUME NEW t, NEW word, NEW text, NEW written,
         written = path_state_write_file(t, files, word, text, TRUE), ~written.ok,
         NEW p \in DOMAIN SeedFiles \cup DOMAIN files
  PROVE  Visible(written.files, p) = Visible(files, p)
<1> DEFINE path == resolve_to_absolute(t, word)
           old == OldContent(files, path, TRUE)
           fits == Len(old) + Len(text) + 1 <= ContentMax
<1>1. CASE CanWrite(t, files, path)
  <2>1. written = [ok |-> fits, files |-> Kept(path, IF fits THEN old \o text ELSE old)]
    BY <1>1 DEF path_state_write_file, Kept
  <2>2. path \in DOMAIN SeedFiles \cup DOMAIN files => old = Visible(files, path)
    BY DEF OldContent, IsFile
  <2> HIDE DEF path, old, fits
  <2>3. written.files = Kept(path, old)
    <3> DEFINE end == Kept(path, IF fits THEN old \o text ELSE old)
    <3>1. written = [ok |-> fits, files |-> end]
      BY <2>1
    <3> HIDE DEF end
    <3>2. written.ok = fits /\ written.files = end
      BY <3>1, WrittenIs
    <3>3. ~fits
      BY <3>2, Zenon
    <3> QED BY <3>2, <3>3 DEF end
  <2> DEFINE new == written.files
  <2> HIDE DEF new
  <2>4. new = Kept(path, old)
    BY <2>3 DEF new
  <2>5. Visible(new, p) = Visible(files, p)
    BY <2>2, <2>4, CopyKeeps
  <2> QED BY <2>5 DEF new
<1>2. CASE ~CanWrite(t, files, path)
  <2>1. written.files = files
    BY <1>2 DEF path_state_write_file
  <2> QED BY <2>1
<1> QED BY <1>1, <1>2

\* An append that fails leaves every file with the content it had (FailedAppendKeeps):
\* path_state_write_file may have made a copy of a built-in file before it found that
\* the text does not fit, but the copy reads the same.
THEOREM FailedAppendsKeep == Spec => FailedAppendKeeps
<1>1. [Next]_vars => [pc = "write" /\ cmd.redir = "append" /\ console' # console =>
         \A path \in DOMAIN SeedFiles \cup DOMAIN files : Visible(files', path) = Visible(files, path)]_vars
  <2> SUFFICES ASSUME Next, pc = "write", cmd.redir = "append", console' # console,
                      NEW p \in DOMAIN SeedFiles \cup DOMAIN files
               PROVE  Visible(files', p) = Visible(files, p)
    OBVIOUS
  <2>1. shell_write_redirection
    BY DEF Next, Arrive, SkipLineFeed, EditLine, ReturnLine, ParseLine, ExecuteLeft, ExecuteRight, Prompt
  <2>2. PICK written \in {path_state_write_file(tree, files, cmd.path, fd.capture, cmd.redir = "append")} :
          files' = written.files /\ console' = IF written.ok THEN console ELSE console \o Text(12)
    BY <2>1 DEF shell_write_redirection
  <2>3. written = path_state_write_file(tree, files, cmd.path, fd.capture, TRUE) /\ ~written.ok
    BY <2>2
  <2> QED BY <2>2, <2>3, FailedWrite
<1> QED BY <1>1, PTL DEF Spec, FailedAppendKeeps

-------------------------------------------------------------------------------
(* Folds and recursive functions.  A step that maps A to A, written as a        *)
(* function, has a run; what a definition by recursion denotes is one.          *)

LEMMA MaxIs ==
  ASSUME NEW n \in Nat, NEW s \in SUBSET (1 .. n), s # {}
  PROVE  Max(s) \in s /\ \A y \in s : Max(s) >= y
<1>1. \E x \in s : \A y \in s : y <= x
  BY Greatest
<1>2. \E x \in s : \A y \in s : x >= y
  BY <1>1
<1> QED BY <1>2 DEF Max

LEMMA MinIs ==
  ASSUME NEW n \in Nat, NEW s \in SUBSET (1 .. n), s # {}
  PROVE  Min(s) \in s /\ \A y \in s : Min(s) <= y
<1> DEFINE t == {k \in 1 .. n : (n + 1) - k \in s}
<1>1. t \subseteq 1 .. n /\ t # {}
  <2>1. PICK k \in s : TRUE
    OBVIOUS
  <2>2. (n + 1) - k \in t
    OBVIOUS
  <2> QED BY <2>2
<1>2. \E x \in t : \A y \in t : y <= x
  <2> HIDE DEF t
  <2> QED BY <1>1, Greatest
<1>3. PICK x \in t : \A y \in t : y <= x
  BY <1>2
<1>4. ASSUME NEW y \in s PROVE (n + 1) - x <= y
  <2>1. (n + 1) - y \in t
    OBVIOUS
  <2>2. (n + 1) - y <= x
    BY <1>3, <2>1
  <2> QED BY <2>2
<1>5. \E z \in s : \A y \in s : z <= y
  BY <1>4
<1> QED BY <1>5 DEF Min

LEMMA MaxUpTo ==
  ASSUME NEW k \in Nat, k # 0
  PROVE  1 .. k # {} /\ Max(1 .. k) = k /\ (1 .. k) \ {k} = 1 .. k - 1
<1> DEFINE s == 1 .. k
<1>1. s # {} /\ s \in SUBSET (1 .. k) /\ k \in s
  OBVIOUS
<1>2. Max(s) \in s /\ \A y \in s : Max(s) >= y
  <2> HIDE DEF s
  <2> QED BY <1>1, MaxIs
<1>3. Max(s) = k
  <2>1. Max(s) \in 1 .. k /\ Max(s) >= k
    BY <1>1, <1>2
  <2> QED BY <2>1
<1> QED BY <1>1, <1>3

IsRun(u, A, base, n, G) ==
  u \in [0 .. n -> A] /\ u[0] = base /\ \A k \in 1 .. n : u[k] = G[<<u[k - 1], k>>]

\* A step that maps A to A has a run from any start.
LEMMA RecExists ==
  ASSUME NEW A, NEW base \in A, NEW n \in Nat, NEW G \in [A \X (1 .. n) -> A]
  PROVE  \E u : IsRun(u, A, base, n, G)
<1> DEFINE Run(u, m) == u[0] = base /\ \A k \in 1 .. m : u[k] = G[<<u[k - 1], k>>]
           T == {m \in 0 .. n : \E u \in [0 .. m -> A] : Run(u, m)}
<1>1. 0 \in T
  <2> DEFINE u == [k \in 0 .. 0 |-> base]
  <2>1. u \in [0 .. 0 -> A] /\ Run(u, 0) /\ 0 \in 0 .. n
    OBVIOUS
  <2> HIDE DEF u
  <2> QED BY <2>1
<1>2. ASSUME NEW m \in 0 .. n - 1, m \in T PROVE m + 1 \in T
  <2>1. PICK u \in [0 .. m -> A] : Run(u, m)
    BY <1>2
  <2> DEFINE new == [k \in 0 .. m + 1 |-> IF k = m + 1 THEN G[<<u[m], m + 1>>] ELSE u[k]]
  <2>2. u[m] \in A /\ <<u[m], m + 1>> \in A \X (1 .. n)
    OBVIOUS
  <2>3. G[<<u[m], m + 1>>] \in A
    BY <2>2
  <2>4. new \in [0 .. m + 1 -> A]
    BY <2>3
  <2>5. new[0] = base
    BY <2>1
  <2>6. ASSUME NEW k \in 1 .. m + 1 PROVE new[k] = G[<<new[k - 1], k>>]
    <3>1. CASE k = m + 1
      <4>1. new[k] = G[<<u[m], m + 1>>] /\ new[k - 1] = u[m]
        BY <3>1
      <4> HIDE DEF new
      <4> QED BY <3>1, <4>1
    <3>2. CASE k # m + 1
      <4>1. k \in 1 .. m /\ new[k] = u[k] /\ new[k - 1] = u[k - 1]
        BY <3>2
      <4> HIDE DEF new
      <4> QED BY <2>1, <4>1
    <3> QED BY <3>1, <3>2
  <2>7. Run(new, m + 1)
    BY <2>5, <2>6
  <2>8. m + 1 \in 0 .. n
    OBVIOUS
  <2> HIDE DEF new
  <2> QED BY <2>4, <2>7, <2>8
<1>3. 0 \in 0 .. n
  OBVIOUS
<1> HIDE DEF T
<1>4. n \in T
  BY <1>1, <1>2, <1>3, Reaches
<1> QED BY <1>4 DEF T, IsRun

IsFold(g, A, base, n, G) ==
  /\ g \in [SUBSET (1 .. n) -> A]
  /\ \A s \in SUBSET (1 .. n) : g[s] = IF s = {} THEN base ELSE G[<<g[s \ {Max(s)}], Max(s)>>]

LEMMA FoldExists ==
  ASSUME NEW A, NEW base \in A, NEW n \in Nat, NEW G \in [A \X (1 .. n) -> A]
  PROVE  \E g : IsFold(g, A, base, n, G)
<1> DEFINE Run(g, m) == \A s \in SUBSET (1 .. m) :
                          g[s] = IF s = {} THEN base ELSE G[<<g[s \ {Max(s)}], Max(s)>>]
           T == {m \in 0 .. n : \E g \in [SUBSET (1 .. m) -> A] : Run(g, m)}
<1>1. 0 \in T
  <2> DEFINE g == [s \in SUBSET (1 .. 0) |-> base]
  <2>1. ASSUME NEW s \in SUBSET (1 .. 0) PROVE s = {}
    OBVIOUS
  <2>2. g \in [SUBSET (1 .. 0) -> A] /\ Run(g, 0) /\ 0 \in 0 .. n
    BY <2>1
  <2> HIDE DEF g
  <2> QED BY <2>2
<1>2. ASSUME NEW m \in 0 .. n - 1, m \in T PROVE m + 1 \in T
  <2>1. PICK g \in [SUBSET (1 .. m) -> A] : Run(g, m)
    BY <1>2
  <2> DEFINE k == m + 1
             new == [s \in SUBSET (1 .. k) |-> IF k \notin s THEN g[s] ELSE G[<<g[s \ {k}], k>>]]
  <2>2. k \in 1 .. n /\ k \in Nat /\ k \in 0 .. n
    OBVIOUS
  <2>3. \A s \in SUBSET (1 .. k) : s \ {k} \in SUBSET (1 .. m) /\ (k \notin s => s \in SUBSET (1 .. m))
    OBVIOUS
  <2>4. \A t \in SUBSET (1 .. m) : t \in SUBSET (1 .. k) /\ k \notin t
    OBVIOUS
  <2> HIDE DEF k
  <2>5. new \in [SUBSET (1 .. k) -> A]
    <3>1. ASSUME NEW s \in SUBSET (1 .. k) PROVE (IF k \notin s THEN g[s] ELSE G[<<g[s \ {k}], k>>]) \in A
      <4>1. CASE k \notin s
        BY <2>3, <4>1
      <4>2. CASE k \in s
        <5>1. g[s \ {k}] \in A
          BY <2>3
        <5>2. <<g[s \ {k}], k>> \in A \X (1 .. n)
          BY <2>2, <5>1
        <5> QED BY <4>2, <5>2
      <4> QED BY <4>1, <4>2
    <3> QED BY <3>1
  <2>6. ASSUME NEW s \in SUBSET (1 .. k)
        PROVE  new[s] = IF s = {} THEN base ELSE G[<<new[s \ {Max(s)}], Max(s)>>]
    <3>1. CASE k \notin s
      <4>1. s \in SUBSET (1 .. m) /\ s \ {Max(s)} \in SUBSET (1 .. m)
        BY <2>3, <3>1
      <4>2. new[s] = g[s] /\ new[s \ {Max(s)}] = g[s \ {Max(s)}]
        BY <2>4, <4>1
      <4> HIDE DEF new
      <4> QED BY <2>1, <4>1, <4>2
    <3>2. CASE k \in s
      <4>1. s # {} /\ Max(s) \in s /\ \A y \in s : Max(s) >= y
        BY <2>2, <3>2, MaxIs
      <4>2. Max(s) = k
        <5>1. Max(s) \in 1 .. k /\ Max(s) >= k
          BY <3>2, <4>1
        <5> QED BY <2>2, <5>1
      <4>3. new[s \ {k}] = g[s \ {k}] /\ new[s] = G[<<g[s \ {k}], k>>]
        BY <2>3, <2>4, <3>2
      <4> HIDE DEF new
      <4> QED BY <4>1, <4>2, <4>3
    <3> QED BY <3>1, <3>2
  <2> HIDE DEF new
  <2>7. k \in T
    BY <2>2, <2>5, <2>6
  <2> QED BY <2>7 DEF k
<1>3. 0 \in 0 .. n
  OBVIOUS
<1> HIDE DEF T
<1>4. n \in T
  BY <1>1, <1>2, <1>3, Reaches
<1> QED BY <1>4 DEF T, IsFold

\* A function that follows the steps of G as long as it stays in A does so.
Follows(W, A, base, n, G) ==
  W[0] = base /\ \A k \in 1 .. n : W[k - 1] \in A => W[k] = G[<<W[k - 1], k>>]

\* What satisfies the equations of a run stays in A.
LEMMA RunIn ==
  ASSUME NEW A, NEW base \in A, NEW n \in Nat, NEW G \in [A \X (1 .. n) -> A],
         NEW W, Follows(W, A, base, n, G)
  PROVE  \A k \in 0 .. n : W[k] \in A
<1> SUFFICES ASSUME NEW m \in 0 .. n PROVE W[m] \in A
  OBVIOUS
<1> DEFINE T == {k \in 0 .. m : W[k] \in A}
<1>1. 0 \in T
  BY DEF Follows
<1>2. ASSUME NEW k \in 0 .. m - 1, k \in T PROVE k + 1 \in T
  <2>1. k + 1 \in 1 .. n /\ k + 1 \in 0 .. m /\ (k + 1) - 1 = k /\ W[k] \in A
    BY <1>2
  <2>2. W[k + 1] = G[<<W[k], k + 1>>]
    BY <2>1 DEF Follows
  <2>3. <<W[k], k + 1>> \in A \X (1 .. n)
    BY <2>1
  <2> QED BY <2>1, <2>2, <2>3
<1>3. 0 \in 0 .. m /\ m \in Nat
  OBVIOUS
<1> HIDE DEF T
<1>4. m \in T
  BY <1>1, <1>2, <1>3, Reaches
<1> QED BY <1>4 DEF T

\* The same for the function on sets of indices that a fold is defined by.
FoldsBy(W, A, base, n, G) ==
  /\ W[{}] = base
  /\ \A s \in SUBSET (1 .. n) : s # {} /\ W[s \ {Max(s)}] \in A => W[s] = G[<<W[s \ {Max(s)}], Max(s)>>]

RunsTo(u, W, A, base, n, G) == IsRun(u, A, base, n, G) /\ u[n] = W[1 .. n]

\* A fold over 1 .. n that takes the greatest index last is a run.
LEMMA FoldRun ==
  ASSUME NEW A, NEW base \in A, NEW n \in Nat, NEW G \in [A \X (1 .. n) -> A],
         NEW W, FoldsBy(W, A, base, n, G)
  PROVE  \E u : RunsTo(u, W, A, base, n, G)
<1> DEFINE u == [k \in 0 .. n |-> W[1 .. k]]
<1>1. u[0] = base
  <2>1. 1 .. 0 = {}
    OBVIOUS
  <2> QED BY <2>1 DEF FoldsBy
<1>2. ASSUME NEW k \in 1 .. n, u[k - 1] \in A PROVE u[k] = G[<<u[k - 1], k>>]
  <2>1. 1 .. k # {} /\ Max(1 .. k) = k /\ (1 .. k) \ {k} = 1 .. k - 1
    <3>1. k \in Nat /\ k # 0
      OBVIOUS
    <3> QED BY <3>1, MaxUpTo
  <2>2. u[k] = W[1 .. k] /\ u[k - 1] = W[1 .. k - 1] /\ 1 .. k \in SUBSET (1 .. n)
    OBVIOUS
  <2> DEFINE s == 1 .. k
  <2>3. s # {} /\ Max(s) = k /\ s \ {k} = 1 .. k - 1 /\ s \in SUBSET (1 .. n) /\ u[k] = W[s]
    BY <2>1, <2>2
  <2> HIDE DEF s, u
  <2>4. W[s \ {Max(s)}] \in A
    BY <1>2, <2>2, <2>3
  <2>5. W[s] = G[<<W[s \ {Max(s)}], Max(s)>>]
    BY <2>3, <2>4 DEF FoldsBy
  <2> QED BY <2>2, <2>3, <2>5
<1>3. u = [k \in 0 .. n |-> u[k]] /\ u[n] = W[1 .. n]
  OBVIOUS
<1> HIDE DEF u
<1>4. Follows(u, A, base, n, G)
  BY <1>1, <1>2 DEF Follows
<1>5. \A k \in 0 .. n : u[k] \in A
  BY <1>4, RunIn
<1>6. u \in [0 .. n -> A]
  BY <1>3, <1>5
<1>7. \A k \in 1 .. n : u[k] = G[<<u[k - 1], k>>]
  BY <1>2, <1>5
<1> QED BY <1>1, <1>3, <1>6, <1>7 DEF IsRun, RunsTo

-------------------------------------------------------------------------------
(* Runs *)

\* What a piece between separators is made of.
Piece(C, Sep) == {w \in Seq(C) : w # <<>> /\ \A i \in DOMAIN w : w[i] \notin Sep}

LEMMA PieceMore ==
  ASSUME NEW C, NEW Sep, NEW w \in Piece(C, Sep), NEW c \in C, c \notin Sep
  PROVE  Append(w, c) \in Piece(C, Sep)
<1>1. w \in Seq(C) /\ w # <<>> /\ \A k \in DOMAIN w : w[k] \notin Sep
  BY DEF Piece
<1>2. Append(w, c) \in Seq(C) /\ Append(w, c) # <<>>
  BY <1>1
<1>3. \A k \in DOMAIN Append(w, c) : Append(w, c)[k] \notin Sep
  BY <1>1
<1> QED BY <1>2, <1>3 DEF Piece

RunStep(s, Sep, runs, i) ==
  IF s[i] \in Sep THEN runs
  ELSE IF runs = <<>> \/ s[i - 1] \in Sep THEN Append(runs, <<s[i]>>)
  ELSE Append(Front(runs), Append(Last(runs), s[i]))

LEMMA RunStepType ==
  ASSUME NEW C, NEW Sep, NEW s \in Seq(C), NEW runs \in Seq(Piece(C, Sep)), NEW i \in 1 .. Len(s)
  PROVE  RunStep(s, Sep, runs, i) \in Seq(Piece(C, Sep))
<1> DEFINE S == Piece(C, Sep)
           c == s[i]
<1>1. c \in C
  OBVIOUS
<1>2. CASE c \in Sep
  BY <1>2 DEF RunStep
<1>3. CASE c \notin Sep
  <2>1. <<c>> \in S
    BY <1>1, <1>3 DEF Piece
  <2>2. ASSUME runs # <<>> PROVE Append(Front(runs), Append(Last(runs), c)) \in Seq(S)
    <3>1. Last(runs) \in S /\ Front(runs) \in Seq(S)
      <4>1. runs \in Seq(S)
        OBVIOUS
      <4> HIDE DEF S
      <4>2. Len(runs) \in DOMAIN runs
        BY <2>2, <4>1
      <4> QED BY <4>1, <4>2 DEF Last, Front
    <3> DEFINE w == Last(runs)
    <3> HIDE DEF c
    <3>2. Append(w, c) \in S
      BY <1>1, <1>3, <3>1, PieceMore
    <3> HIDE DEF S
    <3>3. Append(Front(runs), Append(w, c)) \in Seq(S)
      BY <3>1, <3>2
    <3> QED BY <3>3 DEF w
  <2>3. Append(runs, <<c>>) \in Seq(S)
    <3> HIDE DEF S, c
    <3>1. runs \in Seq(S)
      BY DEF S
    <3> QED BY <2>1, <3>1
  <2> QED BY <1>3, <2>2, <2>3 DEF RunStep
<1> QED BY <1>2, <1>3

\* Runs goes over the characters one by one.
LEMMA RunsIs ==
  ASSUME NEW C, NEW Sep, NEW s \in Seq(C)
  PROVE  \E u \in [0 .. Len(s) -> Seq(Piece(C, Sep))] :
           /\ u[0] = <<>> /\ \A k \in 1 .. Len(s) : u[k] = RunStep(s, Sep, u[k - 1], k)
           /\ Runs(s, Sep) = u[Len(s)]
<1> DEFINE n == Len(s)
           A == Seq(Piece(C, Sep))
           f == [i \in DOMAIN s |-> i]
           P(g) == g = [q \in SUBSET DOMAIN f |->
                          IF q = {} THEN <<>> ELSE RunStep(s, Sep, g[q \ {Max(q)}], f[Max(q)])]
           W == CHOOSE g : P(g)
           G == [p \in A \X (1 .. n) |-> RunStep(s, Sep, p[1], p[2])]
<1>1. Runs(s, Sep) = W[DOMAIN f]
  BY Zenon DEF Runs, FoldLeftDomain, FoldLeft, MapThenFoldSet, RunStep
<1>2. n \in Nat /\ DOMAIN f = 1 .. n /\ \A i \in 1 .. n : f[i] = i
  OBVIOUS
<1>3. <<>> \in A
  OBVIOUS
<1>4. G \in [A \X (1 .. n) -> A] /\ \A a \in A, k \in 1 .. n : G[<<a, k>>] = RunStep(s, Sep, a, k)
  <2>1. \A a \in A, k \in 1 .. n : RunStep(s, Sep, a, k) \in A
    BY RunStepType
  <2> HIDE DEF A, n
  <2> QED BY <2>1
<1> HIDE DEF A, n, G, f
<1>5. \A q \in SUBSET (1 .. n) : q # {} => Max(q) \in 1 .. n
  BY <1>2, MaxIs
<1>6. \E g : P(g)
  <2>0. PICK g : IsFold(g, A, <<>>, n, G)
    BY <1>2, <1>3, <1>4, FoldExists
  <2>1. g \in [SUBSET (1 .. n) -> A] /\ \A q \in SUBSET (1 .. n) :
          g[q] = IF q = {} THEN <<>> ELSE G[<<g[q \ {Max(q)}], Max(q)>>]
    BY <2>0 DEF IsFold
  <2>2. ASSUME NEW q \in SUBSET (1 .. n)
        PROVE  g[q] = IF q = {} THEN <<>> ELSE RunStep(s, Sep, g[q \ {Max(q)}], f[Max(q)])
    <3>1. CASE q # {}
      <4>1. Max(q) \in 1 .. n /\ g[q \ {Max(q)}] \in A
        BY <1>5, <2>1, <3>1
      <4> QED BY <1>2, <1>4, <2>1, <3>1, <4>1
    <3> QED BY <2>1, <3>1
  <2>3. g = [q \in SUBSET (1 .. n) |-> g[q]]
    BY <2>1
  <2>4. P(g)
    BY <1>2, <2>2, <2>3
  <2> QED BY <2>4
<1>7. P(W)
  BY <1>6
<1> HIDE DEF W
<1>8. FoldsBy(W, A, <<>>, n, G)
  <2>1. \A q \in SUBSET (1 .. n) :
          W[q] = IF q = {} THEN <<>> ELSE RunStep(s, Sep, W[q \ {Max(q)}], f[Max(q)])
    BY <1>2, <1>7
  <2>2. {} \in SUBSET (1 .. n)
    OBVIOUS
  <2>3. W[{}] = <<>>
    BY <2>1, <2>2
  <2>4. ASSUME NEW q \in SUBSET (1 .. n), q # {}, W[q \ {Max(q)}] \in A
        PROVE  W[q] = G[<<W[q \ {Max(q)}], Max(q)>>]
    <3> DEFINE m == Max(q)
    <3>1. m \in 1 .. n
      BY <1>5, <2>4
    <3>2. W[q] = RunStep(s, Sep, W[q \ {m}], m) /\ W[q \ {m}] \in A
      BY <1>2, <2>1, <2>4, <3>1
    <3> HIDE DEF m
    <3>3. W[q] = G[<<W[q \ {m}], m>>]
      BY <1>4, <3>1, <3>2
    <3> QED BY <3>3 DEF m
  <2> QED BY <2>3, <2>4 DEF FoldsBy
<1>9. PICK u : RunsTo(u, W, A, <<>>, n, G)
  <2>1. n \in Nat /\ G \in [A \X (1 .. n) -> A]
    BY <1>2, <1>4
  <2> QED BY <1>3, <1>8, <2>1, FoldRun
<1>10. \A k \in 1 .. n : u[k] = RunStep(s, Sep, u[k - 1], k)
  <2>1. \A k \in 1 .. n : u[k - 1] \in A
    BY <1>2, <1>9 DEF IsRun, RunsTo
  <2> QED BY <1>4, <1>9, <2>1 DEF IsRun, RunsTo
<1> QED BY <1>1, <1>2, <1>9, <1>10 DEF A, n, IsRun, RunsTo

\* u is the run of RunStep over s.
IsRuns(u, C, s, Sep) ==
  /\ u \in [0 .. Len(s) -> Seq(Piece(C, Sep))]
  /\ u[0] = <<>> /\ \A k \in 1 .. Len(s) : u[k] = RunStep(s, Sep, u[k - 1], k)
  /\ Runs(s, Sep) = u[Len(s)]

LEMMA RunsType ==
  ASSUME NEW C, NEW Sep, NEW s \in Seq(C)
  PROVE  Runs(s, Sep) \in Seq(Piece(C, Sep)) /\ \E u : IsRuns(u, C, s, Sep)
<1>1. PICK u \in [0 .. Len(s) -> Seq(Piece(C, Sep))] :
           /\ u[0] = <<>> /\ \A k \in 1 .. Len(s) : u[k] = RunStep(s, Sep, u[k - 1], k)
           /\ Runs(s, Sep) = u[Len(s)]
  BY RunsIs
<1>2. Len(s) \in 0 .. Len(s)
  OBVIOUS
<1> QED BY <1>1, <1>2 DEF IsRuns

LEMMA RunsNone ==
  ASSUME NEW C, NEW Sep
  PROVE  Runs(<<>>, Sep) = <<>>
<1>1. <<>> \in Seq(C) /\ Len(<<>>) = 0
  OBVIOUS
<1>2. PICK u : IsRuns(u, C, <<>>, Sep)
  BY <1>1, RunsType
<1> QED BY <1>1, <1>2 DEF IsRuns

\* Facts about sequences.
LEMMA ConcatIs ==
  ASSUME NEW S, NEW p \in Seq(S), NEW q \in Seq(S)
  PROVE  /\ p \o q \in Seq(S) /\ Len(p \o q) = Len(p) + Len(q)
         /\ \A i \in 1 .. Len(p) : (p \o q)[i] = p[i]
         /\ \A i \in 1 .. Len(q) : (p \o q)[Len(p) + i] = q[i]
OBVIOUS

LEMMA AppendNotEmpty == ASSUME NEW S, NEW q \in Seq(S), NEW x PROVE Append(q, x) # <<>>
<1>1. Len(Append(q, x)) = Len(q) + 1 /\ Len(q) \in Nat /\ Len(<<>>) = 0
  OBVIOUS
<1> QED BY <1>1

LEMMA ConcatAppend ==
  ASSUME NEW S, NEW p \in Seq(S), NEW q \in Seq(S), NEW x \in S
  PROVE  p \o Append(q, x) = Append(p \o q, x)
OBVIOUS

LEMMA ConcatFront ==
  ASSUME NEW S, NEW p \in Seq(S), NEW q \in Seq(S), q # <<>>
  PROVE  p \o q # <<>> /\ Front(p \o q) = p \o Front(q) /\ Last(p \o q) = Last(q)
<1>1. Len(q) \in Nat \ {0} /\ Len(p) \in Nat
  OBVIOUS
<1>2. p \o q \in Seq(S) /\ Len(p \o q) = Len(p) + Len(q)
  OBVIOUS
<1>3. p \o q # <<>>
  BY <1>1, <1>2
<1>4. Last(p \o q) = Last(q)
  BY <1>1, <1>2 DEF Last
<1>5. Front(p \o q) = p \o Front(q)
  BY <1>1, <1>2 DEF Front
<1> QED BY <1>3, <1>4, <1>5

LEMMA ConcatNone ==
  ASSUME NEW S, NEW p \in Seq(S) PROVE p \o <<>> = p /\ <<>> \o p = p
OBVIOUS

\* Pieces of a sequence, and of one that begins with it.
LEMMA RunsAgree ==
  ASSUME NEW C, NEW Sep, NEW s \in Seq(C), NEW t \in Seq(C), Len(s) <= Len(t),
         \A k \in 1 .. Len(s) : s[k] = t[k],
         NEW u, IsRuns(u, C, s, Sep), NEW w, IsRuns(w, C, t, Sep)
  PROVE  u[Len(s)] = w[Len(s)]
<1> DEFINE n == Len(s)
           T == {k \in 0 .. n : u[k] = w[k]}
<1>1. n \in Nat /\ n <= Len(t) /\ Len(t) \in Nat
  OBVIOUS
<1>2. u[0] = <<>> /\ \A k \in 1 .. n : u[k] = RunStep(s, Sep, u[k - 1], k)
  BY DEF IsRuns
<1>3. w[0] = <<>> /\ \A k \in 1 .. Len(t) : w[k] = RunStep(t, Sep, w[k - 1], k)
  BY DEF IsRuns
<1>4. \A k \in 1 .. n : s[k] = t[k]
  OBVIOUS
<1> HIDE DEF n
<1>5. 0 \in T
  BY <1>1, <1>2, <1>3
<1>6. ASSUME NEW k \in 0 .. n - 1, k \in T PROVE k + 1 \in T
  <2>1. k + 1 \in 1 .. n /\ k + 1 \in 1 .. Len(t) /\ (k + 1) - 1 = k /\ k + 1 \in 0 .. n
    BY <1>1
  <2>2. u[k] = w[k]
    BY <1>6
  <2>3. u[k + 1] = RunStep(s, Sep, u[k], k + 1) /\ w[k + 1] = RunStep(t, Sep, u[k], k + 1)
    BY <1>2, <1>3, <2>1, <2>2
  <2>4. u[k] = <<>> \/ s[k] = t[k]
    <3>1. k = 0 \/ k \in 1 .. n
      BY <1>1
    <3> QED BY <1>2, <1>4, <3>1
  <2>5. s[k + 1] = t[k + 1]
    BY <1>4, <2>1
  <2>6. RunStep(s, Sep, u[k], k + 1) = RunStep(t, Sep, u[k], k + 1)
    BY <2>1, <2>4, <2>5 DEF RunStep
  <2> QED BY <2>1, <2>3, <2>6
<1>7. 0 \in 0 .. n
  BY <1>1
<1> HIDE DEF T
<1>8. n \in T
  BY <1>1, <1>5, <1>6, <1>7, Reaches
<1> QED BY <1>8 DEF T, n

\* A separator lies between pieces that do not depend on each other.
Behind(a, x, b) == a \o (<<x>> \o b)

\* A separator cuts: the runs of both sides, one after the other.
LEMMA RunsJoin ==
  ASSUME NEW C, NEW Sep, NEW a \in Seq(C), NEW b \in Seq(C), NEW x \in C, x \in Sep
  PROVE  Runs(Behind(a, x, b), Sep) = Runs(a, Sep) \o Runs(b, Sep)
<1> DEFINE n == Len(a)
           m == Len(b)
           t == a \o (<<x>> \o b)
           S == Piece(C, Sep)
<1>1. /\ n \in Nat /\ m \in Nat /\ t \in Seq(C) /\ Len(t) = n + 1 + m
      /\ \A k \in 1 .. n : a[k] = t[k]
      /\ t[n + 1] = x /\ \A j \in 1 .. m : t[n + 1 + j] = b[j] /\ b[j] \in C
  <2> DEFINE c == <<x>> \o b
  <2>1. c \in Seq(C) /\ Len(c) = m + 1 /\ c[1] = x /\ \A j \in 1 .. m : c[j + 1] = b[j]
    OBVIOUS
  <2> HIDE DEF c
  <2>2. /\ a \o c \in Seq(C) /\ Len(a \o c) = n + (m + 1)
        /\ \A k \in 1 .. n : (a \o c)[k] = a[k]
        /\ \A k \in 1 .. m + 1 : (a \o c)[n + k] = c[k]
    BY <2>1, SMTT(30)
  <2>3. n \in Nat /\ m \in Nat /\ t = a \o c /\ \A j \in 1 .. m : b[j] \in C
    BY DEF c
  <2> HIDE DEF n, m, t
  <2>4. t[n + 1] = x
    BY <2>1, <2>2, <2>3
  <2>5. ASSUME NEW j \in 1 .. m PROVE t[n + 1 + j] = b[j]
    <3>1. j + 1 \in 1 .. m + 1 /\ n + (j + 1) = n + 1 + j
      BY <2>3
    <3> QED BY <2>1, <2>2, <2>3, <3>1
  <2>6. Len(t) = n + 1 + m /\ t \in Seq(C)
    BY <2>2, <2>3
  <2>7. \A k \in 1 .. n : a[k] = t[k]
    BY <2>2, <2>3
  <2> QED BY <2>3, <2>4, <2>5, <2>6, <2>7
<1> HIDE DEF t
<1>2. PICK u : IsRuns(u, C, a, Sep)
  BY RunsType
<1>3. PICK v : IsRuns(v, C, b, Sep)
  BY RunsType
<1>4. PICK w : IsRuns(w, C, t, Sep)
  BY <1>1, RunsType
<1>5. u[n] = w[n]
  <2>1. Len(a) <= Len(t)
    BY <1>1
  <2> QED BY <1>1, <1>2, <1>4, <2>1, RunsAgree
<1>6. /\ u[n] \in Seq(S) /\ Runs(a, Sep) = u[n]
      /\ v \in [0 .. m -> Seq(S)] /\ v[0] = <<>> /\ Runs(b, Sep) = v[m]
      /\ \A k \in 1 .. m : v[k] = RunStep(b, Sep, v[k - 1], k)
      /\ \A k \in 1 .. n + 1 + m : w[k] = RunStep(t, Sep, w[k - 1], k)
      /\ Runs(t, Sep) = w[n + 1 + m]
  <2>1. u[n] \in Seq(S) /\ Runs(a, Sep) = u[n]
    <3>1. n \in 0 .. n
      BY <1>1
    <3> QED BY <1>2, <3>1 DEF IsRuns
  <2>2. /\ v \in [0 .. m -> Seq(S)] /\ v[0] = <<>> /\ Runs(b, Sep) = v[m]
        /\ \A k \in 1 .. m : v[k] = RunStep(b, Sep, v[k - 1], k)
    BY <1>3 DEF IsRuns
  <2>3. /\ \A k \in 1 .. n + 1 + m : w[k] = RunStep(t, Sep, w[k - 1], k)
        /\ Runs(t, Sep) = w[n + 1 + m]
    <3>1. /\ \A k \in 1 .. Len(t) : w[k] = RunStep(t, Sep, w[k - 1], k)
          /\ Runs(t, Sep) = w[Len(t)]
      BY <1>4 DEF IsRuns
    <3> QED BY <1>1, <3>1
  <2> QED BY <2>1, <2>2, <2>3
<1> DEFINE p == u[n]
<1> HIDE DEF n, m, S, p
<1>7. w[n + 1] = p
  <2>1. w[n + 1] = RunStep(t, Sep, w[n], n + 1)
    BY <1>1, <1>6
  <2>2. RunStep(t, Sep, w[n], n + 1) = w[n]
    BY <1>1 DEF RunStep
  <2> QED BY <1>5, <2>1, <2>2 DEF p
<1>8. p \in Seq(S) /\ Runs(a, Sep) = p
  BY <1>6 DEF p
<1>9. \A j \in 1 .. m : b[j] \notin Sep => v[j] # <<>>
  <2> SUFFICES ASSUME NEW j \in 1 .. m, b[j] \notin Sep PROVE v[j] # <<>>
    OBVIOUS
  <2>0. j - 1 \in 0 .. m /\ j \in 0 .. m
    BY <1>1
  <2>1. v[j - 1] \in Seq(S) /\ v[j] = RunStep(b, Sep, v[j - 1], j)
    BY <1>6, <2>0
  <2>4. CASE v[j - 1] = <<>>
    <3>1. v[j] = <<<<b[j]>>>>
      BY <2>1, <2>4 DEF RunStep
    <3> QED BY <3>1
  <2>5. CASE v[j - 1] # <<>> /\ b[j - 1] \in Sep
    <3>1. v[j] = Append(v[j - 1], <<b[j]>>)
      BY <2>1, <2>5 DEF RunStep
    <3> QED BY <2>1, <3>1, AppendNotEmpty
  <2>6. CASE v[j - 1] # <<>> /\ b[j - 1] \notin Sep
    <3> DEFINE f == Front(v[j - 1])
               l == Append(Last(v[j - 1]), b[j])
    <3>1. v[j] = Append(f, l)
      BY <2>1, <2>6 DEF RunStep
    <3>2. f \in Seq(S)
      BY <2>1, <2>6 DEF Front
    <3> HIDE DEF f, l
    <3> QED BY <3>1, <3>2, AppendNotEmpty
  <2> QED BY <2>4, <2>5, <2>6
<1> DEFINE T == {j \in 0 .. m : w[n + 1 + j] = p \o v[j]}
<1>10. 0 \in T
  <2>1. p \o <<>> = p
    BY <1>8, ConcatNone
  <2>2. v[0] = <<>> /\ n + 1 + 0 = n + 1 /\ 0 \in 0 .. m
    BY <1>1, <1>6
  <2>3. w[n + 1 + 0] = p \o v[0]
    BY <1>7, <2>1, <2>2
  <2> QED BY <2>2, <2>3
<1>11. ASSUME NEW j \in 0 .. m - 1, j \in T PROVE j + 1 \in T
  <2> DEFINE i == n + 1 + (j + 1)
             q == v[j]
             c == b[j + 1]
  <2>1. /\ j + 1 \in 1 .. m /\ j + 1 \in 0 .. m /\ (j + 1) - 1 = j /\ i \in 1 .. n + 1 + m
        /\ i - 1 = n + 1 + j /\ t[i] = c /\ j \in 0 .. m
    BY <1>1
  <2>2. t[i - 1] = IF j = 0 THEN x ELSE b[j]
    BY <1>1, <2>1
  <2>3. w[i - 1] = p \o q /\ q \in Seq(S) /\ v[j + 1] = RunStep(b, Sep, q, j + 1)
    BY <1>6, <1>11, <2>1
  <2>4. w[i] = RunStep(t, Sep, p \o q, i)
    BY <1>6, <2>1, <2>3
  <2>5. j = 0 => q = <<>>
    BY <1>6
  <2>6. j # 0 /\ b[j] \notin Sep => q # <<>>
    BY <1>9, <2>1
  <2>7. v[j + 1] \in Seq(S) /\ c \in C
    BY <1>1, <1>6, <2>1
  <2> HIDE DEF i, q, c
  <2>8. w[i] = p \o v[j + 1]
    <3>1. CASE c \in Sep
      <4>1. w[i] = p \o q
        BY <2>1, <2>4, <3>1 DEF RunStep
      <4>2. v[j + 1] = q
        BY <2>3, <3>1 DEF RunStep, c
      <4> QED BY <4>1, <4>2
    <3>2. CASE c \notin Sep /\ t[i - 1] \in Sep
      <4>1. w[i] = Append(p \o q, <<c>>)
        BY <2>1, <2>4, <3>2 DEF RunStep
      <4>2. q = <<>> \/ b[j] \in Sep
        BY <2>2, <2>5, <3>2
      <4>3. v[j + 1] = Append(q, <<c>>)
        BY <2>1, <2>3, <3>2, <4>2 DEF RunStep, c
      <4>4. <<c>> \in S
        BY <2>7, <3>2 DEF S, Piece
      <4>5. p \o Append(q, <<c>>) = Append(p \o q, <<c>>)
        BY <1>8, <2>3, <4>4, ConcatAppend, SMTT(30)
      <4> QED BY <4>1, <4>3, <4>5
    <3>3. CASE c \notin Sep /\ t[i - 1] \notin Sep
      <4>1. j # 0 /\ b[j] \notin Sep /\ q # <<>>
        BY <2>2, <2>6, <3>3
      <4>2. p \o q # <<>> /\ Front(p \o q) = p \o Front(q) /\ Last(p \o q) = Last(q)
        BY <1>8, <2>3, <4>1, ConcatFront
      <4> DEFINE l == Append(Last(q), c)
      <4>3. w[i] = Append(p \o Front(q), l)
        BY <2>1, <2>4, <3>3, <4>2 DEF RunStep
      <4>4. v[j + 1] = Append(Front(q), l)
        BY <2>1, <2>3, <3>3, <4>1 DEF RunStep, c
      <4>5. Front(q) \in Seq(S) /\ l \in S
        <5>1. Front(q) \in Seq(S) /\ Last(q) \in S
          <6>1. Len(q) \in DOMAIN q
            BY <2>3, <4>1
          <6> QED BY <2>3, <6>1 DEF Front, Last
        <5> DEFINE y == Last(q)
        <5> HIDE DEF y
        <5>2. y \in Piece(C, Sep)
          BY <5>1 DEF y, S
        <5>4. Append(y, c) \in S
          BY <2>7, <3>3, <5>2, PieceMore DEF S
        <5> QED BY <5>1, <5>4 DEF y
      <4> HIDE DEF l
      <4> DEFINE f == Front(q)
      <4> HIDE DEF f
      <4>6. f \in Seq(S) /\ f = Front(q)
        BY <4>5 DEF f
      <4>7. p \o Append(f, l) = Append(p \o f, l)
        BY <1>8, <4>5, <4>6, ConcatAppend
      <4> QED BY <4>3, <4>4, <4>6, <4>7
    <3> QED BY <3>1, <3>2, <3>3
  <2>9. w[n + 1 + (j + 1)] = p \o v[j + 1]
    BY <2>8 DEF i
  <2> QED BY <2>1, <2>9
<1>12. 0 \in 0 .. m
  BY <1>1
<1> HIDE DEF T
<1>13. m \in T
  BY <1>1, <1>10, <1>11, <1>12, Reaches
<1>14. w[n + 1 + m] = p \o v[m]
  BY <1>13 DEF T
<1>15. Runs(t, Sep) = p \o v[m]
  BY <1>6, <1>14
<1> QED BY <1>6, <1>8, <1>15 DEF t, Behind

\* A word without a separator is one piece.
LEMMA RunsOne ==
  ASSUME NEW C, NEW Sep, NEW word \in Piece(C, Sep)
  PROVE  Runs(word, Sep) = <<word>>
<1> DEFINE n == Len(word)
<1>1. word \in Seq(C) /\ n \in Nat \ {0} /\ \A i \in 1 .. n : word[i] \notin Sep /\ word[i] \in C
  BY DEF Piece
<1>2. PICK u : IsRuns(u, C, word, Sep)
  BY <1>1, RunsType
<1>3. u[0] = <<>> /\ (\A k \in 1 .. n : u[k] = RunStep(word, Sep, u[k - 1], k)) /\ Runs(word, Sep) = u[n]
  BY <1>2 DEF IsRuns
<1> DEFINE T == {k \in 1 .. n : u[k] = <<SubSeq(word, 1, k)>>}
<1>4. 1 \in T
  <2>1. 1 \in 1 .. n /\ u[1] = RunStep(word, Sep, <<>>, 1)
    BY <1>1, <1>3
  <2>2. u[1] = <<<<word[1]>>>>
    BY <1>1, <2>1 DEF RunStep
  <2>3. SubSeq(word, 1, 1) = <<word[1]>>
    <3>1. SubSeq(word, 1, 1) = Append(SubSeq(word, 1, 0), word[1])
      BY <1>1, <2>1
    <3>2. SubSeq(word, 1, 0) = <<>>
      BY <1>1
    <3>3. Append(<<>>, word[1]) = <<word[1]>>
      OBVIOUS
    <3> QED BY <3>1, <3>2, <3>3, Zenon
  <2> QED BY <2>1, <2>2, <2>3
<1>5. ASSUME NEW k \in 1 .. n - 1, k \in T PROVE k + 1 \in T
  <2> DEFINE w == SubSeq(word, 1, k)
             c == word[k + 1]
  <2>1. k + 1 \in 1 .. n /\ k \in 1 .. n /\ (k + 1) - 1 = k
    BY <1>1
  <2>2. SubSeq(word, 1, k + 1) = Append(w, c)
    BY <1>1
  <2>3. u[k] = <<w>>
    BY <1>5
  <2> HIDE DEF w
  <2>4. Front(<<w>>) = <<>> /\ Last(<<w>>) = w /\ <<w>> # <<>>
    BY DEF Front, Last
  <2>5. RunStep(word, Sep, <<w>>, k + 1) = Append(Front(<<w>>), Append(Last(<<w>>), c))
    BY <1>1, <2>1, <2>4 DEF RunStep
  <2>6. Append(<<>>, Append(w, c)) = <<Append(w, c)>>
    OBVIOUS
  <2>7. u[k + 1] = <<Append(w, c)>>
    BY <1>3, <2>1, <2>3, <2>4, <2>5, <2>6
  <2> QED BY <2>1, <2>2, <2>7
<1>6. n \in T
  <2>1. n \in Nat /\ 1 \in 0 .. n
    BY <1>1
  <2> HIDE DEF T, n
  <2> QED BY <1>4, <1>5, <2>1, Reaches
<1>7. SubSeq(word, 1, n) = word
  BY <1>1
<1> QED BY <1>3, <1>6, <1>7

-------------------------------------------------------------------------------
(* How paths are spelled *)

\* Two runs that take the same steps.
LEMMA RunAgree ==
  ASSUME NEW A, NEW base, NEW n \in Nat, NEW G, NEW u, IsRun(u, A, base, n, G),
         NEW m \in Nat, NEW H, NEW w, IsRun(w, A, base, m, H),
         NEW h \in Nat, h <= n, h <= m, \A a \in A, k \in 1 .. h : G[<<a, k>>] = H[<<a, k>>]
  PROVE  u[h] = w[h]
<1> DEFINE T == {k \in 0 .. h : u[k] = w[k]}
<1>1. 0 \in T
  BY DEF IsRun
<1>2. ASSUME NEW k \in 0 .. h - 1, k \in T PROVE k + 1 \in T
  <2>1. k + 1 \in 1 .. h /\ k + 1 \in 1 .. n /\ k + 1 \in 1 .. m /\ (k + 1) - 1 = k
        /\ k \in 0 .. n /\ k + 1 \in 0 .. h
    OBVIOUS
  <2>2. u[k] = w[k] /\ u[k] \in A
    BY <1>2, <2>1 DEF IsRun
  <2>3. u[k + 1] = G[<<u[k], k + 1>>] /\ w[k + 1] = H[<<u[k], k + 1>>]
    BY <2>1, <2>2 DEF IsRun
  <2> QED BY <2>1, <2>2, <2>3
<1>3. 0 \in 0 .. h
  OBVIOUS
<1> HIDE DEF T
<1>4. h \in T
  BY <1>1, <1>2, <1>3, Reaches
<1> QED BY <1>4 DEF T

Joins(S, s) == [p \in Seq(S) \X (1 .. Len(s)) |-> p[1] \o s[p[2]]]

LEMMA JoinsIs ==
  ASSUME NEW S, NEW s \in Seq(Seq(S))
  PROVE  /\ Joins(S, s) \in [Seq(S) \X (1 .. Len(s)) -> Seq(S)]
         /\ \A a \in Seq(S), k \in 1 .. Len(s) : Joins(S, s)[<<a, k>>] = a \o s[k]
<1>1. \A k \in 1 .. Len(s) : s[k] \in Seq(S)
  OBVIOUS
<1>2. \A a \in Seq(S), k \in 1 .. Len(s) : a \o s[k] \in Seq(S)
  BY <1>1
<1> QED BY <1>2 DEF Joins

\* FlattenSeq joins its items one by one.
LEMMA FlatIs ==
  ASSUME NEW S, NEW s \in Seq(Seq(S))
  PROVE  \E u : IsRun(u, Seq(S), <<>>, Len(s), Joins(S, s)) /\ FlattenSeq(s) = u[Len(s)]
<1> DEFINE n == Len(s)
           A == Seq(S)
           G == Joins(S, s)
           P(a) == a = [i \in 1 .. Len(s) |-> IF i = 1 THEN s[i] ELSE a[i - 1] \o s[i]]
           W == CHOOSE a : P(a)
<1>1. n # 0 => FlattenSeq(s) = W[n]
  BY Zenon DEF FlattenSeq
<1>2. n \in Nat /\ <<>> \in A
  OBVIOUS
<1>3. G \in [A \X (1 .. n) -> A] /\ \A a \in A, k \in 1 .. n : G[<<a, k>>] = a \o s[k]
  BY JoinsIs
<1>4. \A k \in 1 .. n : s[k] \in A /\ <<>> \o s[k] = s[k]
  <2>1. \A k \in 1 .. n : s[k] \in A
    OBVIOUS
  <2>2. \A a \in A : <<>> \o a = a
    OBVIOUS
  <2> HIDE DEF A, n
  <2> QED BY <2>1, <2>2
<1>5. n = 0 => FlattenSeq(s) = <<>>
  BY DEF FlattenSeq
<1> HIDE DEF G
<1>6. PICK r : IsRun(r, A, <<>>, n, G)
  <2> HIDE DEF A, n
  <2> QED BY <1>2, <1>3, RecExists
<1>7. P([i \in 1 .. n |-> r[i]])
  <2> DEFINE a == [i \in 1 .. n |-> r[i]]
  <2>1. ASSUME NEW i \in 1 .. n PROVE a[i] = IF i = 1 THEN s[i] ELSE a[i - 1] \o s[i]
    <3>1. r[i] = r[i - 1] \o s[i] /\ r[0] = <<>>
      <4> HIDE DEF A, n
      <4>0. i - 1 \in 0 .. n
        BY <1>2
      <4>1. r[i] = G[<<r[i - 1], i>>] /\ r[i - 1] \in A /\ r[0] = <<>>
        BY <1>6, <4>0 DEF IsRun
      <4> QED BY <1>3, <4>1
    <3>2. a[i] = r[i] /\ (i # 1 => a[i - 1] = r[i - 1])
      OBVIOUS
    <3>3. <<>> \o s[i] = s[i]
      BY <1>4
    <3> HIDE DEF a, n
    <3>4. CASE i = 1
      <4>1. r[i - 1] = <<>>
        BY <3>1, <3>4
      <4>2. a[i] = s[i]
        BY <3>1, <3>2, <3>3, <4>1, Zenon
      <4> QED BY <3>4, <4>2
    <3>5. CASE i # 1
      BY <3>1, <3>2, <3>5
    <3> QED BY <3>4, <3>5
  <2>2. a = [i \in 1 .. n |-> a[i]]
    OBVIOUS
  <2> HIDE DEF a
  <2>3. P(a)
    BY <2>1, <2>2, ZenonT(60)
  <2> QED BY <2>3 DEF a
<1>8. P(W)
  BY <1>7
<1>9. \A i \in 1 .. n : W[i] = IF i = 1 THEN s[i] ELSE W[i - 1] \o s[i]
  BY <1>8
<1> HIDE DEF W, A, n
<1> DEFINE u == [k \in 0 .. n |-> IF k = 0 THEN <<>> ELSE W[k]]
<1>10. Follows(u, A, <<>>, n, G)
  <2>1. u[0] = <<>>
    BY <1>2
  <2>2. ASSUME NEW k \in 1 .. n, u[k - 1] \in A PROVE u[k] = G[<<u[k - 1], k>>]
    <3>1. u[k] = W[k] /\ u[k - 1] = IF k = 1 THEN <<>> ELSE W[k - 1]
      BY <1>2
    <3>2. u[k] = u[k - 1] \o s[k]
      <4> HIDE DEF u
      <4> QED BY <1>4, <1>9, <3>1
    <3> HIDE DEF u
    <3> QED BY <1>3, <2>2, <3>2
  <2> HIDE DEF u
  <2> QED BY <2>1, <2>2 DEF Follows
<1>11. u = [k \in 0 .. n |-> u[k]] /\ (n # 0 => u[n] = W[n]) /\ u[0] = <<>>
  BY <1>2
<1> HIDE DEF u
<1>12. \A k \in 0 .. n : u[k] \in A
  BY <1>2, <1>3, <1>10, RunIn
<1>13. IsRun(u, A, <<>>, n, G)
  <2>1. u \in [0 .. n -> A]
    BY <1>11, <1>12
  <2>2. \A k \in 1 .. n : u[k - 1] \in A
    BY <1>2, <1>12
  <2> QED BY <1>10, <1>11, <2>1, <2>2 DEF IsRun, Follows
<1>14. FlattenSeq(s) = u[n]
  BY <1>1, <1>5, <1>11
<1> QED BY <1>13, <1>14 DEF A, n, G

LEMMA FlatType ==
  ASSUME NEW S, NEW s \in Seq(Seq(S)) PROVE FlattenSeq(s) \in Seq(S)
<1>1. PICK u : IsRun(u, Seq(S), <<>>, Len(s), Joins(S, s)) /\ FlattenSeq(s) = u[Len(s)]
  BY FlatIs
<1>2. Len(s) \in 0 .. Len(s)
  OBVIOUS
<1> QED BY <1>1, <1>2 DEF IsRun

LEMMA FlatAppend ==
  ASSUME NEW S, NEW s \in Seq(Seq(S)), NEW x \in Seq(S)
  PROVE  FlattenSeq(Append(s, x)) = FlattenSeq(s) \o x
<1> DEFINE n == Len(s)
           m == n + 1
           t == Append(s, x)
<1>1. n \in Nat /\ m \in Nat /\ t \in Seq(Seq(S)) /\ Len(t) = m /\ t[m] = x /\ \A k \in 1 .. n : s[k] = t[k]
  OBVIOUS
<1>2. n <= n /\ n <= m /\ m \in 1 .. m /\ m - 1 = n /\ n \in 0 .. m
  BY <1>1
<1> HIDE DEF t
<1>3. PICK u : IsRun(u, Seq(S), <<>>, n, Joins(S, s)) /\ FlattenSeq(s) = u[n]
  BY FlatIs
<1>4. PICK w : IsRun(w, Seq(S), <<>>, m, Joins(S, t)) /\ FlattenSeq(t) = w[m]
  <2>1. PICK w : IsRun(w, Seq(S), <<>>, Len(t), Joins(S, t)) /\ FlattenSeq(t) = w[Len(t)]
    BY <1>1, FlatIs
  <2> QED BY <1>1, <2>1
<1>5. \A a \in Seq(S), k \in 1 .. n : Joins(S, s)[<<a, k>>] = a \o s[k]
  BY JoinsIs
<1>6. \A a \in Seq(S), k \in 1 .. m : Joins(S, t)[<<a, k>>] = a \o t[k]
  <2>1. \A a \in Seq(S), k \in 1 .. Len(t) : Joins(S, t)[<<a, k>>] = a \o t[k]
    BY <1>1, JoinsIs
  <2> QED BY <1>1, <2>1
<1> HIDE DEF n, m
<1>7. u[n] = w[n]
  <2> DEFINE G == Joins(S, s)
             H == Joins(S, t)
  <2>1. \A a \in Seq(S), k \in 1 .. n : G[<<a, k>>] = H[<<a, k>>]
    <3> SUFFICES ASSUME NEW a \in Seq(S), NEW k \in 1 .. n PROVE G[<<a, k>>] = H[<<a, k>>]
      OBVIOUS
    <3>1. k \in 1 .. m /\ s[k] = t[k]
      BY <1>1, <1>2
    <3>2. G[<<a, k>>] = a \o s[k]
      BY <1>5
    <3>3. H[<<a, k>>] = a \o t[k]
      BY <1>6, <3>1
    <3> QED BY <3>1, <3>2, <3>3
  <2>2. IsRun(u, Seq(S), <<>>, n, G) /\ IsRun(w, Seq(S), <<>>, m, H)
    BY <1>3, <1>4
  <2> HIDE DEF G, H
  <2> QED BY <1>1, <1>2, <2>1, <2>2, RunAgree
<1>8. w[m] = w[n] \o x
  <2>1. w[m] = Joins(S, t)[<<w[n], m>>] /\ w[n] \in Seq(S)
    BY <1>2, <1>4 DEF IsRun
  <2> QED BY <1>1, <1>2, <1>6, <2>1
<1> QED BY <1>3, <1>4, <1>7, <1>8 DEF t

Word == Piece(Char, {Slash})

LEMMA NameIs == \A w : w \in Name <=> w \in Word /\ w # <<Dot>> /\ w # <<Dot, Dot>>
BY DEF Name, Word, Piece, Range, segment_is_dot, segment_is_dotdot

LEMMA SlashIs == Slash \in Char /\ <<Slash>> \in Seq(Char) /\ Dot \in Char /\ <<Dot>> \in Seq(Char)
BY DEF Slash, Dot, Char

LEMMA SlashJoin ==
  ASSUME NEW a \in Seq(Char), NEW b \in Seq(Char)
  PROVE  Runs(a \o (<<Slash>> \o b), {Slash}) = Runs(a, {Slash}) \o Runs(b, {Slash})
<1> DEFINE Sep == {Slash}
           C == Char
<1>1. Slash \in Sep /\ Slash \in C /\ a \in Seq(C) /\ b \in Seq(C)
  BY SlashIs
<1> HIDE DEF Sep, C
<1>2. Runs(Behind(a, Slash, b), Sep) = Runs(a, Sep) \o Runs(b, Sep)
  BY <1>1, RunsJoin
<1> QED BY <1>2 DEF Sep, Behind

Slashed(path) == FlattenSeq([i \in DOMAIN path |-> <<Slash>> \o path[i]])

LEMMA SlashedAppend ==
  ASSUME NEW path \in Seq(Seq(Char)), NEW name \in Seq(Char)
  PROVE  /\ Slashed(path) \in Seq(Char)
         /\ Slashed(Append(path, name)) = Slashed(path) \o (<<Slash>> \o name)
<1> DEFINE t == Append(path, name)
           f == [i \in DOMAIN path |-> <<Slash>> \o path[i]]
           g == [i \in DOMAIN t |-> <<Slash>> \o t[i]]
           x == <<Slash>> \o name
<1>1. \A w \in Seq(Char) : <<Slash>> \o w \in Seq(Char)
  BY SlashIs
<1>2. f \in Seq(Seq(Char))
  <2>1. DOMAIN path = 1 .. Len(path) /\ Len(path) \in Nat /\ \A i \in 1 .. Len(path) : path[i] \in Seq(Char)
    OBVIOUS
  <2>2. \A i \in 1 .. Len(path) : <<Slash>> \o path[i] \in Seq(Char)
    BY <1>1, <2>1
  <2> QED BY <2>1, <2>2
<1>3. x \in Seq(Char)
  BY <1>1
<1>4. g = Append(f, x)
  <2>1. Len(path) \in Nat /\ DOMAIN path = 1 .. Len(path) /\ Len(f) = Len(path)
        /\ DOMAIN t = 1 .. Len(path) + 1
    OBVIOUS
  <2>2. Append(f, x) = [i \in 1 .. Len(path) + 1 |-> IF i = Len(path) + 1 THEN x ELSE f[i]]
    BY <1>2, <1>3, <2>1
  <2>3. ASSUME NEW i \in 1 .. Len(path) + 1
        PROVE  <<Slash>> \o t[i] = IF i = Len(path) + 1 THEN x ELSE f[i]
    <3>1. CASE i = Len(path) + 1
      BY <3>1
    <3>2. CASE i # Len(path) + 1
      <4>1. i \in DOMAIN path /\ t[i] = path[i]
        BY <2>1, <3>2
      <4>2. f[i] = <<Slash>> \o path[i]
        BY <4>1
      <4> QED BY <3>2, <4>1, <4>2
    <3> QED BY <3>1, <3>2
  <2> HIDE DEF x, f, t
  <2> QED BY <2>1, <2>2, <2>3
<1> HIDE DEF x, f, g
<1>5. FlattenSeq(Append(f, x)) = FlattenSeq(f) \o x /\ FlattenSeq(f) \in Seq(Char)
  BY <1>2, <1>3, FlatAppend, FlatType
<1>6. Slashed(t) = Slashed(path) \o x /\ Slashed(path) \in Seq(Char)
  BY <1>4, <1>5 DEF Slashed, f, g
<1> QED BY <1>6 DEF x

LEMMA SlashedRoot == Slashed(<<>>) = <<>>
BY DEF Slashed, FlattenSeq

LEMMA WordIs == \A w \in Word : w \in Seq(Char)
BY DEF Word, Piece

LEMMA SeqWord == \A p \in Seq(Word) : p \in Seq(Seq(Char))
<1> SUFFICES ASSUME NEW p \in Seq(Word) PROVE p \in Seq(Seq(Char))
  OBVIOUS
<1>1. Word \subseteq Seq(Char)
  BY WordIs
<1> HIDE DEF Word
<1>2. Len(p) \in Nat /\ p \in [1 .. Len(p) -> Word]
  OBVIOUS
<1>3. p \in [1 .. Len(p) -> Seq(Char)]
  BY <1>1, <1>2
<1> QED BY <1>2, <1>3

\* The prefixes of a sequence.
LEMMA PrefixMore ==
  ASSUME NEW S, NEW s \in Seq(S), NEW k \in 0 .. Len(s) - 1
  PROVE  /\ SubSeq(s, 1, k) \in Seq(S) /\ Len(SubSeq(s, 1, k)) = k /\ s[k + 1] \in S
         /\ SubSeq(s, 1, k + 1) = Append(SubSeq(s, 1, k), s[k + 1])
         /\ Len(s) \in Nat /\ k \in Nat /\ k + 1 \in 1 .. Len(s)
OBVIOUS

LEMMA PrefixEnds ==
  ASSUME NEW S, NEW s \in Seq(S) PROVE SubSeq(s, 1, 0) = <<>> /\ SubSeq(s, 1, Len(s)) = s
OBVIOUS

\* A path is spelled so that Runs finds its names again.
LEMMA RunsSlashed ==
  ASSUME NEW path \in Seq(Word) PROVE Runs(Slashed(path), {Slash}) = path
<1> DEFINE n == Len(path)
           T == {k \in 0 .. n : Runs(Slashed(SubSeq(path, 1, k)), {Slash}) = SubSeq(path, 1, k)}
<1>1. n \in Nat
  OBVIOUS
<1>2. 0 \in T
  <2>1. SubSeq(path, 1, 0) = <<>>
    BY PrefixEnds
  <2>2. Runs(<<>>, {Slash}) = <<>>
    BY RunsNone
  <2>3. Runs(Slashed(SubSeq(path, 1, 0)), {Slash}) = SubSeq(path, 1, 0)
    BY <2>1, <2>2, SlashedRoot
  <2> QED BY <1>1, <2>3
<1>3. ASSUME NEW k \in 0 .. n - 1, k \in T PROVE k + 1 \in T
  <2> DEFINE p == SubSeq(path, 1, k)
             name == path[k + 1]
  <2>1. p \in Seq(Word) /\ name \in Word /\ SubSeq(path, 1, k + 1) = Append(p, name)
    <3> HIDE DEF Word
    <3> QED BY PrefixMore
  <2>2. Runs(Slashed(p), {Slash}) = p
    BY <1>3
  <2>3. k + 1 \in 0 .. n
    BY <1>1
  <2> HIDE DEF p, name
  <2>4. p \in Seq(Seq(Char)) /\ name \in Seq(Char)
    BY <2>1, SeqWord, WordIs
  <2>5. Slashed(p) \in Seq(Char) /\ Slashed(Append(p, name)) = Slashed(p) \o (<<Slash>> \o name)
    BY <2>4, SlashedAppend
  <2>6. Runs(Slashed(p) \o (<<Slash>> \o name), {Slash}) = Runs(Slashed(p), {Slash}) \o Runs(name, {Slash})
    BY <2>4, <2>5, SlashJoin
  <2>7. Runs(name, {Slash}) = <<name>>
    BY <2>1, RunsOne DEF Word
  <2>8. p \o <<name>> = Append(p, name)
    <3> HIDE DEF Word
    <3> QED BY <2>1
  <2>9. Runs(Slashed(Append(p, name)), {Slash}) = Append(p, name)
    BY <2>2, <2>5, <2>6, <2>7, <2>8
  <2> QED BY <2>1, <2>3, <2>9
<1>4. 0 \in 0 .. n
  BY <1>1
<1>5. SubSeq(path, 1, n) = path
  BY PrefixEnds
<1> HIDE DEF T, n
<1>6. n \in T
  BY <1>1, <1>2, <1>3, <1>4, Reaches
<1> QED BY <1>5, <1>6 DEF T

LEMMA SpelledIs ==
  ASSUME NEW path \in Seq(Word)
  PROVE  /\ Spelled(path) = IF path = <<>> THEN <<Slash>> ELSE Slashed(path)
         /\ Spelled(path) \in Seq(Char) /\ Runs(Spelled(path), {Slash}) = path
<1>1. Spelled(path) = IF path = <<>> THEN <<Slash>> ELSE Slashed(path)
  BY DEF Spelled, Slashed, Root
<1>2. path \in Seq(Seq(Char)) /\ <<>> \in Seq(Char)
  BY SeqWord
<1>3. Slashed(path) \in Seq(Char)
  BY <1>2, SlashedAppend
<1>4. Runs(<<Slash>>, {Slash}) = <<>>
  <2>1. <<>> \in Seq(Char)
    OBVIOUS
  <2>2. Runs(<<>> \o (<<Slash>> \o <<>>), {Slash}) = Runs(<<>>, {Slash}) \o Runs(<<>>, {Slash})
    BY <2>1, SlashJoin
  <2>3. <<>> \o (<<Slash>> \o <<>>) = <<Slash>> /\ <<>> \o <<>> = <<>>
    OBVIOUS
  <2>4. Runs(<<>>, {Slash}) = <<>>
    BY RunsNone
  <2> QED BY <2>2, <2>3, <2>4
<1> QED BY <1>1, <1>3, <1>4, SlashIs, RunsSlashed

\* A word behind the spelling of a path.
LEMMA RunsBehind ==
  ASSUME NEW path \in Seq(Word), NEW word \in Seq(Char)
  PROVE  /\ Spelled(path) \o <<Slash>> \o word \in Seq(Char)
         /\ Runs(Spelled(path) \o <<Slash>> \o word, {Slash}) = path \o Runs(word, {Slash})
<1> DEFINE p == Spelled(path)
<1>1. p \in Seq(Char) /\ Runs(p, {Slash}) = path
  BY SpelledIs
<1>2. <<Slash>> \in Seq(Char)
  BY SlashIs
<1> HIDE DEF p
<1>3. (p \o <<Slash>>) \o word = p \o (<<Slash>> \o word) /\ (p \o <<Slash>>) \o word \in Seq(Char)
  BY <1>1, <1>2
<1>4. Runs(p \o (<<Slash>> \o word), {Slash}) = Runs(p, {Slash}) \o Runs(word, {Slash})
  BY <1>1, SlashJoin
<1> QED BY <1>1, <1>3, <1>4 DEF p

-------------------------------------------------------------------------------
(* Paths that are resolved *)

Up == {<<Dot, Dot>>}

NotDots(runs) == {i \in DOMAIN runs : ~segment_is_dot(runs[i])}

Undotted(runs) == Picked(runs, NotDots(runs))

LEMMA UndottedAppend ==
  ASSUME NEW S, NEW runs \in Seq(S), NEW seg \in S
  PROVE  /\ Undotted(runs) \in Seq(S)
         /\ Undotted(Append(runs, seg)) = IF segment_is_dot(seg) THEN Undotted(runs)
            ELSE Append(Undotted(runs), seg)
<1> DEFINE n == Len(runs)
           t == Append(runs, seg)
           K == NotDots(runs)
           M == NotDots(t)
<1>1. n \in Nat /\ \A i \in 1 .. n : i \in K <=> i \in M
  BY DEF NotDots
<1>2. n + 1 \in M <=> ~segment_is_dot(seg)
  BY DEF NotDots
<1> HIDE DEF M, K
<1>3. Picked(t, M) = IF n + 1 \in M THEN Append(Picked(runs, M), seg) ELSE Picked(runs, M)
  BY PickedAppend
<1>4. Picked(runs, K) = Picked(runs, M)
  BY <1>1, PickedSame
<1>5. Undotted(runs) = Picked(runs, K) /\ Undotted(t) = Picked(t, M)
  BY DEF Undotted, K, M
<1>6. Picked(runs, K) \in Seq(S)
  BY PickedType
<1> QED BY <1>2, <1>3, <1>4, <1>5, <1>6

LEMMA UndottedNone == Undotted(<<>>) = <<>>
<1>1. Len(<<>>) \in Nat /\ \A k \in 1 .. Len(<<>>) : k \notin NotDots(<<>>)
  OBVIOUS
<1> QED BY <1>1, PickedNone DEF Undotted

\* Behind names, the dots are what they are elsewhere.
LEMMA UndottedBehind ==
  ASSUME NEW path \in Seq(Name), NEW runs \in Seq(Word)
  PROVE  Undotted(path \o runs) = path \o Undotted(runs)
<1> DEFINE S == Seq(Char)
<1>0. Name \subseteq S /\ Word \subseteq S /\ \A w \in Name : ~segment_is_dot(w)
  BY NameIs, WordIs DEF segment_is_dot
<1>1. path \in Seq(S) /\ runs \in Seq(S)
  <2>1. path \in [1 .. Len(path) -> S] /\ Len(path) \in Nat
    <3> HIDE DEF S
    <3> QED BY <1>0
  <2>2. runs \in [1 .. Len(runs) -> S] /\ Len(runs) \in Nat
    <3> HIDE DEF S
    <3> QED BY <1>0
  <2> HIDE DEF S
  <2> QED BY <2>1, <2>2
<1> HIDE DEF S
<1>2. Undotted(path) = path
  <2> DEFINE n == Len(path)
             T == {k \in 0 .. n : Undotted(SubSeq(path, 1, k)) = SubSeq(path, 1, k)}
  <2>1. n \in Nat
    OBVIOUS
  <2>2. 0 \in T
    <3>1. SubSeq(path, 1, 0) = <<>>
      BY PrefixEnds
    <3>2. Undotted(SubSeq(path, 1, 0)) = SubSeq(path, 1, 0)
      BY <3>1, UndottedNone
    <3> QED BY <2>1, <3>2
  <2>3. ASSUME NEW k \in 0 .. n - 1, k \in T PROVE k + 1 \in T
    <3> DEFINE p == SubSeq(path, 1, k)
               name == path[k + 1]
    <3>1. p \in Seq(Name) /\ name \in Name /\ SubSeq(path, 1, k + 1) = Append(p, name)
      BY PrefixMore
    <3>2. Undotted(p) = p /\ k + 1 \in 0 .. n
      BY <2>1, <2>3
    <3> HIDE DEF p, name
    <3>3. Undotted(Append(p, name)) = Append(Undotted(p), name)
      BY <1>0, <3>1, UndottedAppend
    <3>4. Undotted(SubSeq(path, 1, k + 1)) = SubSeq(path, 1, k + 1)
      BY <3>1, <3>2, <3>3
    <3> QED BY <3>2, <3>4
  <2>4. 0 \in 0 .. n
    BY <2>1
  <2>5. SubSeq(path, 1, n) = path
    BY PrefixEnds
  <2> HIDE DEF T, n
  <2>6. n \in T
    BY <2>1, <2>2, <2>3, <2>4, Reaches
  <2> QED BY <2>5, <2>6 DEF T
<1> DEFINE n == Len(runs)
           T == {k \in 0 .. n : Undotted(path \o SubSeq(runs, 1, k)) = path \o Undotted(SubSeq(runs, 1, k))}
<1>3. n \in Nat
  OBVIOUS
<1>4. 0 \in T
  <2>1. SubSeq(runs, 1, 0) = <<>>
    BY <1>1, PrefixEnds
  <2>2. path \o <<>> = path
    BY <1>1, ConcatNone
  <2>3. Undotted(path \o SubSeq(runs, 1, 0)) = path \o Undotted(SubSeq(runs, 1, 0))
    BY <1>2, <2>1, <2>2, UndottedNone
  <2> QED BY <1>3, <2>3
<1>5. ASSUME NEW k \in 0 .. n - 1, k \in T PROVE k + 1 \in T
  <2> DEFINE p == SubSeq(runs, 1, k)
             seg == runs[k + 1]
  <2>1. p \in Seq(S) /\ seg \in S /\ SubSeq(runs, 1, k + 1) = Append(p, seg)
    BY <1>1, PrefixMore
  <2>2. Undotted(path \o p) = path \o Undotted(p) /\ k + 1 \in 0 .. n
    BY <1>3, <1>5
  <2> HIDE DEF p, seg
  <2>3. path \o p \in Seq(S) /\ path \o Append(p, seg) = Append(path \o p, seg)
    BY <1>1, <2>1, ConcatAppend
  <2>4. /\ Undotted(Append(path \o p, seg)) = IF segment_is_dot(seg) THEN Undotted(path \o p)
                                              ELSE Append(Undotted(path \o p), seg)
        /\ Undotted(Append(p, seg)) = IF segment_is_dot(seg) THEN Undotted(p) ELSE Append(Undotted(p), seg)
        /\ Undotted(p) \in Seq(S)
    BY <2>1, <2>3, UndottedAppend
  <2> DEFINE q == Undotted(p)
  <2> HIDE DEF q
  <2>5. q \in Seq(S) /\ q = Undotted(p)
    BY <2>4 DEF q
  <2>6. path \o Append(q, seg) = Append(path \o q, seg)
    BY <1>1, <2>1, <2>5, ConcatAppend
  <2>7. Undotted(path \o Append(p, seg)) = path \o Undotted(Append(p, seg))
    BY <2>2, <2>3, <2>4, <2>5, <2>6
  <2>8. Undotted(path \o SubSeq(runs, 1, k + 1)) = path \o Undotted(SubSeq(runs, 1, k + 1))
    BY <2>1, <2>7
  <2> QED BY <2>2, <2>8
<1>6. 0 \in 0 .. n
  BY <1>3
<1>7. SubSeq(runs, 1, n) = runs
  BY <1>1, PrefixEnds
<1> HIDE DEF T, n
<1>8. n \in T
  BY <1>3, <1>4, <1>5, <1>6, Reaches
<1> QED BY <1>7, <1>8 DEF T

LEMMA MeantIs ==
  ASSUME NEW cwd, NEW word
  PROVE  Meant(cwd, word) = Uncancelled((IF word # <<>> /\ word[1] = Slash THEN <<>> ELSE cwd)
                                          \o Undotted(Runs(word, {Slash})), Up)
BY DEF Meant, Undotted, NotDots, Up

\* One segment, as fs_path_normalize takes it.
-------------------------------------------------------------------------------
(* fs_path_normalize: one step for every segment.  The pool never holds more      *)
(* than the characters of the word, and the stack at least two of them for each.  *)

NormStep(s, seg) ==
  IF ~s.ok \/ segment_is_dot(seg) THEN s
  ELSE IF segment_is_dotdot(seg)
         THEN IF s.segs = <<>> THEN s ELSE [s EXCEPT !.segs = Front(@)]
  ELSE IF Len(s.segs) >= PathMax \div 2 \/ s.pool + Len(seg) + 1 > PathMax
         THEN [s EXCEPT !.ok = FALSE]
  ELSE [s EXCEPT !.segs = Append(@, seg), !.pool = @ + Len(seg) + 1]

NormState == [segs : Seq(Name), pool : Nat, ok : BOOLEAN]

NormStart == [segs |-> <<>>, pool |-> 0, ok |-> TRUE]

NormSteps(runs) == [p \in NormState \X (1 .. Len(runs)) |-> NormStep(p[1], runs[p[2]])]

\* The cases of a step.
LEMMA NormStepIs ==
  ASSUME NEW s \in NormState, NEW seg \in Word
  PROVE  /\ NormStep(s, seg) \in NormState
         /\ ~s.ok \/ segment_is_dot(seg) => NormStep(s, seg) = s
         /\ s.ok /\ segment_is_dotdot(seg) =>
              /\ NormStep(s, seg).ok /\ NormStep(s, seg).pool = s.pool
              /\ NormStep(s, seg).segs = IF s.segs = <<>> THEN s.segs ELSE Front(s.segs)
         /\ s.ok /\ seg \in Name =>
              IF Len(s.segs) >= PathMax \div 2 \/ s.pool + Len(seg) + 1 > PathMax
                THEN ~NormStep(s, seg).ok
                ELSE /\ NormStep(s, seg).ok /\ NormStep(s, seg).pool = s.pool + Len(seg) + 1
                     /\ NormStep(s, seg).segs = Append(s.segs, seg)
<1>1. s.segs \in Seq(Name) /\ s.pool \in Nat /\ s.ok \in BOOLEAN
      /\ s = [segs |-> s.segs, pool |-> s.pool, ok |-> s.ok]
  BY DEF NormState
<1>2. segment_is_dot(seg) \/ segment_is_dotdot(seg) \/ seg \in Name
  BY NameIs DEF segment_is_dot, segment_is_dotdot
<1>3. seg \in Name => ~segment_is_dot(seg) /\ ~segment_is_dotdot(seg)
  BY NameIs DEF segment_is_dot, segment_is_dotdot
<1>4. ~(segment_is_dot(seg) /\ segment_is_dotdot(seg))
  BY DEF segment_is_dot, segment_is_dotdot
<1>5. seg \in Seq(Char) /\ Len(seg) \in Nat
  BY WordIs
<1>6. ASSUME s.segs # <<>> PROVE Front(s.segs) \in Seq(Name)
  BY <1>1, <1>6 DEF Front
<1>7. CASE ~s.ok \/ segment_is_dot(seg)
  BY <1>1, <1>3, <1>4, <1>7 DEF NormStep
<1>8. CASE s.ok /\ segment_is_dotdot(seg)
  <2>1. NormStep(s, seg) = IF s.segs = <<>> THEN s ELSE [s EXCEPT !.segs = Front(s.segs)]
    BY <1>4, <1>8 DEF NormStep
  <2>2. CASE s.segs = <<>>
    BY <1>1, <1>3, <1>4, <1>8, <2>1, <2>2
  <2>3. CASE s.segs # <<>>
    <3>1. NormStep(s, seg) = [segs |-> Front(s.segs), pool |-> s.pool, ok |-> s.ok]
      BY <1>1, <2>1, <2>3
    <3> QED BY <1>1, <1>3, <1>4, <1>6, <1>8, <2>3, <3>1 DEF NormState
  <2> QED BY <2>2, <2>3
<1>9. CASE s.ok /\ seg \in Name
  <2>1. CASE Len(s.segs) >= PathMax \div 2 \/ s.pool + Len(seg) + 1 > PathMax
    <3>1. NormStep(s, seg) = [s EXCEPT !.ok = FALSE]
      BY <1>3, <1>9, <2>1 DEF NormStep
    <3>2. NormStep(s, seg) = [segs |-> s.segs, pool |-> s.pool, ok |-> FALSE]
      BY <1>1, <3>1
    <3> QED BY <1>1, <1>3, <1>9, <2>1, <3>2 DEF NormState
  <2>2. CASE ~(Len(s.segs) >= PathMax \div 2 \/ s.pool + Len(seg) + 1 > PathMax)
    <3>1. NormStep(s, seg) = [s EXCEPT !.segs = Append(@, seg), !.pool = @ + Len(seg) + 1]
      BY <1>3, <1>9, <2>2 DEF NormStep
    <3>2. NormStep(s, seg) = [segs |-> Append(s.segs, seg), pool |-> s.pool + Len(seg) + 1, ok |-> s.ok]
      BY <1>1, <3>1
    <3>3. Append(s.segs, seg) \in Seq(Name) /\ s.pool + Len(seg) + 1 \in Nat
      BY <1>1, <1>5, <1>9
    <3> QED BY <1>1, <1>3, <1>9, <2>2, <3>2, <3>3 DEF NormState
  <2> QED BY <2>1, <2>2
<1> QED BY <1>2, <1>7, <1>8, <1>9

\* fs_path_normalize goes over the segments one by one.
LEMMA NormRun ==
  ASSUME NEW runs \in Seq(Word)
  PROVE  \E u : IsRun(u, NormState, NormStart, Len(runs), NormSteps(runs))
                /\ FoldLeft(NormStep, NormStart, runs) = u[Len(runs)]
<1> DEFINE n == Len(runs)
           A == NormState
           G == NormSteps(runs)
           b == NormStart
           f == runs
           P(g) == g = [q \in SUBSET DOMAIN f |->
                          IF q = {} THEN b ELSE NormStep(g[q \ {Max(q)}], f[Max(q)])]
           W == CHOOSE g : P(g)
<1>1. FoldLeft(NormStep, NormStart, runs) = W[DOMAIN f]
  BY Zenon DEF FoldLeft, MapThenFoldSet
<1>2. n \in Nat /\ DOMAIN f = 1 .. n
  OBVIOUS
<1>3. b \in A
  BY DEF NormState, NormStart
<1>4. G \in [A \X (1 .. n) -> A] /\ \A a \in A, k \in 1 .. n : G[<<a, k>>] = NormStep(a, f[k])
  <2>1. \A k \in 1 .. n : f[k] \in Word
    <3> HIDE DEF Word
    <3> QED OBVIOUS
  <2>2. \A a \in A, k \in 1 .. n : NormStep(a, f[k]) \in A
    BY <2>1, NormStepIs
  <2>3. G = [p \in A \X (1 .. n) |-> NormStep(p[1], f[p[2]])]
    BY DEF NormSteps
  <2> HIDE DEF A, n, f, G
  <2> QED BY <2>2, <2>3
<1> HIDE DEF A, n, G, f, b
<1>5. \A q \in SUBSET (1 .. n) : q # {} => Max(q) \in 1 .. n
  BY <1>2, MaxIs
<1>6. \E g : P(g)
  <2>0. PICK g : IsFold(g, A, b, n, G)
    BY <1>2, <1>3, <1>4, FoldExists
  <2>1. g \in [SUBSET (1 .. n) -> A] /\ \A q \in SUBSET (1 .. n) :
          g[q] = IF q = {} THEN b ELSE G[<<g[q \ {Max(q)}], Max(q)>>]
    BY <2>0 DEF IsFold
  <2>2. ASSUME NEW q \in SUBSET (1 .. n)
        PROVE  g[q] = IF q = {} THEN b ELSE NormStep(g[q \ {Max(q)}], f[Max(q)])
    <3>1. CASE q # {}
      <4>1. Max(q) \in 1 .. n /\ g[q \ {Max(q)}] \in A
        BY <1>5, <2>1, <3>1
      <4> QED BY <1>4, <2>1, <3>1, <4>1
    <3> QED BY <2>1, <3>1
  <2>3. g = [q \in SUBSET (1 .. n) |-> g[q]]
    BY <2>1
  <2>4. P(g)
    BY <1>2, <2>2, <2>3
  <2> QED BY <2>4
<1>7. P(W)
  BY <1>6
<1> HIDE DEF W
<1>8. FoldsBy(W, A, b, n, G)
  <2>1. \A q \in SUBSET (1 .. n) :
          W[q] = IF q = {} THEN b ELSE NormStep(W[q \ {Max(q)}], f[Max(q)])
    BY <1>2, <1>7
  <2>2. {} \in SUBSET (1 .. n)
    OBVIOUS
  <2>3. W[{}] = b
    BY <2>1, <2>2
  <2>4. ASSUME NEW q \in SUBSET (1 .. n), q # {}, W[q \ {Max(q)}] \in A
        PROVE  W[q] = G[<<W[q \ {Max(q)}], Max(q)>>]
    <3> DEFINE m == Max(q)
    <3>1. m \in 1 .. n
      BY <1>5, <2>4
    <3>2. W[q] = NormStep(W[q \ {m}], f[m]) /\ W[q \ {m}] \in A
      BY <2>1, <2>4
    <3> HIDE DEF m
    <3>3. W[q] = G[<<W[q \ {m}], m>>]
      BY <1>4, <3>1, <3>2
    <3> QED BY <3>3 DEF m
  <2> QED BY <2>3, <2>4 DEF FoldsBy
<1>9. PICK u : RunsTo(u, W, A, b, n, G)
  BY <1>2, <1>3, <1>4, <1>8, FoldRun
<1> QED BY <1>1, <1>2, <1>9 DEF A, n, G, b, RunsTo

\* What the names of a path take in a buffer.
Cost(path) == Len(Slashed(path))

\* The characters a path takes, with a slash before each name.
LEMMA CostAppend ==
  ASSUME NEW path \in Seq(Word), NEW name \in Word
  PROVE  /\ Cost(path) \in Nat /\ Len(name) \in Nat \ {0}
         /\ Cost(Append(path, name)) = Cost(path) + 1 + Len(name)
<1>1. path \in Seq(Seq(Char)) /\ name \in Seq(Char)
  BY SeqWord, WordIs
<1>2. Slashed(path) \in Seq(Char) /\ Slashed(Append(path, name)) = Slashed(path) \o (<<Slash>> \o name)
  BY <1>1, SlashedAppend
<1> DEFINE q == Slashed(path)
           r == <<Slash>> \o name
<1>3. r \in Seq(Char) /\ Len(r) = 1 + Len(name) /\ Len(name) \in Nat
  BY <1>1, SlashIs
<1>4. Len(name) # 0
  BY <1>1 DEF Word, Piece
<1> HIDE DEF q, r
<1>5. q \in Seq(Char)
  BY <1>2 DEF q
<1>6. Len(q \o r) = Len(q) + Len(r) /\ Len(q) \in Nat
  BY <1>3, <1>5
<1> QED BY <1>2, <1>3, <1>4, <1>6 DEF Cost, q, r

LEMMA CostRoot == Cost(<<>>) = 0
BY SlashedRoot DEF Cost

LEMMA FrontLast ==
  ASSUME NEW S, NEW p \in Seq(S), p # <<>>
  PROVE  Front(p) \in Seq(S) /\ Last(p) \in S /\ p = Append(Front(p), Last(p))
BY DEF Front, Last

LEMMA CostFront ==
  ASSUME NEW path \in Seq(Word), path # <<>>
  PROVE  /\ Front(path) \in Seq(Word) /\ Last(path) \in Word /\ Cost(Front(path)) \in Nat
         /\ Cost(path) = Cost(Front(path)) + 1 + Len(Last(path)) /\ Len(Last(path)) \in Nat
<1> DEFINE p == Front(path)
           x == Last(path)
<1>1. p \in Seq(Word) /\ x \in Word /\ path = Append(p, x)
  <2> HIDE DEF Word
  <2> QED BY FrontLast
<1> HIDE DEF p, x
<1>2. Cost(p) \in Nat /\ Len(x) \in Nat /\ Cost(Append(p, x)) = Cost(p) + 1 + Len(x)
  BY <1>1, CostAppend
<1> QED BY <1>1, <1>2 DEF p, x

\* A name takes at least two characters.
LEMMA CostNames ==
  ASSUME NEW path \in Seq(Word) PROVE 2 * Len(path) <= Cost(path) /\ Cost(path) \in Nat
<1> DEFINE n == Len(path)
           T == {k \in 0 .. n : 2 * k <= Cost(SubSeq(path, 1, k)) /\ Cost(SubSeq(path, 1, k)) \in Nat}
<1>1. n \in Nat
  OBVIOUS
<1>2. 0 \in T
  <2> DEFINE none == SubSeq(path, 1, 0)
  <2>1. none = <<>>
    BY PrefixEnds
  <2> HIDE DEF none
  <2>2. 2 * 0 <= Cost(none) /\ Cost(none) \in Nat
    BY <2>1, CostRoot
  <2>3. 0 \in 0 .. n
    BY <1>1
  <2> QED BY <2>2, <2>3 DEF none
<1>3. ASSUME NEW k \in 0 .. n - 1, k \in T PROVE k + 1 \in T
  <2> DEFINE p == SubSeq(path, 1, k)
             name == path[k + 1]
  <2>1. p \in Seq(Word) /\ name \in Word /\ SubSeq(path, 1, k + 1) = Append(p, name)
    <3> HIDE DEF Word
    <3> QED BY PrefixMore
  <2>2. 2 * k <= Cost(p) /\ k + 1 \in 0 .. n
    BY <1>1, <1>3
  <2> HIDE DEF p, name
  <2>3. Cost(p) \in Nat /\ Len(name) \in Nat \ {0} /\ Cost(Append(p, name)) = Cost(p) + 1 + Len(name)
    BY <2>1, CostAppend
  <2>4. 2 * (k + 1) <= Cost(Append(p, name)) /\ Cost(Append(p, name)) \in Nat
    BY <1>1, <2>2, <2>3
  <2> QED BY <2>1, <2>2, <2>4
<1>4. 0 \in 0 .. n
  BY <1>1
<1>5. SubSeq(path, 1, n) = path
  BY PrefixEnds
<1> HIDE DEF T, n
<1>6. n \in T
  BY <1>1, <1>2, <1>3, <1>4, Reaches
<1> QED BY <1>5, <1>6 DEF T, n

LEMMA SeqName == ASSUME NEW p \in Seq(Name) PROVE p \in Seq(Word)
<1>1. Name \subseteq Word
  BY NameIs
<1>2. Len(p) \in Nat /\ p \in [1 .. Len(p) -> Name]
  OBVIOUS
<1> HIDE DEF Word
<1>3. p \in [1 .. Len(p) -> Word]
  BY <1>1, <1>2
<1> QED BY <1>2, <1>3

\* The state after some segments: the stack holds what they mean, and no more of the
\* pool is taken than they cost.
NormGood(s, runs) ==
  /\ s \in NormState
  /\ s.ok => s.segs = Uncancelled(Undotted(runs), Up)
  /\ s.pool <= Cost(runs) /\ Cost(s.segs) <= s.pool
  /\ Cost(runs) < PathMax => s.ok

LEMMA NormGoodStep ==
  ASSUME NEW runs \in Seq(Word), NEW s, NormGood(s, runs), NEW seg \in Word
  PROVE  NormGood(NormStep(s, seg), Append(runs, seg))
<1> DEFINE t == NormStep(s, seg)
           now == Append(runs, seg)
           segs == s.segs
           un == Undotted(runs)
<1>1. s \in NormState /\ segs \in Seq(Name) /\ s.pool \in Nat /\ s.ok \in BOOLEAN
  BY DEF NormGood, NormState
<1>2. t \in NormState
  BY <1>1, NormStepIs
<1>3. Cost(runs) \in Nat /\ Len(seg) \in Nat \ {0} /\ Cost(now) = Cost(runs) + 1 + Len(seg)
  BY CostAppend
<1>4. segs \in Seq(Word) /\ Cost(segs) \in Nat /\ 2 * Len(segs) <= Cost(segs) /\ Len(segs) \in Nat
  BY <1>1, SeqName, CostNames
<1>5. s.pool <= Cost(runs) /\ Cost(segs) <= s.pool /\ (Cost(runs) < PathMax => s.ok)
      /\ (s.ok => segs = Uncancelled(un, Up))
  BY DEF NormGood
<1>6. PathMax \in Nat
  BY PathFilesAssumption
<1>7. un \in Seq(Word) /\ Undotted(now) = IF segment_is_dot(seg) THEN un ELSE Append(un, seg)
  <2> HIDE DEF Word
  <2> QED BY UndottedAppend
<1> HIDE DEF un, now
<1>8. CASE ~s.ok \/ segment_is_dot(seg)
  <2>1. t = s
    BY <1>1, <1>8, NormStepIs
  <2> QED BY <1>1, <1>3, <1>5, <1>6, <1>7, <1>8, <2>1 DEF NormGood, now
<1>9. CASE s.ok /\ segment_is_dotdot(seg)
  <2>1. t.ok /\ t.pool = s.pool /\ t.segs = IF segs = <<>> THEN segs ELSE Front(segs)
    BY <1>1, <1>9, NormStepIs
  <2>2. ~segment_is_dot(seg) /\ seg \in Up
    BY <1>9 DEF segment_is_dot, segment_is_dotdot, Up
  <2>3. Uncancelled(Append(un, seg), Up) = IF Uncancelled(un, Up) = <<>> THEN <<>>
        ELSE Front(Uncancelled(un, Up))
    <3> HIDE DEF Up, Word
    <3> QED BY <1>7, <2>2, UncancelledUndoes
  <2>4. t.segs = Uncancelled(Undotted(now), Up)
    BY <1>5, <1>7, <1>9, <2>1, <2>2, <2>3
  <2>5. Cost(t.segs) <= s.pool
    <3>1. CASE segs = <<>>
      BY <1>5, <2>1, <3>1
    <3>2. CASE segs # <<>>
      <4>1. Cost(Front(segs)) \in Nat /\ Len(Last(segs)) \in Nat
            /\ Cost(segs) = Cost(Front(segs)) + 1 + Len(Last(segs))
        BY <1>4, <3>2, CostFront
      <4>2. t.segs = Front(segs)
        BY <2>1, <3>2
      <4> QED BY <1>1, <1>5, <4>1, <4>2
    <3> QED BY <3>1, <3>2
  <2>6. t.pool <= Cost(now)
    BY <1>1, <1>3, <1>5, <2>1 DEF now
  <2> QED BY <1>2, <2>1, <2>4, <2>5, <2>6 DEF NormGood, now
<1>10. CASE s.ok /\ seg \in Name
  <2>1. seg \notin Up /\ ~segment_is_dot(seg)
    BY <1>10, NameIs DEF Up, segment_is_dot
  <2>2. CASE Len(segs) >= PathMax \div 2 \/ s.pool + Len(seg) + 1 > PathMax
    <3>1. ~t.ok
      BY <1>1, <1>10, <2>2, NormStepIs
    <3>2. ~(Cost(now) < PathMax)
      BY <1>1, <1>3, <1>4, <1>5, <1>6, <2>2, SMTT(30) DEF now
    <3>3. t = [s EXCEPT !.ok = FALSE]
      BY <1>10, <2>1, <2>2, NameIs DEF NormStep, segment_is_dotdot
    <3>4. t.pool = s.pool /\ t.segs = segs
      BY <1>1, <3>3 DEF NormState
    <3>5. t.pool <= Cost(now) /\ Cost(t.segs) <= t.pool
      BY <1>1, <1>3, <1>5, <3>4 DEF now
    <3> QED BY <1>2, <3>1, <3>2, <3>5 DEF NormGood, now
  <2>3. CASE ~(Len(segs) >= PathMax \div 2 \/ s.pool + Len(seg) + 1 > PathMax)
    <3>1. t.ok /\ t.pool = s.pool + Len(seg) + 1 /\ t.segs = Append(segs, seg)
      BY <1>1, <1>10, <2>3, NormStepIs
    <3>2. Uncancelled(Append(un, seg), Up) = Append(Uncancelled(un, Up), seg)
      <4> HIDE DEF Up, Word
      <4> QED BY <1>7, <2>1, UncancelledAdds
    <3>3. t.segs = Uncancelled(Undotted(now), Up)
      BY <1>5, <1>7, <1>10, <2>1, <3>1, <3>2
    <3>4. Cost(Append(segs, seg)) = Cost(segs) + 1 + Len(seg)
      BY <1>4, CostAppend
    <3>5. t.pool <= Cost(now) /\ Cost(t.segs) <= t.pool
      BY <1>1, <1>3, <1>4, <1>5, <3>1, <3>4, SMTT(30) DEF now
    <3> QED BY <1>2, <3>1, <3>3, <3>5 DEF NormGood, now
  <2> QED BY <2>2, <2>3
<1>11. segment_is_dot(seg) \/ segment_is_dotdot(seg) \/ seg \in Name
  BY NameIs DEF segment_is_dot, segment_is_dotdot
<1> QED BY <1>1, <1>8, <1>9, <1>10, <1>11

LEMMA NothingMeant == Uncancelled(<<>>, Up) = <<>>
<1> DEFINE s == <<>>
<1>1. s \in Seq({}) /\ Len(s) \in Nat
  OBVIOUS
<1>2. \A k \in 1 .. Len(s) : k \notin Staying(s, Up)
  BY DEF Staying
<1> HIDE DEF s
<1>3. Uncancelled(s, Up) = Picked(s, Staying(s, Up))
  BY <1>1, UncancelledIs
<1>4. Picked(s, Staying(s, Up)) = <<>>
  BY <1>1, <1>2, PickedNone
<1> QED BY <1>3, <1>4 DEF s

\* What the loop of fs_path_normalize has after the last segment.
LEMMA NormFold ==
  ASSUME NEW runs \in Seq(Word)
  PROVE  NormGood(FoldLeft(NormStep, NormStart, runs), runs)
<1> DEFINE n == Len(runs)
<1>1. PICK u : IsRun(u, NormState, NormStart, n, NormSteps(runs))
               /\ FoldLeft(NormStep, NormStart, runs) = u[n]
  BY NormRun
<1> DEFINE T == {k \in 0 .. n : NormGood(u[k], SubSeq(runs, 1, k))}
<1>2. n \in Nat
  OBVIOUS
<1>3. 0 \in T
  <2> DEFINE none == SubSeq(runs, 1, 0)
  <2>1. none = <<>> /\ u[0] = NormStart
    BY <1>1, PrefixEnds DEF IsRun
  <2> HIDE DEF none
  <2>2. NormGood(NormStart, <<>>)
    BY CostRoot, UndottedNone, NothingMeant DEF NormGood, NormStart, NormState
  <2>3. NormGood(u[0], none) /\ 0 \in 0 .. n
    BY <1>2, <2>1, <2>2
  <2> QED BY <2>3 DEF none
<1>4. ASSUME NEW k \in 0 .. n - 1, k \in T PROVE k + 1 \in T
  <2> DEFINE p == SubSeq(runs, 1, k)
             seg == runs[k + 1]
  <2>1. p \in Seq(Word) /\ seg \in Word /\ SubSeq(runs, 1, k + 1) = Append(p, seg)
    <3> HIDE DEF Word
    <3> QED BY PrefixMore
  <2>2. NormGood(u[k], p) /\ k + 1 \in 0 .. n /\ k + 1 \in 1 .. n /\ (k + 1) - 1 = k
    BY <1>2, <1>4
  <2>3. u[k + 1] = NormStep(u[k], seg)
    <3>1. u[k] \in NormState
      BY <2>2 DEF NormGood
    <3>2. u[k + 1] = NormSteps(runs)[<<u[k], k + 1>>]
      BY <1>1, <2>2 DEF IsRun
    <3>3. NormSteps(runs)[<<u[k], k + 1>>] = NormStep(u[k], runs[k + 1])
      BY <2>2, <3>1 DEF NormSteps
    <3> QED BY <3>2, <3>3
  <2> HIDE DEF p, seg
  <2>4. NormGood(NormStep(u[k], seg), Append(p, seg))
    BY <2>1, <2>2, NormGoodStep
  <2> QED BY <2>1, <2>2, <2>3, <2>4
<1>5. 0 \in 0 .. n
  BY <1>2
<1>6. SubSeq(runs, 1, n) = runs
  BY PrefixEnds
<1> HIDE DEF T, n
<1>7. n \in T
  BY <1>2, <1>3, <1>4, <1>5, Reaches
<1> QED BY <1>1, <1>6, <1>7 DEF T

\* What fs_path_normalize returns, and when it cannot fail.
LEMMA Normalized ==
  ASSUME NEW word \in Seq(Char)
  PROVE  LET runs == Runs(word, {Slash})
             found == fs_path_normalize(word)
         IN  /\ found \in Seq(Name) \cup {NoPath}
             /\ found \in {Uncancelled(Undotted(runs), Up), NoPath}
             /\ PathMax >= 2 /\ Cost(runs) < PathMax => found = Uncancelled(Undotted(runs), Up)
<1> DEFINE runs == Runs(word, {Slash})
           end == FoldLeft(NormStep, NormStart, runs)
<1>1. fs_path_normalize(word) = IF end.ok /\ Len(Spelled(end.segs)) + 1 <= PathMax THEN end.segs ELSE NoPath
  BY Zenon DEF fs_path_normalize, NormStep, NormStart
<1>2. runs \in Seq(Word)
  BY RunsType DEF Word
<1> HIDE DEF runs
<1>3. NormGood(end, runs)
  BY <1>2, NormFold
<1> HIDE DEF end
<1>4. end.segs \in Seq(Name) /\ end.pool \in Nat
  BY <1>3 DEF NormGood, NormState
<1>5. ASSUME PathMax >= 2, Cost(runs) < PathMax PROVE end.ok /\ Len(Spelled(end.segs)) + 1 <= PathMax
  <2>1. end.segs \in Seq(Word) /\ PathMax \in Nat /\ Cost(runs) \in Nat
    BY <1>2, <1>4, SeqName, CostNames, PathFilesAssumption
  <2>2. Spelled(end.segs) = IF end.segs = <<>> THEN <<Slash>> ELSE Slashed(end.segs)
    BY <2>1, SpelledIs
  <2>3. Cost(end.segs) <= end.pool /\ end.pool <= Cost(runs) /\ Cost(end.segs) \in Nat /\ end.ok
    BY <1>3, <1>5, <2>1, CostNames DEF NormGood
  <2>4. Len(Spelled(end.segs)) = IF end.segs = <<>> THEN 1 ELSE Cost(end.segs)
    BY <2>2 DEF Cost
  <2> QED BY <1>4, <1>5, <2>1, <2>3, <2>4
<1>6. end.ok => end.segs = Uncancelled(Undotted(runs), Up)
  BY <1>3 DEF NormGood
<1> QED BY <1>1, <1>4, <1>5, <1>6 DEF runs

\* What spells a path starts with a slash.
LEMMA SlashedStarts ==
  ASSUME NEW path \in Seq(Word), path # <<>>
  PROVE  Len(Slashed(path)) \in Nat \ {0} /\ Slashed(path)[1] = Slash
<1> DEFINE n == Len(path)
           T == {k \in 1 .. n : Slashed(SubSeq(path, 1, k)) # <<>>
           /\ Slashed(SubSeq(path, 1, k))[1] = Slash}
<1>1. n \in Nat \ {0} /\ 1 \in 1 .. n /\ 1 \in 0 .. n
  OBVIOUS
<1>2. ASSUME NEW k \in 0 .. n - 1, k = 0 \/ k \in T PROVE k + 1 \in T
  <2> DEFINE p == SubSeq(path, 1, k)
             name == path[k + 1]
             s == Slashed(p)
             r == <<Slash>> \o name
  <2>1. p \in Seq(Word) /\ name \in Word /\ SubSeq(path, 1, k + 1) = Append(p, name)
    <3> HIDE DEF Word
    <3> QED BY PrefixMore
  <2>2. k + 1 \in 1 .. n /\ (k # 0 => s # <<>> /\ s[1] = Slash)
    BY <1>1, <1>2
  <2>3. k = 0 => p = <<>>
    BY PrefixEnds
  <2> HIDE DEF p, name
  <2>4. p \in Seq(Seq(Char)) /\ name \in Seq(Char)
    BY <2>1, SeqWord, WordIs
  <2>5. s \in Seq(Char) /\ Slashed(Append(p, name)) = s \o r
    BY <2>4, SlashedAppend
  <2>6. r \in Seq(Char) /\ r # <<>> /\ r[1] = Slash
    BY <2>4, SlashIs
  <2>7. k = 0 => s = <<>>
    BY <2>3, SlashedRoot
  <2> HIDE DEF s, r
  <2>8. s \o r # <<>> /\ (s \o r)[1] = Slash
    BY <2>2, <2>5, <2>6, <2>7
  <2> QED BY <2>1, <2>2, <2>5, <2>8
<1>3. 1 \in T
  <2>1. 0 \in 0 .. n - 1 /\ 0 + 1 = 1
    BY <1>1
  <2> HIDE DEF T
  <2> QED BY <1>2, <2>1
<1>4. \A k \in 1 .. n - 1 : k \in T => k + 1 \in T
  BY <1>1, <1>2
<1>5. SubSeq(path, 1, n) = path
  BY PrefixEnds
<1> HIDE DEF T, n
<1>6. n \in T
  BY <1>1, <1>3, <1>4, Reaches
<1>7. Slashed(path) # <<>> /\ Slashed(path)[1] = Slash
  BY <1>5, <1>6 DEF T
<1>8. Slashed(path) \in Seq(Char)
  <2>1. path \in Seq(Seq(Char)) /\ <<>> \in Seq(Char)
    BY SeqWord
  <2> QED BY <2>1, SlashedAppend
<1> QED BY <1>7, <1>8

\* A step of Runs adds what a character costs, and a slash if it starts a name.
LEMMA RunStepCost ==
  ASSUME NEW word \in Seq(Char), NEW i \in 1 .. Len(word), NEW runs \in Seq(Word)
  PROVE  /\ Cost(RunStep(word, {Slash}, runs, i)) \in Nat /\ Cost(runs) \in Nat
         /\ word[i] = Slash => RunStep(word, {Slash}, runs, i) = runs
         /\ word[i] # Slash /\ (runs = <<>> \/ word[i - 1] = Slash) =>
              Cost(RunStep(word, {Slash}, runs, i)) = Cost(runs) + 2
         /\ word[i] # Slash /\ ~(runs = <<>> \/ word[i - 1] = Slash) =>
              Cost(RunStep(word, {Slash}, runs, i)) = Cost(runs) + 1
<1> DEFINE c == word[i]
           to == RunStep(word, {Slash}, runs, i)
<1>1. c \in Char
  OBVIOUS
<1>2. Cost(runs) \in Nat
  BY CostNames
<1>3. to \in Seq(Word)
  BY RunStepType DEF Word
<1>4. Cost(to) \in Nat
  <2> HIDE DEF to
  <2> QED BY <1>3, CostNames
<1>5. CASE c = Slash
  BY <1>2, <1>4, <1>5 DEF RunStep
<1>6. CASE c # Slash /\ (runs = <<>> \/ word[i - 1] = Slash)
  <2>1. to = Append(runs, <<c>>)
    BY <1>6 DEF RunStep
  <2>2. <<c>> \in Word /\ Len(<<c>>) = 1
    BY <1>1, <1>6 DEF Word, Piece
  <2> DEFINE w == <<c>>
  <2> HIDE DEF w, c, to
  <2>3. Cost(Append(runs, w)) = Cost(runs) + 1 + Len(w)
    BY <2>2, CostAppend DEF w
  <2>4. Cost(to) = Cost(runs) + 2
    BY <1>2, <2>1, <2>2, <2>3 DEF w
  <2> QED BY <1>2, <1>4, <1>6, <2>4 DEF c, to
<1>7. CASE c # Slash /\ ~(runs = <<>> \/ word[i - 1] = Slash)
  <2> DEFINE p == Front(runs)
             x == Last(runs)
             w == Append(x, c)
  <2>1. to = Append(p, w)
    BY <1>7 DEF RunStep
  <2>2. p \in Seq(Word) /\ x \in Word /\ Cost(p) \in Nat /\ Cost(runs) = Cost(p) + 1 + Len(x)
        /\ Len(x) \in Nat
    BY <1>7, CostFront
  <2> HIDE DEF p, x, c, to
  <2>3. w \in Word
    <3>1. x \in Piece(Char, {Slash}) /\ c \notin {Slash}
      BY <1>7, <2>2 DEF Word
    <3> QED BY <1>1, <3>1, PieceMore DEF Word
  <2>4. Len(w) = Len(x) + 1
    BY <2>2, WordIs
  <2> HIDE DEF w
  <2>5. Cost(Append(p, w)) = Cost(p) + 1 + Len(w)
    BY <2>2, <2>3, CostAppend
  <2>6. Cost(to) = Cost(runs) + 1
    BY <2>1, <2>2, <2>4, <2>5
  <2> QED BY <1>2, <1>4, <1>7, <2>6 DEF c, to
<1> QED BY <1>5, <1>6, <1>7

\* The names of an absolute word cost no more than it is long.
LEMMA RunsCost ==
  ASSUME NEW word \in Seq(Char), word # <<>>, word[1] = Slash
  PROVE  Cost(Runs(word, {Slash})) <= Len(word)
<1> DEFINE n == Len(word)
<1>0. PICK u : IsRuns(u, Char, word, {Slash})
  BY RunsType
<1>1. /\ u \in [0 .. n -> Seq(Word)] /\ u[0] = <<>> /\ Runs(word, {Slash}) = u[n]
      /\ \A k \in 1 .. n : u[k] = RunStep(word, {Slash}, u[k - 1], k)
  BY <1>0 DEF IsRuns, Word
<1>2. n \in Nat /\ 1 \in 1 .. n /\ 1 \in 0 .. n /\ 0 \in 0 .. n
  OBVIOUS
<1> DEFINE T == {k \in 1 .. n : Cost(u[k]) <= IF word[k] = Slash THEN k - 1 ELSE k}
<1>3. 1 \in T
  <2>1. u[1] = RunStep(word, {Slash}, u[0], 1) /\ u[0] \in Seq(Word)
    <3>1. 1 - 1 = 0
      OBVIOUS
    <3> QED BY <1>1, <1>2, <3>1
  <2>2. u[1] = u[0]
    BY <1>2, <2>1, RunStepCost
  <2>3. Cost(u[1]) = 0
    BY <1>1, <2>2, CostRoot
  <2> QED BY <1>2, <2>3
<1>4. ASSUME NEW k \in 1 .. n - 1, k \in T PROVE k + 1 \in T
  <2> DEFINE j == k + 1
             runs == u[k]
  <2>1. j \in 1 .. n /\ j - 1 = k /\ k \in 0 .. n /\ k \in 1 .. n
    BY <1>2
  <2>2. runs \in Seq(Word) /\ u[j] = RunStep(word, {Slash}, runs, j)
    BY <1>1, <2>1
  <2>3. Cost(runs) <= IF word[k] = Slash THEN k - 1 ELSE k
    BY <1>4
  <2>4. runs = <<>> => Cost(runs) = 0
    BY CostRoot
  <2> HIDE DEF j, runs
  <2>5. /\ Cost(u[j]) \in Nat /\ Cost(runs) \in Nat
        /\ word[j] = Slash => u[j] = runs
        /\ word[j] # Slash /\ (runs = <<>> \/ word[k] = Slash) => Cost(u[j]) = Cost(runs) + 2
        /\ word[j] # Slash /\ ~(runs = <<>> \/ word[k] = Slash) => Cost(u[j]) = Cost(runs) + 1
    <3>1. j \in 1 .. Len(word)
      BY <2>1
    <3> DEFINE to == RunStep(word, {Slash}, runs, j)
    <3>2. /\ Cost(to) \in Nat /\ Cost(runs) \in Nat
          /\ word[j] = Slash => to = runs
          /\ word[j] # Slash /\ (runs = <<>> \/ word[j - 1] = Slash) => Cost(to) = Cost(runs) + 2
          /\ word[j] # Slash /\ ~(runs = <<>> \/ word[j - 1] = Slash) => Cost(to) = Cost(runs) + 1
      BY <2>2, <3>1, RunStepCost
    <3> HIDE DEF to
    <3> QED BY <2>1, <2>2, <3>2 DEF to
  <2>6. Cost(u[j]) <= IF word[j] = Slash THEN j - 1 ELSE j
    BY <2>1, <2>3, <2>4, <2>5
  <2>7. j \in T
    BY <2>1, <2>6
  <2> QED BY <2>7 DEF j
<1>5. 1 \in T /\ n \in Nat /\ 1 \in 0 .. n
  BY <1>2, <1>3
<1> HIDE DEF T, n
<1>6. n \in T
  BY <1>4, <1>5, Reaches
<1>7. Cost(u[n]) <= n
  <2>1. Cost(u[n]) \in Nat
    <3>1. n \in 0 .. n
      BY <1>2
    <3> QED BY <1>1, <3>1, CostNames
  <2> QED BY <1>2, <1>6, <2>1 DEF T
<1> QED BY <1>1, <1>7 DEF n

\* Names that no ".." follows are all there.
LEMMA NamesStay ==
  ASSUME NEW path \in Seq(Name) PROVE Uncancelled(path, Up) = path
<1> DEFINE n == Len(path)
           T == {k \in 0 .. n : Uncancelled(SubSeq(path, 1, k), Up) = SubSeq(path, 1, k)}
<1>1. n \in Nat
  OBVIOUS
<1>2. 0 \in T
  <2> DEFINE none == SubSeq(path, 1, 0)
  <2>1. none = <<>> /\ 0 \in 0 .. n
    BY <1>1, PrefixEnds
  <2> HIDE DEF none
  <2>2. Uncancelled(none, Up) = none
    BY <2>1, NothingMeant
  <2> QED BY <2>1, <2>2 DEF none
<1>3. ASSUME NEW k \in 0 .. n - 1, k \in T PROVE k + 1 \in T
  <2> DEFINE p == SubSeq(path, 1, k)
             name == path[k + 1]
  <2>1. p \in Seq(Name) /\ name \in Name /\ SubSeq(path, 1, k + 1) = Append(p, name)
    BY PrefixMore
  <2>2. Uncancelled(p, Up) = p /\ k + 1 \in 0 .. n
    BY <1>1, <1>3
  <2>3. name \notin Up
    BY <2>1, NameIs DEF Up
  <2> HIDE DEF p, name, Up
  <2>4. Uncancelled(Append(p, name), Up) = Append(p, name)
    BY <2>1, <2>2, <2>3, UncancelledAdds
  <2> QED BY <2>1, <2>2, <2>4
<1>4. 0 \in 0 .. n
  BY <1>1
<1>5. SubSeq(path, 1, n) = path
  BY PrefixEnds
<1> HIDE DEF T, n
<1>6. n \in T
  BY <1>1, <1>2, <1>3, <1>4, Reaches
<1> QED BY <1>5, <1>6 DEF T

Absolute(word) == word # <<>> /\ word[1] = Slash

\* The characters fs_path_resolve puts together.
JoinedLen(cwd, word) ==
  IF word[1] = Slash THEN Len(word) + 1 ELSE Len(Spelled(cwd)) + Len(word) + 2

\* fs_path_resolve finds what the word means, unless the word is too long.
LEMMA ResolvedFrom ==
  ASSUME NEW cwd \in Seq(Name), NEW word \in Seq(Char)
  PROVE  LET found == fs_path_resolve(cwd, word)
         IN  /\ found \in Seq(Name) \cup {NoPath}
             /\ found = Meant(cwd, word) \/ (found = NoPath /\ JoinedLen(cwd, word) > PathMax)
<1> DEFINE found == fs_path_resolve(cwd, word)
           runs == Runs(word, {Slash})
           un == Undotted(runs)
           meant == Meant(cwd, word)
<1>1. cwd \in Seq(Word) /\ runs \in Seq(Word) /\ PathMax \in Nat /\ Len(word) \in Nat
  <2>1. cwd \in Seq(Word)
    BY SeqName
  <2>2. runs \in Seq(Word)
    BY RunsType DEF Word
  <2>3. PathMax \in Nat
    BY PathFilesAssumption
  <2> QED BY <2>1, <2>2, <2>3
<1>2. un \in Seq(Word)
  <2> HIDE DEF Word, runs
  <2>1. <<Dot>> \in Word
    BY SlashIs DEF Word, Piece, Slash, Dot
  <2> QED BY <1>1, <2>1, UndottedAppend
<1>3. meant = Uncancelled((IF Absolute(word) THEN <<>> ELSE cwd) \o un, Up)
  BY MeantIs DEF Absolute
<1>4. CASE word = <<>>
  <2>1. found = cwd
    BY <1>4 DEF fs_path_resolve
  <2>2. un = <<>>
    BY <1>4, RunsNone, UndottedNone
  <2>3. cwd \o <<>> = cwd
    BY ConcatNone
  <2>4. meant = cwd
    BY <1>3, <1>4, <2>2, <2>3, NamesStay DEF Absolute
  <2> QED BY <2>1, <2>4
<1>5. CASE Absolute(word)
  <2>1. found = fs_path_normalize(word)
    BY <1>5 DEF fs_path_resolve, Absolute
  <2>2. meant = Uncancelled(un, Up)
    <3>1. <<>> \o un = un
      <4> HIDE DEF un, Word
      <4> QED BY <1>2, ConcatNone
    <3> QED BY <1>3, <1>5, <3>1
  <2>3. /\ found \in Seq(Name) \cup {NoPath} /\ found \in {meant, NoPath}
        /\ PathMax >= 2 /\ Cost(runs) < PathMax => found = meant
    BY <2>1, <2>2, Normalized
  <2>4. Cost(runs) <= Len(word) /\ Cost(runs) \in Nat
    BY <1>1, <1>5, RunsCost, CostNames DEF Absolute
  <2>5. JoinedLen(cwd, word) = Len(word) + 1 /\ Len(word) >= 1
    BY <1>5 DEF JoinedLen, Absolute
  <2>6. ~(JoinedLen(cwd, word) > PathMax) => PathMax >= 2 /\ Cost(runs) < PathMax
    BY <1>1, <2>4, <2>5
  <2> HIDE DEF found, meant, runs
  <2> QED BY <2>3, <2>6 DEF found, meant
<1>6. CASE word # <<>> /\ ~Absolute(word)
  <2> DEFINE to == Spelled(cwd) \o <<Slash>> \o word
             all == Runs(to, {Slash})
  <2>1. JoinedLen(cwd, word) = Len(Spelled(cwd)) + Len(word) + 2
    BY <1>6 DEF JoinedLen, Absolute
  <2>2. to \in Seq(Char) /\ all = cwd \o runs
    BY <1>1, RunsBehind
  <2>3. Undotted(all) = cwd \o un
    <3>1. Undotted(cwd \o runs) = cwd \o Undotted(runs)
      <4> HIDE DEF runs
      <4> QED BY <1>1, UndottedBehind
    <3> QED BY <2>2, <3>1
  <2>4. meant = Uncancelled(Undotted(all), Up)
    BY <1>3, <1>6, <2>3
  <2>5. found = IF JoinedLen(cwd, word) > PathMax THEN NoPath ELSE fs_path_normalize(to)
    BY <1>6, <2>1 DEF fs_path_resolve, Absolute
  <2>6. Spelled(cwd) \in Seq(Char) /\ Len(Spelled(cwd)) \in Nat \ {0} /\ Spelled(cwd)[1] = Slash
    <3>1. Spelled(cwd) \in Seq(Char) /\ Spelled(cwd) = IF cwd = <<>> THEN <<Slash>> ELSE Slashed(cwd)
      BY <1>1, SpelledIs
    <3>2. CASE cwd = <<>>
      <4>1. Spelled(cwd) = <<Slash>>
        BY <3>1, <3>2
      <4> QED BY <3>1, <4>1
    <3>3. CASE cwd # <<>>
      BY <1>1, <3>1, <3>3, SlashedStarts
    <3> QED BY <3>2, <3>3
  <2>7. to # <<>> /\ to[1] = Slash /\ Len(to) = Len(Spelled(cwd)) + 1 + Len(word)
    <3> DEFINE p == Spelled(cwd)
    <3>1. p \in Seq(Char) /\ Len(p) \in Nat \ {0} /\ p[1] = Slash /\ <<Slash>> \in Seq(Char)
      BY <2>6, SlashIs
    <3> HIDE DEF p
    <3>2. ((p \o <<Slash>>) \o word)[1] = p[1] /\ Len((p \o <<Slash>>) \o word) = Len(p) + 1 + Len(word)
      BY <3>1
    <3>3. to = (p \o <<Slash>>) \o word
      BY DEF p
    <3>4. Len(to) # 0
      BY <1>1, <3>1, <3>2, <3>3
    <3> QED BY <3>1, <3>2, <3>3, <3>4 DEF p
  <2>8. all \in Seq(Word)
    BY <2>2, RunsType DEF Word
  <2> HIDE DEF to
  <2>9. Cost(all) <= Len(to) /\ Cost(all) \in Nat
    BY <2>2, <2>7, <2>8, RunsCost, CostNames
  <2>10. ~(JoinedLen(cwd, word) > PathMax) => PathMax >= 2 /\ Cost(all) < PathMax
    BY <1>1, <2>1, <2>6, <2>7, <2>9
  <2> DEFINE norm == fs_path_normalize(to)
  <2>11. /\ norm \in Seq(Name) \cup {NoPath}
         /\ PathMax >= 2 /\ Cost(all) < PathMax => norm = meant
    BY <2>2, <2>4, Normalized
  <2> HIDE DEF found, meant, norm, all
  <2> QED BY <2>5, <2>10, <2>11 DEF found, meant, norm
<1> QED BY <1>4, <1>5, <1>6

-------------------------------------------------------------------------------
(* The node table.  Links lead to nodes, a parent is made before its children,  *)
(* and every node but the root has a name.                                      *)

Node == [name : Seq(Char), parent : Nat, first : Nat, next : Nat]

Size(t) == Len(t.nodes)

SoundTree(t) ==
  /\ t.cwd \in 1 .. Size(t)
  /\ \A i \in 1 .. Size(t) :
       /\ t.nodes[i].first \in 0 .. Size(t) /\ t.nodes[i].next \in 0 .. Size(t)
       /\ i # 1 => t.nodes[i].name \in Name /\ t.nodes[i].parent \in 1 .. i - 1

Trees == {t \in [nodes : Seq(Node), cwd : Nat] : SoundTree(t)}

LEMMA TreeIs ==
  ASSUME NEW t \in Trees
  PROVE  /\ Size(t) \in Nat \ {0} /\ DOMAIN t.nodes = 1 .. Size(t) /\ t.nodes \in Seq(Node)
         /\ SoundTree(t) /\ t = [nodes |-> t.nodes, cwd |-> t.cwd] /\ t.cwd \in Nat
         /\ \A i \in 1 .. Size(t) : t.nodes[i] \in Node
<1>1. t \in [nodes : Seq(Node), cwd : Nat] /\ SoundTree(t)
  BY DEF Trees
<1>2. t.nodes \in Seq(Node) /\ t.cwd \in Nat /\ t = [nodes |-> t.nodes, cwd |-> t.cwd]
  <2> HIDE DEF Node
  <2> QED BY <1>1
<1>3. t.cwd \in 1 .. Size(t)
  BY <1>1 DEF SoundTree
<1>4. Size(t) \in Nat /\ DOMAIN t.nodes = 1 .. Size(t) /\ \A i \in 1 .. Size(t) : t.nodes[i] \in Node
  <2> HIDE DEF Node
  <2> QED BY <1>2 DEF Size
<1> QED BY <1>1, <1>2, <1>3, <1>4

\* A set of places that holds every place before one of its own is an interval.
LEMMA Leading ==
  ASSUME NEW n \in Nat, NEW K \in SUBSET (1 .. n), \A k \in 1 .. n - 1 : k + 1 \in K => k \in K
  PROVE  Cardinality(K) \in 0 .. n /\ K = 1 .. Cardinality(K)
<1>1. CASE K = {}
  <2>1. Cardinality(K) = 0
    BY <1>1, FS_EmptySet
  <2> QED BY <1>1, <2>1
<1>2. CASE K # {}
  <2>1. PICK x \in K : \A y \in K : y <= x
    BY <1>2, Greatest
  <2>2. x \in 1 .. n
    OBVIOUS
  <2>3. ASSUME NEW y \in 1 .. x PROVE y \in K
    <3> DEFINE T == {d \in 0 .. x - y : x - d \in K}
               m == x - y
    <3>1. m \in Nat /\ 0 \in 0 .. m /\ 0 \in T
      BY <2>2
    <3>2. ASSUME NEW d \in 0 .. m - 1, d \in T PROVE d + 1 \in T
      <4>1. (x - (d + 1)) + 1 = x - d /\ x - (d + 1) \in 1 .. n - 1 /\ d + 1 \in 0 .. m
        BY <2>2
      <4>2. x - d \in K
        BY <3>2
      <4>3. x - (d + 1) \in K
        BY <4>1, <4>2
      <4> QED BY <4>1, <4>3
    <3> HIDE DEF T
    <3>3. m \in T
      <4> HIDE DEF m
      <4> QED BY <3>1, <3>2, Reaches
    <3>4. x - m = y
      BY <2>2
    <3> QED BY <3>3, <3>4 DEF T
  <2>4. K = 1 .. x
    <3>1. \A y \in K : y \in 1 .. x
      BY <2>1, <2>2
    <3> QED BY <2>3, <3>1
  <2>5. Cardinality(1 .. x) = x
    BY <2>2, FS_Interval
  <2> QED BY <2>2, <2>4, <2>5
<1> QED BY <1>1, <1>2

\* Along the next links the nodes follow, and then zeros.
LEMMA LinkedWalk ==
  ASSUME NEW t \in Trees, NEW first \in 0 .. Size(t)
  PROVE  \E w \in [1 .. MaxNodes -> 0 .. Size(t)] :
           /\ Linked(t, first) = SubSeq(w, 1, Cardinality({k \in 1 .. MaxNodes : w[k] # 0}))
           /\ w[1] = first
           /\ \A k \in 1 .. MaxNodes - 1 : w[k + 1] = IF w[k] = 0 THEN 0 ELSE t.nodes[w[k]].next
<1> DEFINE L == Size(t)
           M == MaxNodes
           A == 0 .. L
           after == [j \in 0 .. Len(t.nodes) |-> IF j = 0 THEN 0 ELSE t.nodes[j].next]
           P(g) == g = [k \in 1 .. M |-> IF k = 1 THEN first ELSE after[g[k - 1]]]
           W == CHOOSE g : P(g)
<1>1. Linked(t, first) = SubSeq(W, 1, Cardinality({k \in 1 .. M : W[k] # 0}))
  BY Zenon DEF Linked
<1>2. L \in Nat /\ M \in Nat \ {0} /\ M - 1 \in Nat
  BY TreeIs, PathFilesAssumption
<1>3. after \in [A -> A] /\ \A j \in A : after[j] = IF j = 0 THEN 0 ELSE t.nodes[j].next
  <2>1. Len(t.nodes) = L
    BY DEF Size
  <2>2. \A j \in 0 .. L : j # 0 => j \in 1 .. L
    BY <1>2
  <2>3. \A j \in 1 .. L : t.nodes[j].next \in 0 .. L
    BY TreeIs DEF SoundTree
  <2>4. 0 \in 0 .. L
    BY <1>2
  <2> HIDE DEF L
  <2> QED BY <2>1, <2>2, <2>3, <2>4
<1>4. first \in A
  OBVIOUS
<1> HIDE DEF after, A, L
<1>5. \E g : P(g)
  <2> DEFINE G == [p \in A \X (1 .. M - 1) |-> after[p[1]]]
  <2>1. G \in [A \X (1 .. M - 1) -> A] /\ \A a \in A, k \in 1 .. M - 1 : G[<<a, k>>] = after[a]
    BY <1>3
  <2> HIDE DEF G
  <2>2. PICK u : IsRun(u, A, first, M - 1, G)
    BY <1>2, <1>4, <2>1, RecExists
  <2> DEFINE g == [k \in 1 .. M |-> u[k - 1]]
  <2>3. u[0] = first /\ \A k \in 1 .. M - 1 : u[k - 1] \in A /\ u[k] = G[<<u[k - 1], k>>]
    BY <1>2, <2>2 DEF IsRun
  <2>4. \A k \in 1 .. M - 1 : u[k] = after[u[k - 1]]
    BY <2>1, <2>3
  <2>5. ASSUME NEW k \in 1 .. M PROVE u[k - 1] = IF k = 1 THEN first ELSE after[g[k - 1]]
    <3>1. CASE k = 1
      BY <2>3, <3>1
    <3>2. CASE k # 1
      <4>1. k - 1 \in 1 .. M - 1 /\ k - 1 \in 1 .. M
        BY <1>2, <3>2
      <4>2. g[k - 1] = u[(k - 1) - 1]
        BY <4>1
      <4> HIDE DEF g
      <4> QED BY <2>4, <3>2, <4>1, <4>2
    <3> QED BY <3>1, <3>2
  <2>6. g = [k \in 1 .. M |-> IF k = 1 THEN first ELSE after[g[k - 1]]]
    BY <2>5
  <2> HIDE DEF g
  <2> QED BY <2>6
<1>6. P(W)
  BY <1>5
<1> HIDE DEF W
<1>7. W = [k \in 1 .. M |-> W[k]] /\ W[1] = first /\ \A k \in 1 .. M - 1 : W[k + 1] = after[W[k]]
  <2>1. \A k \in 1 .. M : W[k] = IF k = 1 THEN first ELSE after[W[k - 1]]
    BY <1>6
  <2>2. W = [k \in 1 .. M |-> W[k]]
    BY <1>6
  <2>3. \A k \in 1 .. M - 1 : k + 1 \in 1 .. M /\ k + 1 # 1 /\ (k + 1) - 1 = k
    BY <1>2
  <2>4. 1 \in 1 .. M
    BY <1>2
  <2> QED BY <2>1, <2>2, <2>3, <2>4
<1>8. ASSUME NEW m \in 1 .. M PROVE W[m] \in A
  <2> DEFINE T == {k \in 1 .. m : W[k] \in A}
  <2>1. 1 \in T /\ 1 \in 0 .. m /\ m \in Nat
    BY <1>2, <1>4, <1>7
  <2>2. ASSUME NEW k \in 1 .. m - 1, k \in T PROVE k + 1 \in T
    <3>1. k \in 1 .. M - 1 /\ k + 1 \in 1 .. m
      BY <1>2
    <3> QED BY <1>3, <1>7, <2>2, <3>1
  <2> HIDE DEF T
  <2>3. m \in T
    BY <2>1, <2>2, Reaches
  <2> QED BY <2>3 DEF T
<1>9. W \in [1 .. M -> A]
  BY <1>7, <1>8
<1>10. \A k \in 1 .. M - 1 : W[k + 1] = IF W[k] = 0 THEN 0 ELSE t.nodes[W[k]].next
  <2>1. \A k \in 1 .. M - 1 : k \in 1 .. M
    BY <1>2
  <2> QED BY <1>3, <1>7, <1>8, <2>1
<1> QED BY <1>1, <1>7, <1>9, <1>10 DEF A, L

\* The links of a sound tree lead from node to node.
LEMMA LinkedType ==
  ASSUME NEW t \in Trees, NEW first \in 0 .. Size(t)
  PROVE  Linked(t, first) \in Seq(1 .. Size(t))
<1> DEFINE L == Size(t)
           M == MaxNodes
<1>1. PICK w \in [1 .. M -> 0 .. L] :
        /\ Linked(t, first) = SubSeq(w, 1, Cardinality({k \in 1 .. M : w[k] # 0}))
        /\ \A k \in 1 .. M - 1 : w[k + 1] = IF w[k] = 0 THEN 0 ELSE t.nodes[w[k]].next
  BY LinkedWalk
<1>2. L \in Nat /\ M \in Nat \ {0}
  BY TreeIs, PathFilesAssumption
<1> DEFINE places == {k \in 1 .. M : w[k] # 0}
           m == Cardinality(places)
<1> HIDE DEF L
<1>3. \A k \in 1 .. M - 1 : k + 1 \in places => k \in places
  BY <1>1, <1>2
<1>4. places \in SUBSET (1 .. M)
  OBVIOUS
<1>5. m \in 0 .. M /\ places = 1 .. m
  <2> HIDE DEF places
  <2> QED BY <1>2, <1>3, <1>4, Leading
<1>6. \A k \in 1 .. m : k \in 1 .. M /\ w[k] # 0
  BY <1>5
<1>7. Linked(t, first) = SubSeq(w, 1, m)
  BY <1>1
<1> HIDE DEF m, places
<1>8. \A k \in 1 .. m : w[k] \in 1 .. L
  BY <1>2, <1>6
<1>9. w \in Seq(0 .. L) /\ Len(w) = M
  BY <1>2
<1>10. SubSeq(w, 1, m) = [k \in 1 .. m |-> w[k]]
  BY <1>2, <1>5, <1>9
<1>11. [k \in 1 .. m |-> w[k]] \in Seq(1 .. L)
  BY <1>2, <1>5, <1>8
<1> QED BY <1>7, <1>10, <1>11 DEF L

\* The k-th item of a list, or 0 behind its end.
Nth(c, k) == IF k \in 1 .. Len(c) THEN c[k] ELSE 0

\* Links that run through a list lead to it.
LEMMA ChainIs ==
  ASSUME NEW t \in Trees, NEW c \in Seq(1 .. Size(t)), Len(c) <= MaxNodes,
         \A k \in 1 .. Len(c) : t.nodes[c[k]].next = Nth(c, k + 1)
  PROVE  Linked(t, Nth(c, 1)) = c
<1> DEFINE L == Size(t)
           M == MaxNodes
           n == Len(c)
           first == Nth(c, 1)
<1>1. L \in Nat /\ M \in Nat \ {0} /\ n \in 0 .. M /\ \A k \in 1 .. n : c[k] \in 1 .. L
  <2>1. L \in Nat /\ M \in Nat \ {0}
    BY TreeIs, PathFilesAssumption
  <2> QED BY <2>1
<1>2. first \in 0 .. L /\ \A k \in 1 .. n : Nth(c, k) = c[k] /\ c[k] # 0
  BY <1>1 DEF Nth
<1>3. \A k \in Nat : k > n => Nth(c, k) = 0
  BY <1>1 DEF Nth
<1>4. PICK w \in [1 .. M -> 0 .. L] :
        /\ Linked(t, first) = SubSeq(w, 1, Cardinality({k \in 1 .. M : w[k] # 0}))
        /\ w[1] = first
        /\ \A k \in 1 .. M - 1 : w[k + 1] = IF w[k] = 0 THEN 0 ELSE t.nodes[w[k]].next
  <2> HIDE DEF first
  <2> QED BY <1>2, LinkedWalk
<1> HIDE DEF L
<1>5. ASSUME NEW m \in 1 .. M PROVE w[m] = Nth(c, m)
  <2> DEFINE T == {k \in 1 .. M : w[k] = Nth(c, k)}
  <2>1. 1 \in T /\ 1 \in 0 .. m /\ m \in Nat
    BY <1>1, <1>4
  <2>2. ASSUME NEW k \in 1 .. m - 1, k \in T PROVE k + 1 \in T
    <3>1. k \in 1 .. M - 1 /\ k + 1 \in 1 .. M /\ k \in Nat /\ k + 1 \in Nat
      BY <1>1
    <3>2. w[k] = Nth(c, k) /\ w[k + 1] = IF w[k] = 0 THEN 0 ELSE t.nodes[w[k]].next
      BY <1>4, <2>2, <3>1
    <3>3. CASE k \in 1 .. n
      <4>1. w[k] = c[k] /\ w[k] # 0
        BY <1>2, <3>2, <3>3
      <4>2. w[k + 1] = Nth(c, k + 1)
        BY <3>2, <3>3, <4>1
      <4> QED BY <3>1, <4>2
    <3>4. CASE k \notin 1 .. n
      <4>1. k > n /\ k + 1 > n
        BY <1>1, <3>1, <3>4
      <4>2. w[k + 1] = 0 /\ Nth(c, k + 1) = 0
        BY <1>3, <3>1, <3>2, <4>1
      <4> QED BY <3>1, <4>2
    <3> QED BY <3>3, <3>4
  <2> HIDE DEF T
  <2>3. m \in T
    BY <2>1, <2>2, Reaches
  <2> QED BY <2>3 DEF T
<1>6. {k \in 1 .. M : w[k] # 0} = 1 .. n
  <2>1. \A k \in 1 .. M : w[k] # 0 <=> k \in 1 .. n
    BY <1>1, <1>2, <1>3, <1>5
  <2>2. \A k \in 1 .. n : k \in 1 .. M
    BY <1>1
  <2> QED BY <2>1, <2>2
<1>7. Cardinality(1 .. n) = n
  <2> HIDE DEF n
  <2>1. n \in Nat /\ 1 \in Int /\ n \in Int
    BY <1>1
  <2>2. Cardinality(1 .. n) = IF 1 > n THEN 0 ELSE n - 1 + 1
    BY <2>1, FS_Interval
  <2> QED BY <2>1, <2>2
<1>8. Linked(t, first) = SubSeq(w, 1, n)
  BY <1>4, <1>6, <1>7
<1>9. w \in Seq(0 .. L) /\ Len(w) = M
  BY <1>1
<1> HIDE DEF n, first
<1>10. SubSeq(w, 1, n) = [k \in 1 .. n |-> w[k]]
  BY <1>1, <1>9
<1>11. \A k \in 1 .. n : w[k] = c[k]
  BY <1>1, <1>2, <1>5
<1>12. c = [k \in 1 .. n |-> c[k]]
  BY DEF n
<1> QED BY <1>8, <1>10, <1>11, <1>12 DEF first

LEMMA ChildrenType ==
  ASSUME NEW t \in Trees, NEW i \in 1 .. Size(t)
  PROVE  Children(t, i) \in Seq(1 .. Size(t))
<1>1. t.nodes[i].first \in 0 .. Size(t)
  BY TreeIs DEF SoundTree
<1> QED BY <1>1, LinkedType DEF Children

LEMMA FoundChild ==
  ASSUME NEW t \in Trees, NEW i \in 1 .. Size(t), NEW name
  PROVE  find_child(t, i, name) \in 0 .. Size(t)
<1> DEFINE list == Children(t, i)
           found == {k \in DOMAIN list : t.nodes[list[k]].name = name}
<1>1. list \in Seq(1 .. Size(t)) /\ Size(t) \in Nat
  BY ChildrenType, TreeIs
<1>2. find_child(t, i, name) = IF found = {} THEN 0 ELSE list[Min(found)]
  BY DEF find_child
<1> HIDE DEF list
<1>3. Len(list) \in Nat /\ DOMAIN list = 1 .. Len(list) /\ found \in SUBSET (1 .. Len(list))
  BY <1>1
<1> HIDE DEF found
<1>4. CASE found # {}
  <2>1. Min(found) \in found
    BY <1>3, <1>4, MinIs
  <2>2. Min(found) \in 1 .. Len(list)
    BY <1>3, <2>1
  <2>3. list[Min(found)] \in 1 .. Size(t)
    BY <1>1, <1>3, <2>2
  <2> QED BY <1>1, <1>2, <1>4, <2>3
<1> QED BY <1>1, <1>2, <1>4

SetNext(t, j, v) == [t EXCEPT !.nodes[j].next = v]

LEMMA SetNextSound ==
  ASSUME NEW t \in Trees, NEW j \in 1 .. Size(t), NEW v \in 0 .. Size(t)
  PROVE  SetNext(t, j, v) \in Trees /\ Size(SetNext(t, j, v)) = Size(t)
<1> DEFINE L == Size(t)
           new == [t.nodes EXCEPT ![j] = [t.nodes[j] EXCEPT !.next = v]]
           to == [nodes |-> new, cwd |-> t.cwd]
<1>1. /\ L \in Nat /\ DOMAIN t.nodes = 1 .. L /\ t.nodes \in Seq(Node) /\ t.cwd \in 1 .. L /\ t.cwd \in Nat
      /\ t = [nodes |-> t.nodes, cwd |-> t.cwd] /\ Len(t.nodes) = L
      /\ \A i \in 1 .. L :
           /\ t.nodes[i] \in Node /\ t.nodes[i].first \in 0 .. L /\ t.nodes[i].next \in 0 .. L
           /\ i # 1 => t.nodes[i].name \in Name /\ t.nodes[i].parent \in 1 .. i - 1
  BY TreeIs DEF SoundTree, Size
<1>2. SetNext(t, j, v) = to
  <2>1. [[nodes |-> t.nodes, cwd |-> t.cwd] EXCEPT !.nodes[j].next = v] = to
    OBVIOUS
  <2> QED BY <1>1, <2>1 DEF SetNext
<1> DEFINE rec == [t.nodes[j] EXCEPT !.next = v]
<1>3. /\ rec \in Node /\ rec.next = v /\ rec.first = t.nodes[j].first
      /\ rec.name = t.nodes[j].name /\ rec.parent = t.nodes[j].parent
  <2>1. t.nodes[j] \in Node /\ v \in Nat
    BY <1>1
  <2> DEFINE r == t.nodes[j]
  <2> HIDE DEF r
  <2>2. r \in Node
    BY <2>1 DEF r
  <2>3. [r EXCEPT !.next = v] \in Node /\ [r EXCEPT !.next = v].next = v
        /\ [r EXCEPT !.next = v].first = r.first /\ [r EXCEPT !.next = v].name = r.name
        /\ [r EXCEPT !.next = v].parent = r.parent
    BY <2>1, <2>2 DEF Node
  <2> QED BY <2>3 DEF r
<1> HIDE DEF rec
<1>4. new \in Seq(Node) /\ Len(new) = L /\ \A i \in 1 .. L : new[i] = IF i = j THEN rec ELSE t.nodes[i]
  <2> HIDE DEF Node
  <2>1. new = [t.nodes EXCEPT ![j] = rec]
    BY DEF rec
  <2> DEFINE s == t.nodes
  <2> HIDE DEF s
  <2>2. s \in Seq(Node) /\ Len(s) = L /\ j \in 1 .. L
    BY <1>1 DEF s
  <2>3. [s EXCEPT ![j] = rec] \in Seq(Node) /\ Len([s EXCEPT ![j] = rec]) = L
        /\ \A i \in 1 .. L : [s EXCEPT ![j] = rec][i] = IF i = j THEN rec ELSE s[i]
    BY <1>3, <2>2
  <2> QED BY <2>1, <2>3 DEF s
<1> HIDE DEF new
<1>5. to \in [nodes : Seq(Node), cwd : Nat] /\ to.nodes = new /\ to.cwd = t.cwd
  <2> HIDE DEF Node
  <2> QED BY <1>1, <1>4
<1> HIDE DEF to
<1>6. Size(to) = L
  BY <1>4, <1>5 DEF Size
<1>7. ASSUME NEW i \in 1 .. L
      PROVE  /\ to.nodes[i].first \in 0 .. L /\ to.nodes[i].next \in 0 .. L
             /\ i # 1 => to.nodes[i].name \in Name /\ to.nodes[i].parent \in 1 .. i - 1
  BY <1>1, <1>3, <1>4, <1>5
<1> HIDE DEF L
<1>8. SoundTree(to)
  BY <1>1, <1>5, <1>6, <1>7 DEF SoundTree
<1> QED BY <1>2, <1>5, <1>6, <1>8 DEF Trees, L

\* What setting a link changes.
LEMMA SetNextIs ==
  ASSUME NEW t \in Trees, NEW j \in 1 .. Size(t), NEW v \in 0 .. Size(t)
  PROVE  LET to == SetNext(t, j, v)
         IN  /\ to \in Trees /\ Size(to) = Size(t) /\ to.cwd = t.cwd
             /\ \A k \in 1 .. Size(t) :
                  /\ to.nodes[k].name = t.nodes[k].name /\ to.nodes[k].parent = t.nodes[k].parent
                  /\ to.nodes[k].first = t.nodes[k].first
                  /\ to.nodes[k].next = IF k = j THEN v ELSE t.nodes[k].next
<1> DEFINE s == t.nodes
           r == t.nodes[j]
           rec == [r EXCEPT !.next = v]
           new == [s EXCEPT ![j] = rec]
<1>1. t = [nodes |-> t.nodes, cwd |-> t.cwd] /\ s \in Seq(Node) /\ DOMAIN s = 1 .. Size(t) /\ r \in Node
  BY TreeIs
<1>2. SetNext(t, j, v) = [nodes |-> new, cwd |-> t.cwd]
  <2>1. [[nodes |-> t.nodes, cwd |-> t.cwd] EXCEPT !.nodes[j].next = v] = [nodes |-> new, cwd |-> t.cwd]
    OBVIOUS
  <2> QED BY <1>1, <2>1 DEF SetNext
<1> HIDE DEF r
<1>3. rec.next = v /\ rec.first = r.first /\ rec.name = r.name /\ rec.parent = r.parent
  BY <1>1 DEF Node
<1> HIDE DEF rec, s
<1>4. \A k \in 1 .. Size(t) : new[k] = IF k = j THEN rec ELSE s[k]
  <2> HIDE DEF Node
  <2> QED BY <1>1
<1> HIDE DEF new
<1>5. SetNext(t, j, v).nodes = new /\ SetNext(t, j, v).cwd = t.cwd
  BY <1>2
<1>6. SetNext(t, j, v) \in Trees /\ Size(SetNext(t, j, v)) = Size(t)
  BY SetNextSound
<1>7. s = t.nodes /\ r = s[j]
  BY DEF s, r
<1> QED BY <1>3, <1>4, <1>5, <1>6, <1>7

SetFirst(t, j, v) == [t EXCEPT !.nodes[j].first = v]

LEMMA SetFirstSound ==
  ASSUME NEW t \in Trees, NEW j \in 1 .. Size(t), NEW v \in 0 .. Size(t)
  PROVE  SetFirst(t, j, v) \in Trees /\ Size(SetFirst(t, j, v)) = Size(t)
<1> DEFINE L == Size(t)
           new == [t.nodes EXCEPT ![j] = [t.nodes[j] EXCEPT !.first = v]]
           to == [nodes |-> new, cwd |-> t.cwd]
<1>1. /\ L \in Nat /\ DOMAIN t.nodes = 1 .. L /\ t.nodes \in Seq(Node) /\ t.cwd \in 1 .. L /\ t.cwd \in Nat
      /\ t = [nodes |-> t.nodes, cwd |-> t.cwd] /\ Len(t.nodes) = L
      /\ \A i \in 1 .. L :
           /\ t.nodes[i] \in Node /\ t.nodes[i].first \in 0 .. L /\ t.nodes[i].next \in 0 .. L
           /\ i # 1 => t.nodes[i].name \in Name /\ t.nodes[i].parent \in 1 .. i - 1
  BY TreeIs DEF SoundTree, Size
<1>2. SetFirst(t, j, v) = to
  <2>1. [[nodes |-> t.nodes, cwd |-> t.cwd] EXCEPT !.nodes[j].first = v] = to
    OBVIOUS
  <2> QED BY <1>1, <2>1 DEF SetFirst
<1> DEFINE rec == [t.nodes[j] EXCEPT !.first = v]
<1>3. /\ rec \in Node /\ rec.first = v /\ rec.next = t.nodes[j].next
      /\ rec.name = t.nodes[j].name /\ rec.parent = t.nodes[j].parent
  <2>1. t.nodes[j] \in Node /\ v \in Nat
    BY <1>1
  <2> DEFINE r == t.nodes[j]
  <2> HIDE DEF r
  <2>2. r \in Node
    BY <2>1 DEF r
  <2>3. [r EXCEPT !.first = v] \in Node /\ [r EXCEPT !.first = v].first = v
        /\ [r EXCEPT !.first = v].next = r.next /\ [r EXCEPT !.first = v].name = r.name
        /\ [r EXCEPT !.first = v].parent = r.parent
    BY <2>1, <2>2 DEF Node
  <2> QED BY <2>3 DEF r
<1> HIDE DEF rec
<1>4. new \in Seq(Node) /\ Len(new) = L /\ \A i \in 1 .. L : new[i] = IF i = j THEN rec ELSE t.nodes[i]
  <2> HIDE DEF Node
  <2>1. new = [t.nodes EXCEPT ![j] = rec]
    BY DEF rec
  <2> DEFINE s == t.nodes
  <2> HIDE DEF s
  <2>2. s \in Seq(Node) /\ Len(s) = L /\ j \in 1 .. L
    BY <1>1 DEF s
  <2>3. [s EXCEPT ![j] = rec] \in Seq(Node) /\ Len([s EXCEPT ![j] = rec]) = L
        /\ \A i \in 1 .. L : [s EXCEPT ![j] = rec][i] = IF i = j THEN rec ELSE s[i]
    BY <1>3, <2>2
  <2> QED BY <2>1, <2>3 DEF s
<1> HIDE DEF new
<1>5. to \in [nodes : Seq(Node), cwd : Nat] /\ to.nodes = new /\ to.cwd = t.cwd
  <2> HIDE DEF Node
  <2> QED BY <1>1, <1>4
<1> HIDE DEF to
<1>6. Size(to) = L
  BY <1>4, <1>5 DEF Size
<1>7. ASSUME NEW i \in 1 .. L
      PROVE  /\ to.nodes[i].first \in 0 .. L /\ to.nodes[i].next \in 0 .. L
             /\ i # 1 => to.nodes[i].name \in Name /\ to.nodes[i].parent \in 1 .. i - 1
  BY <1>1, <1>3, <1>4, <1>5
<1> HIDE DEF L
<1>8. SoundTree(to)
  BY <1>1, <1>5, <1>6, <1>7 DEF SoundTree
<1> QED BY <1>2, <1>5, <1>6, <1>8 DEF Trees, L

LEMMA SetFirstIs ==
  ASSUME NEW t \in Trees, NEW j \in 1 .. Size(t), NEW v \in 0 .. Size(t)
  PROVE  LET to == SetFirst(t, j, v)
         IN  /\ to \in Trees /\ Size(to) = Size(t) /\ to.cwd = t.cwd
             /\ \A k \in 1 .. Size(t) :
                  /\ to.nodes[k].name = t.nodes[k].name /\ to.nodes[k].parent = t.nodes[k].parent
                  /\ to.nodes[k].next = t.nodes[k].next
                  /\ to.nodes[k].first = IF k = j THEN v ELSE t.nodes[k].first
<1> DEFINE s == t.nodes
           r == t.nodes[j]
           rec == [r EXCEPT !.first = v]
           new == [s EXCEPT ![j] = rec]
<1>1. t = [nodes |-> t.nodes, cwd |-> t.cwd] /\ s \in Seq(Node) /\ DOMAIN s = 1 .. Size(t) /\ r \in Node
  BY TreeIs
<1>2. SetFirst(t, j, v) = [nodes |-> new, cwd |-> t.cwd]
  <2>1. [[nodes |-> t.nodes, cwd |-> t.cwd] EXCEPT !.nodes[j].first = v] = [nodes |-> new, cwd |-> t.cwd]
    OBVIOUS
  <2> QED BY <1>1, <2>1 DEF SetFirst
<1> HIDE DEF r
<1>3. rec.first = v /\ rec.next = r.next /\ rec.name = r.name /\ rec.parent = r.parent
  BY <1>1 DEF Node
<1> HIDE DEF rec, s
<1>4. \A k \in 1 .. Size(t) : new[k] = IF k = j THEN rec ELSE s[k]
  <2> HIDE DEF Node
  <2> QED BY <1>1
<1> HIDE DEF new
<1>5. SetFirst(t, j, v).nodes = new /\ SetFirst(t, j, v).cwd = t.cwd
  BY <1>2
<1>6. SetFirst(t, j, v) \in Trees /\ Size(SetFirst(t, j, v)) = Size(t)
  BY SetFirstSound
<1>7. s = t.nodes /\ r = s[j]
  BY DEF s, r
<1> QED BY <1>3, <1>4, <1>5, <1>6, <1>7

\* r is t with child put into the list c of the node i behind place p.
PutIn(r, t, i, child, c, p) ==
  /\ r \in Trees /\ Size(r) = Size(t) /\ r.cwd = t.cwd
  /\ \A j \in 1 .. Size(t) :
       /\ r.nodes[j].name = t.nodes[j].name /\ r.nodes[j].parent = t.nodes[j].parent
       /\ r.nodes[j].first = IF p = 0 /\ j = i THEN child ELSE t.nodes[j].first
       /\ r.nodes[j].next = IF p # 0 /\ j = Nth(c, p) THEN child
                            ELSE IF j # child THEN t.nodes[j].next
                            ELSE IF p = 0 THEN t.nodes[i].first ELSE t.nodes[Nth(c, p)].next

\* A child goes behind a node that is linked.
LEMMA InsertIs ==
  ASSUME NEW t \in Trees, NEW i \in 1 .. Size(t), NEW child \in 1 .. Size(t),
         NEW c, c = Children(t, i)
  PROVE  \E p \in 0 .. Len(c) : PutIn(insert_child_sorted(t, i, child), t, i, child, c, p)
<1> DEFINE smaller == {k \in DOMAIN c :
                         \A j \in 1 .. k : dir_less(t.nodes[c[j]].name, t.nodes[child].name)}
           prev == c[Max(smaller)]
           L == Size(t)
<1>1. c \in Seq(1 .. Size(t)) /\ Size(t) \in Nat
  BY ChildrenType, TreeIs
<1>2. insert_child_sorted(t, i, child)
        = IF smaller = {}
            THEN [t EXCEPT !.nodes[child].next = t.nodes[i].first, !.nodes[i].first = child]
            ELSE [t EXCEPT !.nodes[child].next = t.nodes[prev].next, !.nodes[prev].next = child]
  BY DEF insert_child_sorted
<1>3. t.nodes[i].first \in 0 .. L /\ \A j \in 1 .. L : t.nodes[j].next \in 0 .. L
  BY TreeIs DEF SoundTree
<1>4. child \in 0 .. L
  BY <1>1
<1>5. CASE smaller = {}
  <2> DEFINE v == t.nodes[i].first
             half == SetNext(t, child, v)
             r == SetFirst(half, i, child)
  <2>1. insert_child_sorted(t, i, child) = r
    BY <1>2, <1>5 DEF SetNext, SetFirst
  <2>2. /\ half \in Trees /\ Size(half) = L /\ half.cwd = t.cwd
        /\ \A k \in 1 .. L :
             /\ half.nodes[k].name = t.nodes[k].name /\ half.nodes[k].parent = t.nodes[k].parent
             /\ half.nodes[k].first = t.nodes[k].first
             /\ half.nodes[k].next = IF k = child THEN v ELSE t.nodes[k].next
    BY <1>3, SetNextIs
  <2> HIDE DEF half
  <2>3. /\ r \in Trees /\ Size(r) = L /\ r.cwd = half.cwd
        /\ \A k \in 1 .. L :
             /\ r.nodes[k].name = half.nodes[k].name /\ r.nodes[k].parent = half.nodes[k].parent
             /\ r.nodes[k].next = half.nodes[k].next
             /\ r.nodes[k].first = IF k = i THEN child ELSE half.nodes[k].first
    BY <1>4, <2>2, SetFirstIs
  <2> HIDE DEF r
  <2>4. PutIn(r, t, i, child, c, 0)
    BY <2>2, <2>3 DEF PutIn
  <2>5. 0 \in 0 .. Len(c)
    BY <1>1
  <2> QED BY <2>1, <2>4, <2>5
<1>6. CASE smaller # {}
  <2> DEFINE p == Max(smaller)
  <2>0. Len(c) \in Nat /\ DOMAIN c = 1 .. Len(c) /\ smaller \in SUBSET (1 .. Len(c))
    BY <1>1
  <2> HIDE DEF smaller
  <2>1. p \in 1 .. Len(c) /\ p # 0 /\ p \in 0 .. Len(c)
    <3>1. p \in smaller
      BY <1>6, <2>0, MaxIs
    <3> HIDE DEF p
    <3>2. p \in 1 .. Len(c)
      BY <2>0, <3>1
    <3> QED BY <2>0, <3>2
  <2>2. insert_child_sorted(t, i, child)
          = [t EXCEPT !.nodes[child].next = t.nodes[prev].next, !.nodes[prev].next = child]
    BY <1>2, <1>6
  <2>3. prev = Nth(c, p) /\ prev \in 1 .. L
    <3>1. prev = c[p]
      OBVIOUS
    <3> HIDE DEF p, prev
    <3> QED BY <1>1, <2>1, <3>1 DEF Nth
  <2> HIDE DEF p
  <2> HIDE DEF prev
  <2> DEFINE v == t.nodes[prev].next
             half == SetNext(t, child, v)
             r == SetNext(half, prev, child)
  <2>4. insert_child_sorted(t, i, child) = r
    BY <2>2 DEF SetNext
  <2>5. v \in 0 .. L /\ prev \in 1 .. L
    BY <1>3, <2>3
  <2> HIDE DEF v
  <2>6. /\ half \in Trees /\ Size(half) = L /\ half.cwd = t.cwd
        /\ \A k \in 1 .. L :
             /\ half.nodes[k].name = t.nodes[k].name /\ half.nodes[k].parent = t.nodes[k].parent
             /\ half.nodes[k].first = t.nodes[k].first
             /\ half.nodes[k].next = IF k = child THEN v ELSE t.nodes[k].next
    BY <2>5, SetNextIs
  <2> HIDE DEF half
  <2>7. /\ r \in Trees /\ Size(r) = L /\ r.cwd = half.cwd
        /\ \A k \in 1 .. L :
             /\ r.nodes[k].name = half.nodes[k].name /\ r.nodes[k].parent = half.nodes[k].parent
             /\ r.nodes[k].first = half.nodes[k].first
             /\ r.nodes[k].next = IF k = prev THEN child ELSE half.nodes[k].next
    BY <1>4, <2>6, <2>5, SetNextIs
  <2> HIDE DEF r
  <2>8. PutIn(r, t, i, child, c, p)
    BY <2>1, <2>3, <2>6, <2>7 DEF PutIn, v
  <2> QED BY <2>1, <2>4, <2>8
<1> QED BY <1>5, <1>6

LEMMA InsertSound ==
  ASSUME NEW t \in Trees, NEW i \in 1 .. Size(t), NEW child \in 1 .. Size(t)
  PROVE  insert_child_sorted(t, i, child) \in Trees /\ Size(insert_child_sorted(t, i, child)) = Size(t)
<1> DEFINE c == Children(t, i)
<1>1. \E p \in 0 .. Len(c) : PutIn(insert_child_sorted(t, i, child), t, i, child, c, p)
  BY InsertIs
<1> HIDE DEF c
<1> QED BY <1>1 DEF PutIn

\* The tree with a new node, which no link leads to yet.
Grown(t, i, name) ==
  [nodes |-> Append(t.nodes, [name |-> name, parent |-> i, first |-> 0, next |-> 0]), cwd |-> t.cwd]

LEMMA GrownIs ==
  ASSUME NEW t \in Trees, NEW i \in 1 .. Size(t), NEW name \in Name
  PROVE  LET to == Grown(t, i, name)
             new == to.nodes[Size(t) + 1]
         IN  /\ to \in Trees /\ Size(to) = Size(t) + 1 /\ to.cwd = t.cwd
             /\ AddNode(t, i, name) = insert_child_sorted(to, i, Size(t) + 1)
             /\ \A j \in 1 .. Size(t) : to.nodes[j] = t.nodes[j]
             /\ new.name = name /\ new.parent = i /\ new.first = 0 /\ new.next = 0
<1> DEFINE L == Size(t)
           rec == [name |-> name, parent |-> i, first |-> 0, next |-> 0]
           new == Append(t.nodes, rec)
           to == Grown(t, i, name)
<1>1. /\ L \in Nat /\ t.nodes \in Seq(Node) /\ t.cwd \in 1 .. L /\ t.cwd \in Nat
      /\ t = [nodes |-> t.nodes, cwd |-> t.cwd] /\ Len(t.nodes) = L
      /\ \A j \in 1 .. L :
           /\ t.nodes[j].first \in 0 .. L /\ t.nodes[j].next \in 0 .. L
           /\ j # 1 => t.nodes[j].name \in Name /\ t.nodes[j].parent \in 1 .. j - 1
  BY TreeIs DEF SoundTree, Size
<1>2. AddNode(t, i, name) = insert_child_sorted(to, i, L + 1)
  <2>1. [t EXCEPT !.nodes = Append(@, rec)] = [nodes |-> new, cwd |-> t.cwd]
    <3>1. [[nodes |-> t.nodes, cwd |-> t.cwd] EXCEPT !.nodes = Append(@, rec)]
            = [nodes |-> new, cwd |-> t.cwd]
      BY SMTT(30)
    <3> QED BY <1>1, <3>1
  <2> QED BY <2>1 DEF AddNode, Size, Grown
<1>3. rec \in Node /\ rec.name = name /\ rec.parent = i /\ rec.first = 0 /\ rec.next = 0
  <2>1. name \in Seq(Char) /\ i \in Nat
    BY <1>1, NameIs, WordIs
  <2> QED BY <2>1 DEF Node
<1>4. to = [nodes |-> new, cwd |-> t.cwd]
  BY DEF Grown
<1> HIDE DEF rec, to
<1>5. new \in Seq(Node) /\ Len(new) = L + 1
      /\ \A j \in 1 .. L + 1 : new[j] = IF j = L + 1 THEN rec ELSE t.nodes[j]
  <2> HIDE DEF Node
  <2> DEFINE s == t.nodes
  <2> HIDE DEF s
  <2>1. s \in Seq(Node) /\ Len(s) = L
    BY <1>1 DEF s
  <2>2. Append(s, rec) \in Seq(Node) /\ Len(Append(s, rec)) = L + 1
        /\ \A j \in 1 .. L + 1 : Append(s, rec)[j] = IF j = L + 1 THEN rec ELSE s[j]
    <3>1. rec \in Node /\ L \in Nat
      BY <1>1, <1>3
    <3> HIDE DEF L
    <3>2. Append(s, rec) \in Seq(Node) /\ Len(Append(s, rec)) = L + 1
      BY <2>1, <3>1
    <3>3. \A j \in 1 .. L + 1 : Append(s, rec)[j] = IF j = L + 1 THEN rec ELSE s[j]
      BY <2>1, <3>1
    <3> QED BY <3>2, <3>3
  <2> QED BY <2>2 DEF s
<1> HIDE DEF new
<1>6. to \in [nodes : Seq(Node), cwd : Nat] /\ to.nodes = new /\ to.cwd = t.cwd
  <2> HIDE DEF Node
  <2> QED BY <1>1, <1>4, <1>5
<1>7. Size(to) = L + 1
  BY <1>5, <1>6 DEF Size
<1>8. ASSUME NEW j \in 1 .. L + 1
      PROVE  /\ to.nodes[j].first \in 0 .. L + 1 /\ to.nodes[j].next \in 0 .. L + 1
             /\ j # 1 => to.nodes[j].name \in Name /\ to.nodes[j].parent \in 1 .. j - 1
  <2>1. CASE j = L + 1
    <3>1. to.nodes[j] = rec
      BY <1>5, <1>6, <2>1
    <3>2. i \in 1 .. j - 1 /\ 0 \in 0 .. L + 1
      BY <1>1, <2>1
    <3> QED BY <1>3, <3>1, <3>2
  <2>2. CASE j # L + 1
    <3>1. j \in 1 .. L /\ to.nodes[j] = t.nodes[j]
      BY <1>1, <1>5, <1>6, <2>2
    <3>2. \A x : x \in 0 .. L => x \in 0 .. L + 1
      BY <1>1
    <3> QED BY <1>1, <3>1, <3>2
  <2> QED BY <2>1, <2>2
<1> HIDE DEF L
<1>9. to \in Trees
  <2>1. t.cwd \in 1 .. L + 1
    BY <1>1
  <2>2. SoundTree(to)
    BY <1>6, <1>7, <1>8, <2>1 DEF SoundTree
  <2> QED BY <1>6, <2>2 DEF Trees
<1>10. L + 1 \in 1 .. L + 1 /\ \A j \in 1 .. L : j \in 1 .. L + 1 /\ j # L + 1
  BY <1>1
<1>11. to.nodes[L + 1] = rec /\ \A j \in 1 .. L : to.nodes[j] = t.nodes[j]
  BY <1>5, <1>6, <1>10
<1> QED BY <1>2, <1>3, <1>6, <1>7, <1>9, <1>11 DEF L, to

\* A new node leaves the tree sound.
LEMMA AddSound ==
  ASSUME NEW t \in Trees, NEW i \in 1 .. Size(t), NEW name \in Name
  PROVE  AddNode(t, i, name) \in Trees /\ Size(AddNode(t, i, name)) = Size(t) + 1
<1> DEFINE to == Grown(t, i, name)
           L == Size(t)
<1>1. to \in Trees /\ Size(to) = L + 1 /\ AddNode(t, i, name) = insert_child_sorted(to, i, L + 1)
  BY GrownIs
<1>2. L \in Nat /\ i \in 1 .. L
  BY TreeIs
<1> HIDE DEF to, L
<1>3. i \in 1 .. Size(to) /\ L + 1 \in 1 .. Size(to)
  BY <1>1, <1>2
<1>4. insert_child_sorted(to, i, L + 1) \in Trees /\ Size(insert_child_sorted(to, i, L + 1)) = Size(to)
  BY <1>1, <1>3, InsertSound
<1> QED BY <1>1, <1>4 DEF L

\* One turn of the loop of mkdir_internal.
MakeState == {s \in [tree : Trees, cur : Nat, ok : BOOLEAN] : s.cur \in 1 .. Size(s.tree)}

MakeOne(s, path, k, create) == MakeStep(s, path, k, find_child(s.tree, s.cur, path[k]), create)

MakeSteps(path, create) == [p \in MakeState \X (1 .. Len(path)) |-> MakeOne(p[1], path, p[2], create)]

MakeStart(t) == [tree |-> t, cur |-> 1, ok |-> TRUE]

Made(t, path, create) == FoldLeftDomain(LAMBDA s, k : MakeOne(s, path, k, create), MakeStart(t), path)

LEMMA MakeStateIs ==
  ASSUME NEW s \in [tree : Trees, cur : Nat, ok : BOOLEAN], s.cur \in 1 .. Size(s.tree)
  PROVE  s \in MakeState
BY DEF MakeState

LEMMA MakeOneType ==
  ASSUME NEW path \in Seq(Name), NEW k \in 1 .. Len(path), NEW s \in MakeState, NEW create \in BOOLEAN
  PROVE  MakeOne(s, path, k, create) \in MakeState
<1> DEFINE t == s.tree
           cur == s.cur
           child == find_child(t, cur, path[k])
           to == MakeOne(s, path, k, create)
           grown == AddNode(t, cur, path[k])
           new == Len(t.nodes) + 1
           R == [tree : Trees, cur : Nat, ok : BOOLEAN]
<1>1. s \in R /\ t \in Trees /\ cur \in 1 .. Size(t)
  <2> HIDE DEF Trees
  <2> QED BY DEF MakeState
<1>2. path[k] \in Name
  OBVIOUS
<1>3. child \in 0 .. Size(t) /\ Size(t) \in Nat
  BY <1>1, FoundChild, TreeIs
<1>4. grown \in Trees /\ Size(grown) = Size(t) + 1
  BY <1>1, <1>2, AddSound
<1>5. \/ to = s
      \/ to = [s EXCEPT !.ok = FALSE]
      \/ child # 0 /\ to = [s EXCEPT !.cur = child]
      \/ to = [s EXCEPT !.tree = grown, !.cur = new]
  BY DEF MakeOne, MakeStep
<1>6. new \in Nat /\ new \in 1 .. Size(grown) /\ child \in Nat
  BY <1>3, <1>4 DEF Size
<1> HIDE DEF Trees
<1>7. CASE to = s
  BY <1>7
<1>8. CASE to = [s EXCEPT !.ok = FALSE]
  <2>1. to \in R /\ to.tree = s.tree /\ to.cur = s.cur
    BY <1>1, <1>8
  <2> QED BY <1>1, <2>1, MakeStateIs
<1>9. CASE child # 0 /\ to = [s EXCEPT !.cur = child]
  <2> HIDE DEF child
  <2>1. to \in R /\ to.tree = t /\ to.cur = child
    BY <1>1, <1>6, <1>9
  <2>2. to.cur \in 1 .. Size(to.tree)
    BY <1>3, <1>9, <2>1
  <2> QED BY <2>1, <2>2, MakeStateIs
<1>10. CASE to = [s EXCEPT !.tree = grown, !.cur = new]
  <2> HIDE DEF grown, new
  <2>1. to \in R /\ to.tree = grown /\ to.cur = new
    BY <1>1, <1>4, <1>6, <1>10
  <2> QED BY <1>6, <2>1, MakeStateIs
<1> HIDE DEF child, grown, new
<1> QED BY <1>5, <1>7, <1>8, <1>9, <1>10

LEMMA MakeRun ==
  ASSUME NEW path \in Seq(Name), NEW t \in Trees, NEW create \in BOOLEAN
  PROVE  \E u : IsRun(u, MakeState, MakeStart(t), Len(path), MakeSteps(path, create))
                /\ Made(t, path, create) = u[Len(path)]
<1> DEFINE n == Len(path)
           A == MakeState
           G == MakeSteps(path, create)
           b == MakeStart(t)
           f == [i \in DOMAIN path |-> i]
           P(g) == g = [q \in SUBSET DOMAIN f |->
                          IF q = {} THEN b ELSE MakeOne(g[q \ {Max(q)}], path, f[Max(q)], create)]
           W == CHOOSE g : P(g)
<1>1. Made(t, path, create) = W[DOMAIN f]
  BY Zenon DEF Made, FoldLeftDomain, FoldLeft, MapThenFoldSet
<1>2. n \in Nat /\ DOMAIN f = 1 .. n /\ \A k \in 1 .. n : f[k] = k
  OBVIOUS
<1>3. b \in A
  <2>1. 1 \in 1 .. Size(t)
    <3>1. Size(t) \in Nat \ {0}
      BY TreeIs
    <3> QED BY <3>1
  <2>2. b.tree = t /\ b.cur = 1
    BY DEF MakeStart
  <2>3. b \in [tree : Trees, cur : Nat, ok : BOOLEAN]
    <3> HIDE DEF Trees
    <3> QED BY DEF MakeStart
  <2> HIDE DEF b
  <2> QED BY <2>1, <2>2, <2>3, MakeStateIs
<1>4. G \in [A \X (1 .. n) -> A] /\ \A a \in A, k \in 1 .. n : G[<<a, k>>] = MakeOne(a, path, f[k], create)
  <2>1. \A a \in A, k \in 1 .. n : MakeOne(a, path, k, create) \in A
    BY MakeOneType
  <2>2. G = [p \in A \X (1 .. n) |-> MakeOne(p[1], path, p[2], create)]
    BY DEF MakeSteps
  <2> HIDE DEF A, n, G, f
  <2>3. G \in [A \X (1 .. n) -> A] /\ \A a \in A, k \in 1 .. n : G[<<a, k>>] = MakeOne(a, path, k, create)
    BY <2>1, <2>2
  <2> QED BY <1>2, <2>3
<1> HIDE DEF A, n, G, f, b
<1>5. \A q \in SUBSET (1 .. n) : q # {} => Max(q) \in 1 .. n
  BY <1>2, MaxIs
<1>6. \E g : P(g)
  <2>0. PICK g : IsFold(g, A, b, n, G)
    BY <1>2, <1>3, <1>4, FoldExists
  <2>1. g \in [SUBSET (1 .. n) -> A] /\ \A q \in SUBSET (1 .. n) :
          g[q] = IF q = {} THEN b ELSE G[<<g[q \ {Max(q)}], Max(q)>>]
    BY <2>0 DEF IsFold
  <2>2. ASSUME NEW q \in SUBSET (1 .. n)
        PROVE  g[q] = IF q = {} THEN b ELSE MakeOne(g[q \ {Max(q)}], path, f[Max(q)], create)
    <3>1. CASE q # {}
      <4>1. Max(q) \in 1 .. n /\ g[q \ {Max(q)}] \in A
        BY <1>5, <2>1, <3>1
      <4> QED BY <1>4, <2>1, <3>1, <4>1
    <3> QED BY <2>1, <3>1
  <2>3. g = [q \in SUBSET (1 .. n) |-> g[q]]
    BY <2>1
  <2>4. P(g)
    BY <1>2, <2>2, <2>3
  <2> QED BY <2>4
<1>7. P(W)
  BY <1>6
<1> HIDE DEF W
<1>8. FoldsBy(W, A, b, n, G)
  <2>1. \A q \in SUBSET (1 .. n) :
          W[q] = IF q = {} THEN b ELSE MakeOne(W[q \ {Max(q)}], path, f[Max(q)], create)
    BY <1>2, <1>7
  <2>2. {} \in SUBSET (1 .. n)
    OBVIOUS
  <2>3. W[{}] = b
    BY <2>1, <2>2
  <2>4. ASSUME NEW q \in SUBSET (1 .. n), q # {}, W[q \ {Max(q)}] \in A
        PROVE  W[q] = G[<<W[q \ {Max(q)}], Max(q)>>]
    <3> DEFINE m == Max(q)
    <3>1. m \in 1 .. n
      BY <1>5, <2>4
    <3>2. W[q] = MakeOne(W[q \ {m}], path, f[m], create) /\ W[q \ {m}] \in A
      BY <2>1, <2>4
    <3> HIDE DEF m
    <3>3. W[q] = G[<<W[q \ {m}], m>>]
      BY <1>4, <3>1, <3>2
    <3> QED BY <3>3 DEF m
  <2> QED BY <2>3, <2>4 DEF FoldsBy
<1>9. PICK u : RunsTo(u, W, A, b, n, G)
  BY <1>2, <1>3, <1>4, <1>8, FoldRun
<1> QED BY <1>1, <1>2, <1>9 DEF A, n, G, b, RunsTo

\* mkdir_internal leaves a sound tree, also when it gives up half way.
LEMMA MadeSound ==
  ASSUME NEW t \in Trees, NEW path \in Seq(Name) \cup {NoPath}, NEW create \in BOOLEAN
  PROVE  mkdir_internal(t, path, create).tree \in Trees /\ mkdir_internal(t, path, create).ok \in BOOLEAN
<1>1. CASE path \in {Root, NoPath}
  <2>1. mkdir_internal(t, path, create) = [tree |-> t, ok |-> FALSE]
    BY <1>1 DEF mkdir_internal
  <2> QED BY <2>1
<1>2. CASE path \notin {Root, NoPath}
  <2> DEFINE end == Made(t, path, create)
  <2>1. mkdir_internal(t, path, create) = [tree |-> end.tree, ok |-> end.ok]
    BY <1>2, Zenon DEF mkdir_internal, Made, MakeOne, MakeStart
  <2>2. path \in Seq(Name)
    BY <1>2
  <2>3. PICK u : IsRun(u, MakeState, MakeStart(t), Len(path), MakeSteps(path, create)) /\ end = u[Len(path)]
    BY <2>2, MakeRun
  <2>4. end \in MakeState
    <3>1. Len(path) \in 0 .. Len(path)
      BY <2>2
    <3> QED BY <2>3, <3>1 DEF IsRun
  <2> HIDE DEF end, Trees
  <2>5. end.tree \in Trees /\ end.ok \in BOOLEAN
    BY <2>4 DEF MakeState
  <2> QED BY <2>1, <2>5
<1> QED BY <1>1, <1>2

\* One turn of the loop of lookup_absolute.
LookStep(t, cur, name) ==
  IF cur = 0 \/ name = <<>> \/ Len(name) > NameMax THEN 0 ELSE find_child(t, cur, name)

LookSteps(t, path) == [p \in (0 .. Size(t)) \X (1 .. Len(path)) |-> LookStep(t, p[1], path[p[2]])]

LEMMA LookStepType ==
  ASSUME NEW t \in Trees, NEW cur \in 0 .. Size(t), NEW name
  PROVE  LookStep(t, cur, name) \in 0 .. Size(t)
<1>1. Size(t) \in Nat
  BY TreeIs
<1>2. CASE cur = 0
  BY <1>1, <1>2 DEF LookStep
<1>3. CASE cur # 0
  <2>1. cur \in 1 .. Size(t)
    BY <1>1, <1>3
  <2>2. find_child(t, cur, name) \in 0 .. Size(t) /\ 0 \in 0 .. Size(t)
    BY <1>1, <2>1, FoundChild
  <2> QED BY <2>2 DEF LookStep
<1> QED BY <1>2, <1>3

LEMMA LookRun ==
  ASSUME NEW t \in Trees, NEW path \in Seq(Seq(Char))
  PROVE  \E u : IsRun(u, 0 .. Size(t), 1, Len(path), LookSteps(t, path))
                /\ lookup_absolute(t, path) = u[Len(path)]
<1> DEFINE n == Len(path)
           A == 0 .. Size(t)
           G == LookSteps(t, path)
           b == 1
           f == path
           P(g) == g = [q \in SUBSET DOMAIN f |->
                          IF q = {} THEN b ELSE LookStep(t, g[q \ {Max(q)}], f[Max(q)])]
           W == CHOOSE g : P(g)
<1>1. lookup_absolute(t, path) = W[DOMAIN f]
  BY Zenon DEF lookup_absolute, LookStep, FoldLeft, MapThenFoldSet
<1>2. n \in Nat /\ DOMAIN f = 1 .. n
  OBVIOUS
<1>3. b \in A
  <2>1. Size(t) \in Nat \ {0}
    BY TreeIs
  <2> QED BY <2>1
<1>4. G \in [A \X (1 .. n) -> A] /\ \A a \in A, k \in 1 .. n : G[<<a, k>>] = LookStep(t, a, f[k])
  <2>1. \A a \in A, k \in 1 .. n : LookStep(t, a, f[k]) \in A
    BY LookStepType
  <2>2. G = [p \in A \X (1 .. n) |-> LookStep(t, p[1], f[p[2]])]
    BY DEF LookSteps
  <2> HIDE DEF A, n, G, f
  <2> QED BY <2>1, <2>2
<1> HIDE DEF A, n, G, f, b
<1>5. \A q \in SUBSET (1 .. n) : q # {} => Max(q) \in 1 .. n
  BY <1>2, MaxIs
<1>6. \E g : P(g)
  <2>0. PICK g : IsFold(g, A, b, n, G)
    BY <1>2, <1>3, <1>4, FoldExists
  <2>1. g \in [SUBSET (1 .. n) -> A] /\ \A q \in SUBSET (1 .. n) :
          g[q] = IF q = {} THEN b ELSE G[<<g[q \ {Max(q)}], Max(q)>>]
    BY <2>0 DEF IsFold
  <2>2. ASSUME NEW q \in SUBSET (1 .. n)
        PROVE  g[q] = IF q = {} THEN b ELSE LookStep(t, g[q \ {Max(q)}], f[Max(q)])
    <3>1. CASE q # {}
      <4>1. Max(q) \in 1 .. n /\ g[q \ {Max(q)}] \in A
        BY <1>5, <2>1, <3>1
      <4> QED BY <1>4, <2>1, <3>1, <4>1
    <3> QED BY <2>1, <3>1
  <2>3. g = [q \in SUBSET (1 .. n) |-> g[q]]
    BY <2>1
  <2>4. P(g)
    BY <1>2, <2>2, <2>3
  <2> QED BY <2>4
<1>7. P(W)
  BY <1>6
<1> HIDE DEF W
<1>8. FoldsBy(W, A, b, n, G)
  <2>1. \A q \in SUBSET (1 .. n) :
          W[q] = IF q = {} THEN b ELSE LookStep(t, W[q \ {Max(q)}], f[Max(q)])
    BY <1>2, <1>7
  <2>2. {} \in SUBSET (1 .. n)
    OBVIOUS
  <2>3. W[{}] = b
    BY <2>1, <2>2
  <2>4. ASSUME NEW q \in SUBSET (1 .. n), q # {}, W[q \ {Max(q)}] \in A
        PROVE  W[q] = G[<<W[q \ {Max(q)}], Max(q)>>]
    <3> DEFINE m == Max(q)
    <3>1. m \in 1 .. n
      BY <1>5, <2>4
    <3>2. W[q] = LookStep(t, W[q \ {m}], f[m]) /\ W[q \ {m}] \in A
      BY <2>1, <2>4
    <3> HIDE DEF m
    <3>3. W[q] = G[<<W[q \ {m}], m>>]
      BY <1>4, <3>1, <3>2
    <3> QED BY <3>3 DEF m
  <2> QED BY <2>3, <2>4 DEF FoldsBy
<1>9. PICK u : RunsTo(u, W, A, b, n, G)
  BY <1>2, <1>3, <1>4, <1>8, FoldRun
<1> QED BY <1>1, <1>2, <1>9 DEF A, n, G, b, RunsTo

\* lookup_absolute finds a node of the tree or none.
LEMMA FoundNode ==
  ASSUME NEW t \in Trees, NEW path \in Seq(Seq(Char))
  PROVE  lookup_absolute(t, path) \in 0 .. Size(t)
<1>1. PICK u : IsRun(u, 0 .. Size(t), 1, Len(path), LookSteps(t, path))
               /\ lookup_absolute(t, path) = u[Len(path)]
  BY LookRun
<1>2. Len(path) \in 0 .. Len(path)
  OBVIOUS
<1> DEFINE S == 0 .. Size(t)
<1> HIDE DEF S
<1>3. u \in [0 .. Len(path) -> S]
  BY <1>1 DEF IsRun, S
<1>4. u[Len(path)] \in S
  BY <1>2, <1>3
<1> QED BY <1>1, <1>4 DEF S

\* Along the parent links, which lead to smaller nodes: the path of a node is the path of
\* its parent and its name.
LEMMA PathIs ==
  ASSUME NEW t \in Trees
  PROVE  /\ PathTo(t, 1) = Root
         /\ \A j \in 2 .. Size(t) : PathTo(t, j) = Append(PathTo(t, t.nodes[j].parent), t.nodes[j].name)
<1> DEFINE L == Size(t)
           Q(g, k) == IF k = 1 THEN Root ELSE Append(g[t.nodes[k].parent], t.nodes[k].name)
           P(g) == g = [k \in DOMAIN t.nodes |-> Q(g, k)]
           W == CHOOSE g : P(g)
           A == Seq(Name)
<1>1. \A j : PathTo(t, j) = W[j]
  BY Zenon DEF PathTo
<1>2. /\ L \in Nat \ {0} /\ DOMAIN t.nodes = 1 .. L
      /\ \A k \in 1 .. L : k # 1 => t.nodes[k].name \in Name /\ t.nodes[k].parent \in 1 .. k - 1
  BY TreeIs DEF SoundTree
<1> HIDE DEF L
<1>3. ASSUME NEW g, NEW k \in 1 .. L, \A j \in 1 .. k - 1 : g[j] \in A PROVE Q(g, k) \in A
  <2>1. CASE k = 1
    BY <2>1 DEF Root
  <2>2. CASE k # 1
    <3> DEFINE p == g[t.nodes[k].parent]
               x == t.nodes[k].name
    <3>1. p \in Seq(Name) /\ x \in Name
      BY <1>2, <1>3, <2>2
    <3> HIDE DEF p, x
    <3>2. Append(p, x) \in Seq(Name)
      BY <3>1
    <3> QED BY <2>2, <3>2 DEF p, x
  <2> QED BY <2>1, <2>2
<1>4. ASSUME NEW g, NEW h, NEW k \in 1 .. L, \A j \in 1 .. k - 1 : g[j] = h[j] PROVE Q(g, k) = Q(h, k)
  <2>1. CASE k = 1
    BY <2>1
  <2>2. CASE k # 1
    <3>1. t.nodes[k].parent \in 1 .. k - 1
      BY <1>2, <2>2
    <3>2. g[t.nodes[k].parent] = h[t.nodes[k].parent]
      BY <1>4, <3>1
    <3> QED BY <2>2, <3>2
  <2> QED BY <2>1, <2>2
<1> HIDE DEF A, Q
<1>5. \E g : P(g)
  <2> DEFINE T == {m \in 0 .. L : \E g \in [1 .. m -> A] : \A k \in 1 .. m : g[k] = Q(g, k)}
  <2>1. 0 \in T
    <3> DEFINE none == [k \in 1 .. 0 |-> Root]
    <3>1. none \in [1 .. 0 -> A] /\ 0 \in 0 .. L /\ \A k \in 1 .. 0 : none[k] = Q(none, k)
      BY <1>2
    <3> HIDE DEF none
    <3> QED BY <3>1
  <2>2. ASSUME NEW m \in 0 .. L - 1, m \in T PROVE m + 1 \in T
    <3>1. PICK g \in [1 .. m -> A] : \A k \in 1 .. m : g[k] = Q(g, k)
      BY <2>2
    <3> DEFINE e == m + 1
               x == Q(g, e)
               new == [k \in 1 .. e |-> IF k = e THEN x ELSE g[k]]
    <3>2. e \in 1 .. L /\ e \in 0 .. L /\ e - 1 = m /\ \A k \in 1 .. e : k # e => k \in 1 .. m
      BY <1>2
    <3>3. \A k \in 1 .. m : k \in 1 .. e /\ k # e /\ k \in 1 .. L /\ \A j \in 1 .. k - 1 : j \in 1 .. m
      BY <1>2
    <3> HIDE DEF e
    <3>4. x \in A
      BY <1>3, <3>2
    <3> HIDE DEF x
    <3>5. new \in [1 .. e -> A] /\ new[e] = x /\ \A k \in 1 .. m : new[k] = g[k]
      BY <3>2, <3>3, <3>4
    <3> HIDE DEF new
    <3>6. ASSUME NEW k \in 1 .. e PROVE new[k] = Q(new, k)
      <4>1. CASE k = e
        <5>1. \A j \in 1 .. k - 1 : new[j] = g[j]
          BY <3>2, <3>5, <4>1
        <5>2. Q(new, k) = Q(g, k)
          BY <1>4, <3>2, <4>1, <5>1
        <5> QED BY <3>5, <4>1, <5>2 DEF x
      <4>2. CASE k # e
        <5>1. k \in 1 .. m /\ k \in 1 .. L /\ \A j \in 1 .. k - 1 : new[j] = g[j]
          BY <3>2, <3>3, <3>5, <4>2
        <5>2. Q(new, k) = Q(g, k)
          BY <1>4, <5>1
        <5> QED BY <3>1, <3>5, <5>1, <5>2
      <4> QED BY <4>1, <4>2
    <3>7. e \in T
      BY <3>2, <3>5, <3>6
    <3> QED BY <3>7 DEF e
  <2>3. 0 \in 0 .. L
    BY <1>2
  <2> HIDE DEF T
  <2>4. L \in T
    BY <1>2, <2>1, <2>2, <2>3, Reaches
  <2>5. PICK g \in [1 .. L -> A] : \A k \in 1 .. L : g[k] = Q(g, k)
    BY <2>4 DEF T
  <2>6. g = [k \in 1 .. L |-> Q(g, k)]
    BY <2>5
  <2> QED BY <1>2, <2>6
<1>6. P(W)
  BY <1>5
<1> HIDE DEF W
<1>7. \A k \in 1 .. L : W[k] = Q(W, k)
  BY <1>2, <1>6
<1>8. 1 \in 1 .. L /\ \A j \in 2 .. L : j \in 1 .. L /\ j # 1
  BY <1>2
<1>9. W[1] = Root /\ \A j \in 2 .. L : W[j] = Append(W[t.nodes[j].parent], t.nodes[j].name)
  BY <1>7, <1>8 DEF Q
<1> QED BY <1>1, <1>9 DEF L

\* Node by node, from the root on: what holds for a node once it holds for its
\* parent holds for all.
LEMMA DownTree ==
  ASSUME NEW t \in Trees, NEW T, 1 \in T,
         \A j \in 2 .. Size(t) : t.nodes[j].parent \in 1 .. Size(t) /\ t.nodes[j].parent \in T => j \in T
  PROVE  \A j \in 1 .. Size(t) : j \in T
<1> DEFINE L == Size(t)
           U == {m \in 1 .. L : \A j \in 1 .. m : j \in T}
<1>1. L \in Nat \ {0} /\ \A j \in 1 .. L : j # 1 => t.nodes[j].parent \in 1 .. j - 1
  BY TreeIs DEF SoundTree
<1> HIDE DEF L
<1>2. 1 \in U /\ 1 \in 0 .. L
  BY <1>1
<1>3. ASSUME NEW m \in 1 .. L - 1, m \in U PROVE m + 1 \in U
  <2> DEFINE e == m + 1
  <2>1. e \in 2 .. L /\ e \in 1 .. L /\ e # 1 /\ e - 1 = m /\ \A j \in 1 .. e : j = e \/ j \in 1 .. m
    BY <1>1
  <2> HIDE DEF e
  <2>2. t.nodes[e].parent \in 1 .. m
    BY <1>1, <2>1
  <2>3. t.nodes[e].parent \in 1 .. L /\ t.nodes[e].parent \in T
    BY <1>1, <1>3, <2>2
  <2>4. e \in T
    BY <2>1, <2>3 DEF L
  <2>5. e \in U
    BY <1>3, <2>1, <2>4
  <2> QED BY <2>5 DEF e
<1> HIDE DEF U
<1>4. L \in U
  BY <1>1, <1>2, <1>3, Reaches
<1> QED BY <1>4 DEF U, L

LEMMA PathType ==
  ASSUME NEW t \in Trees, NEW i \in 1 .. Size(t)
  PROVE  PathTo(t, i) \in Seq(Name)
<1> DEFINE T == {j \in 1 .. Size(t) : PathTo(t, j) \in Seq(Name)}
<1>1. Size(t) \in Nat \ {0} /\ \A j \in 2 .. Size(t) : j \in 1 .. Size(t) /\ t.nodes[j].name \in Name
  <2>1. Size(t) \in Nat \ {0} /\ \A j \in 1 .. Size(t) : j # 1 => t.nodes[j].name \in Name
    BY TreeIs DEF SoundTree
  <2>2. \A j \in 2 .. Size(t) : j \in 1 .. Size(t) /\ j # 1
    BY <2>1
  <2> QED BY <2>1, <2>2
<1>2. 1 \in T
  <2>1. PathTo(t, 1) = <<>> /\ 1 \in 1 .. Size(t)
    BY <1>1, PathIs DEF Root
  <2>2. <<>> \in Seq(Name)
    OBVIOUS
  <2> QED BY <2>1, <2>2
<1>3. ASSUME NEW j \in 2 .. Size(t), t.nodes[j].parent \in T PROVE j \in T
  <2> DEFINE p == PathTo(t, t.nodes[j].parent)
             x == t.nodes[j].name
  <2>1. p \in Seq(Name) /\ x \in Name /\ PathTo(t, j) = Append(p, x)
    BY <1>1, <1>3, PathIs
  <2> HIDE DEF p, x
  <2>2. Append(p, x) \in Seq(Name)
    BY <2>1
  <2> QED BY <1>1, <2>1, <2>2
<1> HIDE DEF T
<1>4. i \in T
  BY <1>2, <1>3, DownTree
<1> QED BY <1>4 DEF T

LEMMA PwdType == ASSUME NEW t \in Trees PROVE fs_dir_pwd(t) \in Seq(Name)
<1>1. t.cwd \in 1 .. Size(t)
  BY TreeIs DEF SoundTree
<1> QED BY <1>1, PathType DEF fs_dir_pwd

\* A resolved path can be looked up, whether or not it is one.
LEMMA SomePath == ASSUME NEW p \in Seq(Name) \cup {NoPath} PROVE p \in Seq(Seq(Char))
<1>1. CASE p \in Seq(Name)
  BY <1>1, SeqName, SeqWord
<1>2. CASE p = NoPath
  <2>1. <<>> \in Seq(Char)
    OBVIOUS
  <2> QED BY <1>2, <2>1 DEF NoPath
<1> QED BY <1>1, <1>2

\* resolve_to_absolute returns a path or fails.
LEMMA AbsoluteType ==
  ASSUME NEW t \in Trees, NEW word \in Seq(Char)
  PROVE  resolve_to_absolute(t, word) \in Seq(Name) \cup {NoPath}
<1> DEFINE w == IF word = <<>> THEN <<Dot>> ELSE word
           cwd == fs_dir_pwd(t)
<1>1. w \in Seq(Char) /\ cwd \in Seq(Name)
  BY SlashIs, PwdType
<1>2. resolve_to_absolute(t, word) = fs_path_resolve(cwd, w)
  BY DEF resolve_to_absolute
<1> HIDE DEF w, cwd
<1> QED BY <1>1, <1>2, ResolvedFrom

\* cd leaves a sound tree.
LEMMA CdSound ==
  ASSUME NEW t \in Trees, NEW word \in Seq(Char) PROVE fs_dir_cd(t, word) \in Trees
<1> DEFINE node == fs_dir_walk(t, word)
           cwd == fs_dir_pwd(t)
           p == fs_path_resolve(cwd, word)
<1>1. cwd \in Seq(Name)
  BY PwdType
<1>2. p \in Seq(Name) \cup {NoPath}
  <2> HIDE DEF cwd
  <2> QED BY <1>1, ResolvedFrom
<1>3. node \in 0 .. Size(t) /\ Size(t) \in Nat
  <2>1. node = lookup_absolute(t, p)
    BY DEF fs_dir_walk
  <2> HIDE DEF p
  <2>2. p \in Seq(Seq(Char))
    BY <1>2, SomePath
  <2> QED BY <2>1, <2>2, FoundNode, TreeIs
<1>4. fs_dir_cd(t, word) = IF node = 0 THEN t ELSE [t EXCEPT !.cwd = node]
  BY DEF fs_dir_cd
<1> HIDE DEF node
<1>5. CASE node # 0
  <2> DEFINE to == [nodes |-> t.nodes, cwd |-> node]
  <2>1. t = [nodes |-> t.nodes, cwd |-> t.cwd] /\ t.nodes \in Seq(Node) /\ SoundTree(t)
    BY TreeIs
  <2>2. [t EXCEPT !.cwd = node] = to
    <3>1. [[nodes |-> t.nodes, cwd |-> t.cwd] EXCEPT !.cwd = node] = to
      OBVIOUS
    <3> QED BY <2>1, <3>1
  <2>3. node \in Nat /\ node \in 1 .. Size(t)
    BY <1>3, <1>5
  <2>4. to \in [nodes : Seq(Node), cwd : Nat] /\ to.nodes = t.nodes /\ to.cwd = node
    <3> HIDE DEF Node
    <3> QED BY <2>1, <2>3
  <2> HIDE DEF to
  <2>5. Size(to) = Size(t)
    BY <2>4 DEF Size
  <2>6. SoundTree(to)
    BY <2>1, <2>3, <2>4, <2>5 DEF SoundTree
  <2>7. to \in Trees
    BY <2>4, <2>6 DEF Trees
  <2> QED BY <1>4, <1>5, <2>2, <2>7
<1> QED BY <1>4, <1>5

LEMMA MkdirSound ==
  ASSUME NEW t \in Trees, NEW fs, NEW word \in Seq(Char)
  PROVE  path_state_mkdir(t, fs, word).tree \in Trees /\ path_state_mkdir(t, fs, word).ok \in BOOLEAN
<1> DEFINE p == resolve_to_absolute(t, word)
<1>1. p \in Seq(Name) \cup {NoPath}
  BY AbsoluteType
<1>2. path_state_mkdir(t, fs, word) = IF IsFile(fs, p) THEN [tree |-> t, ok |-> FALSE]
      ELSE mkdir_internal(t, p, FALSE)
  BY DEF path_state_mkdir, fs_dir_mkdir
<1> HIDE DEF p
<1>3. mkdir_internal(t, p, FALSE).tree \in Trees /\ mkdir_internal(t, p, FALSE).ok \in BOOLEAN
  BY <1>1, MadeSound
<1>4. CASE IsFile(fs, p)
  <2>1. path_state_mkdir(t, fs, word) = [tree |-> t, ok |-> FALSE]
    BY <1>2, <1>4
  <2> QED BY <2>1
<1>5. CASE ~IsFile(fs, p)
  BY <1>2, <1>3, <1>5
<1> QED BY <1>4, <1>5

-------------------------------------------------------------------------------
(* The lists of children.  The links run through one list for every node, each  *)
(* node but the root is once in the list of its parent, and the names in a list *)
(* differ: find_child finds the one child of a name.                            *)

\* The links run through the list c of the children of node i, no node twice.
IsList(t, i, c) ==
  /\ c \in Seq(2 .. Size(t)) /\ Len(c) < Size(t) /\ t.nodes[i].first = Nth(c, 1)
  /\ \A k \in 1 .. Len(c) :
       /\ t.nodes[c[k]].next = Nth(c, k + 1) /\ t.nodes[c[k]].parent = i
       /\ \A l \in 1 .. Len(c) : c[l] = c[k] => l = k

\* Every node has its list, and every node but the root is in the list of its parent.
HasLists(t, ch) ==
  /\ \A i \in 1 .. Size(t) : IsList(t, i, ch[i])
  /\ \A j \in 2 .. Size(t) : \E k \in 1 .. Len(ch[t.nodes[j].parent]) : ch[t.nodes[j].parent][k] = j

\* The names fit, and those of one directory differ.
NamesDiffer(t) ==
  \A j \in 2 .. Size(t) :
    /\ Len(t.nodes[j].name) <= NameMax
    /\ \A k \in 2 .. Size(t) :
         t.nodes[k].parent = t.nodes[j].parent /\ t.nodes[k].name = t.nodes[j].name => k = j

LinkedTrees == {t \in Trees : Size(t) <= MaxNodes /\ NamesDiffer(t) /\ \E ch : HasLists(t, ch)}

LEMMA LinkedIs ==
  ASSUME NEW t \in LinkedTrees
  PROVE  t \in Trees /\ Size(t) <= MaxNodes /\ NamesDiffer(t) /\ \E ch : HasLists(t, ch)
<1> HIDE DEF Trees
<1> QED BY DEF LinkedTrees

\* The walk along the links finds the lists.
LEMMA ChildrenAre ==
  ASSUME NEW t \in Trees, Size(t) <= MaxNodes, NEW c \in Seq(2 .. Size(t)), Len(c) < Size(t),
         NEW i \in 1 .. Size(t), t.nodes[i].first = Nth(c, 1),
         \A k \in 1 .. Len(c) : t.nodes[c[k]].next = Nth(c, k + 1)
  PROVE  Children(t, i) = c
<1>1. Size(t) \in Nat /\ MaxNodes \in Nat
  BY TreeIs, PathFilesAssumption
<1>2. c \in Seq(1 .. Size(t))
  <2>1. \A k \in 1 .. Len(c) : c[k] \in 1 .. Size(t)
    BY <1>1
  <2>2. Len(c) \in Nat /\ c = [k \in 1 .. Len(c) |-> c[k]]
    OBVIOUS
  <2> DEFINE n == Len(c)
             S == 1 .. Size(t)
  <2> HIDE DEF n, S
  <2>3. [k \in 1 .. n |-> c[k]] \in Seq(S)
    BY <2>1, <2>2 DEF n, S
  <2> QED BY <2>2, <2>3 DEF n, S
<1>3. Len(c) <= MaxNodes
  <2>1. Len(c) \in Nat
    OBVIOUS
  <2> QED BY <1>1, <2>1
<1>4. Linked(t, Nth(c, 1)) = c
  BY <1>2, <1>3, ChainIs
<1> QED BY <1>4 DEF Children

LEMMA ItemIs == ASSUME NEW S, NEW s \in Seq(S), NEW k \in 1 .. Len(s) PROVE s[k] \in S
OBVIOUS

\* find_child finds the child of that name, if there is one.
LEMMA FindIs ==
  ASSUME NEW t \in LinkedTrees, NEW i \in 1 .. Size(t), NEW name
  PROVE  LET j == find_child(t, i, name)
         IN  /\ j # 0 => j \in 2 .. Size(t) /\ t.nodes[j].parent = i /\ t.nodes[j].name = name
             /\ \A k \in 2 .. Size(t) : t.nodes[k].parent = i /\ t.nodes[k].name = name => j = k
<1> DEFINE L == Size(t)
           list == Children(t, i)
           found == {k \in DOMAIN list : t.nodes[list[k]].name = name}
           j == find_child(t, i, name)
<1>1. t \in Trees /\ L \in Nat /\ L <= MaxNodes /\ NamesDiffer(t)
  BY LinkedIs, TreeIs
<1>2. PICK ch : HasLists(t, ch)
  BY LinkedIs
<1> DEFINE c == ch[i]
<1>3. /\ c \in Seq(2 .. L) /\ Len(c) < L /\ t.nodes[i].first = Nth(c, 1)
      /\ \A k \in 1 .. Len(c) : t.nodes[c[k]].next = Nth(c, k + 1) /\ t.nodes[c[k]].parent = i
      /\ \A k \in 2 .. L : t.nodes[k].parent = i => \E l \in 1 .. Len(c) : c[l] = k
  BY <1>2 DEF HasLists, IsList
<1> HIDE DEF c
<1>4. list = c
  BY <1>1, <1>3, ChildrenAre
<1>5. j = IF found = {} THEN 0 ELSE list[Min(found)]
  BY DEF find_child
<1>6. found = {k \in 1 .. Len(c) : t.nodes[c[k]].name = name} /\ Len(c) \in Nat
  <2>1. DOMAIN c = 1 .. Len(c) /\ Len(c) \in Nat
    BY <1>3
  <2> HIDE DEF list
  <2> QED BY <1>4, <2>1
<1> HIDE DEF list, j
<1>7. \A k \in found : c[k] \in 2 .. L /\ t.nodes[c[k]].parent = i /\ t.nodes[c[k]].name = name
  <2>1. c \in Seq(2 .. L)
    BY <1>3
  <2>2. \A k \in 1 .. Len(c) : c[k] \in 2 .. L
    BY <2>1, ItemIs
  <2> QED BY <1>3, <1>6, <2>2
<1>8. \A k \in 2 .. L : t.nodes[k].parent = i /\ t.nodes[k].name = name => found # {}
  BY <1>3, <1>6
<1>9. found \in SUBSET (1 .. Len(c))
  BY <1>6
<1> HIDE DEF found
<1>10. CASE found = {}
  BY <1>5, <1>8, <1>10 DEF j
<1>11. CASE found # {}
  <2>1. Min(found) \in found
    BY <1>6, <1>9, <1>11, MinIs
  <2>2. j = c[Min(found)]
    BY <1>4, <1>5, <1>11
  <2>3. j \in 2 .. L /\ t.nodes[j].parent = i /\ t.nodes[j].name = name
    BY <1>7, <2>1, <2>2
  <2>4. \A k \in 2 .. L : t.nodes[k].parent = i /\ t.nodes[k].name = name => k = j
    BY <1>1, <2>3 DEF NamesDiffer
  <2> QED BY <2>3, <2>4 DEF j
<1> QED BY <1>10, <1>11

\* The list c with x behind place p.
Spliced(c, p, x) ==
  [k \in 1 .. Len(c) + 1 |-> IF k <= p THEN c[k] ELSE IF k = p + 1 THEN x ELSE c[k - 1]]

LEMMA SplicedIs ==
  ASSUME NEW S, NEW c \in Seq(S), NEW p \in 0 .. Len(c), NEW x \in S
  PROVE  LET d == Spliced(c, p, x)
         IN  /\ d \in Seq(S) /\ Len(d) = Len(c) + 1 /\ Len(c) \in Nat /\ p \in Nat
             /\ \A k \in 1 .. Len(c) + 1 : d[k] = IF k <= p THEN c[k] ELSE IF k = p + 1 THEN x ELSE c[k - 1]
<1> DEFINE n == Len(c)
           d == Spliced(c, p, x)
<1>1. n \in Nat /\ p \in Nat /\ p <= n /\ \A k \in 1 .. n : c[k] \in S
  OBVIOUS
<1>2. d = [k \in 1 .. n + 1 |-> IF k <= p THEN c[k] ELSE IF k = p + 1 THEN x ELSE c[k - 1]]
  BY DEF Spliced
<1> HIDE DEF n, d
<1>3. ASSUME NEW k \in 1 .. n + 1
      PROVE  (IF k <= p THEN c[k] ELSE IF k = p + 1 THEN x ELSE c[k - 1]) \in S
  <2>1. CASE k <= p
    BY <1>1, <2>1
  <2>2. CASE ~(k <= p) /\ k # p + 1
    <3>1. k - 1 \in 1 .. n
      BY <1>1, <2>2
    <3> QED BY <1>1, <2>2, <3>1
  <2> QED BY <2>1, <2>2
<1>4. d \in Seq(S) /\ Len(d) = n + 1
  BY <1>1, <1>2, <1>3
<1>5. \A k \in 1 .. n + 1 : d[k] = IF k <= p THEN c[k] ELSE IF k = p + 1 THEN x ELSE c[k - 1]
  BY <1>2
<1> QED BY <1>1, <1>4, <1>5 DEF n, d

\* The list into which a child is put.
LEMMA PutList ==
  ASSUME NEW g \in Trees, NEW i \in 1 .. Size(g), NEW x \in 2 .. Size(g), NEW c, IsList(g, i, c),
         Len(c) + 1 < Size(g), g.nodes[x].parent = i, \A k \in 1 .. Len(c) : c[k] # x,
         NEW p \in 0 .. Len(c), NEW r, PutIn(r, g, i, x, c, p)
  PROVE  IsList(r, i, Spliced(c, p, x))
<1> DEFINE L == Size(g)
           n == Len(c)
           d == Spliced(c, p, x)
           first(j) == g.nodes[j].first
           next(j) == g.nodes[j].next
<1>1. L \in Nat /\ x \in 1 .. L
  BY TreeIs
<1>2. /\ d \in Seq(2 .. L) /\ Len(d) = n + 1 /\ n \in Nat /\ p \in Nat /\ p <= n
      /\ \A k \in 1 .. n + 1 : d[k] = IF k <= p THEN c[k] ELSE IF k = p + 1 THEN x ELSE c[k - 1]
  <2> DEFINE S == 2 .. L
  <2>1. c \in Seq(S) /\ x \in S
    BY DEF IsList
  <2> HIDE DEF S
  <2>2. d \in Seq(S) /\ Len(d) = n + 1 /\ n \in Nat /\ p \in Nat
        /\ \A k \in 1 .. n + 1 : d[k] = IF k <= p THEN c[k] ELSE IF k = p + 1 THEN x ELSE c[k - 1]
    BY <2>1, SplicedIs
  <2>3. p <= n
    BY <2>2
  <2> QED BY <2>2, <2>3 DEF S
<1>3. /\ first(i) = Nth(c, 1)
      /\ \A k \in 1 .. n : next(c[k]) = Nth(c, k + 1) /\ g.nodes[c[k]].parent = i /\ c[k] \in 1 .. L
      /\ \A k \in 1 .. n : \A l \in 1 .. n : c[l] = c[k] => l = k
  <2>1. c \in Seq(2 .. L)
    BY DEF IsList
  <2>2. \A k \in 1 .. n : c[k] \in 2 .. L
    BY <2>1, ItemIs
  <2>3. \A k \in 1 .. n : c[k] \in 1 .. L
    BY <1>1, <2>2
  <2> QED BY <2>3 DEF IsList
<1>4. /\ Size(r) = L
      /\ \A j \in 1 .. L : r.nodes[j].parent = g.nodes[j].parent
      /\ r.nodes[i].first = IF p = 0 THEN x ELSE first(i)
      /\ \A j \in 1 .. L :
           r.nodes[j].next = IF p # 0 /\ j = Nth(c, p) THEN x
                             ELSE IF j # x THEN next(j)
                             ELSE IF p = 0 THEN first(i) ELSE next(Nth(c, p))
  BY DEF PutIn
<1>5. \A k \in 1 .. n : c[k] # x
  OBVIOUS
<1> HIDE DEF L, n, d, first, next
<1>6. \A k \in Int : Nth(c, k) = IF k \in 1 .. n THEN c[k] ELSE 0
  BY DEF Nth, n
<1>7. \A k \in Int : Nth(d, k) = IF k \in 1 .. n + 1 THEN d[k] ELSE 0
  BY <1>2 DEF Nth
<1>8. r.nodes[i].first = Nth(d, 1)
  <2>1. Nth(d, 1) = d[1] /\ 1 \in 1 .. n + 1
    BY <1>2, <1>7
  <2>2. CASE p = 0
    BY <1>2, <1>4, <2>1, <2>2
  <2>3. CASE p # 0
    <3>1. 1 <= p /\ 1 \in 1 .. n
      BY <1>2, <2>3
    <3> QED BY <1>2, <1>3, <1>4, <1>6, <2>1, <2>3, <3>1
  <2> QED BY <2>2, <2>3
<1>9. ASSUME NEW k \in 1 .. n + 1
      PROVE  r.nodes[d[k]].next = Nth(d, k + 1) /\ r.nodes[d[k]].parent = i
  <2>1. CASE k < p
    <3>1. k \in 1 .. n /\ k + 1 \in 1 .. n /\ p \in 1 .. n /\ k # p /\ k + 1 \in 1 .. n + 1
      BY <1>2, <2>1
    <3>2. d[k] = c[k] /\ d[k + 1] = c[k + 1] /\ Nth(c, p) = c[p]
      BY <1>2, <1>6, <2>1, <3>1
    <3>3. c[k] # c[p] /\ c[k] # x /\ c[k] \in 1 .. L
      BY <1>3, <1>5, <3>1
    <3>4. r.nodes[d[k]].next = next(c[k])
      BY <1>4, <3>2, <3>3
    <3>5. next(c[k]) = c[k + 1] /\ Nth(d, k + 1) = c[k + 1]
      BY <1>3, <1>6, <1>7, <3>1, <3>2
    <3> QED BY <1>3, <1>4, <3>1, <3>2, <3>3, <3>4, <3>5
  <2>2. CASE k = p
    <3>1. k \in 1 .. n /\ p # 0 /\ k + 1 \in 1 .. n + 1 /\ k + 1 = p + 1
      BY <1>2, <2>2
    <3>2. d[k] = c[k] /\ d[k + 1] = x /\ Nth(c, p) = c[k]
      BY <1>2, <1>6, <2>2, <3>1
    <3>3. c[k] \in 1 .. L /\ g.nodes[c[k]].parent = i
      BY <1>3, <3>1
    <3>4. r.nodes[d[k]].next = x
      BY <1>4, <3>1, <3>2, <3>3
    <3>5. Nth(d, k + 1) = x
      BY <1>7, <3>1, <3>2
    <3> QED BY <1>4, <3>2, <3>3, <3>4, <3>5
  <2>3. CASE k = p + 1
    <3>1. d[k] = x /\ (k + 1 \in 1 .. n + 1 => d[k + 1] = c[k]) /\ k \in Int /\ k + 1 \in Int
      BY <1>2, <2>3
    <3>2. Nth(d, k + 1) = Nth(c, k)
      BY <1>2, <1>6, <1>7, <3>1
    <3>3. p # 0 => Nth(c, p) = c[p] /\ c[p] # x /\ next(c[p]) = Nth(c, k) /\ p \in 1 .. n
      BY <1>2, <1>3, <1>5, <1>6, <2>3
    <3>4. p = 0 => k = 1 /\ first(i) = Nth(c, k)
      BY <1>3, <2>3
    <3>5. r.nodes[x].next = Nth(c, k)
      BY <1>1, <1>4, <3>3, <3>4
    <3>6. r.nodes[x].parent = i
      BY <1>1, <1>4
    <3> QED BY <3>1, <3>2, <3>5, <3>6
  <2>4. CASE k > p + 1
    <3> DEFINE m == k - 1
    <3>1. m \in 1 .. n /\ m # p /\ m + 1 = k /\ k \in Int /\ k + 1 \in Int /\ ~(k <= p) /\ k # p + 1
      BY <1>2, <2>4
    <3>2. d[k] = c[m] /\ (k + 1 \in 1 .. n + 1 => d[k + 1] = c[k])
      <4>1. d[k] = c[m]
        BY <1>2, <3>1
      <4>2. k + 1 \in 1 .. n + 1 => d[k + 1] = c[(k + 1) - 1]
        BY <1>2, <2>4
      <4>3. (k + 1) - 1 = k
        BY <3>1
      <4> QED BY <4>1, <4>2, <4>3
    <3> HIDE DEF m
    <3>3. c[m] \in 1 .. L /\ c[m] # x /\ g.nodes[c[m]].parent = i /\ next(c[m]) = Nth(c, k)
      BY <1>3, <1>5, <3>1
    <3>4. p # 0 => Nth(c, p) # c[m]
      <4> SUFFICES ASSUME p # 0 PROVE Nth(c, p) # c[m]
        OBVIOUS
      <4>1. p \in 1 .. n /\ Nth(c, p) = c[p]
        BY <1>2, <1>6
      <4> QED BY <1>3, <3>1, <4>1
    <3>5. r.nodes[c[m]].next = Nth(c, k) /\ r.nodes[c[m]].parent = i
      BY <1>4, <3>3, <3>4
    <3>6. Nth(d, k + 1) = Nth(c, k)
      BY <1>2, <1>6, <1>7, <3>1, <3>2
    <3> QED BY <3>2, <3>5, <3>6
  <2> QED BY <1>2, <2>1, <2>2, <2>3, <2>4
<1>10. ASSUME NEW k \in 1 .. n + 1, NEW l \in 1 .. n + 1, d[l] = d[k] PROVE l = k
  <2>1. d[k] = IF k <= p THEN c[k] ELSE IF k = p + 1 THEN x ELSE c[k - 1]
    BY <1>2
  <2>2. d[l] = IF l <= p THEN c[l] ELSE IF l = p + 1 THEN x ELSE c[l - 1]
    BY <1>2
  <2>3. /\ k <= p => k \in 1 .. n
        /\ ~(k <= p) /\ k # p + 1 => k - 1 \in 1 .. n
        /\ l <= p => l \in 1 .. n
        /\ ~(l <= p) /\ l # p + 1 => l - 1 \in 1 .. n
    BY <1>2
  <2>4. \A a \in 1 .. n, b \in 1 .. n : c[a] = c[b] => a = b
    BY <1>3
  <2>5. k = p + 1 <=> l = p + 1
    BY <1>5, <1>10, <2>1, <2>2, <2>3
  <2>6. CASE k = p + 1
    BY <2>5, <2>6
  <2>7. CASE k # p + 1
    <3> DEFINE a == IF k <= p THEN k ELSE k - 1
               b == IF l <= p THEN l ELSE l - 1
    <3>1. a \in 1 .. n /\ b \in 1 .. n /\ c[a] = c[b]
      BY <1>10, <2>1, <2>2, <2>3, <2>5, <2>7
    <3>2. a = b
      <4> HIDE DEF a, b
      <4> QED BY <2>4, <3>1
    <3> QED BY <1>2, <2>5, <2>7, <3>2
  <2> QED BY <2>6, <2>7
<1>11. Len(d) < L
  BY <1>2 DEF L, n
<1>12. \A k \in 1 .. n + 1 : \A l \in 1 .. n + 1 : d[l] = d[k] => l = k
  BY <1>10
<1> QED BY <1>2, <1>4, <1>8, <1>9, <1>11, <1>12 DEF IsList, d

LEMMA ListIs ==
  ASSUME NEW t \in Trees, NEW i, NEW c, IsList(t, i, c)
  PROVE  /\ c \in Seq(2 .. Size(t)) /\ Len(c) \in Nat /\ Len(c) < Size(t) /\ t.nodes[i].first = Nth(c, 1)
         /\ \A k \in 1 .. Len(c) :
              /\ c[k] \in 2 .. Size(t) /\ c[k] \in 1 .. Size(t)
              /\ t.nodes[c[k]].next = Nth(c, k + 1) /\ t.nodes[c[k]].parent = i
         /\ \A k \in 1 .. Len(c) : \A l \in 1 .. Len(c) : c[l] = c[k] => l = k
<1>1. Size(t) \in Nat
  BY TreeIs
<1>2. c \in Seq(2 .. Size(t))
  BY DEF IsList
<1>3. \A k \in 1 .. Len(c) : c[k] \in 2 .. Size(t)
  BY <1>2, ItemIs
<1>4. \A k \in 1 .. Len(c) : c[k] \in 1 .. Size(t)
  BY <1>1, <1>3
<1>5. Len(c) \in Nat
  BY <1>2
<1> QED BY <1>2, <1>3, <1>4, <1>5 DEF IsList

LEMMA WiderSeq ==
  ASSUME NEW A, NEW B, A \subseteq B, NEW s \in Seq(A) PROVE s \in Seq(B)
<1>1. Len(s) \in Nat /\ s = [k \in 1 .. Len(s) |-> s[k]] /\ \A k \in 1 .. Len(s) : s[k] \in B
  OBVIOUS
<1> QED BY <1>1

\* The lists of the tree are lists of the tree with the new node.
LEMMA GrownList ==
  ASSUME NEW t \in Trees, NEW i \in 1 .. Size(t), NEW name \in Name,
         NEW j \in 1 .. Size(t), NEW c, IsList(t, j, c)
  PROVE  /\ IsList(Grown(t, i, name), j, c) /\ Len(c) + 1 < Size(t) + 1
         /\ \A k \in 1 .. Len(c) : c[k] # Size(t) + 1
<1> DEFINE g == Grown(t, i, name)
           L == Size(t)
<1>1. L \in Nat /\ Size(g) = L + 1 /\ \A m \in 1 .. L : g.nodes[m] = t.nodes[m]
  BY GrownIs, TreeIs
<1>2. /\ c \in Seq(2 .. L) /\ Len(c) \in Nat /\ Len(c) < L /\ t.nodes[j].first = Nth(c, 1)
      /\ \A k \in 1 .. Len(c) :
           /\ c[k] \in 2 .. L /\ c[k] \in 1 .. L
           /\ t.nodes[c[k]].next = Nth(c, k + 1) /\ t.nodes[c[k]].parent = j
      /\ \A k \in 1 .. Len(c) : \A l \in 1 .. Len(c) : c[l] = c[k] => l = k
  <2> HIDE DEF g
  <2>1. /\ c \in Seq(2 .. L) /\ Len(c) \in Nat /\ Len(c) < L /\ t.nodes[j].first = Nth(c, 1)
        /\ \A k \in 1 .. Len(c) : \A l \in 1 .. Len(c) : c[l] = c[k] => l = k
    BY ListIs
  <2>2. \A k \in 1 .. Len(c) :
          /\ c[k] \in 2 .. L /\ c[k] \in 1 .. L
          /\ t.nodes[c[k]].next = Nth(c, k + 1) /\ t.nodes[c[k]].parent = j
    BY ListIs
  <2> QED BY <2>1, <2>2
<1> HIDE DEF g
<1>3. c \in Seq(2 .. L + 1)
  <2> DEFINE A == 2 .. L
             B == 2 .. L + 1
  <2>1. A \subseteq B /\ c \in Seq(A)
    BY <1>1, <1>2
  <2> HIDE DEF A, B
  <2>2. c \in Seq(B)
    BY <2>1, WiderSeq
  <2> QED BY <2>2 DEF B
<1>4. j \in 1 .. L
  OBVIOUS
<1> HIDE DEF L
<1>5. \A k \in 1 .. Len(c) : g.nodes[c[k]].next = Nth(c, k + 1) /\ g.nodes[c[k]].parent = j
  BY <1>1, <1>2
<1>6. g.nodes[j].first = Nth(c, 1)
  BY <1>1, <1>2, <1>4
<1>7. Len(c) < L + 1 /\ Len(c) + 1 < L + 1
  BY <1>1, <1>2
<1>8. \A k \in 1 .. Len(c) : c[k] # L + 1
  BY <1>1, <1>2
<1>9. IsList(g, j, c)
  BY <1>1, <1>2, <1>3, <1>5, <1>6, <1>7 DEF IsList
<1> QED BY <1>7, <1>8, <1>9 DEF L, g

\* A list of another node is left as it is.
LEMMA OtherList ==
  ASSUME NEW g \in Trees, NEW i \in 1 .. Size(g), NEW x \in 2 .. Size(g), NEW c, IsList(g, i, c),
         NEW p \in 0 .. Len(c), NEW r, PutIn(r, g, i, x, c, p),
         NEW j \in 1 .. Size(g), j # i, NEW e, IsList(g, j, e), \A k \in 1 .. Len(e) : e[k] # x
  PROVE  IsList(r, j, e)
<1> DEFINE L == Size(g)
<1>1. \A k \in 1 .. Len(c) : c[k] \in 1 .. L /\ g.nodes[c[k]].parent = i
  BY ListIs
<1>2. /\ e \in Seq(2 .. L) /\ Len(e) < L /\ g.nodes[j].first = Nth(e, 1)
      /\ \A k \in 1 .. Len(e) :
           /\ e[k] \in 1 .. L /\ g.nodes[e[k]].next = Nth(e, k + 1) /\ g.nodes[e[k]].parent = j
      /\ \A k \in 1 .. Len(e) : \A l \in 1 .. Len(e) : e[l] = e[k] => l = k
  BY ListIs
<1>3. /\ Size(r) = L
      /\ \A m \in 1 .. L :
           /\ r.nodes[m].parent = g.nodes[m].parent
           /\ m # i => r.nodes[m].first = g.nodes[m].first
           /\ ~(p # 0 /\ m = Nth(c, p)) /\ m # x => r.nodes[m].next = g.nodes[m].next
  BY DEF PutIn
<1>4. p # 0 => Nth(c, p) = c[p] /\ p \in 1 .. Len(c)
  <2>1. Len(c) \in Nat
    BY ListIs
  <2> QED BY <2>1 DEF Nth
<1>5. j \in 1 .. L
  OBVIOUS
<1> HIDE DEF L
<1>6. ASSUME NEW k \in 1 .. Len(e) PROVE ~(p # 0 /\ e[k] = Nth(c, p))
  <2> SUFFICES ASSUME p # 0, e[k] = c[p] PROVE FALSE
    BY <1>4
  <2>1. g.nodes[e[k]].parent = j
    BY <1>2
  <2>2. g.nodes[c[p]].parent = i
    BY <1>1, <1>4
  <2> QED BY <2>1, <2>2
<1>7. \A k \in 1 .. Len(e) : r.nodes[e[k]].next = Nth(e, k + 1) /\ r.nodes[e[k]].parent = j
  BY <1>2, <1>3, <1>6
<1>8. r.nodes[j].first = Nth(e, 1)
  BY <1>2, <1>3, <1>5
<1> QED BY <1>2, <1>3, <1>7, <1>8 DEF IsList

\* r keeps the nodes of t under their names and parents.
Extends(r, t) ==
  /\ Size(r) >= Size(t) /\ r.cwd = t.cwd
  /\ \A j \in 1 .. Size(t) :
       r.nodes[j].name = t.nodes[j].name /\ r.nodes[j].parent = t.nodes[j].parent

\* A directory is made: the lists of children stay lists, with the new node in one.
LEMMA AddLinked ==
  ASSUME NEW t \in LinkedTrees, NEW i \in 1 .. Size(t), NEW name \in Name, Len(name) <= NameMax,
         Size(t) < MaxNodes, find_child(t, i, name) = 0
  PROVE  LET r == AddNode(t, i, name)
             x == Size(t) + 1
         IN  r \in LinkedTrees /\ Size(r) = x /\ Extends(r, t) /\ r.nodes[x].name = name
             /\ r.nodes[x].parent = i
<1> DEFINE L == Size(t)
           M == MaxNodes
           x == L + 1
           g == Grown(t, i, name)
           r == AddNode(t, i, name)
<1>1. t \in Trees /\ L \in Nat \ {0} /\ M \in Nat /\ NamesDiffer(t) /\ x \in 2 .. x
      /\ x \in 1 .. x /\ x <= M
  BY LinkedIs, TreeIs, PathFilesAssumption
<1>2. PICK ch : HasLists(t, ch)
  BY LinkedIs
<1>3. \A j \in 1 .. L : IsList(t, j, ch[j])
  BY <1>2 DEF HasLists
<1> DEFINE c == ch[i]
<1>4. /\ g \in Trees /\ Size(g) = x /\ g.cwd = t.cwd /\ r = insert_child_sorted(g, i, x)
      /\ \A j \in 1 .. L : g.nodes[j] = t.nodes[j]
      /\ g.nodes[x].name = name /\ g.nodes[x].parent = i /\ g.nodes[x].first = 0
  BY <1>1, GrownIs
<1>5. /\ i \in 1 .. L /\ i \in 1 .. x /\ i # x
      /\ \A j \in 1 .. x : j # x => j \in 1 .. L
      /\ \A j \in 1 .. L : j \in 1 .. x /\ j # x
      /\ \A j \in 2 .. x : j # x => j \in 2 .. L /\ j \in 1 .. L
  BY <1>1
<1>6. ASSUME NEW j \in 1 .. L
      PROVE  IsList(g, j, ch[j]) /\ Len(ch[j]) + 1 < x /\ \A k \in 1 .. Len(ch[j]) : ch[j][k] # x
  <2>1. IsList(t, j, ch[j])
    BY <1>3
  <2> QED BY <1>1, <2>1, GrownList
<1> HIDE DEF g, r
<1>7. IsList(g, i, c) /\ Len(c) + 1 < x /\ \A k \in 1 .. Len(c) : c[k] # x
  BY <1>5, <1>6
<1> HIDE DEF L, x
<1>8. Children(g, i) = c
  <2> HIDE DEF c
  <2>1. /\ c \in Seq(2 .. Size(g)) /\ Len(c) < Size(g) /\ g.nodes[i].first = Nth(c, 1)
        /\ \A k \in 1 .. Len(c) : g.nodes[c[k]].next = Nth(c, k + 1)
    BY <1>4, <1>7, ListIs
  <2>2. Size(g) <= MaxNodes /\ i \in 1 .. Size(g)
    BY <1>1, <1>4, <1>5
  <2> QED BY <1>4, <2>1, <2>2, ChildrenAre
<1>9. PICK p \in 0 .. Len(c) : PutIn(r, g, i, x, c, p)
  <2> HIDE DEF c
  <2> QED BY <1>1, <1>4, <1>5, <1>8, InsertIs
<1> DEFINE d == Spliced(c, p, x)
           new == [j \in 1 .. x |-> IF j = i THEN d ELSE IF j = x THEN <<>> ELSE ch[j]]
<1>10. IsList(r, i, d)
  <2> HIDE DEF c
  <2> QED BY <1>1, <1>4, <1>5, <1>7, <1>9, PutList
<1>11. /\ r \in Trees /\ Size(r) = x /\ r.cwd = t.cwd
       /\ \A j \in 1 .. L : r.nodes[j].name = t.nodes[j].name /\ r.nodes[j].parent = t.nodes[j].parent
       /\ r.nodes[x].name = name /\ r.nodes[x].parent = i /\ r.nodes[x].first = 0
  <2>1. /\ r \in Trees /\ Size(r) = Size(g) /\ r.cwd = g.cwd
        /\ \A j \in 1 .. x :
             /\ r.nodes[j].name = g.nodes[j].name /\ r.nodes[j].parent = g.nodes[j].parent
             /\ j # i => r.nodes[j].first = g.nodes[j].first
    BY <1>4, <1>9 DEF PutIn
  <2> QED BY <1>1, <1>4, <1>5, <2>1
<1>12. ASSUME NEW j \in 1 .. L, j # i PROVE IsList(r, j, ch[j])
  <2>1. IsList(g, j, ch[j]) /\ \A k \in 1 .. Len(ch[j]) : ch[j][k] # x
    BY <1>6 DEF L, x
  <2> HIDE DEF c
  <2> QED BY <1>1, <1>4, <1>5, <1>7, <1>9, <1>12, <2>1, OtherList
<1>13. IsList(r, x, <<>>)
  <2> DEFINE none == <<>>
  <2>1. none \in Seq(2 .. x) /\ Len(none) = 0 /\ Nth(none, 1) = 0 /\ \A k : ~(k \in 1 .. 0)
    BY DEF Nth
  <2> HIDE DEF none
  <2>2. 0 < x
    BY <1>1 DEF x
  <2>3. IsList(r, x, none)
    BY <1>11, <2>1, <2>2 DEF IsList
  <2> QED BY <2>3 DEF none
<1>14. new[i] = d /\ new[x] = <<>> /\ \A j \in 1 .. L : j # i => new[j] = ch[j]
  <2> HIDE DEF d
  <2> QED BY <1>1, <1>5
<1> HIDE DEF new
<1>15. \A j \in 1 .. x : IsList(r, j, new[j])
  <2> HIDE DEF d
  <2> QED BY <1>5, <1>10, <1>12, <1>13, <1>14
<1>16. ASSUME NEW j \in 2 .. x
       PROVE  \E k \in 1 .. Len(new[r.nodes[j].parent]) : new[r.nodes[j].parent][k] = j
  <2>1. /\ Len(d) = Len(c) + 1 /\ Len(c) \in Nat /\ p \in Nat /\ p <= Len(c)
        /\ \A k \in 1 .. Len(c) + 1 : d[k] = IF k <= p THEN c[k] ELSE IF k = p + 1 THEN x ELSE c[k - 1]
    <3> HIDE DEF c
    <3> DEFINE S == 2 .. x
    <3>1. c \in Seq(S) /\ x \in S
      <4>1. c \in Seq(2 .. Size(g))
        BY <1>7 DEF IsList
      <4> QED BY <1>1, <1>4, <4>1
    <3> HIDE DEF S
    <3>2. p \in 0 .. Len(c)
      BY DEF c
    <3>3. Len(d) = Len(c) + 1 /\ Len(c) \in Nat /\ p \in Nat
      BY <3>1, <3>2, SplicedIs
    <3>4. \A k \in 1 .. Len(c) + 1 : d[k] = IF k <= p THEN c[k] ELSE IF k = p + 1 THEN x ELSE c[k - 1]
      BY <3>1, <3>2, SplicedIs
    <3> QED BY <3>2, <3>3, <3>4
  <2> HIDE DEF d
  <2>2. CASE j = x
    <3>1. r.nodes[j].parent = i /\ new[i] = d
      BY <1>11, <1>14, <2>2
    <3>2. p + 1 \in 1 .. Len(d) /\ d[p + 1] = x
      <4> HIDE DEF c
      <4> QED BY <2>1
    <3> QED BY <2>2, <3>1, <3>2
  <2>3. CASE j # x
    <3> DEFINE q == t.nodes[j].parent
    <3>1. j \in 2 .. L /\ r.nodes[j].parent = q
      BY <1>5, <1>11, <2>3
    <3>2. q \in 1 .. L
      <4>1. j \in 1 .. L /\ j # 1 /\ j \in Nat
        BY <1>1, <3>1
      <4>2. q \in 1 .. j - 1
        BY <1>1, <4>1, TreeIs DEF SoundTree, L
      <4> QED BY <1>1, <4>1, <4>2
    <3>3. PICK k \in 1 .. Len(ch[q]) : ch[q][k] = j
      BY <1>2, <3>1 DEF HasLists, L
    <3> HIDE DEF q
    <3>4. CASE q # i
      BY <1>14, <3>1, <3>2, <3>3, <3>4
    <3>5. CASE q = i
      <4>1. k \in 1 .. Len(c) /\ c[k] = j /\ new[q] = d
        BY <1>14, <3>3, <3>5
      <4> HIDE DEF c
      <4>2. CASE k <= p
        <5>1. k \in 1 .. Len(d) /\ d[k] = c[k]
          BY <2>1, <4>1, <4>2
        <5> QED BY <3>1, <4>1, <5>1
      <4>3. CASE ~(k <= p)
        <5>1. k + 1 \in 1 .. Len(d) /\ k + 1 # p + 1 /\ ~(k + 1 <= p) /\ (k + 1) - 1 = k
              /\ k + 1 \in 1 .. Len(c) + 1
          BY <2>1, <4>1, <4>3
        <5>2. d[k + 1] = c[k]
          BY <2>1, <5>1
        <5> QED BY <3>1, <4>1, <5>1, <5>2
      <4> QED BY <4>2, <4>3
    <3> QED BY <3>4, <3>5
  <2> QED BY <2>2, <2>3
<1>17. HasLists(r, new)
  BY <1>11, <1>15, <1>16 DEF HasLists
<1>18. \A k \in 2 .. L : ~(t.nodes[k].parent = i /\ t.nodes[k].name = name)
  <2>1. \A k \in 2 .. L : t.nodes[k].parent = i /\ t.nodes[k].name = name => find_child(t, i, name) = k
    BY FindIs DEF L
  <2>2. \A k \in 2 .. L : k # 0
    BY <1>1
  <2> QED BY <2>1, <2>2
<1>19. NamesDiffer(r)
  <2> SUFFICES ASSUME NEW j \in 2 .. x
               PROVE  /\ Len(r.nodes[j].name) <= NameMax
                      /\ \A k \in 2 .. x : r.nodes[k].parent = r.nodes[j].parent
                                           /\ r.nodes[k].name = r.nodes[j].name => k = j
    BY <1>11 DEF NamesDiffer
  <2>1. \A k \in 2 .. L : /\ Len(t.nodes[k].name) <= NameMax
                          /\ \A m \in 2 .. L : t.nodes[m].parent = t.nodes[k].parent
                                               /\ t.nodes[m].name = t.nodes[k].name => m = k
    BY <1>1 DEF NamesDiffer, L
  <2>2. CASE j = x
    BY <1>5, <1>11, <1>18, <2>2
  <2>3. CASE j # x
    <3>1. j \in 2 .. L /\ j \in 1 .. L
      BY <1>5, <2>3
    <3>2. \A k \in 2 .. x : k = x \/ (k \in 2 .. L /\ k \in 1 .. L)
      BY <1>5
    <3> QED BY <1>11, <1>18, <2>1, <3>1, <3>2
  <2> QED BY <2>2, <2>3
<1>20. Size(r) <= MaxNodes
  BY <1>1, <1>11
<1>21. r \in LinkedTrees
  <2> HIDE DEF Trees
  <2> QED BY <1>11, <1>17, <1>19, <1>20 DEF LinkedTrees
<1>22. Extends(r, t)
  <2>1. x >= L
    BY <1>1 DEF x
  <2> QED BY <1>11, <2>1 DEF Extends, L
<1> QED BY <1>11, <1>21, <1>22 DEF r, x, L

-------------------------------------------------------------------------------
(* Directories and their paths.  A node is found at its path, and nowhere else.  *)

LEMMA Appended ==
  ASSUME NEW S, NEW s \in Seq(S), NEW x \in S
  PROVE  /\ Append(s, x) \in Seq(S) /\ Len(s) \in Nat /\ Len(Append(s, x)) = Len(s) + 1
         /\ Append(s, x)[Len(s) + 1] = x /\ \A k \in 1 .. Len(s) : Append(s, x)[k] = s[k]
OBVIOUS

\* lookup_absolute goes name by name.
LEMMA LookRoot == ASSUME NEW t \in Trees PROVE lookup_absolute(t, Root) = 1
<1>1. Root \in Seq(Seq(Char)) /\ Len(Root) = 0
  BY DEF Root
<1>2. PICK u : IsRun(u, 0 .. Size(t), 1, Len(Root), LookSteps(t, Root))
               /\ lookup_absolute(t, Root) = u[Len(Root)]
  BY <1>1, LookRun
<1> QED BY <1>1, <1>2 DEF IsRun

LEMMA LookDown ==
  ASSUME NEW t \in Trees, NEW p \in Seq(Seq(Char)), NEW name \in Seq(Char)
  PROVE  lookup_absolute(t, Append(p, name)) = LookStep(t, lookup_absolute(t, p), name)
<1> DEFINE n == Len(p)
           q == Append(p, name)
           A == 0 .. Size(t)
<1>1. n \in Nat /\ q \in Seq(Seq(Char)) /\ Len(q) = n + 1 /\ q[n + 1] = name
      /\ \A k \in 1 .. n : q[k] = p[k]
  BY Appended
<1> HIDE DEF q
<1>2. PICK u : IsRun(u, A, 1, n, LookSteps(t, p)) /\ lookup_absolute(t, p) = u[n]
  BY LookRun
<1>3. PICK v : IsRun(v, A, 1, n + 1, LookSteps(t, q)) /\ lookup_absolute(t, q) = v[n + 1]
  BY <1>1, LookRun
<1>4. u[0] = 1 /\ v[0] = 1
  BY <1>2, <1>3 DEF IsRun
<1>5. ASSUME NEW k \in 1 .. n PROVE u[k] = LookStep(t, u[k - 1], p[k]) /\ u[k - 1] \in A
  <2>1. k - 1 \in 0 .. n
    BY <1>1
  <2> HIDE DEF A
  <2>2. u[k - 1] \in A /\ u[k] = LookSteps(t, p)[<<u[k - 1], k>>]
    BY <1>2, <2>1 DEF IsRun
  <2> DEFINE a == u[k - 1]
  <2> HIDE DEF a
  <2>3. a \in A
    BY <2>2 DEF a
  <2>4. LookSteps(t, p)[<<a, k>>] = LookStep(t, a, p[k])
    BY <2>3 DEF LookSteps, A
  <2> QED BY <2>2, <2>4 DEF a
<1>6. ASSUME NEW k \in 1 .. n + 1 PROVE v[k] = LookStep(t, v[k - 1], q[k])
  <2>1. k - 1 \in 0 .. n + 1
    BY <1>1
  <2> HIDE DEF A
  <2>2. v[k - 1] \in A /\ v[k] = LookSteps(t, q)[<<v[k - 1], k>>]
    BY <1>3, <2>1 DEF IsRun
  <2> DEFINE a == v[k - 1]
  <2> HIDE DEF a
  <2>3. a \in A
    BY <2>2 DEF a
  <2>4. LookSteps(t, q)[<<a, k>>] = LookStep(t, a, q[k])
    BY <1>1, <2>3 DEF LookSteps, A
  <2> QED BY <2>2, <2>4 DEF a
<1> HIDE DEF n
<1> DEFINE T == {k \in 0 .. n : u[k] = v[k]}
<1>7. 0 \in T /\ 0 \in 0 .. n
  BY <1>1, <1>4
<1>8. ASSUME NEW k \in 0 .. n - 1, k \in T PROVE k + 1 \in T
  <2>1. k + 1 \in 1 .. n /\ k + 1 \in 1 .. n + 1 /\ k + 1 \in 0 .. n /\ (k + 1) - 1 = k
    BY <1>1
  <2>2. u[k + 1] = LookStep(t, u[k], p[k + 1]) /\ v[k + 1] = LookStep(t, v[k], q[k + 1])
    BY <1>5, <1>6, <2>1
  <2> QED BY <1>1, <1>8, <2>1, <2>2
<1> HIDE DEF T
<1>9. n \in T
  BY <1>1, <1>7, <1>8, Reaches
<1>10. u[n] = v[n] /\ n + 1 \in 1 .. n + 1 /\ (n + 1) - 1 = n
  BY <1>1, <1>9 DEF T
<1>11. v[n + 1] = LookStep(t, v[n], name)
  BY <1>1, <1>6, <1>10
<1> QED BY <1>2, <1>3, <1>10, <1>11 DEF q

NodeFacts(t) ==
  /\ t \in Trees /\ Size(t) \in Nat \ {0}
  /\ \A j \in 2 .. Size(t) :
       /\ j \in 1 .. Size(t) /\ t.nodes[j].parent \in 1 .. Size(t)
       /\ t.nodes[j].name \in Name /\ t.nodes[j].name \in Seq(Char) /\ t.nodes[j].name # <<>>
       /\ Len(t.nodes[j].name) <= NameMax

LEMMA NodesAre == ASSUME NEW t \in LinkedTrees PROVE NodeFacts(t)
<1>1. t \in Trees /\ NamesDiffer(t)
  BY LinkedIs
<1>2. Size(t) \in Nat \ {0} /\ SoundTree(t)
  BY <1>1, TreeIs
<1>3. ASSUME NEW j \in 2 .. Size(t)
      PROVE  /\ j \in 1 .. Size(t) /\ t.nodes[j].parent \in 1 .. Size(t)
             /\ t.nodes[j].name \in Name /\ t.nodes[j].name \in Seq(Char) /\ t.nodes[j].name # <<>>
             /\ Len(t.nodes[j].name) <= NameMax
  <2>1. j \in 1 .. Size(t) /\ j # 1
    BY <1>2
  <2>2. t.nodes[j].name \in Name /\ t.nodes[j].parent \in 1 .. j - 1
    BY <1>2, <2>1 DEF SoundTree
  <2>3. t.nodes[j].name \in Seq(Char) /\ t.nodes[j].name # <<>>
    BY <2>2 DEF Name
  <2>4. t.nodes[j].parent \in 1 .. Size(t)
    BY <1>2, <2>2
  <2> QED BY <1>1, <2>1, <2>2, <2>3, <2>4 DEF NamesDiffer
<1> QED BY <1>1, <1>2, <1>3 DEF NodeFacts

LEMMA NodePath == ASSUME NEW t \in Trees, NEW j \in 1 .. Size(t) PROVE PathTo(t, j) \in Seq(Seq(Char))
BY PathType, SeqName, SeqWord

\* Every directory is found at its own path ...
LEMMA FoundAtPath ==
  ASSUME NEW t \in LinkedTrees PROVE \A j \in 1 .. Size(t) : lookup_absolute(t, PathTo(t, j)) = j
<1> DEFINE T == {j \in 1 .. Size(t) : lookup_absolute(t, PathTo(t, j)) = j}
<1>1. NodeFacts(t)
  BY NodesAre
<1>2. t \in Trees /\ 1 \in 1 .. Size(t)
  BY <1>1 DEF NodeFacts
<1>3. 1 \in T
  BY <1>2, PathIs, LookRoot
<1>4. ASSUME NEW j \in 2 .. Size(t), t.nodes[j].parent \in 1 .. Size(t), t.nodes[j].parent \in T
      PROVE  j \in T
  <2> DEFINE q == t.nodes[j].parent
             x == t.nodes[j].name
             p == PathTo(t, q)
  <2>1. q \in 1 .. Size(t) /\ q # 0 /\ x \in Seq(Char) /\ x # <<>> /\ ~(Len(x) > NameMax)
        /\ j \in 1 .. Size(t)
    <3>1. Len(x) \in Nat /\ NameMax \in Nat /\ Len(x) <= NameMax
      BY <1>1, PathFilesAssumption DEF NodeFacts
    <3>2. q # 0
      BY <1>1, <1>4 DEF NodeFacts
    <3> QED BY <1>1, <1>4, <3>1, <3>2 DEF NodeFacts
  <2>2. PathTo(t, j) = Append(p, x)
    BY <1>2, PathIs
  <2>3. lookup_absolute(t, p) = q
    BY <1>4
  <2>4. p \in Seq(Seq(Char))
    BY <1>2, <2>1, NodePath
  <2>5. find_child(t, q, x) = j
    BY <2>1, FindIs
  <2> HIDE DEF q, x, p
  <2>6. lookup_absolute(t, Append(p, x)) = LookStep(t, q, x)
    BY <1>2, <2>1, <2>3, <2>4, LookDown
  <2>7. LookStep(t, q, x) = j
    BY <2>1, <2>5 DEF LookStep
  <2> QED BY <2>1, <2>2, <2>6, <2>7
<1> HIDE DEF T
<1>5. \A j \in 1 .. Size(t) : j \in T
  BY <1>2, <1>3, <1>4, DownTree
<1> QED BY <1>5 DEF T

\* ... and what is found has the path that was looked up.
LEMMA PathOfFound ==
  ASSUME NEW t \in LinkedTrees, NEW path \in Seq(Seq(Char)), lookup_absolute(t, path) # 0
  PROVE  lookup_absolute(t, path) \in 1 .. Size(t) /\ PathTo(t, lookup_absolute(t, path)) = path
<1> DEFINE n == Len(path)
           part(k) == SubSeq(path, 1, k)
           at(k) == lookup_absolute(t, part(k))
           T == {k \in 0 .. n : at(k) # 0 => PathTo(t, at(k)) = part(k)}
<1>1. NodeFacts(t) /\ t \in Trees /\ n \in Nat /\ 0 \in 0 .. n
  BY NodesAre DEF NodeFacts
<1>2. 0 \in T
  <2>1. part(0) = Root
    BY PrefixEnds DEF Root
  <2>2. at(0) = 1 /\ PathTo(t, 1) = Root
    BY <1>1, <2>1, LookRoot, PathIs
  <2> HIDE DEF part
  <2> QED BY <1>1, <2>1, <2>2
<1>3. ASSUME NEW k \in 0 .. n - 1, k \in T PROVE k + 1 \in T
  <2> DEFINE p == part(k)
             x == path[k + 1]
             cur == at(k)
             j == at(k + 1)
  <2>1. p \in Seq(Seq(Char)) /\ x \in Seq(Char) /\ part(k + 1) = Append(p, x) /\ k + 1 \in 0 .. n
    BY PrefixMore
  <2>2. cur \in 0 .. Size(t) /\ Size(t) \in Nat
    BY <1>1, <2>1, FoundNode, TreeIs
  <2>3. j = LookStep(t, cur, x)
    BY <1>1, <2>1, LookDown
  <2>4. cur # 0 => PathTo(t, cur) = p
    BY <1>3
  <2> HIDE DEF p, x, cur, j
  <2> HIDE DEF part
  <2>5. ASSUME j # 0 PROVE PathTo(t, j) = part(k + 1)
    <3>1. cur # 0 /\ j = find_child(t, cur, x)
      BY <2>3, <2>5 DEF LookStep
    <3>2. cur \in 1 .. Size(t)
      BY <2>2, <3>1
    <3>3. j \in 2 .. Size(t) /\ t.nodes[j].parent = cur /\ t.nodes[j].name = x
      BY <2>5, <3>1, <3>2, FindIs
    <3>4. PathTo(t, j) = Append(PathTo(t, cur), x)
      BY <1>1, <3>3, PathIs
    <3> QED BY <2>1, <2>4, <3>1, <3>4
  <2>6. at(k + 1) # 0 => PathTo(t, at(k + 1)) = part(k + 1)
    BY <2>5 DEF j
  <2> HIDE DEF at
  <2> QED BY <2>1, <2>6
<1> HIDE DEF T
<1>4. n \in T
  BY <1>1, <1>2, <1>3, Reaches
<1>5. part(n) = path
  BY PrefixEnds
<1>6. lookup_absolute(t, path) \in 0 .. Size(t) /\ Size(t) \in Nat
  BY <1>1, FoundNode, TreeIs
<1>7. at(n) # 0 => PathTo(t, at(n)) = part(n)
  BY <1>4 DEF T
<1> HIDE DEF n, part
<1> QED BY <1>5, <1>6, <1>7

\* The directories of a tree.
DirsOf(t) == {PathTo(t, j) : j \in 1 .. Size(t)}

LEMMA IsDir ==
  ASSUME NEW t \in LinkedTrees, NEW path \in Seq(Seq(Char))
  PROVE  path \in DirsOf(t) <=> lookup_absolute(t, path) # 0
<1>1. ASSUME path \in DirsOf(t) PROVE lookup_absolute(t, path) # 0
  <2>1. PICK j \in 1 .. Size(t) : path = PathTo(t, j)
    BY <1>1 DEF DirsOf
  <2>2. lookup_absolute(t, path) = j /\ j # 0
    BY <2>1, FoundAtPath
  <2> QED BY <2>2
<1>2. ASSUME lookup_absolute(t, path) # 0 PROVE path \in DirsOf(t)
  BY <1>2, PathOfFound DEF DirsOf
<1> QED BY <1>1, <1>2

\* There is a node for each of them.
LEMMA FewDirs ==
  ASSUME NEW t \in LinkedTrees PROVE IsFiniteSet(DirsOf(t)) /\ Cardinality(DirsOf(t)) <= MaxNodes
<1> DEFINE L == Size(t)
           S == 1 .. L
           T == DirsOf(t)
           f == [j \in S |-> PathTo(t, j)]
<1>1. L \in Nat /\ L <= MaxNodes /\ MaxNodes \in Nat
  BY LinkedIs, TreeIs, PathFilesAssumption
<1>2. IsFiniteSet(S) /\ Cardinality(S) = L
  <2> HIDE DEF L
  <2>1. 1 \in Int /\ L \in Int
    BY <1>1
  <2>2. IsFiniteSet(S) /\ Cardinality(S) = IF 1 > L THEN 0 ELSE L - 1 + 1
    BY <2>1, FS_Interval
  <2> QED BY <1>1, <2>2
<1>3. f \in Surjection(S, T)
  BY DEF Surjection, DirsOf
<1> HIDE DEF f, S, T, L
<1>4. IsFiniteSet(T) /\ Cardinality(T) <= Cardinality(S) /\ Cardinality(T) \in Nat
  BY <1>2, <1>3, FS_Surjection, FS_CardinalityType
<1>5. Cardinality(T) <= MaxNodes
  BY <1>1, <1>2, <1>4
<1> QED BY <1>4, <1>5 DEF T

LEMMA ExtendPaths ==
  ASSUME NEW t \in LinkedTrees, NEW r \in LinkedTrees, Extends(r, t)
  PROVE  \A j \in 1 .. Size(t) : j \in 1 .. Size(r) /\ PathTo(r, j) = PathTo(t, j)
<1> DEFINE T == {j \in 1 .. Size(t) : PathTo(r, j) = PathTo(t, j)}
<1>1. NodeFacts(t) /\ NodeFacts(r)
  BY NodesAre
<1>2. t \in Trees /\ r \in Trees /\ 1 \in 1 .. Size(t) /\ Size(t) \in Nat /\ Size(r) \in Nat
  BY <1>1 DEF NodeFacts
<1>3. Size(t) <= Size(r)
  BY <1>2 DEF Extends
<1>4. 1 \in T
  BY <1>2, PathIs
<1>5. ASSUME NEW j \in 2 .. Size(t), t.nodes[j].parent \in 1 .. Size(t), t.nodes[j].parent \in T
      PROVE  j \in T
  <2>1. j \in 1 .. Size(t) /\ j \in 2 .. Size(r)
    BY <1>2, <1>3
  <2>2. r.nodes[j].name = t.nodes[j].name /\ r.nodes[j].parent = t.nodes[j].parent
    BY <2>1 DEF Extends
  <2>3. PathTo(t, j) = Append(PathTo(t, t.nodes[j].parent), t.nodes[j].name)
    BY <1>2, PathIs
  <2>4. PathTo(r, j) = Append(PathTo(r, r.nodes[j].parent), r.nodes[j].name)
    BY <1>2, <2>1, PathIs
  <2>5. PathTo(r, t.nodes[j].parent) = PathTo(t, t.nodes[j].parent)
    BY <1>5
  <2> QED BY <2>1, <2>2, <2>3, <2>4, <2>5
<1> HIDE DEF T
<1>6. \A j \in 1 .. Size(t) : j \in T
  BY <1>2, <1>4, <1>5, DownTree
<1> QED BY <1>2, <1>3, <1>6 DEF T

\* The directories of a tree with a new node.
LEMMA AddDirs ==
  ASSUME NEW t \in LinkedTrees, NEW r \in LinkedTrees, Extends(r, t), Size(r) = Size(t) + 1,
         NEW i \in 1 .. Size(t), r.nodes[Size(t) + 1].parent = i
  PROVE  DirsOf(r) = DirsOf(t) \cup {Append(PathTo(t, i), r.nodes[Size(t) + 1].name)}
<1> DEFINE x == Size(t) + 1
<1>1. r \in Trees /\ Size(t) \in Nat \ {0}
  BY NodesAre DEF NodeFacts
<1>2. x \in 2 .. Size(r) /\ \A j \in 1 .. Size(r) : j \in 1 .. Size(t) \/ j = x
  BY <1>1
<1>3. \A j \in 1 .. Size(t) : j \in 1 .. Size(r) /\ PathTo(r, j) = PathTo(t, j)
  BY ExtendPaths
<1>4. PathTo(r, x) = Append(PathTo(r, r.nodes[x].parent), r.nodes[x].name)
  BY <1>1, <1>2, PathIs
<1>5. PathTo(r, x) = Append(PathTo(t, i), r.nodes[x].name)
  BY <1>3, <1>4
<1>6. x \in 1 .. Size(r)
  BY <1>1
<1> HIDE DEF x
<1>7. DirsOf(r) = DirsOf(t) \cup {PathTo(r, x)}
  BY <1>2, <1>3, <1>6 DEF DirsOf
<1> QED BY <1>5, <1>7 DEF x

-------------------------------------------------------------------------------
(* mkdir_internal goes where lookup_absolute goes, and makes at most one node.   *)

\* The loop of mkdir_internal has gone where lookup_absolute has: to the node j, or
\* to none.
Walks(s, t, j) == s.tree = t /\ (s.ok <=> j # 0) /\ (j # 0 => s.cur = j)

\* It goes there up to the last name, and with create_parents as long as there are nodes.
Goes(create, k, n, j) == (~create /\ k < n) \/ (create /\ j # 0)

LEMMA MakeOneWalks ==
  ASSUME NEW t \in LinkedTrees, NEW path \in Seq(Name), NEW k \in 1 .. Len(path), NEW s \in MakeState,
         NEW create \in BOOLEAN, NEW j \in 0 .. Size(t), Walks(s, t, j),
         Goes(create, k, Len(path), LookStep(t, j, path[k]))
  PROVE  Walks(MakeOne(s, path, k, create), t, LookStep(t, j, path[k]))
<1> DEFINE x == path[k]
           to == MakeOne(s, path, k, create)
           child == find_child(t, j, x)
           next == LookStep(t, j, x)
           last == k = Len(path)
           refused ==
             \/ Len(x) > NameMax
             \/ child # 0 /\ last /\ ~create
             \/ child = 0 /\ ~last /\ ~create
             \/ child = 0 /\ Len(t.nodes) >= MaxNodes
<1>1. s \in [tree : Trees, cur : Nat, ok : BOOLEAN]
  BY DEF MakeState
<1>2. x # <<>>
  <2>1. x \in Name
    OBVIOUS
  <2> QED BY <2>1 DEF Name
<1>3. s.tree = t /\ (s.ok <=> j # 0) /\ (j # 0 => s.cur = j)
  BY DEF Walks
<1>4. Goes(create, k, Len(path), next)
  OBVIOUS
<1>5. CASE j = 0
  <2>1. to = s
    BY <1>3, <1>5 DEF MakeOne, MakeStep
  <2>2. next = 0
    BY <1>5 DEF LookStep
  <2> HIDE DEF to, next
  <2>3. Walks(to, t, next)
    BY <1>3, <1>5, <2>1, <2>2 DEF Walks
  <2> QED BY <2>3 DEF to, next, x
<1>6. CASE j # 0
  <2>1. to = IF refused THEN [s EXCEPT !.ok = FALSE]
             ELSE IF child # 0 THEN [s EXCEPT !.cur = child]
             ELSE [s EXCEPT !.tree = AddNode(@, s.cur, x), !.cur = Len(s.tree.nodes) + 1]
    BY <1>3, <1>6 DEF MakeOne, MakeStep
  <2>2. next = IF Len(x) > NameMax THEN 0 ELSE child
    BY <1>2, <1>6 DEF LookStep
  <2>3. Len(path) \in Nat
    OBVIOUS
  <2>4. CASE next = 0
    <3>1. ~create /\ ~last
      <4> HIDE DEF next
      <4> QED BY <1>4, <2>3, <2>4 DEF Goes
    <3>2. refused
      <4> HIDE DEF x, child, last
      <4> QED BY <2>2, <2>4, <3>1
    <3>3. to = [s EXCEPT !.ok = FALSE]
      <4> HIDE DEF refused, child, x
      <4> QED BY <2>1, <3>2
    <3> HIDE DEF to, next
    <3>4. Walks(to, t, next)
      BY <1>1, <1>3, <2>4, <3>3 DEF Walks
    <3> QED BY <3>4 DEF to, next, x
  <2>5. CASE next # 0
    <3>1. ~(Len(x) > NameMax) /\ child # 0 /\ next = child
      <4> HIDE DEF x, child
      <4> QED BY <2>2, <2>5
    <3>2. create \/ ~last
      <4> HIDE DEF next
      <4> QED BY <1>4, <2>3 DEF Goes
    <3>3. ~refused
      <4> HIDE DEF x, child, last
      <4> QED BY <3>1, <3>2
    <3>4. to = [s EXCEPT !.cur = child]
      <4> HIDE DEF refused, child, x
      <4> QED BY <2>1, <3>1, <3>3
    <3> HIDE DEF to, next, child
    <3>5. Walks(to, t, next)
      BY <1>1, <1>3, <1>6, <2>5, <3>1, <3>4 DEF Walks
    <3> QED BY <3>5 DEF to, next, x
  <2> QED BY <2>4, <2>5
<1> QED BY <1>5, <1>6

LEMMA MakeWalks ==
  ASSUME NEW t \in LinkedTrees, NEW path \in Seq(Name), NEW create \in BOOLEAN, NEW u,
         IsRun(u, MakeState, MakeStart(t), Len(path), MakeSteps(path, create)),
         NEW m \in 0 .. Len(path), Goes(create, m, Len(path), lookup_absolute(t, SubSeq(path, 1, m)))
  PROVE  Walks(u[m], t, lookup_absolute(t, SubSeq(path, 1, m)))
<1> DEFINE n == Len(path)
           part(k) == SubSeq(path, 1, k)
           at(k) == lookup_absolute(t, part(k))
           T == {k \in 0 .. m : Goes(create, k, n, at(k)) => Walks(u[k], t, at(k))}
<1>1. t \in Trees /\ path \in Seq(Seq(Char)) /\ n \in Nat /\ m \in Nat /\ 0 \in 0 .. m /\ m <= n
  BY NodesAre, SeqName, SeqWord DEF NodeFacts
<1>2. /\ u \in [0 .. n -> MakeState] /\ u[0] = MakeStart(t)
      /\ \A k \in 1 .. n : u[k] = MakeSteps(path, create)[<<u[k - 1], k>>]
  BY DEF IsRun
<1>3. 0 \in T
  <2>1. part(0) = Root
    BY PrefixEnds DEF Root
  <2>2. at(0) = 1
    BY <1>1, <2>1, LookRoot
  <2>3. Walks(u[0], t, 1)
    BY <1>2 DEF Walks, MakeStart
  <2> HIDE DEF at
  <2> QED BY <1>1, <2>2, <2>3
<1>4. ASSUME NEW k \in 0 .. m - 1, k \in T PROVE k + 1 \in T
  <2> DEFINE j == at(k)
             x == path[k + 1]
  <2>0. k \in 0 .. n - 1 /\ k + 1 \in 0 .. m /\ k + 1 \in 1 .. n /\ (k + 1) - 1 = k /\ k \in 0 .. n
    BY <1>1
  <2>1. part(k) \in Seq(Seq(Char)) /\ x \in Seq(Char) /\ part(k + 1) = Append(part(k), x)
    BY <1>1, <2>0, PrefixMore
  <2>2. at(k + 1) = LookStep(t, j, x)
    BY <1>1, <2>1, LookDown
  <2>3. j \in 0 .. Size(t)
    BY <1>1, <2>1, FoundNode
  <2>4. u[k] \in MakeState /\ u[k + 1] = MakeOne(u[k], path, k + 1, create)
    <3>1. u[k] \in MakeState /\ u[k + 1] = MakeSteps(path, create)[<<u[k], k + 1>>]
      BY <1>2, <2>0
    <3>2. MakeSteps(path, create)[<<u[k], k + 1>>] = MakeOne(u[k], path, k + 1, create)
      <4> HIDE DEF n
      <4> QED BY <2>0, <3>1 DEF MakeSteps, n
    <3> QED BY <3>1, <3>2
  <2>5. Goes(create, k, n, j) => Walks(u[k], t, j)
    BY <1>4
  <2> HIDE DEF at
  <2>6. ASSUME Goes(create, k + 1, n, at(k + 1)) PROVE Walks(u[k + 1], t, at(k + 1))
    <3>1. Goes(create, k, n, j)
      <4>1. at(k + 1) # 0 => j # 0
        BY <2>2 DEF LookStep
      <4> HIDE DEF j
      <4> QED BY <1>1, <2>0, <2>6, <4>1 DEF Goes
    <3>2. Walks(u[k], t, j)
      BY <2>5, <3>1
    <3> HIDE DEF j, x
    <3>3. Walks(MakeOne(u[k], path, k + 1, create), t, LookStep(t, j, path[k + 1]))
      BY <2>0, <2>2, <2>3, <2>4, <2>6, <3>2, MakeOneWalks DEF x
    <3> QED BY <2>2, <2>4, <3>3 DEF x
  <2> QED BY <2>0, <2>6
<1> HIDE DEF T
<1>5. m \in T
  BY <1>1, <1>3, <1>4, Reaches
<1> QED BY <1>5 DEF T

LEMMA FrontIs ==
  ASSUME NEW S, NEW s \in Seq(S), s # <<>>
  PROVE  /\ Len(s) \in Nat /\ Len(s) >= 1 /\ Len(s) - 1 \in 0 .. Len(s) - 1 /\ Len(s) - 1 \in 0 .. Len(s)
         /\ Front(s) = SubSeq(s, 1, Len(s) - 1) /\ Last(s) = s[Len(s)] /\ Last(s) \in S
            /\ Front(s) \in Seq(S)
         /\ s = Append(Front(s), Last(s)) /\ SubSeq(s, 1, Len(s)) = s
BY DEF Front, Last

LEMMA MadeIs == ASSUME NEW w, NEW a, NEW b, w = [tree |-> a, ok |-> b] PROVE w.tree = a /\ w.ok = b
OBVIOUS

\* A directory is made at path.
OneMade(t, r, path) ==
  /\ r \in LinkedTrees /\ r.cwd = t.cwd /\ Extends(r, t) /\ Size(r) = Size(t) + 1
  /\ path \in Seq(Name) /\ path # Root /\ Len(Last(path)) <= NameMax
  /\ Front(path) \in DirsOf(t) /\ DirsOf(r) = DirsOf(t) \cup {path}

CanBeMade(t, path) ==
  path \in Seq(Name) /\ path # Root /\ Len(Last(path)) <= NameMax /\ Front(path) \in DirsOf(t)
  /\ Size(t) < MaxNodes

\* mkdir without create_parents makes at most one directory, and one that can be made is there.
LEMMA MkdirIs ==
  ASSUME NEW t \in LinkedTrees, NEW path \in Seq(Name) \cup {NoPath}, NEW create \in BOOLEAN, ~create
  PROVE  LET r == mkdir_internal(t, path, create).tree
         IN  /\ r = t \/ OneMade(t, r, path)
             /\ CanBeMade(t, path) => path \in DirsOf(r)
<1> DEFINE r == mkdir_internal(t, path, create).tree
           Goal == (r = t \/ OneMade(t, r, path)) /\ (CanBeMade(t, path) => path \in DirsOf(r))
<1>1. CASE path \in {Root, NoPath}
  <2>1. mkdir_internal(t, path, create) = [tree |-> t, ok |-> FALSE]
    BY <1>1 DEF mkdir_internal
  <2>2. r = t
    BY <2>1
  <2>3. ~CanBeMade(t, path)
    <3>1. NoPath \notin Seq(Name)
      <4>1. <<>> \notin Name
        BY DEF Name
      <4> HIDE DEF Name
      <4> QED BY <4>1 DEF NoPath
    <3> QED BY <1>1, <3>1 DEF CanBeMade
  <2> HIDE DEF r
  <2>4. Goal
    BY <2>2, <2>3
  <2> QED BY <2>4 DEF r
<1>2. CASE path \notin {Root, NoPath}
  <2> DEFINE n == Len(path)
             f == Front(path)
             x == Last(path)
             j == lookup_absolute(t, f)
  <2>1. mkdir_internal(t, path, create) = [tree |-> Made(t, path, create).tree, ok |-> Made(t, path, create).ok]
    BY <1>2, Zenon DEF mkdir_internal, Made, MakeOne, MakeStart
  <2>2. path \in Seq(Name) /\ path # <<>> /\ path # Root /\ t \in Trees
    BY <1>2, LinkedIs DEF Root
  <2>3. /\ n \in Nat /\ n >= 1 /\ n - 1 \in 0 .. n /\ n \in 1 .. n /\ f = SubSeq(path, 1, n - 1)
        /\ x = path[n] /\ x \in Name /\ f \in Seq(Name) /\ path = Append(f, x)
    <3>1. /\ n \in Nat /\ n >= 1 /\ n - 1 \in 0 .. n /\ f = SubSeq(path, 1, n - 1)
          /\ x = path[n] /\ x \in Name /\ f \in Seq(Name) /\ path = Append(f, x)
      BY <2>2, FrontIs
    <3> HIDE DEF n
    <3>2. n \in 1 .. n
      BY <3>1
    <3> QED BY <3>1, <3>2
  <2>4. f \in Seq(Seq(Char))
    BY <2>3, SeqName, SeqWord
  <2>5. j \in 0 .. Size(t) /\ Size(t) \in Nat
    BY <2>2, <2>4, FoundNode, TreeIs
  <2>6. PICK u : IsRun(u, MakeState, MakeStart(t), n, MakeSteps(path, create))
        /\ Made(t, path, create) = u[n]
    BY <2>2, MakeRun
  <2> DEFINE s == u[n - 1]
  <2>7. s \in MakeState /\ u[n] = MakeOne(s, path, n, create)
    <3>1. u \in [0 .. n -> MakeState] /\ u[n] = MakeSteps(path, create)[<<u[n - 1], n>>]
      BY <2>3, <2>6 DEF IsRun
    <3>2. s \in MakeState
      BY <2>3, <3>1
    <3>3. MakeSteps(path, create)[<<s, n>>] = MakeOne(s, path, n, create)
      BY <2>3, <3>2 DEF MakeSteps
    <3> QED BY <3>1, <3>2, <3>3
  <2>8. Walks(s, t, j)
    <3>1. Goes(create, n - 1, n, lookup_absolute(t, SubSeq(path, 1, n - 1)))
      BY <2>3 DEF Goes
    <3>2. Walks(u[n - 1], t, lookup_absolute(t, SubSeq(path, 1, n - 1)))
      BY <2>2, <2>3, <2>6, <3>1, MakeWalks
    <3> QED BY <2>3, <3>2
  <2>9. r = MakeOne(s, path, n, create).tree
    BY <2>1, <2>6, <2>7
  <2> DEFINE child == find_child(t, j, x)
             adds == ~(Len(x) > NameMax) /\ child = 0 /\ ~(Len(t.nodes) >= MaxNodes)
  <2>10. s \in [tree : Trees, cur : Nat, ok : BOOLEAN]
    BY <2>7 DEF MakeState
  <2>11. Len(x) \in Nat /\ NameMax \in Nat /\ MaxNodes \in Nat /\ Len(t.nodes) = Size(t)
    <3>1. x \in Seq(Char)
      BY <2>3 DEF Name
    <3> HIDE DEF x
    <3> QED BY <3>1, PathFilesAssumption DEF Size
  <2>12. j # 0 => j \in 1 .. Size(t) /\ PathTo(t, j) = f /\ f \in DirsOf(t)
    <3> SUFFICES ASSUME j # 0 PROVE j \in 1 .. Size(t) /\ PathTo(t, j) = f /\ f \in DirsOf(t)
      OBVIOUS
    <3>1. j \in 1 .. Size(t) /\ PathTo(t, j) = f
      BY <2>4, PathOfFound
    <3> HIDE DEF j, f
    <3> QED BY <3>1 DEF DirsOf
  <2>13. f \in DirsOf(t) => j # 0
    BY <2>4, IsDir
  <2>14. r = IF j # 0 /\ adds THEN AddNode(t, j, x) ELSE t
    <3>1. s.tree = t /\ (s.ok <=> j # 0) /\ (j # 0 => s.cur = j)
      BY <2>8 DEF Walks
    <3> DEFINE to == MakeOne(s, path, n, create)
    <3> HIDE DEF j
    <3>2. CASE j = 0
      <4>1. to = s
        BY <3>1, <3>2 DEF MakeOne, MakeStep
      <4> QED BY <2>9, <3>1, <3>2, <4>1
    <3>3. CASE j # 0
      <4> DEFINE refused == Len(x) > NameMax \/ child # 0 \/ (child = 0 /\ Len(t.nodes) >= MaxNodes)
      <4>1. to = IF refused THEN [s EXCEPT !.ok = FALSE]
                 ELSE IF child # 0 THEN [s EXCEPT !.cur = child]
                 ELSE [s EXCEPT !.tree = AddNode(@, s.cur, x), !.cur = Len(s.tree.nodes) + 1]
        <5>1. path[n] = x /\ n = Len(path)
          BY <2>3
        <5> DEFINE last == n = Len(path)
                   any == \/ Len(x) > NameMax
                          \/ child # 0 /\ last /\ ~create
                          \/ child = 0 /\ ~last /\ ~create
                          \/ child = 0 /\ Len(t.nodes) >= MaxNodes
        <5> HIDE DEF x, n
        <5>2. to = IF any THEN [s EXCEPT !.ok = FALSE]
                   ELSE IF child # 0 THEN [s EXCEPT !.cur = child]
                   ELSE [s EXCEPT !.tree = AddNode(@, s.cur, x), !.cur = Len(s.tree.nodes) + 1]
          BY <3>1, <3>3, <5>1 DEF MakeOne, MakeStep
        <5> HIDE DEF child
        <5>3. any <=> refused
          BY <5>1
        <5> QED BY <5>2, <5>3
      <4>2. CASE adds
        <5>1. ~refused /\ child = 0
          BY <4>2
        <5> HIDE DEF adds, refused, child, x, to
        <5>2. to = [s EXCEPT !.tree = AddNode(@, s.cur, x), !.cur = Len(s.tree.nodes) + 1]
          BY <4>1, <5>1
        <5>3. to.tree = AddNode(s.tree, s.cur, x)
          BY <2>10, <5>2
        <5> QED BY <2>9, <3>1, <3>3, <4>2, <5>3 DEF to
      <4>3. CASE ~adds
        <5> HIDE DEF x, child
        <5>1. refused
          BY <4>3
        <5> HIDE DEF adds, refused, child, x, to
        <5>2. to = [s EXCEPT !.ok = FALSE]
          BY <4>1, <5>1
        <5>3. to.tree = s.tree
          BY <2>10, <5>2
        <5> QED BY <2>9, <3>1, <3>3, <4>3, <5>3 DEF to
      <4> QED BY <4>2, <4>3
    <3> QED BY <3>2, <3>3
  <2>15. CASE j # 0 /\ adds
    <3>1. j \in 1 .. Size(t) /\ x \in Name /\ Len(x) <= NameMax /\ Size(t) < MaxNodes
          /\ find_child(t, j, x) = 0
      <4>1. Len(x) <= NameMax /\ Size(t) < MaxNodes /\ find_child(t, j, x) = 0
        <5> HIDE DEF x, j
        <5> QED BY <2>5, <2>11, <2>15
      <4> QED BY <2>3, <2>12, <2>15, <4>1
    <3>2. r = AddNode(t, j, x)
      <4> HIDE DEF adds, r
      <4> QED BY <2>14, <2>15
    <3> HIDE DEF adds, j, x, f
    <3> HIDE DEF r
    <3>3. /\ r \in LinkedTrees /\ Size(r) = Size(t) + 1 /\ Extends(r, t)
          /\ r.nodes[Size(t) + 1].name = x /\ r.nodes[Size(t) + 1].parent = j
      BY <3>1, <3>2, AddLinked
    <3>4. DirsOf(r) = DirsOf(t) \cup {Append(PathTo(t, j), x)}
      BY <3>1, <3>3, AddDirs
    <3>5. r.cwd = t.cwd
      BY <3>3 DEF Extends
    <3>6. DirsOf(r) = DirsOf(t) \cup {path} /\ f \in DirsOf(t)
      BY <2>3, <2>12, <2>15, <3>4
    <3>7. OneMade(t, r, path)
      BY <2>2, <3>1, <3>3, <3>5, <3>6 DEF OneMade, f, x
    <3>8. Goal
      BY <3>6, <3>7
    <3> QED BY <3>8 DEF r
  <2>16. CASE ~(j # 0 /\ adds)
    <3>1. r = t
      <4> HIDE DEF adds, r
      <4> QED BY <2>14, <2>16
    <3>2. ASSUME CanBeMade(t, path) PROVE path \in DirsOf(t)
      <4>1. f \in DirsOf(t) /\ Len(x) <= NameMax /\ Size(t) < MaxNodes
        BY <3>2 DEF CanBeMade
      <4>2. j # 0 /\ ~adds
        <5> HIDE DEF adds
        <5> QED BY <2>13, <2>16, <4>1
      <4>3. child # 0
        <5> HIDE DEF child, x, j
        <5> QED BY <2>5, <2>11, <4>1, <4>2
      <4>4. child \in 2 .. Size(t) /\ t.nodes[child].parent = j /\ t.nodes[child].name = x
        BY <2>12, <4>2, <4>3, FindIs
      <4> HIDE DEF child, j, x, f
      <4>5. PathTo(t, child) = Append(PathTo(t, j), x)
        BY <2>2, <4>4, PathIs
      <4>6. child \in 1 .. Size(t) /\ PathTo(t, child) = path
        <5>1. child \in 1 .. Size(t)
          BY <2>5, <4>4
        <5>2. PathTo(t, j) = f
          BY <2>12, <4>2
        <5> QED BY <2>3, <4>5, <5>1, <5>2
      <4> QED BY <4>6 DEF DirsOf
    <3> HIDE DEF r
    <3>3. Goal
      BY <3>1, <3>2
    <3> QED BY <3>3 DEF r
  <2> QED BY <2>15, <2>16
<1> QED BY <1>1, <1>2

\* mkdir with create_parents leaves a directory that is there as it is.
LEMMA MkdirPIs ==
  ASSUME NEW t \in LinkedTrees, NEW path \in Seq(Name), path \in DirsOf(t), NEW create \in BOOLEAN, create
  PROVE  mkdir_internal(t, path, create).tree = t
<1> DEFINE r == mkdir_internal(t, path, create).tree
           n == Len(path)
<1>1. CASE path \in {Root, NoPath}
  <2>1. mkdir_internal(t, path, create) = [tree |-> t, ok |-> FALSE]
    BY <1>1 DEF mkdir_internal
  <2> QED BY <2>1, MadeIs
<1>2. CASE path \notin {Root, NoPath}
  <2>1. mkdir_internal(t, path, create) = [tree |-> Made(t, path, create).tree, ok |-> Made(t, path, create).ok]
    BY <1>2, Zenon DEF mkdir_internal, Made, MakeOne, MakeStart
  <2>2. PICK u : IsRun(u, MakeState, MakeStart(t), n, MakeSteps(path, create))
        /\ Made(t, path, create) = u[n]
    BY LinkedIs, MakeRun
  <2>3. lookup_absolute(t, path) # 0
    BY SeqName, SeqWord, IsDir
  <2>4. n \in 0 .. n /\ SubSeq(path, 1, n) = path
    BY PrefixEnds
  <2>5. Goes(create, n, n, lookup_absolute(t, SubSeq(path, 1, n)))
    BY <2>3, <2>4 DEF Goes
  <2>6. Walks(u[n], t, lookup_absolute(t, SubSeq(path, 1, n)))
    BY <2>2, <2>4, <2>5, MakeWalks
  <2>7. mkdir_internal(t, path, create).tree = u[n].tree
    BY <2>1, <2>2, MadeIs
  <2> QED BY <2>6, <2>7 DEF Walks
<1> QED BY <1>1, <1>2

-------------------------------------------------------------------------------
(* The tree of ensure_initialized *)

MakeAll(paths, create) ==
  [p \in Trees \X (1 .. Len(paths)) |-> mkdir_internal(p[1], paths[p[2]], create).tree]

AllMade(t, paths, create) == FoldLeft(LAMBDA a, p : mkdir_internal(a, p, create).tree, t, paths)

LEMMA MakeAllRun ==
  ASSUME NEW t \in Trees, NEW paths \in Seq(Seq(Name)), NEW create \in BOOLEAN
  PROVE  \E u : IsRun(u, Trees, t, Len(paths), MakeAll(paths, create))
                /\ AllMade(t, paths, create) = u[Len(paths)]
<1> DEFINE n == Len(paths)
           A == Trees
           G == MakeAll(paths, create)
           b == t
           f == paths
           P(g) == g = [q \in SUBSET DOMAIN f |->
                          IF q = {} THEN b ELSE mkdir_internal(g[q \ {Max(q)}], f[Max(q)], create).tree]
           W == CHOOSE g : P(g)
<1>1. AllMade(t, paths, create) = W[DOMAIN f]
  BY Zenon DEF AllMade, FoldLeft, MapThenFoldSet
<1>2. n \in Nat /\ DOMAIN f = 1 .. n
  OBVIOUS
<1>3. b \in A
  OBVIOUS
<1>4. G \in [A \X (1 .. n) -> A]
      /\ \A a \in A, k \in 1 .. n : G[<<a, k>>] = mkdir_internal(a, f[k], create).tree
  <2>1. \A a \in A, k \in 1 .. n : mkdir_internal(a, f[k], create).tree \in A
    BY MadeSound
  <2>2. G = [p \in A \X (1 .. n) |-> mkdir_internal(p[1], f[p[2]], create).tree]
    BY DEF MakeAll
  <2> HIDE DEF A, n, G, f
  <2> QED BY <2>1, <2>2
<1> HIDE DEF A, n, G, f, b
<1>5. \A q \in SUBSET (1 .. n) : q # {} => Max(q) \in 1 .. n
  BY <1>2, MaxIs
<1>6. \E g : P(g)
  <2>0. PICK g : IsFold(g, A, b, n, G)
    BY <1>2, <1>3, <1>4, FoldExists
  <2>1. g \in [SUBSET (1 .. n) -> A] /\ \A q \in SUBSET (1 .. n) :
          g[q] = IF q = {} THEN b ELSE G[<<g[q \ {Max(q)}], Max(q)>>]
    BY <2>0 DEF IsFold
  <2>2. ASSUME NEW q \in SUBSET (1 .. n)
        PROVE  g[q] = IF q = {} THEN b ELSE mkdir_internal(g[q \ {Max(q)}], f[Max(q)], create).tree
    <3>1. CASE q # {}
      <4>1. Max(q) \in 1 .. n /\ g[q \ {Max(q)}] \in A
        BY <1>5, <2>1, <3>1
      <4> QED BY <1>4, <2>1, <3>1, <4>1
    <3> QED BY <2>1, <3>1
  <2>3. g = [q \in SUBSET (1 .. n) |-> g[q]]
    BY <2>1
  <2>4. P(g)
    BY <1>2, <2>2, <2>3
  <2> QED BY <2>4
<1>7. P(W)
  BY <1>6
<1> HIDE DEF W
<1>8. FoldsBy(W, A, b, n, G)
  <2>1. \A q \in SUBSET (1 .. n) :
          W[q] = IF q = {} THEN b ELSE mkdir_internal(W[q \ {Max(q)}], f[Max(q)], create).tree
    BY <1>2, <1>7
  <2>2. {} \in SUBSET (1 .. n)
    OBVIOUS
  <2>3. W[{}] = b
    BY <2>1, <2>2
  <2>4. ASSUME NEW q \in SUBSET (1 .. n), q # {}, W[q \ {Max(q)}] \in A
        PROVE  W[q] = G[<<W[q \ {Max(q)}], Max(q)>>]
    <3> DEFINE m == Max(q)
    <3>1. m \in 1 .. n
      BY <1>5, <2>4
    <3>2. W[q] = mkdir_internal(W[q \ {m}], f[m], create).tree /\ W[q \ {m}] \in A
      BY <2>1, <2>4
    <3> HIDE DEF m
    <3>3. W[q] = G[<<W[q \ {m}], m>>]
      BY <1>4, <3>1, <3>2
    <3> QED BY <3>3 DEF m
  <2> QED BY <2>3, <2>4 DEF FoldsBy
<1>9. PICK u : RunsTo(u, W, A, b, n, G)
  BY <1>2, <1>3, <1>4, <1>8, FoldRun
<1> QED BY <1>1, <1>2, <1>9 DEF A, n, G, b, RunsTo

\* SetToSeq of a finite set is a sequence of its members.
LEMMA Listed ==
  ASSUME NEW S, IsFiniteSet(S) PROVE SetToSeq(S) \in Seq(S)
<1> DEFINE n == Cardinality(S)
<1>1. n \in Nat /\ ExistsBijection(1 .. n, S)
  BY FS_CardinalityType
<1>2. \E f \in [1 .. n -> S] : IsInjective(f)
  BY <1>1 DEF ExistsBijection, Bijection, Injection
<1>3. \E f \in [1 .. n -> S] : IsInjective(f)
  BY <1>2
<1>4. SetToSeq(S) \in [1 .. n -> S]
  BY <1>3 DEF SetToSeq
<1> QED BY <1>1, <1>4

LEMMA FirstTree == fs_dir_init \in Trees
<1> DEFINE root == [name |-> <<>>, parent |-> 0, first |-> 0, next |-> 0]
           nodes == <<root>>
           t == [nodes |-> nodes, cwd |-> 1]
<1>1. fs_dir_init = t
  BY DEF fs_dir_init
<1>2. root \in Node /\ root.first = 0 /\ root.next = 0
  BY DEF Node
<1> HIDE DEF root
<1>3. nodes \in Seq(Node) /\ Len(nodes) = 1 /\ nodes[1] = root
  <2> HIDE DEF Node
  <2> QED BY <1>2
<1> HIDE DEF nodes
<1>4. t \in [nodes : Seq(Node), cwd : Nat] /\ t.nodes = nodes /\ t.cwd = 1
  <2> HIDE DEF Node
  <2> QED BY <1>3
<1> HIDE DEF t
<1>5. Size(t) = 1
  BY <1>3, <1>4 DEF Size
<1>6. SoundTree(t)
  <2>1. \A i \in 1 .. 1 : i = 1
    OBVIOUS
  <2> QED BY <1>2, <1>3, <1>4, <1>5, <2>1 DEF SoundTree
<1> QED BY <1>1, <1>4, <1>6 DEF Trees

LEMMA FirstLinked ==
  /\ fs_dir_init \in LinkedTrees /\ fs_dir_init.cwd = 1 /\ Size(fs_dir_init) = 1
  /\ DirsOf(fs_dir_init) = {Root}
<1> DEFINE root == [name |-> <<>>, parent |-> 0, first |-> 0, next |-> 0]
           nodes == <<root>>
           t == [nodes |-> nodes, cwd |-> 1]
           ch == [i \in {1} |-> <<>>]
<1>1. fs_dir_init = t
  BY DEF fs_dir_init
<1>2. Size(t) = 1 /\ t.nodes[1].first = 0 /\ t.cwd = 1
  BY DEF Size
<1>3. t \in Trees
  BY <1>1, FirstTree
<1>4. (2 .. 1) = {} /\ \A j \in 1 .. 1 : j = 1
  OBVIOUS
<1> HIDE DEF t
<1>5. HasLists(t, ch)
  <2>1. ch[1] = <<>>
    OBVIOUS
  <2>2. <<>> \in Seq(2 .. Size(t)) /\ Len(<<>>) = 0 /\ (1 .. 0) = {}
    OBVIOUS
  <2>3. Nth(<<>>, 1) = 0
    BY <2>2 DEF Nth
  <2> HIDE DEF ch
  <2>4. IsList(t, 1, ch[1])
    BY <1>2, <2>1, <2>2, <2>3 DEF IsList
  <2> QED BY <1>2, <1>4, <2>4 DEF HasLists
<1>6. NamesDiffer(t)
  BY <1>2, <1>4 DEF NamesDiffer
<1>7. Size(t) <= MaxNodes
  BY <1>2, PathFilesAssumption
<1>8. t \in LinkedTrees
  <2> HIDE DEF ch
  <2> QED BY <1>3, <1>5, <1>6, <1>7 DEF LinkedTrees
<1>9. DirsOf(t) = {Root}
  <2>1. PathTo(t, 1) = Root
    BY <1>3, PathIs
  <2>2. 1 \in 1 .. 1
    OBVIOUS
  <2> QED BY <1>2, <1>4, <2>1, <2>2 DEF DirsOf
<1> QED BY <1>1, <1>2, <1>8, <1>9

\* After the first k directories that ensure_initialized makes.
SeededTo(t, k) ==
  t \in LinkedTrees /\ t.cwd = 1 /\ Size(t) <= k + 1
  /\ DirsOf(t) = {Root} \cup {SeedDirs[m] : m \in 1 .. k}

LEMMA SeedStep ==
  ASSUME NEW k \in 0 .. Len(SeedDirs) - 1, NEW t, SeededTo(t, k), NEW create \in BOOLEAN, ~create
  PROVE  SeededTo(mkdir_internal(t, SeedDirs[k + 1], create).tree, k + 1)
<1> DEFINE path == SeedDirs[k + 1]
           r == mkdir_internal(t, path, create).tree
           D(n) == {SeedDirs[m] : m \in 1 .. n}
<1>1. /\ Len(SeedDirs) \in Nat /\ Len(SeedDirs) < MaxNodes /\ MaxNodes \in Nat /\ k \in Nat
      /\ SeedDirs \in Seq(Seq(Name)) /\ k + 1 \in DOMAIN SeedDirs /\ k + 1 \in 1 .. Len(SeedDirs)
  BY PathFilesAssumption
<1>2. path \in Seq(Name)
  BY <1>1
<1>3. path # Root /\ Front(path) \in {Root} \cup D(k) /\ Len(Last(path)) <= NameMax
  <2>1. path \in Range(SeedDirs)
    BY <1>1 DEF Range
  <2>2. path # Root
    BY <2>1, PathFilesAssumption
  <2>3. Front(path) \in {Root} \cup {SeedDirs[m] : m \in 1 .. (k + 1) - 1} /\ Len(Last(path)) <= NameMax
    BY <1>1, PathFilesAssumption
  <2>4. (k + 1) - 1 = k
    BY <1>1
  <2> QED BY <2>2, <2>3, <2>4
<1>4. t \in LinkedTrees /\ t.cwd = 1 /\ Size(t) <= k + 1 /\ DirsOf(t) = {Root} \cup D(k)
      /\ Size(t) \in Nat
  <2>1. t \in LinkedTrees /\ t.cwd = 1 /\ Size(t) <= k + 1 /\ DirsOf(t) = {Root} \cup D(k)
    BY DEF SeededTo
  <2> QED BY <2>1, NodesAre DEF NodeFacts
<1>5. D(k + 1) = D(k) \cup {path}
  <2>1. \A m \in 1 .. k + 1 : m \in 1 .. k \/ m = k + 1
    BY <1>1
  <2>2. 1 .. k \subseteq 1 .. k + 1 /\ k + 1 \in 1 .. k + 1
    BY <1>1
  <2> QED BY <2>1, <2>2
<1> HIDE DEF path, r, D
<1>6. CanBeMade(t, path)
  <2>1. Size(t) < MaxNodes
    BY <1>1, <1>4
  <2> QED BY <1>2, <1>3, <1>4, <2>1 DEF CanBeMade
<1>7. (r = t \/ OneMade(t, r, path)) /\ path \in DirsOf(r)
  BY <1>2, <1>4, <1>6, MkdirIs DEF r
<1>8. SeededTo(r, k + 1)
  <2>1. CASE r = t
    <3>1. Size(r) <= (k + 1) + 1
      BY <1>1, <1>4, <2>1
    <3>2. DirsOf(r) = {Root} \cup D(k + 1)
      BY <1>4, <1>5, <1>7, <2>1
    <3> QED BY <1>4, <2>1, <3>1, <3>2 DEF SeededTo, D
  <2>2. CASE OneMade(t, r, path)
    <3>0. r \in LinkedTrees /\ r.cwd = t.cwd /\ Size(r) = Size(t) + 1 /\ DirsOf(r) = DirsOf(t) \cup {path}
      BY <2>2 DEF OneMade
    <3>1. Size(r) <= (k + 1) + 1
      BY <1>1, <1>4, <3>0
    <3>2. DirsOf(r) = {Root} \cup D(k + 1)
      BY <1>4, <1>5, <3>0
    <3> QED BY <1>4, <3>0, <3>1, <3>2 DEF SeededTo, D
  <2> QED BY <1>7, <2>1, <2>2
<1> QED BY <1>8 DEF r, path

LEMMA Seeded ==
  ASSUME NEW create \in BOOLEAN, ~create
  PROVE  SeededTo(AllMade(fs_dir_init, SeedDirs, create), Len(SeedDirs))
<1> DEFINE n == Len(SeedDirs)
           end == AllMade(fs_dir_init, SeedDirs, create)
<1>1. SeedDirs \in Seq(Seq(Name)) /\ n \in Nat
  BY PathFilesAssumption
<1>2. PICK u : IsRun(u, Trees, fs_dir_init, n, MakeAll(SeedDirs, create)) /\ end = u[n]
  BY <1>1, FirstTree, MakeAllRun
<1>3. /\ u \in [0 .. n -> Trees] /\ u[0] = fs_dir_init
      /\ \A k \in 1 .. n : u[k] = MakeAll(SeedDirs, create)[<<u[k - 1], k>>]
  BY <1>2 DEF IsRun
<1> DEFINE T == {k \in 0 .. n : SeededTo(u[k], k)}
<1>4. 0 \in T
  <2>1. 0 \in 0 .. n /\ (1 .. 0) = {} /\ 0 + 1 = 1
    BY <1>1
  <2>2. SeededTo(fs_dir_init, 0)
    BY <2>1, FirstLinked DEF SeededTo
  <2> QED BY <1>3, <2>1, <2>2
<1>5. ASSUME NEW k \in 0 .. n - 1, k \in T PROVE k + 1 \in T
  <2>1. k \in 0 .. n /\ k + 1 \in 0 .. n /\ k + 1 \in 1 .. n /\ (k + 1) - 1 = k
    BY <1>1
  <2>2. u[k] \in Trees /\ u[k + 1] = MakeAll(SeedDirs, create)[<<u[k], k + 1>>]
    BY <1>3, <2>1
  <2>3. MakeAll(SeedDirs, create)[<<u[k], k + 1>>] = mkdir_internal(u[k], SeedDirs[k + 1], create).tree
    <3> HIDE DEF Trees
    <3> QED BY <2>1, <2>2 DEF MakeAll
  <2>4. SeededTo(u[k], k)
    BY <1>5
  <2>5. SeededTo(u[k + 1], k + 1)
    BY <2>2, <2>3, <2>4, SeedStep
  <2> QED BY <2>1, <2>5
<1>6. 0 \in 0 .. n
  BY <1>1
<1> HIDE DEF T
<1>7. n \in T
  BY <1>1, <1>4, <1>5, <1>6, Reaches
<1> QED BY <1>2, <1>7 DEF T

\* Directories that are there are not made again.
LEMMA MadeAgain ==
  ASSUME NEW t \in LinkedTrees, NEW paths \in Seq(Seq(Name)), NEW create \in BOOLEAN, create,
         \A k \in 1 .. Len(paths) : paths[k] \in DirsOf(t)
  PROVE  AllMade(t, paths, create) = t
<1> DEFINE n == Len(paths)
           end == AllMade(t, paths, create)
<1>1. n \in Nat /\ 0 \in 0 .. n /\ t \in Trees
  BY LinkedIs
<1>2. PICK u : IsRun(u, Trees, t, n, MakeAll(paths, create)) /\ end = u[n]
  BY <1>1, MakeAllRun
<1>3. /\ u \in [0 .. n -> Trees] /\ u[0] = t
      /\ \A k \in 1 .. n : u[k] = MakeAll(paths, create)[<<u[k - 1], k>>]
  BY <1>2 DEF IsRun
<1> DEFINE T == {k \in 0 .. n : u[k] = t}
<1>4. 0 \in T
  BY <1>1, <1>3
<1>5. ASSUME NEW k \in 0 .. n - 1, k \in T PROVE k + 1 \in T
  <2>1. k \in 0 .. n /\ k + 1 \in 0 .. n /\ k + 1 \in 1 .. n /\ (k + 1) - 1 = k
    BY <1>1
  <2>2. u[k] = t /\ u[k + 1] = MakeAll(paths, create)[<<t, k + 1>>]
    BY <1>3, <1>5, <2>1
  <2>3. MakeAll(paths, create)[<<t, k + 1>>] = mkdir_internal(t, paths[k + 1], create).tree
    <3> HIDE DEF Trees
    <3> QED BY <1>1, <2>1 DEF MakeAll
  <2>4. paths[k + 1] \in Seq(Name) /\ paths[k + 1] \in DirsOf(t)
    BY <2>1
  <2>5. mkdir_internal(t, paths[k + 1], create).tree = t
    BY <2>4, MkdirPIs
  <2> QED BY <2>1, <2>2, <2>3, <2>5
<1> HIDE DEF T
<1>6. n \in T
  BY <1>1, <1>4, <1>5, Reaches
<1> QED BY <1>2, <1>6 DEF T

\* The directories of the built-in files.
LEMMA ParentsAre ==
  LET parents == {path_parent(path) : path \in DOMAIN SeedFiles} \ {Root}
  IN  IsFiniteSet(parents) /\ parents \subseteq Seq(Name)
<1> DEFINE parents == {path_parent(path) : path \in DOMAIN SeedFiles} \ {Root}
<1>1. IsFiniteSet(parents)
  <2> DEFINE S == DOMAIN SeedFiles
             T == {path_parent(path) : path \in S}
             f == [path \in S |-> path_parent(path)]
  <2>1. IsFiniteSet(S)
    BY PathFilesAssumption
  <2> HIDE DEF S
  <2>2. f \in Surjection(S, T)
    BY DEF Surjection
  <2> HIDE DEF T, f
  <2>3. IsFiniteSet(T \ {Root})
    BY <2>1, <2>2, FS_Surjection, FS_Difference
  <2> QED BY <2>3 DEF T, S
<1>2. parents \subseteq Seq(Name)
  <2> SUFFICES ASSUME NEW path \in DOMAIN SeedFiles, path # Root PROVE path_parent(path) \in Seq(Name)
    BY PathFilesAssumption
  <2>1. path \in Seq(Name)
    BY PathFilesAssumption
  <2> QED BY <2>1, FrontLast DEF path_parent, Root
<1> QED BY <1>1, <1>2

\* The directories of the shell's first tree, which is linked.
LEMMA InitialLinked ==
  InitialTree \in LinkedTrees /\ InitialTree.cwd = 1 /\ DirsOf(InitialTree) = {Root} \cup Range(SeedDirs)
<1> DEFINE parents == {path_parent(path) : path \in DOMAIN SeedFiles} \ {Root}
           first == AllMade(fs_dir_init, SeedDirs, FALSE)
           above == SetToSeq(parents)
<1>1. InitialTree = AllMade(first, above, TRUE)
  BY Zenon DEF InitialTree, AllMade, fs_dir_mkdir, fs_dir_mkdir_p
<1>2. first \in LinkedTrees /\ first.cwd = 1 /\ DirsOf(first) = {Root} \cup Range(SeedDirs)
  <2>1. SeededTo(first, Len(SeedDirs))
    BY Seeded
  <2>2. Range(SeedDirs) = {SeedDirs[m] : m \in 1 .. Len(SeedDirs)}
    <3>1. DOMAIN SeedDirs = 1 .. Len(SeedDirs)
      BY PathFilesAssumption
    <3> QED BY <3>1 DEF Range
  <2> HIDE DEF first
  <2> QED BY <2>1, <2>2 DEF SeededTo
<1>3. IsFiniteSet(parents)
  BY ParentsAre
<1>4. parents \subseteq Seq(Name)
  BY ParentsAre
<1>5. above \in Seq(Seq(Name)) /\ above \in Seq(parents)
  <2> HIDE DEF parents
  <2>1. above \in Seq(parents)
    BY <1>3, Listed
  <2> HIDE DEF above
  <2> QED BY <1>4, <2>1, WiderSeq
<1>6. parents \subseteq Range(SeedDirs)
  <2> SUFFICES ASSUME NEW path \in DOMAIN SeedFiles, path_parent(path) # Root
      PROVE  path_parent(path) \in Range(SeedDirs)
    OBVIOUS
  <2>1. Front(path) \in Range(SeedDirs) \cup {Root}
    BY PathFilesAssumption
  <2> QED BY <2>1 DEF path_parent
<1> HIDE DEF first, above, parents
<1>7. \A k \in 1 .. Len(above) : above[k] \in DirsOf(first)
  <2>1. \A k \in 1 .. Len(above) : above[k] \in parents
    BY <1>5
  <2> QED BY <1>2, <1>6, <2>1
<1>8. AllMade(first, above, TRUE) = first
  BY <1>2, <1>5, <1>7, MadeAgain
<1> QED BY <1>1, <1>2, <1>8

-------------------------------------------------------------------------------
(* What the parser returns *)

Words == Seq(Seq(Char))

Redir == {"none", "trunc", "append"}

IsCmd(c) ==
  /\ c.ok \in BOOLEAN /\ c.pipe \in BOOLEAN /\ c.redir \in Redir
  /\ c.left \in Words /\ c.right \in Words /\ c.path \in Seq(Char)

ParseState ==
  [ok : BOOLEAN, left : Words, right : Words, pipe : BOOLEAN, redir : Redir, path : Seq(Char),
   need : BOOLEAN, cursor : Seq(Char), pending : Char, done : BOOLEAN]

LEMMA PartType ==
  ASSUME NEW S, NEW s \in Seq(S), NEW a \in Nat \ {0}, NEW b \in Int, b <= Len(s)
  PROVE  SubSeq(s, a, b) \in Seq(S)
OBVIOUS

LEMMA MaxFromZero ==
  ASSUME NEW n \in Nat, NEW s \in SUBSET (0 .. n), s # {}
  PROVE  Max(s) \in 0 .. n
<1> DEFINE t == {k \in 1 .. n + 1 : k - 1 \in s}
<1>1. t \subseteq 1 .. n + 1 /\ t # {} /\ n + 1 \in Nat
  <2>1. PICK k \in s : TRUE
    OBVIOUS
  <2>2. k + 1 \in t
    OBVIOUS
  <2>3. t \subseteq 1 .. n + 1 /\ n + 1 \in Nat
    OBVIOUS
  <2> HIDE DEF t
  <2> QED BY <2>2, <2>3
<1>2. PICK x \in t : \A y \in t : y <= x
  <2> HIDE DEF t
  <2> QED BY <1>1, Greatest
<1>3. ASSUME NEW y \in s PROVE x - 1 >= y
  <2>1. y + 1 \in t
    OBVIOUS
  <2>2. y + 1 <= x
    BY <1>2, <2>1
  <2> QED BY <2>2
<1>4. \E z \in s : \A y \in s : z >= y
  BY <1>3
<1>5. Max(s) \in s
  BY <1>4 DEF Max
<1> QED BY <1>5

IsToken(token) ==
  /\ token.kind \in {"pipe", "append", "trunc", "end", "word"} /\ token.word \in Seq(Char)
  /\ token.rest \in Seq(Char) /\ token.pending \in Char

LEMMA TokenIs ==
  ASSUME NEW kind \in {"pipe", "append", "trunc", "end", "word"}, NEW word \in Seq(Char),
         NEW rest \in Seq(Char), NEW pending \in Char
  PROVE  IsToken(Token(kind, word, rest, pending))
BY DEF IsToken, Token

\* A token and the rest of the line are made of characters.
LEMMA TokenType ==
  ASSUME NEW cursor \in Seq(Char), NEW pending \in Char
  PROVE  IsToken(parse_next_token(cursor, pending))
<1> DEFINE skipped == {k \in 0 .. Len(cursor) : \A j \in 1 .. k : cursor[j] = Space}
           x == Max(skipped)
           rest == Skip(cursor, x)
           stop == Special \cup {Space}
           n == UpTo(rest, stop)
           token == parse_next_token(cursor, pending)
<1>1. x \in 0 .. Len(cursor) /\ Len(cursor) \in Nat
  <2>1. 0 \in skipped /\ skipped \in SUBSET (0 .. Len(cursor)) /\ Len(cursor) \in Nat
    OBVIOUS
  <2> HIDE DEF skipped
  <2> QED BY <2>1, MaxFromZero
<1> HIDE DEF x
<1>2. rest \in Seq(Char)
  <2>1. x + 1 \in Nat \ {0} /\ Len(cursor) \in Int /\ Len(cursor) <= Len(cursor)
    BY <1>1
  <2> QED BY <2>1, PartType DEF Skip
<1> HIDE DEF rest, stop
<1>3. n \in 1 .. Len(rest) + 1 /\ Len(rest) \in Nat
  <2> DEFINE s == {k \in DOMAIN rest : rest[k] \in stop} \cup {Len(rest) + 1}
  <2>1. s \in SUBSET (1 .. Len(rest) + 1) /\ s # {} /\ Len(rest) + 1 \in Nat /\ Len(rest) \in Nat
    BY <1>2
  <2>2. n = Min(s)
    BY DEF UpTo
  <2> HIDE DEF s
  <2>3. Min(s) \in s
    BY <2>1, MinIs
  <2> QED BY <2>1, <2>2, <2>3
<1> HIDE DEF n
<1>4. SubSeq(rest, 1, n - 1) \in Seq(Char) /\ Skip(rest, n) \in Seq(Char)
  <2>1. 1 \in Nat \ {0} /\ n - 1 \in Int /\ n - 1 <= Len(rest) /\ n + 1 \in Nat \ {0}
        /\ Len(rest) \in Int /\ Len(rest) <= Len(rest)
    BY <1>3
  <2> QED BY <1>2, <2>1, PartType DEF Skip
<1>5. \A s \in Seq(Char) : s # <<>> => Tail(s) \in Seq(Char)
  OBVIOUS
<1>6. /\ Tail(rest) \in Seq(Char) \/ rest = <<>>
      /\ StartsWith(Tail(rest), More) /\ rest # <<>> => Tail(Tail(rest)) \in Seq(Char)
  BY <1>2, <1>5 DEF StartsWith
<1>7. <<>> \in Seq(Char) /\ 0 \in Char
  BY DEF Char
<1>8. (IF n <= Len(rest) /\ rest[n] \in Special THEN rest[n] ELSE 0) \in Char
  BY <1>2, <1>3, <1>7
<1> DEFINE pend == IF n <= Len(rest) /\ rest[n] \in Special THEN rest[n] ELSE 0
           word == SubSeq(rest, 1, n - 1)
           behind == Skip(rest, n)
<1>9. \/ token = Token("pipe", <<>>, rest, 0)
      \/ StartsWith(rest, More) /\ token = Token("append", <<>>, Tail(rest), 0)
      \/ token = Token("trunc", <<>>, rest, 0)
      \/ token = Token("end", <<>>, rest, 0)
      \/ rest # <<>> /\ token = Token("pipe", <<>>, Tail(rest), 0)
      \/ rest # <<>> /\ StartsWith(Tail(rest), More) /\ token = Token("append", <<>>, Tail(Tail(rest)), 0)
      \/ rest # <<>> /\ token = Token("trunc", <<>>, Tail(rest), 0)
      \/ token = Token("word", word, behind, pend)
  BY Zenon DEF parse_next_token, rest, x, n, stop
<1>10. StartsWith(rest, More) => rest # <<>>
  BY DEF StartsWith
<1> HIDE DEF pend, word, behind, token
<1>11. word \in Seq(Char) /\ behind \in Seq(Char) /\ pend \in Char
  BY <1>4, <1>8 DEF word, behind, pend
<1>12. CASE \/ token = Token("pipe", <<>>, rest, 0) \/ token = Token("trunc", <<>>, rest, 0)
            \/ token = Token("end", <<>>, rest, 0)
  BY <1>2, <1>7, <1>12, TokenIs DEF token
<1>13. CASE rest # <<>> /\ \/ token = Token("append", <<>>, Tail(rest), 0)
                           \/ token = Token("pipe", <<>>, Tail(rest), 0)
                           \/ token = Token("trunc", <<>>, Tail(rest), 0)
  BY <1>6, <1>7, <1>13, TokenIs DEF token
<1>14. CASE rest # <<>> /\ StartsWith(Tail(rest), More)
            /\ token = Token("append", <<>>, Tail(Tail(rest)), 0)
  BY <1>6, <1>7, <1>14, TokenIs DEF token
<1>15. CASE token = Token("word", word, behind, pend)
  BY <1>11, <1>15, TokenIs DEF token
<1> QED BY <1>9, <1>10, <1>12, <1>13, <1>14, <1>15

\* One turn of the loop of the parser.
LEMMA ParseTokenType ==
  ASSUME NEW s \in ParseState PROVE ParseToken(s) \in ParseState
<1> DEFINE token == parse_next_token(s.cursor, s.pending)
           at == [s EXCEPT !.cursor = token.rest, !.pending = token.pending]
<1>1. s.cursor \in Seq(Char) /\ s.pending \in Char
  BY DEF ParseState
<1>2. IsToken(token)
  BY <1>1, TokenType
<1>3. /\ ParseToken(s) = CASE token.kind = "end" -> [at EXCEPT !.done = TRUE]
                          [] token.kind = "word" -> token_word(at, token.word)
                          [] token.kind # "word" /\ s.need -> [at EXCEPT !.ok = FALSE]
                          [] token.kind = "pipe" /\ ~s.need -> token_pipe(at)
                          [] token.kind \in {"trunc", "append"} /\ ~s.need -> token_redir(at, token)
  BY DEF ParseToken
<1> HIDE DEF token
<1>4. at \in ParseState
  <2> DEFINE r == token.rest
             ch == token.pending
  <2>1. r \in Seq(Char) /\ ch \in Char
    BY <1>2 DEF IsToken
  <2> HIDE DEF r, ch
  <2>2. [s EXCEPT !.cursor = r, !.pending = ch] \in ParseState
    BY <2>1 DEF ParseState
  <2> QED BY <2>2 DEF r, ch
<1> HIDE DEF at
<1>5. [at EXCEPT !.done = TRUE] \in ParseState /\ [at EXCEPT !.ok = FALSE] \in ParseState
      /\ [at EXCEPT !.pipe = TRUE] \in ParseState
  BY <1>4 DEF ParseState
<1>6. token_pipe(at) \in ParseState
  BY <1>4, <1>5 DEF token_pipe
<1>7. token.kind \in {"trunc", "append"} => token_redir(at, token) \in ParseState
  <2> SUFFICES ASSUME token.kind \in Redir PROVE token_redir(at, token) \in ParseState
    BY DEF Redir
  <2> DEFINE kind == token.kind
  <2>1. kind \in Redir
    OBVIOUS
  <2> HIDE DEF kind
  <2>2. [at EXCEPT !.redir = kind, !.need = TRUE] \in ParseState
    BY <1>4, <2>1 DEF ParseState
  <2> QED BY <1>4, <1>5, <2>2 DEF token_redir, kind
<1>8. token_word(at, token.word) \in ParseState
  <2> DEFINE w == token.word
             left == Append(at.left, w)
             right == Append(at.right, w)
  <2>1. w \in Seq(Char)
    BY <1>2 DEF IsToken
  <2> HIDE DEF w
  <2>2. left \in Words /\ right \in Words
    <3>1. at.left \in Words /\ at.right \in Words
      BY <1>4 DEF ParseState
    <3> DEFINE C == Seq(Char)
               p == at.left
               q == at.right
    <3> HIDE DEF C, p, q
    <3>2. p \in Seq(C) /\ q \in Seq(C) /\ w \in C
      BY <2>1, <3>1 DEF C, Words, p, q
    <3>3. Append(p, w) \in Seq(C) /\ Append(q, w) \in Seq(C)
      BY <3>2
    <3> QED BY <3>3 DEF C, p, q, Words
  <2>3. \/ token_word(at, w) = [at EXCEPT !.path = w, !.need = FALSE]
        \/ token_word(at, w) = [at EXCEPT !.ok = FALSE]
        \/ token_word(at, w) = [at EXCEPT !.right = right]
        \/ token_word(at, w) = [at EXCEPT !.left = left]
    BY DEF token_word
  <2> HIDE DEF left, right
  <2>4. /\ [at EXCEPT !.path = w, !.need = FALSE] \in ParseState
        /\ [at EXCEPT !.right = right] \in ParseState /\ [at EXCEPT !.left = left] \in ParseState
    <3>1. [at EXCEPT !.path = w, !.need = FALSE] \in ParseState
      BY <1>4, <2>1 DEF ParseState
    <3>2. [at EXCEPT !.right = right] \in ParseState
      BY <1>4, <2>2 DEF ParseState
    <3>3. [at EXCEPT !.left = left] \in ParseState
      BY <1>4, <2>2 DEF ParseState
    <3> QED BY <3>1, <3>2, <3>3
  <2>5. token_word(at, w) \in ParseState
    BY <1>5, <2>3, <2>4
  <2> QED BY <2>5 DEF w
<1>9. s.need \in BOOLEAN
  BY DEF ParseState
<1>10. token.kind \in {"pipe", "append", "trunc", "end", "word"}
  BY <1>2 DEF IsToken
<1>11. CASE token.kind = "end"
  BY <1>3, <1>5, <1>11
<1>12. CASE token.kind = "word"
  BY <1>3, <1>8, <1>12
<1>13. CASE token.kind \in {"pipe", "append", "trunc"} /\ s.need
  <2>1. ParseToken(s) = [at EXCEPT !.ok = FALSE]
    BY <1>3, <1>13
  <2> QED BY <1>5, <2>1
<1>14. CASE token.kind = "pipe" /\ ~s.need
  <2>1. ParseToken(s) = token_pipe(at)
    BY <1>3, <1>14
  <2> QED BY <1>6, <2>1
<1>15. CASE token.kind \in {"trunc", "append"} /\ ~s.need
  <2>1. ParseToken(s) = token_redir(at, token)
    BY <1>3, <1>15
  <2> QED BY <1>7, <1>15, <2>1
<1> QED BY <1>9, <1>10, <1>11, <1>12, <1>13, <1>14, <1>15

\* One turn of the loop of shell_parse_with_redirection, or none behind its end.
Turn(s) == IF s.done \/ ~s.ok THEN s ELSE ParseToken(s)

ParseStart(text) ==
  [ok |-> TRUE, left |-> <<>>, right |-> <<>>, pipe |-> FALSE, redir |-> "none",
   path |-> <<>>, need |-> FALSE, cursor |-> text, pending |-> 0, done |-> FALSE]

\* The turns of the loop of shell_parse_with_redirection.
Parsed(text) ==
  LET after[n \in 0 .. 2 * Len(text) + 1] == IF n = 0 THEN ParseStart(text) ELSE Turn(after[n - 1])
  IN  after[2 * Len(text) + 1]

\* The turns of the loop, however long the line is.
LEMMA ParsedType ==
  ASSUME NEW text \in Seq(Char) PROVE Parsed(text) \in ParseState
<1> DEFINE n == 2 * Len(text) + 1
           b == ParseStart(text)
           A == ParseState
           G == [p \in A \X (1 .. n) |-> Turn(p[1])]
           P(g) == g = [k \in 0 .. 2 * Len(text) + 1 |-> IF k = 0 THEN b ELSE Turn(g[k - 1])]
           W == CHOOSE g : P(g)
<1>1. Parsed(text) = W[n]
  BY Zenon DEF Parsed
<1>2. n \in Nat
  OBVIOUS
<1>3. b \in A
  <2>1. 0 \in Char /\ "none" \in Redir
    BY DEF Char, Redir
  <2>2. <<>> \in Words /\ <<>> \in Seq(Char)
    BY DEF Words
  <2> HIDE DEF Words, Redir, Char
  <2> QED BY <2>1, <2>2 DEF ParseStart, ParseState
<1>4. \A a \in A : Turn(a) \in A
  BY ParseTokenType DEF Turn
<1> HIDE DEF b, A
<1>5. G \in [A \X (1 .. n) -> A] /\ \A a \in A, k \in 1 .. n : G[<<a, k>>] = Turn(a)
  BY <1>4
<1>6. n = 2 * Len(text) + 1
  OBVIOUS
<1> HIDE DEF G, n
<1>7. PICK u : IsRun(u, A, b, n, G)
  BY <1>2, <1>3, <1>5, RecExists
<1>8. ASSUME NEW k \in 1 .. n PROVE u[k] = Turn(u[k - 1])
  <2>1. k - 1 \in 0 .. n
    BY <1>2
  <2>2. u[k] = G[<<u[k - 1], k>>] /\ u[k - 1] \in A
    BY <1>7, <2>1 DEF IsRun
  <2> QED BY <1>5, <2>2
<1>9. P(u)
  <2>1. \A k \in 0 .. n : k # 0 => k \in 1 .. n
    BY <1>2
  <2>2. u = [k \in 0 .. n |-> u[k]] /\ u[0] = b
    BY <1>7 DEF IsRun
  <2>3. \A k \in 0 .. n : u[k] = IF k = 0 THEN b ELSE Turn(u[k - 1])
    BY <1>8, <2>1, <2>2
  <2> QED BY <1>6, <2>2, <2>3
<1>10. P(W)
  BY <1>9
<1> HIDE DEF W
<1>11. Follows(W, A, b, n, G)
  <2>1. \A k \in 0 .. n : W[k] = IF k = 0 THEN b ELSE Turn(W[k - 1])
    BY <1>6, <1>10
  <2>2. 0 \in 0 .. n /\ \A k \in 1 .. n : k \in 0 .. n /\ k # 0
    BY <1>2
  <2>3. W[0] = b
    BY <2>1, <2>2
  <2>4. ASSUME NEW k \in 1 .. n, W[k - 1] \in A PROVE W[k] = G[<<W[k - 1], k>>]
    BY <1>5, <2>1, <2>2, <2>4
  <2> QED BY <2>3, <2>4 DEF Follows
<1>12. \A k \in 0 .. n : W[k] \in A
  BY <1>2, <1>3, <1>5, <1>11, RunIn
<1>13. n \in 0 .. n
  BY <1>2
<1> QED BY <1>1, <1>12, <1>13 DEF A

LEMMA CmdFields ==
  ASSUME NEW end, IsCmd(end) PROVE IsCmd([f \in DOMAIN ParseError |-> end[f]])
<1> DEFINE c == [f \in DOMAIN ParseError |-> end[f]]
<1>1. DOMAIN ParseError = {"ok", "left", "right", "pipe", "redir", "path"}
  BY DEF ParseError
<1>2. /\ c["ok"] = end["ok"] /\ c["left"] = end["left"] /\ c["right"] = end["right"]
      /\ c["pipe"] = end["pipe"] /\ c["redir"] = end["redir"] /\ c["path"] = end["path"]
  BY <1>1
<1> HIDE DEF c
<1>3. /\ c.ok = end.ok /\ c.left = end.left /\ c.right = end.right /\ c.pipe = end.pipe
      /\ c.redir = end.redir /\ c.path = end.path
  BY <1>2
<1>4. IsCmd(c)
  BY <1>3 DEF IsCmd
<1> QED BY <1>4 DEF c

LEMMA ErrorIsCmd == IsCmd(ParseError)
<1>1. <<>> \in Words /\ <<>> \in Seq(Char)
  BY DEF Words
<1> QED BY <1>1 DEF IsCmd, ParseError, Redir

\* Whatever is typed, what shell_execute_line runs has words of characters.
LEMMA CmdType ==
  ASSUME NEW text \in Seq(Char) PROVE IsCmd(shell_parse_with_redirection(text))
<1> DEFINE end == Parsed(text)
           c == shell_parse_with_redirection(text)
<1>1. c = IF ~end.ok \/ end.need \/ end.left = <<>> \/ (end.pipe /\ end.right = <<>>) THEN ParseError
          ELSE [f \in DOMAIN ParseError |-> end[f]]
  BY Zenon DEF shell_parse_with_redirection, Parsed, Turn, ParseStart
<1>2. end \in ParseState
  BY ParsedType
<1> HIDE DEF end, c
<1>3. IsCmd(end)
  BY <1>2 DEF ParseState, IsCmd
<1>4. c = ParseError \/ c = [f \in DOMAIN ParseError |-> end[f]]
  BY <1>1
<1>5. IsCmd(c)
  BY <1>3, <1>4, CmdFields, ErrorIsCmd
<1> QED BY <1>5 DEF c

-------------------------------------------------------------------------------
(* What the commands print, and the tree they leave *)

\* What is in the table of files: contents at paths below the root.
SoundFiles(fs) ==
  /\ IsFiniteSet(DOMAIN fs) /\ DOMAIN fs \subseteq Seq(Name) \ {Root}
  /\ \A path \in DOMAIN fs : fs[path] \in Seq(Char)

\* The fixed texts are texts.
LEMMA FixedTexts ==
  /\ <<LF>> \in Seq(Char) /\ <<Space>> \in Seq(Char) /\ <<Slash>> \in Seq(Char) /\ <<Dot>> \in Seq(Char)
  /\ \A k \in 1 .. 12 : Text(k) \in Seq(Char) /\ Prefix(k) \in Seq(Char) /\ Text(k) # <<>>
<1>1. LF \in Char /\ Space \in Char /\ Slash \in Char /\ Dot \in Char /\ \A k \in 1 .. 12 : 200 + k \in Char
  BY DEF LF, Space, Slash, Dot, Char
<1>2. \A x \in Char, y \in Char : <<x>> \in Seq(Char) /\ <<x, y>> \in Seq(Char) /\ <<x, y>> # <<>>
  <2> HIDE DEF Char
  <2> QED OBVIOUS
<1> QED BY <1>1, <1>2, Zenon DEF Text, Prefix

LEMMA Joining == \A p \in Seq(Char), q \in Seq(Char) : p \o q \in Seq(Char)
BY ConcatIs

\* A sequence of texts, one for each place.
LEMMA Texts ==
  ASSUME NEW n \in Nat, NEW f, f = [i \in 1 .. n |-> f[i]], \A i \in 1 .. n : f[i] \in Seq(Char)
  PROVE  FlattenSeq(f) \in Seq(Char)
<1> DEFINE C == Seq(Char)
<1>1. f \in Seq(C)
  <2> HIDE DEF C
  <2>1. \A i \in 1 .. n : f[i] \in C
    BY DEF C
  <2> QED BY <2>1
<1> QED BY <1>1, FlatType

LEMMA WordAt ==
  ASSUME NEW argv \in Words
  PROVE  /\ Len(argv) \in Nat /\ DOMAIN argv = 1 .. Len(argv)
         /\ \A i \in 1 .. Len(argv) : argv[i] \in Seq(Char)
         /\ Len(argv) >= 1 => Tail(argv) \in Words
<1> DEFINE C == Seq(Char)
<1>1. argv \in Seq(C)
  BY DEF Words
<1> HIDE DEF C
<1>2. /\ Len(argv) \in Nat /\ DOMAIN argv = 1 .. Len(argv)
      /\ \A i \in 1 .. Len(argv) : argv[i] \in C
      /\ Len(argv) >= 1 => Tail(argv) \in Seq(C)
  BY <1>1
<1> QED BY <1>2 DEF C, Words

LEMMA JoinedType == ASSUME NEW argv \in Words PROVE Joined(argv) \in Seq(Char)
<1> DEFINE f == [i \in DOMAIN argv |-> IF i = 1 THEN argv[i] ELSE <<Space>> \o argv[i]]
<1>1. Joined(argv) = FlattenSeq(f)
  BY DEF Joined
<1>2. Len(argv) \in Nat /\ DOMAIN argv = 1 .. Len(argv) /\ \A i \in 1 .. Len(argv) : argv[i] \in Seq(Char)
  BY WordAt
<1>3. \A i \in 1 .. Len(argv) : f[i] \in Seq(Char)
  <2>1. ASSUME NEW i \in 1 .. Len(argv) PROVE f[i] \in Seq(Char)
    <3>1. f[i] = IF i = 1 THEN argv[i] ELSE <<Space>> \o argv[i]
      BY <1>2
    <3>2. argv[i] \in Seq(Char) /\ <<Space>> \o argv[i] \in Seq(Char)
      BY <1>2, FixedTexts, Joining
    <3> QED BY <3>1, <3>2
  <2> QED BY <2>1
<1>4. f = [i \in 1 .. Len(argv) |-> f[i]]
  BY <1>2
<1> HIDE DEF f
<1> QED BY <1>1, <1>2, <1>3, <1>4, Texts

LEMMA EndLineType == ASSUME NEW text \in Seq(Char) PROVE EndLine(text) \in Seq(Char)
BY FixedTexts, Joining DEF EndLine

LEMMA EchoText == ASSUME NEW argv \in Words PROVE shell_builtin_echo(argv) \in Seq(Char)
<1> DEFINE rest == Joined(Tail(argv))
           mid == IF Len(argv) > 1 THEN <<Space>> \o rest ELSE <<>>
<1>1. shell_builtin_echo(argv) = Prefix(1) \o mid \o <<LF>>
  BY DEF shell_builtin_echo
<1>2. Len(argv) > 1 => rest \in Seq(Char)
  BY WordAt, JoinedType
<1> HIDE DEF rest
<1>3. mid \in Seq(Char)
  BY <1>2, FixedTexts, Joining
<1> HIDE DEF mid
<1>4. Prefix(1) \o mid \in Seq(Char)
  BY <1>3, FixedTexts, Joining
<1> QED BY <1>1, <1>4, FixedTexts, Joining

LEMMA ShownText ==
  ASSUME NEW fs, SoundFiles(fs), NEW path, IsFile(fs, path) PROVE Visible(fs, path) \in Seq(Char)
BY PathFilesAssumption DEF IsFile, Visible, SoundFiles

LEMMA CatFileText ==
  ASSUME NEW t, NEW fs, SoundFiles(fs), NEW word \in Seq(Char)
  PROVE  CatFile(t, fs, word) \in Seq(Char)
<1> DEFINE path == resolve_to_absolute(t, word)
           shown == Visible(fs, path)
           file == path_state_cat(t, fs, word)
<1>1. file = IF IsFile(fs, path) THEN [ok |-> TRUE, text |-> shown] ELSE [ok |-> FALSE, text |-> <<>>]
  BY DEF path_state_cat
<1>2. CatFile(t, fs, word) = IF file.ok THEN EndLine(file.text) ELSE Prefix(2) \o word \o <<LF>>
  BY DEF CatFile
<1>3. IsFile(fs, path) => shown \in Seq(Char)
  BY ShownText
<1> HIDE DEF path, shown, file
<1>4. Prefix(2) \o word \o <<LF>> \in Seq(Char)
  BY FixedTexts, Joining
<1>5. CASE IsFile(fs, path)
  <2>1. file.ok = TRUE /\ file.text = shown
    BY <1>1, <1>5
  <2>2. CatFile(t, fs, word) = EndLine(shown)
    BY <1>2, <2>1
  <2> QED BY <1>3, <1>5, <2>2, EndLineType
<1>6. CASE ~IsFile(fs, path)
  <2>1. file.ok = FALSE
    BY <1>1, <1>6
  <2> QED BY <1>2, <1>4, <2>1
<1> QED BY <1>5, <1>6

LEMMA CatText ==
  ASSUME NEW argv \in Words, NEW t, NEW fs, SoundFiles(fs), NEW stdin \in Seq(Char)
  PROVE  shell_builtin_cat(argv, t, fs, stdin) \in Seq(Char)
<1> DEFINE n == Len(argv) - 1
           f == [i \in 1 .. n |-> CatFile(t, fs, argv[i + 1])]
<1>1. Len(argv) >= 2 => FlattenSeq(f) \in Seq(Char)
  <2> SUFFICES ASSUME Len(argv) >= 2 PROVE FlattenSeq(f) \in Seq(Char)
    OBVIOUS
  <2>1. n \in Nat /\ \A i \in 1 .. n : i + 1 \in 1 .. Len(argv)
    BY WordAt
  <2>2. \A i \in 1 .. n : argv[i + 1] \in Seq(Char)
    BY <2>1, WordAt
  <2> HIDE DEF n
  <2>3. \A i \in 1 .. n : CatFile(t, fs, argv[i + 1]) \in Seq(Char)
    BY <2>2, CatFileText
  <2>4. f = [i \in 1 .. n |-> f[i]] /\ \A i \in 1 .. n : f[i] \in Seq(Char)
    BY <2>3
  <2> HIDE DEF f
  <2> QED BY <2>1, <2>4, Texts
<1>2. EndLine(stdin) \in Seq(Char) /\ Text(3) \in Seq(Char)
  BY EndLineType, FixedTexts
<1> QED BY <1>1, <1>2 DEF shell_builtin_cat

LEMMA PwdText == ASSUME NEW t \in Trees PROVE shell_builtin_pwd(t) \in Seq(Char)
<1>1. Spelled(fs_dir_pwd(t)) \in Seq(Char)
  BY PwdType, SeqName, SpelledIs
<1> QED BY <1>1, FixedTexts, Joining DEF shell_builtin_pwd

\* ls
Listing == [name : Seq(Char), kind : {"dir", "file"}]

LsState == [ok : BOOLEAN, entries : Seq(Listing)]

LsStart == [ok |-> TRUE, entries |-> <<>>]

LsSteps(list) == [p \in LsState \X (1 .. Len(list)) |-> entry_insert_sorted(p[1], list[p[2]])]

LEMMA EntryType == \A name \in Seq(Char), kind \in {"dir", "file"} : Entry(name, kind) \in Listing
BY DEF Entry, Listing

LEMMA InsertAtType ==
  ASSUME NEW S, NEW s \in Seq(S), NEW e \in S, NEW i \in 1 .. Len(s) + 1
  PROVE  InsertAt(s, i, e) \in Seq(S)
<1>1. SubSeq(s, 1, i - 1) \in Seq(S) /\ SubSeq(s, i, Len(s)) \in Seq(S) /\ <<e>> \in Seq(S)
  <2>1. 1 \in Nat \ {0} /\ i \in Nat \ {0} /\ i - 1 \in Int /\ Len(s) \in Int /\ i - 1 <= Len(s)
        /\ Len(s) <= Len(s)
    OBVIOUS
  <2> QED BY <2>1, PartType
<1> DEFINE a == SubSeq(s, 1, i - 1)
           b == SubSeq(s, i, Len(s))
           c == <<e>>
<1>2. InsertAt(s, i, e) = a \o c \o b
  BY DEF InsertAt
<1> HIDE DEF a, b, c
<1>3. a \in Seq(S) /\ b \in Seq(S) /\ c \in Seq(S)
  BY <1>1 DEF a, b, c
<1> QED BY <1>2, <1>3, ConcatIs

\* entry_insert_sorted keeps a list of entries.
LEMMA InsertType ==
  ASSUME NEW s \in LsState, NEW entry \in Listing PROVE entry_insert_sorted(s, entry) \in LsState
<1> DEFINE list == s.entries
           smaller == {k \in DOMAIN list : \A j \in 1 .. k : dir_less(list[j].name, entry.name)}
           at == Cardinality(smaller) + 1
           grown == InsertAt(list, at, entry)
<1>1. list \in Seq(Listing) /\ Len(list) \in Nat /\ DOMAIN list = 1 .. Len(list)
  <2>1. list \in Seq(Listing)
    BY DEF LsState
  <2> HIDE DEF list, Listing
  <2> QED BY <2>1
<1>2. \/ entry_insert_sorted(s, entry) = s
      \/ entry_insert_sorted(s, entry) = [s EXCEPT !.ok = FALSE]
      \/ entry_insert_sorted(s, entry) = [s EXCEPT !.entries = grown]
  BY DEF entry_insert_sorted
<1> HIDE DEF list
<1>3. Cardinality(smaller) \in 0 .. Len(list)
  <2>1. smaller \in SUBSET (1 .. Len(list))
    BY <1>1
  <2>2. ASSUME NEW k \in 1 .. Len(list) - 1, k + 1 \in smaller PROVE k \in smaller
    <3>1. k \in DOMAIN list /\ \A j \in 1 .. k : j \in 1 .. k + 1
      BY <1>1
    <3> QED BY <2>2, <3>1
  <2> HIDE DEF smaller
  <2> QED BY <1>1, <2>1, <2>2, Leading
<1> HIDE DEF smaller
<1>4. at \in 1 .. Len(list) + 1
  BY <1>1, <1>3
<1> HIDE DEF at
<1>5. grown \in Seq(Listing)
  <2> HIDE DEF Listing
  <2> QED BY <1>1, <1>4, InsertAtType
<1> HIDE DEF grown
<1>6. [s EXCEPT !.ok = FALSE] \in LsState /\ [s EXCEPT !.entries = grown] \in LsState
  <2> DEFINE S == Seq(Listing)
  <2>1. s \in [ok : BOOLEAN, entries : S] /\ grown \in S
    BY <1>5 DEF LsState
  <2> HIDE DEF S
  <2>2. [s EXCEPT !.ok = FALSE] \in [ok : BOOLEAN, entries : S]
        /\ [s EXCEPT !.entries = grown] \in [ok : BOOLEAN, entries : S]
    BY <2>1
  <2> QED BY <2>2 DEF LsState, S
<1> QED BY <1>2, <1>6

LEMMA LsRun ==
  ASSUME NEW list \in Seq(Listing)
  PROVE  \E u : IsRun(u, LsState, LsStart, Len(list), LsSteps(list))
                /\ FoldLeft(entry_insert_sorted, LsStart, list) = u[Len(list)]
<1> DEFINE n == Len(list)
           A == LsState
           G == LsSteps(list)
           b == LsStart
           f == list
           P(g) == g = [q \in SUBSET DOMAIN f |->
                          IF q = {} THEN b ELSE entry_insert_sorted(g[q \ {Max(q)}], f[Max(q)])]
           W == CHOOSE g : P(g)
<1>1. FoldLeft(entry_insert_sorted, LsStart, list) = W[DOMAIN f]
  BY Zenon DEF FoldLeft, MapThenFoldSet
<1>2. n \in Nat /\ DOMAIN f = 1 .. n /\ \A k \in 1 .. n : f[k] \in Listing
  <2> HIDE DEF Listing
  <2> QED OBVIOUS
<1>3. b \in A
  <2> HIDE DEF Listing
  <2> QED BY DEF LsStart, LsState
<1>4. G \in [A \X (1 .. n) -> A] /\ \A a \in A, k \in 1 .. n : G[<<a, k>>] = entry_insert_sorted(a, f[k])
  <2>1. G = [p \in A \X (1 .. n) |-> entry_insert_sorted(p[1], f[p[2]])]
    BY DEF LsSteps
  <2> HIDE DEF n, G, f
  <2>2. \A a \in A, k \in 1 .. n : entry_insert_sorted(a, f[k]) \in A
    BY <1>2, InsertType
  <2> HIDE DEF A
  <2> QED BY <2>1, <2>2
<1> HIDE DEF A, n, G, f, b
<1>5. \A q \in SUBSET (1 .. n) : q # {} => Max(q) \in 1 .. n
  BY <1>2, MaxIs
<1>6. \E g : P(g)
  <2>0. PICK g : IsFold(g, A, b, n, G)
    BY <1>2, <1>3, <1>4, FoldExists
  <2>1. g \in [SUBSET (1 .. n) -> A] /\ \A q \in SUBSET (1 .. n) :
          g[q] = IF q = {} THEN b ELSE G[<<g[q \ {Max(q)}], Max(q)>>]
    BY <2>0 DEF IsFold
  <2>2. ASSUME NEW q \in SUBSET (1 .. n)
        PROVE  g[q] = IF q = {} THEN b ELSE entry_insert_sorted(g[q \ {Max(q)}], f[Max(q)])
    <3>1. CASE q # {}
      <4>1. Max(q) \in 1 .. n /\ g[q \ {Max(q)}] \in A
        BY <1>5, <2>1, <3>1
      <4> QED BY <1>4, <2>1, <3>1, <4>1
    <3> QED BY <2>1, <3>1
  <2>3. g = [q \in SUBSET (1 .. n) |-> g[q]]
    BY <2>1
  <2>4. P(g)
    BY <1>2, <2>2, <2>3
  <2> QED BY <2>4
<1>7. P(W)
  BY <1>6
<1> HIDE DEF W
<1>8. FoldsBy(W, A, b, n, G)
  <2>1. \A q \in SUBSET (1 .. n) :
          W[q] = IF q = {} THEN b ELSE entry_insert_sorted(W[q \ {Max(q)}], f[Max(q)])
    BY <1>2, <1>7
  <2>2. {} \in SUBSET (1 .. n)
    OBVIOUS
  <2>3. W[{}] = b
    BY <2>1, <2>2
  <2>4. ASSUME NEW q \in SUBSET (1 .. n), q # {}, W[q \ {Max(q)}] \in A
        PROVE  W[q] = G[<<W[q \ {Max(q)}], Max(q)>>]
    <3> DEFINE m == Max(q)
    <3>1. m \in 1 .. n
      BY <1>5, <2>4
    <3>2. W[q] = entry_insert_sorted(W[q \ {m}], f[m]) /\ W[q \ {m}] \in A
      BY <2>1, <2>4
    <3> HIDE DEF m
    <3>3. W[q] = G[<<W[q \ {m}], m>>]
      BY <1>4, <3>1, <3>2
    <3> QED BY <3>3 DEF m
  <2> QED BY <2>3, <2>4 DEF FoldsBy
<1>9. PICK u : RunsTo(u, W, A, b, n, G)
  BY <1>2, <1>3, <1>4, <1>8, FoldRun
<1> QED BY <1>1, <1>2, <1>9 DEF A, n, G, b, RunsTo

LEMMA ListedEntries ==
  ASSUME NEW list \in Seq(Listing)
  PROVE  FoldLeft(entry_insert_sorted, LsStart, list) \in LsState
<1> DEFINE end == FoldLeft(entry_insert_sorted, LsStart, list)
<1>1. PICK u : IsRun(u, LsState, LsStart, Len(list), LsSteps(list)) /\ end = u[Len(list)]
  BY LsRun
<1>2. Len(list) \in 0 .. Len(list)
  <2> HIDE DEF Listing
  <2> QED OBVIOUS
<1> QED BY <1>1, <1>2 DEF IsRun

LEMMA DirEntriesType ==
  ASSUME NEW t \in Trees, NEW i \in 1 .. Size(t)
  PROVE  DirEntries(fs_dir_readdir(t, i)) \in Seq(Listing)
<1> DEFINE list == Children(t, i)
           names == fs_dir_readdir(t, i)
           n == Len(list)
           e == DirEntries(names)
<1>1. list \in Seq(1 .. Size(t))
  BY ChildrenType
<1>2. names = [k \in DOMAIN list |-> t.nodes[list[k]].name]
  BY DEF fs_dir_readdir
<1> HIDE DEF list
<1>3. n \in Nat /\ DOMAIN list = 1 .. n /\ \A k \in 1 .. n : list[k] \in 1 .. Size(t)
  <2> DEFINE M == 1 .. Size(t)
  <2>1. list \in Seq(M)
    BY <1>1
  <2> HIDE DEF M
  <2>2. n \in Nat /\ DOMAIN list = 1 .. n /\ \A k \in 1 .. n : list[k] \in M
    BY <2>1
  <2> QED BY <2>2 DEF M
<1> HIDE DEF n
<1>4. \A k \in 1 .. n : t.nodes[list[k]].name \in Seq(Char)
  <2>1. \A j \in 1 .. Size(t) : t.nodes[j].name \in Seq(Char)
    BY TreeIs DEF Node
  <2> QED BY <1>3, <2>1
<1>5. DOMAIN names = 1 .. n /\ \A k \in 1 .. n : names[k] \in Seq(Char)
  BY <1>2, <1>3, <1>4
<1> HIDE DEF names
<1>6. \A k \in 1 .. n : Entry(names[k], "dir") \in Listing
  BY <1>5, EntryType
<1>7. e = [k \in 1 .. n |-> Entry(names[k], "dir")]
  BY <1>5 DEF DirEntries
<1> HIDE DEF e
<1>8. e \in Seq(Listing)
  <2> HIDE DEF Listing
  <2> QED BY <1>3, <1>6, <1>7
<1> QED BY <1>8 DEF e, names

LEMMA FileEntriesType ==
  ASSUME NEW paths \in Seq(Seq(Name) \ {Root}) PROVE FileEntries(paths) \in Seq(Listing)
<1> DEFINE P == Seq(Name) \ {Root}
           n == Len(paths)
           e == FileEntries(paths)
<1>1. n \in Nat /\ DOMAIN paths = 1 .. n /\ \A k \in 1 .. n : paths[k] \in P
  <2>1. paths \in Seq(P)
    OBVIOUS
  <2> HIDE DEF P
  <2> QED BY <2>1
<1>2. \A p \in P : Last(p) \in Seq(Char)
  <2>1. \A p \in P : Last(p) \in Name
    BY FrontLast DEF Root
  <2> QED BY <2>1 DEF Name
<1>3. \A k \in 1 .. n : Entry(Last(paths[k]), "file") \in Listing
  <2> HIDE DEF P, n
  <2> QED BY <1>1, <1>2, EntryType
<1>4. e = [k \in 1 .. n |-> Entry(Last(paths[k]), "file")]
  BY <1>1 DEF FileEntries
<1> HIDE DEF e, n
<1>5. e \in Seq(Listing)
  <2> HIDE DEF Listing
  <2> QED BY <1>1, <1>3, <1>4
<1> QED BY <1>5 DEF e

LEMMA FilesInType ==
  ASSUME NEW S, IsFiniteSet(S), S \subseteq Seq(Name) \ {Root}, NEW dir
  PROVE  FilesIn(S, dir) \in Seq(Seq(Name) \ {Root})
<1> DEFINE P == Seq(Name) \ {Root}
           T == {path \in S : path_parent(path) = dir}
           list == SetToSeq(T)
<1>1. IsFiniteSet(T) /\ T \subseteq P
  <2>1. T \subseteq S
    OBVIOUS
  <2> HIDE DEF T
  <2> QED BY <2>1, FS_Subset
<1>2. FilesIn(S, dir) = list
  BY DEF FilesIn
<1> HIDE DEF P, T
<1>3. list \in Seq(T)
  BY <1>1, Listed
<1> HIDE DEF list
<1>4. list \in Seq(P)
  <2>1. Len(list) \in Nat /\ list \in [1 .. Len(list) -> T]
    BY <1>3
  <2>2. list \in [1 .. Len(list) -> P]
    BY <1>1, <2>1
  <2> QED BY <2>1, <2>2
<1> QED BY <1>2, <1>4 DEF P

\* What path_state_ls puts into its list are entries.
LEMMA ToListType ==
  ASSUME NEW t \in Trees, NEW fs, SoundFiles(fs), NEW path, NEW node \in 0 .. Size(t),
         IsFile(fs, path) \/ node # 0
  PROVE  ToList(t, fs, path, node) \in Seq(Listing)
<1> DEFINE P == Seq(Name) \ {Root}
<1>1. DOMAIN SeedFiles \subseteq P /\ IsFiniteSet(DOMAIN SeedFiles)
  BY PathFilesAssumption
<1>2. CASE IsFile(fs, path)
  <2>1. path \in P
    BY <1>1, <1>2 DEF IsFile, SoundFiles
  <2>2. <<path>> \in Seq(P)
    <3> HIDE DEF P
    <3> QED BY <2>1
  <2> QED BY <1>2, <2>2, FileEntriesType DEF ToList
<1>3. CASE ~IsFile(fs, path)
  <2> DEFINE a == FilesIn(DOMAIN SeedFiles \ DOMAIN fs, path)
             b == FilesIn(DOMAIN fs, path)
             c == DirEntries(fs_dir_readdir(t, node))
             d == FileEntries(a \o b)
  <2>1. a \in Seq(P)
    <3> DEFINE S == DOMAIN SeedFiles \ DOMAIN fs
    <3>1. IsFiniteSet(S) /\ S \subseteq P
      BY <1>1, FS_Difference
    <3> HIDE DEF S
    <3>2. FilesIn(S, path) \in Seq(P)
      BY <3>1, FilesInType
    <3> QED BY <3>2 DEF S
  <2>2. b \in Seq(P)
    BY FilesInType DEF SoundFiles
  <2>3. ToList(t, fs, path, node) = c \o d
    BY <1>3 DEF ToList
  <2>4. a \o b \in Seq(P)
    <3> HIDE DEF P, a, b
    <3> QED BY <2>1, <2>2, ConcatIs
  <2>5. d \in Seq(Listing)
    <3> HIDE DEF a, b
    <3> QED BY <2>4, FileEntriesType
  <2>6. c \in Seq(Listing)
    <3>1. node \in 1 .. Size(t)
      BY <1>3
    <3> QED BY <3>1, DirEntriesType
  <2> HIDE DEF c, d, Listing
  <2> QED BY <2>3, <2>5, <2>6, ConcatIs
<1> QED BY <1>2, <1>3

LEMMA LsType ==
  ASSUME NEW t \in Trees, NEW fs, SoundFiles(fs), NEW word \in Seq(Char)
  PROVE  path_state_ls(t, fs, word) \in LsState
<1> DEFINE path == resolve_to_absolute(t, word)
           node == lookup_absolute(t, path)
           list == ToList(t, fs, path, node)
           end == FoldLeft(entry_insert_sorted, LsStart, list)
<1>1. path_state_ls(t, fs, word) = IF ~IsFile(fs, path)
      /\ node = 0 THEN [ok |-> FALSE, entries |-> <<>>] ELSE end
  BY Zenon DEF path_state_ls, LsStart
<1>2. path \in Seq(Seq(Char))
  BY AbsoluteType, SomePath
<1> HIDE DEF path
<1>3. node \in 0 .. Size(t)
  BY <1>2, FoundNode
<1> HIDE DEF node
<1>4. IsFile(fs, path) \/ node # 0 => list \in Seq(Listing)
  BY <1>3, ToListType
<1> HIDE DEF list
<1>5. IsFile(fs, path) \/ node # 0 => end \in LsState
  BY <1>4, ListedEntries
<1>6. [ok |-> FALSE, entries |-> <<>>] \in LsState
  <2> HIDE DEF Listing
  <2> QED BY DEF LsState
<1> HIDE DEF end
<1> QED BY <1>1, <1>5, <1>6

EntryLine(e) == e.name \o (IF e.kind = "dir" THEN <<Slash>> ELSE <<>>) \o <<LF>>

LEMMA LsText ==
  ASSUME NEW argv \in Words, NEW t \in Trees, NEW fs, SoundFiles(fs)
  PROVE  shell_builtin_ls(argv, t, fs) \in Seq(Char)
<1> DEFINE word == IF Len(argv) >= 2 THEN argv[2] ELSE <<Dot>>
           listed == path_state_ls(t, fs, word)
           e == listed.entries
           f == [k \in DOMAIN e |-> EntryLine(e[k])]
<1>1. shell_builtin_ls(argv, t, fs) = IF ~listed.ok THEN Text(4) ELSE FlattenSeq(f)
  BY Zenon DEF shell_builtin_ls, EntryLine
<1>2. word \in Seq(Char)
  <2>1. Len(argv) >= 2 => 2 \in 1 .. Len(argv)
    BY WordAt
  <2> QED BY <2>1, WordAt, FixedTexts
<1> HIDE DEF word
<1>3. listed \in LsState
  BY <1>2, LsType
<1> HIDE DEF listed
<1>4. e \in Seq(Listing)
  BY <1>3 DEF LsState
<1> DEFINE n == Len(e)
<1>5. n \in Nat /\ DOMAIN e = 1 .. n /\ \A k \in 1 .. n : e[k] \in Listing
  <2> HIDE DEF Listing, e
  <2> QED BY <1>4
<1>6. \A x \in Listing : EntryLine(x) \in Seq(Char)
  <2> SUFFICES ASSUME NEW x \in Listing PROVE EntryLine(x) \in Seq(Char)
    OBVIOUS
  <2> DEFINE name == x.name
             mark == IF x.kind = "dir" THEN <<Slash>> ELSE <<>>
  <2>1. name \in Seq(Char)
    BY DEF Listing
  <2>2. mark \in Seq(Char)
    BY FixedTexts
  <2>3. EntryLine(x) = name \o mark \o <<LF>>
    BY DEF EntryLine
  <2> HIDE DEF name, mark
  <2>4. name \o mark \in Seq(Char)
    BY <2>1, <2>2, Joining
  <2> QED BY <2>3, <2>4, FixedTexts, Joining
<1> HIDE DEF e, n
<1>7. f = [k \in 1 .. n |-> f[k]] /\ \A k \in 1 .. n : f[k] \in Seq(Char)
  BY <1>5, <1>6
<1> HIDE DEF f
<1>8. FlattenSeq(f) \in Seq(Char)
  BY <1>5, <1>7, Texts
<1> QED BY <1>1, <1>8, FixedTexts

\* What a command returns.
Ran == [tree : Trees, text : Seq(Char)]

LEMMA RanIs == \A t \in Trees, text \in Seq(Char) : [tree |-> t, text |-> text] \in Ran
<1> HIDE DEF Trees
<1> QED BY DEF Ran

LEMMA CdRan ==
  ASSUME NEW argv \in Words, NEW t \in Trees PROVE shell_builtin_cd(argv, t) \in Ran
<1> DEFINE target == IF Len(argv) >= 2 THEN argv[2] ELSE <<Slash>>
           to == fs_dir_cd(t, target)
           text == IF fs_dir_walk(t, target) = 0 THEN Text(5) ELSE <<>>
<1>1. shell_builtin_cd(argv, t) = [tree |-> to, text |-> text]
  BY DEF shell_builtin_cd
<1>2. target \in Seq(Char)
  <2>1. Len(argv) >= 2 => 2 \in 1 .. Len(argv)
    BY WordAt
  <2> QED BY <2>1, WordAt, FixedTexts
<1> HIDE DEF target
<1>3. to \in Trees
  BY <1>2, CdSound
<1>4. text \in Seq(Char)
  BY FixedTexts
<1> HIDE DEF to, text
<1> QED BY <1>1, <1>3, <1>4, RanIs

MkdirStep(s, word, made) ==
  [tree |-> made.tree, text |-> s.text \o (IF made.ok THEN <<>> ELSE Prefix(6) \o word \o <<LF>>)]

MkdirOne(s, word, fs) == MkdirStep(s, word, path_state_mkdir(s.tree, fs, word))

MkdirSteps(argv, fs) == [p \in Ran \X (1 .. Len(argv)) |-> MkdirOne(p[1], argv[p[2]], fs)]

MkdirAll(start, argv, fs) == FoldLeft(LAMBDA s, word : MkdirOne(s, word, fs), start, argv)

LEMMA MkdirOneRan ==
  ASSUME NEW s \in Ran, NEW word \in Seq(Char), NEW fs PROVE MkdirOne(s, word, fs) \in Ran
<1> DEFINE made == path_state_mkdir(s.tree, fs, word)
           said == IF made.ok THEN <<>> ELSE Prefix(6) \o word \o <<LF>>
           a == made.tree
           b == s.text \o said
<1>1. s.tree \in Trees /\ s.text \in Seq(Char)
  <2> HIDE DEF Trees
  <2> QED BY DEF Ran
<1>2. a \in Trees
  BY <1>1, MkdirSound
<1>3. said \in Seq(Char)
  <2>1. Prefix(6) \o word \o <<LF>> \in Seq(Char)
    BY FixedTexts, Joining
  <2> QED BY <2>1
<1>4. MkdirOne(s, word, fs) = [tree |-> a, text |-> b]
  BY DEF MkdirOne, MkdirStep
<1> HIDE DEF said
<1>5. b \in Seq(Char)
  BY <1>1, <1>3, Joining
<1> HIDE DEF a, b
<1> QED BY <1>2, <1>4, <1>5, RanIs

LEMMA MkdirRun ==
  ASSUME NEW start \in Ran, NEW argv \in Words, NEW fs
  PROVE  \E u : IsRun(u, Ran, start, Len(argv), MkdirSteps(argv, fs))
                /\ MkdirAll(start, argv, fs) = u[Len(argv)]
<1> DEFINE n == Len(argv)
           A == Ran
           G == MkdirSteps(argv, fs)
           b == start
           f == argv
           P(g) == g = [q \in SUBSET DOMAIN f |->
                          IF q = {} THEN b ELSE MkdirOne(g[q \ {Max(q)}], f[Max(q)], fs)]
           W == CHOOSE g : P(g)
<1>1. MkdirAll(start, argv, fs) = W[DOMAIN f]
  BY Zenon DEF MkdirAll, FoldLeft, MapThenFoldSet
<1>2. n \in Nat /\ DOMAIN f = 1 .. n /\ \A k \in 1 .. n : f[k] \in Seq(Char)
  BY WordAt
<1>3. b \in A
  OBVIOUS
<1>4. G \in [A \X (1 .. n) -> A] /\ \A a \in A, k \in 1 .. n : G[<<a, k>>] = MkdirOne(a, f[k], fs)
  <2>1. G = [p \in A \X (1 .. n) |-> MkdirOne(p[1], f[p[2]], fs)]
    BY DEF MkdirSteps
  <2> HIDE DEF n, G, f
  <2>2. \A a \in A, k \in 1 .. n : MkdirOne(a, f[k], fs) \in A
    BY <1>2, MkdirOneRan
  <2> HIDE DEF A
  <2> QED BY <2>1, <2>2
<1> HIDE DEF A, n, G, f, b
<1>5. \A q \in SUBSET (1 .. n) : q # {} => Max(q) \in 1 .. n
  BY <1>2, MaxIs
<1>6. \E g : P(g)
  <2>0. PICK g : IsFold(g, A, b, n, G)
    BY <1>2, <1>3, <1>4, FoldExists
  <2>1. g \in [SUBSET (1 .. n) -> A] /\ \A q \in SUBSET (1 .. n) :
          g[q] = IF q = {} THEN b ELSE G[<<g[q \ {Max(q)}], Max(q)>>]
    BY <2>0 DEF IsFold
  <2>2. ASSUME NEW q \in SUBSET (1 .. n)
        PROVE  g[q] = IF q = {} THEN b ELSE MkdirOne(g[q \ {Max(q)}], f[Max(q)], fs)
    <3>1. CASE q # {}
      <4>1. Max(q) \in 1 .. n /\ g[q \ {Max(q)}] \in A
        BY <1>5, <2>1, <3>1
      <4> QED BY <1>4, <2>1, <3>1, <4>1
    <3> QED BY <2>1, <3>1
  <2>3. g = [q \in SUBSET (1 .. n) |-> g[q]]
    BY <2>1
  <2>4. P(g)
    BY <1>2, <2>2, <2>3
  <2> QED BY <2>4
<1>7. P(W)
  BY <1>6
<1> HIDE DEF W
<1>8. FoldsBy(W, A, b, n, G)
  <2>1. \A q \in SUBSET (1 .. n) :
          W[q] = IF q = {} THEN b ELSE MkdirOne(W[q \ {Max(q)}], f[Max(q)], fs)
    BY <1>2, <1>7
  <2>2. {} \in SUBSET (1 .. n)
    OBVIOUS
  <2>3. W[{}] = b
    BY <2>1, <2>2
  <2>4. ASSUME NEW q \in SUBSET (1 .. n), q # {}, W[q \ {Max(q)}] \in A
        PROVE  W[q] = G[<<W[q \ {Max(q)}], Max(q)>>]
    <3> DEFINE m == Max(q)
    <3>1. m \in 1 .. n
      BY <1>5, <2>4
    <3>2. W[q] = MkdirOne(W[q \ {m}], f[m], fs) /\ W[q \ {m}] \in A
      BY <2>1, <2>4
    <3> HIDE DEF m
    <3>3. W[q] = G[<<W[q \ {m}], m>>]
      BY <1>4, <3>1, <3>2
    <3> QED BY <3>3 DEF m
  <2> QED BY <2>3, <2>4 DEF FoldsBy
<1>9. PICK u : RunsTo(u, W, A, b, n, G)
  BY <1>2, <1>3, <1>4, <1>8, FoldRun
<1> QED BY <1>1, <1>2, <1>9 DEF A, n, G, b, RunsTo

LEMMA MkdirRan ==
  ASSUME NEW argv \in Words, NEW t \in Trees, NEW fs PROVE shell_builtin_mkdir(argv, t, fs) \in Ran
<1> DEFINE start == [tree |-> t, text |-> <<>>]
           rest == Tail(argv)
           end == MkdirAll(start, rest, fs)
<1>1. shell_builtin_mkdir(argv, t, fs) = IF Len(argv) < 2 THEN [tree |-> t, text |-> Text(7)] ELSE end
  BY Zenon DEF shell_builtin_mkdir, MkdirAll, MkdirOne, MkdirStep
<1>2. [tree |-> t, text |-> Text(7)] \in Ran
  BY FixedTexts, RanIs
<1>3. start \in Ran
  <2>1. <<>> \in Seq(Char)
    OBVIOUS
  <2> QED BY <2>1, RanIs
<1>4. CASE ~(Len(argv) < 2)
  <2>1. rest \in Words
    BY <1>4, WordAt
  <2> HIDE DEF rest, start
  <2>2. PICK u : IsRun(u, Ran, start, Len(rest), MkdirSteps(rest, fs)) /\ end = u[Len(rest)]
    BY <1>3, <2>1, MkdirRun
  <2>3. Len(rest) \in 0 .. Len(rest)
    BY <2>1, WordAt
  <2>4. end \in Ran
    BY <2>2, <2>3 DEF IsRun
  <2> QED BY <1>1, <1>4, <2>4
<1>5. CASE Len(argv) < 2
  BY <1>1, <1>2, <1>5
<1> QED BY <1>4, <1>5

\* Every command prints a text and leaves a sound tree.
LEMMA ExecutedType ==
  ASSUME NEW argv \in Words, NEW t \in Trees, NEW fs, SoundFiles(fs), NEW stdin \in Seq(Char)
  PROVE  shell_execute_or_fallback(argv, t, fs, stdin) \in Ran
<1> DEFINE word == argv[1]
           program == Builtins[word]
           ran == shell_execute_builtin(argv, t, fs, stdin)
           P(text) == [tree |-> t, text |-> text]
           fall == Prefix(10) \o Joined(argv) \o <<LF>>
<1>1. shell_execute_or_fallback(argv, t, fs, stdin) = IF word \in DOMAIN Builtins THEN ran ELSE P(fall)
  BY Zenon DEF shell_execute_or_fallback
<1>2. P(fall) \in Ran
  <2>1. Prefix(10) \o Joined(argv) \in Seq(Char)
    BY JoinedType, FixedTexts, Joining
  <2>2. fall \in Seq(Char)
    BY <2>1, FixedTexts, Joining
  <2> HIDE DEF fall
  <2> QED BY <2>2, RanIs
<1>3. CASE word \in DOMAIN Builtins
  <2>1. program \in {"echo", "cat", "ls", "pwd", "cd", "mkdir", "help", "meminfo"}
    BY <1>3, ProgramAssumption
  <2> DEFINE echo == shell_builtin_echo(argv)
             cat == shell_builtin_cat(argv, t, fs, stdin)
             ls == shell_builtin_ls(argv, t, fs)
             pwd == shell_builtin_pwd(t)
             cd == shell_builtin_cd(argv, t)
             mkdir == shell_builtin_mkdir(argv, t, fs)
  <2>2. ran = CASE program = "echo" -> P(echo)
                [] program = "cat" -> P(cat)
                [] program = "ls" -> P(ls)
                [] program = "pwd" -> P(pwd)
                [] program = "cd" -> cd
                [] program = "mkdir" -> mkdir
                [] program = "help" -> P(shell_builtin_help)
                [] program = "meminfo" -> P(shell_builtin_meminfo)
    BY Zenon DEF shell_execute_builtin
  <2>3. /\ echo \in Seq(Char) /\ cat \in Seq(Char) /\ ls \in Seq(Char) /\ pwd \in Seq(Char)
        /\ shell_builtin_help \in Seq(Char) /\ shell_builtin_meminfo \in Seq(Char)
    <3>1. echo \in Seq(Char)
      BY EchoText
    <3>2. cat \in Seq(Char)
      BY CatText
    <3>3. ls \in Seq(Char)
      BY LsText
    <3>4. pwd \in Seq(Char)
      BY PwdText
    <3>5. shell_builtin_help \in Seq(Char) /\ shell_builtin_meminfo \in Seq(Char)
      BY FixedTexts DEF shell_builtin_help, shell_builtin_meminfo
    <3> QED BY <3>1, <3>2, <3>3, <3>4, <3>5
  <2>4. cd \in Ran /\ mkdir \in Ran
    BY CdRan, MkdirRan
  <2> HIDE DEF echo, cat, ls, pwd, cd, mkdir, program, ran
  <2>5. /\ P(echo) \in Ran /\ P(cat) \in Ran /\ P(ls) \in Ran /\ P(pwd) \in Ran
        /\ P(shell_builtin_help) \in Ran /\ P(shell_builtin_meminfo) \in Ran
    BY <2>3, RanIs
  <2> HIDE DEF P
  <2>6. ran \in Ran
    BY <2>1, <2>2, <2>4, <2>5
  <2> QED BY <1>1, <1>3, <2>6
<1> QED BY <1>1, <1>2, <1>3

-------------------------------------------------------------------------------
(* fd_table.c and the table of files *)

Fds == {f \in [stdout : {"console", "capture"}, stdin : Seq(Char), capture : Seq(Char)] :
          Len(f.capture) < CaptureCap}

LEMMA CutType ==
  ASSUME NEW text \in Seq(Char), NEW n \in Nat
  PROVE  Cut(text, n) \in Seq(Char) /\ Len(Cut(text, n)) <= n /\ Len(Cut(text, n)) \in Nat
<1> DEFINE m == IF Len(text) < n THEN Len(text) ELSE n
<1>1. m \in 0 .. Len(text) /\ m <= n /\ Cut(text, n) = SubSeq(text, 1, m)
  BY DEF Cut
<1> HIDE DEF m
<1> QED BY <1>1

LEMMA CutFits ==
  ASSUME NEW text \in Seq(Char), NEW n \in Nat, Len(text) <= n PROVE Cut(text, n) = text
<1>1. Cut(text, n) = SubSeq(text, 1, Len(text))
  BY DEF Cut
<1> QED BY <1>1, PrefixEnds

LEMMA CapsAre == CaptureCap \in Nat \ {0} /\ PipeCap \in Nat \ {0} /\ CaptureCap - 1 \in Nat
  /\ PipeCap - 1 \in Nat /\ CaptureCap <= PipeCap
BY ProgramAssumption

LEMMA FdIs ==
  ASSUME NEW f \in Fds
  PROVE  /\ f.stdout \in {"console", "capture"} /\ f.stdin \in Seq(Char) /\ f.capture \in Seq(Char)
         /\ Len(f.capture) < CaptureCap
         /\ f = [stdout |-> f.stdout, stdin |-> f.stdin, capture |-> f.capture]
BY DEF Fds

LEMMA IsFd ==
  ASSUME NEW a \in {"console", "capture"}, NEW b \in Seq(Char), NEW c \in Seq(Char), Len(c) < CaptureCap
  PROVE  [stdout |-> a, stdin |-> b, capture |-> c] \in Fds
BY DEF Fds

\* The operations of fd_table.c.
LEMMA ConsoleFd ==
  ASSUME NEW f \in Fds
  PROVE  LET g == shell_fd_set_stdout_console(f)
         IN  g \in Fds /\ g.stdout = "console" /\ g.stdin = f.stdin /\ g.capture = f.capture
BY DEF shell_fd_set_stdout_console, Fds

LEMMA CaptureFd ==
  ASSUME NEW f \in Fds
  PROVE  LET g == shell_fd_set_stdout_capture(f)
         IN  g \in Fds /\ g.stdout = "capture" /\ g.stdin = f.stdin /\ g.capture = <<>>
<1> DEFINE none == <<>>
<1>1. none \in Seq(Char) /\ Len(none) < CaptureCap
  BY CapsAre
<1>2. shell_fd_set_stdout_capture(f) = [f EXCEPT !.stdout = "capture", !.capture = none]
  BY DEF shell_fd_set_stdout_capture
<1> HIDE DEF none
<1> DEFINE g == [f EXCEPT !.stdout = "capture", !.capture = none]
<1>3. g \in Fds /\ g.stdout = "capture" /\ g.stdin = f.stdin /\ g.capture = none
  BY <1>1 DEF Fds
<1> HIDE DEF g
<1> QED BY <1>2, <1>3 DEF none, g

LEMMA StdinFd ==
  ASSUME NEW f \in Fds, NEW text \in Seq(Char)
  PROVE  LET g == shell_fd_set_stdin(f, text)
         IN  g \in Fds /\ g.stdout = f.stdout /\ g.stdin = text /\ g.capture = f.capture
BY DEF shell_fd_set_stdin, Fds

LEMMA WriteFd ==
  ASSUME NEW f \in Fds, NEW text \in Seq(Char)
  PROVE  LET g == shell_fd_write(f, text)
         IN  /\ g \in Fds /\ g.stdout = f.stdout
             /\ f.stdout = "capture" /\ f.capture = <<>> => g.capture = Cut(text, CaptureCap - 1)
<1> DEFINE c == f.capture \o text
           cut == Cut(c, CaptureCap - 1)
<1>1. c \in Seq(Char) /\ (f.capture = <<>> => c = text)
  BY FdIs, Joining, ConcatNone
<1>2. shell_fd_write(f, text) = IF f.stdout = "console" THEN f ELSE [f EXCEPT !.capture = cut]
  BY DEF shell_fd_write
<1> HIDE DEF c
<1>3. cut \in Seq(Char) /\ Len(cut) < CaptureCap
  BY <1>1, CutType, CapsAre
<1>4. f.capture = <<>> => cut = Cut(text, CaptureCap - 1)
  BY <1>1
<1> HIDE DEF cut
<1>5. CASE f.stdout = "console"
  BY <1>2, <1>5, FdIs
<1>6. CASE f.stdout # "console"
  <2> DEFINE g == [f EXCEPT !.capture = cut]
  <2>1. g \in Fds /\ g.stdout = f.stdout /\ g.capture = cut
    BY <1>3 DEF Fds
  <2> HIDE DEF g
  <2>2. shell_fd_write(f, text) = g
    BY <1>2, <1>6 DEF g
  <2> QED BY <1>4, <2>1, <2>2
<1> QED BY <1>5, <1>6

\* A write keeps every other file, and fails or stores the text behind what is kept.
WriteMeans(new, t, fs, path, old, text) ==
  \/ new.files = fs /\ new.ok = FALSE
  \/ /\ CanWrite(t, fs, path) /\ DOMAIN new.files = DOMAIN fs \cup {path}
     /\ \A other \in DOMAIN fs \ {path} : new.files[other] = fs[other]
     /\ \/ new.ok = TRUE /\ new.files[path] = old \o text
        \/ new.ok = FALSE /\ new.files[path] = old

LEMMA Written ==
  ASSUME NEW t, NEW fs, NEW word, NEW text, NEW append,
         NEW path, path = resolve_to_absolute(t, word)
  PROVE  WriteMeans(path_state_write_file(t, fs, word, text, append), t, fs, path,
                    OldContent(fs, path, append), text)
<1> DEFINE new == path_state_write_file(t, fs, word, text, append)
           old == OldContent(fs, path, append)
           fits == Len(old) + Len(text) + 1 <= ContentMax
           now == IF fits THEN old \o text ELSE old
           stored == [p \in DOMAIN fs \cup {path} |-> IF p = path THEN now ELSE fs[p]]
<1>1. new = IF CanWrite(t, fs, path) THEN [ok |-> fits, files |-> stored] ELSE [ok |-> FALSE, files |-> fs]
  BY Zenon DEF path_state_write_file
<1>2. DOMAIN stored = DOMAIN fs \cup {path} /\ stored[path] = now
      /\ \A other \in DOMAIN fs \ {path} : stored[other] = fs[other]
  OBVIOUS
<1> HIDE DEF new, stored
<1>3. CASE CanWrite(t, fs, path)
  <2>1. new.ok = fits /\ new.files = stored
    BY <1>1, <1>3
  <2>2. CASE fits
    <3>0. fits = TRUE
      BY <2>2
    <3>1. new.ok = TRUE /\ now = old \o text
      <4> HIDE DEF fits
      <4> QED BY <2>1, <2>2, <3>0
    <3> HIDE DEF fits, now, old
    <3> QED BY <1>2, <1>3, <2>1, <3>1 DEF new, old, WriteMeans
  <2>3. CASE ~fits
    <3>0. fits = FALSE
      BY <2>3
    <3>1. new.ok = FALSE /\ now = old
      <4> HIDE DEF fits
      <4> QED BY <2>1, <2>3, <3>0
    <3> HIDE DEF fits, now, old
    <3> QED BY <1>2, <1>3, <2>1, <3>1 DEF new, old, WriteMeans
  <2> QED BY <2>2, <2>3
<1>4. CASE ~CanWrite(t, fs, path)
  <2>1. new.ok = FALSE /\ new.files = fs
    BY <1>1, <1>4
  <2> QED BY <2>1 DEF new, WriteMeans
<1> QED BY <1>3, <1>4

\* A write leaves a sound table of files.
LEMMA WrittenSound ==
  ASSUME NEW t \in Trees, NEW fs, SoundFiles(fs), NEW word \in Seq(Char), NEW text \in Seq(Char), NEW append
  PROVE  SoundFiles(path_state_write_file(t, fs, word, text, append).files)
<1> DEFINE path == resolve_to_absolute(t, word)
           new == path_state_write_file(t, fs, word, text, append)
           old == OldContent(fs, path, append)
           to == new.files
<1>1. path \in Seq(Name) \cup {NoPath}
  BY AbsoluteType
<1>2. old \in Seq(Char)
  BY ShownText DEF OldContent
<1>3. \/ to = fs
      \/ /\ CanWrite(t, fs, path) /\ DOMAIN to = DOMAIN fs \cup {path}
         /\ \A other \in DOMAIN fs \ {path} : to[other] = fs[other]
         /\ to[path] \in {old \o text, old}
  <2>1. WriteMeans(new, t, fs, path, old, text)
    BY Written
  <2> HIDE DEF path, new, old
  <2>2. \/ new.files = fs
        \/ /\ CanWrite(t, fs, path) /\ DOMAIN new.files = DOMAIN fs \cup {path}
           /\ \A other \in DOMAIN fs \ {path} : new.files[other] = fs[other]
           /\ new.files[path] = old \o text \/ new.files[path] = old
    BY <2>1 DEF WriteMeans
  <2> DEFINE grown == old \o text
             at == to[path]
  <2>3. at = grown => at \in {grown, old}
    OBVIOUS
  <2>4. at = old => at \in {grown, old}
    OBVIOUS
  <2> QED BY <2>2, <2>3, <2>4
<1> HIDE DEF new, old, path, to
<1>4. old \o text \in Seq(Char)
  BY <1>2, Joining
<1>5. CASE to = fs
  BY <1>5 DEF to, new
<1>6. CASE to # fs
  <2>1. path \in Seq(Name) \ {Root}
    BY <1>1, <1>3, <1>6 DEF CanWrite
  <2>2. IsFiniteSet(DOMAIN to)
    <3>1. IsFiniteSet(DOMAIN fs)
      BY DEF SoundFiles
    <3>2. IsFiniteSet(DOMAIN fs \cup {path})
      BY <3>1, FS_AddElement
    <3> QED BY <1>3, <1>6, <3>2
  <2>3. DOMAIN to \subseteq Seq(Name) \ {Root}
    BY <1>3, <1>6, <2>1 DEF SoundFiles
  <2>4. \A p \in DOMAIN to : to[p] \in Seq(Char)
    BY <1>2, <1>3, <1>4, <1>6 DEF SoundFiles
  <2> QED BY <2>2, <2>3, <2>4 DEF SoundFiles, to, new
<1> QED BY <1>5, <1>6

\* A redirection to an empty word goes to the current directory, and is refused.
LEMMA AbsoluteIs ==
  ASSUME NEW t \in Trees, NEW word \in Seq(Char)
  PROVE  resolve_to_absolute(t, word) \in {Meant(fs_dir_pwd(t), word), NoPath}
<1> DEFINE cwd == fs_dir_pwd(t)
           w == IF word = <<>> THEN <<Dot>> ELSE word
<1>1. cwd \in Seq(Name)
  BY PwdType
<1>2. resolve_to_absolute(t, word) = fs_path_resolve(cwd, w)
  BY DEF resolve_to_absolute
<1>3. w \in Seq(Char)
  BY FixedTexts
<1> HIDE DEF cwd
<1>4. fs_path_resolve(cwd, w) \in {Meant(cwd, w), NoPath}
  <2> HIDE DEF w
  <2> QED BY <1>1, <1>3, ResolvedFrom
<1>5. word = <<>> => Meant(cwd, w) = Meant(cwd, word)
  <2> SUFFICES ASSUME word = <<>> PROVE Meant(cwd, <<Dot>>) = Meant(cwd, <<>>)
    OBVIOUS
  <2> DEFINE dot == <<Dot>>
             none == <<>>
  <2>1. dot # <<>> /\ dot[1] # Slash
    BY DEF Dot, Slash
  <2>2. dot \in Word
    BY DEF Word, Piece, Dot, Slash, Char
  <2>3. Runs(dot, {Slash}) = <<dot>> /\ Runs(none, {Slash}) = <<>>
    BY <2>2, RunsOne, RunsNone DEF Word
  <2>4. Undotted(<<dot>>) = Undotted(none)
    <3>1. none \in Seq(Word) /\ Append(none, dot) = <<dot>>
      OBVIOUS
    <3>2. segment_is_dot(dot)
      BY DEF segment_is_dot
    <3> HIDE DEF dot, none
    <3> QED BY <2>2, <3>1, <3>2, UndottedAppend
  <2>5. Undotted(Runs(dot, {Slash})) = Undotted(Runs(none, {Slash}))
    BY <2>3, <2>4
  <2>6. Meant(cwd, dot) = Uncancelled(cwd \o Undotted(Runs(dot, {Slash})), Up)
    <3> HIDE DEF dot
    <3> QED BY <2>1, MeantIs
  <2>7. Meant(cwd, none) = Uncancelled(cwd \o Undotted(Runs(none, {Slash})), Up)
    BY MeantIs
  <2> QED BY <2>5, <2>6, <2>7
<1> QED BY <1>2, <1>4, <1>5 DEF cwd

-------------------------------------------------------------------------------
(* A line, from its parse to its end *)

\* What the commands of the line return, run one after the other.
First == shell_execute_or_fallback(cmd.left, before.tree, before.files, <<>>)

Final == IF ~cmd.pipe THEN First
         ELSE shell_execute_or_fallback(cmd.right, First.tree, before.files, Cut(First.text, CaptureCap - 1))

\* The line has printed a text, or has tried to write it to its file.
Printed(text) == console = text /\ files = before.files

Stored(path, text) ==
  /\ \A other \in DOMAIN files \ {path} : files[other] = before.files[other]
  /\ console = <<>> =>
       files[path] = (IF cmd.redir = "append" /\ IsFile(before.files, path)
                        THEN Visible(before.files, path) ELSE <<>>) \o text
  /\ console # <<>> => console = Text(12)

Effect ==
  /\ tree = Final.tree
  /\ IF cmd.redir = "none" THEN Printed(Final.text)
     ELSE Stored(Meant(fs_dir_pwd(Final.tree), cmd.path), Cut(Final.text, CaptureCap - 1))

\* The words, the tree and the files are sound, and nothing is left of an earlier
\* line that the commands still to run could see.
ShellTypes ==
  /\ input \in Seq(Char) /\ buffer \in Seq(Char) /\ line \in Seq(Char)
  /\ IsCmd(cmd) /\ fd \in Fds /\ tree \in Trees /\ SoundFiles(files)

LineInv ==
  /\ pc = "left" => cmd.ok /\ tree = before.tree /\ files = before.files /\ console = <<>>
  /\ pc = "right" =>
       /\ cmd.ok /\ cmd.pipe /\ tree = First.tree /\ files = before.files /\ console = <<>>
       /\ fd.capture = Cut(First.text, CaptureCap - 1)
  /\ pc = "write" =>
       /\ cmd.ok /\ cmd.redir # "none" /\ tree = Final.tree /\ files = before.files /\ console = <<>>
       /\ fd.capture = Cut(Final.text, CaptureCap - 1)
  /\ pc = "done" /\ cmd.ok => Effect

ShellInv == ShellTypes /\ LineInv

\* Effect is what LineMeansPipeline says of a line that is done.
LEMMA EffectIs == (pc = "done" /\ cmd.ok => Effect) => LineMeansPipeline
BY Zenon DEF Effect, Printed, Stored, First, Final, LineMeansPipeline

\* The shell starts in ShellInv, and every action keeps it.
LEMMA ShellInit == Init => ShellInv
<1> SUFFICES ASSUME Init PROVE ShellInv
  OBVIOUS
<1>1. input \in Seq(Char) /\ buffer \in Seq(Char) /\ line \in Seq(Char)
  <2>1. input \in FirstLines \/ input = <<>>
    BY DEF Init
  <2>2. input \in Seq(Char)
    <3>1. FirstLines \subseteq Seq(Char)
      BY InputAssumption
    <3>2. <<>> \in Seq(Char)
      OBVIOUS
    <3>3. input \in FirstLines => input \in Seq(Char)
      BY <3>1
    <3> QED BY <2>1, <3>2, <3>3
  <2>3. buffer = <<>> /\ line = <<>>
    BY DEF Init
  <2> QED BY <2>2, <2>3
<1>2. fd \in Fds
  <2> DEFINE none == <<>>
  <2>1. none \in Seq(Char) /\ Len(none) < CaptureCap
    BY CapsAre
  <2>2. fd = [stdout |-> "console", stdin |-> none, capture |-> none]
    BY DEF Init
  <2> HIDE DEF none
  <2> QED BY <2>1, <2>2, IsFd
<1>3. SoundFiles(files)
  <2>1. files = <<>> /\ DOMAIN files = {}
    BY DEF Init
  <2> QED BY <2>1, FS_EmptySet DEF SoundFiles
<1>4. tree \in Trees /\ IsCmd(cmd)
  BY InitialLinked, LinkedIs, ErrorIsCmd DEF Init
<1>5. LineInv
  BY DEF Init, LineInv
<1> QED BY <1>1, <1>2, <1>3, <1>4, <1>5 DEF ShellInv, ShellTypes

\* Reading changes nothing that a line is made of.
LEMMA ShellReads ==
  ASSUME ShellInv, UNCHANGED <<cmd, fd, tree, files>>,
         input' \in Seq(Char), buffer' \in Seq(Char), line' \in Seq(Char), pc' \in {"read", "parse"}
  PROVE  ShellInv'
<1>1. ShellTypes'
  BY DEF ShellInv, ShellTypes
<1>2. LineInv'
  BY DEF LineInv
<1> QED BY <1>1, <1>2 DEF ShellInv

LEMMA ShellEdits == ShellInv /\ EditLine => ShellInv'
<1> SUFFICES ASSUME ShellInv, EditLine PROVE ShellInv'
  OBVIOUS
<1> DEFINE byte == Head(input)
<1>1. input \in Seq(Char) /\ buffer \in Seq(Char) /\ line \in Seq(Char)
  BY DEF ShellInv, ShellTypes
<1>2. byte \in Char /\ Tail(input) \in Seq(Char)
  BY <1>1 DEF EditLine
<1> HIDE DEF byte
<1>3. Edited(buffer, byte) \in Seq(Char)
  <2>1. buffer # <<>> => Front(buffer) \in Seq(Char)
    BY <1>1, FrontLast
  <2>2. Append(buffer, byte) \in Seq(Char)
    BY <1>1, <1>2
  <2> QED BY <1>1, <2>1, <2>2 DEF Edited
<1>4. input' = Tail(input) /\ buffer' = Edited(buffer, byte) /\ line' = line /\ pc' = "read"
      /\ UNCHANGED <<cmd, fd, tree, files>>
  BY DEF EditLine, byte
<1> QED BY <1>1, <1>2, <1>3, <1>4, ShellReads

LEMMA ShellReturns == ShellInv /\ ReturnLine => ShellInv'
<1> SUFFICES ASSUME ShellInv, ReturnLine PROVE ShellInv'
  OBVIOUS
<1>1. input \in Seq(Char) /\ buffer \in Seq(Char)
  BY DEF ShellInv, ShellTypes
<1>2. Tail(input) \in Seq(Char) /\ <<>> \in Seq(Char)
  BY <1>1 DEF ReturnLine
<1>3. Cut(buffer, LineSize - 1) \in Seq(Char)
  <2>1. LineSize - 1 \in Nat
    BY InputAssumption
  <2> QED BY <1>1, <2>1, CutType
<1>4. input' = Tail(input) /\ buffer' = <<>> /\ line' = Cut(buffer, LineSize - 1)
      /\ pc' \in {"read", "parse"} /\ UNCHANGED <<cmd, fd, tree, files>>
  BY DEF ReturnLine
<1> QED BY <1>2, <1>3, <1>4, ShellReads

LEMMA ShellParses == ShellInv /\ ParseLine => ShellInv'
<1> SUFFICES ASSUME ShellInv, ParseLine PROVE ShellInv'
  OBVIOUS
<1>1. /\ input \in Seq(Char) /\ buffer \in Seq(Char) /\ line \in Seq(Char)
      /\ fd \in Fds /\ tree \in Trees /\ SoundFiles(files)
  BY DEF ShellInv, ShellTypes
<1>2. IsCmd(cmd')
  BY <1>1, CmdType DEF ParseLine
<1>3. fd' \in Fds
  BY <1>1, ConsoleFd DEF ParseLine
<1>4. ShellTypes'
  BY <1>1, <1>2, <1>3 DEF ParseLine, ShellTypes
<1>5. before'.tree = tree /\ before'.files = files
  BY DEF ParseLine
<1>6. cmd'.ok \in BOOLEAN
  BY <1>2 DEF IsCmd
<1>7. LineInv'
  <2>1. CASE cmd'.ok
    <3>1. pc' = "left" /\ console' = <<>> /\ tree' = tree /\ files' = files
      BY <2>1 DEF ParseLine
    <3> QED BY <1>5, <2>1, <3>1 DEF LineInv
  <2>2. CASE ~cmd'.ok
    <3>1. pc' = "done"
      BY <2>2 DEF ParseLine
    <3> QED BY <2>2, <3>1 DEF LineInv
  <2> QED BY <2>1, <2>2
<1> QED BY <1>4, <1>7 DEF ShellInv

\* Only a parse changes what the line means.
LEMMA SameLine == UNCHANGED <<cmd, before>> => First' = First /\ Final' = Final
BY DEF First, Final

\* A command writes to the console or to the capture.
LEMMA Told ==
  ASSUME NEW out \in Fds, NEW text \in Seq(Char), NEW ended, ended = shell_fd_write(out, text),
         NEW shown, shown = <<>> \o ToConsole(out, text)
  PROVE  /\ ended \in Fds
         /\ out.stdout = "console" => shown = text
         /\ out.stdout = "capture" => shown = <<>>
         /\ out.stdout = "capture" /\ out.capture = <<>> => ended.capture = Cut(text, CaptureCap - 1)
<1>1. /\ ended \in Fds
      /\ out.stdout = "capture" /\ out.capture = <<>> => ended.capture = Cut(text, CaptureCap - 1)
  BY WriteFd
<1>2. out.stdout = "console" => shown = text
  <2> SUFFICES ASSUME out.stdout = "console" PROVE shown = text
    OBVIOUS
  <2>1. shown = <<>> \o text
    BY DEF ToConsole
  <2> QED BY <2>1, ConcatNone
<1>3. out.stdout = "capture" => shown = <<>>
  <2> SUFFICES ASSUME out.stdout = "capture" PROVE shown = <<>>
    OBVIOUS
  <2>1. shown = <<>> \o <<>>
    BY DEF ToConsole
  <2> QED BY <2>1
<1> QED BY <1>1, <1>2, <1>3

\* The first command starts from what the line found, whatever fd_table.c held.
LEMMA ShellLeft == ShellInv /\ ExecuteLeft => ShellInv'
<1> SUFFICES ASSUME ShellInv, ExecuteLeft PROVE ShellInv'
  OBVIOUS
<1> DEFINE redirected == cmd.pipe \/ cmd.redir # "none"
           mode == IF redirected THEN shell_fd_set_stdout_capture(fd) ELSE shell_fd_set_stdout_console(fd)
           none == <<>>
           out == shell_fd_set_stdin(mode, none)
           ran == shell_execute_or_fallback(cmd.left, tree, files, out.stdin)
<1>1. ShellTypes /\ IsCmd(cmd) /\ fd \in Fds /\ tree \in Trees /\ SoundFiles(files)
  BY SMTT(30) DEF ShellInv, ShellTypes
<1>2. cmd.ok /\ tree = before.tree /\ files = before.files /\ console = <<>>
  BY DEF ShellInv, LineInv, ExecuteLeft
<1>3. /\ tree' = ran.tree /\ fd' = shell_fd_write(out, ran.text)
      /\ console' = console \o ToConsole(out, ran.text)
      /\ pc' = IF cmd.pipe THEN "right" ELSE IF redirected THEN "write" ELSE "done"
      /\ UNCHANGED <<readVars, line, cmd, files, before>>
  BY Zenon DEF ExecuteLeft
<1>4. none \in Seq(Char)
  OBVIOUS
<1>5. /\ mode \in Fds /\ mode.stdout = (IF redirected THEN "capture" ELSE "console")
      /\ redirected => mode.capture = none
  BY <1>1, ConsoleFd, CaptureFd
<1> HIDE DEF mode, redirected
<1>6. /\ out \in Fds /\ out.stdin = none /\ out.stdout = (IF redirected THEN "capture" ELSE "console")
      /\ redirected => out.capture = none
  <2> HIDE DEF none
  <2> QED BY <1>4, <1>5, StdinFd
<1> HIDE DEF out
<1>7. ran = First
  BY <1>2, <1>6 DEF First
<1>8. ran \in Ran
  <2>1. cmd.left \in Words
    BY <1>1 DEF IsCmd
  <2> HIDE DEF none
  <2> QED BY <1>1, <1>4, <1>6, <2>1, ExecutedType
<1> DEFINE text == ran.text
<1>9. tree' \in Trees /\ text \in Seq(Char)
  <2> HIDE DEF ran, Trees
  <2> QED BY <1>3, <1>8 DEF Ran
<1> HIDE DEF ran
<1>10. fd' = shell_fd_write(out, text) /\ console' = <<>> \o ToConsole(out, text)
  BY <1>2, <1>3
<1> HIDE DEF text
<1>11. /\ fd' \in Fds
       /\ out.stdout = "console" => console' = text
       /\ out.stdout = "capture" => console' = <<>>
       /\ out.stdout = "capture" /\ out.capture = <<>> => fd'.capture = Cut(text, CaptureCap - 1)
  BY <1>6, <1>9, <1>10, Told
<1>12. ShellTypes'
  BY <1>1, <1>3, <1>9, <1>11 DEF ShellTypes, readVars
<1>13. First' = First /\ Final' = Final /\ text = First.text /\ tree' = First.tree
  BY <1>3, <1>7, SameLine DEF text
<1>14. cmd' = cmd /\ files' = files /\ before' = before
  BY <1>3
<1>15. cmd.pipe \in BOOLEAN
  BY <1>1 DEF IsCmd
<1>16. CASE cmd.pipe
  <2>1. redirected /\ pc' = "right"
    BY <1>3, <1>16 DEF redirected
  <2>2. console' = <<>> /\ fd'.capture = Cut(text, CaptureCap - 1)
    BY <1>6, <1>11, <2>1
  <2>3. LineInv'
    BY <1>2, <1>13, <1>14, <1>16, <2>1, <2>2 DEF LineInv
  <2> QED BY <1>12, <2>3 DEF ShellInv
<1>17. CASE ~cmd.pipe /\ redirected
  <2>1. pc' = "write" /\ cmd.redir # "none" /\ Final = First
    BY <1>3, <1>17 DEF redirected, Final
  <2>2. console' = <<>> /\ fd'.capture = Cut(text, CaptureCap - 1)
    BY <1>6, <1>11, <1>17
  <2>3. LineInv'
    BY <1>2, <1>13, <1>14, <1>17, <2>1, <2>2 DEF LineInv
  <2> QED BY <1>12, <2>3 DEF ShellInv
<1>18. CASE ~cmd.pipe /\ ~redirected
  <2>1. pc' = "done" /\ cmd.redir = "none" /\ Final = First
    BY <1>3, <1>18 DEF redirected, Final
  <2>2. console' = text
    BY <1>6, <1>11, <1>18
  <2>3. Effect'
    BY <1>2, <1>13, <1>14, <2>1, <2>2 DEF Effect, Printed
  <2>4. LineInv'
    BY <2>1, <2>3 DEF LineInv
  <2> QED BY <1>12, <2>4 DEF ShellInv
<1> QED BY <1>15, <1>16, <1>17, <1>18

\* The second command is given what the first one printed.
LEMMA ShellRight == ShellInv /\ ExecuteRight => ShellInv'
<1> SUFFICES ASSUME ShellInv, ExecuteRight PROVE ShellInv'
  OBVIOUS
<1> DEFINE given == shell_fd_set_stdin(fd, Cut(fd.capture, PipeCap - 1))
           out == IF cmd.redir = "none" THEN shell_fd_set_stdout_console(given)
                  ELSE shell_fd_set_stdout_capture(given)
           ran == shell_execute_or_fallback(cmd.right, tree, files, out.stdin)
           text == ran.text
           wrote == shell_fd_write(out, text)
<1>1. ShellTypes /\ IsCmd(cmd) /\ fd \in Fds /\ tree \in Trees /\ SoundFiles(files)
  BY DEF ShellInv, ShellTypes
<1>2. /\ cmd.ok /\ cmd.pipe /\ tree = First.tree /\ files = before.files /\ console = <<>>
      /\ fd.capture = Cut(First.text, CaptureCap - 1)
  BY DEF ShellInv, LineInv, ExecuteRight
<1>3. /\ tree' = ran.tree /\ fd' = shell_fd_set_stdin(wrote, <<>>)
      /\ console' = console \o ToConsole(out, text)
      /\ pc' = IF cmd.redir = "none" THEN "done" ELSE "write"
      /\ UNCHANGED <<readVars, line, cmd, files, before>>
  BY Zenon DEF ExecuteRight
<1>4. Cut(fd.capture, PipeCap - 1) = fd.capture /\ fd.capture \in Seq(Char)
  <2>1. fd.capture \in Seq(Char) /\ Len(fd.capture) < CaptureCap
    BY <1>1, FdIs
  <2>2. Len(fd.capture) \in Nat /\ Len(fd.capture) <= PipeCap - 1
    BY <2>1, CapsAre
  <2> QED BY <2>1, <2>2, CapsAre, CutFits
<1>5. given \in Fds /\ given.stdin = fd.capture
  BY <1>1, <1>4, StdinFd
<1> HIDE DEF given
<1>6. /\ out \in Fds /\ out.stdin = fd.capture
      /\ cmd.redir = "none" => out.stdout = "console"
      /\ cmd.redir # "none" => out.stdout = "capture" /\ out.capture = <<>>
  BY <1>5, ConsoleFd, CaptureFd
<1> HIDE DEF out
<1>7. ran = Final
  BY <1>2, <1>6 DEF Final
<1>8. ran \in Ran
  <2>1. cmd.right \in Words
    BY <1>1 DEF IsCmd
  <2> QED BY <1>1, <1>4, <1>6, <2>1, ExecutedType
<1>9. tree' \in Trees /\ text \in Seq(Char)
  <2> HIDE DEF ran, Trees
  <2> QED BY <1>3, <1>8 DEF Ran
<1> HIDE DEF ran
<1>10. console' = <<>> \o ToConsole(out, text)
  BY <1>2, <1>3
<1> HIDE DEF text
<1>11. /\ wrote \in Fds
       /\ out.stdout = "console" => console' = text
       /\ out.stdout = "capture" => console' = <<>>
       /\ out.stdout = "capture" /\ out.capture = <<>> => wrote.capture = Cut(text, CaptureCap - 1)
  BY <1>6, <1>9, <1>10, Told
<1> HIDE DEF wrote
<1>12. fd' \in Fds /\ fd'.capture = wrote.capture
  <2>1. <<>> \in Seq(Char)
    OBVIOUS
  <2> QED BY <1>3, <1>11, <2>1, StdinFd
<1>13. ShellTypes'
  BY <1>1, <1>3, <1>9, <1>12 DEF ShellTypes, readVars
<1>14. First' = First /\ Final' = Final /\ text = Final.text /\ tree' = Final.tree
  BY <1>3, <1>7, SameLine DEF text
<1>15. cmd' = cmd /\ files' = files /\ before' = before
  BY <1>3
<1>16. CASE cmd.redir # "none"
  <2>1. pc' = "write" /\ console' = <<>> /\ fd'.capture = Cut(text, CaptureCap - 1)
    BY <1>3, <1>6, <1>11, <1>12, <1>16
  <2>2. LineInv'
    BY <1>2, <1>14, <1>15, <1>16, <2>1 DEF LineInv
  <2> QED BY <1>13, <2>2 DEF ShellInv
<1>17. CASE cmd.redir = "none"
  <2>1. pc' = "done" /\ console' = text
    BY <1>3, <1>6, <1>11, <1>17
  <2>2. Effect'
    BY <1>2, <1>14, <1>15, <1>17, <2>1 DEF Effect, Printed
  <2>3. LineInv'
    BY <2>1, <2>2 DEF LineInv
  <2> QED BY <1>13, <2>3 DEF ShellInv
<1> QED BY <1>16, <1>17, SMTT(30)

\* The file gets what is in the capture, or stays as it was.
LEMMA ShellWrites == ShellInv /\ shell_write_redirection => ShellInv'
<1> SUFFICES ASSUME ShellInv, shell_write_redirection PROVE ShellInv'
  OBVIOUS
<1> DEFINE append == cmd.redir = "append"
           text == fd.capture
           path == resolve_to_absolute(tree, cmd.path)
           written == path_state_write_file(tree, files, cmd.path, text, append)
           old == OldContent(files, path, append)
<1>1. ShellTypes /\ IsCmd(cmd) /\ fd \in Fds /\ tree \in Trees /\ SoundFiles(files)
  BY DEF ShellInv, ShellTypes
<1>2. /\ cmd.ok /\ cmd.redir # "none" /\ tree = Final.tree /\ files = before.files /\ console = <<>>
      /\ fd.capture = Cut(Final.text, CaptureCap - 1)
  BY DEF ShellInv, LineInv, shell_write_redirection
<1>3. /\ files' = written.files
      /\ fd' = IF written.ok THEN fd ELSE shell_fd_set_stdout_console(fd)
      /\ console' = IF written.ok THEN console ELSE console \o Text(12)
      /\ pc' = "done" /\ UNCHANGED <<readVars, line, cmd, tree, before>>
  BY Zenon DEF shell_write_redirection
<1>4. cmd.path \in Seq(Char) /\ text \in Seq(Char)
  BY <1>1, FdIs DEF IsCmd
<1>5. SoundFiles(files')
  <2> HIDE DEF append, text
  <2> QED BY <1>1, <1>3, <1>4, WrittenSound
<1>6. fd' \in Fds
  BY <1>1, <1>3, ConsoleFd
<1>7. ShellTypes'
  BY <1>1, <1>3, <1>5, <1>6 DEF ShellTypes, readVars
<1>8. WriteMeans(written, tree, files, path, old, text)
  BY Written
<1>9. path \in {Meant(fs_dir_pwd(tree), cmd.path), NoPath}
  BY <1>1, <1>4, AbsoluteIs
<1>10. <<>> \o Text(12) = Text(12) /\ Text(12) # <<>>
  BY FixedTexts, ConcatNone
<1>11. old = IF cmd.redir = "append"
       /\ IsFile(before.files, path) THEN Visible(before.files, path) ELSE <<>>
  BY <1>2 DEF OldContent
<1> DEFINE meant == Meant(fs_dir_pwd(Final.tree), cmd.path)
           all == Cut(Final.text, CaptureCap - 1)
<1>12. Final' = Final /\ meant' = meant /\ all' = all /\ cmd' = cmd /\ before' = before
       /\ tree' = Final.tree
  <2>1. Final' = Final /\ cmd' = cmd /\ before' = before /\ tree' = tree
    BY <1>3, SameLine
  <2> QED BY <1>2, <2>1
<1>13. path \in {meant, NoPath} /\ text = all
  BY <1>2, <1>9
<1> HIDE DEF written, path, old, append, meant, all, text
<1>14. Stored(meant, all)'
  <2> SUFFICES /\ \A other \in DOMAIN files' \ {meant} : files'[other] = before.files[other]
               /\ console' = <<>> => files'[meant] = (IF cmd.redir = "append" /\ IsFile(before.files, meant)
                                                        THEN Visible(before.files, meant) ELSE <<>>) \o all
               /\ console' # <<>> => console' = Text(12)
    BY <1>12 DEF Stored
  <2>1. CASE written.files = files /\ written.ok = FALSE
    <3>1. files' = before.files /\ console' = Text(12)
      BY <1>2, <1>3, <1>10, <2>1
    <3> QED BY <1>10, <3>1
  <2>2. CASE ~(written.files = files /\ written.ok = FALSE)
    <3>1. /\ CanWrite(tree, files, path) /\ DOMAIN files' = DOMAIN files \cup {path}
          /\ \A other \in DOMAIN files \ {path} : files'[other] = files[other]
          /\ \/ written.ok = TRUE /\ files'[path] = old \o text
             \/ written.ok = FALSE /\ files'[path] = old
      BY <1>3, <1>8, <2>2 DEF WriteMeans
    <3>2. path = meant
      BY <1>13, <3>1 DEF CanWrite
    <3>3. \A other \in DOMAIN files' \ {meant} : files'[other] = before.files[other]
      BY <1>2, <3>1, <3>2
    <3>4. CASE written.ok = TRUE
      <4>1. console' = <<>> /\ files'[path] = old \o all
        BY <1>2, <1>3, <1>13, <3>1, <3>4
      <4> QED BY <1>11, <3>2, <3>3, <4>1
    <3>5. CASE written.ok = FALSE
      <4>1. console' = Text(12)
        BY <1>2, <1>3, <1>10, <3>5
      <4> QED BY <1>10, <3>3, <4>1
    <3> QED BY <3>1, <3>4, <3>5
  <2> QED BY <2>1, <2>2
<1>15. Effect'
  BY <1>2, <1>12, <1>14 DEF Effect, meant, all
<1>16. LineInv'
  BY <1>3, <1>15 DEF LineInv
<1> QED BY <1>7, <1>16 DEF ShellInv

LEMMA ShellStep == ShellInv /\ [Next]_vars => ShellInv'
<1> SUFFICES ASSUME ShellInv, [Next]_vars PROVE ShellInv'
  OBVIOUS
<1>1. input \in Seq(Char) /\ buffer \in Seq(Char) /\ line \in Seq(Char)
  BY DEF ShellInv, ShellTypes
<1>2. ASSUME NEW bytes \in Lines, Arrive(bytes) PROVE ShellInv'
  <2>1. bytes \in Seq(Char)
    <3>1. Lines \subseteq Seq(Char)
      BY InputAssumption
    <3> QED BY <3>1
  <2>2. input' = bytes /\ UNCHANGED <<buffer, line, pc, cmd, fd, tree, files>> /\ pc = "read"
    BY <1>2 DEF Arrive
  <2> QED BY <1>1, <2>1, <2>2, ShellReads
<1>3. CASE SkipLineFeed
  <2>1. Tail(input) \in Seq(Char)
    BY <1>1, <1>3 DEF SkipLineFeed
  <2>2. input' = Tail(input) /\ UNCHANGED <<buffer, line, pc, cmd, fd, tree, files>> /\ pc = "read"
    BY <1>3 DEF SkipLineFeed
  <2> QED BY <1>1, <2>1, <2>2, ShellReads
<1>4. CASE EditLine
  BY <1>4, ShellEdits
<1>5. CASE ReturnLine
  BY <1>5, ShellReturns
<1>6. CASE ParseLine
  BY <1>6, ShellParses
<1>7. CASE ExecuteLeft
  BY <1>7, ShellLeft
<1>8. CASE ExecuteRight
  BY <1>8, ShellRight
<1>9. CASE shell_write_redirection
  BY <1>9, ShellWrites
<1>10. CASE Prompt
  <2>1. UNCHANGED <<input, buffer, line, cmd, fd, tree, files>> /\ pc' = "read"
    BY <1>10 DEF Prompt, readVars
  <2> QED BY <1>1, <2>1, ShellReads
<1>11. CASE UNCHANGED vars
  <2>1. ShellTypes' /\ pc' = pc /\ cmd' = cmd /\ tree' = tree /\ files' = files /\ before' = before
        /\ console' = console /\ fd' = fd
    BY <1>11 DEF vars, readVars, ShellInv, ShellTypes
  <2>2. First' = First /\ Final' = Final
    BY <2>1, SameLine
  <2>3. Effect' = Effect
    BY <2>1, <2>2 DEF Effect, Printed, Stored
  <2>4. LineInv'
    BY <2>1, <2>2, <2>3 DEF ShellInv, LineInv
  <2> QED BY <2>1, <2>4 DEF ShellInv
<1> QED BY <1>2, <1>3, <1>4, <1>5, <1>6, <1>7, <1>8, <1>9, <1>10, <1>11 DEF Next

\* A path that a command is given is resolved to the place that its names mean, or
\* is refused because it does not fit (fs_path_resolve, fs_path_normalize): however
\* the directories were made and entered, and for every size of the buffers.
THEOREM PathsAsMeant == Spec => []ResolvedAsMeant
<1>1. ShellInv => ResolvedAsMeant
  <2> SUFFICES ASSUME ShellInv, NEW i \in 2 .. Len(cmd.left)
               PROVE  LET word == cmd.left[i]
                          here == fs_dir_pwd(tree)
                          joined == IF word[1] = Slash THEN Len(word) + 1
                          ELSE Len(Spelled(here)) + Len(word) + 2
                          found == fs_path_resolve(here, word)
                      IN  found = Meant(here, word) \/ (found = NoPath /\ joined > PathMax)
    BY DEF ResolvedAsMeant
  <2> DEFINE word == cmd.left[i]
             here == fs_dir_pwd(tree)
  <2>1. cmd.left \in Words /\ tree \in Trees
    BY DEF ShellInv, ShellTypes, IsCmd
  <2>2. word \in Seq(Char)
    <3>1. i \in 1 .. Len(cmd.left)
      BY <2>1, WordAt
    <3> QED BY <2>1, <3>1, WordAt
  <2>3. here \in Seq(Name)
    BY <2>1, PwdType
  <2> HIDE DEF word, here
  <2>4. fs_path_resolve(here, word) = Meant(here, word) \/ (fs_path_resolve(here, word) = NoPath
        /\ JoinedLen(here, word) > PathMax)
    BY <2>2, <2>3, ResolvedFrom
  <2> QED BY <2>4 DEF JoinedLen, word, here
<1> QED BY <1>1, ShellInit, ShellStep, PTL DEF Spec

\* A line does what its commands do one after the other, whatever the lines before
\* it left in the stdout mode, the stdin and the capture of fd_table.c.
THEOREM LinesMeanPipelines == Spec => []LineMeansPipeline
<1>1. ShellInv => LineMeansPipeline
  BY EffectIs DEF ShellInv, LineInv
<1> QED BY <1>1, ShellInit, ShellStep, PTL DEF Spec

-------------------------------------------------------------------------------
(* The tree of paths.  Every command adds directories or goes to one, and a      *)
(* redirection stores a file: steps of PathTree.                                *)

\* The path of the current directory is one of a directory.
LEMMA PwdDir ==
  ASSUME NEW t \in LinkedTrees
  PROVE  t.cwd \in 1 .. Size(t) /\ fs_dir_pwd(t) = PathTo(t, t.cwd) /\ fs_dir_pwd(t) \in DirsOf(t)
<1>1. t \in Trees
  BY LinkedIs
<1>2. t.cwd \in 1 .. Size(t)
  BY <1>1, TreeIs DEF SoundTree
<1> QED BY <1>2 DEF fs_dir_pwd, DirsOf

\* A command has added directories, where no file is.
Adds(t, r, fs) ==
  /\ r \in LinkedTrees /\ DirsOf(t) \subseteq DirsOf(r) /\ fs_dir_pwd(r) = fs_dir_pwd(t)
  /\ \A path \in DirsOf(r) \ DirsOf(t) :
       /\ path \in Seq(Name) /\ path # Root /\ Front(path) \in DirsOf(r)
       /\ ~IsFile(fs, path) /\ Len(Last(path)) <= NameMax

LEMMA AddsNone == ASSUME NEW t \in LinkedTrees, NEW fs PROVE Adds(t, t, fs)
BY DEF Adds

LEMMA AddsMore ==
  ASSUME NEW t, NEW r, NEW q, NEW fs, Adds(t, r, fs), Adds(r, q, fs) PROVE Adds(t, q, fs)
BY DEF Adds

\* A command has gone to a directory.
Enters(t, r) == r \in LinkedTrees /\ DirsOf(r) = DirsOf(t)

\* path_state_mkdir
LEMMA MkdirAdds ==
  ASSUME NEW t \in LinkedTrees, NEW fs, NEW word \in Seq(Char)
  PROVE  Adds(t, path_state_mkdir(t, fs, word).tree, fs)
<1> DEFINE p == resolve_to_absolute(t, word)
           r == path_state_mkdir(t, fs, word).tree
<1>1. p \in Seq(Name) \cup {NoPath}
  BY LinkedIs, AbsoluteType
<1>2. path_state_mkdir(t, fs, word) = IF IsFile(fs, p) THEN [tree |-> t, ok |-> FALSE]
      ELSE mkdir_internal(t, p, FALSE)
  BY DEF path_state_mkdir, fs_dir_mkdir
<1> HIDE DEF p
<1>3. CASE IsFile(fs, p)
  <2>1. path_state_mkdir(t, fs, word) = [tree |-> t, ok |-> FALSE]
    BY <1>2, <1>3
  <2>2. r = t
    BY <2>1, MadeIs
  <2> QED BY <2>2, AddsNone
<1>4. CASE ~IsFile(fs, p)
  <2>1. r = t \/ OneMade(t, r, p)
    <3>1. r = mkdir_internal(t, p, FALSE).tree
      BY <1>2, <1>4
    <3> QED BY <1>1, <3>1, MkdirIs
  <2> HIDE DEF r
  <2>2. CASE r = t
    BY <2>2, AddsNone DEF r
  <2>3. CASE OneMade(t, r, p)
    <3>1. /\ r \in LinkedTrees /\ r.cwd = t.cwd /\ Extends(r, t) /\ p \in Seq(Name) /\ p # Root
          /\ Len(Last(p)) <= NameMax /\ Front(p) \in DirsOf(t) /\ DirsOf(r) = DirsOf(t) \cup {p}
      BY <2>3 DEF OneMade
    <3>2. fs_dir_pwd(r) = fs_dir_pwd(t)
      BY <3>1, PwdDir, ExtendPaths
    <3>3. Adds(t, r, fs)
      BY <1>4, <3>1, <3>2 DEF Adds
    <3> QED BY <3>3 DEF r
  <2> QED BY <2>1, <2>2, <2>3
<1> QED BY <1>3, <1>4

\* mkdir, word by word.
LEMMA MkdirStepAdds ==
  ASSUME NEW t, NEW s, s.tree \in LinkedTrees, NEW word \in Seq(Char), NEW fs, Adds(t, s.tree, fs)
  PROVE  MkdirOne(s, word, fs).tree \in LinkedTrees /\ Adds(t, MkdirOne(s, word, fs).tree, fs)
<1> DEFINE made == path_state_mkdir(s.tree, fs, word)
           r == made.tree
           said == s.text \o (IF made.ok THEN <<>> ELSE Prefix(6) \o word \o <<LF>>)
<1>1. MkdirOne(s, word, fs) = [tree |-> r, text |-> said]
  BY DEF MkdirOne, MkdirStep
<1>2. Adds(s.tree, r, fs)
  BY MkdirAdds
<1> HIDE DEF r, said
<1>3. MkdirOne(s, word, fs).tree = r
  BY <1>1
<1> QED BY <1>2, <1>3, AddsMore DEF Adds

LEMMA MkdirAllAdds ==
  ASSUME NEW argv \in Words, NEW t \in LinkedTrees, NEW fs
  PROVE  Adds(t, shell_builtin_mkdir(argv, t, fs).tree, fs)
<1> DEFINE start == [tree |-> t, text |-> <<>>]
           rest == Tail(argv)
           end == MkdirAll(start, rest, fs)
           short == [tree |-> t, text |-> Text(7)]
<1>1. shell_builtin_mkdir(argv, t, fs) = IF Len(argv) < 2 THEN short ELSE end
  BY Zenon DEF shell_builtin_mkdir, MkdirAll, MkdirOne, MkdirStep
<1>2. short.tree = t /\ start.tree = t
  OBVIOUS
<1>3. start \in Ran
  <2>1. <<>> \in Seq(Char) /\ t \in Trees
    BY LinkedIs
  <2> QED BY <2>1, RanIs
<1>4. Adds(t, t, fs)
  BY AddsNone
<1> HIDE DEF start, short, end
<1>5. CASE ~(Len(argv) < 2)
  <2> DEFINE n == Len(rest)
  <2>1. rest \in Words
    BY <1>5, WordAt
  <2> HIDE DEF rest
  <2>2. PICK u : IsRun(u, Ran, start, n, MkdirSteps(rest, fs)) /\ end = u[n]
    BY <1>3, <2>1, MkdirRun DEF end
  <2>3. /\ u \in [0 .. n -> Ran] /\ u[0] = start
        /\ \A k \in 1 .. n : u[k] = MkdirSteps(rest, fs)[<<u[k - 1], k>>]
    BY <2>2 DEF IsRun
  <2>4. n \in Nat /\ 0 \in 0 .. n /\ \A k \in 1 .. n : rest[k] \in Seq(Char)
    BY <2>1, WordAt
  <2> DEFINE T == {k \in 0 .. n : u[k].tree \in LinkedTrees /\ Adds(t, u[k].tree, fs)}
  <2>5. 0 \in T
    BY <1>2, <1>4, <2>3, <2>4
  <2>6. ASSUME NEW k \in 0 .. n - 1, k \in T PROVE k + 1 \in T
    <3>1. k \in 0 .. n /\ k + 1 \in 0 .. n /\ k + 1 \in 1 .. n /\ (k + 1) - 1 = k
      BY <2>4
    <3>2. u[k] \in Ran /\ u[k + 1] = MkdirSteps(rest, fs)[<<u[k], k + 1>>]
      BY <2>3, <3>1
    <3>3. MkdirSteps(rest, fs)[<<u[k], k + 1>>] = MkdirOne(u[k], rest[k + 1], fs)
      <4> HIDE DEF Ran
      <4> QED BY <3>1, <3>2 DEF MkdirSteps
    <3>4. u[k].tree \in LinkedTrees /\ Adds(t, u[k].tree, fs)
      BY <2>6
    <3>5. u[k + 1].tree \in LinkedTrees /\ Adds(t, u[k + 1].tree, fs)
      BY <2>4, <3>1, <3>2, <3>3, <3>4, MkdirStepAdds
    <3> QED BY <3>1, <3>5
  <2> HIDE DEF T
  <2>7. n \in T
    BY <2>4, <2>5, <2>6, Reaches
  <2>8. Adds(t, end.tree, fs)
    BY <2>2, <2>7 DEF T
  <2> QED BY <1>1, <1>5, <2>8
<1>6. CASE Len(argv) < 2
  BY <1>1, <1>2, <1>4, <1>6
<1> QED BY <1>5, <1>6

\* The lists of children do not depend on the current directory.
LEMMA CdLinked ==
  ASSUME NEW t \in LinkedTrees, NEW r \in Trees, r.nodes = t.nodes PROVE Enters(t, r)
<1>1. t \in Trees /\ Size(t) <= MaxNodes /\ NamesDiffer(t) /\ \E ch : HasLists(t, ch)
  BY LinkedIs
<1>2. Size(r) = Size(t)
  BY DEF Size
<1>3. NamesDiffer(r)
  BY <1>1, <1>2 DEF NamesDiffer
<1>4. PICK ch : HasLists(t, ch)
  BY <1>1
<1>5. HasLists(r, ch)
  <2>1. \A i \in 1 .. Size(t) : IsList(r, i, ch[i])
    BY <1>2, <1>4 DEF HasLists, IsList
  <2> QED BY <1>2, <1>4, <2>1 DEF HasLists
<1>6. r \in LinkedTrees
  BY <1>1, <1>2, <1>3, <1>5 DEF LinkedTrees
<1>7. \A j : PathTo(r, j) = PathTo(t, j)
  BY DEF PathTo
<1>8. DirsOf(r) = DirsOf(t)
  BY <1>2, <1>7 DEF DirsOf
<1> QED BY <1>6, <1>8 DEF Enters

LEMMA CdEnters ==
  ASSUME NEW argv \in Words, NEW t \in LinkedTrees PROVE Enters(t, shell_builtin_cd(argv, t).tree)
<1> DEFINE target == IF Len(argv) >= 2 THEN argv[2] ELSE <<Slash>>
           node == fs_dir_walk(t, target)
           to == fs_dir_cd(t, target)
           text == IF node = 0 THEN Text(5) ELSE <<>>
<1>1. shell_builtin_cd(argv, t) = [tree |-> to, text |-> text]
  BY DEF shell_builtin_cd
<1>2. shell_builtin_cd(argv, t) \in Ran
  BY LinkedIs, CdRan
<1>3. to = IF node = 0 THEN t ELSE [t EXCEPT !.cwd = node]
  BY DEF fs_dir_cd
<1> HIDE DEF to, node, text
<1>4. to \in Trees
  <2> HIDE DEF Trees
  <2> QED BY <1>1, <1>2 DEF Ran
<1>5. to.nodes = t.nodes
  <2>1. t = [nodes |-> t.nodes, cwd |-> t.cwd]
    BY LinkedIs, TreeIs
  <2>2. [t EXCEPT !.cwd = node].nodes = t.nodes
    <3>1. [[nodes |-> t.nodes, cwd |-> t.cwd] EXCEPT !.cwd = node].nodes = t.nodes
      OBVIOUS
    <3> QED BY <2>1, <3>1
  <2> QED BY <1>3, <2>2
<1>6. Enters(t, to)
  BY <1>4, <1>5, CdLinked
<1> QED BY <1>1, <1>6

\* Every command leaves a linked tree, in which it has added directories, gone to one
\* or done neither.
LEMMA ExecutedSteps ==
  ASSUME NEW argv \in Words, NEW t \in LinkedTrees, NEW fs, NEW stdin
  PROVE  LET r == shell_execute_or_fallback(argv, t, fs, stdin).tree
         IN  r \in LinkedTrees /\ (Adds(t, r, fs) \/ Enters(t, r))
<1> DEFINE word == argv[1]
           program == Builtins[word]
           ran == shell_execute_builtin(argv, t, fs, stdin)
           P(text) == [tree |-> t, text |-> text]
           fall == Prefix(10) \o Joined(argv) \o <<LF>>
           Good(x) == Adds(t, x.tree, fs) \/ Enters(t, x.tree)
<1>1. shell_execute_or_fallback(argv, t, fs, stdin) = IF word \in DOMAIN Builtins THEN ran ELSE P(fall)
  BY Zenon DEF shell_execute_or_fallback
<1>2. \A text : Good(P(text))
  BY AddsNone
<1>3. Good(ran) \/ word \notin DOMAIN Builtins
  <2> SUFFICES ASSUME word \in DOMAIN Builtins PROVE Good(ran)
    OBVIOUS
  <2>1. program \in {"echo", "cat", "ls", "pwd", "cd", "mkdir", "help", "meminfo"}
    BY ProgramAssumption
  <2> DEFINE echo == shell_builtin_echo(argv)
             cat == shell_builtin_cat(argv, t, fs, stdin)
             ls == shell_builtin_ls(argv, t, fs)
             pwd == shell_builtin_pwd(t)
             cd == shell_builtin_cd(argv, t)
             mkdir == shell_builtin_mkdir(argv, t, fs)
  <2>2. ran = CASE program = "echo" -> P(echo)
                [] program = "cat" -> P(cat)
                [] program = "ls" -> P(ls)
                [] program = "pwd" -> P(pwd)
                [] program = "cd" -> cd
                [] program = "mkdir" -> mkdir
                [] program = "help" -> P(shell_builtin_help)
                [] program = "meminfo" -> P(shell_builtin_meminfo)
    BY Zenon DEF shell_execute_builtin
  <2>3. Good(cd) /\ Good(mkdir)
    BY CdEnters, MkdirAllAdds
  <2> HIDE DEF echo, cat, ls, pwd, cd, mkdir, program, ran, P, Good
  <2> QED BY <1>2, <2>1, <2>2, <2>3
<1> HIDE DEF P, ran, word, fall
<1>4. Good(shell_execute_or_fallback(argv, t, fs, stdin))
  <2> HIDE DEF Good
  <2> QED BY <1>1, <1>2, <1>3
<1> QED BY <1>4 DEF Adds, Enters

\* The directories that can be found are the directories.
LEMMA FoundDirs ==
  ASSUME NEW t \in LinkedTrees
  PROVE  {PathTo(t, i) : i \in {j \in DOMAIN t.nodes : lookup_absolute(t, PathTo(t, j)) = j}} = DirsOf(t)
<1>1. \A j \in 1 .. Size(t) : lookup_absolute(t, PathTo(t, j)) = j
  BY FoundAtPath
<1>2. DOMAIN t.nodes = 1 .. Size(t)
  BY LinkedIs, TreeIs DEF Size
<1>3. {j \in DOMAIN t.nodes : lookup_absolute(t, PathTo(t, j)) = j} = 1 .. Size(t)
  BY <1>1, <1>2
<1> QED BY <1>3 DEF DirsOf

\* PathTree counts as this module does.
LEMMA StoreCounts ==
  ASSUME NEW S PROVE (Store!IsFiniteSet(S) <=> IsFiniteSet(S)) /\ Store!Cardinality(S) = Cardinality(S)
<1>1. Store!IsFiniteSet(S) <=> IsFiniteSet(S)
  BY Zenon DEF Store!IsFiniteSet, IsFiniteSet
<1>2. Store!Cardinality(S) = Cardinality(S)
  BY Zenon DEF Store!Cardinality, Cardinality
<1> QED BY <1>1, <1>2

\* The inductive invariant: the shell is sound, and so are its lists of children.
TreeInv == ShellInv /\ tree \in LinkedTrees

LEMMA DirsAre == tree \in LinkedTrees => Dirs = DirsOf(tree)
BY FoundDirs DEF Dirs

LEMMA DirsNext == tree' \in LinkedTrees => Dirs' = DirsOf(tree')
BY FoundDirs DEF Dirs

\* The shell starts with the directories and the files of PathTree.
LEMMA StoreInit == Init => tree \in LinkedTrees /\ Store!Init
<1> SUFFICES ASSUME Init PROVE tree \in LinkedTrees /\ Store!Init
  OBVIOUS
<1>1. tree = InitialTree /\ files = <<>>
  BY DEF Init
<1>2. tree \in LinkedTrees /\ tree.cwd = 1 /\ DirsOf(tree) = {Root} \cup Range(SeedDirs)
  BY <1>1, InitialLinked
<1>3. fs_dir_pwd(tree) = Root
  BY <1>2, LinkedIs, PathIs, PwdDir
<1>4. Dirs = {Root} \cup Range(SeedDirs)
  BY <1>2, DirsAre
<1> QED BY <1>1, <1>2, <1>3, <1>4 DEF Store!Init, Store!Root, Root

\* What a command adds is what Mkdir of PathTree adds.
LEMMA AddsIs ==
  ASSUME tree \in LinkedTrees, Adds(tree, tree', files), files' = files
  PROVE  Store!Mkdir
<1>1. /\ tree' \in LinkedTrees /\ DirsOf(tree) \subseteq DirsOf(tree')
      /\ fs_dir_pwd(tree') = fs_dir_pwd(tree)
      /\ \A path \in DirsOf(tree') \ DirsOf(tree) :
           /\ path \in Seq(Name) /\ path # Root /\ Front(path) \in DirsOf(tree')
           /\ ~IsFile(files, path) /\ Len(Last(path)) <= NameMax
  BY DEF Adds
<1>2. Dirs = DirsOf(tree) /\ Dirs' = DirsOf(tree')
  BY <1>1, DirsAre, DirsNext
<1>3. IsFiniteSet(Dirs') /\ Cardinality(Dirs') <= MaxNodes
  BY <1>1, <1>2, FewDirs
<1>4. ASSUME NEW path \in Dirs' \ Dirs
      PROVE  /\ Store!Parent(path) \in Dirs' /\ path \notin DOMAIN SeedFiles \cup DOMAIN files
             /\ Store!LastName(path) \notin {name \in Seq(Char) : Len(name) > NameMax}
  <2>1. /\ path \in Seq(Name) /\ path # <<>> /\ Front(path) \in Dirs' /\ ~IsFile(files, path)
        /\ Len(Last(path)) <= NameMax
    BY <1>1, <1>2 DEF Root
  <2>2. Store!Parent(path) = Front(path) /\ Store!LastName(path) = Last(path)
    BY DEF Store!Parent, Store!LastName, Front, Last
  <2>3. Len(Last(path)) \in Nat /\ NameMax \in Nat
    <3>1. Last(path) \in Name
      BY <2>1, FrontLast
    <3>2. Last(path) \in Seq(Char)
      BY <3>1 DEF Name
    <3> QED BY <3>2, PathFilesAssumption
  <2>4. ~(Len(Last(path)) > NameMax)
    BY <2>1, <2>3
  <2> QED BY <2>1, <2>2, <2>4 DEF IsFile
<1>5. UNCHANGED <<fs_dir_pwd(tree), files>>
  BY <1>1
<1>6. Dirs \subseteq Dirs'
  BY <1>1, <1>2
<1> QED BY <1>3, <1>4, <1>5, <1>6, StoreCounts DEF Store!Mkdir

\* Going to a directory is Cd of PathTree.
LEMMA EntersIs ==
  ASSUME tree \in LinkedTrees, Enters(tree, tree'), files' = files
  PROVE  Store!Cd
<1>1. tree' \in LinkedTrees /\ DirsOf(tree') = DirsOf(tree)
  BY DEF Enters
<1>2. Dirs = DirsOf(tree) /\ Dirs' = DirsOf(tree')
  BY <1>1, DirsAre, DirsNext
<1>3. fs_dir_pwd(tree') \in Dirs
  BY <1>1, <1>2, PwdDir
<1> QED BY <1>1, <1>2, <1>3 DEF Store!Cd

LEMMA CommandIs ==
  ASSUME tree \in LinkedTrees, NEW argv \in Words, NEW stdin,
         tree' = shell_execute_or_fallback(argv, tree, files, stdin).tree, files' = files
  PROVE  tree' \in LinkedTrees /\ Store!Next
<1>1. tree' \in LinkedTrees /\ (Adds(tree, tree', files) \/ Enters(tree, tree'))
  BY ExecutedSteps
<1>2. Store!Mkdir \/ Store!Cd
  BY <1>1, AddsIs, EntersIs
<1> QED BY <1>1, <1>2 DEF Store!Next

\* A redirection is Write of PathTree, or changes nothing.
LEMMA WriteIs ==
  ASSUME TreeInv, shell_write_redirection
  PROVE  tree' = tree /\ (Store!Next \/ files' = files)
<1> DEFINE append == cmd.redir = "append"
           text == fd.capture
           path == resolve_to_absolute(tree, cmd.path)
           written == path_state_write_file(tree, files, cmd.path, text, append)
           old == OldContent(files, path, append)
<1>1. tree \in LinkedTrees /\ tree \in Trees /\ IsCmd(cmd)
  BY DEF TreeInv, ShellInv, ShellTypes
<1>2. files' = written.files /\ tree' = tree
  BY Zenon DEF shell_write_redirection
<1>3. WriteMeans(written, tree, files, path, old, text)
  BY Written
<1>4. path \in Seq(Name) \cup {NoPath}
  <2>1. cmd.path \in Seq(Char)
    BY <1>1 DEF IsCmd
  <2> QED BY <1>1, <2>1, AbsoluteType
<1> HIDE DEF path, written, old, text, append
<1>5. ASSUME files' # files PROVE Store!Write(path) /\ path \in DOMAIN files'
  <2>1. /\ CanWrite(tree, files, path) /\ DOMAIN files' = DOMAIN files \cup {path}
        /\ \A other \in DOMAIN files \ {path} : files'[other] = files[other]
    BY <1>2, <1>3, <1>5 DEF WriteMeans
  <2>2. /\ path \notin {NoPath, Root} /\ lookup_absolute(tree, path_parent(path)) # 0
        /\ lookup_absolute(tree, path) = 0
        /\ path \in DOMAIN files \/ Cardinality(DOMAIN files) < MaxFiles
    BY <2>1 DEF CanWrite
  <2>3. path \in Seq(Name) /\ path # <<>>
    BY <1>4, <2>2 DEF Root
  <2>4. path \in Seq(Seq(Char)) /\ path_parent(path) \in Seq(Seq(Char))
    <3>1. path_parent(path) \in Seq(Name)
      BY <2>3, FrontLast DEF path_parent
    <3> QED BY <2>3, <3>1, SeqName, SeqWord
  <2>5. Front(path) \in DirsOf(tree) /\ path \notin DirsOf(tree)
    BY <1>1, <2>2, <2>4, IsDir DEF path_parent
  <2>6. Dirs = DirsOf(tree) /\ Store!Parent(path) = Front(path)
    BY <1>1, DirsAre DEF Store!Parent, Front
  <2>7. UNCHANGED <<Dirs, fs_dir_pwd(tree)>>
    BY <1>2 DEF Dirs
  <2>8. path # Store!Root
    BY <2>3 DEF Store!Root
  <2> QED BY <2>1, <2>2, <2>5, <2>6, <2>7, <2>8, StoreCounts DEF Store!Write
<1> QED BY <1>2, <1>5 DEF Store!Next

\* Every step of the shell is one of PathTree, or changes none of its variables.
LEMMA StoreStep == TreeInv /\ [Next]_vars => TreeInv' /\ [Store!Next]_(Store!storeVars)
<1> SUFFICES ASSUME TreeInv, [Next]_vars PROVE TreeInv' /\ [Store!Next]_(Store!storeVars)
  OBVIOUS
<1>1. ShellInv' /\ tree \in LinkedTrees /\ IsCmd(cmd)
  BY ShellStep DEF TreeInv, ShellInv, ShellTypes
<1>2. ASSUME tree' = tree, files' = files PROVE TreeInv' /\ [Store!Next]_(Store!storeVars)
  <2>1. UNCHANGED <<Dirs, fs_dir_pwd(tree), files>>
    BY <1>2 DEF Dirs
  <2> QED BY <1>1, <1>2, <2>1 DEF TreeInv, Store!storeVars
<1>3. ASSUME tree' \in LinkedTrees, Store!Next PROVE TreeInv' /\ [Store!Next]_(Store!storeVars)
  BY <1>1, <1>3 DEF TreeInv
<1>4. CASE \E bytes \in Lines : Arrive(bytes)
  <2>1. tree' = tree /\ files' = files
    BY <1>4 DEF Arrive
  <2> QED BY <1>2, <2>1
<1>5. CASE SkipLineFeed
  BY <1>2, <1>5 DEF SkipLineFeed
<1>6. CASE EditLine
  BY <1>2, <1>6 DEF EditLine
<1>7. CASE ReturnLine
  BY <1>2, <1>7 DEF ReturnLine
<1>8. CASE ParseLine
  BY <1>2, <1>8 DEF ParseLine
<1>9. CASE Prompt
  BY <1>2, <1>9 DEF Prompt
<1>10. CASE ExecuteLeft
  <2>1. PICK stdin : tree' = shell_execute_or_fallback(cmd.left, tree, files, stdin).tree
        /\ files' = files
    BY <1>10, Zenon DEF ExecuteLeft
  <2>2. cmd.left \in Words
    BY <1>1 DEF IsCmd
  <2> QED BY <1>1, <1>3, <2>1, <2>2, CommandIs
<1>11. CASE ExecuteRight
  <2>1. PICK stdin : tree' = shell_execute_or_fallback(cmd.right, tree, files, stdin).tree
        /\ files' = files
    BY <1>11, Zenon DEF ExecuteRight
  <2>2. cmd.right \in Words
    BY <1>1 DEF IsCmd
  <2> QED BY <1>1, <1>3, <2>1, <2>2, CommandIs
<1>12. CASE shell_write_redirection
  <2>1. tree' = tree /\ (Store!Next \/ files' = files)
    BY <1>12, WriteIs
  <2> QED BY <1>1, <1>2, <1>3, <2>1
<1>13. CASE UNCHANGED vars
  <2>1. tree' = tree /\ files' = files
    BY <1>13 DEF vars
  <2> QED BY <1>2, <2>1
<1> QED BY <1>4, <1>5, <1>6, <1>7, <1>8, <1>9, <1>10, <1>11, <1>12, <1>13 DEF Next

\* The shell implements PathTree: whatever is typed, what the commands and the
\* redirections do to the linked nodes of dir.c and to the files of path_state.c, mkdir
\* adds directories below directories and where no file is, cd goes to one of them, a
\* redirection stores at most the file it names, and nothing else changes either.
THEOREM ShellIsPathTree == Spec => ImplementsPathTree
<1>1. Init => TreeInv /\ Store!Init
  BY ShellInit, StoreInit DEF TreeInv
<1> QED BY <1>1, StoreStep, PTL DEF Spec, ImplementsPathTree, Store!Spec

\* FilesUnderDirs of PathTree is an inductive invariant of it.
\* The built-in directories and files lie in directories, and none is both.
LEMMA InitTree == Store!Init => Store!FilesUnderDirs
BY PathFilesAssumption DEF Store!Init, Store!FilesUnderDirs, Store!Root, Store!Parent, Root, Front

\* cd changes the current directory only, and to one that exists.
LEMMA CdTree == Store!FilesUnderDirs /\ Store!Cd => Store!FilesUnderDirs'
BY DEF Store!FilesUnderDirs, Store!Cd

\* mkdir keeps every directory, and what it adds is no file and has a parent.
LEMMA MkdirTree == Store!FilesUnderDirs /\ Store!Mkdir => Store!FilesUnderDirs'
<1> SUFFICES ASSUME Store!FilesUnderDirs, Store!Mkdir
             PROVE  Store!FilesUnderDirs'
  OBVIOUS
<1>1. Dirs \subseteq Dirs' /\ fs_dir_pwd(tree') = fs_dir_pwd(tree) /\ files' = files
  BY DEF Store!Mkdir
<1>2. \A path \in Dirs' \ {Store!Root} : Store!Parent(path) \in Dirs'
  BY <1>1 DEF Store!FilesUnderDirs, Store!Mkdir
<1>3. \A path \in DOMAIN SeedFiles \cup DOMAIN files : path \notin Dirs' /\ Store!Parent(path) \in Dirs'
  BY <1>1 DEF Store!FilesUnderDirs, Store!Mkdir
<1> QED
  BY <1>1, <1>2, <1>3 DEF Store!FilesUnderDirs

\* A redirection adds at most the file it names, in a directory and where none is.
LEMMA WriteTree ==
  ASSUME NEW path, Store!FilesUnderDirs, Store!Write(path)
  PROVE  Store!FilesUnderDirs'
BY DEF Store!FilesUnderDirs, Store!Write

\* The tree stays a tree.  No path is a file and a directory, although mkdir
\* (path_state.c) and write_file look in two tables; every file, directory and the
\* current directory lie in directories; and every node is found at its own path, so
\* insert_child_sorted (dir.c) never loses a directory and mkdir never doubles one.
THEOREM TreeStaysTree == Spec => []FilesUnderDirs
<1> DEFINE Inv == TreeInv /\ Store!FilesUnderDirs
<1>1. Init => Inv
  BY ShellInit, StoreInit, InitTree DEF TreeInv
<1>2. Inv /\ [Next]_vars => Inv'
  <2> SUFFICES ASSUME Inv, [Next]_vars PROVE Inv'
    OBVIOUS
  <2>1. TreeInv' /\ [Store!Next]_(Store!storeVars)
    BY StoreStep
  <2>2. CASE Store!Cd
    BY <2>1, <2>2, CdTree
  <2>3. CASE Store!Mkdir
    BY <2>1, <2>3, MkdirTree
  <2>4. CASE \E path \in DOMAIN files' : Store!Write(path)
    BY <2>1, <2>4, WriteTree
  <2>5. CASE UNCHANGED Store!storeVars
    BY <2>1, <2>5 DEF Store!storeVars, Store!FilesUnderDirs
  <2> QED BY <2>1, <2>2, <2>3, <2>4, <2>5 DEF Store!Next
<1>3. Inv => FilesUnderDirs
  <2> SUFFICES ASSUME Inv PROVE FilesUnderDirs
    OBVIOUS
  <2>1. \A node \in DOMAIN tree.nodes : lookup_absolute(tree, PathTo(tree, node)) = node
    <3>1. tree \in LinkedTrees
      BY DEF TreeInv
    <3>2. DOMAIN tree.nodes = 1 .. Size(tree)
      BY <3>1, LinkedIs, TreeIs DEF Size
    <3> QED BY <3>1, <3>2, FoundAtPath
  <2> QED BY <2>1 DEF FilesUnderDirs
<1> QED BY <1>1, <1>2, <1>3, PTL DEF Spec

===============================================================================
