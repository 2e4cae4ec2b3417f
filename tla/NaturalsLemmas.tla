--------------------------- MODULE NaturalsLemmas ---------------------------
(***************************************************************************)
(* Facts about numbers that the proofs of several components need.  They   *)
(* take the place of induction: a set of numbers has a least element.      *)
(***************************************************************************)
EXTENDS Ordering, FiniteSetTheorems, WellFoundedInduction, TLAPS

Less == {p \in Nat \X Nat : p[1] < p[2]}

\* The order of the numbers is well-founded.
LEMMA LessWellFounded == IsWellFoundedOn(Less, Nat)
<1>1. Less = OpToRel(<, Nat)
  BY Zenon DEF Less, OpToRel
<1>. QED
  BY <1>1, NatLessThanWellFounded, Zenon

\* There is a least number in every set of them.
LEMMA LeastNumber ==
    ASSUME NEW S \in SUBSET Nat, S # {}
    PROVE  \E x \in S : \A y \in S : x <= y
<1>1. PICK x \in S : \A y \in S : ~(<<y, x>> \in Less)
  BY LessWellFounded, WFMin, Zenon
<1>2. ASSUME NEW y \in S, ~(x <= y) PROVE FALSE
  <2>1. y \in Nat /\ x \in Nat /\ y < x
    BY <1>2
  <2>2. <<y, x>> \in Less
    BY <2>1 DEF Less
  <2>. QED
    BY <1>1, <2>2
<1>. QED
  BY <1>2

\* There is a greatest number in every bounded set of them.
LEMMA GreatestNumber ==
    ASSUME NEW n \in Nat, NEW S \in SUBSET (0 .. n), S # {}
    PROVE  \E x \in S : \A y \in S : y <= x
<1>. DEFINE T == {n - x : x \in S}
<1>1. T \in SUBSET Nat /\ T # {}
  <2>1. \A x \in S : n - x \in Nat
    OBVIOUS
  <2>2. PICK x \in S : TRUE
    OBVIOUS
  <2>3. n - x \in T
    BY <2>2
  <2>. QED
    BY <2>1, <2>3
<1>2. PICK t \in T : \A y \in T : t <= y
  BY <1>1, LeastNumber
<1>3. PICK x \in S : t = n - x
  BY <1>2
<1>4. \A y \in S : n - x <= n - y
  BY <1>2, <1>3
<1>5. \A y \in S : y <= x
  BY <1>4
<1>. QED
  BY <1>5

-----------------------------------------------------------------------------
(***************************************************************************)
(* Multiples                                                               *)
(***************************************************************************)
\* Every number of times w is a multiple of w, and there are no others.
LEMMA Multiples ==
    ASSUME NEW w \in Nat \ {0}, NEW a \in Int
    PROVE  (a % w = 0) <=> \E k \in Int : a = w * k
<1>1. a = w * (a \div w) + (a % w) /\ a \div w \in Int
  OBVIOUS
<1>2. \A k \in Int : (w * k) % w = 0
  OBVIOUS
<1>. QED
  BY <1>1, <1>2

\* Sums of multiples are multiples.
LEMMA MultipleSum ==
    ASSUME NEW w \in Nat \ {0}, NEW a \in Int, NEW b \in Int, a % w = 0, b % w = 0
    PROVE  (a + b) % w = 0
<1>1. PICK k \in Int : a = w * k
  BY Multiples
<1>2. PICK l \in Int : b = w * l
  BY Multiples
<1>3. a + b = w * (k + l) /\ a + b \in Int /\ k + l \in Int
  BY <1>1, <1>2
<1>. QED
  BY <1>3, Multiples

\* Products with a multiple are multiples.
LEMMA MultipleProduct ==
    ASSUME NEW w \in Nat \ {0}, NEW a \in Nat, NEW n \in Nat, a % w = 0
    PROVE  (a * n) % w = 0
<1>. DEFINE q == a \div w
<1>1. q \in Nat /\ a = w * q
  OBVIOUS
<1>. HIDE DEF q
<1>2. a * n = w * (q * n)
  BY <1>1
<1>3. \A k \in Nat : (w * k) % w = 0
  OBVIOUS
<1>. QED
  BY <1>1, <1>2, <1>3

\* Rounding down and up to a multiple.
LEMMA Rounding ==
    ASSUME NEW w \in Nat \ {0}, NEW a \in Int
    PROVE  /\ a % w \in 0 .. w - 1 /\ (a - (a % w)) % w = 0
           /\ (0 - a) % w \in 0 .. w - 1 /\ (a + ((0 - a) % w)) % w = 0
<1>1. ASSUME NEW x \in Int PROVE x % w \in 0 .. w - 1 /\ (x - (x % w)) % w = 0
  <2>1. x % w \in 0 .. w - 1 /\ x = w * (x \div w) + (x % w) /\ x \div w \in Int
    OBVIOUS
  <2>2. x - (x % w) = w * (x \div w) /\ x - (x % w) \in Int
    BY <2>1
  <2>. QED
    BY <2>1, <2>2, Multiples
<1>. DEFINE r == (0 - a) % w
            q == (0 - a) \div w
<1>2. r \in 0 .. w - 1 /\ q \in Int /\ 0 - a = w * q + r
  OBVIOUS
<1>. HIDE DEF r, q
<1>3. w * (0 - q) = 0 - w * q
  BY <1>2
<1>4. a + r \in Int /\ 0 - q \in Int /\ a + r = w * (0 - q)
  BY <1>2, <1>3
<1>5. (a + r) % w = 0
  BY <1>4, Multiples
<1>. QED
  BY <1>1, <1>2, <1>5 DEF r

\* Multiplication keeps the order.
LEMMA ProductOrder ==
    ASSUME NEW u \in Nat \ {0}, NEW m \in Nat, NEW n \in Nat, m < n
    PROVE  m * u + u <= n * u
<1>. QED
  OBVIOUS

\* Division undoes multiplication.
LEMMA ProductDiv ==
    ASSUME NEW u \in Nat \ {0}, NEW n \in Nat
    PROVE  (n * u) \div u = n
<1>. QED
  OBVIOUS

-----------------------------------------------------------------------------
(***************************************************************************)
(* Recursion                                                               *)
(***************************************************************************)
\* The values of a recursion up to n.
Upto(V, v0, step, n, g) ==
    /\ g \in [0 .. n -> V]
    /\ g[0] = v0
    /\ \A m \in 0 .. n - 1 : g[m + 1] = step[<<m, g[m]>>]

\* A recursion can be followed as far as one likes.
LEMMA RecursionUpto ==
    ASSUME NEW V, NEW v0 \in V, NEW step \in [Nat \X V -> V], NEW n \in Nat
    PROVE  \E g : Upto(V, v0, step, n, g)
<1>. DEFINE Bad == {k \in Nat : ~\E g : Upto(V, v0, step, k, g)}
<1>. SUFFICES ASSUME Bad # {} PROVE FALSE
  OBVIOUS
<1>1. PICK k \in Bad : \A l \in Bad : k <= l
  <2>1. Bad \in SUBSET Nat
    OBVIOUS
  <2>. HIDE DEF Bad
  <2>. QED
    BY <2>1, LeastNumber
<1>2. k # 0
  <2>1. Upto(V, v0, step, 0, [m \in 0 .. 0 |-> v0])
    BY DEF Upto
  <2>. QED
    BY <1>1, <2>1
<1>3. k - 1 \in Nat /\ k - 1 \notin Bad
  BY <1>1, <1>2
<1>4. PICK g : Upto(V, v0, step, k - 1, g)
  BY <1>3
<1>. DEFINE h == [m \in 0 .. k |-> IF m < k THEN g[m] ELSE step[<<k - 1, g[k - 1]>>]]
<1>5. Upto(V, v0, step, k, h)
  <2>1. g \in [0 .. k - 1 -> V] /\ g[0] = v0 /\ \A m \in 0 .. k - 2 : g[m + 1] = step[<<m, g[m]>>]
    BY <1>3, <1>4 DEF Upto
  <2>2. h \in [0 .. k -> V] /\ h[0] = v0
    BY <1>2, <1>3, <2>1
  <2>3. ASSUME NEW m \in 0 .. k - 1 PROVE h[m + 1] = step[<<m, h[m]>>]
    <3>1. CASE m = k - 1
      BY <1>3, <3>1
    <3>2. CASE m # k - 1
      <4>1. m \in 0 .. k - 2 /\ m + 1 < k
        BY <1>3, <3>2
      <4>. QED
        BY <1>3, <2>1, <4>1
    <3>. QED
      BY <3>1, <3>2
  <2>. HIDE DEF h
  <2>. QED
    BY <2>2, <2>3 DEF Upto
<1>. QED
  BY <1>1, <1>5

\* Two ways to follow a recursion agree.
LEMMA RecursionUnique ==
    ASSUME NEW V, NEW v0 \in V, NEW step \in [Nat \X V -> V],
           NEW n \in Nat, NEW g, Upto(V, v0, step, n, g),
           NEW k \in Nat, NEW h, Upto(V, v0, step, k, h), n <= k
    PROVE  \A m \in 0 .. n : g[m] = h[m]
<1>. DEFINE Bad == {m \in 0 .. n : g[m] # h[m]}
<1>. SUFFICES ASSUME Bad # {} PROVE FALSE
  OBVIOUS
<1>1. PICK m \in Bad : \A l \in Bad : m <= l
  <2>1. Bad \in SUBSET Nat
    OBVIOUS
  <2>. HIDE DEF Bad
  <2>. QED
    BY <2>1, LeastNumber
<1>2. m # 0
  BY <1>1 DEF Upto
<1>3. m - 1 \in 0 .. n - 1 /\ m - 1 \in 0 .. k - 1 /\ m - 1 \notin Bad /\ (m - 1) + 1 = m
  BY <1>1, <1>2
<1>4. g[m - 1] = h[m - 1]
  BY <1>3
<1>5. g[m] = step[<<m - 1, g[m - 1]>>] /\ h[m] = step[<<m - 1, h[m - 1]>>]
  BY <1>3 DEF Upto
<1>. QED
  BY <1>1, <1>4, <1>5

\* The function that a recursion defines.
Recursive(V, v0, step, f) ==
    /\ f \in [Nat -> V]
    /\ f[0] = v0
    /\ \A n \in Nat : f[n + 1] = step[<<n, f[n]>>]

\* Every recursion over the numbers defines a function.
LEMMA PrimitiveRecursion ==
    ASSUME NEW V, NEW v0 \in V, NEW step \in [Nat \X V -> V]
    PROVE  \E f : Recursive(V, v0, step, f)
<1>. DEFINE G(n) == CHOOSE g : Upto(V, v0, step, n, g)
            f == [n \in Nat |-> G(n)[n]]
<1>1. \A n \in Nat : Upto(V, v0, step, n, G(n))
  BY RecursionUpto
<1>. HIDE DEF G
<1>2. f \in [Nat -> V] /\ f[0] = v0
  <2>1. ASSUME NEW n \in Nat PROVE G(n)[n] \in V
    BY <1>1 DEF Upto
  <2>2. G(0)[0] = v0
    BY <1>1 DEF Upto
  <2>. QED
    BY <2>1, <2>2
<1>3. ASSUME NEW n \in Nat PROVE f[n + 1] = step[<<n, f[n]>>]
  <2>1. n + 1 \in Nat /\ n \in 0 .. n /\ n \in 0 .. (n + 1) - 1
    OBVIOUS
  <2>2. G(n + 1)[n + 1] = step[<<n, G(n + 1)[n]>>]
    BY <1>1, <2>1 DEF Upto
  <2>3. \A m \in 0 .. n : G(n)[m] = G(n + 1)[m]
    <3>1. Upto(V, v0, step, n, G(n)) /\ Upto(V, v0, step, n + 1, G(n + 1)) /\ n <= n + 1
      BY <1>1, <2>1
    <3>. QED
      BY <2>1, <3>1, RecursionUnique
  <2>. QED
    BY <2>1, <2>2, <2>3
<1>. HIDE DEF f
<1>. QED
  BY <1>2, <1>3 DEF Recursive

-----------------------------------------------------------------------------
(***************************************************************************)
(* Numbers in their order                                                  *)
(***************************************************************************)
\* The greatest element.
IsMaximum(S, x) == x \in S /\ \A y \in S : y <= x

\* A finite set of numbers has a greatest one.
LEMMA Maximum ==
    ASSUME NEW S \in SUBSET Int, IsFiniteSet(S), S # {}
    PROVE  \E x : IsMaximum(S, x)
<1>. DEFINE Bad == {n \in Nat : \E T \in SUBSET Int : /\ IsFiniteSet(T) /\ T # {} /\ Cardinality(T) = n
                                                      /\ ~\E x : IsMaximum(T, x)}
<1>1. ASSUME Bad # {} PROVE FALSE
  <2>1. PICK n \in Bad : \A m \in Bad : n <= m
    <3>1. Bad \in SUBSET Nat
      OBVIOUS
    <3>. HIDE DEF Bad
    <3>. QED
      BY <1>1, <3>1, LeastNumber
  <2>2. PICK T \in SUBSET Int : IsFiniteSet(T) /\ T # {} /\ Cardinality(T) = n /\ ~\E x : IsMaximum(T, x)
    BY <2>1
  <2>3. PICK x : x \in T
    BY <2>2
  <2>. DEFINE U == T \ {x}
  <2>4. IsFiniteSet(U) /\ Cardinality(U) = n - 1 /\ U \in SUBSET Int /\ U \subseteq T
    BY <2>2, <2>3, FS_RemoveElement
  <2>5. n - 1 \notin Bad /\ Cardinality(U) \in Nat
    <3>1. n \in Nat /\ ~(n <= n - 1)
      BY <2>1
    <3>2. Cardinality(U) \in Nat
      BY <2>4, FS_CardinalityType
    <3>. QED
      BY <2>1, <3>1, <3>2
  <2>6. CASE U = {}
    <3>1. \A y \in T : y <= x
      BY <2>2, <2>3, <2>6
    <3>. QED
      BY <2>2, <2>3, <3>1 DEF IsMaximum
  <2>7. CASE U # {}
    <3>1. PICK m : IsMaximum(U, m)
      BY <2>4, <2>5, <2>7
    <3>2. m \in Int /\ x \in Int /\ m \in T /\ \A y \in U : y <= m
      BY <2>2, <2>3, <2>4, <3>1 DEF IsMaximum
    <3>3. CASE m <= x
      <4>1. \A y \in T : y <= x
        BY <2>2, <3>2, <3>3
      <4>. QED
        BY <2>2, <2>3, <4>1 DEF IsMaximum
    <3>4. CASE ~(m <= x)
      <4>1. \A y \in T : y <= m
        BY <2>2, <3>2, <3>4
      <4>. QED
        BY <2>2, <3>2, <4>1 DEF IsMaximum
    <3>. QED
      BY <3>3, <3>4
  <2>. QED
    BY <2>6, <2>7
<1>2. Cardinality(S) \in Nat
  BY FS_CardinalityType
<1>. QED
  BY <1>1, <1>2

\* The elements of a set in their order.
IsAscending(S, s) ==
    /\ s \in [1..Cardinality(S) -> S] /\ Range(s) = S
    /\ \A i, j \in DOMAIN s : i < j => s[i] < s[j]

\* Every finite set of numbers can be put in order.
LEMMA AscendingExists ==
    ASSUME NEW S \in SUBSET Int, IsFiniteSet(S)
    PROVE  \E s : IsAscending(S, s)
<1>. DEFINE Bad == {n \in Nat : \E T \in SUBSET Int : /\ IsFiniteSet(T) /\ Cardinality(T) = n
                                                      /\ ~\E s : IsAscending(T, s)}
<1>1. ASSUME Bad # {} PROVE FALSE
  <2>1. PICK n \in Bad : \A m \in Bad : n <= m
    <3>1. Bad \in SUBSET Nat
      OBVIOUS
    <3>. HIDE DEF Bad
    <3>. QED
      BY <1>1, <3>1, LeastNumber
  <2>2. PICK T \in SUBSET Int : IsFiniteSet(T) /\ Cardinality(T) = n /\ ~\E s : IsAscending(T, s)
    BY <2>1
  <2>3. n \in Nat
    BY <2>1
  <2>4. T # {}
    <3>. SUFFICES ASSUME T = {} PROVE FALSE
      OBVIOUS
    <3>1. Cardinality(T) = 0
      BY FS_EmptySet
    <3>. DEFINE s == [i \in {} |-> 0]
    <3>2. 1..0 = {} /\ s \in [{} -> T] /\ Range(s) = {}
      BY DEF Range
    <3>3. IsAscending(T, s)
      BY <3>1, <3>2 DEF IsAscending
    <3>. QED
      BY <2>2, <3>3
  <2>5. PICK m : IsMaximum(T, m)
    BY <2>2, <2>4, Maximum
  <2>. DEFINE U == T \ {m}
  <2>6. m \in T /\ \A y \in T : y <= m
    BY <2>5 DEF IsMaximum
  <2>7. IsFiniteSet(U) /\ Cardinality(U) = n - 1 /\ U \in SUBSET Int /\ Cardinality(U) \in Nat
    <3>1. IsFiniteSet(U) /\ Cardinality(U) = n - 1
      BY <2>2, <2>6, FS_RemoveElement
    <3>. QED
      BY <3>1, FS_CardinalityType
  <2>8. n - 1 \notin Bad /\ n - 1 \in Nat
    <3>1. ~(n <= n - 1)
      BY <2>3
    <3>. QED
      BY <2>1, <2>7, <3>1
  <2>9. PICK s : IsAscending(U, s)
    BY <2>7, <2>8
  <2>10. s \in [1..(n - 1) -> U] /\ Range(s) = U /\ \A i, j \in 1..(n - 1) : i < j => s[i] < s[j]
    BY <2>7, <2>9 DEF IsAscending
  <2>. DEFINE t == [i \in 1..n |-> IF i = n THEN m ELSE s[i]]
  <2>11. \A i \in 1..n : i = n \/ i \in 1..(n - 1)
    BY <2>3
  <2>12. \A i \in 1..(n - 1) : i \in 1..n /\ i # n /\ t[i] = s[i] /\ s[i] \in T /\ s[i] \in Int /\ s[i] # m
    <3>1. \A i \in 1..(n - 1) : i \in 1..n /\ i # n
      BY <2>3
    <3>2. \A i \in 1..(n - 1) : s[i] \in U
      BY <2>10
    <3>. QED
      BY <2>2, <3>1, <3>2
  <2>13. t \in [1..n -> T]
    BY <2>6, <2>11, <2>12
  <2>14. n \in 1..n /\ t[n] = m
    BY <2>3, <2>8
  <2>15. Range(t) = T
    <3>1. \A x \in U : \E i \in 1..(n - 1) : x = s[i]
      BY <2>10 DEF Range
    <3>2. \A x \in T : \E i \in 1..n : x = t[i]
      BY <2>12, <2>14, <3>1
    <3>. QED
      BY <2>13, <3>2 DEF Range
  <2>16. ASSUME NEW i \in 1..n, NEW j \in 1..n, i < j PROVE t[i] < t[j]
    <3>1. i \in 1..(n - 1)
      BY <2>3, <2>16
    <3>2. CASE j = n
      <4>1. s[i] <= m /\ m \in Int /\ s[i] \in Int /\ s[i] # m /\ t[i] = s[i] /\ t[j] = m
        BY <2>2, <2>6, <2>12, <2>14, <3>1, <3>2
      <4>. HIDE DEF t
      <4>. QED
        BY <4>1
    <3>3. CASE j # n
      BY <2>10, <2>11, <2>12, <2>16, <3>1, <3>3
    <3>. QED
      BY <3>2, <3>3
  <2>17. IsAscending(T, t)
    <3>1. DOMAIN t = 1..n
      BY <2>13
    <3>. HIDE DEF t
    <3>. QED
      BY <2>2, <2>13, <2>15, <2>16, <3>1 DEF IsAscending
  <2>. QED
    BY <2>2, <2>17
<1>2. Cardinality(S) \in Nat
  BY FS_CardinalityType
<1>. QED
  BY <1>1, <1>2

\* Ascending: the numbers of a finite set in their order.
LEMMA AscendingOrder ==
    ASSUME NEW S \in SUBSET Int, IsFiniteSet(S)
    PROVE  IsAscending(S, Ascending(S)) /\ Cardinality(S) \in Nat
<1>1. PICK s : IsAscending(S, s)
  BY AscendingExists
<1>2. \E u \in [1..Cardinality(S) -> S] : Range(u) = S /\ \A i, j \in DOMAIN u : i < j => u[i] < u[j]
  BY <1>1 DEF IsAscending
<1>3. IsAscending(S, Ascending(S))
  BY <1>2 DEF IsAscending, Ascending
<1>. QED
  BY <1>3, FS_CardinalityType

=============================================================================
