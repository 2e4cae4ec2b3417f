--------------------------- MODULE ReachingProofs ---------------------------
(***************************************************************************)
(* Proofs about ReachingConditions, for every region of any number of      *)
(* blocks and every order in which the predecessors of a block are listed. *)
(***************************************************************************)
EXTENDS ReachingConditions, NaturalsLemmas, FiniteSetTheorems, TLAPS

(***************************************************************************)
(* Paths and traces                                                        *)
(***************************************************************************)
Literal == [atom : Block, negated : BOOLEAN]
Opposite(lit) == [atom |-> lit.atom, negated |-> ~lit.negated]

Values == [Block -> BOOLEAN]

\* The conditions of a path are in the order of the region.
Sorted(t) == \A i, j \in DOMAIN t : i < j => t[i].atom < t[j].atom
IsPath(t) == t \in Seq(Literal) /\ Sorted(t)

\* Two sets of conditions agree up to a block, where they are opposites.
Diverge(A, B) ==
    \E lit \in A : Opposite(lit) \in B /\ \A m \in Literal : m.atom < lit.atom => (m \in A <=> m \in B)

\* The conditions that have decided the way to a block.
Trace(region, value, b) ==
    {[atom |-> p, negated |-> ~value[p]] :
        p \in {q \in Executed(region, value) : q < b /\ region[q][1] # region[q][2]}}

\* The paths are the ways to the block, and there are no two for one of them.
Enumerates(region, b, paths) ==
    /\ \A i \in DOMAIN paths : IsPath(paths[i])
    /\ \A i \in DOMAIN paths :
          \E v \in Values : b \in Executed(region, v) /\ Range(paths[i]) = Trace(region, v, b)
    /\ \A i, j \in DOMAIN paths : i # j => Range(paths[i]) # Range(paths[j])
    /\ \A v \in Values : b \in Executed(region, v) => \E i \in DOMAIN paths : Range(paths[i]) = Trace(region, v, b)

-----------------------------------------------------------------------------
(***************************************************************************)
(* The way through a region                                                *)
(***************************************************************************)
\* How the branches go from one block to the next.
Walks(region, value, at) ==
    /\ at \in [Nat -> 1 .. Exit] /\ at[0] = 1
    /\ \A n \in Nat : at[n + 1] = NextBlock(region, value, at[n])

\* A branch goes to a later block.
LEMMA NextBlockLater ==
    ASSUME NEW r \in Regions, NEW v \in Values, NEW p \in 1 .. Exit
    PROVE  /\ NextBlock(r, v, p) \in 1 .. Exit
           /\ p \in Block => p < NextBlock(r, v, p)
           /\ p = Exit => NextBlock(r, v, p) = Exit
<1>1. N \in Nat /\ N >= 1
  BY RegionAssumption
<1>2. CASE p = Exit
  BY <1>1, <1>2 DEF NextBlock, Exit, Block
<1>3. CASE p # Exit
  <2>1. p \in Block
    BY <1>1, <1>3 DEF Exit, Block
  <2>2. r[p] \in (2 .. Exit) \X (2 .. Exit) /\ r[p][1] > p /\ r[p][2] > p
    BY <2>1 DEF Regions
  <2>3. NextBlock(r, v, p) = r[p][1] \/ NextBlock(r, v, p) = r[p][2]
    BY <1>3 DEF NextBlock
  <2>4. NextBlock(r, v, p) \in 2 .. Exit /\ NextBlock(r, v, p) > p
    BY <2>2, <2>3
  <2>. QED
    BY <1>1, <1>3, <2>1, <2>4 DEF Exit, Block
<1>. QED
  BY <1>2, <1>3

\* Executed: the branches can be followed.
LEMMA WalkExists ==
    ASSUME NEW r \in Regions, NEW v \in Values
    PROVE  \E at : Walks(r, v, at) /\ Executed(r, v) = {b \in Block : \E n \in 0 .. N : at[n] = b}
<1>. DEFINE V == 1 .. Exit
            step == [x \in Nat \X V |-> NextBlock(r, v, x[2])]
            Def(g) == [n \in Nat |-> IF n = 0 THEN 1 ELSE NextBlock(r, v, g[n - 1])]
<1>1. 1 \in V /\ step \in [Nat \X V -> V]
  <2>1. 1 \in V
    BY RegionAssumption DEF Exit
  <2>2. \A x \in Nat \X V : NextBlock(r, v, x[2]) \in V
    BY NextBlockLater
  <2>. QED
    BY <2>1, <2>2
<1>2. PICK f : Recursive(V, 1, step, f)
  <2>. HIDE DEF V, step
  <2>. QED
    BY <1>1, PrimitiveRecursion
<1>3. f \in [Nat -> V] /\ f[0] = 1 /\ \A n \in Nat : f[n + 1] = NextBlock(r, v, f[n])
  <2>1. f \in [Nat -> V] /\ f[0] = 1 /\ \A n \in Nat : f[n + 1] = step[<<n, f[n]>>]
    BY <1>2 DEF Recursive
  <2>2. \A n \in Nat : f[n] \in V
    BY <2>1
  <2>3. \A n \in Nat : step[<<n, f[n]>>] = NextBlock(r, v, f[n])
    BY <2>2
  <2>. QED
    BY <2>1, <2>3
<1>4. f = Def(f)
  <2>. HIDE DEF V
  <2>1. ASSUME NEW n \in Nat, n # 0 PROVE f[n] = NextBlock(r, v, f[n - 1])
    <3>1. n - 1 \in Nat /\ (n - 1) + 1 = n
      BY <2>1
    <3>. QED
      BY <1>3, <3>1
  <2>. QED
    BY <1>3, <2>1
<1>. DEFINE at == CHOOSE g : g = Def(g)
<1>5. at = Def(at)
  <2>. HIDE DEF Def
  <2>. QED
    BY <1>4
<1>6. \A n \in Nat : at[n] = IF n = 0 THEN 1 ELSE NextBlock(r, v, at[n - 1])
  BY <1>5
<1>7. at = [n \in Nat |-> at[n]]
  BY <1>5
<1>8. Executed(r, v) = {b \in Block : \E n \in 0 .. N : at[n] = b}
  BY DEF Executed
<1>. HIDE DEF at
<1>9. \A n \in Nat : at[n] = f[n]
  <2>. DEFINE Bad == {n \in Nat : at[n] # f[n]}
  <2>. SUFFICES ASSUME Bad # {} PROVE FALSE
    OBVIOUS
  <2>1. PICK n \in Bad : \A m \in Bad : n <= m
    <3>1. Bad \in SUBSET Nat
      OBVIOUS
    <3>. HIDE DEF Bad
    <3>. QED
      BY <3>1, LeastNumber
  <2>2. n # 0
    BY <1>3, <1>6, <2>1
  <2>3. n - 1 \in Nat /\ (n - 1) + 1 = n /\ n - 1 \notin Bad
    BY <2>1, <2>2
  <2>4. at[n] = NextBlock(r, v, at[n - 1]) /\ f[n] = NextBlock(r, v, f[n - 1])
    BY <1>3, <1>6, <2>2, <2>3
  <2>. QED
    BY <2>1, <2>3, <2>4
<1>10. Walks(r, v, at)
  <2>1. at \in [Nat -> V]
    BY <1>3, <1>7, <1>9
  <2>2. \A n \in Nat : at[n + 1] = NextBlock(r, v, at[n]) /\ at[0] = 1
    BY <1>3, <1>9
  <2>. QED
    BY <2>1, <2>2 DEF Walks
<1>. QED
  BY <1>8, <1>10

\* The branches go on to later blocks until they leave the region.
LEMMA WalkRises ==
    ASSUME NEW r \in Regions, NEW v \in Values, NEW at, Walks(r, v, at), NEW m \in Nat, NEW n \in Nat, m < n
    PROVE  at[m] < at[n] \/ (at[m] = Exit /\ at[n] = Exit)
<1>. DEFINE Bad == {k \in Nat : m < k /\ ~(at[m] < at[k]) /\ ~(at[m] = Exit /\ at[k] = Exit)}
<1>. SUFFICES ASSUME Bad # {} PROVE FALSE
  OBVIOUS
<1>1. PICK k \in Bad : \A l \in Bad : k <= l
  <2>1. Bad \in SUBSET Nat
    OBVIOUS
  <2>. HIDE DEF Bad
  <2>. QED
    BY <2>1, LeastNumber
<1>2. k - 1 \in Nat /\ (k - 1) + 1 = k /\ k - 1 \notin Bad /\ m <= k - 1
  BY <1>1
<1>3. at[m] \in 1 .. Exit /\ at[k - 1] \in 1 .. Exit /\ at[k] \in 1 .. Exit /\ at[k] = NextBlock(r, v, at[k - 1])
  BY <1>1, <1>2 DEF Walks
<1>4. at[k - 1] < at[k] \/ (at[k - 1] = Exit /\ at[k] = Exit)
  <2>1. at[k - 1] \in Block \/ at[k - 1] = Exit
    BY <1>3, RegionAssumption DEF Block, Exit
  <2>. QED
    BY <1>3, <2>1, NextBlockLater
<1>5. m = k - 1 \/ at[m] < at[k - 1] \/ (at[m] = Exit /\ at[k - 1] = Exit)
  BY <1>1, <1>2
<1>6. at[m] < at[k] \/ (at[m] = Exit /\ at[k] = Exit)
  <2>1. Exit \in Nat
    BY RegionAssumption DEF Exit
  <2>. QED
    BY <1>3, <1>4, <1>5, <2>1
<1>. QED
  BY <1>1, <1>6

\* A block is executed at some step, however late that may be.
LEMMA ExecutedWhen ==
    ASSUME NEW r \in Regions, NEW v \in Values
    PROVE  \E at : Walks(r, v, at) /\ Executed(r, v) = {b \in Block : \E n \in Nat : at[n] = b}
<1>1. PICK at : Walks(r, v, at) /\ Executed(r, v) = {b \in Block : \E n \in 0 .. N : at[n] = b}
  BY WalkExists
<1>2. ASSUME NEW n \in Nat PROVE at[n] = Exit \/ n < at[n]
  <2>. DEFINE Bad == {k \in Nat : at[k] # Exit /\ ~(k < at[k])}
  <2>. SUFFICES ASSUME Bad # {} PROVE FALSE
    OBVIOUS
  <2>1. PICK k \in Bad : \A l \in Bad : k <= l
    <3>1. Bad \in SUBSET Nat
      OBVIOUS
    <3>. HIDE DEF Bad
    <3>. QED
      BY <3>1, LeastNumber
  <2>2. k # 0
    BY <1>1, <2>1 DEF Walks
  <2>3. k - 1 \in Nat /\ k - 1 < k /\ k - 1 \notin Bad
    BY <2>1, <2>2
  <2>4. at[k - 1] \in 1 .. Exit /\ at[k] \in 1 .. Exit
    BY <1>1, <2>1, <2>3 DEF Walks
  <2>5. at[k - 1] < at[k] \/ (at[k - 1] = Exit /\ at[k] = Exit)
    BY <1>1, <2>1, <2>3, WalkRises
  <2>6. Exit \in Nat
    BY RegionAssumption DEF Exit
  <2>. QED
    BY <2>1, <2>3, <2>4, <2>5, <2>6
<1>3. ASSUME NEW b \in Block, NEW n \in Nat, at[n] = b PROVE n \in 0 .. N
  BY <1>2, <1>3, RegionAssumption DEF Block, Exit
<1>4. N \in Nat
  BY RegionAssumption
<1>5. Executed(r, v) = {b \in Block : \E n \in Nat : at[n] = b}
  BY <1>1, <1>3, <1>4
<1>. QED
  BY <1>1, <1>5

\* What the proofs need to know of the blocks that are executed.
LEMMA ExecutedFacts ==
    ASSUME NEW r \in Regions, NEW v \in Values
    PROVE  /\ Executed(r, v) \subseteq Block /\ 1 \in Executed(r, v)
           /\ \A p \in Executed(r, v) : NextBlock(r, v, p) \in Block => NextBlock(r, v, p) \in Executed(r, v)
           /\ \A p, q \in Executed(r, v) : p < q => NextBlock(r, v, p) <= q
           /\ \A b \in Executed(r, v) : b # 1 => \E p \in Executed(r, v) : p < b /\ NextBlock(r, v, p) = b
<1>1. PICK at : Walks(r, v, at) /\ Executed(r, v) = {b \in Block : \E n \in Nat : at[n] = b}
  BY ExecutedWhen
<1>2. /\ at \in [Nat -> 1 .. Exit] /\ at[0] = 1
      /\ \A n \in Nat : at[n + 1] = NextBlock(r, v, at[n])
  BY <1>1 DEF Walks
<1>3. N \in Nat /\ N >= 1
  BY RegionAssumption
<1>4. Executed(r, v) \subseteq Block /\ 1 \in Executed(r, v)
  BY <1>1, <1>2, <1>3 DEF Block
<1>5. ASSUME NEW p \in Executed(r, v), NextBlock(r, v, p) \in Block
      PROVE  NextBlock(r, v, p) \in Executed(r, v)
  <2>1. PICK n \in Nat : at[n] = p
    BY <1>1
  <2>2. n + 1 \in Nat /\ at[n + 1] = NextBlock(r, v, p)
    BY <1>2, <2>1
  <2>. QED
    BY <1>1, <1>5, <2>2
<1>6. ASSUME NEW p \in Executed(r, v), NEW q \in Executed(r, v), p < q PROVE NextBlock(r, v, p) <= q
  <2>1. PICK m \in Nat : at[m] = p
    BY <1>1
  <2>2. PICK n \in Nat : at[n] = q
    BY <1>1
  <2>3. p \in 1 .. N /\ q \in 1 .. N /\ p # Exit /\ q # Exit
    BY <1>3, <1>4 DEF Block, Exit
  <2>4. m < n
    <3>1. ASSUME n < m PROVE FALSE
      <4>1. q < p \/ q = Exit
        BY <1>1, <2>1, <2>2, <3>1, WalkRises
      <4>. QED
        BY <1>6, <2>3, <4>1
    <3>2. m # n
      BY <1>6, <2>1, <2>2, <2>3
    <3>. QED
      BY <3>1, <3>2
  <2>5. at[m + 1] = NextBlock(r, v, p) /\ m + 1 \in Nat
    BY <1>2, <2>1
  <2>6. CASE m + 1 = n
    BY <2>2, <2>3, <2>5, <2>6
  <2>7. CASE m + 1 < n
    <3>1. at[m + 1] < q
      BY <1>1, <2>2, <2>3, <2>5, <2>7, WalkRises
    <3>2. at[m + 1] \in 1 .. Exit
      BY <1>2, <2>5
    <3>. QED
      BY <1>3, <2>3, <2>5, <3>1, <3>2 DEF Exit
  <2>. QED
    BY <2>4, <2>6, <2>7
<1>7. ASSUME NEW b \in Executed(r, v), b # 1 PROVE \E p \in Executed(r, v) : p < b /\ NextBlock(r, v, p) = b
  <2>1. PICK n \in Nat : at[n] = b
    BY <1>1
  <2>2. n # 0 /\ n - 1 \in Nat /\ (n - 1) + 1 = n
    BY <1>2, <1>7, <2>1
  <2>3. at[n - 1] \in 1 .. Exit /\ b = NextBlock(r, v, at[n - 1])
    BY <1>2, <2>1, <2>2
  <2>4. b # Exit
    BY <1>3, <1>4 DEF Block, Exit
  <2>5. at[n - 1] \in Block
    <3>1. at[n - 1] # Exit
      BY <2>3, <2>4, NextBlockLater
    <3>. QED
      BY <1>3, <2>3, <3>1 DEF Block, Exit
  <2>6. at[n - 1] \in Executed(r, v)
    BY <1>1, <2>2, <2>5
  <2>7. at[n - 1] < b
    BY <2>3, <2>5, NextBlockLater
  <2>. QED
    BY <2>3, <2>6, <2>7
<1>. QED
  BY <1>4, <1>5, <1>6, <1>7

-----------------------------------------------------------------------------
(***************************************************************************)
(* Traces                                                                  *)
(***************************************************************************)
Conditional(r, p) == r[p][1] # r[p][2]

\* The conditions of a trace are those of the executed blocks before it.
LEMMA TraceMembers ==
    ASSUME NEW r \in Regions, NEW v \in Values, NEW b
    PROVE  /\ Trace(r, v, b) \subseteq Literal
           /\ \A lit \in Literal : lit \in Trace(r, v, b) <=>
                /\ lit.atom \in Executed(r, v) /\ lit.atom < b /\ Conditional(r, lit.atom)
                /\ lit.negated = ~v[lit.atom]
           /\ \A p \in Executed(r, v) : p < b /\ Conditional(r, p) =>
                [atom |-> p, negated |-> ~v[p]] \in Trace(r, v, b)
<1>1. Executed(r, v) \subseteq Block
  BY ExecutedFacts
<1>2. \A p \in Block : v[p] \in BOOLEAN
  BY DEF Values
<1>3. \A p \in Executed(r, v) : p < b /\ Conditional(r, p) => [atom |-> p, negated |-> ~v[p]] \in Trace(r, v, b)
  BY DEF Trace, Conditional
<1>4. ASSUME NEW lit \in Trace(r, v, b)
      PROVE  /\ lit \in Literal /\ lit.atom \in Executed(r, v) /\ lit.atom < b /\ Conditional(r, lit.atom)
             /\ lit.negated = ~v[lit.atom]
  <2>1. PICK p \in Executed(r, v) : p < b /\ r[p][1] # r[p][2] /\ lit = [atom |-> p, negated |-> ~v[p]]
    BY DEF Trace
  <2>2. lit.atom = p /\ lit.negated = ~v[p]
    BY <2>1
  <2>3. lit \in Literal
    BY <1>1, <1>2, <2>1 DEF Literal
  <2>. QED
    BY <2>1, <2>2, <2>3 DEF Conditional
<1>5. ASSUME NEW lit \in Literal, lit.atom \in Executed(r, v), lit.atom < b, Conditional(r, lit.atom),
             lit.negated = ~v[lit.atom]
      PROVE  lit \in Trace(r, v, b)
  <2>1. lit = [atom |-> lit.atom, negated |-> lit.negated]
    BY DEF Literal
  <2>. QED
    BY <1>3, <1>5, <2>1
<1>. QED
  BY <1>3, <1>4, <1>5

\* The same values on the way to a block lead the same way.
LEMMA Agreement ==
    ASSUME NEW r \in Regions, NEW u \in Values, NEW v \in Values, NEW b \in Int,
           \A p \in Executed(r, u) : p < b /\ Conditional(r, p) => v[p] = u[p]
    PROVE  /\ \A q \in Block : q <= b => (q \in Executed(r, u) <=> q \in Executed(r, v))
           /\ Trace(r, v, b) = Trace(r, u, b)
<1>1. /\ Executed(r, u) \subseteq Block /\ 1 \in Executed(r, u)
      /\ Executed(r, v) \subseteq Block /\ 1 \in Executed(r, v)
  BY ExecutedFacts
<1>2. Block \subseteq Nat
  BY RegionAssumption DEF Block
<1>3. ASSUME NEW p \in Executed(r, u), p < b PROVE NextBlock(r, v, p) = NextBlock(r, u, p)
  <2>1. CASE Conditional(r, p)
    <3>1. v[p] = u[p]
      BY <1>3, <2>1
    <3>. QED
      BY <3>1 DEF NextBlock
  <2>2. CASE ~Conditional(r, p)
    <3>1. \A i, j \in {1, 2} : r[p][i] = r[p][j]
      BY <2>2 DEF Conditional
    <3>. QED
      BY <3>1 DEF NextBlock
  <2>. QED
    BY <2>1, <2>2
<1>. DEFINE Bad == {q \in Block : q <= b /\ ~(q \in Executed(r, u) <=> q \in Executed(r, v))}
<1>4. Bad = {}
  <2>. SUFFICES ASSUME Bad # {} PROVE FALSE
    OBVIOUS
  <2>1. PICK q \in Bad : \A l \in Bad : q <= l
    <3>1. Bad \in SUBSET Nat
      BY <1>2
    <3>. HIDE DEF Bad
    <3>. QED
      BY <3>1, LeastNumber
  <2>2. q \in Block /\ q <= b /\ q \in Nat /\ q # 1
    BY <1>1, <1>2, <2>1
  <2>3. ASSUME NEW p \in Block, p < q PROVE p < b /\ (p \in Executed(r, u) <=> p \in Executed(r, v))
    <3>1. p \in Nat /\ ~(q <= p) /\ p < b /\ p <= b
      BY <1>2, <2>2, <2>3
    <3>2. p \notin Bad
      BY <2>1, <3>1
    <3>. QED
      BY <3>1, <3>2
  <2>4. ASSUME q \in Executed(r, u) PROVE q \in Executed(r, v)
    <3>1. PICK p \in Executed(r, u) : p < q /\ NextBlock(r, u, p) = q
      BY <2>2, <2>4, ExecutedFacts
    <3>2. p \in Executed(r, v) /\ p < b
      BY <1>1, <2>3, <3>1
    <3>3. NextBlock(r, v, p) = q
      BY <1>3, <3>1, <3>2
    <3>. QED
      BY <2>2, <3>2, <3>3, ExecutedFacts
  <2>5. ASSUME q \in Executed(r, v) PROVE q \in Executed(r, u)
    <3>1. PICK p \in Executed(r, v) : p < q /\ NextBlock(r, v, p) = q
      BY <2>2, <2>5, ExecutedFacts
    <3>2. p \in Executed(r, u) /\ p < b
      BY <1>1, <2>3, <3>1
    <3>3. NextBlock(r, u, p) = q
      BY <1>3, <3>1, <3>2
    <3>. QED
      BY <2>2, <3>2, <3>3, ExecutedFacts
  <2>. QED
    BY <2>1, <2>4, <2>5
<1>5. \A q \in Block : q <= b => (q \in Executed(r, u) <=> q \in Executed(r, v))
  BY <1>4
<1>6. Trace(r, v, b) = Trace(r, u, b)
  <2>1. Trace(r, v, b) \subseteq Literal /\ Trace(r, u, b) \subseteq Literal
    BY TraceMembers
  <2>2. ASSUME NEW lit \in Literal PROVE lit \in Trace(r, v, b) <=> lit \in Trace(r, u, b)
    <3>1. lit.atom \in Block /\ lit.atom \in Nat
      BY <1>2 DEF Literal
    <3>2. lit.atom < b => (lit.atom \in Executed(r, u) <=> lit.atom \in Executed(r, v))
      <4>1. lit.atom < b => lit.atom <= b
        BY <3>1
      <4>. QED
        BY <1>5, <3>1, <4>1
    <3>3. lit.atom \in Executed(r, u) /\ lit.atom < b /\ Conditional(r, lit.atom) => v[lit.atom] = u[lit.atom]
      OBVIOUS
    <3>. QED
      BY <3>2, <3>3, TraceMembers
  <2>. QED
    BY <2>1, <2>2
<1>. QED
  BY <1>5, <1>6

\* A trace that holds is the trace of the values for which it holds.
LEMMA TraceHolds ==
    ASSUME NEW r \in Regions, NEW u \in Values, NEW v \in Values, NEW b \in Block,
           \A lit \in Trace(r, u, b) : Holds(lit, v)
    PROVE  /\ \A q \in Block : q <= b => (q \in Executed(r, u) <=> q \in Executed(r, v))
           /\ b \in Executed(r, u) <=> b \in Executed(r, v)
           /\ Trace(r, v, b) = Trace(r, u, b)
<1>1. Executed(r, u) \subseteq Block /\ b \in Int /\ b <= b
  BY ExecutedFacts, RegionAssumption DEF Block
<1>2. ASSUME NEW p \in Executed(r, u), p < b, Conditional(r, p) PROVE v[p] = u[p]
  <2>. DEFINE lit == [atom |-> p, negated |-> ~u[p]]
  <2>1. lit \in Trace(r, u, b)
    BY <1>2, TraceMembers
  <2>2. v[p] # ~u[p]
    <3>1. Holds(lit, v) /\ lit.atom = p /\ lit.negated = ~u[p]
      BY <2>1
    <3>. HIDE DEF lit
    <3>. QED
      BY <3>1 DEF Holds
  <2>3. v[p] \in BOOLEAN /\ u[p] \in BOOLEAN
    BY <1>1 DEF Values
  <2>. QED
    BY <2>2, <2>3
<1>. QED
  BY <1>1, <1>2, Agreement

\* A trace holds for its own values.
LEMMA TraceOwn ==
    ASSUME NEW r \in Regions, NEW v \in Values, NEW b
    PROVE  \A lit \in Trace(r, v, b) : Holds(lit, v)
<1>. TAKE lit \in Trace(r, v, b)
<1>1. lit \in Literal /\ lit.atom \in Executed(r, v) /\ lit.negated = ~v[lit.atom]
  BY TraceMembers
<1>2. v[lit.atom] \in BOOLEAN
  BY <1>1, ExecutedFacts DEF Values
<1>. QED
  BY <1>1, <1>2 DEF Holds

\* Two ways to a block agree until one condition sends them apart.
LEMMA TracesDiverge ==
    ASSUME NEW r \in Regions, NEW u \in Values, NEW v \in Values, NEW b \in Int,
           Trace(r, u, b) # Trace(r, v, b)
    PROVE  Diverge(Trace(r, u, b), Trace(r, v, b))
<1>. DEFINE A == Trace(r, u, b)
            B == Trace(r, v, b)
            Bad == {a \in Block : \E lit \in Literal : lit.atom = a /\ ~(lit \in A <=> lit \in B)}
<1>0. Block \subseteq Nat
  BY RegionAssumption DEF Block
<1>1. A \subseteq Literal /\ B \subseteq Literal
  BY TraceMembers
<1>2. Bad # {}
  <2>1. PICK lit \in Literal : ~(lit \in A <=> lit \in B)
    BY <1>1
  <2>2. lit.atom \in Block
    BY DEF Literal
  <2>. QED
    BY <2>1, <2>2
<1>3. PICK a \in Bad : \A x \in Bad : a <= x
  <2>1. Bad \in SUBSET Nat
    BY <1>0
  <2>. HIDE DEF Bad
  <2>. QED
    BY <1>2, <2>1, LeastNumber
<1>4. PICK lit \in Literal : lit.atom = a /\ ~(lit \in A <=> lit \in B)
  BY <1>3
<1>5. a \in Block /\ a \in Nat /\ a \in Int /\ a <= a
  BY <1>0, <1>3
<1>6. ASSUME NEW m \in Literal, m.atom < a PROVE m \in A <=> m \in B
  <2>1. m.atom \in Block /\ m.atom \in Nat
    BY <1>0 DEF Literal
  <2>2. m.atom \notin Bad
    BY <1>3, <1>5, <1>6, <2>1
  <2>. QED
    BY <2>1, <2>2
<1>. HIDE DEF Bad
<1>7. a < b
  BY <1>4, TraceMembers
<1>8. a \in Executed(r, u) <=> a \in Executed(r, v)
  <2>1. ASSUME NEW p \in Executed(r, u), p < a, Conditional(r, p) PROVE v[p] = u[p]
    <3>. DEFINE m == [atom |-> p, negated |-> ~u[p]]
    <3>1. p \in Block
      BY ExecutedFacts
    <3>2. p < b
      <4>1. p \in Nat
        BY <1>0, <3>1
      <4>. QED
        BY <1>5, <1>7, <2>1, <4>1
    <3>3. m \in A
      BY <2>1, <3>2, TraceMembers
    <3>4. m.atom = p /\ m.negated = ~u[p] /\ m \in Literal
      BY <1>1, <3>3
    <3>. HIDE DEF m
    <3>5. m \in B
      BY <1>6, <2>1, <3>3, <3>4
    <3>6. m.negated = ~v[p]
      BY <3>4, <3>5, TraceMembers
    <3>7. v[p] \in BOOLEAN /\ u[p] \in BOOLEAN
      BY <3>1 DEF Values
    <3>. QED
      BY <3>4, <3>6, <3>7
  <2>. QED
    BY <1>5, <2>1, Agreement
<1>9. Conditional(r, a) /\ a \in Executed(r, u) /\ a \in Executed(r, v)
  BY <1>4, <1>8, TraceMembers
<1>. DEFINE l == [atom |-> a, negated |-> ~u[a]]
            k == [atom |-> a, negated |-> ~v[a]]
<1>10. l \in A /\ k \in B
  BY <1>7, <1>9, TraceMembers
<1>11. u[a] \in BOOLEAN /\ v[a] \in BOOLEAN
  BY <1>5 DEF Values
<1>12. v[a] # u[a]
  <2>. SUFFICES ASSUME v[a] = u[a] PROVE FALSE
    OBVIOUS
  <2>1. lit \in A <=> lit.negated = ~u[a]
    BY <1>4, <1>7, <1>9, TraceMembers
  <2>2. lit \in B <=> lit.negated = ~v[a]
    BY <1>4, <1>7, <1>9, TraceMembers
  <2>. QED
    BY <1>4, <2>1, <2>2
<1>13. Opposite(l) = k
  <2>1. ~(~u[a]) = ~v[a]
    BY <1>11, <1>12
  <2>. QED
    BY <2>1 DEF Opposite
<1>14. l.atom = a
  OBVIOUS
<1>. HIDE DEF l, k, A, B
<1>15. Diverge(A, B)
  BY <1>6, <1>10, <1>13, <1>14 DEF Diverge
<1>. QED
  BY <1>15 DEF A, B

\* The condition of an edge, if there is one.
EdgeLiterals(r, p, b) ==
    IF Conditional(r, p) THEN {[atom |-> p, negated |-> b # r[p][1]]} ELSE {}

\* A way to a block that leads on to another one has the condition of the edge more.
LEMMA TraceStep ==
    ASSUME NEW r \in Regions, NEW v \in Values, NEW p \in Executed(r, v), NEW b \in Block,
           NextBlock(r, v, p) = b
    PROVE  p < b /\ Trace(r, v, b) = Trace(r, v, p) \cup EdgeLiterals(r, p, b)
<1>1. p \in Block /\ p \in 1 .. Exit /\ Block \subseteq Nat /\ p # Exit
  BY ExecutedFacts, RegionAssumption DEF Block, Exit
<1>2. p < b
  BY <1>1, NextBlockLater
<1>3. \A q \in Executed(r, v) : q < b <=> q < p \/ q = p
  <2>. TAKE q \in Executed(r, v)
  <2>1. q \in Nat /\ p \in Nat /\ b \in Nat
    BY <1>1, ExecutedFacts
  <2>2. p < q => b <= q
    BY ExecutedFacts
  <2>. QED
    BY <1>2, <2>1, <2>2
<1>4. v[p] \in BOOLEAN
  BY <1>1 DEF Values
<1>5. Conditional(r, p) => (b # r[p][1]) = ~v[p]
  <2>1. b = r[p][IF v[p] THEN 1 ELSE 2]
    BY <1>1 DEF NextBlock
  <2>. QED
    BY <1>4, <2>1 DEF Conditional
<1>6. EdgeLiterals(r, p, b) = {[atom |-> q, negated |-> ~v[q]] : q \in {x \in {p} : Conditional(r, x)}}
  BY <1>5 DEF EdgeLiterals
<1>7. {q \in Executed(r, v) : q < b /\ Conditional(r, q)} =
        {q \in Executed(r, v) : q < p /\ Conditional(r, q)} \cup {x \in {p} : Conditional(r, x)}
  BY <1>3
<1>. QED
  BY <1>2, <1>6, <1>7 DEF Trace, Conditional

\* Whatever the way to a block, either branch may follow.
LEMMA Redirect ==
    ASSUME NEW r \in Regions, NEW u \in Values, NEW p \in Executed(r, u), NEW b, b \in {r[p][1], r[p][2]}
    PROVE  \E v \in Values : /\ p \in Executed(r, v) /\ Trace(r, v, p) = Trace(r, u, p)
                             /\ NextBlock(r, v, p) = b
<1>. DEFINE v == [q \in Block |-> IF q = p THEN b = r[p][1] ELSE u[q]]
<1>1. p \in Block /\ Executed(r, u) \subseteq Block /\ p \in Int /\ p <= p /\ p # Exit
  BY ExecutedFacts, RegionAssumption DEF Block, Exit
<1>2. v \in Values
  BY DEF Values
<1>3. \A q \in Executed(r, u) : q < p => v[q] = u[q]
  BY <1>1
<1>4. v[p] = (b = r[p][1])
  BY <1>1
<1>. HIDE DEF v
<1>5. p \in Executed(r, v) /\ Trace(r, v, p) = Trace(r, u, p)
  BY <1>1, <1>2, <1>3, Agreement
<1>6. NextBlock(r, v, p) = b
  BY <1>1, <1>4 DEF NextBlock
<1>. QED
  BY <1>2, <1>5, <1>6

-----------------------------------------------------------------------------
(***************************************************************************)
(* The paths that foldBasicBlocks collects                                 *)
(***************************************************************************)
\* The paths to a block: the one without conditions stands for none.
Paths(collected) == IF collected = <<>> THEN <<<<>>>> ELSE collected

\* What reachingConditions holds for a block.
Traced(r, b, collected) ==
    /\ collected \in Seq(Seq(Literal)) /\ \A i \in DOMAIN collected : collected[i] # <<>>
    /\ Enumerates(r, b, Paths(collected))

\* The conditions of the edges.
LEMMA EdgeConditionLiterals ==
    ASSUME NEW p \in Block, NEW b
    PROVE  /\ EdgeCondition(p, b) \in Seq(Literal) /\ Len(EdgeCondition(p, b)) <= 1
           /\ Range(EdgeCondition(p, b)) = EdgeLiterals(succ, p, b)
           /\ \A i \in DOMAIN EdgeCondition(p, b) : EdgeCondition(p, b)[i].atom = p
<1>1. CASE Conditional(succ, p)
  <2>. DEFINE lit == [atom |-> p, negated |-> b # succ[p][1]]
  <2>1. EdgeCondition(p, b) = <<lit>> /\ EdgeLiterals(succ, p, b) = {lit}
    BY <1>1 DEF EdgeCondition, EdgeLiterals, Conditional
  <2>2. lit \in Literal /\ lit.atom = p
    BY DEF Literal
  <2>. HIDE DEF lit
  <2>3. Range(<<lit>>) = {lit}
    BY DEF Range
  <2>. QED
    BY <2>1, <2>2, <2>3
<1>2. CASE ~Conditional(succ, p)
  <2>1. EdgeCondition(p, b) = <<>> /\ EdgeLiterals(succ, p, b) = {}
    BY <1>2 DEF EdgeCondition, EdgeLiterals, Conditional
  <2>2. Range(<<>>) = {}
    BY DEF Range
  <2>. QED
    BY <2>1, <2>2
<1>. QED
  BY <1>1, <1>2

\* The elements of a sequence that is put after another.
LEMMA RangeOfConcat ==
    ASSUME NEW S, NEW s \in Seq(S), NEW t \in Seq(S)
    PROVE  /\ s \o t \in Seq(S) /\ Len(s \o t) = Len(s) + Len(t)
           /\ Range(s \o t) = Range(s) \cup Range(t)
<1>. DEFINE u == s \o t
<1>1. \A i \in DOMAIN s : i \in DOMAIN u /\ u[i] = s[i]
  OBVIOUS
<1>2. \A i \in DOMAIN t : Len(s) + i \in DOMAIN u /\ u[Len(s) + i] = t[i]
  OBVIOUS
<1>3. \A i \in DOMAIN u : i \in DOMAIN s \/ (i - Len(s) \in DOMAIN t /\ u[i] = t[i - Len(s)])
  OBVIOUS
<1>4. u \in Seq(S) /\ Len(u) = Len(s) + Len(t)
  OBVIOUS
<1>. HIDE DEF u
<1>5. Range(s) \cup Range(t) \subseteq Range(u)
  BY <1>1, <1>2, Zenon DEF Range
<1>6. ASSUME NEW i \in DOMAIN u PROVE u[i] \in Range(s) \cup Range(t)
  <2>1. CASE i \in DOMAIN s
    BY <1>1, <2>1, Zenon DEF Range
  <2>2. CASE i \notin DOMAIN s
    BY <1>3, <2>2, Zenon DEF Range
  <2>. QED
    BY <2>1, <2>2
<1>7. Range(u) \subseteq Range(s) \cup Range(t)
  BY <1>6, Zenon DEF Range
<1>. QED
  BY <1>4, <1>5, <1>7 DEF u

\* A path to a block, extended with the condition of an edge from it.
LEMMA ExtendedPath ==
    ASSUME NEW p \in Block, NEW b, NEW t, IsPath(t), \A i \in DOMAIN t : t[i].atom < p
    PROVE  /\ IsPath(t \o EdgeCondition(p, b))
           /\ Range(t \o EdgeCondition(p, b)) = Range(t) \cup EdgeLiterals(succ, p, b)
<1>. DEFINE e == EdgeCondition(p, b)
            s == t \o e
<1>1. t \in Seq(Literal) /\ Sorted(t)
  BY DEF IsPath
<1>2. /\ e \in Seq(Literal) /\ Len(e) <= 1 /\ Range(e) = EdgeLiterals(succ, p, b)
      /\ \A i \in DOMAIN e : e[i].atom = p
  BY EdgeConditionLiterals
<1>. HIDE DEF e
<1>3. s \in Seq(Literal) /\ Range(s) = Range(t) \cup Range(e) /\ Len(s) = Len(t) + Len(e)
  BY <1>1, <1>2, RangeOfConcat
<1>4. \A i \in DOMAIN t : s[i] = t[i]
  BY <1>1, <1>2
<1>5. \A i \in DOMAIN s : i \in DOMAIN t \/ (i = Len(t) + 1 /\ s[i] = e[1] /\ 1 \in DOMAIN e)
  BY <1>1, <1>2
<1>. HIDE DEF s
<1>6. ASSUME NEW i \in DOMAIN s, NEW j \in DOMAIN s, i < j PROVE s[i].atom < s[j].atom
  <2>1. DOMAIN t = 1 .. Len(t) /\ Len(t) \in Nat /\ DOMAIN s = 1 .. Len(s) /\ Len(s) \in Nat
    BY <1>1, <1>3
  <2>2. i \in DOMAIN t
    BY <1>2, <1>3, <1>6, <2>1
  <2>3. CASE j \in DOMAIN t
    BY <1>1, <1>4, <1>6, <2>2, <2>3 DEF Sorted
  <2>4. CASE j \notin DOMAIN t
    <3>1. s[j].atom = p
      BY <1>2, <1>5, <2>4
    <3>. QED
      BY <1>4, <2>2, <3>1
  <2>. QED
    BY <2>3, <2>4
<1>7. Sorted(s)
  BY <1>6 DEF Sorted
<1>. QED
  BY <1>2, <1>3, <1>7 DEF IsPath, s, e

\* The paths to b that come from the blocks in P, each once.  There is none for
\* a way without conditions.
Collects(r, b, P, paths) ==
    /\ paths \in Seq(Seq(Literal))
    /\ \A i \in DOMAIN paths :
          /\ IsPath(paths[i]) /\ paths[i] # <<>>
          /\ \E p \in P : \E v \in Values :
                p \in Executed(r, v) /\ NextBlock(r, v, p) = b /\ Range(paths[i]) = Trace(r, v, b)
    /\ \A i, j \in DOMAIN paths : i # j => Range(paths[i]) # Range(paths[j])
    /\ \A p \in P : \A v \in Values : p \in Executed(r, v) /\ NextBlock(r, v, p) = b =>
          Trace(r, v, b) = {} \/ \E i \in DOMAIN paths : Range(paths[i]) = Trace(r, v, b)

\* PathsThrough extends every path to the predecessor.
LEMMA PathsThroughShape ==
    ASSUME NEW p \in Block, NEW b, reaching[p] \in Seq(Seq(Literal)),
           \A i \in DOMAIN reaching[p] : reaching[p][i] # <<>>
    PROVE  /\ PathsThrough(p, b) \in Seq(Seq(Literal))
           /\ \A j \in DOMAIN PathsThrough(p, b) :
                 /\ j \in DOMAIN Paths(reaching[p]) /\ PathsThrough(p, b)[j] # <<>>
                 /\ PathsThrough(p, b)[j] = Paths(reaching[p])[j] \o EdgeCondition(p, b)
           /\ \A i \in DOMAIN Paths(reaching[p]) :
                 Paths(reaching[p])[i] \o EdgeCondition(p, b) = <<>> \/ i \in DOMAIN PathsThrough(p, b)
<1>. DEFINE e == EdgeCondition(p, b)
            c == reaching[p]
<1>1. e \in Seq(Literal) /\ c \in Seq(Seq(Literal)) /\ \A i \in DOMAIN c : c[i] # <<>>
  BY EdgeConditionLiterals
<1>2. PathsThrough(p, b) = IF c = <<>> THEN IF e = <<>> THEN <<>> ELSE <<e>> ELSE [i \in DOMAIN c |-> c[i] \o e]
  BY DEF PathsThrough
<1>3. Paths(c) = IF c = <<>> THEN <<<<>>>> ELSE c
  BY DEF Paths
<1>. HIDE DEF e, c
<1>. DEFINE B == PathsThrough(p, b)
            ps == Paths(c)
<1>4. CASE c = <<>>
  <2>1. ps = <<<<>>>> /\ DOMAIN ps = {1} /\ ps[1] = <<>> /\ <<>> \o e = e
    BY <1>1, <1>3, <1>4
  <2>2. CASE e = <<>>
    <3>1. B = <<>> /\ DOMAIN B = {} /\ B \in Seq(Seq(Literal))
      BY <1>2, <1>4, <2>2
    <3>. QED
      BY <2>1, <2>2, <3>1 DEF c, e
  <2>3. CASE e # <<>>
    <3>1. B = <<e>> /\ DOMAIN B = {1} /\ B \in Seq(Seq(Literal)) /\ B[1] = e
      BY <1>1, <1>2, <1>4, <2>3
    <3>. HIDE DEF B, ps
    <3>. QED
      BY <2>1, <2>3, <3>1 DEF c, e, B, ps
  <2>. QED
    BY <2>2, <2>3
<1>5. CASE c # <<>>
  <2>1. ps = c /\ B = [i \in DOMAIN c |-> c[i] \o e]
    BY <1>2, <1>3, <1>5
  <2>2. ASSUME NEW i \in DOMAIN c PROVE c[i] \in Seq(Literal) /\ c[i] \o e \in Seq(Literal) /\ c[i] \o e # <<>>
    <3>1. c[i] \in Seq(Literal) /\ c[i] # <<>>
      BY <1>1
    <3>. QED
      BY <1>1, <3>1
  <2>3. B \in Seq(Seq(Literal)) /\ DOMAIN B = DOMAIN c
    <3>1. DOMAIN c = 1 .. Len(c) /\ Len(c) \in Nat
      BY <1>1
    <3>2. B \in [1 .. Len(c) -> Seq(Literal)]
      BY <2>1, <2>2, <3>1
    <3>. QED
      BY <2>1, <3>1, <3>2
  <2>4. \A i \in DOMAIN c : B[i] = c[i] \o e
    BY <2>1
  <2>. HIDE DEF B, ps
  <2>. QED
    BY <2>1, <2>2, <2>3, <2>4 DEF c, e, B, ps
<1>. QED
  BY <1>4, <1>5

\* The paths of one predecessor.
LEMMA CollectsThrough ==
    ASSUME succ \in Regions, NEW p \in Block, NEW b \in Block, Precedes(p, b), Traced(succ, p, reaching[p])
    PROVE  Collects(succ, b, {p}, PathsThrough(p, b))
<1>. DEFINE e == EdgeCondition(p, b)
            ps == Paths(reaching[p])
            B == PathsThrough(p, b)
            E == EdgeLiterals(succ, p, b)
            Comes(v) == p \in Executed(succ, v) /\ NextBlock(succ, v, p) = b
<1>1. /\ B \in Seq(Seq(Literal))
      /\ \A j \in DOMAIN B : j \in DOMAIN ps /\ B[j] # <<>> /\ B[j] = ps[j] \o e
      /\ \A i \in DOMAIN ps : ps[i] \o e = <<>> \/ i \in DOMAIN B
  <2>1. reaching[p] \in Seq(Seq(Literal)) /\ \A i \in DOMAIN reaching[p] : reaching[p][i] # <<>>
    BY DEF Traced
  <2>. QED
    BY <2>1, PathsThroughShape
<1>2. /\ \A i \in DOMAIN ps : IsPath(ps[i])
      /\ \A i \in DOMAIN ps : \E v \in Values : p \in Executed(succ, v) /\ Range(ps[i]) = Trace(succ, v, p)
      /\ \A i, j \in DOMAIN ps : i # j => Range(ps[i]) # Range(ps[j])
      /\ \A v \in Values : p \in Executed(succ, v) => \E i \in DOMAIN ps : Range(ps[i]) = Trace(succ, v, p)
  BY DEF Traced, Enumerates
<1>. HIDE DEF ps, B, e
<1>3. ASSUME NEW i \in DOMAIN ps
      PROVE  /\ \A lit \in Range(ps[i]) : lit.atom < p
             /\ IsPath(ps[i] \o e) /\ Range(ps[i] \o e) = Range(ps[i]) \cup E
             /\ \E v \in Values : Comes(v) /\ Range(ps[i] \o e) = Trace(succ, v, b)
  <2>1. PICK u \in Values : p \in Executed(succ, u) /\ Range(ps[i]) = Trace(succ, u, p)
    BY <1>2
  <2>2. \A lit \in Range(ps[i]) : lit.atom < p
    BY <2>1, TraceMembers
  <2>3. \A j \in DOMAIN ps[i] : ps[i][j].atom < p
    BY <2>2 DEF Range
  <2>4. IsPath(ps[i] \o e) /\ Range(ps[i] \o e) = Range(ps[i]) \cup E
    BY <1>2, <2>3, ExtendedPath DEF e
  <2>5. PICK v \in Values : /\ p \in Executed(succ, v) /\ Trace(succ, v, p) = Trace(succ, u, p)
                            /\ NextBlock(succ, v, p) = b
    BY <2>1, Redirect DEF Precedes
  <2>6. Trace(succ, v, b) = Trace(succ, v, p) \cup E
    BY <2>5, TraceStep
  <2>. QED
    BY <2>1, <2>2, <2>4, <2>5, <2>6
<1>4. \A i \in DOMAIN B : IsPath(B[i]) /\ B[i] # <<>> /\ \E v \in Values : Comes(v) /\ Range(B[i]) = Trace(succ, v, b)
  BY <1>1, <1>3
<1>5. ASSUME NEW i \in DOMAIN B, NEW j \in DOMAIN B, i # j PROVE Range(B[i]) # Range(B[j])
  <2>1. Range(B[i]) = Range(ps[i]) \cup E /\ Range(B[j]) = Range(ps[j]) \cup E
    BY <1>1, <1>3
  <2>2. \A lit \in E : lit.atom = p
    BY DEF EdgeLiterals
  <2>3. ~(p < p)
    BY RegionAssumption DEF Block
  <2>4. \A lit \in E : lit \notin Range(ps[i]) /\ lit \notin Range(ps[j])
    BY <1>1, <1>3, <2>2, <2>3
  <2>5. Range(ps[i]) # Range(ps[j])
    BY <1>1, <1>2, <1>5
  <2>. QED
    BY <2>1, <2>4, <2>5
<1>6. ASSUME NEW v \in Values, Comes(v)
      PROVE  Trace(succ, v, b) = {} \/ \E i \in DOMAIN B : Range(B[i]) = Trace(succ, v, b)
  <2>1. PICK i \in DOMAIN ps : Range(ps[i]) = Trace(succ, v, p)
    BY <1>2, <1>6
  <2>2. Trace(succ, v, b) = Range(ps[i] \o e)
    <3>1. Trace(succ, v, b) = Trace(succ, v, p) \cup E
      BY <1>6, TraceStep
    <3>. QED
      BY <1>3, <2>1, <3>1
  <2>3. CASE ps[i] \o e = <<>>
    <3>1. Range(<<>>) = {}
      BY DEF Range
    <3>. QED
      BY <2>2, <2>3, <3>1
  <2>4. CASE i \in DOMAIN B
    BY <1>1, <2>2, <2>4
  <2>. QED
    BY <1>1, <2>1, <2>3, <2>4
<1>7. Collects(succ, b, {p}, B)
  <2>1. B \in Seq(Seq(Literal))
    BY <1>1
  <2>. QED
    BY <1>4, <1>5, <1>6, <2>1, Zenon DEF Collects
<1>. QED
  BY <1>7 DEF B

\* A way to a block comes from one predecessor.
LEMMA OnePredecessor ==
    ASSUME NEW r \in Regions, NEW b \in Block, NEW u \in Values, NEW v \in Values,
           NEW p \in Executed(r, u), NextBlock(r, u, p) = b,
           NEW q \in Executed(r, v), NextBlock(r, v, q) = b, Trace(r, u, b) = Trace(r, v, b)
    PROVE  p = q
<1>1. \A x \in Block : x <= b => (x \in Executed(r, u) <=> x \in Executed(r, v))
  BY TraceOwn, TraceHolds
<1>2. p \in Block /\ q \in Block /\ p \in Nat /\ q \in Nat /\ b \in Nat
  BY ExecutedFacts, RegionAssumption DEF Block
<1>3. p < b /\ q < b
  BY TraceStep
<1>4. p \in Executed(r, v) /\ q \in Executed(r, u)
  BY <1>1, <1>2, <1>3
<1>5. ~(p < q)
  <2>1. p < q => b <= q
    BY <1>4, ExecutedFacts
  <2>. QED
    BY <1>2, <1>3, <2>1
<1>6. ~(q < p)
  <2>1. q < p => b <= p
    BY <1>4, ExecutedFacts
  <2>. QED
    BY <1>2, <1>3, <2>1
<1>. QED
  BY <1>2, <1>5, <1>6

\* The paths from some predecessors, and then those from others.
LEMMA CollectsMore ==
    ASSUME NEW r \in Regions, NEW b \in Block, NEW P, NEW Q, P \cap Q = {},
           NEW A, Collects(r, b, P, A), NEW B, Collects(r, b, Q, B)
    PROVE  Collects(r, b, P \cup Q, A \o B)
<1>. DEFINE s == A \o B
            Comes(p, v) == p \in Executed(r, v) /\ NextBlock(r, v, p) = b
            Element(S, t) == /\ IsPath(t) /\ t # <<>>
                             /\ \E p \in S : \E v \in Values : Comes(p, v) /\ Range(t) = Trace(r, v, b)
<1>1. A \in Seq(Seq(Literal)) /\ B \in Seq(Seq(Literal))
  BY DEF Collects
<1>2. (\A i \in DOMAIN A : Element(P, A[i])) /\ \A i \in DOMAIN B : Element(Q, B[i])
  BY Zenon DEF Collects
<1>3. /\ \A i, j \in DOMAIN A : i # j => Range(A[i]) # Range(A[j])
      /\ \A i, j \in DOMAIN B : i # j => Range(B[i]) # Range(B[j])
  BY DEF Collects
<1>4. /\ \A p \in P : \A v \in Values : Comes(p, v) =>
            Trace(r, v, b) = {} \/ \E i \in DOMAIN A : Range(A[i]) = Trace(r, v, b)
      /\ \A p \in Q : \A v \in Values : Comes(p, v) =>
            Trace(r, v, b) = {} \/ \E i \in DOMAIN B : Range(B[i]) = Trace(r, v, b)
  BY Zenon DEF Collects
<1>5. s \in Seq(Seq(Literal))
  BY <1>1
<1>6. \A i \in DOMAIN A : i \in DOMAIN s /\ s[i] = A[i]
  BY <1>1
<1>7. \A i \in DOMAIN B : Len(A) + i \in DOMAIN s /\ s[Len(A) + i] = B[i]
  BY <1>1
<1>8. \A i \in DOMAIN s : \/ i \in DOMAIN A /\ s[i] = A[i]
                          \/ i \notin DOMAIN A /\ i - Len(A) \in DOMAIN B /\ s[i] = B[i - Len(A)]
  BY <1>1
<1>. HIDE DEF s
<1>9. ASSUME NEW i \in DOMAIN A, NEW j \in DOMAIN B PROVE Range(A[i]) # Range(B[j])
  <2>1. PICK p \in P, u \in Values : Comes(p, u) /\ Range(A[i]) = Trace(r, u, b)
    BY <1>2
  <2>2. PICK q \in Q, v \in Values : Comes(q, v) /\ Range(B[j]) = Trace(r, v, b)
    BY <1>2
  <2>3. p # q
    BY <2>1, <2>2
  <2>. QED
    BY <2>1, <2>2, <2>3, OnePredecessor
<1>10. \A i \in DOMAIN s : Element(P \cup Q, s[i])
  BY <1>2, <1>8, Zenon
<1>11. ASSUME NEW i \in DOMAIN s, NEW j \in DOMAIN s, i # j PROVE Range(s[i]) # Range(s[j])
  <2>0. \A k \in DOMAIN s : k \in Nat
    BY <1>5
  <2>1. Len(A) \in Nat
    BY <1>1
  <2>2. CASE i \in DOMAIN A /\ j \in DOMAIN A
    BY <1>3, <1>8, <1>11, <2>2
  <2>3. CASE i \notin DOMAIN A /\ j \notin DOMAIN A
    <3>1. i - Len(A) # j - Len(A)
      BY <1>11, <2>0, <2>1
    <3>. QED
      BY <1>3, <1>8, <2>3, <3>1
  <2>4. CASE i \in DOMAIN A /\ j \notin DOMAIN A
    BY <1>8, <1>9, <2>4
  <2>5. CASE i \notin DOMAIN A /\ j \in DOMAIN A
    BY <1>8, <1>9, <2>5
  <2>. QED
    BY <2>2, <2>3, <2>4, <2>5
<1>12. ASSUME NEW p \in P \cup Q, NEW v \in Values, Comes(p, v)
       PROVE  Trace(r, v, b) = {} \/ \E i \in DOMAIN s : Range(s[i]) = Trace(r, v, b)
  <2>1. CASE p \in P
    BY <1>4, <1>6, <1>12, <2>1
  <2>2. CASE p \in Q
    BY <1>4, <1>7, <1>12, <2>2
  <2>. QED
    BY <2>1, <2>2
<1>13. Collects(r, b, P \cup Q, s)
  BY <1>5, <1>10, <1>11, <1>12, Zenon DEF Collects
<1>. QED
  BY <1>13 DEF s

\* A block that does not precede another one has no paths to it.
LEMMA CollectsNothing ==
    ASSUME succ \in Regions, NEW P \in SUBSET Block, NEW b \in Block, \A p \in P : ~Precedes(p, b)
    PROVE  Collects(succ, b, P, <<>>)
<1>1. ASSUME NEW p \in P, NEW v PROVE NextBlock(succ, v, p) # b
  <2>1. p # Exit
    BY RegionAssumption DEF Block, Exit
  <2>2. NextBlock(succ, v, p) \in {succ[p][1], succ[p][2]}
    BY <2>1 DEF NextBlock
  <2>. QED
    BY <2>2 DEF Precedes
<1>2. <<>> \in Seq(Seq(Literal)) /\ DOMAIN <<>> = {}
  OBVIOUS
<1>. QED
  BY <1>1, <1>2 DEF Collects

\* Disjunction collects the paths of all predecessors.
LEMMA DisjunctionCollects ==
    ASSUME succ \in Regions, order \in Orders, NEW b \in Block,
           \A p \in Block : p < b => Traced(succ, p, reaching[p])
    PROVE  Collects(succ, b, Block, Disjunction(b))
<1>. DEFINE Part(n) == IF Precedes(order[b][n], b) THEN PathsThrough(order[b][n], b) ELSE <<>>
            Def(g) == [n \in 0 .. N |-> IF n = 0 THEN <<>> ELSE g[n - 1] \o Part(n)]
            V == Seq(Seq(Literal))
            step == [x \in Nat \X V |-> IF x[1] < N THEN x[2] \o Part(x[1] + 1) ELSE x[2]]
            Seen(n) == {order[b][m] : m \in 1 .. n}
<1>0. N \in Nat /\ b \in 1 .. N /\ Block = 1 .. N
  BY RegionAssumption DEF Block
<1>1. /\ order[b] \in [1 .. N -> 1 .. N]
      /\ \A p \in 1 .. N : \E n \in 1 .. N : order[b][n] = p
      /\ \A m, n \in 1 .. N : order[b][m] = order[b][n] => m = n
  <2>1. order \in Orders /\ b \in 1 .. N
    BY <1>0
  <2>2. IsOrder(order[b])
    BY <2>1, RegionAssumption
  <2>. QED
    BY <2>2 DEF IsOrder
<1>2. ASSUME NEW n \in 1 .. N PROVE Collects(succ, b, {order[b][n]}, Part(n)) /\ Part(n) \in V
  <2>1. order[b][n] \in Block
    BY <1>0, <1>1
  <2>2. CASE Precedes(order[b][n], b)
    <3>1. order[b][n] < b
      <4>1. succ[order[b][n]][1] > order[b][n] /\ succ[order[b][n]][2] > order[b][n]
        BY <2>1 DEF Regions
      <4>2. order[b][n] \in Nat /\ b \in Nat
        BY <1>0, <2>1
      <4>. QED
        BY <2>2, <4>1, <4>2 DEF Precedes
    <3>2. Collects(succ, b, {order[b][n]}, PathsThrough(order[b][n], b))
      BY <2>1, <2>2, <3>1, CollectsThrough
    <3>. QED
      BY <2>2, <3>2 DEF Collects
  <2>3. CASE ~Precedes(order[b][n], b)
    <3>1. Collects(succ, b, {order[b][n]}, <<>>)
      BY <2>1, <2>3, CollectsNothing
    <3>. QED
      BY <2>3, <3>1 DEF Collects
  <2>. QED
    BY <2>2, <2>3
<1>3. \E g : g = Def(g)
  <2>. HIDE DEF Part
  <2>1. <<>> \in V
    OBVIOUS
  <2>2. step \in [Nat \X V -> V]
    <3>1. ASSUME NEW x \in Nat \X V, x[1] < N PROVE x[2] \o Part(x[1] + 1) \in V
      <4>1. x[1] + 1 \in 1 .. N /\ x[2] \in V
        BY <1>0, <3>1
      <4>2. Part(x[1] + 1) \in V
        BY <1>2, <4>1
      <4>. QED
        BY <4>1, <4>2
    <3>. QED
      BY <3>1
  <2>3. PICK g : Upto(V, <<>>, step, N, g)
    <3>. HIDE DEF V, step
    <3>. QED
      BY <1>0, <2>1, <2>2, RecursionUpto
  <2>4. g \in [0 .. N -> V] /\ g[0] = <<>> /\ \A m \in 0 .. N - 1 : g[m + 1] = step[<<m, g[m]>>]
    BY <2>3 DEF Upto
  <2>5. ASSUME NEW n \in 0 .. N, n # 0 PROVE g[n] = g[n - 1] \o Part(n)
    <3>1. n - 1 \in 0 .. N - 1 /\ n - 1 \in 0 .. N /\ (n - 1) + 1 = n /\ n - 1 \in Nat /\ n - 1 < N
      BY <1>0, <2>5
    <3>2. g[n - 1] \in V
      BY <2>4, <3>1
    <3>3. g[n] = step[<<n - 1, g[n - 1]>>]
      BY <2>4, <3>1
    <3>4. step[<<n - 1, g[n - 1]>>] = g[n - 1] \o Part((n - 1) + 1)
      BY <3>1, <3>2
    <3>. QED
      BY <3>1, <3>3, <3>4
  <2>6. g = Def(g)
    <3>. HIDE DEF V
    <3>. QED
      BY <2>4, <2>5
  <2>. QED
    BY <2>6
<1>. DEFINE c == CHOOSE g : g = Def(g)
<1>4. c = Def(c)
  <2>. HIDE DEF Def
  <2>. QED
    BY <1>3
<1>5. Disjunction(b) = c[N]
  BY DEF Disjunction
<1>. HIDE DEF c, Part
<1>6. c[0] = <<>> /\ \A n \in 1 .. N : c[n] = c[n - 1] \o Part(n)
  <2>1. \A n \in 0 .. N : c[n] = IF n = 0 THEN <<>> ELSE c[n - 1] \o Part(n)
    BY <1>4
  <2>2. 0 \in 0 .. N /\ \A n \in 1 .. N : n \in 0 .. N /\ n # 0
    BY <1>0
  <2>. QED
    BY <2>1, <2>2
<1>7. \A n \in 0 .. N : Collects(succ, b, Seen(n), c[n])
  <2>. DEFINE Bad == {n \in 0 .. N : ~Collects(succ, b, Seen(n), c[n])}
  <2>. SUFFICES ASSUME Bad # {} PROVE FALSE
    OBVIOUS
  <2>1. PICK n \in Bad : \A l \in Bad : n <= l
    <3>1. Bad \in SUBSET Nat
      BY <1>0
    <3>. HIDE DEF Bad
    <3>. QED
      BY <3>1, LeastNumber
  <2>2. n # 0
    <3>1. Seen(0) = {}
      OBVIOUS
    <3>2. Collects(succ, b, {}, <<>>)
      BY CollectsNothing
    <3>. QED
      BY <1>6, <2>1, <3>1, <3>2
  <2>3. n \in 1 .. N /\ n - 1 \in 0 .. N /\ ~(n <= n - 1)
    BY <1>0, <2>1, <2>2
  <2>4. Collects(succ, b, Seen(n - 1), c[n - 1])
    BY <2>1, <2>3
  <2>5. Seen(n) = Seen(n - 1) \cup {order[b][n]} /\ Seen(n - 1) \cap {order[b][n]} = {}
    <3>1. \A m \in 1 .. n : m \in 1 .. n - 1 \/ m = n
      BY <2>3
    <3>2. \A m \in 1 .. n - 1 : m \in 1 .. n /\ m \in 1 .. N /\ m # n
      BY <1>0, <2>3
    <3>3. n \in 1 .. n
      BY <2>3
    <3>4. ASSUME NEW p \in Seen(n) PROVE p \in Seen(n - 1) \cup {order[b][n]}
      <4>1. PICK m \in 1 .. n : p = order[b][m]
        OBVIOUS
      <4>. QED
        BY <3>1, <4>1
    <3>5. ASSUME NEW p \in Seen(n - 1) PROVE p \in Seen(n) /\ p # order[b][n]
      <4>1. PICK m \in 1 .. n - 1 : p = order[b][m]
        OBVIOUS
      <4>2. order[b][m] # order[b][n]
        BY <1>1, <2>3, <3>2
      <4>. QED
        BY <3>2, <4>1, <4>2
    <3>6. order[b][n] \in Seen(n)
      BY <3>3
    <3>. HIDE DEF Seen
    <3>. QED
      BY <3>4, <3>5, <3>6
  <2>6. Collects(succ, b, {order[b][n]}, Part(n))
    BY <1>2, <2>3
  <2>7. Collects(succ, b, Seen(n), c[n])
    <3>. HIDE DEF Seen
    <3>1. c[n] = c[n - 1] \o Part(n)
      BY <1>6, <2>3
    <3>2. Collects(succ, b, Seen(n - 1) \cup {order[b][n]}, c[n - 1] \o Part(n))
      BY <2>4, <2>5, <2>6, CollectsMore, Zenon
    <3>. QED
      BY <2>5, <3>1, <3>2
  <2>. QED
    BY <2>1, <2>7
<1>8. Seen(N) = Block
  <2>1. ASSUME NEW p \in Seen(N) PROVE p \in 1 .. N
    <3>1. PICK n \in 1 .. N : p = order[b][n]
      OBVIOUS
    <3>. QED
      BY <1>1, <3>1
  <2>2. ASSUME NEW p \in 1 .. N PROVE p \in Seen(N)
    <3>1. PICK n \in 1 .. N : order[b][n] = p
      BY <1>1
    <3>. QED
      BY <3>1
  <2>. QED
    BY <1>0, <2>1, <2>2
<1>9. N \in 0 .. N
  BY <1>0
<1>. HIDE DEF Seen
<1>. QED
  BY <1>5, <1>7, <1>8, <1>9

\* The ways to a block, once those to its predecessors are known.
LEMMA DisjunctionTraced ==
    ASSUME succ \in Regions, order \in Orders, NEW b \in Block,
           \A p \in Block : p < b => Traced(succ, p, reaching[p])
    PROVE  Traced(succ, b, Disjunction(b))
<1>. DEFINE d == Disjunction(b)
            ps == Paths(d)
<1>1. Collects(succ, b, Block, d)
  BY DisjunctionCollects
<1>. HIDE DEF d
<1>2. b \in Nat /\ b \in Int /\ Block \subseteq Nat
  BY RegionAssumption DEF Block
<1>3. /\ d \in Seq(Seq(Literal))
      /\ \A i \in DOMAIN d : IsPath(d[i]) /\ d[i] # <<>>
      /\ \A i \in DOMAIN d : \E v \in Values : b \in Executed(succ, v) /\ Range(d[i]) = Trace(succ, v, b)
      /\ \A i, j \in DOMAIN d : i # j => Range(d[i]) # Range(d[j])
  <2>1. \A i \in DOMAIN d : \E p \in Block : \E v \in Values :
           p \in Executed(succ, v) /\ NextBlock(succ, v, p) = b /\ Range(d[i]) = Trace(succ, v, b)
    BY <1>1 DEF Collects
  <2>2. \A v \in Values : \A p \in Executed(succ, v) : NextBlock(succ, v, p) = b => b \in Executed(succ, v)
    BY ExecutedFacts
  <2>. QED
    BY <1>1, <2>1, <2>2 DEF Collects
<1>4. ASSUME NEW v \in Values, b \in Executed(succ, v)
      PROVE  Trace(succ, v, b) = {} \/ \E i \in DOMAIN d : Range(d[i]) = Trace(succ, v, b)
  <2>1. CASE b = 1
    <3>1. \A q \in Executed(succ, v) : ~(q < 1)
      BY ExecutedFacts, RegionAssumption DEF Block
    <3>. QED
      BY <2>1, <3>1 DEF Trace
  <2>2. CASE b # 1
    <3>1. PICK p \in Executed(succ, v) : NextBlock(succ, v, p) = b
      BY <1>4, <2>2, ExecutedFacts
    <3>2. p \in Block
      BY ExecutedFacts
    <3>. QED
      BY <1>1, <3>1, <3>2 DEF Collects
  <2>. QED
    BY <2>1, <2>2
<1>5. \E v \in Values : b \in Executed(succ, v)
  <2>1. CASE b = 1
    <3>1. [q \in Block |-> TRUE] \in Values
      BY DEF Values
    <3>. QED
      BY <2>1, <3>1, ExecutedFacts
  <2>2. CASE b # 1
    <3>1. PICK p \in Block : b \in {succ[p][1], succ[p][2]}
      BY <2>2 DEF Regions
    <3>2. p < b
      <4>1. succ[p][1] > p /\ succ[p][2] > p
        BY DEF Regions
      <4>. QED
        BY <1>2, <3>1, <4>1
    <3>3. Enumerates(succ, p, Paths(reaching[p])) /\ reaching[p] \in Seq(Seq(Literal))
      BY <3>2 DEF Traced
    <3>4. 1 \in DOMAIN Paths(reaching[p])
      BY <3>3 DEF Paths
    <3>5. PICK u \in Values : p \in Executed(succ, u)
      BY <3>3, <3>4 DEF Enumerates
    <3>6. PICK v \in Values : p \in Executed(succ, v) /\ NextBlock(succ, v, p) = b
      BY <3>1, <3>5, Redirect
    <3>. QED
      BY <3>6, ExecutedFacts
  <2>. QED
    BY <2>1, <2>2
<1>6. CASE d = <<>>
  <2>1. ps = <<<<>>>> /\ DOMAIN ps = {1} /\ ps[1] = <<>>
    BY <1>6 DEF Paths
  <2>2. IsPath(<<>>) /\ Range(<<>>) = {}
    BY DEF IsPath, Sorted, Range
  <2>3. \A v \in Values : b \in Executed(succ, v) => Trace(succ, v, b) = {}
    BY <1>4, <1>6
  <2>. HIDE DEF ps
  <2>4. Enumerates(succ, b, ps)
    BY <1>5, <2>1, <2>2, <2>3 DEF Enumerates
  <2>. QED
    BY <1>3, <2>4 DEF Traced, ps, d
<1>7. CASE d # <<>>
  <2>1. ps = d
    BY <1>7 DEF Paths
  <2>2. ASSUME NEW v \in Values, b \in Executed(succ, v), Trace(succ, v, b) = {} PROVE FALSE
    <3>1. 1 \in DOMAIN d /\ d[1] # <<>> /\ d[1] \in Seq(Literal)
      BY <1>3, <1>7
    <3>2. PICK u \in Values : Range(d[1]) = Trace(succ, u, b)
      BY <1>3, <3>1
    <3>3. d[1][1] \in Range(d[1])
      <4>1. 1 \in DOMAIN d[1]
        BY <3>1
      <4>. QED
        BY <4>1 DEF Range
    <3>4. Trace(succ, v, b) # Trace(succ, u, b)
      BY <2>2, <3>2, <3>3
    <3>5. Diverge({}, Trace(succ, u, b))
      BY <1>2, <2>2, <3>4, TracesDiverge
    <3>. QED
      BY <3>5 DEF Diverge
  <2>3. \A v \in Values : b \in Executed(succ, v) => \E i \in DOMAIN d : Range(d[i]) = Trace(succ, v, b)
    BY <1>4, <2>2
  <2>4. Enumerates(succ, b, d)
    BY <1>3, <2>3 DEF Enumerates
  <2>. QED
    BY <1>3, <2>1, <2>4 DEF Traced, d
<1>. QED
  BY <1>6, <1>7

-----------------------------------------------------------------------------
(***************************************************************************)
(* Conditions and their opposites                                          *)
(***************************************************************************)
\* A condition has one opposite.
LEMMA Opposites ==
    ASSUME NEW lit \in Literal
    PROVE  /\ Opposite(lit) \in Literal /\ Opposite(Opposite(lit)) = lit /\ Opposite(lit).atom = lit.atom
           /\ Opposite(lit) # lit
           /\ \A m \in Literal : areOpposites(lit, m) <=> m = Opposite(lit)
           /\ \A m \in Literal : m.atom = lit.atom => m = lit \/ m = Opposite(lit)
<1>1. lit.atom \in Block /\ lit.negated \in BOOLEAN /\ lit = [atom |-> lit.atom, negated |-> lit.negated]
  BY DEF Literal
<1>2. Opposite(lit) \in Literal /\ Opposite(lit).atom = lit.atom /\ Opposite(lit).negated = ~lit.negated
  BY <1>1 DEF Opposite, Literal
<1>3. Opposite(lit) # lit
  BY <1>1, <1>2
<1>4. Opposite(Opposite(lit)) = lit
  <2>1. Opposite(Opposite(lit)) = [atom |-> lit.atom, negated |-> ~(~lit.negated)]
    BY <1>2 DEF Opposite
  <2>2. ~(~lit.negated) = lit.negated
    BY <1>1
  <2>. QED
    BY <1>1, <2>1, <2>2
<1>5. ASSUME NEW m \in Literal
      PROVE  /\ areOpposites(lit, m) <=> m = Opposite(lit)
             /\ m.atom = lit.atom => m = lit \/ m = Opposite(lit)
  <2>1. m.negated \in BOOLEAN /\ m = [atom |-> m.atom, negated |-> m.negated]
    BY DEF Literal
  <2>2. m.negated = lit.negated \/ m.negated = ~lit.negated
    BY <1>1, <2>1
  <2>3. m.negated = ~lit.negated <=> lit.negated # m.negated
    BY <1>1, <2>1
  <2>4. Opposite(lit) = [atom |-> lit.atom, negated |-> ~lit.negated]
    BY DEF Opposite
  <2>. QED
    BY <1>1, <1>2, <2>1, <2>2, <2>3, <2>4 DEF areOpposites
<1>. QED
  BY <1>2, <1>3, <1>4, <1>5

\* A condition holds when its opposite does not.
LEMMA OppositeHolds ==
    ASSUME NEW lit \in Literal, NEW v \in Values
    PROVE  Holds(Opposite(lit), v) <=> ~Holds(lit, v)
<1>1. lit.atom \in Block /\ lit.negated \in BOOLEAN
  BY DEF Literal
<1>2. v[lit.atom] \in BOOLEAN
  BY <1>1 DEF Values
<1>3. Opposite(lit).atom = lit.atom /\ Opposite(lit).negated = ~lit.negated
  BY DEF Opposite
<1>. QED
  BY <1>1, <1>2, <1>3 DEF Holds

\* Conditions of which no two contradict each other.
Consistent(A) == A \subseteq Literal /\ \A lit \in A : Opposite(lit) \notin A

\* A path decides every block once.
LEMMA PathLiterals ==
    ASSUME NEW t, IsPath(t)
    PROVE  /\ Consistent(Range(t)) /\ Len(t) \in Nat /\ DOMAIN t = 1 .. Len(t)
           /\ \A i \in DOMAIN t : t[i] \in Literal /\ t[i] \in Range(t)
           /\ \A i, j \in DOMAIN t : t[i].atom = t[j].atom => i = j
<1>1. t \in Seq(Literal) /\ Sorted(t)
  BY DEF IsPath
<1>2. Len(t) \in Nat /\ DOMAIN t = 1 .. Len(t) /\ \A i \in DOMAIN t : t[i] \in Literal
  BY <1>1
<1>3. \A i \in DOMAIN t : t[i] \in Range(t)
  BY DEF Range
<1>4. \A i \in DOMAIN t : t[i].atom \in Nat
  BY <1>2, RegionAssumption DEF Literal, Block
<1>5. ASSUME NEW i \in DOMAIN t, NEW j \in DOMAIN t, t[i].atom = t[j].atom PROVE i = j
  <2>1. ~(i < j) /\ ~(j < i)
    BY <1>1, <1>4, <1>5 DEF Sorted
  <2>. QED
    BY <1>2, <2>1
<1>6. ASSUME NEW lit \in Range(t) PROVE lit \in Literal /\ Opposite(lit) \notin Range(t)
  <2>1. PICK i \in DOMAIN t : lit = t[i]
    BY DEF Range
  <2>2. ASSUME NEW j \in DOMAIN t, Opposite(lit) = t[j] PROVE FALSE
    <3>1. t[i].atom = t[j].atom /\ t[i] # t[j]
      BY <1>2, <2>1, <2>2, Opposites
    <3>. QED
      BY <1>5, <3>1
  <2>. QED
    BY <1>2, <2>1, <2>2 DEF Range
<1>7. Consistent(Range(t))
  BY <1>6 DEF Consistent
<1>. QED
  BY <1>2, <1>3, <1>5, <1>7

\* What a path requires is what its conditions require.
LEMMA HoldsAllRange ==
    ASSUME NEW t, NEW v
    PROVE  HoldsAll(t, v) <=> \A lit \in Range(t) : Holds(lit, v)
BY DEF HoldsAll, Range

\* It does not matter which of two sets diverges from the other.
LEMMA DivergeSymmetric ==
    ASSUME NEW A, NEW B, A \subseteq Literal, Diverge(A, B)
    PROVE  Diverge(B, A)
<1>1. PICK lit \in A : Opposite(lit) \in B /\ \A m \in Literal : m.atom < lit.atom => (m \in A <=> m \in B)
  BY DEF Diverge
<1>2. Opposite(Opposite(lit)) = lit /\ Opposite(lit).atom = lit.atom
  BY Opposites
<1>. QED
  BY <1>1, <1>2 DEF Diverge

\* Conditions common to two sets have no part in how they diverge.
LEMMA DivergeWithout ==
    ASSUME NEW A, NEW B, NEW C, Consistent(A), Consistent(B), Diverge(A, B), C \subseteq A, C \subseteq B
    PROVE  Diverge(A \ C, B \ C) /\ A \ C # {}
<1>1. PICK lit \in A : Opposite(lit) \in B /\ \A m \in Literal : m.atom < lit.atom => (m \in A <=> m \in B)
  BY DEF Diverge
<1>2. lit \notin C /\ Opposite(lit) \notin C
  BY <1>1 DEF Consistent
<1>. QED
  BY <1>1, <1>2 DEF Diverge

\* A single condition diverges from what starts with its opposite.
LEMMA DivergeFromUnit ==
    ASSUME NEW e, NEW B, Diverge({e}, B)
    PROVE  Opposite(e) \in B /\ \A m \in Literal : m.atom < e.atom => m \notin B
<1>1. /\ Opposite(e) \in B
      /\ \A m \in Literal : m.atom < e.atom => (m \in {e} <=> m \in B)
  BY DEF Diverge
<1>2. ASSUME NEW m \in Literal, m.atom < e.atom PROVE m # e
  <2>1. m.atom \in Nat
    BY RegionAssumption DEF Literal, Block
  <2>. QED
    BY <1>2, <2>1
<1>. QED
  BY <1>1, <1>2

\* Two single conditions leave no room for more.
LEMMA TwoUnits ==
    ASSUME NEW d \in Literal, NEW e \in Literal, NEW B, Consistent(B),
           Diverge({d}, {e}), Diverge({d}, B), Diverge({e}, B)
    PROVE  FALSE
<1>1. Opposite(d) = e /\ Opposite(d) \in B /\ Opposite(e) \in B
  BY DivergeFromUnit
<1>2. Opposite(e) = d
  BY <1>1, Opposites
<1>. QED
  BY <1>1, <1>2 DEF Consistent

-----------------------------------------------------------------------------
(***************************************************************************)
(* createDisjunction: the loop over sizeOneConjunctions                    *)
(***************************************************************************)
\* A sequence without one of its elements.
LEMMA RemovedAt ==
    ASSUME NEW S, NEW t \in Seq(S), NEW i \in 1 .. Len(t)
    PROVE  /\ RemoveAt(t, i) \in Seq(S) /\ Len(RemoveAt(t, i)) = Len(t) - 1
           /\ \A j \in 1 .. Len(t) - 1 : RemoveAt(t, i)[j] = IF j < i THEN t[j] ELSE t[j + 1]
<1>. DEFINE a == SubSeq(t, 1, i - 1)
            b == SubSeq(t, i + 1, Len(t))
<1>1. Len(t) \in Nat /\ i \in Nat
  OBVIOUS
<1>2. a \in Seq(S) /\ Len(a) = i - 1 /\ \A j \in 1 .. i - 1 : a[j] = t[j]
  OBVIOUS
<1>3. b \in Seq(S) /\ Len(b) = Len(t) - i /\ \A j \in 1 .. Len(t) - i : b[j] = t[i + j]
  OBVIOUS
<1>4. RemoveAt(t, i) = a \o b
  BY DEF RemoveAt
<1>. HIDE DEF a, b
<1>5. a \o b \in Seq(S) /\ Len(a \o b) = Len(t) - 1
  <2>1. a \o b \in Seq(S) /\ Len(a \o b) = Len(a) + Len(b)
    BY <1>2, <1>3, RangeOfConcat
  <2>2. (i - 1) + (Len(t) - i) = Len(t) - 1
    BY <1>1
  <2>. QED
    BY <1>2, <1>3, <2>1, <2>2
<1>6. ASSUME NEW j \in 1 .. Len(t) - 1 PROVE (a \o b)[j] = IF j < i THEN t[j] ELSE t[j + 1]
  <2>1. CASE j < i
    BY <1>1, <1>2, <1>3, <2>1
  <2>2. CASE ~(j < i)
    <3>1. j - (i - 1) \in 1 .. Len(t) - i /\ i + (j - (i - 1)) = j + 1
      BY <1>1, <2>2
    <3>2. (a \o b)[j] = b[j - (i - 1)]
      BY <1>1, <1>2, <1>3, <2>2
    <3>. QED
      BY <1>3, <2>2, <3>1, <3>2
  <2>. QED
    BY <2>1, <2>2
<1>. QED
  BY <1>4, <1>5, <1>6

\* A path without one of its conditions.
LEMMA RemovedCondition ==
    ASSUME NEW t, IsPath(t), NEW i \in DOMAIN t
    PROVE  /\ IsPath(RemoveAt(t, i)) /\ Len(RemoveAt(t, i)) = Len(t) - 1
           /\ Range(RemoveAt(t, i)) = Range(t) \ {t[i]}
<1>. DEFINE s == RemoveAt(t, i)
            old(j) == IF j < i THEN j ELSE j + 1
<1>1. t \in Seq(Literal) /\ Sorted(t) /\ Len(t) \in Nat /\ DOMAIN t = 1 .. Len(t)
  BY DEF IsPath
<1>2. s \in Seq(Literal) /\ Len(s) = Len(t) - 1 /\ \A j \in 1 .. Len(t) - 1 : s[j] = t[old(j)]
  BY <1>1, RemovedAt
<1>. HIDE DEF s
<1>3. DOMAIN s = 1 .. Len(t) - 1
  BY <1>2
<1>4. \A j \in DOMAIN s : old(j) \in DOMAIN t /\ old(j) # i
  BY <1>1, <1>3
<1>5. \A j, k \in DOMAIN s : j < k => old(j) < old(k)
  BY <1>1, <1>3
<1>6. \A j \in DOMAIN t : j # i => \E k \in DOMAIN s : old(k) = j
  <2>. TAKE j \in DOMAIN t
  <2>. HAVE j # i
  <2>1. CASE j < i
    BY <1>1, <1>3, <2>1
  <2>2. CASE ~(j < i)
    <3>1. j - 1 \in DOMAIN s /\ old(j - 1) = j
      BY <1>1, <1>3, <2>2
    <3>. QED
      BY <3>1
  <2>. QED
    BY <2>1, <2>2
<1>. HIDE DEF old
<1>7. \A j \in DOMAIN s : s[j] = t[old(j)]
  BY <1>2, <1>3
<1>8. \A j \in DOMAIN t : t[j] = t[i] => j = i
  BY PathLiterals
<1>9. Sorted(s)
  BY <1>1, <1>4, <1>5, <1>7 DEF Sorted
<1>10. Range(s) = Range(t) \ {t[i]}
  <2>1. ASSUME NEW j \in DOMAIN s PROVE s[j] \in Range(t) /\ s[j] # t[i]
    BY <1>4, <1>7, <1>8 DEF Range
  <2>2. ASSUME NEW j \in DOMAIN t, t[j] # t[i] PROVE t[j] \in Range(s)
    <3>1. PICK k \in DOMAIN s : old(k) = j
      BY <1>6, <2>2
    <3>2. s[k] = t[j]
      BY <1>7, <3>1
    <3>. QED
      BY <3>2 DEF Range
  <2>. QED
    BY <2>1, <2>2 DEF Range
<1>. QED
  BY <1>2, <1>9, <1>10 DEF s, IsPath

\* EraseOpposite takes the opposite of a condition from a path.
LEMMA OppositeErased ==
    ASSUME NEW t, IsPath(t), NEW one \in Literal
    PROVE  /\ IsPath(EraseOpposite(t, one)) /\ Range(EraseOpposite(t, one)) = Range(t) \ {Opposite(one)}
           /\ Opposite(one) \in Range(t) => Len(EraseOpposite(t, one)) = Len(t) - 1
           /\ Opposite(one) \notin Range(t) => EraseOpposite(t, one) = t
<1>. DEFINE hits == {j \in DOMAIN t : areOpposites(one, t[j])}
<1>1. EraseOpposite(t, one) = IF hits = {} THEN t ELSE RemoveAt(t, Min(hits))
  BY DEF EraseOpposite
<1>2. /\ \A i \in DOMAIN t : t[i] \in Literal /\ t[i] \in Range(t)
      /\ \A i, j \in DOMAIN t : t[i].atom = t[j].atom => i = j
      /\ DOMAIN t = 1 .. Len(t) /\ Len(t) \in Nat
  BY PathLiterals
<1>3. hits = {j \in DOMAIN t : t[j] = Opposite(one)}
  BY <1>2, Opposites
<1>. HIDE DEF hits
<1>4. CASE Opposite(one) \notin Range(t)
  <2>1. hits = {}
    BY <1>2, <1>3, <1>4
  <2>. QED
    BY <1>1, <1>4, <2>1
<1>5. CASE Opposite(one) \in Range(t)
  <2>1. PICK j \in DOMAIN t : t[j] = Opposite(one)
    BY <1>5 DEF Range
  <2>2. hits = {j}
    BY <1>2, <1>3, <2>1
  <2>3. Min(hits) = j
    <3>1. j <= j
      BY <1>2
    <3>. QED
      BY <2>2, <3>1 DEF Min
  <2>4. EraseOpposite(t, one) = RemoveAt(t, j)
    BY <1>1, <2>2, <2>3
  <2>. QED
    BY <1>5, <2>1, <2>4, RemovedCondition
<1>. QED
  BY <1>4, <1>5

\* Some of the terms hold.
HoldsSome(terms, v) == \E k \in DOMAIN terms : HoldsAll(terms[k], v)

\* Terms as foldBasicBlocks creates them: any two part with opposite conditions.
GoodTerms(terms) ==
    /\ DOMAIN terms \in SUBSET Nat /\ IsFiniteSet(DOMAIN terms)
    /\ terms \in [DOMAIN terms -> Seq(Literal)]
    /\ \A k \in DOMAIN terms : IsPath(terms[k]) /\ terms[k] # <<>>
    /\ \A j, k \in DOMAIN terms : j # k => Diverge(Range(terms[j]), Range(terms[k]))

\* The opposite of the first condition of the next term is in all larger ones,
\* or, where the wrong index was added, in none.
Fits(s) ==
    LET o == s.ones[1] IN
    \/ o \notin s.larger /\ Len(s.conj[o]) = 1 /\ \A k \in s.larger : Opposite(s.conj[o][1]) \in Range(s.conj[k])
    \/ \A k \in s.larger : Opposite(s.conj[o][1]) \notin Range(s.conj[k])

\* What the loop keeps true.
Reduced(terms, s) ==
    /\ DOMAIN s.conj = DOMAIN terms /\ \A k \in DOMAIN terms : IsPath(s.conj[k]) /\ s.conj[k] # <<>>
    /\ s.larger \subseteq DOMAIN terms \ SizeOne(terms) /\ \A k \in s.larger : Len(s.conj[k]) >= 2
    /\ \A j, k \in s.larger : j # k => Diverge(Range(s.conj[j]), Range(s.conj[k]))
    /\ s.ones \in Seq(DOMAIN terms)
    /\ s.larger = {} \/ s.ones = <<>> \/ (Len(s.ones) = 1 /\ Fits(s))
    /\ \A v \in Values : HoldsSome(s.conj, v) <=> HoldsSome(terms, v)

\* A path with one condition.
LEMMA UnitPath ==
    ASSUME NEW t, IsPath(t), Len(t) = 1
    PROVE  Range(t) = {t[1]} /\ t[1] \in Literal
<1>1. DOMAIN t = {1} /\ t[1] \in Literal
  <2>1. DOMAIN t = 1 .. Len(t) /\ \A i \in DOMAIN t : t[i] \in Literal
    BY PathLiterals
  <2>. QED
    BY <2>1
<1>. QED
  BY <1>1 DEF Range

\* The first condition of a path.
LEMMA FirstOfPath ==
    ASSUME NEW t, IsPath(t), t # <<>>
    PROVE  /\ Len(t) >= 1 /\ Len(t) \in Nat /\ 1 \in DOMAIN t /\ Head(t) = t[1]
           /\ t[1] \in Range(t) /\ t[1] \in Literal
           /\ \A lit \in Range(t) : lit = t[1] \/ t[1].atom < lit.atom
<1>1. t \in Seq(Literal) /\ Sorted(t) /\ DOMAIN t = 1 .. Len(t) /\ Len(t) \in Nat
  BY DEF IsPath
<1>2. Len(t) # 0
  BY <1>1
<1>3. 1 \in DOMAIN t /\ Head(t) = t[1]
  BY <1>1, <1>2
<1>4. t[1] \in Range(t) /\ t[1] \in Literal
  BY <1>3, PathLiterals
<1>5. ASSUME NEW lit \in Range(t), lit # t[1] PROVE t[1].atom < lit.atom
  <2>1. PICK i \in DOMAIN t : lit = t[i]
    BY DEF Range
  <2>2. 1 < i
    BY <1>1, <1>5, <2>1
  <2>. QED
    BY <1>1, <1>3, <2>1, <2>2 DEF Sorted
<1>. QED
  BY <1>1, <1>2, <1>3, <1>4, <1>5

\* Of paths that diverge, two have one condition only if there are no others.
LEMMA UnitsAlone ==
    ASSUME NEW c, NEW L, \A k \in L : IsPath(c[k]),
           \A j, k \in L : j # k => Diverge(Range(c[j]), Range(c[k])),
           NEW i \in L, NEW j \in L, NEW k \in L, i # j, i # k, j # k, Len(c[i]) = 1, Len(c[j]) = 1
    PROVE  FALSE
<1>1. Range(c[i]) = {c[i][1]} /\ Range(c[j]) = {c[j][1]} /\ c[i][1] \in Literal /\ c[j][1] \in Literal
  BY UnitPath
<1>2. Consistent(Range(c[k]))
  BY PathLiterals
<1>3. /\ Diverge(Range(c[i]), Range(c[j])) /\ Diverge(Range(c[i]), Range(c[k]))
      /\ Diverge(Range(c[j]), Range(c[k]))
  OBVIOUS
<1>. QED
  BY <1>1, <1>2, <1>3, TwoUnits

\* Ascending of a set with at most one element.
LEMMA AscendingFew ==
    ASSUME NEW S \in SUBSET Nat, IsFiniteSet(S)
    PROVE  /\ Ascending(S) \in Seq(S) /\ DOMAIN Ascending(S) = 1 .. Len(Ascending(S))
           /\ (\A x, y \in S : x = y) => Len(Ascending(S)) <= 1
<1>. DEFINE a == Ascending(S)
<1>1. IsAscending(S, a) /\ Cardinality(S) \in Nat
  <2>1. S \in SUBSET Int
    OBVIOUS
  <2>. QED
    BY <2>1, AscendingOrder
<1>. HIDE DEF a
<1>2. a \in [1 .. Cardinality(S) -> S] /\ \A i, j \in DOMAIN a : i < j => a[i] < a[j]
  BY <1>1 DEF IsAscending
<1>3. a \in Seq(S) /\ Len(a) = Cardinality(S) /\ DOMAIN a = 1 .. Len(a)
  BY <1>1, <1>2
<1>4. ASSUME \A x, y \in S : x = y, ~(Len(a) <= 1) PROVE FALSE
  <2>1. 1 \in DOMAIN a /\ 2 \in DOMAIN a
    BY <1>1, <1>3, <1>4
  <2>2. a[1] < a[2] /\ a[1] \in S /\ a[2] \in S
    BY <1>2, <2>1
  <2>3. a[1] \in Nat /\ a[2] \in Nat /\ a[1] = a[2]
    BY <1>4, <2>2
  <2>. QED
    BY <2>2, <2>3
<1>. QED
  BY <1>3, <1>4 DEF a

\* The loop starts with the terms as they are.
LEMMA ReducedInitially ==
    ASSUME NEW terms, GoodTerms(terms)
    PROVE  Reduced(terms, [conj |-> terms, ones |-> Ascending(SizeOne(terms)), larger |-> DOMAIN terms \ SizeOne(terms)])
<1>. DEFINE ones == Ascending(SizeOne(terms))
            larger == DOMAIN terms \ SizeOne(terms)
            s == [conj |-> terms, ones |-> ones, larger |-> larger]
<1>1. /\ DOMAIN terms \in SUBSET Nat /\ IsFiniteSet(DOMAIN terms)
      /\ \A k \in DOMAIN terms : IsPath(terms[k]) /\ terms[k] # <<>>
      /\ \A j, k \in DOMAIN terms : j # k => Diverge(Range(terms[j]), Range(terms[k]))
  BY DEF GoodTerms
<1>2. SizeOne(terms) \in SUBSET Nat /\ IsFiniteSet(SizeOne(terms)) /\ SizeOne(terms) \subseteq DOMAIN terms
  <2>1. SizeOne(terms) \subseteq DOMAIN terms
    BY DEF SizeOne
  <2>. QED
    BY <1>1, <2>1, FS_Subset
<1>3. /\ ones \in Seq(SizeOne(terms)) /\ DOMAIN ones = 1 .. Len(ones)
      /\ (\A x, y \in SizeOne(terms) : x = y) => Len(ones) <= 1
  BY <1>2, AscendingFew
<1>. HIDE DEF ones
<1>4. \A k \in larger : Len(terms[k]) >= 2
  <2>. TAKE k \in larger
  <2>. DEFINE n == Len(terms[k])
  <2>1. n # 1
    BY DEF SizeOne
  <2>2. n \in Nat /\ n >= 1
    BY <1>1, FirstOfPath
  <2>. HIDE DEF n
  <2>3. n >= 2
    BY <2>1, <2>2
  <2>. QED
    BY <2>3 DEF n
<1>5. ASSUME larger # {}, ones # <<>> PROVE Len(ones) = 1 /\ Fits(s)
  <2>1. PICK k \in larger : TRUE
    BY <1>5
  <2>2. ASSUME NEW i \in SizeOne(terms), NEW j \in SizeOne(terms), i # j PROVE FALSE
    <3>1. /\ i \in DOMAIN terms /\ j \in DOMAIN terms /\ k \in DOMAIN terms /\ i # k /\ j # k
          /\ Len(terms[i]) = 1 /\ Len(terms[j]) = 1
      BY DEF SizeOne
    <3>. QED
      BY <1>1, <2>2, <3>1, UnitsAlone
  <2>3. Len(ones) = 1 /\ ones[1] \in SizeOne(terms)
    <3>1. Len(ones) <= 1
      BY <1>3, <2>2
    <3>. QED
      BY <1>3, <1>5, <3>1
  <2>. DEFINE o == ones[1]
  <2>. HIDE DEF o
  <2>4. o \in DOMAIN terms /\ Len(terms[o]) = 1 /\ o \notin larger
    BY <2>3 DEF SizeOne, o
  <2>5. ASSUME NEW i \in larger PROVE Opposite(terms[o][1]) \in Range(terms[i])
    <3>1. Diverge({terms[o][1]}, Range(terms[i]))
      BY <1>1, <2>4, UnitPath
    <3>. QED
      BY <3>1, DivergeFromUnit
  <2>6. s.ones[1] = o /\ s.conj = terms /\ s.larger = larger
    BY DEF o
  <2>. HIDE DEF s, larger
  <2>7. Fits(s)
    BY <2>4, <2>5, <2>6 DEF Fits
  <2>. QED
    BY <2>3, <2>7
<1>6. s.conj = terms /\ s.ones = ones /\ s.larger = larger /\ larger \subseteq DOMAIN terms \ SizeOne(terms)
  OBVIOUS
<1>7. ones \in Seq(DOMAIN terms)
  <2>1. \A i \in 1 .. Len(ones) : ones[i] \in DOMAIN terms
    BY <1>2, <1>3
  <2>. QED
    BY <1>3, <2>1
<1>. HIDE DEF s, larger
<1>8. Reduced(terms, s)
  BY <1>1, <1>4, <1>5, <1>6, <1>7 DEF Reduced
<1>. QED
  BY <1>8 DEF s, ones, larger

\* NextSizeOne adds a larger conjunction: the one meant, or another.
LEMMA NextSizeOneLarger ==
    ASSUME NEW L \in SUBSET Nat, NEW k \in L
    PROVE  NextSizeOne(L, k) \in L
<1>. DEFINE later == {j \in L : j > k}
<1>1. CASE later = {}
  BY <1>1 DEF NextSizeOne
<1>2. CASE later # {}
  <2>1. later \in SUBSET Nat
    OBVIOUS
  <2>2. \E x \in later : \A y \in later : x <= y
    <3>. HIDE DEF later
    <3>. QED
      BY <1>2, <2>1, LeastNumber
  <2>3. Min(later) \in later
    <3>. HIDE DEF later
    <3>. QED
      BY <2>2 DEF Min
  <2>4. NextSizeOne(L, k) = Min(later)
    BY <1>2 DEF NextSizeOne
  <2>. QED
    BY <2>3, <2>4
<1>. QED
  BY <1>1, <1>2

\* A round of the do loop: the condition, and what it makes of the conjunctions.
SweptOne(s) == Head(s.conj[Last(s.ones)])
SweptConj(s) == Sweep(s).conj
SweptSingles(s) == {k \in s.larger : SweptConj(s)[k] # s.conj[k] /\ Len(SweptConj(s)[k]) = 1}

\* The indices left and pushed.
NextOnes(ones, larger, singles) ==
    Front(ones) \o [i \in DOMAIN Ascending(singles) |-> NextSizeOne(larger, Ascending(singles)[i])]

\* The parts of a round.
LEMMA SweepParts ==
    ASSUME NEW s, s.larger \subseteq DOMAIN s.conj
    PROVE  /\ DOMAIN SweptConj(s) = DOMAIN s.conj
           /\ \A k \in s.larger : SweptConj(s)[k] = EraseOpposite(s.conj[k], SweptOne(s))
           /\ \A k \in DOMAIN s.conj \ s.larger : SweptConj(s)[k] = s.conj[k]
           /\ Sweep(s).larger = s.larger \ SweptSingles(s)
           /\ Sweep(s).ones = NextOnes(s.ones, s.larger, SweptSingles(s))
<1>1. SweptConj(s) = [k \in DOMAIN s.conj |->
                         IF k \in s.larger THEN EraseOpposite(s.conj[k], SweptOne(s)) ELSE s.conj[k]]
  BY DEF Sweep, SweptOne, SweptConj
<1>2. /\ Sweep(s).larger = s.larger \ SweptSingles(s)
      /\ Sweep(s).ones = NextOnes(s.ones, s.larger, SweptSingles(s))
  BY DEF Sweep, SweptConj, SweptSingles, NextOnes
<1>. QED
  BY <1>1, <1>2

\* A sequence without its last element.
LEMMA FrontLength ==
    ASSUME NEW S, NEW t \in Seq(S), t # <<>>
    PROVE  Front(t) \in Seq(S) /\ Len(Front(t)) = Len(t) - 1
<1>. DEFINE n == Len(t) - 1
<1>1. n \in Nat /\ n <= Len(t)
  OBVIOUS
<1>. HIDE DEF n
<1>2. SubSeq(t, 1, n) \in Seq(S) /\ Len(SubSeq(t, 1, n)) = n
  BY <1>1
<1>. QED
  BY <1>2 DEF Front, n

\* The terms that are added to sizeOneConjunctions in a round.
LEMMA SweptOnes ==
    ASSUME NEW T \in SUBSET Nat, IsFiniteSet(T), NEW ones \in Seq(T), ones # <<>>, NEW larger \in SUBSET T,
           NEW singles \in SUBSET larger
    PROVE  LET next == NextOnes(ones, larger, singles)
           IN  /\ next \in Seq(T)
               /\ Len(ones) = 1 /\ singles = {} => next = <<>>
               /\ Len(ones) = 1 /\ (\A x, y \in singles : x = y) =>
                     next = <<>> \/ (Len(next) = 1 /\ \E k \in singles : next[1] = NextSizeOne(larger, k))
<1>. DEFINE a == Ascending(singles)
            q == [i \in DOMAIN a |-> NextSizeOne(larger, a[i])]
            f == Front(ones)
            next == f \o q
<1>1. singles \in SUBSET Nat /\ larger \in SUBSET Nat /\ IsFiniteSet(singles)
  BY FS_Subset
<1>2. /\ a \in Seq(singles) /\ DOMAIN a = 1 .. Len(a)
      /\ (\A x, y \in singles : x = y) => Len(a) <= 1
  BY <1>1, AscendingFew
<1>. HIDE DEF a
<1>3. Len(a) \in Nat /\ \A i \in DOMAIN a : a[i] \in singles
  BY <1>2
<1>4. \A i \in DOMAIN a : NextSizeOne(larger, a[i]) \in T
  <2>. TAKE i \in DOMAIN a
  <2>1. a[i] \in larger
    BY <1>3
  <2>2. NextSizeOne(larger, a[i]) \in larger
    BY <1>1, <2>1, NextSizeOneLarger
  <2>. QED
    BY <2>2
<1>5. q \in Seq(T) /\ Len(q) = Len(a)
  <2>1. q \in [1 .. Len(a) -> T]
    BY <1>2, <1>4
  <2>. HIDE DEF q
  <2>. QED
    BY <1>3, <2>1
<1>6. \A i \in DOMAIN a : q[i] = NextSizeOne(larger, a[i])
  OBVIOUS
<1>. HIDE DEF q
<1>7. Len(ones) \in Nat /\ Len(ones) >= 1
  OBVIOUS
<1>8. f \in Seq(T) /\ (Len(ones) = 1 => f = <<>>)
  <2>1. f \in Seq(T) /\ Len(f) = Len(ones) - 1
    BY FrontLength
  <2>. HIDE DEF f
  <2>2. Len(ones) = 1 => Len(f) = 0
    BY <1>7, <2>1
  <2>3. Len(f) = 0 => f = <<>>
    BY <2>1
  <2>. QED
    BY <2>1, <2>2, <2>3
<1>. HIDE DEF f
<1>9. next \in Seq(T)
  BY <1>5, <1>8
<1>10. Len(ones) = 1 => next = q
  BY <1>5, <1>8
<1>. HIDE DEF next
<1>11. ASSUME Len(ones) = 1, \A x, y \in singles : x = y
       PROVE  next = <<>> \/ (Len(next) = 1 /\ \E k \in singles : next[1] = NextSizeOne(larger, k))
  <2>1. next = q /\ Len(a) <= 1
    BY <1>2, <1>10, <1>11
  <2>2. CASE Len(a) = 0
    BY <1>5, <2>1, <2>2
  <2>3. CASE Len(a) = 1
    <3>1. 1 \in DOMAIN a
      BY <1>2, <2>3
    <3>2. a[1] \in singles /\ q[1] = NextSizeOne(larger, a[1]) /\ Len(q) = 1
      BY <1>3, <1>5, <1>6, <2>3, <3>1
    <3>. QED
      BY <2>1, <3>2
  <2>4. Len(a) = 0 \/ Len(a) = 1
    <3>. DEFINE n == Len(a)
    <3>1. n \in Nat /\ n <= 1
      BY <1>3, <2>1
    <3>. HIDE DEF n
    <3>2. n = 0 \/ n = 1
      BY <3>1
    <3>. QED
      BY <3>2 DEF n
  <2>. QED
    BY <2>2, <2>3, <2>4
<1>12. Len(ones) = 1 /\ singles = {} => next = <<>>
  BY <1>11
<1>. QED
  BY <1>9, <1>11, <1>12 DEF NextOnes, next, f, q, a

\* A round in which nothing is erased.
LEMMA SweepIdle ==
    ASSUME NEW terms, GoodTerms(terms), NEW s, Reduced(terms, s), s.ones # <<>>,
           SweptOne(s) \in Literal, \A k \in s.larger : Opposite(SweptOne(s)) \notin Range(s.conj[k])
    PROVE  Reduced(terms, Sweep(s))
<1>. DEFINE T == DOMAIN terms
            c == s.conj
            L == s.larger
            t == Sweep(s)
<1>1. /\ DOMAIN c = T /\ \A k \in T : IsPath(c[k]) /\ c[k] # <<>>
      /\ L \subseteq T \ SizeOne(terms) /\ \A k \in L : Len(c[k]) >= 2
      /\ \A j, k \in L : j # k => Diverge(Range(c[j]), Range(c[k]))
      /\ s.ones \in Seq(T)
      /\ L = {} \/ Len(s.ones) = 1
      /\ \A v \in Values : HoldsSome(c, v) <=> HoldsSome(terms, v)
  BY DEF Reduced
<1>2. L \subseteq DOMAIN c
  BY <1>1
<1>3. DOMAIN SweptConj(s) = T /\ \A k \in T : SweptConj(s)[k] = c[k]
  <2>1. \A k \in L : EraseOpposite(c[k], SweptOne(s)) = c[k]
    BY <1>1, OppositeErased
  <2>2. /\ DOMAIN SweptConj(s) = DOMAIN c
        /\ \A k \in L : SweptConj(s)[k] = EraseOpposite(c[k], SweptOne(s))
        /\ \A k \in DOMAIN c \ L : SweptConj(s)[k] = c[k]
    BY <1>2, SweepParts
  <2>. QED
    BY <1>1, <2>1, <2>2
<1>4. SweptSingles(s) = {}
  BY <1>1, <1>3 DEF SweptSingles
<1>5. t.larger = L
  BY <1>2, <1>4, SweepParts
<1>6. t.ones \in Seq(T) /\ (L # {} => t.ones = <<>>)
  <2>1. T \in SUBSET Nat /\ IsFiniteSet(T) /\ L \in SUBSET T
    BY <1>1 DEF GoodTerms
  <2>2. t.ones = NextOnes(s.ones, L, {})
    BY <1>2, <1>4, SweepParts
  <2>3. {} \in SUBSET L
    OBVIOUS
  <2>. HIDE DEF T, L, t
  <2>4. t.ones \in Seq(T) /\ (Len(s.ones) = 1 => t.ones = <<>>)
    BY <1>1, <2>1, <2>2, <2>3, SweptOnes
  <2>. QED
    BY <1>1, <2>4
<1>7. DOMAIN t.conj = T /\ \A k \in T : t.conj[k] = c[k]
  BY <1>3 DEF SweptConj
<1>8. \A v : HoldsSome(t.conj, v) <=> HoldsSome(c, v)
  BY <1>1, <1>7 DEF HoldsSome
<1>. HIDE DEF t, c, L, T
<1>9. /\ \A k \in T : IsPath(t.conj[k]) /\ t.conj[k] # <<>>
      /\ \A k \in t.larger : Len(t.conj[k]) >= 2
      /\ \A j, k \in t.larger : j # k => Diverge(Range(t.conj[j]), Range(t.conj[k]))
  <2>1. \A k \in L : k \in T
    BY <1>1
  <2>. QED
    BY <1>1, <1>5, <1>7, <2>1
<1>10. \A v \in Values : HoldsSome(t.conj, v) <=> HoldsSome(terms, v)
  BY <1>1, <1>8
<1>11. DOMAIN t.conj = DOMAIN terms /\ t.larger \subseteq DOMAIN terms \ SizeOne(terms) /\ t.ones \in Seq(DOMAIN terms)
  BY <1>1, <1>5, <1>6, <1>7 DEF T
<1>12. t.larger = {} \/ t.ones = <<>>
  BY <1>5, <1>6
<1>13. \A k \in DOMAIN terms : IsPath(t.conj[k]) /\ t.conj[k] # <<>>
  BY <1>9 DEF T
<1>14. Reduced(terms, t)
  BY <1>9, <1>10, <1>11, <1>12, <1>13, Zenon DEF Reduced
<1>. QED
  BY <1>14 DEF t

\* A condition is erased from all larger conjunctions where it is the opposite
\* of a whole term.
LEMMA ErasedEverywhere ==
    ASSUME NEW c, NEW L, NEW o, o \in DOMAIN c, o \notin L, IsPath(c[o]), Len(c[o]) = 1,
           NEW d, DOMAIN d = DOMAIN c, \A k \in DOMAIN c \ L : d[k] = c[k],
           \A k \in L : /\ k \in DOMAIN c /\ Opposite(c[o][1]) \in Range(c[k])
                        /\ Range(d[k]) = Range(c[k]) \ {Opposite(c[o][1])},
           NEW v \in Values
    PROVE  HoldsSome(d, v) <=> HoldsSome(c, v)
<1>. DEFINE e == c[o][1]
<1>1. Range(c[o]) = {e} /\ e \in Literal
  BY UnitPath
<1>2. HoldsAll(c[o], v) <=> Holds(e, v)
  BY <1>1, HoldsAllRange
<1>. HIDE DEF e
<1>3. o \in DOMAIN d /\ d[o] = c[o]
  OBVIOUS
<1>4. CASE Holds(e, v)
  BY <1>2, <1>3, <1>4 DEF HoldsSome
<1>5. CASE ~Holds(e, v)
  <2>1. Holds(Opposite(e), v)
    BY <1>1, <1>5, OppositeHolds
  <2>2. ASSUME NEW k \in DOMAIN c PROVE HoldsAll(d[k], v) <=> HoldsAll(c[k], v)
    <3>1. CASE k \in L
      <4>1. Opposite(e) \in Range(c[k]) /\ Range(d[k]) = Range(c[k]) \ {Opposite(e)}
        BY <3>1 DEF e
      <4>2. (\A lit \in Range(d[k]) : Holds(lit, v)) <=> (\A lit \in Range(c[k]) : Holds(lit, v))
        BY <2>1, <4>1
      <4>. QED
        BY <4>2, HoldsAllRange
    <3>2. CASE k \notin L
      BY <3>2
    <3>. QED
      BY <3>1, <3>2
  <2>. QED
    BY <2>2 DEF HoldsSome
<1>. QED
  BY <1>4, <1>5

\* After such a round there is one new term of one condition at most, unless
\* nothing is left; whichever index was added for it, the next round is right.
LEMMA FitsAgain ==
    ASSUME NEW d, NEW L \in SUBSET Nat, \A k \in L : IsPath(d[k]) /\ d[k] # <<>>,
           \A j, k \in L : j # k => Diverge(Range(d[j]), Range(d[k])),
           NEW k \in L, Len(d[k]) = 1,
           NEW t, t.conj = d, t.larger = {j \in L : Len(d[j]) # 1}, t.ones[1] = NextSizeOne(L, k)
    PROVE  Fits(t)
<1>. DEFINE o == NextSizeOne(L, k)
            f == d[k][1]
<1>1. o \in L
  BY NextSizeOneLarger
<1>. HIDE DEF o
<1>2. Range(d[k]) = {f} /\ f \in Literal
  BY UnitPath
<1>. HIDE DEF f
<1>3. \A j \in L : j # k => Diverge({f}, Range(d[j]))
  BY <1>2
<1>4. \A j \in L : j # k => Opposite(f) \in Range(d[j])
  BY <1>3, DivergeFromUnit
<1>5. CASE o = k
  <2>1. k \notin t.larger /\ \A j \in t.larger : Opposite(f) \in Range(d[j])
    BY <1>4
  <2>. QED
    BY <1>5, <2>1 DEF Fits, o, f
<1>6. CASE o # k
  <2>1. d[o][1] = Opposite(f)
    <3>1. /\ d[o][1] \in Range(d[o]) /\ d[o][1] \in Literal
          /\ \A lit \in Range(d[o]) : lit = d[o][1] \/ d[o][1].atom < lit.atom
      BY <1>1, FirstOfPath
    <3>2. Opposite(f) \in Range(d[o]) /\ Opposite(f).atom = f.atom
      BY <1>1, <1>2, <1>4, <1>6, Opposites
    <3>3. \A m \in Literal : m.atom < f.atom => m \notin Range(d[o])
      BY <1>1, <1>3, <1>6, DivergeFromUnit
    <3>. QED
      BY <3>1, <3>2, <3>3
  <2>2. Opposite(d[o][1]) = f
    BY <1>2, <2>1, Opposites
  <2>3. \A j \in t.larger : f \notin Range(d[j])
    <3>. TAKE j \in t.larger
    <3>1. j \in L /\ j # k
      OBVIOUS
    <3>2. Consistent(Range(d[j])) /\ Opposite(f) \in Range(d[j])
      BY <1>4, <3>1, PathLiterals
    <3>. QED
      BY <1>2, <3>2 DEF Consistent
  <2>. QED
    BY <2>2, <2>3 DEF Fits, o
<1>. QED
  BY <1>5, <1>6

\* A round in which a condition is erased.
LEMMA SweepUnit ==
    ASSUME NEW terms, GoodTerms(terms), NEW s, Reduced(terms, s), Len(s.ones) = 1,
           NEW o, o = s.ones[1], o \notin s.larger, Len(s.conj[o]) = 1,
           SweptOne(s) = s.conj[o][1],
           \A k \in s.larger : Opposite(s.conj[o][1]) \in Range(s.conj[k])
    PROVE  Reduced(terms, Sweep(s))
<1>. DEFINE T == DOMAIN terms
            c == s.conj
            L == s.larger
            t == Sweep(s)
            d == SweptConj(s)
            X == SweptSingles(s)
            e == s.conj[o][1]
<1>1. /\ DOMAIN c = T /\ \A k \in T : IsPath(c[k]) /\ c[k] # <<>>
      /\ L \subseteq T \ SizeOne(terms) /\ \A k \in L : Len(c[k]) >= 2
      /\ \A j, k \in L : j # k => Diverge(Range(c[j]), Range(c[k]))
      /\ \A v \in Values : HoldsSome(c, v) <=> HoldsSome(terms, v)
  BY DEF Reduced
<1>2. s.ones \in Seq(T) /\ s.ones # <<>> /\ o \in T
  BY DEF Reduced
<1>3. e \in Literal /\ L \subseteq DOMAIN c /\ L \subseteq T
  BY <1>1, <1>2, UnitPath
<1>4. /\ DOMAIN d = DOMAIN c /\ \A k \in L : d[k] = EraseOpposite(c[k], e)
      /\ \A k \in DOMAIN c \ L : d[k] = c[k]
      /\ t.larger = L \ X /\ t.ones = NextOnes(s.ones, L, X) /\ t.conj = d
  BY <1>3, SweepParts DEF SweptConj
<1>. HIDE DEF t, d, X
<1>5. ASSUME NEW k \in L
      PROVE  /\ IsPath(d[k]) /\ Range(d[k]) = Range(c[k]) \ {Opposite(e)} /\ Opposite(e) \in Range(c[k])
             /\ Len(d[k]) = Len(c[k]) - 1 /\ Len(c[k]) \in Nat /\ Len(c[k]) >= 2
  <2>1. IsPath(c[k]) /\ Opposite(e) \in Range(c[k]) /\ Len(c[k]) >= 2
    BY <1>1
  <2>2. /\ IsPath(EraseOpposite(c[k], e)) /\ Range(EraseOpposite(c[k], e)) = Range(c[k]) \ {Opposite(e)}
        /\ Len(EraseOpposite(c[k], e)) = Len(c[k]) - 1
    BY <1>3, <2>1, OppositeErased
  <2>3. Len(c[k]) \in Nat
    BY <2>1, PathLiterals
  <2>. QED
    BY <1>4, <2>1, <2>2, <2>3
<1>6. ASSUME NEW k \in L PROVE d[k] # <<>> /\ d[k] # c[k]
  <2>. DEFINE n == Len(c[k])
  <2>1. n \in Nat /\ n >= 2 /\ Len(d[k]) = n - 1
    BY <1>5
  <2>2. Len(<<>>) = 0
    OBVIOUS
  <2>. HIDE DEF n
  <2>3. n - 1 # 0 /\ n - 1 # n
    BY <2>1
  <2>. QED
    BY <2>1, <2>2, <2>3 DEF n
<1>7. X = {k \in L : Len(d[k]) = 1}
  BY <1>6 DEF X, d, SweptSingles
<1>8. \A j, k \in L : j # k => Diverge(Range(d[j]), Range(d[k]))
  <2>. TAKE j, k \in L
  <2>. HAVE j # k
  <2>1. Consistent(Range(c[j])) /\ Consistent(Range(c[k])) /\ Diverge(Range(c[j]), Range(c[k]))
    BY <1>1, <1>3, PathLiterals
  <2>2. {Opposite(e)} \subseteq Range(c[j]) /\ {Opposite(e)} \subseteq Range(c[k])
    BY <1>5
  <2>3. Diverge(Range(c[j]) \ {Opposite(e)}, Range(c[k]) \ {Opposite(e)})
    BY <2>1, <2>2, DivergeWithout
  <2>. QED
    BY <1>5, <2>3
<1>9. \A k \in T : IsPath(d[k]) /\ d[k] # <<>>
  BY <1>1, <1>4, <1>5, <1>6
<1>10. \A k \in L \ X : Len(d[k]) >= 2
  <2>. TAKE k \in L \ X
  <2>. DEFINE n == Len(c[k])
  <2>1. n \in Nat /\ n >= 2 /\ Len(d[k]) = n - 1 /\ n - 1 # 1
    BY <1>5, <1>7
  <2>. HIDE DEF n
  <2>2. n - 1 >= 2
    BY <2>1
  <2>. QED
    BY <2>1, <2>2
<1>11. \A v \in Values : HoldsSome(d, v) <=> HoldsSome(c, v)
  <2>1. o \in DOMAIN c /\ o \notin L /\ IsPath(c[o]) /\ Len(c[o]) = 1
    BY <1>1, <1>2
  <2>. HIDE DEF c, L
  <2>2. \A k \in L : /\ k \in DOMAIN c /\ Opposite(c[o][1]) \in Range(c[k])
                     /\ Range(d[k]) = Range(c[k]) \ {Opposite(c[o][1])}
    BY <1>3, <1>5 DEF c
  <2>. QED
    BY <1>4, <2>1, <2>2, ErasedEverywhere
<1>12. /\ t.ones \in Seq(T)
       /\ (\A x, y \in X : x = y) =>
             t.ones = <<>> \/ (Len(t.ones) = 1 /\ \E k \in X : t.ones[1] = NextSizeOne(L, k))
  <2>1. T \in SUBSET Nat /\ IsFiniteSet(T) /\ L \in SUBSET T /\ X \in SUBSET L
    BY <1>3, <1>7 DEF GoodTerms
  <2>. HIDE DEF T, L
  <2>. QED
    BY <1>2, <1>4, <2>1, SweptOnes
<1>13. ASSUME L \ X # {}, t.ones # <<>> PROVE Len(t.ones) = 1 /\ Fits(t)
  <2>1. \A x, y \in X : x = y
    <3>1. PICK k \in L : k \notin X
      BY <1>13
    <3>2. ASSUME NEW x \in X, NEW y \in X, x # y PROVE FALSE
      <4>1. x \in L /\ y \in L /\ Len(d[x]) = 1 /\ Len(d[y]) = 1 /\ x # k /\ y # k
        BY <1>7, <3>1
      <4>2. \A j \in L : IsPath(d[j])
        BY <1>5
      <4>. HIDE DEF L
      <4>. QED
        BY <1>8, <3>1, <3>2, <4>1, <4>2, UnitsAlone
    <3>. QED
      BY <3>2
  <2>2. Len(t.ones) = 1
    BY <1>12, <1>13, <2>1
  <2>3. PICK k \in X : t.ones[1] = NextSizeOne(L, k)
    BY <1>12, <1>13, <2>1
  <2>4. k \in L /\ Len(d[k]) = 1 /\ L \in SUBSET Nat
    BY <1>3, <1>7 DEF GoodTerms
  <2>5. \A j \in L : IsPath(d[j]) /\ d[j] # <<>>
    BY <1>5, <1>6
  <2>. HIDE DEF L
  <2>6. Fits(t)
    <3>1. t.conj = d /\ t.larger = {j \in L : Len(d[j]) # 1}
      BY <1>4, <1>7
    <3>. QED
      BY <1>8, <2>3, <2>4, <2>5, <3>1, FitsAgain
  <2>. QED
    BY <2>2, <2>6
<1>. HIDE DEF c, L, T, e
<1>14. /\ DOMAIN t.conj = DOMAIN terms /\ \A k \in DOMAIN terms : IsPath(t.conj[k]) /\ t.conj[k] # <<>>
  BY <1>1, <1>4, <1>9 DEF T
<1>15. t.larger \subseteq DOMAIN terms \ SizeOne(terms) /\ \A k \in t.larger : Len(t.conj[k]) >= 2
  BY <1>1, <1>4, <1>10 DEF T
<1>16. \A j, k \in t.larger : j # k => Diverge(Range(t.conj[j]), Range(t.conj[k]))
  BY <1>4, <1>8
<1>17. t.ones \in Seq(DOMAIN terms) /\ (t.larger = {} \/ t.ones = <<>> \/ (Len(t.ones) = 1 /\ Fits(t)))
  BY <1>4, <1>12, <1>13 DEF T
<1>18. \A v \in Values : HoldsSome(t.conj, v) <=> HoldsSome(terms, v)
  BY <1>1, <1>4, <1>11
<1>19. Reduced(terms, t)
  BY <1>14, <1>15, <1>16, <1>17, <1>18, Zenon DEF Reduced
<1>. QED
  BY <1>19 DEF t

\* SweepUnlessDone keeps the invariant.
LEMMA ReducedNext ==
    ASSUME NEW terms, GoodTerms(terms), NEW s, Reduced(terms, s)
    PROVE  Reduced(terms, SweepUnlessDone(s))
<1>1. CASE s.ones = <<>>
  BY <1>1 DEF SweepUnlessDone
<1>2. CASE s.ones # <<>>
  <2>. DEFINE o == s.ones[Len(s.ones)]
  <2>1. s.ones \in Seq(DOMAIN terms) /\ \A k \in DOMAIN terms : IsPath(s.conj[k]) /\ s.conj[k] # <<>>
    BY DEF Reduced
  <2>2. o \in DOMAIN terms
    BY <1>2, <2>1
  <2>3. SweptOne(s) = s.conj[o][1] /\ SweptOne(s) \in Literal
    <3>1. SweptOne(s) = Head(s.conj[o])
      BY DEF SweptOne, Last
    <3>. HIDE DEF o
    <3>. QED
      BY <2>1, <2>2, <3>1, FirstOfPath
  <2>4. SweepUnlessDone(s) = Sweep(s)
    BY <1>2 DEF SweepUnlessDone
  <2>5. CASE \A k \in s.larger : Opposite(SweptOne(s)) \notin Range(s.conj[k])
    BY <1>2, <2>3, <2>4, <2>5, SweepIdle
  <2>6. CASE ~\A k \in s.larger : Opposite(SweptOne(s)) \notin Range(s.conj[k])
    <3>1. Len(s.ones) = 1 /\ Fits(s)
      BY <1>2, <2>6 DEF Reduced
    <3>2. o = s.ones[1]
      BY <3>1
    <3>. HIDE DEF o
    <3>3. /\ o \notin s.larger /\ Len(s.conj[o]) = 1
          /\ \A k \in s.larger : Opposite(s.conj[o][1]) \in Range(s.conj[k])
      BY <2>3, <2>6, <3>1, <3>2 DEF Fits
    <3>4. Reduced(terms, Sweep(s))
      BY <2>3, <3>1, <3>2, <3>3, SweepUnit
    <3>. QED
      BY <2>4, <3>4
  <2>. QED
    BY <2>5, <2>6
<1>. QED
  BY <1>1, <1>2

\* Reduce keeps what the terms mean.
LEMMA ReduceReduced ==
    ASSUME NEW terms, GoodTerms(terms)
    PROVE  Reduced(terms, Reduce(terms))
<1>. DEFINE T == DOMAIN terms
            v0 == [conj |-> terms, ones |-> Ascending(SizeOne(terms)), larger |-> T \ SizeOne(terms)]
            Def(g) == [n \in Nat |-> IF n = 0 THEN v0 ELSE SweepUnlessDone(g[n - 1])]
            States == [conj : [T -> Seq(Literal)], ones : Seq(T), larger : SUBSET T]
            V == {s \in States : Reduced(terms, s)}
            step == [x \in Nat \X V |-> SweepUnlessDone(x[2])]
<1>1. Reduced(terms, v0)
  BY ReducedInitially
<1>2. T \in SUBSET Nat /\ IsFiniteSet(T) /\ Cardinality(T) \in Nat /\ terms \in [T -> Seq(Literal)]
  BY FS_CardinalityType DEF GoodTerms
<1>3. v0 \in V
  <2>1. Ascending(SizeOne(terms)) \in Seq(T)
    BY <1>1 DEF Reduced
  <2>2. v0 \in States
    BY <1>2, <2>1
  <2>. QED
    BY <1>1, <2>2
<1>4. ASSUME NEW s \in V PROVE SweepUnlessDone(s) \in V
  <2>1. Reduced(terms, SweepUnlessDone(s)) /\ Reduced(terms, s) /\ s \in States
    BY ReducedNext
  <2>2. CASE s.ones = <<>>
    BY <2>2 DEF SweepUnlessDone
  <2>3. CASE s.ones # <<>>
    <3>. DEFINE t == Sweep(s)
    <3>1. SweepUnlessDone(s) = t
      BY <2>3 DEF SweepUnlessDone
    <3>2. t = [conj |-> t.conj, ones |-> t.ones, larger |-> t.larger] /\ t.conj = [k \in DOMAIN t.conj |-> t.conj[k]]
      BY DEF Sweep
    <3>3. /\ DOMAIN t.conj = T /\ t.ones \in Seq(T) /\ t.larger \subseteq T
          /\ \A k \in T : t.conj[k] \in Seq(Literal)
      BY <2>1, <3>1 DEF Reduced, IsPath
    <3>. HIDE DEF t
    <3>4. t.conj \in [T -> Seq(Literal)]
      BY <3>2, <3>3
    <3>5. t \in States
      BY <3>2, <3>3, <3>4
    <3>. QED
      BY <2>1, <3>1, <3>5
  <2>. QED
    BY <2>2, <2>3
<1>. HIDE DEF v0, V
<1>5. PICK f : Recursive(V, v0, step, f)
  <2>1. step \in [Nat \X V -> V]
    BY <1>4
  <2>. HIDE DEF step
  <2>. QED
    BY <1>3, <2>1, PrimitiveRecursion
<1>6. f = Def(f)
  <2>1. f \in [Nat -> V] /\ f[0] = v0 /\ \A n \in Nat : f[n + 1] = step[<<n, f[n]>>]
    BY <1>5 DEF Recursive
  <2>2. ASSUME NEW n \in Nat, n # 0 PROVE f[n] = SweepUnlessDone(f[n - 1])
    <3>1. n - 1 \in Nat /\ (n - 1) + 1 = n
      BY <2>2
    <3>2. f[n - 1] \in V /\ f[n] = step[<<n - 1, f[n - 1]>>]
      BY <2>1, <3>1
    <3>. QED
      BY <3>1, <3>2
  <2>. HIDE DEF step
  <2>. QED
    BY <2>1, <2>2
<1>. DEFINE after == CHOOSE g : g = Def(g)
<1>7. after = Def(after)
  <2>. HIDE DEF Def
  <2>. QED
    BY <1>6
<1>8. Reduce(terms) = after[Cardinality(T)]
  BY DEF Reduce, v0
<1>. HIDE DEF after
<1>9. \A n \in Nat : after[n] = IF n = 0 THEN v0 ELSE SweepUnlessDone(after[n - 1])
  BY <1>7
<1>10. \A n \in Nat : Reduced(terms, after[n])
  <2>. DEFINE Bad == {n \in Nat : ~Reduced(terms, after[n])}
  <2>. SUFFICES ASSUME Bad # {} PROVE FALSE
    OBVIOUS
  <2>1. PICK n \in Bad : \A l \in Bad : n <= l
    <3>1. Bad \in SUBSET Nat
      OBVIOUS
    <3>. HIDE DEF Bad
    <3>. QED
      BY <3>1, LeastNumber
  <2>2. n # 0
    BY <1>1, <1>9, <2>1
  <2>3. n - 1 \in Nat /\ n - 1 \notin Bad
    BY <2>1, <2>2
  <2>4. after[n] = SweepUnlessDone(after[n - 1]) /\ Reduced(terms, after[n - 1])
    BY <1>9, <2>1, <2>2, <2>3
  <2>5. Reduced(terms, after[n])
    BY <2>4, ReducedNext
  <2>. QED
    BY <2>1, <2>5
<1>. QED
  BY <1>2, <1>8, <1>10

-----------------------------------------------------------------------------
(***************************************************************************)
(* createDisjunction: common conditions                                    *)
(***************************************************************************)
\* What is left of the first n conditions.
Kept(term, common, n, s) ==
    /\ s \in Seq(Literal) /\ Sorted(s)
    /\ Range(s) = {term[i] : i \in {j \in 1 .. n : term[j] \notin common}}

\* A condition after those kept so far.
LEMMA KeptAppend ==
    ASSUME NEW term, IsPath(term), NEW common, NEW n \in 1 .. Len(term), NEW s, Kept(term, common, n - 1, s),
           term[n] \notin common
    PROVE  Kept(term, common, n, Append(s, term[n]))
<1>. DEFINE t == Append(s, term[n])
<1>1. /\ s \in Seq(Literal) /\ Sorted(s)
      /\ Range(s) = {term[i] : i \in {j \in 1 .. n - 1 : term[j] \notin common}}
  BY DEF Kept
<1>2. /\ Len(term) \in Nat /\ DOMAIN term = 1 .. Len(term) /\ \A i \in DOMAIN term : term[i] \in Literal
      /\ \A i, j \in DOMAIN term : i < j => term[i].atom < term[j].atom
  BY PathLiterals DEF IsPath, Sorted
<1>3. t \in Seq(Literal) /\ Len(t) = Len(s) + 1 /\ t[Len(s) + 1] = term[n] /\ \A i \in DOMAIN s : t[i] = s[i]
  BY <1>1, <1>2
<1>. HIDE DEF t
<1>4. Len(s) \in Nat /\ DOMAIN s = 1 .. Len(s) /\ DOMAIN t = 1 .. (Len(s) + 1)
  BY <1>1, <1>3
<1>5. \A i \in DOMAIN t : i \in DOMAIN s \/ i = Len(s) + 1
  BY <1>4
<1>6. ASSUME NEW i \in DOMAIN s PROVE s[i].atom < term[n].atom
  <2>1. s[i] \in Range(s)
    BY DEF Range
  <2>2. PICK k \in 1 .. n - 1 : s[i] = term[k]
    BY <1>1, <2>1
  <2>3. k \in DOMAIN term /\ n \in DOMAIN term /\ k < n
    BY <1>2
  <2>. QED
    BY <1>2, <2>2, <2>3
<1>7. ASSUME NEW i \in DOMAIN t, NEW j \in DOMAIN t, i < j PROVE t[i].atom < t[j].atom
  <2>1. i \in DOMAIN s
    BY <1>4, <1>7
  <2>2. CASE j \in DOMAIN s
    BY <1>1, <1>3, <1>7, <2>1, <2>2 DEF Sorted
  <2>3. CASE j = Len(s) + 1
    BY <1>3, <1>6, <2>1, <2>3
  <2>. QED
    BY <1>5, <2>2, <2>3
<1>8. Range(t) = Range(s) \cup {term[n]}
  <2>1. Len(s) + 1 \in DOMAIN t /\ DOMAIN s \subseteq DOMAIN t
    BY <1>4
  <2>. QED
    BY <1>3, <1>5, <2>1 DEF Range
<1>9. {j \in 1 .. n : term[j] \notin common} = {j \in 1 .. n - 1 : term[j] \notin common} \cup {n}
  BY <1>2
<1>10. Range(t) = {term[i] : i \in {j \in 1 .. n : term[j] \notin common}}
  BY <1>1, <1>8, <1>9
<1>. QED
  BY <1>3, <1>7, <1>10 DEF Kept, Sorted, t

\* Without leaves the other conditions in their order.
LEMMA WithoutKept ==
    ASSUME NEW term, IsPath(term), NEW common
    PROVE  IsPath(Without(term, common)) /\ Range(Without(term, common)) = Range(term) \ common
<1>. DEFINE n0 == Len(term)
            Next1(n, s) == IF term[n] \in common THEN s ELSE Append(s, term[n])
            Def(g) == [n \in 0 .. n0 |-> IF n = 0 THEN <<>> ELSE Next1(n, g[n - 1])]
            V == Seq(Literal)
            step == [x \in Nat \X V |-> IF x[1] < n0 THEN Next1(x[1] + 1, x[2]) ELSE x[2]]
<1>1. n0 \in Nat /\ DOMAIN term = 1 .. n0 /\ \A i \in 1 .. n0 : term[i] \in Literal
  BY PathLiterals
<1>. HIDE DEF n0
<1>2. ASSUME NEW n \in 1 .. n0, NEW s \in V PROVE Next1(n, s) \in V
  BY <1>1
<1>3. <<>> \in V
  OBVIOUS
<1>. HIDE DEF V
<1>4. PICK f : Upto(V, <<>>, step, n0, f)
  <2>1. ASSUME NEW x \in Nat \X V, x[1] < n0 PROVE Next1(x[1] + 1, x[2]) \in V
    <3>1. x[1] + 1 \in 1 .. n0 /\ x[2] \in V
      BY <1>1, <2>1
    <3>. QED
      BY <1>2, <3>1
  <2>2. step \in [Nat \X V -> V]
    BY <2>1
  <2>. HIDE DEF step
  <2>. QED
    BY <1>1, <1>3, <2>2, RecursionUpto
<1>5. f = Def(f)
  <2>1. f \in [0 .. n0 -> V] /\ f[0] = <<>> /\ \A m \in 0 .. n0 - 1 : f[m + 1] = step[<<m, f[m]>>]
    BY <1>4 DEF Upto
  <2>2. ASSUME NEW n \in 0 .. n0, n # 0 PROVE f[n] = Next1(n, f[n - 1])
    <3>1. n - 1 \in 0 .. n0 - 1 /\ n - 1 \in 0 .. n0 /\ (n - 1) + 1 = n /\ n - 1 \in Nat /\ n - 1 < n0
      BY <1>1, <2>2
    <3>2. f[n - 1] \in V /\ f[n] = step[<<n - 1, f[n - 1]>>]
      <4>. HIDE DEF step
      <4>1. f[n - 1] \in V
        BY <2>1, <3>1
      <4>2. f[(n - 1) + 1] = step[<<n - 1, f[n - 1]>>]
        BY <2>1, <3>1
      <4>. QED
        BY <3>1, <4>1, <4>2
    <3>3. step[<<n - 1, f[n - 1]>>] = Next1((n - 1) + 1, f[n - 1])
      BY <3>1, <3>2
    <3>. QED
      BY <3>1, <3>2, <3>3
  <2>. HIDE DEF step, Next1
  <2>. QED
    BY <2>1, <2>2
<1>. DEFINE upto == CHOOSE g : g = Def(g)
<1>6. upto = Def(upto)
  <2>. HIDE DEF Def
  <2>. QED
    BY <1>5
<1>7. Without(term, common) = upto[n0]
  BY DEF Without, n0
<1>. HIDE DEF upto
<1>8. \A n \in 0 .. n0 : upto[n] = IF n = 0 THEN <<>> ELSE Next1(n, upto[n - 1])
  BY <1>6
<1>9. \A n \in 0 .. n0 : Kept(term, common, n, upto[n])
  <2>. DEFINE Bad == {n \in 0 .. n0 : ~Kept(term, common, n, upto[n])}
  <2>. SUFFICES ASSUME Bad # {} PROVE FALSE
    OBVIOUS
  <2>1. PICK n \in Bad : \A l \in Bad : n <= l
    <3>1. Bad \in SUBSET Nat
      BY <1>1
    <3>. HIDE DEF Bad
    <3>. QED
      BY <3>1, LeastNumber
  <2>2. n # 0
    <3>1. Kept(term, common, 0, <<>>)
      BY DEF Kept, Sorted, Range
    <3>2. 0 \in 0 .. n0
      BY <1>1
    <3>. QED
      BY <1>8, <2>1, <3>1, <3>2
  <2>3. n \in 1 .. n0 /\ n - 1 \in 0 .. n0 /\ ~(n <= n - 1)
    BY <1>1, <2>1, <2>2
  <2>4. Kept(term, common, n - 1, upto[n - 1]) /\ upto[n] = Next1(n, upto[n - 1])
    BY <1>8, <2>1, <2>2, <2>3
  <2>5. CASE term[n] \in common
    <3>1. {j \in 1 .. n : term[j] \notin common} = {j \in 1 .. n - 1 : term[j] \notin common}
      BY <1>1, <2>3, <2>5
    <3>. QED
      BY <2>1, <2>4, <2>5, <3>1 DEF Kept
  <2>6. CASE term[n] \notin common
    <3>1. Kept(term, common, n, Append(upto[n - 1], term[n]))
      BY <2>3, <2>4, <2>6, KeptAppend DEF n0
    <3>. QED
      BY <2>1, <2>4, <2>6, <3>1
  <2>. QED
    BY <2>5, <2>6
<1>10. Kept(term, common, n0, upto[n0])
  <2>1. n0 \in 0 .. n0
    BY <1>1
  <2>. QED
    BY <1>9, <2>1
<1>. QED
  BY <1>1, <1>7, <1>10 DEF Kept, IsPath, Range

\* One call of createDisjunction keeps what the terms mean, and leaves fewer.
LevelRight(terms, level) ==
    /\ GoodTerms(level.rest)
    /\ DOMAIN level.rest \subseteq DOMAIN terms /\ (DOMAIN terms # {} => DOMAIN level.rest # DOMAIN terms)
    /\ \A v \in Values : HoldsSome(terms, v) <=>
          \/ \E term \in level.plain : HoldsAll(term, v)
          \/ (\A lit \in level.common : Holds(lit, v)) /\ HoldsSome(level.rest, v)

\* No terms.
LEMMA NoTerms == GoodTerms(<<>>) /\ \A v : ~HoldsSome(<<>>, v)
<1>1. DOMAIN <<>> = {} /\ <<>> \in [{} -> Seq(Literal)]
  OBVIOUS
<1>2. IsFiniteSet({})
  BY FS_EmptySet
<1>. QED
  BY <1>1, <1>2 DEF GoodTerms, HoldsSome

\* Conditions that are in all larger terms.
LEMMA LevelFactored ==
    ASSUME NEW terms, GoodTerms(terms), NEW s, Reduced(terms, s), SizeOne(terms) # {}, Cardinality(s.larger) > 1,
           NEW common, common = CommonSubExpressions(s.conj, s.larger),
           NEW level, level.plain = {s.conj[k] : k \in DOMAIN s.conj \ s.larger}, level.common = common,
           level.rest = [k \in s.larger |-> Without(s.conj[k], common)]
    PROVE  LevelRight(terms, level)
<1>. DEFINE c == s.conj
            L == s.larger
            rest == level.rest
<1>1. /\ DOMAIN c = DOMAIN terms /\ \A k \in DOMAIN terms : IsPath(c[k]) /\ c[k] # <<>>
      /\ L \subseteq DOMAIN terms \ SizeOne(terms)
      /\ \A j, k \in L : j # k => Diverge(Range(c[j]), Range(c[k]))
      /\ \A v \in Values : HoldsSome(c, v) <=> HoldsSome(terms, v)
  BY DEF Reduced
<1>2. L \in SUBSET Nat /\ IsFiniteSet(L)
  <2>1. DOMAIN terms \in SUBSET Nat /\ IsFiniteSet(DOMAIN terms)
    BY DEF GoodTerms
  <2>. QED
    BY <1>1, <2>1, FS_Subset
<1>3. \A k \in L : \E j \in L : j # k
  <2>1. ASSUME NEW k \in L, \A j \in L : j = k PROVE FALSE
    <3>1. L = {k}
      BY <2>1
    <3>2. Cardinality(L) = 1
      BY <3>1, FS_Singleton
    <3>. QED
      BY <3>2
  <2>. QED
    BY <2>1
<1>4. \A k \in L : common \subseteq Range(c[k])
  BY DEF CommonSubExpressions, ToSet, Range
<1>5. DOMAIN rest = L /\ \A k \in L : rest[k] = Without(c[k], common)
  OBVIOUS
<1>6. \A k \in L : IsPath(rest[k]) /\ Range(rest[k]) = Range(c[k]) \ common /\ IsPath(c[k])
  BY <1>1, <1>5, WithoutKept
<1>7. ASSUME NEW j \in L, NEW k \in L, j # k
      PROVE  Diverge(Range(rest[j]), Range(rest[k])) /\ Range(rest[j]) # {}
  <2>1. Consistent(Range(c[j])) /\ Consistent(Range(c[k])) /\ Diverge(Range(c[j]), Range(c[k]))
    BY <1>1, <1>6, <1>7, PathLiterals
  <2>2. common \subseteq Range(c[j]) /\ common \subseteq Range(c[k])
    BY <1>4
  <2>3. Diverge(Range(c[j]) \ common, Range(c[k]) \ common) /\ Range(c[j]) \ common # {}
    BY <2>1, <2>2, DivergeWithout
  <2>. QED
    BY <1>6, <2>3
<1>8. \A k \in L : rest[k] # <<>>
  <2>. TAKE k \in L
  <2>1. Range(rest[k]) # {}
    BY <1>3, <1>7
  <2>2. Range(<<>>) = {}
    BY DEF Range
  <2>. QED
    BY <2>1, <2>2
<1>9. rest \in [L -> Seq(Literal)]
  <2>1. \A k \in L : Without(c[k], common) \in Seq(Literal)
    BY <1>5, <1>6 DEF IsPath
  <2>. QED
    BY <2>1
<1>. HIDE DEF rest
<1>10. GoodTerms(rest)
  BY <1>2, <1>5, <1>6, <1>7, <1>8, <1>9 DEF GoodTerms
<1>11. DOMAIN rest \subseteq DOMAIN terms /\ DOMAIN rest # DOMAIN terms
  <2>1. SizeOne(terms) \subseteq DOMAIN terms
    BY DEF SizeOne
  <2>. QED
    BY <1>1, <1>5, <2>1
<1>12. ASSUME NEW v \in Values
       PROVE  HoldsSome(c, v) <=> \/ \E term \in level.plain : HoldsAll(term, v)
                                  \/ (\A lit \in common : Holds(lit, v)) /\ HoldsSome(rest, v)
  <2>1. ASSUME NEW k \in L PROVE HoldsAll(c[k], v) <=> (\A lit \in common : Holds(lit, v)) /\ HoldsAll(rest[k], v)
    BY <1>4, <1>6, HoldsAllRange
  <2>2. (\E term \in level.plain : HoldsAll(term, v)) <=> \E k \in DOMAIN c \ L : HoldsAll(c[k], v)
    OBVIOUS
  <2>3. HoldsSome(c, v) <=> (\E k \in DOMAIN c \ L : HoldsAll(c[k], v)) \/ \E k \in L : HoldsAll(c[k], v)
    BY <1>1 DEF HoldsSome
  <2>4. HoldsSome(rest, v) <=> \E k \in L : HoldsAll(rest[k], v)
    BY <1>5 DEF HoldsSome
  <2>. QED
    BY <2>1, <2>2, <2>3, <2>4
<1>13. \A v \in Values : HoldsSome(terms, v) <=> \/ \E term \in level.plain : HoldsAll(term, v)
                                                 \/ (\A lit \in common : Holds(lit, v)) /\ HoldsSome(rest, v)
  BY <1>1, <1>12, Zenon
<1>. QED
  BY <1>10, <1>11, <1>13 DEF LevelRight, rest

\* Level as a whole.
LEMMA LevelKeeps ==
    ASSUME NEW terms, GoodTerms(terms)
    PROVE  LevelRight(terms, Level(terms))
<1>. DEFINE s == Reduce(terms)
            common == CommonSubExpressions(s.conj, s.larger)
            level == Level(terms)
            Factored == SizeOne(terms) # {} /\ Cardinality(s.larger) > 1 /\ common # {}
<1>1. Reduced(terms, s)
  BY ReduceReduced
<1>2. CASE Factored
  <2>1. level = [plain |-> {s.conj[k] : k \in DOMAIN s.conj \ s.larger}, common |-> common,
                 rest |-> [k \in s.larger |-> Without(s.conj[k], common)]]
    BY <1>2 DEF Level
  <2>2. /\ level.plain = {s.conj[k] : k \in DOMAIN s.conj \ s.larger} /\ level.common = common
        /\ level.rest = [k \in s.larger |-> Without(s.conj[k], common)]
    BY <2>1
  <2>3. SizeOne(terms) # {} /\ Cardinality(s.larger) > 1 /\ common = CommonSubExpressions(s.conj, s.larger)
    BY <1>2
  <2>. HIDE DEF s, common, level
  <2>4. LevelRight(terms, level)
    BY <1>1, <2>2, <2>3, LevelFactored
  <2>. QED
    BY <2>4 DEF level
<1>3. CASE ~Factored
  <2>1. level = [plain |-> Range(s.conj), common |-> {}, rest |-> <<>>]
    BY <1>3 DEF Level
  <2>. HIDE DEF s, common, Factored, level
  <2>2. level.plain = Range(s.conj) /\ level.common = {} /\ level.rest = <<>>
    BY <2>1
  <2>3. ASSUME NEW v \in Values PROVE HoldsSome(terms, v) <=> \E term \in level.plain : HoldsAll(term, v)
    <3>1. HoldsSome(terms, v) <=> HoldsSome(s.conj, v)
      BY <1>1 DEF Reduced
    <3>2. HoldsSome(s.conj, v) <=> \E term \in Range(s.conj) : HoldsAll(term, v)
      BY DEF HoldsSome, Range
    <3>. QED
      BY <2>2, <3>1, <3>2
  <2>4. GoodTerms(level.rest) /\ DOMAIN level.rest = {} /\ \A v : ~HoldsSome(level.rest, v)
    BY <2>2, NoTerms
  <2>5. LevelRight(terms, level)
    BY <2>3, <2>4 DEF LevelRight
  <2>. QED
    BY <2>5 DEF level
<1>. QED
  BY <1>2, <1>3

\* The calls of createDisjunction, one for what the one before has left.
Calls(terms, call) ==
    /\ LevelRight(terms, call[0])
    /\ \A n \in Nat : LevelRight(call[n].rest, call[n + 1])

\* createDisjunction makes such calls.
LEMMA CallsExist ==
    ASSUME NEW terms, GoodTerms(terms)
    PROVE  \E call : /\ Calls(terms, call)
                     /\ createDisjunction(terms) = [n \in 1 .. Cardinality(DOMAIN terms) |->
                                                       [plain |-> call[n - 1].plain, common |-> call[n - 1].common]]
<1>. DEFINE T == DOMAIN terms
            Tables == {t \in UNION {[S -> Seq(Literal)] : S \in SUBSET T} : GoodTerms(t)}
            V == {Level(t) : t \in Tables}
            Def(g) == [n \in Nat |-> IF n = 0 THEN Level(terms) ELSE Level(g[n - 1].rest)]
            step == [x \in Nat \X V |-> Level(x[2].rest)]
<1>1. terms \in Tables
  BY DEF GoodTerms
<1>2. ASSUME NEW t \in Tables PROVE Level(t).rest \in Tables
  <2>1. PICK S \in SUBSET T : t \in [S -> Seq(Literal)]
    OBVIOUS
  <2>2. GoodTerms(Level(t).rest) /\ DOMAIN Level(t).rest \subseteq S
    BY <2>1, LevelKeeps DEF LevelRight
  <2>3. Level(t).rest \in [DOMAIN Level(t).rest -> Seq(Literal)]
    BY <2>2 DEF GoodTerms
  <2>4. DOMAIN Level(t).rest \in SUBSET T
    BY <2>1, <2>2
  <2>. QED
    BY <2>2, <2>3, <2>4
<1>3. \A t \in Tables : GoodTerms(t)
  OBVIOUS
<1>. HIDE DEF Tables
<1>4. Level(terms) \in V /\ \A x \in V : Level(x.rest) \in V
  BY <1>1, <1>2
<1>. HIDE DEF V
<1>5. PICK f : Recursive(V, Level(terms), step, f)
  <2>1. step \in [Nat \X V -> V]
    BY <1>4
  <2>. HIDE DEF step
  <2>. QED
    BY <1>4, <2>1, PrimitiveRecursion
<1>6. f = Def(f)
  <2>1. f \in [Nat -> V] /\ f[0] = Level(terms) /\ \A n \in Nat : f[n + 1] = step[<<n, f[n]>>]
    BY <1>5 DEF Recursive
  <2>2. ASSUME NEW n \in Nat, n # 0 PROVE f[n] = Level(f[n - 1].rest)
    <3>1. n - 1 \in Nat /\ (n - 1) + 1 = n
      BY <2>2
    <3>2. f[n - 1] \in V /\ f[n] = step[<<n - 1, f[n - 1]>>]
      BY <2>1, <3>1
    <3>. QED
      BY <3>1, <3>2
  <2>. HIDE DEF step
  <2>. QED
    BY <2>1, <2>2
<1>. DEFINE call == CHOOSE g : g = Def(g)
<1>7. call = Def(call)
  <2>. HIDE DEF Def
  <2>. QED
    BY <1>6
<1>8. createDisjunction(terms) = [n \in 1 .. Cardinality(DOMAIN terms) |->
                                     [plain |-> call[n - 1].plain, common |-> call[n - 1].common]]
  BY DEF createDisjunction
<1>. HIDE DEF call
<1>9. \A n \in Nat : call[n] = IF n = 0 THEN Level(terms) ELSE Level(call[n - 1].rest)
  BY <1>7
<1>10. call[0] = Level(terms) /\ \A n \in Nat : call[n + 1] = Level(call[n].rest)
  <2>1. call[0] = Level(terms)
    BY <1>9
  <2>2. ASSUME NEW n \in Nat PROVE call[n + 1] = Level(call[n].rest)
    <3>1. n + 1 \in Nat /\ n + 1 # 0 /\ (n + 1) - 1 = n
      OBVIOUS
    <3>2. call[n + 1] = Level(call[(n + 1) - 1].rest)
      BY <1>9, <3>1
    <3>. QED
      BY <3>1, <3>2
  <2>. QED
    BY <2>1, <2>2
<1>11. \A n \in Nat : call[n].rest \in Tables
  <2>. DEFINE Bad == {n \in Nat : call[n].rest \notin Tables}
  <2>. SUFFICES ASSUME Bad # {} PROVE FALSE
    OBVIOUS
  <2>1. PICK n \in Bad : \A l \in Bad : n <= l
    <3>1. Bad \in SUBSET Nat
      OBVIOUS
    <3>. HIDE DEF Bad
    <3>. QED
      BY <3>1, LeastNumber
  <2>2. n # 0
    BY <1>1, <1>2, <1>10, <2>1
  <2>3. n - 1 \in Nat /\ n - 1 \notin Bad /\ (n - 1) + 1 = n
    BY <2>1, <2>2
  <2>4. call[n - 1].rest \in Tables /\ call[n] = Level(call[n - 1].rest)
    <3>1. call[(n - 1) + 1] = Level(call[n - 1].rest)
      BY <1>10, <2>3
    <3>. QED
      BY <2>3, <3>1
  <2>. QED
    BY <1>2, <2>1, <2>4
<1>12. Calls(terms, call)
  BY <1>3, <1>10, <1>11, LevelKeeps DEF Calls
<1>. QED
  BY <1>8, <1>12

\* There are fewer terms in every further call.
LEMMA CallsEnd ==
    ASSUME NEW terms, GoodTerms(terms), NEW call, Calls(terms, call), NEW n \in Nat \ {0},
           n >= Cardinality(DOMAIN terms)
    PROVE  DOMAIN call[n - 1].rest = {}
<1>. DEFINE c == Cardinality(DOMAIN terms)
            D(k) == DOMAIN call[k].rest
            Ends(k) == D(k) = {} \/ (IsFiniteSet(D(k)) /\ Cardinality(D(k)) \in Nat /\ Cardinality(D(k)) + k + 1 <= c)
            Bad == {k \in Nat : ~Ends(k)}
<1>1. IsFiniteSet(DOMAIN terms) /\ c \in Nat
  BY FS_CardinalityType DEF GoodTerms
<1>. HIDE DEF c
<1>2. ASSUME NEW S, IsFiniteSet(S), NEW R, R \subseteq S, S # {} => R # S
      PROVE  /\ R = {} \/ Cardinality(R) + 1 <= Cardinality(S)
             /\ IsFiniteSet(R) /\ Cardinality(R) \in Nat /\ Cardinality(S) \in Nat
  <2>1. /\ IsFiniteSet(R) /\ Cardinality(R) \in Nat /\ Cardinality(S) \in Nat
        /\ Cardinality(R) <= Cardinality(S) /\ (Cardinality(R) = Cardinality(S) => R = S)
    BY <1>2, FS_Subset, FS_CardinalityType
  <2>2. R # {} => S # {}
    BY <1>2
  <2>. QED
    BY <1>2, <2>1, <2>2
<1>3. Bad = {}
  <2>. SUFFICES ASSUME Bad # {} PROVE FALSE
    OBVIOUS
  <2>1. PICK k \in Bad : \A l \in Bad : k <= l
    <3>1. Bad \in SUBSET Nat
      OBVIOUS
    <3>. HIDE DEF Bad
    <3>. QED
      BY <3>1, LeastNumber
  <2>2. CASE k = 0
    <3>1. D(0) \subseteq DOMAIN terms /\ (DOMAIN terms # {} => D(0) # DOMAIN terms)
      BY DEF Calls, LevelRight
    <3>. HIDE DEF D
    <3>2. /\ D(0) = {} \/ Cardinality(D(0)) + 1 <= c
          /\ IsFiniteSet(D(0)) /\ Cardinality(D(0)) \in Nat
      BY <1>1, <1>2, <3>1 DEF c
    <3>3. Ends(0)
      BY <3>2
    <3>. QED
      BY <2>1, <2>2, <3>3
  <2>3. CASE k # 0
    <3>1. k - 1 \in Nat /\ (k - 1) + 1 = k /\ k - 1 \notin Bad
      BY <2>1, <2>3
    <3>2. Ends(k - 1)
      BY <3>1
    <3>3. D(k) \subseteq D(k - 1) /\ (D(k - 1) # {} => D(k) # D(k - 1))
      <4>1. LevelRight(call[k - 1].rest, call[(k - 1) + 1])
        BY <3>1 DEF Calls
      <4>. QED
        BY <3>1, <4>1 DEF LevelRight
    <3>. HIDE DEF D
    <3>4. CASE D(k - 1) = {}
      BY <2>1, <3>3, <3>4
    <3>5. CASE D(k - 1) # {}
      <4>1. /\ IsFiniteSet(D(k - 1)) /\ Cardinality(D(k - 1)) \in Nat
            /\ Cardinality(D(k - 1)) + (k - 1) + 1 <= c
        BY <3>2, <3>5
      <4>2. /\ D(k) = {} \/ Cardinality(D(k)) + 1 <= Cardinality(D(k - 1))
            /\ IsFiniteSet(D(k)) /\ Cardinality(D(k)) \in Nat
        BY <1>2, <3>3, <4>1
      <4>3. CASE D(k) = {}
        BY <2>1, <4>3
      <4>4. CASE D(k) # {}
        <5>1. Cardinality(D(k)) + k + 1 <= c
          BY <1>1, <3>1, <4>1, <4>2, <4>4
        <5>. QED
          BY <2>1, <4>2, <5>1
      <4>. QED
        BY <4>3, <4>4
    <3>. QED
      BY <3>4, <3>5
  <2>. QED
    BY <2>2, <2>3
<1>4. n - 1 \in Nat /\ n >= c
  BY DEF c
<1>5. Ends(n - 1)
  BY <1>3, <1>4
<1>6. ASSUME D(n - 1) # {} PROVE FALSE
  <2>1. Cardinality(D(n - 1)) \in Nat /\ Cardinality(D(n - 1)) + (n - 1) + 1 <= c /\ IsFiniteSet(D(n - 1))
    BY <1>5, <1>6
  <2>2. Cardinality(D(n - 1)) # 0
    BY <1>6, <2>1, FS_EmptySet
  <2>. HIDE DEF D
  <2>. QED
    BY <1>1, <1>4, <2>1, <2>2
<1>. QED
  BY <1>6

\* createDisjunction keeps what the terms mean, whichever indices it takes for those
\* of single conditions and however often it calls itself.
THEOREM DisjunctionKeeps ==
    ASSUME NEW terms, GoodTerms(terms), DOMAIN terms # {}, NEW v \in Values
    PROVE  HoldsDisjunction(createDisjunction(terms), v) <=> HoldsSome(terms, v)
<1>. DEFINE d == createDisjunction(terms)
            c == Cardinality(DOMAIN terms)
            Plain(n) == \E term \in d[n].plain : HoldsAll(term, v)
            Common(n) == \A lit \in d[n].common : Holds(lit, v)
<1>1. PICK call : /\ Calls(terms, call)
                  /\ d = [n \in 1 .. c |-> [plain |-> call[n - 1].plain, common |-> call[n - 1].common]]
  BY CallsExist
<1>. DEFINE Rest(n) == HoldsSome(call[n - 1].rest, v)
            Before(n) == \A m \in 1 .. n : Common(m)
            Some(n) == \E m \in 1 .. n : (\A i \in 1 .. (m - 1) : Common(i)) /\ Plain(m)
            Right(n) == HoldsSome(terms, v) <=> Some(n) \/ (Before(n) /\ Rest(n))
<1>2. c \in Nat /\ c # 0
  <2>1. IsFiniteSet(DOMAIN terms)
    BY DEF GoodTerms
  <2>. QED
    BY <2>1, FS_CardinalityType, FS_EmptySet
<1>3. DOMAIN d = 1 .. c /\ \A n \in 1 .. c : d[n].plain = call[n - 1].plain /\ d[n].common = call[n - 1].common
  BY <1>1
<1>4. HoldsDisjunction(d, v) <=> Some(c)
  BY <1>3 DEF HoldsDisjunction
<1>. HIDE DEF c
<1>5. HoldsSome(terms, v) <=> Plain(1) \/ (Common(1) /\ Rest(1))
  <2>1. LevelRight(terms, call[0]) /\ 1 \in 1 .. c /\ 1 - 1 = 0
    BY <1>1, <1>2 DEF Calls
  <2>2. d[1].plain = call[0].plain /\ d[1].common = call[0].common
    BY <1>3, <2>1
  <2>. QED
    BY <2>1, <2>2 DEF LevelRight
<1>6. ASSUME NEW n \in 1 .. c, n # 1 PROVE Rest(n - 1) <=> Plain(n) \/ (Common(n) /\ Rest(n))
  <2>1. n - 1 \in 1 .. c /\ (n - 1) - 1 \in Nat /\ ((n - 1) - 1) + 1 = n - 1
    BY <1>2, <1>6
  <2>2. LevelRight(call[(n - 1) - 1].rest, call[n - 1])
    <3>1. LevelRight(call[(n - 1) - 1].rest, call[((n - 1) - 1) + 1])
      BY <1>1, <2>1 DEF Calls
    <3>. QED
      BY <2>1, <3>1
  <2>3. d[n].plain = call[n - 1].plain /\ d[n].common = call[n - 1].common
    BY <1>3
  <2>. QED
    BY <2>2, <2>3 DEF LevelRight
<1>. HIDE DEF Plain, Common, Rest, d
<1>7. ASSUME NEW n \in 1 .. c PROVE Right(n)
  <2>. DEFINE Bad == {k \in 1 .. c : ~Right(k)}
  <2>. SUFFICES ASSUME Bad # {} PROVE FALSE
    OBVIOUS
  <2>1. PICK k \in Bad : \A l \in Bad : k <= l
    <3>1. Bad \in SUBSET Nat
      BY <1>2
    <3>. HIDE DEF Bad
    <3>. QED
      BY <3>1, LeastNumber
  <2>2. CASE k = 1
    <3>1. Some(1) <=> Plain(1)
      OBVIOUS
    <3>2. Before(1) <=> Common(1)
      OBVIOUS
    <3>. QED
      BY <1>5, <2>1, <2>2, <3>1, <3>2
  <2>3. CASE k # 1
    <3>1. k \in 1 .. c /\ k - 1 \in 1 .. c /\ k - 1 \notin Bad /\ k \in Nat /\ k \in 1 .. k
      BY <1>2, <2>1, <2>3
    <3>2. \A m \in 1 .. k : m \in 1 .. k - 1 \/ m = k
      BY <3>1
    <3>3. \A m \in 1 .. k - 1 : m \in 1 .. k
      BY <3>1
    <3>4. Before(k) <=> Before(k - 1) /\ Common(k)
      BY <3>1, <3>2, <3>3
    <3>5. Some(k) <=> Some(k - 1) \/ (Before(k - 1) /\ Plain(k))
      BY <3>1, <3>2, <3>3
    <3>6. Right(k - 1)
      BY <3>1
    <3>7. Rest(k - 1) <=> Plain(k) \/ (Common(k) /\ Rest(k))
      BY <1>6, <2>3, <3>1
    <3>. HIDE DEF Before, Some
    <3>8. Right(k)
      BY <3>4, <3>5, <3>6, <3>7
    <3>. QED
      BY <2>1, <3>8
  <2>. QED
    BY <2>2, <2>3
<1>8. ~Rest(c)
  <2>1. c \in Nat \ {0} /\ c >= Cardinality(DOMAIN terms)
    BY <1>2 DEF c
  <2>2. DOMAIN call[c - 1].rest = {}
    BY <1>1, <2>1, CallsEnd
  <2>. QED
    BY <2>2 DEF Rest, HoldsSome
<1>9. Right(c)
  BY <1>2, <1>7
<1>. HIDE DEF Some, Before
<1>. QED
  BY <1>4, <1>8, <1>9 DEF d

-----------------------------------------------------------------------------
(***************************************************************************)
(* Nest: what the paths have in common                                     *)
(***************************************************************************)
\* No two conditions look alike to Expression::operator==.
AllDistinct == \A a, b \in Block : Shape[a] = Shape[b] => a = b

\* derefEqual tells such conditions apart.
LEMMA DerefEqualSame ==
    ASSUME AllDistinct, NEW a \in Literal, NEW b \in Literal, derefEqual(a, b)
    PROVE  a = b
<1>1. a.atom \in Block /\ b.atom \in Block /\ a.negated = b.negated /\ a.atom = b.atom
  BY DEF AllDistinct, derefEqual, Literal
<1>2. a = [atom |-> a.atom, negated |-> a.negated] /\ b = [atom |-> b.atom, negated |-> b.negated]
  BY DEF Literal
<1>. QED
  BY <1>1, <1>2

\* A prefix that two paths share.
LEMMA SharedPrefix ==
    ASSUME AllDistinct, NEW a \in Seq(Literal), NEW b \in Seq(Literal)
    PROVE  /\ CommonPrefix(a, b) \in Nat /\ CommonPrefix(a, b) <= Len(a) /\ CommonPrefix(a, b) <= Len(b)
           /\ \A i \in 1 .. CommonPrefix(a, b) : a[i] = b[i]
<1>. DEFINE M == {Len(a), Len(b)}
            m == Min(M)
            S == {n \in 0 .. m : \A i \in 1 .. n : derefEqual(a[i], b[i])}
<1>1. Len(a) \in Nat /\ Len(b) \in Nat /\ DOMAIN a = 1 .. Len(a) /\ DOMAIN b = 1 .. Len(b)
  OBVIOUS
<1>2. m \in M /\ \A y \in M : m <= y
  <2>1. \E x \in M : \A y \in M : x <= y
    <3>1. CASE Len(a) <= Len(b)
      BY <1>1, <3>1
    <3>2. CASE ~(Len(a) <= Len(b))
      BY <1>1, <3>2
    <3>. QED
      BY <3>1, <3>2
  <2>. HIDE DEF M
  <2>. QED
    BY <2>1 DEF Min
<1>3. m \in Nat /\ m <= Len(a) /\ m <= Len(b)
  BY <1>1, <1>2
<1>. HIDE DEF m
<1>4. S \in SUBSET (0 .. m) /\ 0 \in S
  BY <1>3
<1>5. Max(S) \in S
  <2>1. \E x \in S : \A y \in S : y <= x
    <3>. HIDE DEF S
    <3>. QED
      BY <1>3, <1>4, GreatestNumber
  <2>2. \E x \in S : \A y \in S : x >= y
    <3>1. \A x, y \in S : y <= x => x >= y
      OBVIOUS
    <3>. HIDE DEF S
    <3>. QED
      BY <2>1, <3>1
  <2>. HIDE DEF S
  <2>. QED
    BY <2>2 DEF Max
<1>6. CommonPrefix(a, b) = Max(S)
  BY DEF CommonPrefix, m
<1>. DEFINE p == Max(S)
<1>7. p \in 0 .. m /\ \A i \in 1 .. p : derefEqual(a[i], b[i])
  BY <1>5
<1>. HIDE DEF S, p
<1>8. p \in Nat /\ p <= Len(a) /\ p <= Len(b)
  BY <1>1, <1>3, <1>7
<1>9. ASSUME NEW i \in 1 .. p PROVE a[i] = b[i]
  <2>1. i \in 1 .. Len(a) /\ i \in 1 .. Len(b)
    BY <1>1, <1>8
  <2>2. a[i] \in Literal /\ b[i] \in Literal
    BY <2>1
  <2>. QED
    BY <1>7, <2>2, DerefEqualSame
<1>. QED
  BY <1>6, <1>8, <1>9 DEF p

\* A suffix that two paths share.
LEMMA SharedSuffix ==
    ASSUME AllDistinct, NEW a \in Seq(Literal), NEW b \in Seq(Literal)
    PROVE  /\ CommonSuffix(a, b) \in Nat /\ CommonSuffix(a, b) <= Len(a) /\ CommonSuffix(a, b) <= Len(b)
           /\ \A i \in 1 .. CommonSuffix(a, b) : a[Len(a) + 1 - i] = b[Len(b) + 1 - i]
<1>. DEFINE x == Reverse(a)
            y == Reverse(b)
            p == CommonPrefix(x, y)
<1>1. ASSUME NEW s \in Seq(Literal)
      PROVE  /\ Reverse(s) \in Seq(Literal) /\ Len(Reverse(s)) = Len(s)
             /\ \A i \in 1 .. Len(s) : Reverse(s)[i] = s[(Len(s) - i) + 1]
  <2>1. Len(s) \in Nat /\ \A i \in 1 .. Len(s) : (Len(s) - i) + 1 \in 1 .. Len(s)
    OBVIOUS
  <2>2. \A i \in 1 .. Len(s) : s[(Len(s) - i) + 1] \in Literal
    BY <2>1
  <2>3. Reverse(s) \in [1 .. Len(s) -> Literal]
    BY <2>2 DEF Reverse
  <2>. QED
    BY <2>1, <2>3 DEF Reverse
<1>2. /\ x \in Seq(Literal) /\ Len(x) = Len(a) /\ \A i \in 1 .. Len(a) : x[i] = a[(Len(a) - i) + 1]
      /\ y \in Seq(Literal) /\ Len(y) = Len(b) /\ \A i \in 1 .. Len(b) : y[i] = b[(Len(b) - i) + 1]
  BY <1>1
<1>. HIDE DEF x, y
<1>3. p \in Nat /\ p <= Len(a) /\ p <= Len(b) /\ \A i \in 1 .. p : x[i] = y[i]
  BY <1>2, SharedPrefix
<1>. HIDE DEF p
<1>4. ASSUME NEW i \in 1 .. p PROVE a[Len(a) + 1 - i] = b[Len(b) + 1 - i]
  <2>1. Len(a) \in Nat /\ Len(b) \in Nat
    OBVIOUS
  <2>2. /\ i \in 1 .. Len(a) /\ i \in 1 .. Len(b)
        /\ Len(a) + 1 - i = (Len(a) - i) + 1 /\ Len(b) + 1 - i = (Len(b) - i) + 1
    BY <1>3, <2>1
  <2>. QED
    BY <1>2, <1>3, <2>2
<1>5. CommonSuffix(a, b) = p
  BY DEF CommonSuffix, p, x, y
<1>. QED
  BY <1>3, <1>4, <1>5

\* A part of a sequence.
LEMMA RangeOfSubSeq ==
    ASSUME NEW S, NEW s \in Seq(S), NEW m \in 1 .. (Len(s) + 1), NEW n \in 0 .. Len(s)
    PROVE  /\ SubSeq(s, m, n) \in Seq(S)
           /\ \A i \in DOMAIN SubSeq(s, m, n) : (m - 1) + i \in m .. n /\ SubSeq(s, m, n)[i] = s[(m - 1) + i]
           /\ Range(SubSeq(s, m, n)) = {s[i] : i \in m .. n}
<1>. DEFINE t == SubSeq(s, m, n)
<1>1. Len(s) \in Nat /\ m \in Nat /\ n \in Nat
  OBVIOUS
<1>2. CASE m <= n
  <2>1. /\ t \in Seq(S) /\ Len(t) = (n - m) + 1
        /\ \A i \in 1 .. ((n - m) + 1) : t[i] = s[(m - 1) + i]
    BY <1>1, <1>2
  <2>. HIDE DEF t
  <2>2. DOMAIN t = 1 .. ((n - m) + 1)
    BY <2>1
  <2>3. \A i \in DOMAIN t : (m - 1) + i \in m .. n /\ t[i] = s[(m - 1) + i]
    <3>1. \A i \in 1 .. ((n - m) + 1) : (m - 1) + i \in m .. n
      BY <1>1, <1>2
    <3>. QED
      BY <2>1, <2>2, <3>1
  <2>4. \A i \in m .. n : (i - m) + 1 \in DOMAIN t /\ (m - 1) + ((i - m) + 1) = i
    BY <1>1, <1>2, <2>2
  <2>5. \A i \in m .. n : t[(i - m) + 1] = s[i]
    BY <2>3, <2>4
  <2>6. Range(t) = {s[i] : i \in m .. n}
    <3>1. ASSUME NEW x \in Range(t) PROVE \E i \in m .. n : x = s[i]
      <4>1. PICK i \in DOMAIN t : x = t[i]
        BY DEF Range
      <4>. QED
        BY <2>3, <4>1
    <3>2. ASSUME NEW i \in m .. n PROVE s[i] \in Range(t)
      BY <2>4, <2>5 DEF Range
    <3>. QED
      BY <3>1, <3>2
  <2>. QED
    BY <2>1, <2>3, <2>6 DEF t
<1>3. CASE ~(m <= n)
  <2>1. t = <<>> /\ m .. n = {}
    BY <1>1, <1>3
  <2>2. DOMAIN <<>> = {} /\ Range(<<>>) = {} /\ <<>> \in Seq(S)
    BY DEF Range
  <2>. HIDE DEF t
  <2>. QED
    BY <2>1, <2>2 DEF t
<1>. QED
  BY <1>2, <1>3

\* A path between a prefix and a suffix.
LEMMA MiddleOfPath ==
    ASSUME NEW t, IsPath(t), NEW p \in 0 .. Len(t), NEW q \in 0 .. Len(t)
    PROVE  LET mid == SubSeq(t, p + 1, Len(t) - q)
               ends == {t[i] : i \in 1 .. p} \cup {t[Len(t) + 1 - i] : i \in 1 .. q}
           IN  IsPath(mid) /\ ends \subseteq Range(t) /\ Range(mid) = Range(t) \ ends
<1>. DEFINE n == Len(t)
            mid == SubSeq(t, p + 1, n - q)
            ends == {t[i] : i \in 1 .. p} \cup {t[n + 1 - i] : i \in 1 .. q}
<1>1. t \in Seq(Literal) /\ Sorted(t)
  BY DEF IsPath
<1>2. /\ n \in Nat /\ DOMAIN t = 1 .. n /\ \A i, j \in DOMAIN t : t[i] = t[j] => i = j
  <2>1. n \in Nat /\ DOMAIN t = 1 .. n /\ \A i, j \in DOMAIN t : t[i].atom = t[j].atom => i = j
    BY PathLiterals
  <2>. QED
    BY <2>1
<1>3. p + 1 \in 1 .. (n + 1) /\ n - q \in 0 .. n
  BY <1>2
<1>4. /\ mid \in Seq(Literal)
      /\ \A i \in DOMAIN mid : ((p + 1) - 1) + i \in (p + 1) .. (n - q) /\ mid[i] = t[((p + 1) - 1) + i]
      /\ Range(mid) = {t[i] : i \in (p + 1) .. (n - q)}
  <2>. DEFINE lo == p + 1
              hi == n - q
  <2>1. lo \in 1 .. (Len(t) + 1) /\ hi \in 0 .. Len(t)
    BY <1>3
  <2>. HIDE DEF lo, hi
  <2>2. /\ SubSeq(t, lo, hi) \in Seq(Literal)
        /\ \A i \in DOMAIN SubSeq(t, lo, hi) : (lo - 1) + i \in lo .. hi /\ SubSeq(t, lo, hi)[i] = t[(lo - 1) + i]
        /\ Range(SubSeq(t, lo, hi)) = {t[i] : i \in lo .. hi}
    BY <1>1, <2>1, RangeOfSubSeq
  <2>. QED
    BY <2>2, Zenon DEF lo, hi
<1>. HIDE DEF n, mid
<1>5. \A i \in DOMAIN mid : p + i \in DOMAIN t /\ mid[i] = t[p + i] /\ i \in Int
  <2>1. \A i \in DOMAIN mid : i \in Nat
    BY <1>4
  <2>2. \A i \in DOMAIN mid : ((p + 1) - 1) + i = p + i
    BY <1>2, <1>3, <2>1
  <2>3. (p + 1) .. (n - q) \subseteq DOMAIN t
    BY <1>2, <1>3
  <2>. QED
    BY <1>4, <2>1, <2>2, <2>3
<1>6. \A i, j \in DOMAIN mid : i < j => mid[i].atom < mid[j].atom
  <2>. TAKE i, j \in DOMAIN mid
  <2>. HAVE i < j
  <2>1. p + i < p + j
    BY <1>3, <1>5
  <2>. QED
    BY <1>1, <1>5, <2>1 DEF Sorted
<1>7. IsPath(mid)
  BY <1>4, <1>6 DEF IsPath, Sorted
<1>8. ends = {t[i] : i \in {j \in 1 .. n : j <= p \/ n - q < j}}
  <2>1. \A i \in 1 .. p : i \in 1 .. n /\ i <= p
    BY <1>2, <1>3
  <2>2. \A i \in 1 .. q : n + 1 - i \in 1 .. n /\ n - q < n + 1 - i
    BY <1>2, <1>3
  <2>3. \A j \in 1 .. n : j <= p => j \in 1 .. p
    BY <1>2, <1>3
  <2>4. \A j \in 1 .. n : n - q < j => n + 1 - j \in 1 .. q /\ n + 1 - (n + 1 - j) = j
    BY <1>2, <1>3
  <2>5. ASSUME NEW x \in ends PROVE \E j \in 1 .. n : (j <= p \/ n - q < j) /\ x = t[j]
    <3>1. CASE \E i \in 1 .. p : x = t[i]
      BY <2>1, <3>1
    <3>2. CASE \E i \in 1 .. q : x = t[n + 1 - i]
      BY <2>2, <3>2
    <3>. QED
      BY <3>1, <3>2
  <2>6. ASSUME NEW j \in 1 .. n, j <= p \/ n - q < j PROVE t[j] \in ends
    <3>1. CASE j <= p
      BY <2>3, <3>1
    <3>2. CASE n - q < j
      <4>1. t[j] = t[n + 1 - (n + 1 - j)] /\ n + 1 - j \in 1 .. q
        BY <2>4, <3>2
      <4>. QED
        BY <4>1
    <3>. QED
      BY <2>6, <3>1, <3>2
  <2>. HIDE DEF ends
  <2>. QED
    BY <2>5, <2>6
<1>. HIDE DEF ends
<1>9. \A j \in 1 .. n : j \in (p + 1) .. (n - q) <=> ~(j <= p \/ n - q < j)
  BY <1>2, <1>3
<1>10. (p + 1) .. (n - q) \subseteq 1 .. n
  BY <1>2, <1>3
<1>11. ends \subseteq Range(t)
  BY <1>2, <1>8 DEF Range
<1>12. ASSUME NEW x \in Range(t) PROVE x \in Range(mid) <=> x \notin ends
  <2>1. PICK j \in 1 .. n : x = t[j]
    BY <1>2 DEF Range
  <2>2. x \in Range(mid) <=> j \in (p + 1) .. (n - q)
    BY <1>2, <1>4, <1>10, <2>1
  <2>3. x \in ends <=> j <= p \/ n - q < j
    BY <1>2, <1>8, <2>1
  <2>. QED
    BY <1>9, <2>2, <2>3
<1>13. Range(mid) \subseteq Range(t)
  BY <1>2, <1>4, <1>10 DEF Range
<1>. QED
  BY <1>7, <1>11, <1>12, <1>13 DEF n, mid, ends

\* The least of a nonempty set of numbers.
LEMMA MinOfNumbers ==
    ASSUME NEW S, S \subseteq Nat, S # {}
    PROVE  Min(S) \in S /\ \A y \in S : Min(S) <= y
<1>1. \E x \in S : \A y \in S : x <= y
  BY LeastNumber
<1>. QED
  BY <1>1 DEF Min

\* The lengths of what all paths have in common, at their start and their end.
NestPrefix(paths) == Min({CommonPrefix(Head(paths), paths[i]) : i \in DOMAIN paths})
NestSuffix(paths) ==
    IF NestPrefix(paths) = Len(Head(paths)) THEN 0
    ELSE Min({CommonSuffix(Head(paths), paths[i]) : i \in DOMAIN paths})

\* Every path starts and ends as the first one does.
LEMMA SharedByAll ==
    ASSUME AllDistinct, NEW paths \in Seq(Seq(Literal)), paths # <<>>, NEW i \in DOMAIN paths
    PROVE  /\ NestPrefix(paths) \in 0 .. Len(paths[i]) /\ NestSuffix(paths) \in 0 .. Len(paths[i])
           /\ \A j \in 1 .. NestPrefix(paths) : paths[i][j] = Head(paths)[j]
           /\ \A j \in 1 .. NestSuffix(paths) :
                 paths[i][Len(paths[i]) + 1 - j] = Head(paths)[Len(Head(paths)) + 1 - j]
<1>. DEFINE front == Head(paths)
            P == {CommonPrefix(front, paths[k]) : k \in DOMAIN paths}
            Q == {CommonSuffix(front, paths[k]) : k \in DOMAIN paths}
<1>1. front \in Seq(Literal) /\ \A k \in DOMAIN paths : paths[k] \in Seq(Literal)
  OBVIOUS
<1>2. Len(paths[i]) \in Nat
  BY <1>1
<1>. HIDE DEF front
<1>3. P \subseteq Nat /\ P # {} /\ CommonPrefix(front, paths[i]) \in P
  BY <1>1, SharedPrefix
<1>4. Q \subseteq Nat /\ Q # {} /\ CommonSuffix(front, paths[i]) \in Q
  BY <1>1, SharedSuffix
<1>5. Min(P) \in Nat /\ Min(P) <= CommonPrefix(front, paths[i])
  BY <1>3, MinOfNumbers
<1>6. Min(Q) \in Nat /\ Min(Q) <= CommonSuffix(front, paths[i])
  BY <1>4, MinOfNumbers
<1>7. /\ CommonPrefix(front, paths[i]) \in Nat /\ CommonPrefix(front, paths[i]) <= Len(paths[i])
      /\ \A j \in 1 .. CommonPrefix(front, paths[i]) : front[j] = paths[i][j]
  BY <1>1, SharedPrefix
<1>8. /\ CommonSuffix(front, paths[i]) \in Nat /\ CommonSuffix(front, paths[i]) <= Len(paths[i])
      /\ \A j \in 1 .. CommonSuffix(front, paths[i]) : front[Len(front) + 1 - j] = paths[i][Len(paths[i]) + 1 - j]
  BY <1>1, SharedSuffix
<1>9. NestPrefix(paths) = Min(P) /\ (NestSuffix(paths) = 0 \/ NestSuffix(paths) = Min(Q))
  BY DEF NestPrefix, NestSuffix, front
<1>. HIDE DEF P, Q
<1>10. NestPrefix(paths) \in Nat /\ NestPrefix(paths) <= CommonPrefix(front, paths[i])
  BY <1>5, <1>9
<1>11. NestSuffix(paths) \in Nat /\ NestSuffix(paths) <= CommonSuffix(front, paths[i])
  BY <1>6, <1>8, <1>9
<1>12. NestPrefix(paths) \in 0 .. Len(paths[i]) /\ NestSuffix(paths) \in 0 .. Len(paths[i])
  BY <1>2, <1>7, <1>8, <1>10, <1>11
<1>13. \A j \in 1 .. NestPrefix(paths) : j \in 1 .. CommonPrefix(front, paths[i])
  BY <1>7, <1>10
<1>14. \A j \in 1 .. NestSuffix(paths) : j \in 1 .. CommonSuffix(front, paths[i])
  BY <1>8, <1>11
<1>15. \A j \in 1 .. NestPrefix(paths) : paths[i][j] = front[j]
  BY <1>7, <1>13
<1>16. \A j \in 1 .. NestSuffix(paths) : paths[i][Len(paths[i]) + 1 - j] = front[Len(front) + 1 - j]
  BY <1>8, <1>14
<1>. QED
  BY <1>12, <1>15, <1>16 DEF front

\* The conditions that all paths have in common, and what is left of each.
NestCommon(paths) ==
    SubSeq(Head(paths), 1, NestPrefix(paths))
        \o SubSeq(Head(paths), Len(Head(paths)) - NestSuffix(paths) + 1, Len(Head(paths)))
NestPart(paths, i) == SubSeq(paths[i], NestPrefix(paths) + 1, Len(paths[i]) - NestSuffix(paths))

\* The common conditions are those of the first path at its ends.
LEMMA CommonConditions ==
    ASSUME AllDistinct, NEW paths \in Seq(Seq(Literal)), paths # <<>>
    PROVE  Range(NestCommon(paths)) =
               {Head(paths)[i] : i \in 1 .. NestPrefix(paths)}
                   \cup {Head(paths)[Len(Head(paths)) + 1 - i] : i \in 1 .. NestSuffix(paths)}
<1>. DEFINE front == Head(paths)
            n == Len(front)
            p == NestPrefix(paths)
            q == NestSuffix(paths)
<1>1. front \in Seq(Literal) /\ n \in Nat /\ 1 \in DOMAIN paths /\ front = paths[1]
  OBVIOUS
<1>2. p \in 0 .. n /\ q \in 0 .. n
  BY <1>1, SharedByAll
<1>. HIDE DEF n, p, q
<1>3. 1 \in 1 .. (n + 1) /\ (n - q) + 1 \in 1 .. (n + 1) /\ n \in 0 .. n
  BY <1>1, <1>2
<1>4. SubSeq(front, 1, p) \in Seq(Literal) /\ Range(SubSeq(front, 1, p)) = {front[i] : i \in 1 .. p}
  BY <1>1, <1>2, <1>3, RangeOfSubSeq DEF n
<1>5. /\ SubSeq(front, (n - q) + 1, n) \in Seq(Literal)
      /\ Range(SubSeq(front, (n - q) + 1, n)) = {front[i] : i \in ((n - q) + 1) .. n}
  <2>. DEFINE lo == (n - q) + 1
  <2>1. lo \in 1 .. (Len(front) + 1) /\ n \in 0 .. Len(front) /\ front \in Seq(Literal)
    BY <1>1, <1>3 DEF n
  <2>. HIDE DEF lo, front
  <2>2. /\ SubSeq(front, lo, n) \in Seq(Literal)
        /\ \A i \in DOMAIN SubSeq(front, lo, n) : (lo - 1) + i \in lo .. n /\ SubSeq(front, lo, n)[i] = front[(lo - 1) + i]
        /\ Range(SubSeq(front, lo, n)) = {front[i] : i \in lo .. n}
    BY <2>1, RangeOfSubSeq
  <2>. QED
    BY <2>2 DEF lo
<1>6. {front[i] : i \in ((n - q) + 1) .. n} = {front[n + 1 - i] : i \in 1 .. q}
  <2>1. \A i \in ((n - q) + 1) .. n : n + 1 - i \in 1 .. q /\ n + 1 - (n + 1 - i) = i
    BY <1>1, <1>2
  <2>2. \A i \in 1 .. q : n + 1 - i \in ((n - q) + 1) .. n
    BY <1>1, <1>2
  <2>3. ASSUME NEW i \in ((n - q) + 1) .. n PROVE \E j \in 1 .. q : front[i] = front[n + 1 - j]
    <3>1. n + 1 - i \in 1 .. q /\ front[i] = front[n + 1 - (n + 1 - i)]
      BY <2>1
    <3>. QED
      BY <3>1
  <2>4. ASSUME NEW i \in 1 .. q PROVE \E j \in ((n - q) + 1) .. n : front[n + 1 - i] = front[j]
    BY <2>2
  <2>. DEFINE A == {front[i] : i \in ((n - q) + 1) .. n}
              B == {front[n + 1 - i] : i \in 1 .. q}
  <2>. HIDE DEF front
  <2>5. ASSUME NEW x \in A PROVE x \in B
    BY <2>3, <2>5, Zenon
  <2>6. ASSUME NEW x \in B PROVE x \in A
    BY <2>4, <2>6, Zenon
  <2>. HIDE DEF A, B
  <2>7. A = B
    BY <2>5, <2>6
  <2>. QED
    BY <2>7 DEF A, B
<1>7. NestCommon(paths) = SubSeq(front, 1, p) \o SubSeq(front, (n - q) + 1, n)
  <2>1. n - q + 1 = (n - q) + 1
    BY <1>1, <1>2
  <2>. QED
    BY <2>1 DEF NestCommon, n, p, q
<1>. HIDE DEF front
<1>8. Range(NestCommon(paths)) = {front[i] : i \in 1 .. p} \cup {front[n + 1 - i] : i \in 1 .. q}
  <2>. DEFINE s == SubSeq(front, 1, p)
              t == SubSeq(front, (n - q) + 1, n)
  <2>1. s \in Seq(Literal) /\ t \in Seq(Literal)
    BY <1>4, <1>5
  <2>. HIDE DEF s, t
  <2>2. Range(s \o t) = Range(s) \cup Range(t)
    BY <2>1, RangeOfConcat
  <2>3. Range(s) = {front[i] : i \in 1 .. p} /\ Range(t) = {front[n + 1 - i] : i \in 1 .. q} /\ NestCommon(paths) = s \o t
    BY <1>4, <1>5, <1>6, <1>7, Zenon DEF s, t
  <2>. QED
    BY <2>2, <2>3, Zenon
<1>. QED
  BY <1>8 DEF front, n, p, q

\* Each path is the common conditions and its part.
LEMMA PathParts ==
    ASSUME AllDistinct, NEW paths \in Seq(Seq(Literal)), paths # <<>>, NEW i \in DOMAIN paths, IsPath(paths[i])
    PROVE  /\ IsPath(NestPart(paths, i)) /\ Range(NestCommon(paths)) \subseteq Range(paths[i])
           /\ Range(NestPart(paths, i)) = Range(paths[i]) \ Range(NestCommon(paths))
<1>. DEFINE t == paths[i]
            p == NestPrefix(paths)
            q == NestSuffix(paths)
            ends == {t[j] : j \in 1 .. p} \cup {t[Len(t) + 1 - j] : j \in 1 .. q}
            front == Head(paths)
            C == {front[j] : j \in 1 .. p} \cup {front[Len(front) + 1 - j] : j \in 1 .. q}
<1>1. /\ p \in 0 .. Len(t) /\ q \in 0 .. Len(t)
      /\ \A j \in 1 .. p : t[j] = front[j]
      /\ \A j \in 1 .. q : t[Len(t) + 1 - j] = front[Len(front) + 1 - j]
  BY SharedByAll
<1>2. Range(NestCommon(paths)) = C
  BY CommonConditions
<1>3. NestPart(paths, i) = SubSeq(t, p + 1, Len(t) - q)
  BY DEF NestPart
<1>. HIDE DEF t, p, q, front
<1>4. ends = C
  BY <1>1
<1>5. /\ IsPath(SubSeq(t, p + 1, Len(t) - q)) /\ ends \subseteq Range(t)
      /\ Range(SubSeq(t, p + 1, Len(t) - q)) = Range(t) \ ends
  <2>1. IsPath(t)
    BY DEF t
  <2>. QED
    BY <1>1, <2>1, MiddleOfPath
<1>. HIDE DEF ends, C
<1>. QED
  BY <1>2, <1>3, <1>4, <1>5 DEF t

\* Paths of which any two part with opposite conditions.
Parting(paths) ==
    /\ paths \in Seq(Seq(Literal)) /\ paths # <<>> /\ \A i \in DOMAIN paths : IsPath(paths[i])
    /\ \A i, j \in DOMAIN paths : i # j => Diverge(Range(paths[i]), Range(paths[j]))

\* The terms of the disjunction, from the last path on.
NestTerms(paths) ==
    [i \in {j \in DOMAIN paths : NestPart(paths, Len(paths) + 1 - j) # <<>>} |-> NestPart(paths, Len(paths) + 1 - i)]

\* The if statements by their parts.
LEMMA NestIs ==
    ASSUME NEW paths \in Seq(Seq(Literal))
    PROVE  Nest(paths) = [common |-> NestCommon(paths),
                          rest   |-> IF DOMAIN NestTerms(paths) = {} THEN <<>>
                                     ELSE <<createDisjunction(NestTerms(paths))>>]
<1>. DEFINE n == Len(paths)
            parts == [i \in DOMAIN paths |-> NestPart(paths, i)]
            terms == [i \in {j \in DOMAIN paths : parts[n + 1 - j] # <<>>} |-> parts[n + 1 - i]]
<1>1. n \in Nat /\ DOMAIN paths = 1 .. n
  OBVIOUS
<1>2. \A i \in DOMAIN paths : n + 1 - i \in DOMAIN paths
  BY <1>1
<1>3. \A i \in DOMAIN paths : parts[n + 1 - i] = NestPart(paths, n + 1 - i)
  BY <1>2
<1>4. terms = NestTerms(paths)
  <2>. HIDE DEF n, parts
  <2>1. {j \in DOMAIN paths : parts[n + 1 - j] # <<>>} = {j \in DOMAIN paths : NestPart(paths, n + 1 - j) # <<>>}
    BY <1>3, Zenon
  <2>. DEFINE D == {j \in DOMAIN paths : parts[n + 1 - j] # <<>>}
  <2>2. D \subseteq DOMAIN paths
    OBVIOUS
  <2>3. NestTerms(paths) = [i \in D |-> NestPart(paths, n + 1 - i)]
    BY <2>1 DEF NestTerms, n
  <2>. HIDE DEF D
  <2>4. [i \in D |-> parts[n + 1 - i]] = [i \in D |-> NestPart(paths, n + 1 - i)]
    BY <1>3, <2>2
  <2>. QED
    BY <2>3, <2>4 DEF D
<1>5. Nest(paths) = [common |-> NestCommon(paths),
                     rest   |-> IF DOMAIN terms = {} THEN <<>> ELSE <<createDisjunction(terms)>>]
  BY Zenon DEF Nest, NestCommon, NestPart, NestSuffix, NestPrefix
<1>. HIDE DEF terms
<1>. QED
  BY <1>4, <1>5, Zenon

\* The if statements execute their block when one of the paths holds.
LEMMA NestKeeps ==
    ASSUME AllDistinct, NEW paths, Parting(paths), NEW v \in Values
    PROVE  Guarded(Nest(paths), v) <=> \E i \in DOMAIN paths : HoldsAll(paths[i], v)
<1>. DEFINE C == Range(NestCommon(paths))
            Part(i) == NestPart(paths, i)
            n == Len(paths)
            terms == NestTerms(paths)
            D == DOMAIN terms
<1>1. /\ paths \in Seq(Seq(Literal)) /\ paths # <<>> /\ n \in Nat /\ DOMAIN paths = 1 .. n
      /\ \A i \in DOMAIN paths : IsPath(paths[i])
      /\ \A i, j \in DOMAIN paths : i # j => Diverge(Range(paths[i]), Range(paths[j]))
  BY DEF Parting
<1>2. n >= 1 /\ \A i \in DOMAIN paths : n + 1 - i \in DOMAIN paths /\ n + 1 - (n + 1 - i) = i
  <2>1. n # 0
    BY <1>1
  <2>. HIDE DEF n
  <2>. QED
    BY <1>1, <2>1
<1>3. \A i \in DOMAIN paths : IsPath(Part(i)) /\ C \subseteq Range(paths[i]) /\ Range(Part(i)) = Range(paths[i]) \ C
  BY <1>1, PathParts
<1>4. \A i \in DOMAIN paths : Part(i) = <<>> <=> Range(Part(i)) = {}
  <2>. TAKE i \in DOMAIN paths
  <2>. DEFINE t == Part(i)
  <2>1. Len(t) \in Nat /\ DOMAIN t = 1 .. Len(t) /\ t \in Seq(Literal)
    BY <1>3, PathLiterals DEF IsPath
  <2>. HIDE DEF t
  <2>2. CASE t = <<>>
    BY <2>2 DEF Range, t
  <2>3. CASE t # <<>>
    <3>1. 1 \in DOMAIN t
      BY <2>1, <2>3
    <3>2. t[1] \in Range(t)
      BY <3>1 DEF Range
    <3>. QED
      BY <2>3, <3>2 DEF t
  <2>. QED
    BY <2>2, <2>3
<1>5. /\ D = {j \in DOMAIN paths : Part(n + 1 - j) # <<>>}
      /\ \A j \in D : terms[j] = Part(n + 1 - j)
      /\ terms = [j \in D |-> Part(n + 1 - j)]
  BY DEF NestTerms
<1>6. \A i, j \in DOMAIN paths : i # j => Diverge(Range(Part(i)), Range(Part(j))) /\ Part(i) # <<>>
  <2>. TAKE i, j \in DOMAIN paths
  <2>. HAVE i # j
  <2>1. Consistent(Range(paths[i])) /\ Consistent(Range(paths[j]))
    BY <1>1, PathLiterals
  <2>2. Diverge(Range(paths[i]) \ C, Range(paths[j]) \ C) /\ Range(paths[i]) \ C # {}
    BY <1>1, <1>3, <2>1, DivergeWithout
  <2>. QED
    BY <1>3, <1>4, <2>2
<1>7. \A i \in DOMAIN paths : HoldsAll(paths[i], v) <=> HoldsAll(NestCommon(paths), v) /\ HoldsAll(Part(i), v)
  <2>. TAKE i \in DOMAIN paths
  <2>1. Range(paths[i]) = C \cup Range(Part(i))
    BY <1>3
  <2>2. HoldsAll(paths[i], v) <=> \A lit \in Range(paths[i]) : Holds(lit, v)
    BY HoldsAllRange
  <2>3. HoldsAll(Part(i), v) <=> \A lit \in Range(Part(i)) : Holds(lit, v)
    BY HoldsAllRange
  <2>4. HoldsAll(NestCommon(paths), v) <=> \A lit \in C : Holds(lit, v)
    BY HoldsAllRange
  <2>. HIDE DEF C, Part
  <2>. QED
    BY <2>1, <2>2, <2>3, <2>4
<1>8. Nest(paths) = [common |-> NestCommon(paths),
                     rest   |-> IF D = {} THEN <<>> ELSE <<createDisjunction(terms)>>]
  BY <1>1, NestIs
<1>. DEFINE nest == Nest(paths)
<1>9. nest.common = NestCommon(paths) /\ nest.rest = IF D = {} THEN <<>> ELSE <<createDisjunction(terms)>>
  BY <1>8
<1>. HIDE DEF nest, terms
<1>10. CASE \E i \in DOMAIN paths : Part(i) = <<>>
  <2>1. PICK i \in DOMAIN paths : Part(i) = <<>>
    BY <1>10
  <2>2. \A j \in DOMAIN paths : j = i
    BY <1>6, <2>1
  <2>3. D = {}
    BY <1>2, <1>5, <2>1, <2>2
  <2>4. HoldsAll(Part(i), v)
    BY <2>1 DEF HoldsAll
  <2>5. (\E j \in DOMAIN paths : HoldsAll(paths[j], v)) <=> HoldsAll(NestCommon(paths), v)
    BY <1>7, <2>2, <2>4
  <2>6. Guarded(nest, v) <=> HoldsAll(NestCommon(paths), v)
    BY <1>9, <2>3 DEF Guarded
  <2>. QED
    BY <2>5, <2>6 DEF nest
<1>11. CASE \A i \in DOMAIN paths : Part(i) # <<>>
  <2>1. D = DOMAIN paths
    BY <1>2, <1>5, <1>11
  <2>2. D # {} /\ D \in SUBSET Nat
    BY <1>1, <1>2, <2>1
  <2>3. IsFiniteSet(D)
    BY <1>1, <2>1, FS_Interval
  <2>4. \A k \in D : n + 1 - k \in DOMAIN paths /\ terms[k] = Part(n + 1 - k)
    BY <1>2, <1>5, <2>1
  <2>5. \A k \in D : IsPath(terms[k]) /\ terms[k] # <<>>
    BY <1>3, <1>11, <2>4
  <2>6. \A j, k \in D : j # k => Diverge(Range(terms[j]), Range(terms[k]))
    <3>. TAKE j, k \in D
    <3>. HAVE j # k
    <3>1. n + 1 - j # n + 1 - k
      BY <1>2, <2>1
    <3>. HIDE DEF n, D
    <3>. QED
      BY <1>6, <2>4, <3>1
  <2>7. terms \in [D -> Seq(Literal)]
    <3>1. \A k \in D : terms[k] \in Seq(Literal)
      BY <2>5 DEF IsPath
    <3>2. terms = [k \in D |-> terms[k]]
      BY <1>5
    <3>. QED
      BY <3>1, <3>2
  <2>8. GoodTerms(terms)
    BY <2>2, <2>3, <2>5, <2>6, <2>7, Zenon DEF GoodTerms
  <2>9. HoldsDisjunction(createDisjunction(terms), v) <=> HoldsSome(terms, v)
    BY <2>2, <2>8, DisjunctionKeeps
  <2>10. nest.rest # <<>> /\ nest.rest[1] = createDisjunction(terms)
    BY <1>9, <2>2
  <2>11. Guarded(nest, v) <=> HoldsAll(NestCommon(paths), v) /\ HoldsSome(terms, v)
    BY <1>9, <2>9, <2>10 DEF Guarded
  <2>12. HoldsSome(terms, v) <=> \E i \in DOMAIN paths : HoldsAll(Part(i), v)
    <3>. HIDE DEF n, Part
    <3>1. ASSUME NEW k \in D, HoldsAll(terms[k], v) PROVE \E i \in DOMAIN paths : HoldsAll(Part(i), v)
      BY <2>4, <3>1
    <3>2. ASSUME NEW i \in DOMAIN paths, HoldsAll(Part(i), v) PROVE \E k \in D : HoldsAll(terms[k], v)
      <4>1. n + 1 - i \in D /\ n + 1 - (n + 1 - i) = i
        BY <1>2, <2>1
      <4>2. terms[n + 1 - i] = Part(i)
        BY <2>4, <4>1
      <4>. QED
        BY <3>2, <4>1, <4>2
    <3>. QED
      BY <3>1, <3>2 DEF HoldsSome
  <2>13. Guarded(nest, v) <=> \E i \in DOMAIN paths : HoldsAll(paths[i], v)
    BY <1>7, <2>11, <2>12
  <2>. QED
    BY <2>13 DEF nest
<1>. QED
  BY <1>10, <1>11

-----------------------------------------------------------------------------
(***************************************************************************)
(* The folded blocks                                                       *)
(***************************************************************************)
\* The if statements that foldBasicBlocks creates for a block.
Nesting(collected) == IF collected = <<>> THEN [common |-> <<>>, rest |-> <<>>] ELSE Nest(collected)

\* foldBasicBlocks, "Create reaching condition": what the loop over the edges has
\* collected for a block is one path for every way in which the branches of the
\* region reach the block, with the conditions that they evaluate on that way.
PathsTraced == \A b \in DOMAIN reaching : Traced(succ, b, reaching[b])

\* The state between two blocks.
FoldInv ==
    /\ succ \in Regions /\ order \in Orders
    /\ reaching \in Seq(Seq(Seq(Literal))) /\ DOMAIN reaching \subseteq Block
    /\ PathsTraced
    /\ nesting = [b \in DOMAIN reaching |-> Nesting(reaching[b])]

\* No block is folded.
LEMMA FoldInvInit == Init => FoldInv
<1>. SUFFICES ASSUME Init PROVE FoldInv
  OBVIOUS
<1>1. reaching = <<>> /\ nesting = <<>> /\ succ \in Regions /\ order \in Orders
  BY DEF Init
<1>2. DOMAIN reaching = {} /\ reaching \in Seq(Seq(Seq(Literal)))
  BY <1>1
<1>3. nesting = [b \in DOMAIN reaching |-> Nesting(reaching[b])]
  BY <1>1
<1>. QED
  BY <1>1, <1>2, <1>3 DEF FoldInv, PathsTraced

\* The next block is folded after those before it.
LEMMA FoldInvFold ==
    ASSUME FoldInv, FoldBlock
    PROVE  FoldInv'
<1>. DEFINE b == Len(reaching) + 1
            d == Disjunction(b)
            n == Len(reaching)
<1>1. /\ succ \in Regions /\ order \in Orders /\ reaching \in Seq(Seq(Seq(Literal))) /\ DOMAIN reaching \subseteq Block
      /\ \A p \in DOMAIN reaching : Traced(succ, p, reaching[p])
      /\ nesting = [p \in DOMAIN reaching |-> Nesting(reaching[p])]
  BY DEF FoldInv, PathsTraced
<1>2. b \in Block /\ reaching' = Append(reaching, d) /\ nesting' = Append(nesting, Nesting(d))
      /\ succ' = succ /\ order' = order
  BY DEF FoldBlock, Nesting
<1>3. n \in Nat /\ DOMAIN reaching = 1 .. n /\ b = n + 1
  BY <1>1
<1>4. \A p \in Block : p < b => p \in DOMAIN reaching
  <2>1. Block \subseteq Nat /\ \A p \in Block : p >= 1
    BY RegionAssumption DEF Block
  <2>. HIDE DEF n, b
  <2>. QED
    BY <1>3, <2>1
<1>5. Traced(succ, b, d)
  <2>1. \A p \in Block : p < b => Traced(succ, p, reaching[p])
    BY <1>1, <1>4
  <2>. HIDE DEF b
  <2>. QED
    BY <1>1, <1>2, <2>1, DisjunctionTraced
<1>6. d \in Seq(Seq(Literal))
  BY <1>5 DEF Traced
<1>. HIDE DEF d
<1>7. /\ reaching' \in Seq(Seq(Seq(Literal))) /\ Len(reaching') = n + 1
      /\ \A p \in 1 .. n : reaching'[p] = reaching[p]
      /\ reaching'[n + 1] = d
  BY <1>1, <1>2, <1>6
<1>8. DOMAIN reaching' = 1 .. (n + 1)
  BY <1>7
<1>9. \A p \in 1 .. (n + 1) : p \in 1 .. n \/ p = n + 1
  BY <1>3
<1>10. DOMAIN reaching' \subseteq Block
  BY <1>1, <1>2, <1>3, <1>8, <1>9
<1>11. \A p \in DOMAIN reaching' : Traced(succ', p, reaching'[p])
  <2>. HIDE DEF n, b
  <2>. QED
    BY <1>1, <1>2, <1>3, <1>5, <1>7, <1>8, <1>9
<1>12. nesting' = [p \in DOMAIN reaching' |-> Nesting(reaching'[p])]
  <2>. DEFINE V == {Nesting(reaching[p]) : p \in 1 .. n}
  <2>1. nesting \in Seq(V) /\ Len(nesting) = n
    <3>. DEFINE f == [p \in 1 .. n |-> Nesting(reaching[p])]
    <3>1. f \in [1 .. n -> V]
      OBVIOUS
    <3>. HIDE DEF f, V, n
    <3>2. f \in Seq(V) /\ Len(f) = n
      BY <1>3, <3>1
    <3>. QED
      BY <1>1, <1>3, <3>2 DEF f
  <2>. DEFINE U == V \cup {Nesting(d)}
  <2>2. nesting \in Seq(U) /\ Nesting(d) \in U
    BY <2>1
  <2>. HIDE DEF U, V
  <2>3. /\ nesting' \in Seq(U) /\ Len(nesting') = n + 1
        /\ \A p \in 1 .. n : nesting'[p] = nesting[p]
        /\ nesting'[n + 1] = Nesting(d)
    BY <1>2, <2>1, <2>2
  <2>. HIDE DEF n
  <2>4. DOMAIN nesting' = 1 .. (n + 1) /\ nesting' = [p \in 1 .. (n + 1) |-> nesting'[p]]
    BY <2>3
  <2>5. \A p \in 1 .. n : nesting[p] = Nesting(reaching[p])
    BY <1>1, <1>3
  <2>6. \A p \in 1 .. (n + 1) : nesting'[p] = Nesting(reaching'[p])
    BY <1>7, <1>9, <2>3, <2>5
  <2>. QED
    BY <1>8, <2>4, <2>6
<1>. QED
  BY <1>1, <1>2, <1>7, <1>10, <1>11, <1>12 DEF FoldInv, PathsTraced

\* Every step.
LEMMA FoldInvNext ==
    ASSUME FoldInv, [Next]_vars
    PROVE  FoldInv'
<1>1. CASE FoldBlock
  BY <1>1, FoldInvFold
<1>2. CASE UNCHANGED vars
  BY <1>2 DEF FoldInv, PathsTraced, vars
<1>. QED
  BY <1>1, <1>2 DEF Next, Done

\* Paths that are the ways to a block part with opposite conditions.
LEMMA TracedPaths ==
    ASSUME NEW r \in Regions, NEW b \in Block, NEW d, Traced(r, b, d)
    PROVE  /\ Parting(Paths(d))
           /\ \A v \in Values : b \in Executed(r, v) <=> \E i \in DOMAIN Paths(d) : HoldsAll(Paths(d)[i], v)
<1>. DEFINE ps == Paths(d)
<1>1. /\ \A i \in DOMAIN ps : IsPath(ps[i])
      /\ \A i \in DOMAIN ps : \E v \in Values : b \in Executed(r, v) /\ Range(ps[i]) = Trace(r, v, b)
      /\ \A i, j \in DOMAIN ps : i # j => Range(ps[i]) # Range(ps[j])
      /\ \A v \in Values : b \in Executed(r, v) => \E i \in DOMAIN ps : Range(ps[i]) = Trace(r, v, b)
  BY DEF Traced, Enumerates
<1>2. ps \in Seq(Seq(Literal)) /\ ps # <<>>
  BY DEF Traced, Paths
<1>3. b \in Int
  BY RegionAssumption DEF Block
<1>. HIDE DEF ps
<1>4. ASSUME NEW i \in DOMAIN ps, NEW j \in DOMAIN ps, i # j PROVE Diverge(Range(ps[i]), Range(ps[j]))
  <2>1. PICK u \in Values : Range(ps[i]) = Trace(r, u, b)
    BY <1>1
  <2>2. PICK v \in Values : Range(ps[j]) = Trace(r, v, b)
    BY <1>1
  <2>3. Trace(r, u, b) # Trace(r, v, b)
    BY <1>1, <1>4, <2>1, <2>2
  <2>. QED
    BY <1>3, <2>1, <2>2, <2>3, TracesDiverge
<1>5. Parting(ps)
  BY <1>1, <1>2, <1>4 DEF Parting
<1>6. ASSUME NEW v \in Values PROVE b \in Executed(r, v) <=> \E i \in DOMAIN ps : HoldsAll(ps[i], v)
  <2>1. ASSUME b \in Executed(r, v) PROVE \E i \in DOMAIN ps : HoldsAll(ps[i], v)
    <3>1. PICK i \in DOMAIN ps : Range(ps[i]) = Trace(r, v, b)
      BY <1>1, <2>1
    <3>2. \A lit \in Trace(r, v, b) : Holds(lit, v)
      BY TraceOwn
    <3>3. HoldsAll(ps[i], v)
      BY <3>1, <3>2, HoldsAllRange
    <3>. QED
      BY <3>3
  <2>2. ASSUME NEW i \in DOMAIN ps, HoldsAll(ps[i], v) PROVE b \in Executed(r, v)
    <3>1. PICK u \in Values : b \in Executed(r, u) /\ Range(ps[i]) = Trace(r, u, b)
      BY <1>1
    <3>2. \A lit \in Trace(r, u, b) : Holds(lit, v)
      BY <2>2, <3>1, HoldsAllRange
    <3>. QED
      BY <3>1, <3>2, TraceHolds
  <2>. QED
    BY <2>1, <2>2
<1>. QED
  BY <1>5, <1>6 DEF ps

\* The if statements of a folded block are right.
LEMMA FoldedGuards ==
    ASSUME AllDistinct, FoldInv
    PROVE  GuardsExact
<1>. SUFFICES ASSUME NEW b \in DOMAIN nesting, NEW v \in Values
              PROVE  Guarded(nesting[b], v) <=> b \in Executed(succ, v)
  BY DEF GuardsExact, Values
<1>. DEFINE d == reaching[b]
<1>1. /\ succ \in Regions /\ b \in DOMAIN reaching /\ b \in Block
      /\ Traced(succ, b, d) /\ nesting[b] = Nesting(d)
  BY DEF FoldInv, PathsTraced
<1>. HIDE DEF d
<1>2. /\ Parting(Paths(d))
      /\ b \in Executed(succ, v) <=> \E i \in DOMAIN Paths(d) : HoldsAll(Paths(d)[i], v)
  BY <1>1, TracedPaths
<1>3. CASE d = <<>>
  <2>. DEFINE none == [common |-> <<>>, rest |-> <<>>]
  <2>1. nesting[b] = none /\ Paths(d) = << <<>> >>
    BY <1>1, <1>3 DEF Nesting, Paths
  <2>2. none.common = <<>> /\ none.rest = <<>> /\ HoldsAll(<<>>, v)
    BY DEF HoldsAll
  <2>. HIDE DEF none
  <2>3. Guarded(none, v)
    BY <2>2 DEF Guarded
  <2>4. 1 \in DOMAIN << <<>> >> /\ << <<>> >>[1] = <<>>
    OBVIOUS
  <2>. QED
    BY <1>2, <2>1, <2>2, <2>3, <2>4
<1>4. CASE d # <<>>
  <2>1. nesting[b] = Nest(d) /\ Paths(d) = d
    BY <1>1, <1>4 DEF Nesting, Paths
  <2>2. Guarded(Nest(d), v) <=> \E i \in DOMAIN d : HoldsAll(d[i], v)
    BY <1>2, <2>1, NestKeeps
  <2>. QED
    BY <1>2, <2>1, <2>2
<1>. QED
  BY <1>3, <1>4

\* foldBasicBlocks, "Create reaching condition": for every region and every order
\* of the predecessors, and whatever Expression::operator== says of the conditions,
\* the paths collected for a block are exactly the ways in which the branches
\* reach it, each one once.
THEOREM CollectedPathsAreTheWays == Spec => []PathsTraced
<1>1. Init => FoldInv
  BY FoldInvInit
<1>2. FoldInv /\ [Next]_vars => FoldInv'
  BY FoldInvNext
<1>3. FoldInv => PathsTraced
  BY DEF FoldInv
<1>. QED
  BY <1>1, <1>2, <1>3, PTL DEF Spec

\* foldBasicBlocks with createDisjunction: where no two conditions look alike to
\* Expression::operator==, the if statements around a block let it execute exactly
\* when the branches of the region reach it, whatever has been factored out,
\* erased as an opposite or nested by a further call.
THEOREM GuardsAreExact ==
    ASSUME AllDistinct
    PROVE  Spec => []GuardsExact
<1>1. Init => FoldInv
  BY FoldInvInit
<1>2. FoldInv /\ [Next]_vars => FoldInv'
  BY FoldInvNext
<1>3. FoldInv => GuardsExact
  BY FoldedGuards
<1>. QED
  BY <1>1, <1>2, <1>3, PTL DEF Spec

=============================================================================
