------------------------ MODULE StatementListProofs -------------------------
(***************************************************************************)
(* Proofs about StatementList, for any number of statements and lists: the *)
(* links always represent a sequence for each list, and each operation     *)
(* does to these sequences what StatementSeq says.                         *)
(***************************************************************************)
EXTENDS StatementList, SequenceTheorems, FiniteSetTheorems, NaturalsLemmas, TLAPS

(***************************************************************************)
(* The invariant                                                           *)
(***************************************************************************)
\* The links and the statements of a list are those of a sequence.
Linked(h, l, s) ==
    /\ s \in Seq(Statement)
    /\ h.first[l] = IF Len(s) = 0 THEN None ELSE s[1]
    /\ h.last[l] = IF Len(s) = 0 THEN None ELSE s[Len(s)]
    /\ \A i \in 1 .. Len(s) : /\ h.list[s[i]] = l
                              /\ h.previous[s[i]] = IF i = 1 THEN None ELSE s[i - 1]
                              /\ h.next[s[i]] = IF i = Len(s) THEN None ELSE s[i + 1]
    /\ \A i, j \in 1 .. Len(s) : s[i] = s[j] => i = j
    /\ \A x \in Statement : h.list[x] = l => \E i \in 1 .. Len(s) : s[i] = x

\* The heap holds these sequences, and a statement that is in no list has no neighbours.
Represents(h, q) ==
    /\ h \in Heap
    /\ q \in [List -> Seq(Statement)]
    /\ \A l \in List : Linked(h, l, q[l])
    /\ \A x \in Statement : h.list[x] = None => h.previous[x] = None /\ h.next[x] = None

\* No statement is inside itself.
Acyclic(h) == \A x \in Statement : h.list[x] # None => x \notin Parents(h, h.list[x])

\* The inductive invariant.
ListInv == Represents(heap, Contents) /\ Acyclic(heap)

-----------------------------------------------------------------------------
(***************************************************************************)
(* Sequences                                                               *)
(***************************************************************************)
\* Some elements put into a sequence.
LEMMA PutIn ==
    ASSUME NEW S, NEW s \in Seq(S), NEW i \in 0 .. Len(s), NEW b \in Seq(S)
    PROVE  LET t == SubSeq(s, 1, i) \o b \o SubSeq(s, i + 1, Len(s)) IN
             /\ t \in Seq(S) /\ Len(t) = Len(s) + Len(b)
             /\ \A j \in 1 .. Len(t) : t[j] = IF j <= i THEN s[j]
                                              ELSE IF j <= i + Len(b) THEN b[j - i] ELSE s[j - Len(b)]
<1>. DEFINE a == SubSeq(s, 1, i)
            c == SubSeq(s, i + 1, Len(s))
<1>1. a \in Seq(S) /\ Len(a) = i /\ \A j \in 1 .. i : a[j] = s[j]
  OBVIOUS
<1>2. c \in Seq(S) /\ Len(c) = Len(s) - i /\ \A j \in 1 .. (Len(s) - i) : c[j] = s[j + i]
  OBVIOUS
<1>. HIDE DEF a, c
<1>3. /\ a \o b \in Seq(S) /\ Len(a \o b) = i + Len(b)
      /\ \A j \in 1 .. (i + Len(b)) : (a \o b)[j] = IF j <= i THEN s[j] ELSE b[j - i]
  BY <1>1, ConcatProperties
<1>. DEFINE d == a \o b
<1>. HIDE DEF d
<1>4. d \in Seq(S) /\ Len(d) = i + Len(b) /\ \A j \in 1 .. (i + Len(b)) : d[j] = IF j <= i THEN s[j] ELSE b[j - i]
  BY <1>3 DEF d
<1>. DEFINE t == d \o c
<1>5. /\ t \in Seq(S) /\ Len(t) = Len(d) + Len(c)
      /\ \A j \in 1 .. (Len(d) + Len(c)) : t[j] = IF j <= Len(d) THEN d[j] ELSE c[j - Len(d)]
  BY <1>2, <1>4, ConcatProperties
<1>. HIDE DEF t
<1>6. Len(t) = Len(s) + Len(b)
  BY <1>2, <1>4, <1>5
<1>7. ASSUME NEW j \in 1 .. Len(t)
      PROVE  t[j] = IF j <= i THEN s[j] ELSE IF j <= i + Len(b) THEN b[j - i] ELSE s[j - Len(b)]
  <2>1. CASE j <= Len(d)
    BY <1>4, <1>5, <1>6, <2>1
  <2>2. CASE ~(j <= Len(d))
    <3>1. j - Len(d) \in 1 .. (Len(s) - i) /\ (j - Len(d)) + i = j - Len(b) /\ ~(j <= i) /\ ~(j <= i + Len(b))
      BY <1>4, <1>6, <2>2
    <3>. QED
      BY <1>2, <1>4, <1>5, <1>6, <2>2, <3>1
  <2>. QED
    BY <2>1, <2>2
<1>8. t = SubSeq(s, 1, i) \o b \o SubSeq(s, i + 1, Len(s))
  BY DEF t, d, a, c
<1>. QED
  BY <1>5, <1>6, <1>7, <1>8

\* What u is when it is s with e put in as number i, or without number i.
PutAt(S, s, i, e, u) ==
    /\ u \in Seq(S) /\ Len(u) = Len(s) + 1
    /\ \A j \in 1 .. (Len(s) + 1) : u[j] = IF j < i THEN s[j] ELSE IF j = i THEN e ELSE s[j - 1]
TakenAt(S, s, i, u) ==
    /\ u \in Seq(S) /\ Len(u) = Len(s) - 1
    /\ \A j \in 1 .. (Len(s) - 1) : u[j] = IF j < i THEN s[j] ELSE s[j + 1]

\* An element put into a sequence.
LEMMA InsertOne ==
    ASSUME NEW S, NEW s \in Seq(S), NEW i \in 1 .. (Len(s) + 1), NEW e \in S
    PROVE  PutAt(S, s, i, e, Sequences_!InsertAt(s, i, e))
<1>. DEFINE b == <<e>>
            u == Sequences_!InsertAt(s, i, e)
            m == i - 1
            t == SubSeq(s, 1, m) \o b \o SubSeq(s, m + 1, Len(s))
<1>1. b \in Seq(S) /\ Len(b) = 1 /\ b[1] = e
  OBVIOUS
<1>2. m \in 0 .. Len(s) /\ m + 1 = i
  OBVIOUS
<1>3. t = u
  BY <1>2 DEF Sequences_!InsertAt
<1>. HIDE DEF b, m, u
<1>4. /\ t \in Seq(S) /\ Len(t) = Len(s) + Len(b)
      /\ \A j \in 1 .. Len(t) : t[j] = IF j <= m THEN s[j]
                                       ELSE IF j <= m + Len(b) THEN b[j - m] ELSE s[j - Len(b)]
  BY <1>1, <1>2, PutIn
<1>. HIDE DEF t
<1>5. /\ u \in Seq(S) /\ Len(u) = Len(s) + 1
      /\ \A j \in 1 .. (Len(s) + 1) : u[j] = IF j < i THEN s[j] ELSE IF j = i THEN e ELSE s[j - 1]
  BY <1>1, <1>2, <1>3, <1>4
<1>. QED
  BY <1>5 DEF PutAt, u

\* An element taken out of a sequence.
LEMMA RemoveOne ==
    ASSUME NEW S, NEW s \in Seq(S), NEW i \in 1 .. Len(s)
    PROVE  TakenAt(S, s, i, Sequences_!RemoveAt(s, i))
<1>. DEFINE u == Sequences_!RemoveAt(s, i)
            a == SubSeq(s, 1, i - 1)
            c == SubSeq(s, i + 1, Len(s))
            t == a \o c
<1>1. a \in Seq(S) /\ Len(a) = i - 1 /\ \A j \in 1 .. (i - 1) : a[j] = s[j]
  OBVIOUS
<1>2. c \in Seq(S) /\ Len(c) = Len(s) - i /\ \A j \in 1 .. (Len(s) - i) : c[j] = s[j + i]
  OBVIOUS
<1>3. t = u
  BY DEF Sequences_!RemoveAt
<1>. HIDE DEF a, c, u
<1>4. /\ t \in Seq(S) /\ Len(t) = Len(a) + Len(c)
      /\ \A j \in 1 .. (Len(a) + Len(c)) : t[j] = IF j <= Len(a) THEN a[j] ELSE c[j - Len(a)]
  BY <1>1, <1>2, ConcatProperties
<1>. HIDE DEF t
<1>. DEFINE m == Len(s)
<1>5. m \in Nat /\ i \in 1 .. m /\ Len(a) = i - 1 /\ Len(c) = m - i /\ Len(a) + Len(c) = m - 1
  BY <1>1, <1>2
<1>6. t \in Seq(S) /\ Len(t) = m - 1 /\ \A j \in 1 .. (m - 1) : t[j] = IF j <= i - 1 THEN a[j] ELSE c[j - (i - 1)]
  BY <1>4, <1>5
<1>. HIDE DEF m
<1>7. ASSUME NEW j \in 1 .. (m - 1) PROVE t[j] = IF j < i THEN s[j] ELSE s[j + 1]
  <2>1. CASE j < i
    BY <1>1, <1>5, <1>6, <2>1
  <2>2. CASE ~(j < i)
    <3>1. j - (i - 1) \in 1 .. (m - i) /\ (j - (i - 1)) + i = j + 1 /\ ~(j <= i - 1)
      BY <1>5, <2>2
    <3>2. c[j - (i - 1)] = s[j + 1]
      BY <1>2, <3>1 DEF m
    <3>. QED
      BY <1>6, <2>2, <3>1, <3>2
  <2>. QED
    BY <2>1, <2>2
<1>. QED
  BY <1>3, <1>6, <1>7 DEF TakenAt, m, u

-----------------------------------------------------------------------------
(***************************************************************************)
(* One statement                                                           *)
(***************************************************************************)
\* What a list is in the heap, and that the lists share no statement.
LEMMA Elements ==
    ASSUME NEW h, NEW q, Represents(h, q), NEW l \in List
    PROVE  /\ q[l] \in Seq(Statement) /\ Len(q[l]) \in Nat
           /\ \A i \in 1 .. Len(q[l]) : q[l][i] \in Statement /\ h.list[q[l][i]] = l
<1>. QED
  BY DEF Represents, Linked

\* A list stays as it is if its links do.
LEMMA SameLinked ==
    ASSUME NEW h, NEW k, NEW s, Linked(h, k, s), NEW g,
           \A j \in 1 .. Len(s) : LET x == s[j] IN /\ g.list[x] = h.list[x] /\ g.next[x] = h.next[x]
                                                   /\ g.previous[x] = h.previous[x],
           \A x \in Statement : g.list[x] = k => h.list[x] = k,
           g.first[k] = h.first[k], g.last[k] = h.last[k]
    PROVE  Linked(g, k, s)
<1>. DEFINE n == Len(s)
            a == g.first
            b == g.last
            c == g.list
            d == g.next
            e == g.previous
<1>1. /\ s \in Seq(Statement) /\ a[k] = (IF n = 0 THEN None ELSE s[1]) /\ b[k] = IF n = 0 THEN None ELSE s[n]
      /\ \A i, j \in 1 .. n : s[i] = s[j] => i = j
  BY DEF Linked
<1>2. \A i \in 1 .. n : /\ c[s[i]] = k /\ e[s[i]] = (IF i = 1 THEN None ELSE s[i - 1])
                        /\ d[s[i]] = IF i = n THEN None ELSE s[i + 1]
  BY DEF Linked
<1>3. \A x \in Statement : c[x] = k => \E i \in 1 .. n : s[i] = x
  BY DEF Linked
<1>. QED
  BY <1>1, <1>2, <1>3 DEF Linked

\* The heap g is h with statement s linked into list l, so that it becomes the i-th.
LinkedIn(h, q, l, i, s, g) ==
    /\ g \in Heap
    /\ \A x \in Statement :
         /\ g.list[x] = IF x = s THEN l ELSE h.list[x]
         /\ g.next[x] = IF x = s THEN IF i = Len(q[l]) + 1 THEN None ELSE q[l][i]
                        ELSE IF i > 1 /\ x = q[l][i - 1] THEN s ELSE h.next[x]
         /\ g.previous[x] = IF x = s THEN IF i = 1 THEN None ELSE q[l][i - 1]
                            ELSE IF i <= Len(q[l]) /\ x = q[l][i] THEN s ELSE h.previous[x]
    /\ \A k \in List :
         /\ g.first[k] = IF k = l /\ i = 1 THEN s ELSE h.first[k]
         /\ g.last[k] = IF k = l /\ i = Len(q[l]) + 1 THEN s ELSE h.last[k]

\* Linking a statement in is inserting it into the sequence.
LEMMA LinkedInRepresents ==
    ASSUME NEW h, NEW q, Represents(h, q), NEW l \in List, NEW s \in Statement, h.list[s] = None,
           NEW i \in 1 .. (Len(q[l]) + 1), NEW g, LinkedIn(h, q, l, i, s, g)
    PROVE  Represents(g, [q EXCEPT ![l] = Sequences_!InsertAt(q[l], i, s)])
<1>. DEFINE p == q[l]
            n == Len(p)
            t == Sequences_!InsertAt(p, i, s)
            r == [q EXCEPT ![l] = t]
<1>a. p \in Seq(Statement) /\ i \in 1 .. (Len(p) + 1)
  BY Elements
<1>b. PutAt(Statement, p, i, s, t)
  <2>. HIDE DEF p
  <2>. QED
    BY <1>a, InsertOne, Zenon
<1>0. p \in Seq(Statement) /\ t \in Seq(Statement) /\ Len(t) = n + 1
  BY <1>a, <1>b DEF PutAt
<1>1. /\ n \in Nat /\ i \in 1 .. (n + 1)
      /\ \A j \in 1 .. n : p[j] \in Statement /\ h.list[p[j]] = l /\ p[j] # s
  BY Elements, TreeAssumption
<1>2. \A j \in 1 .. (n + 1) : t[j] = IF j < i THEN p[j] ELSE IF j = i THEN s ELSE p[j - 1]
  <2>. HIDE DEF p, t
  <2>. QED
    BY <1>b DEF PutAt
<1>3. Linked(h, l, p)
  BY DEF Represents
<1>4. r \in [List -> Seq(Statement)] /\ r[l] = t /\ \A k \in List \ {l} : r[k] = q[k]
  BY <1>0 DEF Represents
<1>. HIDE DEF t, r, p, n
<1>5. /\ g \in Heap
      /\ \A x \in Statement :
           /\ g.list[x] = IF x = s THEN l ELSE h.list[x]
           /\ g.next[x] = IF x = s THEN IF i = n + 1 THEN None ELSE p[i]
                          ELSE IF i > 1 /\ x = p[i - 1] THEN s ELSE h.next[x]
           /\ g.previous[x] = IF x = s THEN IF i = 1 THEN None ELSE p[i - 1]
                              ELSE IF i <= n /\ x = p[i] THEN s ELSE h.previous[x]
      /\ \A k \in List : /\ g.first[k] = IF k = l /\ i = 1 THEN s ELSE h.first[k]
                         /\ g.last[k] = IF k = l /\ i = n + 1 THEN s ELSE h.last[k]
  BY DEF LinkedIn, p, n
<1>6. /\ h.first[l] = IF n = 0 THEN None ELSE p[1]
      /\ h.last[l] = IF n = 0 THEN None ELSE p[n]
      /\ \A j \in 1 .. n : /\ h.previous[p[j]] = IF j = 1 THEN None ELSE p[j - 1]
                           /\ h.next[p[j]] = IF j = n THEN None ELSE p[j + 1]
      /\ \A j, m \in 1 .. n : p[j] = p[m] => j = m
      /\ \A x \in Statement : h.list[x] = l => \E j \in 1 .. n : p[j] = x
  BY <1>3 DEF Linked, n
<1>7. Linked(g, l, t)
  <2>1. g.first[l] = t[1] /\ g.last[l] = t[n + 1]
    BY <1>1, <1>2, <1>5, <1>6
  <2>2. ASSUME NEW j \in 1 .. (n + 1)
        PROVE  /\ g.list[t[j]] = l
               /\ g.previous[t[j]] = IF j = 1 THEN None ELSE t[j - 1]
               /\ g.next[t[j]] = IF j = n + 1 THEN None ELSE t[j + 1]
    <3>1. CASE j < i
      <4>1. t[j] = p[j] /\ j \in 1 .. n /\ t[j] # s /\ t[j] \in Statement
        BY <1>1, <1>2, <3>1
      <4>2. j # 1 => t[j - 1] = p[j - 1]
        BY <1>1, <1>2, <3>1
      <4>3. g.previous[t[j]] = h.previous[p[j]]
        <5>1. i <= n => p[i] # p[j]
          BY <1>1, <1>6, <3>1
        <5>. QED
          BY <1>5, <4>1, <5>1
      <4>4. g.next[t[j]] = IF j = i - 1 THEN s ELSE h.next[p[j]]
        <5>1. j # i - 1 => p[i - 1] # p[j]
          BY <1>1, <1>6, <3>1
        <5>2. i > 1
          BY <1>1, <3>1
        <5>. QED
          BY <1>5, <4>1, <5>1, <5>2
      <4>5. t[j + 1] = IF j = i - 1 THEN s ELSE p[j + 1]
        BY <1>1, <1>2, <3>1
      <4>6. j = n => j = i - 1
        BY <1>1, <3>1
      <4>. QED
        BY <1>1, <1>5, <1>6, <4>1, <4>2, <4>3, <4>4, <4>5, <4>6, SMTT(30)
    <3>2. CASE j = i
      <4>1. t[j] = s /\ (j # 1 => t[j - 1] = p[j - 1]) /\ (j # n + 1 => t[j + 1] = p[j])
        BY <1>1, <1>2, <3>2
      <4>. QED
        BY <1>5, <3>2, <4>1
    <3>3. CASE j > i
      <4>1. t[j] = p[j - 1] /\ j - 1 \in 1 .. n /\ t[j] # s /\ t[j] \in Statement /\ j # 1
        BY <1>1, <1>2, <3>3
      <4>2. j # n + 1 => t[j + 1] = p[j]
        BY <1>1, <1>2, <3>3
      <4>3. t[j - 1] = IF j - 1 = i THEN s ELSE p[j - 2]
        BY <1>1, <1>2, <3>3
      <4>4. g.next[t[j]] = h.next[p[j - 1]]
        <5>1. i > 1 => p[i - 1] # p[j - 1]
          BY <1>1, <1>6, <3>3, SMTT(30)
        <5>. QED
          BY <1>5, <4>1, <5>1
      <4>5. g.previous[t[j]] = IF j - 1 = i THEN s ELSE h.previous[p[j - 1]]
        <5>1. j - 1 # i => p[i] # p[j - 1]
          BY <1>1, <1>6, <3>3
        <5>2. i <= n
          BY <1>1, <3>3
        <5>. QED
          BY <1>5, <4>1, <5>1, <5>2
      <4>6. h.next[p[j - 1]] = IF j - 1 = n THEN None ELSE p[j]
        BY <1>1, <1>6, <4>1
      <4>7. j - 1 # i => h.previous[p[j - 1]] = p[j - 2]
        BY <1>1, <1>6, <3>3, <4>1
      <4>8. g.list[t[j]] = l
        BY <1>1, <1>5, <4>1
      <4>9. j - 1 = n <=> j = n + 1
        BY <1>1
      <4>. QED
        BY <4>1, <4>2, <4>3, <4>4, <4>5, <4>6, <4>7, <4>8, <4>9
    <3>. QED
      BY <1>1, <3>1, <3>2, <3>3
  <2>5. ASSUME NEW j \in 1 .. (n + 1), NEW m \in 1 .. (n + 1), t[j] = t[m] PROVE j = m
    <3>. DEFINE At(a) == IF a < i THEN a ELSE a - 1
    <3>1. \A a \in 1 .. (n + 1) : a # i => At(a) \in 1 .. n /\ t[a] = p[At(a)]
      BY <1>1, <1>2
    <3>2. t[i] = s
      BY <1>1, <1>2
    <3>3. CASE j = i \/ m = i
      BY <1>1, <2>5, <3>1, <3>2, <3>3
    <3>4. CASE j # i /\ m # i
      <4>1. At(j) = At(m)
        BY <1>6, <2>5, <3>1, <3>4
      <4>. QED
        BY <1>1, <3>4, <4>1
    <3>. QED
      BY <3>3, <3>4
  <2>6. ASSUME NEW x \in Statement, g.list[x] = l PROVE \E j \in 1 .. (n + 1) : t[j] = x
    <3>1. CASE x = s
      BY <1>1, <1>2, <3>1
    <3>2. CASE x # s
      <4>1. PICK j \in 1 .. n : p[j] = x
        BY <1>5, <1>6, <2>6, <3>2
      <4>2. CASE j < i
        BY <1>1, <1>2, <4>1, <4>2
      <4>3. CASE ~(j < i)
        <5>1. j + 1 \in 1 .. (n + 1) /\ t[j + 1] = p[j]
          BY <1>1, <1>2, <4>3
        <5>. QED
          BY <4>1, <5>1
      <4>. QED
        BY <4>2, <4>3
    <3>. QED
      BY <3>1, <3>2
  <2>. QED
    BY <1>0, <1>1, <2>1, <2>2, <2>5, <2>6 DEF Linked
<1>8. ASSUME NEW k \in List \ {l} PROVE Linked(g, k, q[k])
  <2>1. Linked(h, k, q[k])
    BY DEF Represents
  <2>2. \A j \in 1 .. Len(q[k]) : q[k][j] \in Statement /\ h.list[q[k][j]] = k
    BY Elements
  <2>3. ASSUME NEW j \in 1 .. Len(q[k])
        PROVE  LET x == q[k][j] IN g.list[x] = h.list[x] /\ g.next[x] = h.next[x] /\ g.previous[x] = h.previous[x]
    <3>. DEFINE x == q[k][j]
    <3>1. x \in Statement /\ x # s /\ \A m \in 1 .. n : x # p[m]
      BY <1>1, <2>2, TreeAssumption
    <3>. HIDE DEF x
    <3>2. (i > 1 => i - 1 \in 1 .. n) /\ (i <= n => i \in 1 .. n)
      BY <1>1
    <3>3. g.list[x] = h.list[x] /\ g.next[x] = h.next[x] /\ g.previous[x] = h.previous[x]
      BY <1>5, <3>1, <3>2
    <3>. QED
      BY <3>3 DEF x
  <2>4. \A x \in Statement : g.list[x] = k => h.list[x] = k
    BY <1>5
  <2>5. g.first[k] = h.first[k] /\ g.last[k] = h.last[k]
    BY <1>5
  <2>. QED
    BY <2>1, <2>3, <2>4, <2>5, SameLinked
<1>9. \A x \in Statement : g.list[x] = None => g.previous[x] = None /\ g.next[x] = None
  <2>. SUFFICES ASSUME NEW x \in Statement, g.list[x] = None PROVE g.previous[x] = None /\ g.next[x] = None
    OBVIOUS
  <2>1. x # s /\ h.list[x] = None
    BY <1>5, TreeAssumption
  <2>2. h.previous[x] = None /\ h.next[x] = None
    BY <2>1 DEF Represents
  <2>3. \A m \in 1 .. n : x # p[m]
    BY <1>1, <2>1, TreeAssumption
  <2>4. (i > 1 => i - 1 \in 1 .. n) /\ (i <= n => i \in 1 .. n)
    BY <1>1
  <2>. QED
    BY <1>5, <2>1, <2>2, <2>3, <2>4
<1>10. Represents(g, r)
  BY <1>4, <1>5, <1>7, <1>8, <1>9 DEF Represents
<1>. QED
  BY <1>10 DEF r, t, p

\* The types of the links.
LEMMA HeapType ==
    ASSUME NEW h \in Heap
    PROVE  /\ h.list \in [Statement -> List \cup {None}]
           /\ h.previous \in [Statement -> Statement \cup {None}]
           /\ h.next \in [Statement -> Statement \cup {None}]
           /\ h.first \in [List -> Statement \cup {None}]
           /\ h.last \in [List -> Statement \cup {None}]
           /\ h = [list |-> h.list, previous |-> h.previous, next |-> h.next, first |-> h.first, last |-> h.last]
<1>. QED
  BY DEF Heap

\* The ends of a list, and the statement that is about to join it.
LEMMA Ends ==
    ASSUME NEW h, NEW q, Represents(h, q), NEW l \in List
    PROVE  /\ h \in Heap
           /\ h.first[l] = IF Len(q[l]) = 0 THEN None ELSE q[l][1]
           /\ h.last[l] = IF Len(q[l]) = 0 THEN None ELSE q[l][Len(q[l])]
           /\ \A i \in 1 .. Len(q[l]) : /\ q[l][i] # None
                                        /\ h.previous[q[l][i]] = IF i = 1 THEN None ELSE q[l][i - 1]
                                        /\ h.next[q[l][i]] = IF i = Len(q[l]) THEN None ELSE q[l][i + 1]
           /\ \A i, j \in 1 .. Len(q[l]) : q[l][i] = q[l][j] => i = j
           /\ \A x \in Statement : h.list[x] = l => \E i \in 1 .. Len(q[l]) : q[l][i] = x
           /\ \A x \in Statement : h.list[x] = None => h.previous[x] = None /\ h.next[x] = None
<1>1. Linked(h, l, q[l]) /\ h \in Heap
  BY DEF Represents
<1>2. \A i \in 1 .. Len(q[l]) : q[l][i] # None
  BY Elements, TreeAssumption
<1>3. \A x \in Statement : h.list[x] = None => h.previous[x] = None /\ h.next[x] = None
  BY DEF Represents
<1>. QED
  BY <1>1, <1>2, <1>3 DEF Linked

\* push_front links a statement in as the first.
LEMMA PushFrontLinks ==
    ASSUME NEW h, NEW q, Represents(h, q), NEW l \in List, NEW s \in Statement, h.list[s] = None
    PROVE  LinkedIn(h, q, l, 1, s, push_front(h, l, s))
<1>. DEFINE n == Len(q[l])
            old == h.first[l]
            g == push_front(h, l, s)
<1>1. h \in Heap /\ old = (IF n = 0 THEN None ELSE q[l][1]) /\ h.previous[s] = None /\ h.next[s] = None
  BY Ends
<1>2. n \in Nat /\ (n # 0 => old \in Statement /\ old # None)
  BY <1>1, Elements, Ends
<1>3. h.last[l] = IF n = 0 THEN None ELSE q[l][n]
  BY Ends
<1>4. CASE n = 0
  <2>1. g = [h EXCEPT !.list[s] = l, !.last[l] = s, !.first[l] = s]
    BY <1>1, <1>4 DEF push_front
  <2>. HIDE DEF n, g
  <2>2. /\ g \in Heap
        /\ \A x \in Statement : /\ g.list[x] = (IF x = s THEN l ELSE h.list[x])
                                /\ g.next[x] = h.next[x] /\ g.previous[x] = h.previous[x]
        /\ \A k \in List : /\ g.first[k] = (IF k = l THEN s ELSE h.first[k])
                           /\ g.last[k] = (IF k = l THEN s ELSE h.last[k])
    BY <1>1, <2>1, HeapType DEF Heap
  <2>. QED
    BY <1>1, <1>4, <2>2 DEF LinkedIn, n, g
<1>5. CASE n # 0
  <2>1. g = [h EXCEPT !.list[s] = l, !.previous[old] = s, !.next[s] = old, !.first[l] = s]
    BY <1>2, <1>5 DEF push_front
  <2>. HIDE DEF n, g, old
  <2>2. /\ g \in Heap
        /\ \A x \in Statement : /\ g.list[x] = (IF x = s THEN l ELSE h.list[x])
                                /\ g.next[x] = (IF x = s THEN old ELSE h.next[x])
                                /\ g.previous[x] = (IF x = old THEN s ELSE h.previous[x])
        /\ \A k \in List : /\ g.first[k] = (IF k = l THEN s ELSE h.first[k])
                           /\ g.last[k] = h.last[k]
    BY <1>1, <1>2, <1>5, <2>1, HeapType DEF Heap
  <2>3. s # old
    BY <1>1, <1>2, <1>5, Elements, TreeAssumption DEF n
  <2>. QED
    BY <1>1, <1>2, <1>5, <2>2, <2>3 DEF LinkedIn, n, g
<1>. QED
  BY <1>4, <1>5

\* push_back links a statement in as the last.
LEMMA PushBackLinks ==
    ASSUME NEW h, NEW q, Represents(h, q), NEW l \in List, NEW s \in Statement, h.list[s] = None
    PROVE  LinkedIn(h, q, l, Len(q[l]) + 1, s, push_back(h, l, s))
<1>. DEFINE n == Len(q[l])
            old == h.last[l]
            g == push_back(h, l, s)
<1>1. h \in Heap /\ old = (IF n = 0 THEN None ELSE q[l][n]) /\ h.previous[s] = None /\ h.next[s] = None
  BY Ends
<1>2. n \in Nat /\ (n # 0 => old \in Statement /\ old # None)
  BY <1>1, Elements, Ends
<1>3. h.first[l] = IF n = 0 THEN None ELSE q[l][1]
  BY Ends
<1>4. CASE n = 0
  <2>1. g = [h EXCEPT !.list[s] = l, !.first[l] = s, !.last[l] = s]
    BY <1>1, <1>4 DEF push_back
  <2>. HIDE DEF n, g
  <2>2. /\ g \in Heap
        /\ \A x \in Statement : /\ g.list[x] = (IF x = s THEN l ELSE h.list[x])
                                /\ g.next[x] = h.next[x] /\ g.previous[x] = h.previous[x]
        /\ \A k \in List : /\ g.first[k] = (IF k = l THEN s ELSE h.first[k])
                           /\ g.last[k] = (IF k = l THEN s ELSE h.last[k])
    BY <1>1, <2>1, HeapType DEF Heap
  <2>. QED
    BY <1>1, <1>4, <2>2 DEF LinkedIn, n, g
<1>5. CASE n # 0
  <2>1. g = [h EXCEPT !.list[s] = l, !.next[old] = s, !.previous[s] = old, !.last[l] = s]
    BY <1>2, <1>5 DEF push_back
  <2>. HIDE DEF n, g, old
  <2>2. /\ g \in Heap
        /\ \A x \in Statement : /\ g.list[x] = (IF x = s THEN l ELSE h.list[x])
                                /\ g.previous[x] = (IF x = s THEN old ELSE h.previous[x])
                                /\ g.next[x] = (IF x = old THEN s ELSE h.next[x])
        /\ \A k \in List : /\ g.last[k] = (IF k = l THEN s ELSE h.last[k])
                           /\ g.first[k] = h.first[k]
    BY <1>1, <1>2, <1>5, <2>1, HeapType DEF Heap
  <2>3. s # old
    BY <1>1, <1>2, <1>5, Elements, TreeAssumption DEF n
  <2>4. n + 1 # 1 /\ n + 1 > 1 /\ ~(n + 1 <= n) /\ (n + 1) - 1 = n
    BY <1>2, <1>5
  <2>. QED
    BY <1>1, <1>5, <2>2, <2>3, <2>4 DEF LinkedIn, n, g
<1>. QED
  BY <1>4, <1>5

\* insert links a statement in before another one.
LEMMA InsertLinks ==
    ASSUME NEW h, NEW q, Represents(h, q), NEW l \in List, NEW s \in Statement, h.list[s] = None,
           NEW i \in 1 .. Len(q[l])
    PROVE  LinkedIn(h, q, l, i, s, insert(h, l, q[l][i], s))
<1>. DEFINE n == Len(q[l])
            at == q[l][i]
            prev == h.previous[at]
            g == insert(h, l, at, s)
<1>1. /\ h \in Heap /\ n \in Nat /\ i \in 1 .. n /\ at \in Statement /\ at # None
      /\ prev = (IF i = 1 THEN None ELSE q[l][i - 1]) /\ h.previous[s] = None /\ h.next[s] = None
  BY Elements, Ends
<1>2. CASE i = 1
  <2>1. g = push_front(h, l, s)
    BY <1>1, <1>2 DEF insert
  <2>. QED
    BY <1>2, <2>1, PushFrontLinks
<1>3. CASE i # 1
  <2>1. i - 1 \in 1 .. n
    BY <1>1, <1>3
  <2>2. prev = q[l][i - 1] /\ prev \in Statement /\ prev # None /\ prev # at /\ s # at /\ s # prev
    BY <1>1, <1>3, <2>1, Elements, Ends, TreeAssumption
  <2>3. g = [h EXCEPT !.list[s] = l, !.next[prev] = s, !.previous[at] = s, !.previous[s] = prev, !.next[s] = at]
    BY <1>1, <2>2 DEF insert
  <2>. HIDE DEF n, g, at, prev
  <2>4. /\ g \in Heap
        /\ \A x \in Statement : /\ g.list[x] = (IF x = s THEN l ELSE h.list[x])
                                /\ g.previous[x] = (IF x = s THEN prev ELSE IF x = at THEN s ELSE h.previous[x])
                                /\ g.next[x] = (IF x = s THEN at ELSE IF x = prev THEN s ELSE h.next[x])
        /\ \A k \in List : g.first[k] = h.first[k] /\ g.last[k] = h.last[k]
    BY <1>1, <2>2, <2>3, HeapType, ZenonT(60) DEF Heap
  <2>5. i > 1 /\ i <= n /\ i # n + 1
    BY <1>1, <1>3
  <2>. QED
    BY <1>3, <2>2, <2>4, <2>5 DEF LinkedIn, n, g, at
<1>. QED
  BY <1>2, <1>3

\* The heap g is h with the i-th statement of list l unlinked.
LinkedOut(h, q, l, i, g) ==
    /\ g \in Heap
    /\ \A x \in Statement :
         /\ g.list[x] = IF x = q[l][i] THEN None ELSE h.list[x]
         /\ g.next[x] = IF x = q[l][i] THEN None
                        ELSE IF i > 1 /\ x = q[l][i - 1] THEN h.next[q[l][i]] ELSE h.next[x]
         /\ g.previous[x] = IF x = q[l][i] THEN None
                            ELSE IF i < Len(q[l]) /\ x = q[l][i + 1] THEN h.previous[q[l][i]] ELSE h.previous[x]
    /\ \A k \in List :
         /\ g.first[k] = IF k = l /\ i = 1 THEN h.next[q[l][i]] ELSE h.first[k]
         /\ g.last[k] = IF k = l /\ i = Len(q[l]) THEN h.previous[q[l][i]] ELSE h.last[k]

\* Unlinking a statement is removing it from the sequence.
LEMMA LinkedOutRepresents ==
    ASSUME NEW h, NEW q, Represents(h, q), NEW l \in List, NEW i \in 1 .. Len(q[l]),
           NEW g, LinkedOut(h, q, l, i, g)
    PROVE  Represents(g, [q EXCEPT ![l] = Sequences_!RemoveAt(q[l], i)])
<1>. DEFINE p == q[l]
            n == Len(p)
            t == Sequences_!RemoveAt(p, i)
            r == [q EXCEPT ![l] = t]
            s == p[i]
<1>a. p \in Seq(Statement) /\ i \in 1 .. Len(p)
  BY Elements
<1>b. TakenAt(Statement, p, i, t)
  <2>. HIDE DEF p
  <2>. QED
    BY <1>a, RemoveOne, Zenon
<1>0. p \in Seq(Statement) /\ t \in Seq(Statement) /\ Len(t) = n - 1
  BY <1>a, <1>b DEF TakenAt
<1>1. n \in Nat /\ i \in 1 .. n /\ \A j \in 1 .. n : p[j] \in Statement /\ h.list[p[j]] = l
  BY Elements
<1>2. \A j \in 1 .. (n - 1) : t[j] = IF j < i THEN p[j] ELSE p[j + 1]
  <2>. HIDE DEF p, t
  <2>. QED
    BY <1>b DEF TakenAt
<1>3. r \in [List -> Seq(Statement)] /\ r[l] = t /\ \A k \in List \ {l} : r[k] = q[k]
  BY <1>0 DEF Represents
<1>4. /\ h.first[l] = IF n = 0 THEN None ELSE p[1]
      /\ h.last[l] = IF n = 0 THEN None ELSE p[n]
      /\ \A j \in 1 .. n : /\ h.previous[p[j]] = IF j = 1 THEN None ELSE p[j - 1]
                           /\ h.next[p[j]] = IF j = n THEN None ELSE p[j + 1]
      /\ \A j, m \in 1 .. n : p[j] = p[m] => j = m
      /\ \A x \in Statement : h.list[x] = l => \E j \in 1 .. n : p[j] = x
  BY Ends
<1>. HIDE DEF t, r, p, n
<1>5. /\ g \in Heap
      /\ \A x \in Statement :
           /\ g.list[x] = IF x = s THEN None ELSE h.list[x]
           /\ g.next[x] = IF x = s THEN None ELSE IF i > 1 /\ x = p[i - 1] THEN h.next[s] ELSE h.next[x]
           /\ g.previous[x] = IF x = s THEN None
                              ELSE IF i < n /\ x = p[i + 1] THEN h.previous[s] ELSE h.previous[x]
      /\ \A k \in List : /\ g.first[k] = IF k = l /\ i = 1 THEN h.next[s] ELSE h.first[k]
                         /\ g.last[k] = IF k = l /\ i = n THEN h.previous[s] ELSE h.last[k]
  BY DEF LinkedOut, p, n
<1>6. /\ h.next[s] = IF i = n THEN None ELSE p[i + 1]
      /\ h.previous[s] = IF i = 1 THEN None ELSE p[i - 1]
      /\ s \in Statement /\ h.list[s] = l
  BY <1>1, <1>4
<1>. HIDE DEF s
<1>7. Linked(g, l, t)
  <2>1. g.first[l] = (IF n - 1 = 0 THEN None ELSE t[1]) /\ g.last[l] = IF n - 1 = 0 THEN None ELSE t[n - 1]
    <3>1. n = 1 => i = 1
      BY <1>1
    <3>2. n # 1 => t[1] = (IF i = 1 THEN p[2] ELSE p[1]) /\ t[n - 1] = IF i = n THEN p[n - 1] ELSE p[n]
      BY <1>1, <1>2
    <3>3. n # 0 /\ n - 1 \in Nat /\ (n - 1 = 0 <=> n = 1)
      BY <1>1
    <3>. QED
      BY <1>4, <1>5, <1>6, <3>1, <3>2, <3>3
  <2>2. ASSUME NEW j \in 1 .. (n - 1)
        PROVE  /\ g.list[t[j]] = l
               /\ g.previous[t[j]] = IF j = 1 THEN None ELSE t[j - 1]
               /\ g.next[t[j]] = IF j = n - 1 THEN None ELSE t[j + 1]
    <3>1. CASE j < i
      <4>1. t[j] = p[j] /\ j \in 1 .. n /\ t[j] # s /\ t[j] \in Statement
        BY <1>1, <1>2, <1>4, <3>1 DEF s
      <4>2. j # 1 => t[j - 1] = p[j - 1]
        BY <1>1, <1>2, <3>1
      <4>3. g.previous[t[j]] = h.previous[p[j]]
        <5>1. ASSUME i < n PROVE p[i + 1] # p[j]
          <6>1. i + 1 \in 1 .. n /\ j \in 1 .. n /\ i + 1 # j
            BY <1>1, <3>1, <5>1
          <6>. QED
            BY <1>4, <6>1
        <5>. QED
          BY <1>5, <4>1, <5>1
      <4>4. g.next[t[j]] = IF j = i - 1 THEN h.next[s] ELSE h.next[p[j]]
        <5>1. j # i - 1 => p[i - 1] # p[j]
          BY <1>1, <1>4, <3>1
        <5>2. i > 1
          BY <1>1, <3>1
        <5>. QED
          BY <1>5, <4>1, <5>1, <5>2
      <4>5. j # n - 1 => t[j + 1] = IF j = i - 1 THEN p[i + 1] ELSE p[j + 1]
        BY <1>1, <1>2, <3>1
      <4>6. j # n /\ (j = i - 1 => (j = n - 1 <=> i = n)) /\ (j = n - 1 => j = i - 1)
        BY <1>1, <3>1
      <4>7. g.list[t[j]] = l
        BY <1>1, <1>5, <4>1
      <4>8. /\ h.previous[p[j]] = IF j = 1 THEN None ELSE p[j - 1]
            /\ h.next[p[j]] = IF j = n THEN None ELSE p[j + 1]
        BY <1>4, <4>1
      <4>. QED
        BY <1>6, <4>1, <4>2, <4>3, <4>4, <4>5, <4>6, <4>7, <4>8
    <3>2. CASE ~(j < i)
      <4>1. t[j] = p[j + 1] /\ j + 1 \in 1 .. n /\ t[j] # s /\ t[j] \in Statement
        BY <1>1, <1>2, <1>4, <3>2 DEF s
      <4>2. j # n - 1 => t[j + 1] = p[j + 2]
        BY <1>1, <1>2, <3>2
      <4>3. j # 1 => t[j - 1] = IF j = i THEN p[i - 1] ELSE p[j]
        BY <1>1, <1>2, <3>2
      <4>4. g.next[t[j]] = h.next[p[j + 1]]
        <5>1. i > 1 => p[i - 1] # p[j + 1]
          BY <1>1, <1>4, <3>2
        <5>. QED
          BY <1>5, <4>1, <5>1
      <4>5. g.previous[t[j]] = IF j = i THEN h.previous[s] ELSE h.previous[p[j + 1]]
        <5>1. j # i => p[i + 1] # p[j + 1]
          BY <1>1, <1>4, <3>2
        <5>2. i < n
          BY <1>1, <3>2
        <5>. QED
          BY <1>5, <4>1, <5>1, <5>2
      <4>6. /\ h.next[p[j + 1]] = IF j + 1 = n THEN None ELSE p[(j + 1) + 1]
            /\ h.previous[p[j + 1]] = IF j + 1 = 1 THEN None ELSE p[(j + 1) - 1]
        BY <1>4, <4>1
      <4>7. (j + 1) + 1 = j + 2 /\ (j + 1) - 1 = j /\ j + 1 # 1 /\ (j + 1 = n <=> j = n - 1) /\ (j # i => j # 1)
        BY <1>1, <3>2
      <4>8. g.list[t[j]] = l
        BY <1>1, <1>5, <4>1
      <4>. QED
        BY <1>6, <4>1, <4>2, <4>3, <4>4, <4>5, <4>6, <4>7, <4>8
    <3>. QED
      BY <3>1, <3>2
  <2>3. ASSUME NEW j \in 1 .. (n - 1), NEW m \in 1 .. (n - 1), t[j] = t[m] PROVE j = m
    <3>. DEFINE At(a) == IF a < i THEN a ELSE a + 1
    <3>1. \A a \in 1 .. (n - 1) : At(a) \in 1 .. n /\ t[a] = p[At(a)]
      BY <1>1, <1>2
    <3>2. At(j) = At(m)
      BY <1>4, <2>3, <3>1
    <3>. QED
      BY <1>1, <3>2
  <2>4. ASSUME NEW x \in Statement, g.list[x] = l PROVE \E j \in 1 .. (n - 1) : t[j] = x
    <3>1. x # s /\ h.list[x] = l
      BY <1>5, <2>4, TreeAssumption
    <3>2. PICK j \in 1 .. n : p[j] = x
      BY <1>4, <3>1
    <3>3. j # i
      BY <3>1, <3>2 DEF s
    <3>4. CASE j < i
      BY <1>1, <1>2, <3>2, <3>4
    <3>5. CASE j > i
      <4>1. j - 1 \in 1 .. (n - 1) /\ t[j - 1] = p[j]
        BY <1>1, <1>2, <3>5
      <4>. QED
        BY <3>2, <4>1
    <3>. QED
      BY <1>1, <3>3, <3>4, <3>5
  <2>. QED
    BY <1>0, <1>1, <2>1, <2>2, <2>3, <2>4 DEF Linked
<1>8. ASSUME NEW k \in List \ {l} PROVE Linked(g, k, q[k])
  <2>1. Linked(h, k, q[k])
    BY DEF Represents
  <2>2. \A j \in 1 .. Len(q[k]) : q[k][j] \in Statement /\ h.list[q[k][j]] = k
    BY Elements
  <2>3. ASSUME NEW j \in 1 .. Len(q[k])
        PROVE  LET x == q[k][j] IN g.list[x] = h.list[x] /\ g.next[x] = h.next[x] /\ g.previous[x] = h.previous[x]
    <3>. DEFINE x == q[k][j]
    <3>1. x \in Statement /\ x # s /\ \A m \in 1 .. n : x # p[m]
      BY <1>1, <1>6, <2>2
    <3>. HIDE DEF x
    <3>2. (i > 1 => i - 1 \in 1 .. n) /\ (i < n => i + 1 \in 1 .. n)
      BY <1>1
    <3>3. g.list[x] = h.list[x] /\ g.next[x] = h.next[x] /\ g.previous[x] = h.previous[x]
      BY <1>5, <3>1, <3>2
    <3>. QED
      BY <3>3 DEF x
  <2>4. \A x \in Statement : g.list[x] = k => h.list[x] = k
    BY <1>5, TreeAssumption
  <2>5. g.first[k] = h.first[k] /\ g.last[k] = h.last[k]
    BY <1>5
  <2>. QED
    BY <2>1, <2>3, <2>4, <2>5, SameLinked
<1>9. \A x \in Statement : g.list[x] = None => g.previous[x] = None /\ g.next[x] = None
  <2>. SUFFICES ASSUME NEW x \in Statement, g.list[x] = None, x # s PROVE g.previous[x] = None /\ g.next[x] = None
    BY <1>5
  <2>1. h.list[x] = None
    BY <1>5
  <2>2. h.previous[x] = None /\ h.next[x] = None
    BY <2>1 DEF Represents
  <2>3. \A m \in 1 .. n : x # p[m]
    BY <1>1, <2>1, TreeAssumption
  <2>4. (i > 1 => i - 1 \in 1 .. n) /\ (i < n => i + 1 \in 1 .. n)
    BY <1>1
  <2>. QED
    BY <1>5, <2>1, <2>2, <2>3, <2>4
<1>10. Represents(g, r)
  BY <1>3, <1>5, <1>7, <1>8, <1>9 DEF Represents
<1>. QED
  BY <1>10 DEF r, t, p

\* erase unlinks a statement.
LEMMA EraseLinks ==
    ASSUME NEW h, NEW q, Represents(h, q), NEW l \in List, NEW i \in 1 .. Len(q[l])
    PROVE  LinkedOut(h, q, l, i, erase(h, q[l][i]))
<1>. DEFINE n == Len(q[l])
            s == q[l][i]
            prev == h.previous[s]
            nxt == h.next[s]
            g == erase(h, s)
            ahead == IF prev = None THEN [h EXCEPT !.first[l] = nxt] ELSE [h EXCEPT !.next[prev] = nxt]
            behind == IF nxt = None THEN [ahead EXCEPT !.last[l] = prev] ELSE [ahead EXCEPT !.previous[nxt] = prev]
<1>1. /\ h \in Heap /\ n \in Nat /\ i \in 1 .. n /\ s \in Statement /\ h.list[s] = l
      /\ prev = (IF i = 1 THEN None ELSE q[l][i - 1]) /\ nxt = (IF i = n THEN None ELSE q[l][i + 1])
  BY Elements, Ends
<1>2. g = [behind EXCEPT !.list[s] = None, !.previous[s] = None, !.next[s] = None]
  BY <1>1 DEF erase, Detached
<1>3. /\ i > 1 => prev \in Statement /\ prev # None /\ prev = q[l][i - 1] /\ prev # s
      /\ i < n => nxt \in Statement /\ nxt # None /\ nxt = q[l][i + 1] /\ nxt # s
      /\ i = 1 => prev = None
      /\ i = n => nxt = None
  <2>1. i > 1 => i - 1 \in 1 .. n /\ i - 1 # i
    BY <1>1
  <2>2. i < n => i + 1 \in 1 .. n /\ i + 1 # i
    BY <1>1
  <2>. QED
    BY <1>1, <2>1, <2>2, Elements, Ends
<1>4. (i = 1 \/ i > 1) /\ (i = n \/ i < n)
  BY <1>1
<1>. HIDE DEF n, s, prev, nxt, g
<1>5. /\ ahead \in Heap
      /\ ahead.list = h.list /\ ahead.previous = h.previous /\ ahead.last = h.last
      /\ \A x \in Statement : ahead.next[x] = IF i > 1 /\ x = prev THEN nxt ELSE h.next[x]
      /\ \A k \in List : ahead.first[k] = IF k = l /\ i = 1 THEN nxt ELSE h.first[k]
  <2>0. nxt \in Statement \cup {None}
    BY <1>1, HeapType DEF nxt
  <2>1. CASE i = 1
    BY <1>1, <1>3, <2>0, <2>1, HeapType DEF Heap
  <2>2. CASE i > 1
    BY <1>1, <1>3, <2>0, <2>2, HeapType DEF Heap
  <2>. QED
    BY <1>4, <2>1, <2>2
<1>. HIDE DEF ahead
<1>6. /\ behind \in Heap
      /\ behind.list = h.list /\ behind.next = ahead.next /\ behind.first = ahead.first
      /\ \A x \in Statement : behind.previous[x] = IF i < n /\ x = nxt THEN prev ELSE h.previous[x]
      /\ \A k \in List : behind.last[k] = IF k = l /\ i = n THEN prev ELSE h.last[k]
  <2>0. prev \in Statement \cup {None}
    BY <1>1, HeapType DEF prev
  <2>1. CASE i = n
    BY <1>1, <1>3, <1>5, <2>0, <2>1, HeapType DEF Heap
  <2>2. CASE i < n
    BY <1>1, <1>3, <1>5, <2>0, <2>2, HeapType DEF Heap
  <2>. QED
    BY <1>4, <2>1, <2>2
<1>. HIDE DEF behind
<1>7. /\ g \in Heap /\ g.first = behind.first /\ g.last = behind.last
      /\ \A x \in Statement : /\ g.list[x] = (IF x = s THEN None ELSE behind.list[x])
                              /\ g.next[x] = (IF x = s THEN None ELSE behind.next[x])
                              /\ g.previous[x] = (IF x = s THEN None ELSE behind.previous[x])
  BY <1>1, <1>2, <1>6, HeapType DEF Heap
<1>. QED
  BY <1>3, <1>5, <1>6, <1>7 DEF LinkedOut, s, prev, nxt, g, n

\* pop_front and pop_back erase the first and the last statement.
LEMMA PopLinks ==
    ASSUME NEW h, NEW q, Represents(h, q), NEW l \in List, Len(q[l]) # 0
    PROVE  /\ LinkedOut(h, q, l, 1, pop_front(h, l))
           /\ LinkedOut(h, q, l, Len(q[l]), pop_back(h, l))
<1>. DEFINE n == Len(q[l])
<1>0. n \in Nat /\ n # 0
  BY Elements
<1>1. h \in Heap /\ h.first[l] = q[l][1] /\ h.last[l] = q[l][n]
  BY <1>0, Ends
<1>4. \A i \in 1 .. n : /\ q[l][i] \in Statement /\ q[l][i] # None
                        /\ h.previous[q[l][i]] = (IF i = 1 THEN None ELSE q[l][i - 1])
                        /\ h.next[q[l][i]] = (IF i = n THEN None ELSE q[l][i + 1])
  BY Elements, Ends
<1>. HIDE DEF n
<1>5. 1 \in 1 .. n /\ n \in 1 .. n /\ (n = 1 \/ n > 1) /\ (n > 1 <=> n # 1) /\ (1 < n <=> n # 1) /\ ~(n < n)
  BY <1>0
<1>2. LinkedOut(h, q, l, 1, pop_front(h, l))
  <2>. DEFINE s == q[l][1]
              second == h.next[s]
              g == pop_front(h, l)
              ahead == IF second = None THEN [h EXCEPT !.first[l] = second, !.last[l] = None]
                       ELSE [h EXCEPT !.first[l] = second, !.previous[second] = None]
  <2>1. s \in Statement /\ h.previous[s] = None /\ second = (IF 1 = n THEN None ELSE q[l][2])
    <3>1. 1 + 1 = 2
      OBVIOUS
    <3>. QED
      BY <1>4, <1>5, <3>1
  <2>2. 1 < n => second \in Statement /\ second # None /\ second = q[l][2]
    <3>1. 1 < n => 2 \in 1 .. n
      BY <1>0
    <3>. QED
      BY <1>4, <1>5, <2>1, <3>1
  <2>3. g = [ahead EXCEPT !.list[s] = None, !.previous[s] = None, !.next[s] = None]
    BY <1>1 DEF pop_front, Detached
  <2>4. second \in Statement \cup {None}
    BY <1>1, <2>1, HeapType
  <2>5. (n = 1 /\ ~(1 < n)) \/ (n # 1 /\ 1 < n)
    BY <1>5
  <2>. HIDE DEF s, second, g
  <2>6. /\ ahead \in Heap /\ ahead.list = h.list /\ ahead.next = h.next
        /\ \A x \in Statement : ahead.previous[x] = IF 1 < n /\ x = second THEN None ELSE h.previous[x]
        /\ \A k \in List : /\ ahead.first[k] = (IF k = l THEN second ELSE h.first[k])
                           /\ ahead.last[k] = (IF k = l /\ 1 = n THEN None ELSE h.last[k])
    <3>1. CASE n = 1 /\ ~(1 < n)
      BY <1>1, <2>1, <2>4, <3>1, HeapType DEF Heap
    <3>2. CASE n # 1 /\ 1 < n
      BY <1>1, <2>2, <2>4, <3>2, HeapType DEF Heap
    <3>. QED
      BY <2>5, <3>1, <3>2
  <2>. HIDE DEF ahead
  <2>7. /\ g \in Heap /\ g.first = ahead.first /\ g.last = ahead.last
        /\ \A x \in Statement : /\ g.list[x] = (IF x = s THEN None ELSE ahead.list[x])
                                /\ g.next[x] = (IF x = s THEN None ELSE ahead.next[x])
                                /\ g.previous[x] = (IF x = s THEN None ELSE ahead.previous[x])
    BY <2>1, <2>3, <2>6, HeapType DEF Heap
  <2>. QED
    BY <2>1, <2>2, <2>6, <2>7 DEF LinkedOut, s, second, g, n
<1>3. LinkedOut(h, q, l, n, pop_back(h, l))
  <2>. DEFINE s == q[l][n]
              second == h.previous[s]
              g == pop_back(h, l)
              ahead == IF second = None THEN [h EXCEPT !.last[l] = second, !.first[l] = None]
                       ELSE [h EXCEPT !.last[l] = second, !.next[second] = None]
  <2>1. s \in Statement /\ h.next[s] = None /\ second = (IF n = 1 THEN None ELSE q[l][n - 1])
    BY <1>4, <1>5
  <2>2. n > 1 => second \in Statement /\ second # None /\ second = q[l][n - 1]
    <3>1. n > 1 => n - 1 \in 1 .. n
      BY <1>0
    <3>. QED
      BY <1>4, <1>5, <2>1, <3>1
  <2>3. g = [ahead EXCEPT !.list[s] = None, !.previous[s] = None, !.next[s] = None]
    BY <1>1 DEF pop_back, Detached
  <2>4. second \in Statement \cup {None}
    BY <1>1, <2>1, HeapType
  <2>5. ((n = 1 /\ ~(n > 1)) \/ (n # 1 /\ n > 1)) /\ ~(n < n)
    BY <1>5
  <2>. HIDE DEF s, second, g
  <2>6. /\ ahead \in Heap /\ ahead.list = h.list /\ ahead.previous = h.previous
        /\ \A x \in Statement : ahead.next[x] = IF n > 1 /\ x = second THEN None ELSE h.next[x]
        /\ \A k \in List : /\ ahead.last[k] = (IF k = l THEN second ELSE h.last[k])
                           /\ ahead.first[k] = (IF k = l /\ n = 1 THEN None ELSE h.first[k])
    <3>1. CASE n = 1 /\ ~(n > 1)
      BY <1>1, <2>1, <2>4, <3>1, HeapType DEF Heap
    <3>2. CASE n # 1 /\ n > 1
      BY <1>1, <2>2, <2>4, <3>2, HeapType DEF Heap
    <3>. QED
      BY <2>5, <3>1, <3>2
  <2>. HIDE DEF ahead
  <2>7. /\ g \in Heap /\ g.first = ahead.first /\ g.last = ahead.last
        /\ \A x \in Statement : /\ g.list[x] = (IF x = s THEN None ELSE ahead.list[x])
                                /\ g.next[x] = (IF x = s THEN None ELSE ahead.next[x])
                                /\ g.previous[x] = (IF x = s THEN None ELSE ahead.previous[x])
    BY <2>1, <2>3, <2>6, HeapType DEF Heap
  <2>. QED
    BY <2>1, <2>2, <2>5, <2>6, <2>7 DEF LinkedOut, s, second, g, n
<1>. QED
  BY <1>2, <1>3 DEF n

-----------------------------------------------------------------------------
(***************************************************************************)
(* Loops                                                                   *)
(***************************************************************************)
\* f is what a loop has after each number of rounds.
Rounds(S, round, start, f) ==
    /\ f \in [Nat -> S] /\ f[0] = start
    /\ \A m \in Nat : f[m + 1] = round[f[m]]
    /\ \A n \in Nat : Repeat(round, n, start) = f[n]

\* A loop is a sequence of rounds.
LEMMA RepeatRounds ==
    ASSUME NEW S, NEW round, \A x \in S : round[x] \in S, NEW start \in S
    PROVE  \E f : Rounds(S, round, start, f)
<1>. DEFINE step == [p \in Nat \X S |-> round[p[2]]]
            Eq(g) == g = [m \in Nat |-> IF m = 0 THEN start ELSE round[g[m - 1]]]
            after == CHOOSE g : Eq(g)
<1>1. step \in [Nat \X S -> S]
  OBVIOUS
<1>2. PICK f : Recursive(S, start, step, f)
  <2>. HIDE DEF step
  <2>. QED
    BY <1>1, PrimitiveRecursion, Zenon
<1>3. f \in [Nat -> S] /\ f[0] = start /\ \A m \in Nat : f[m + 1] = round[f[m]]
  BY <1>2 DEF Recursive
<1>4. Eq(f)
  <2>1. \A m \in Nat : m # 0 => m - 1 \in Nat /\ (m - 1) + 1 = m
    OBVIOUS
  <2>2. \A m \in Nat : f[m] = IF m = 0 THEN start ELSE round[f[m - 1]]
    BY <1>3, <2>1
  <2>. QED
    BY <1>3, <2>2
<1>5. Eq(after)
  <2>. HIDE DEF Eq
  <2>. QED
    BY <1>4
<1>6. \A m \in Nat : after[m] = IF m = 0 THEN start ELSE round[after[m - 1]]
  <2>. HIDE DEF after
  <2>. QED
    BY <1>5
<1>. HIDE DEF after
<1>. DEFINE Bad == {m \in Nat : after[m] # f[m]}
<1>7. Bad = {}
  <2>. SUFFICES ASSUME Bad # {} PROVE FALSE
    OBVIOUS
  <2>1. PICK m \in Bad : \A k \in Bad : m <= k
    <3>1. Bad \in SUBSET Nat
      OBVIOUS
    <3>. HIDE DEF Bad
    <3>. QED
      BY <3>1, LeastNumber
  <2>2. m # 0
    BY <1>3, <1>6, <2>1
  <2>3. m - 1 \in Nat /\ m - 1 \notin Bad /\ (m - 1) + 1 = m
    BY <2>1, <2>2
  <2>4. after[m - 1] = f[m - 1]
    BY <2>3
  <2>5. f[m] = round[f[m - 1]]
    BY <1>3, <2>3
  <2>6. after[m] = round[after[m - 1]]
    BY <1>6, <2>1, <2>2
  <2>. QED
    BY <2>1, <2>4, <2>5, <2>6
<1>8. \A n \in Nat : Repeat(round, n, start) = after[n]
  BY DEF Repeat, after
<1>. QED
  BY <1>3, <1>7, <1>8 DEF Rounds

\* A loop that has ended after m rounds is in the last of its stages.
LEMMA RepeatStages ==
    ASSUME NEW m \in Nat, NEW Stage, DOMAIN Stage = 0 .. m, NEW round, NEW start \in Stage[0],
           \A c \in 0 .. (m - 1) : \A x \in Stage[c] : round[x] \in Stage[c + 1],
           \A x \in Stage[m] : round[x] = x,
           NEW n \in Nat, m <= n
    PROVE  Repeat(round, n, start) \in Stage[m]
<1>. DEFINE S == UNION {Stage[c] : c \in 0 .. m}
            At(k) == IF k <= m THEN k ELSE m
<1>1. ASSUME NEW x \in S PROVE round[x] \in S
  <2>1. PICK c \in 0 .. m : x \in Stage[c]
    OBVIOUS
  <2>2. CASE c = m
    BY <2>1, <2>2
  <2>3. CASE c # m
    <3>1. c \in 0 .. (m - 1) /\ c + 1 \in 0 .. m
      BY <2>3
    <3>. QED
      BY <2>1, <3>1
  <2>. QED
    BY <2>2, <2>3
<1>2. start \in S
  OBVIOUS
<1>. HIDE DEF S
<1>7. PICK f : Rounds(S, round, start, f)
  <2>1. \A x \in S : round[x] \in S
    BY <1>1
  <2>. QED
    BY <2>1, <1>2, RepeatRounds, Zenon
<1>3. /\ f \in [Nat -> S] /\ f[0] = start
      /\ \A k \in Nat : f[k + 1] = round[f[k]]
      /\ \A k \in Nat : Repeat(round, k, start) = f[k]
  BY <1>7 DEF Rounds
<1>. DEFINE Bad == {k \in Nat : f[k] \notin Stage[At(k)]}
<1>4. Bad = {}
  <2>. SUFFICES ASSUME Bad # {} PROVE FALSE
    OBVIOUS
  <2>1. PICK k \in Bad : \A j \in Bad : k <= j
    <3>1. Bad \in SUBSET Nat
      OBVIOUS
    <3>. HIDE DEF Bad
    <3>. QED
      BY <3>1, LeastNumber
  <2>2. k # 0
    BY <1>3, <2>1
  <2>3. k - 1 \in Nat /\ k - 1 \notin Bad /\ (k - 1) + 1 = k
    BY <2>1, <2>2
  <2>4. f[k - 1] \in Stage[At(k - 1)] /\ f[k] = round[f[k - 1]]
    BY <1>3, <2>3
  <2>5. CASE k <= m
    <3>1. At(k - 1) = k - 1 /\ k - 1 \in 0 .. (m - 1) /\ At(k) = (k - 1) + 1
      BY <2>1, <2>3, <2>5
    <3>. QED
      BY <2>1, <2>4, <3>1
  <2>6. CASE ~(k <= m)
    <3>1. At(k - 1) = m /\ At(k) = m
      BY <2>1, <2>3, <2>6
    <3>. QED
      BY <2>1, <2>4, <3>1
  <2>. QED
    BY <2>5, <2>6
<1>5. At(n) = m
  OBVIOUS
<1>6. n \notin Bad
  BY <1>4
<1>. QED
  BY <1>3, <1>5, <1>6

-----------------------------------------------------------------------------
(***************************************************************************)
(* Moving a list                                                           *)
(***************************************************************************)
\* r is q after c statements of list that, beginning with number lo, have gone to list l, behind its p-th.
Moved(q, l, p, that, lo, c, r) ==
    /\ r \in [List -> Seq(Statement)]
    /\ \A k \in List \ {l, that} : r[k] = q[k]
    /\ Len(r[l]) = Len(q[l]) + c
    /\ \A j \in 1 .. (Len(q[l]) + c) :
         r[l][j] = IF j <= p THEN q[l][j] ELSE IF j <= p + c THEN q[that][(j - p) + (lo - 1)] ELSE q[l][j - c]
    /\ Len(r[that]) = Len(q[that]) - c
    /\ \A j \in 1 .. (Len(q[that]) - c) : r[that][j] = IF j < lo THEN q[that][j] ELSE q[that][j + c]

\* The sequences after the i-th statement of list that has become number n of list l.
OneMoved(r, l, n, that, i) ==
    [r EXCEPT ![that] = Sequences_!RemoveAt(r[that], i), ![l] = Sequences_!InsertAt(r[l], n, r[that][i])]

\* What the sequences u are then.
OneMovedTo(r, l, n, that, i, u) ==
    /\ u \in [List -> Seq(Statement)] /\ \A k \in List \ {l, that} : u[k] = r[k]
    /\ Len(u[l]) = Len(r[l]) + 1 /\ Len(u[that]) = Len(r[that]) - 1
    /\ \A j \in 1 .. (Len(r[l]) + 1) : u[l][j] = IF j < n THEN r[l][j] ELSE IF j = n THEN r[that][i] ELSE r[l][j - 1]
    /\ \A j \in 1 .. (Len(r[that]) - 1) : u[that][j] = IF j < i THEN r[that][j] ELSE r[that][j + 1]

\* One statement has moved.
LEMMA OneMovedElements ==
    ASSUME NEW r \in [List -> Seq(Statement)], NEW l \in List, NEW that \in List, l # that,
           NEW i \in 1 .. Len(r[that]), NEW n \in 1 .. (Len(r[l]) + 1)
    PROVE  OneMovedTo(r, l, n, that, i, OneMoved(r, l, n, that, i))
<1>. DEFINE a == r[l]
            b == r[that]
            s == b[i]
            x == Sequences_!InsertAt(a, n, s)
            y == Sequences_!RemoveAt(b, i)
            u == OneMoved(r, l, n, that, i)
<1>1. a \in Seq(Statement) /\ b \in Seq(Statement) /\ s \in Statement /\ n \in 1 .. (Len(a) + 1) /\ i \in 1 .. Len(b)
  OBVIOUS
<1>2. u = [r EXCEPT ![that] = y, ![l] = x]
  BY DEF OneMoved
<1>3. x = Sequences_!InsertAt(a, n, s) /\ y = Sequences_!RemoveAt(b, i)
  OBVIOUS
<1>. HIDE DEF a, b, s, x, y, u
<1>4. /\ x \in Seq(Statement) /\ Len(x) = Len(a) + 1
      /\ \A j \in 1 .. (Len(a) + 1) : x[j] = IF j < n THEN a[j] ELSE IF j = n THEN s ELSE a[j - 1]
  <2>1. PutAt(Statement, a, n, s, x)
    BY <1>1, <1>3, InsertOne, Zenon
  <2>. QED
    BY <2>1 DEF PutAt
<1>5. /\ y \in Seq(Statement) /\ Len(y) = Len(b) - 1
      /\ \A j \in 1 .. (Len(b) - 1) : y[j] = IF j < i THEN b[j] ELSE b[j + 1]
  <2>1. TakenAt(Statement, b, i, y)
    BY <1>1, <1>3, RemoveOne, Zenon
  <2>. QED
    BY <2>1 DEF TakenAt
<1>6. u \in [List -> Seq(Statement)] /\ u[l] = x /\ u[that] = y /\ \A k \in List \ {l, that} : u[k] = r[k]
  BY <1>2, <1>4, <1>5
<1>. QED
  BY <1>4, <1>5, <1>6 DEF OneMovedTo, a, b, s, u

\* Statements move from the front of one list to the place behind those that have moved before.
LEMMA MovedNext ==
    ASSUME NEW q \in [List -> Seq(Statement)], NEW l \in List, NEW that \in List, l # that, NEW p \in 0 .. Len(q[l]),
           NEW c \in Nat, c < Len(q[that]), NEW r, Moved(q, l, p, that, 1, c, r)
    PROVE  /\ 1 \in 1 .. Len(r[that]) /\ (p + c) + 1 \in 1 .. (Len(r[l]) + 1)
           /\ Moved(q, l, p, that, 1, c + 1, OneMoved(r, l, (p + c) + 1, that, 1))
<1>. DEFINE a == Len(q[l])
            b == Len(q[that])
            n == (p + c) + 1
            u == OneMoved(r, l, n, that, 1)
<1>1. a \in Nat /\ b \in Nat /\ p \in 0 .. a /\ c < b
  OBVIOUS
<1>2. /\ r \in [List -> Seq(Statement)] /\ \A k \in List \ {l, that} : r[k] = q[k]
      /\ Len(r[l]) = a + c /\ Len(r[that]) = b - c
  BY DEF Moved
<1>3. \A j \in 1 .. (a + c) : r[l][j] = IF j <= p THEN q[l][j] ELSE IF j <= p + c THEN q[that][(j - p) + (1 - 1)] ELSE q[l][j - c]
  BY DEF Moved
<1>4. \A j \in 1 .. (b - c) : r[that][j] = q[that][j + c]
  BY <1>1 DEF Moved
<1>. HIDE DEF a, b
<1>5. 1 \in 1 .. (b - c) /\ n \in 1 .. ((a + c) + 1)
  BY <1>1
<1>6. 1 \in 1 .. Len(r[that]) /\ n \in 1 .. (Len(r[l]) + 1)
  BY <1>2, <1>5
<1>. HIDE DEF n, u
<1>7. /\ u \in [List -> Seq(Statement)] /\ \A k \in List \ {l, that} : u[k] = r[k]
      /\ Len(u[l]) = Len(r[l]) + 1 /\ Len(u[that]) = Len(r[that]) - 1
      /\ \A j \in 1 .. (Len(r[l]) + 1) : u[l][j] = IF j < n THEN r[l][j] ELSE IF j = n THEN r[that][1] ELSE r[l][j - 1]
      /\ \A j \in 1 .. (Len(r[that]) - 1) : u[that][j] = IF j < 1 THEN r[that][j] ELSE r[that][j + 1]
  <2>1. OneMovedTo(r, l, n, that, 1, u)
    BY <1>2, <1>6, OneMovedElements, Zenon DEF u
  <2>. QED
    BY <2>1 DEF OneMovedTo
<1>8. /\ Len(u[l]) = a + (c + 1) /\ Len(u[that]) = b - (c + 1)
      /\ \A j \in 1 .. (a + (c + 1)) : u[l][j] = IF j < n THEN r[l][j] ELSE IF j = n THEN r[that][1] ELSE r[l][j - 1]
      /\ \A j \in 1 .. (b - (c + 1)) : u[that][j] = r[that][j + 1]
  <2>1. (a + c) + 1 = a + (c + 1) /\ (b - c) - 1 = b - (c + 1)
    BY <1>1
  <2>. QED
    BY <1>2, <1>7, <2>1
<1>9. ASSUME NEW j \in 1 .. (a + (c + 1))
      PROVE  u[l][j] = IF j <= p THEN q[l][j] ELSE IF j <= p + (c + 1) THEN q[that][(j - p) + (1 - 1)] ELSE q[l][j - (c + 1)]
  <2>1. CASE j < n
    <3>1. j \in 1 .. (a + c) /\ j <= p + c /\ j <= p + (c + 1)
      BY <1>1, <2>1 DEF n
    <3>. QED
      BY <1>3, <1>8, <2>1, <3>1
  <2>2. CASE j = n
    <3>1. ~(j <= p) /\ j <= p + (c + 1) /\ (j - p) + (1 - 1) = 1 + c /\ ~(j < n)
      BY <1>1, <2>2 DEF n
    <3>2. r[that][1] = q[that][1 + c]
      BY <1>4, <1>5
    <3>. QED
      BY <1>8, <2>2, <3>1, <3>2
  <2>3. CASE j > n
    <3>1. /\ j - 1 \in 1 .. (a + c) /\ ~(j - 1 <= p) /\ ~(j - 1 <= p + c) /\ (j - 1) - c = j - (c + 1)
          /\ ~(j <= p) /\ ~(j <= p + (c + 1)) /\ ~(j < n) /\ j # n
      BY <1>1, <2>3 DEF n
    <3>2. r[l][j - 1] = q[l][(j - 1) - c]
      BY <1>3, <3>1
    <3>. QED
      BY <1>8, <3>1, <3>2
  <2>. QED
    BY <1>1, <2>1, <2>2, <2>3 DEF n
<1>10. ASSUME NEW j \in 1 .. (b - (c + 1)) PROVE u[that][j] = IF j < 1 THEN q[that][j] ELSE q[that][j + (c + 1)]
  <2>1. j + 1 \in 1 .. (b - c) /\ (j + 1) + c = j + (c + 1) /\ ~(j < 1)
    BY <1>1
  <2>. QED
    BY <1>4, <1>8, <2>1
<1>11. Moved(q, l, p, that, 1, c + 1, u)
  BY <1>2, <1>7, <1>8, <1>9, <1>10 DEF Moved, a, b
<1>. QED
  BY <1>6, <1>11 DEF u, n

\* Statements move from the end of one list to the front of the other.
LEMMA MovedBefore ==
    ASSUME NEW q \in [List -> Seq(Statement)], NEW l \in List, NEW that \in List, l # that,
           NEW c \in Nat, c < Len(q[that]), NEW r, Moved(q, l, 0, that, (Len(q[that]) - c) + 1, c, r)
    PROVE  /\ Len(r[that]) \in 1 .. Len(r[that]) /\ 1 \in 1 .. (Len(r[l]) + 1)
           /\ Moved(q, l, 0, that, (Len(q[that]) - (c + 1)) + 1, c + 1, OneMoved(r, l, 1, that, Len(r[that])))
<1>. DEFINE a == Len(q[l])
            b == Len(q[that])
            i == Len(r[that])
            u == OneMoved(r, l, 1, that, i)
<1>1. a \in Nat /\ b \in Nat /\ c < b
  OBVIOUS
<1>2. /\ r \in [List -> Seq(Statement)] /\ \A k \in List \ {l, that} : r[k] = q[k]
      /\ Len(r[l]) = a + c /\ i = b - c
  BY DEF Moved
<1>3. \A j \in 1 .. (a + c) : r[l][j] = IF j <= 0 THEN q[l][j] ELSE IF j <= 0 + c THEN q[that][(j - 0) + (((b - c) + 1) - 1)] ELSE q[l][j - c]
  BY DEF Moved
<1>4. \A j \in 1 .. (b - c) : r[that][j] = IF j < (b - c) + 1 THEN q[that][j] ELSE q[that][j + c]
  BY DEF Moved
<1>. HIDE DEF a, b
<1>5. i \in 1 .. i /\ 1 \in 1 .. (Len(r[l]) + 1) /\ i \in 1 .. (b - c)
  BY <1>1, <1>2
<1>. HIDE DEF i, u
<1>6. /\ u \in [List -> Seq(Statement)] /\ \A k \in List \ {l, that} : u[k] = r[k]
      /\ Len(u[l]) = Len(r[l]) + 1 /\ Len(u[that]) = Len(r[that]) - 1
      /\ \A j \in 1 .. (Len(r[l]) + 1) : u[l][j] = IF j < 1 THEN r[l][j] ELSE IF j = 1 THEN r[that][i] ELSE r[l][j - 1]
      /\ \A j \in 1 .. (Len(r[that]) - 1) : u[that][j] = IF j < i THEN r[that][j] ELSE r[that][j + 1]
  <2>1. i \in 1 .. Len(r[that])
    BY <1>5 DEF i
  <2>2. OneMovedTo(r, l, 1, that, i, u)
    BY <1>2, <1>5, <2>1, OneMovedElements, Zenon DEF u
  <2>. QED
    BY <2>2 DEF OneMovedTo
<1>7. /\ Len(u[l]) = a + (c + 1) /\ Len(u[that]) = b - (c + 1)
      /\ \A j \in 1 .. (a + (c + 1)) : u[l][j] = IF j < 1 THEN r[l][j] ELSE IF j = 1 THEN r[that][i] ELSE r[l][j - 1]
      /\ \A j \in 1 .. (b - (c + 1)) : u[that][j] = IF j < i THEN r[that][j] ELSE r[that][j + 1]
  <2>1. (a + c) + 1 = a + (c + 1) /\ (b - c) - 1 = b - (c + 1)
    BY <1>1
  <2>2. Len(r[that]) = b - c
    BY <1>2 DEF i
  <2>. QED
    BY <1>2, <1>6, <2>1, <2>2
<1>8. ASSUME NEW j \in 1 .. (a + (c + 1))
      PROVE  u[l][j] = IF j <= 0 THEN q[l][j] ELSE IF j <= 0 + (c + 1) THEN q[that][(j - 0) + (((b - (c + 1)) + 1) - 1)] ELSE q[l][j - (c + 1)]
  <2>1. CASE j = 1
    <3>1. ~(j <= 0) /\ j <= 0 + (c + 1) /\ (j - 0) + (((b - (c + 1)) + 1) - 1) = b - c /\ ~(j < 1) /\ i < (b - c) + 1
      BY <1>1, <1>2, <2>1
    <3>2. r[that][i] = q[that][b - c]
      BY <1>2, <1>4, <1>5, <3>1
    <3>. QED
      BY <1>7, <2>1, <3>1, <3>2
  <2>2. CASE j # 1
    <3>1. /\ j - 1 \in 1 .. (a + c) /\ ~(j - 1 <= 0) /\ ~(j <= 0) /\ ~(j < 1)
          /\ (j - 1 <= 0 + c <=> j <= 0 + (c + 1)) /\ (j - 1) - c = j - (c + 1)
          /\ ((j - 1) - 0) + (((b - c) + 1) - 1) = (j - 0) + (((b - (c + 1)) + 1) - 1)
      BY <1>1, <2>2
    <3>2. r[l][j - 1] = IF j <= 0 + (c + 1) THEN q[that][(j - 0) + (((b - (c + 1)) + 1) - 1)] ELSE q[l][j - (c + 1)]
      BY <1>3, <3>1
    <3>. QED
      BY <1>7, <2>2, <3>1, <3>2
  <2>. QED
    BY <2>1, <2>2
<1>9. ASSUME NEW j \in 1 .. (b - (c + 1))
      PROVE  u[that][j] = IF j < (b - (c + 1)) + 1 THEN q[that][j] ELSE q[that][j + (c + 1)]
  <2>1. j \in 1 .. (b - c) /\ j < i /\ j < (b - c) + 1 /\ j < (b - (c + 1)) + 1
    BY <1>1, <1>2
  <2>. QED
    BY <1>4, <1>7, <2>1
<1>10. Moved(q, l, 0, that, (b - (c + 1)) + 1, c + 1, u)
  BY <1>2, <1>6, <1>7, <1>8, <1>9 DEF Moved, a, b
<1>. QED
  BY <1>5, <1>10 DEF u, i, b

-----------------------------------------------------------------------------
(***************************************************************************)
(* Iterations                                                              *)
(***************************************************************************)
\* The statements of a list are different ones: there are not more of them than there are statements.
LEMMA FewStatements ==
    ASSUME NEW s \in Seq(Statement), \A i, j \in 1 .. Len(s) : s[i] = s[j] => i = j
    PROVE  /\ Len(s) \in Nat /\ Cardinality(Statement) \in Nat
           /\ Len(s) <= Cardinality(Statement)
<1>1. s \in Injection(1 .. Len(s), Statement)
  BY DEF Injection, IsInjective
<1>2. Cardinality(1 .. Len(s)) = Len(s) /\ Len(s) \in Nat
  BY FS_Interval
<1>3. Cardinality(1 .. Len(s)) <= Cardinality(Statement)
  BY <1>1, FS_Injection, TreeAssumption
<1>. QED
  BY <1>2, <1>3, FS_CardinalityType, TreeAssumption

\* The links lead along a sequence.
Chain(from, link, s) ==
    /\ s \in Seq(Statement) /\ \A i, j \in 1 .. Len(s) : s[i] = s[j] => i = j
    /\ from = IF Len(s) = 0 THEN None ELSE s[1]
    /\ \A i \in 1 .. Len(s) : link[s[i]] = IF i = Len(s) THEN None ELSE s[i + 1]

\* An iteration meets the elements of the sequence along which the links lead.
LEMMA WalkMeets ==
    ASSUME NEW s, NEW from, NEW link, Chain(from, link, s)
    PROVE  Walk(from, link) = s
<1>0. s \in Seq(Statement) /\ \A i, j \in 1 .. Len(s) : s[i] = s[j] => i = j
  BY DEF Chain
<1>. DEFINE m == Len(s)
            N == Cardinality(Statement)
            Eq(g) == g = [n \in Nat |-> IF n = 0 THEN from ELSE IF g[n - 1] = None THEN None ELSE link[g[n - 1]]]
            at == CHOOSE g : Eq(g)
            f == [n \in Nat |-> IF n < m THEN s[n + 1] ELSE None]
<1>1. m \in Nat /\ N \in Nat /\ m <= N /\ \A i \in 1 .. m : s[i] # None
  BY <1>0, FewStatements, TreeAssumption
<1>2. from = (IF m = 0 THEN None ELSE s[1]) /\ \A i \in 1 .. m : link[s[i]] = IF i = m THEN None ELSE s[i + 1]
  BY DEF Chain
<1>3. s = [i \in 1 .. m |-> s[i]]
  BY <1>0
<1>. HIDE DEF m
<1>4. ASSUME NEW n \in Nat PROVE f[n] = IF n = 0 THEN from ELSE IF f[n - 1] = None THEN None ELSE link[f[n - 1]]
  <2>1. CASE n = 0
    BY <1>1, <1>2, <2>1
  <2>2. CASE n # 0 /\ n <= m
    <3>1. n - 1 \in Nat /\ n - 1 < m /\ (n - 1) + 1 = n /\ n \in 1 .. m /\ (n = m <=> ~(n < m))
      BY <1>1, <2>2
    <3>2. f[n - 1] = s[n] /\ s[n] # None
      BY <1>1, <3>1
    <3>3. f[n] = IF n = m THEN None ELSE s[n + 1]
      BY <3>1
    <3>. QED
      BY <1>2, <2>2, <3>1, <3>2, <3>3
  <2>3. CASE n # 0 /\ ~(n <= m)
    <3>1. n - 1 \in Nat /\ ~(n - 1 < m) /\ ~(n < m)
      BY <1>1, <2>3
    <3>. QED
      BY <2>3, <3>1
  <2>. QED
    BY <2>1, <2>2, <2>3
<1>5. Eq(f)
  <2>. DEFINE e == [n \in Nat |-> IF n = 0 THEN from ELSE IF f[n - 1] = None THEN None ELSE link[f[n - 1]]]
  <2>1. \A n \in Nat : f[n] = e[n]
    BY <1>4
  <2>2. f = e
    <3>1. f = [n \in Nat |-> f[n]] /\ e = [n \in Nat |-> e[n]]
      OBVIOUS
    <3>. HIDE DEF f, e
    <3>. QED
      BY <2>1, <3>1
  <2>. QED
    BY <2>2
<1>6. Eq(at)
  <2>. HIDE DEF Eq, f
  <2>. QED
    BY <1>5
<1>7. \A n \in Nat : at[n] = IF n = 0 THEN from ELSE IF at[n - 1] = None THEN None ELSE link[at[n - 1]]
  <2>. HIDE DEF at
  <2>. QED
    BY <1>6
<1>8. Walk(from, link) = [i \in 1 .. Cardinality({n \in 0 .. N : at[n] # None}) |-> at[i - 1]]
  BY DEF Walk
<1>. HIDE DEF at, f
<1>. DEFINE Bad == {n \in Nat : at[n] # f[n]}
<1>9. Bad = {}
  <2>. SUFFICES ASSUME Bad # {} PROVE FALSE
    OBVIOUS
  <2>1. PICK n \in Bad : \A k \in Bad : n <= k
    <3>1. Bad \in SUBSET Nat
      OBVIOUS
    <3>. HIDE DEF Bad
    <3>. QED
      BY <3>1, LeastNumber
  <2>2. n # 0
    BY <1>4, <1>7, <2>1
  <2>3. n - 1 \in Nat /\ n - 1 \notin Bad
    BY <2>1, <2>2
  <2>4. at[n - 1] = f[n - 1]
    BY <2>3
  <2>. QED
    BY <1>4, <1>7, <2>1, <2>2, <2>4
<1>10. \A n \in Nat : at[n] = IF n < m THEN s[n + 1] ELSE None
  BY <1>9 DEF f
<1>11. {n \in 0 .. N : at[n] # None} = 0 .. (m - 1)
  <2>1. ASSUME NEW n \in 0 .. N, n < m PROVE at[n] # None /\ n \in 0 .. (m - 1)
    <3>1. n + 1 \in 1 .. m /\ n \in 0 .. (m - 1) /\ n \in Nat
      BY <1>1, <2>1
    <3>. QED
      BY <1>1, <1>10, <2>1, <3>1
  <2>2. ASSUME NEW n \in 0 .. N, ~(n < m) PROVE at[n] = None /\ n \notin 0 .. (m - 1)
    BY <1>1, <1>10, <2>2
  <2>3. \A n \in 0 .. (m - 1) : n \in 0 .. N
    BY <1>1
  <2>. QED
    BY <2>1, <2>2, <2>3
<1>12. Cardinality(0 .. (m - 1)) = m
  <2>1. 0 \in Int /\ m - 1 \in Int /\ (IF 0 > m - 1 THEN 0 ELSE ((m - 1) - 0) + 1) = m
    BY <1>1
  <2>2. Cardinality(0 .. (m - 1)) = IF 0 > m - 1 THEN 0 ELSE ((m - 1) - 0) + 1
    BY <2>1, FS_Interval
  <2>. QED
    BY <2>1, <2>2
<1>13. \A i \in 1 .. m : at[i - 1] = s[i]
  <2>1. \A i \in 1 .. m : i - 1 \in Nat /\ i - 1 < m /\ (i - 1) + 1 = i
    BY <1>1
  <2>. QED
    BY <1>10, <2>1
<1>14. Walk(from, link) = [i \in 1 .. m |-> at[i - 1]]
  BY <1>8, <1>11, <1>12
<1>. QED
  BY <1>3, <1>13, <1>14

\* The contents of the heap are the sequences that it represents.
LEMMA RepresentsContents ==
    ASSUME NEW h, NEW q, Represents(h, q)
    PROVE  ContentsOf(h) = q
<1>1. ASSUME NEW l \in List PROVE Walk(h.first[l], h.next) = q[l]
  <2>1. Chain(h.first[l], h.next, q[l])
    BY Elements, Ends DEF Chain
  <2>. QED
    BY <2>1, WalkMeets, Zenon
<1>2. q = [l \in List |-> q[l]]
  BY DEF Represents
<1>. QED
  BY <1>1, <1>2 DEF ContentsOf

\* The five kinds of pointers of such a heap agree.
LEMMA RepresentsWellLinked ==
    ASSUME Represents(heap, Contents)
    PROVE  WellLinked
<1>. DEFINE q == Contents
            h == heap
<1>0. Represents(h, q)
  OBVIOUS
<1>. HIDE DEF q, h
<1>1. ASSUME NEW l \in List
      PROVE  Walk(h.last[l], h.previous) = [i \in 1 .. Len(q[l]) |-> q[l][(Len(q[l]) + 1) - i]]
  <2>0. /\ h.last[l] = IF Len(q[l]) = 0 THEN None ELSE q[l][Len(q[l])]
        /\ \A i \in 1 .. Len(q[l]) : h.previous[q[l][i]] = IF i = 1 THEN None ELSE q[l][i - 1]
        /\ \A i, j \in 1 .. Len(q[l]) : q[l][i] = q[l][j] => i = j
    BY <1>0, Ends
  <2>. DEFINE n == Len(q[l])
              t == [i \in 1 .. n |-> q[l][(n + 1) - i]]
              from == h.last[l]
              link == h.previous
  <2>1. n \in Nat /\ q[l] \in Seq(Statement) /\ \A i \in 1 .. n : q[l][i] \in Statement
    BY <1>0, Elements
  <2>2. /\ from = (IF n = 0 THEN None ELSE q[l][n])
        /\ \A i \in 1 .. n : link[q[l][i]] = IF i = 1 THEN None ELSE q[l][i - 1]
        /\ \A i, j \in 1 .. n : q[l][i] = q[l][j] => i = j
    BY <2>0
  <2>. HIDE DEF n, from, link
  <2>3. \A i \in 1 .. n : (n + 1) - i \in 1 .. n
    BY <2>1
  <2>4. t \in Seq(Statement) /\ Len(t) = n
    <3>1. t \in [1 .. n -> Statement]
      BY <2>1, <2>3
    <3>. HIDE DEF t
    <3>. QED
      BY <2>1, <3>1
  <2>5. \A i \in 1 .. n : t[i] = q[l][(n + 1) - i]
    OBVIOUS
  <2>. HIDE DEF t
  <2>6. \A i, j \in 1 .. n : t[i] = t[j] => i = j
    <3>. SUFFICES ASSUME NEW i \in 1 .. n, NEW j \in 1 .. n, t[i] = t[j] PROVE i = j
      OBVIOUS
    <3>1. (n + 1) - i = (n + 1) - j
      BY <2>2, <2>3, <2>5
    <3>. QED
      BY <2>1, <3>1
  <2>7. from = IF n = 0 THEN None ELSE t[1]
    <3>1. n # 0 => 1 \in 1 .. n /\ (n + 1) - 1 = n
      BY <2>1
    <3>. QED
      BY <2>2, <2>5, <3>1
  <2>8. ASSUME NEW i \in 1 .. n PROVE link[t[i]] = IF i = n THEN None ELSE t[i + 1]
    <3>1. /\ (n + 1) - i \in 1 .. n /\ ((n + 1) - i = 1 <=> i = n)
          /\ (i # n => i + 1 \in 1 .. n /\ (n + 1) - (i + 1) = ((n + 1) - i) - 1)
      BY <2>1
    <3>2. link[t[i]] = IF (n + 1) - i = 1 THEN None ELSE q[l][((n + 1) - i) - 1]
      BY <2>2, <2>5, <3>1
    <3>. QED
      BY <2>5, <3>1, <3>2
  <2>9. Chain(from, link, t)
    BY <2>4, <2>6, <2>7, <2>8 DEF Chain
  <2>10. Walk(from, link) = t
    BY <2>9, WalkMeets, Zenon
  <2>. QED
    BY <2>10 DEF from, link, t, n
<1>2. ASSUME NEW s \in Statement, NEW l \in List
      PROVE  h.list[s] = l <=> \E i \in DOMAIN q[l] : q[l][i] = s
  <2>1. DOMAIN q[l] = 1 .. Len(q[l]) /\ \A i \in 1 .. Len(q[l]) : h.list[q[l][i]] = l
    BY <1>0, Elements
  <2>2. \A x \in Statement : h.list[x] = l => \E i \in 1 .. Len(q[l]) : q[l][i] = x
    BY <1>0, Ends
  <2>. QED
    BY <2>1, <2>2
<1>3. \A s \in Statement : h.list[s] = None => h.previous[s] = None /\ h.next[s] = None
  BY <1>0 DEF Represents
<1>4. ASSUME NEW l \in List, NEW n, n = Len(q[l])
      PROVE  Walk(h.last[l], h.previous) = [i \in 1 .. n |-> q[l][n + 1 - i]]
  <2>1. n \in Nat /\ \A i \in 1 .. n : n + 1 - i = (n + 1) - i
    BY <1>0, <1>4, Elements
  <2>. QED
    BY <1>1, <1>4, <2>1
<1>. QED
  BY <1>2, <1>3, <1>4, ZenonT(60) DEF WellLinked, q, h

\* Nothing has moved.
LEMMA MovedNone ==
    ASSUME NEW q \in [List -> Seq(Statement)], NEW l \in List, NEW that \in List, NEW p \in 0 .. Len(q[l]),
           NEW lo \in Int, lo = 1 \/ lo = Len(q[that]) + 1
    PROVE  Moved(q, l, p, that, lo, 0, q)
<1>. DEFINE a == Len(q[l])
            b == Len(q[that])
<1>1. a \in Nat /\ b \in Nat /\ p \in 0 .. a /\ a + 0 = a /\ b - 0 = b
  OBVIOUS
<1>. HIDE DEF a, b
<1>2. \A j \in 1 .. (a + 0) : q[l][j] = IF j <= p THEN q[l][j] ELSE IF j <= p + 0 THEN q[that][(j - p) + (lo - 1)] ELSE q[l][j - 0]
  BY <1>1
<1>3. \A j \in 1 .. (b - 0) : q[that][j] = IF j < lo THEN q[that][j] ELSE q[that][j + 0]
  BY <1>1
<1>. QED
  BY <1>1, <1>2, <1>3 DEF Moved, a, b

\* Taking a statement out of one list and linking it into another moves it.
LEMMA MoveOne ==
    ASSUME NEW g, NEW r, Represents(g, r), NEW l \in List, NEW that \in List, l # that,
           NEW i \in 1 .. Len(r[that]), NEW f, LinkedOut(g, r, that, i, f),
           NEW u, u = [r EXCEPT ![that] = Sequences_!RemoveAt(r[that], i)]
    PROVE  /\ Represents(f, u) /\ u[l] = r[l] /\ r[that][i] \in Statement /\ f.list[r[that][i]] = None
           /\ \A n \in 1 .. (Len(r[l]) + 1) : \A e :
                LinkedIn(f, u, l, n, r[that][i], e) => Represents(e, OneMoved(r, l, n, that, i))
<1>. DEFINE s == r[that][i]
<1>1. Represents(f, u)
  BY LinkedOutRepresents
<1>2. s \in Statement
  BY Elements
<1>3. f.list[s] = None
  BY <1>2 DEF LinkedOut
<1>4. r \in [List -> Seq(Statement)] /\ u \in [List -> Seq(Statement)]
  BY <1>1 DEF Represents
<1>5. u[l] = r[l]
  BY <1>4
<1>6. ASSUME NEW n \in 1 .. (Len(r[l]) + 1), NEW e, LinkedIn(f, u, l, n, s, e)
      PROVE  Represents(e, OneMoved(r, l, n, that, i))
  <2>. HIDE DEF s
  <2>1. n \in 1 .. (Len(u[l]) + 1)
    BY <1>5
  <2>2. Represents(e, [u EXCEPT ![l] = Sequences_!InsertAt(u[l], n, s)])
    BY <1>1, <1>2, <1>3, <1>6, <2>1, LinkedInRepresents
  <2>3. [u EXCEPT ![l] = Sequences_!InsertAt(u[l], n, s)] = OneMoved(r, l, n, that, i)
    BY <1>5 DEF OneMoved, s
  <2>. QED
    BY <2>2, <2>3
<1>. QED
  BY <1>1, <1>2, <1>3, <1>5, <1>6

\* The heap holds the sequences q after c statements have moved.
InMove(q, l, p, that, lo, c) == {g \in Heap : \E r : Represents(g, r) /\ Moved(q, l, p, that, lo, c, r)}

\* The list has more statements to move if not all have.
LEMMA MoreToMove ==
    ASSUME NEW q, NEW l \in List, NEW p, NEW that \in List, NEW lo, NEW c \in Nat, NEW g, NEW r,
           Represents(g, r), Moved(q, l, p, that, lo, c, r), Len(q[that]) \in Nat
    PROVE  /\ c <= Len(q[that])
           /\ g.first[that] = None <=> c = Len(q[that])
           /\ c < Len(q[that]) => /\ g.first[that] = r[that][1]
                                  /\ g.last[that] = r[that][Len(r[that])]
                                  /\ Len(r[that]) # 0
<1>. DEFINE n == Len(r[that])
<1>1. n \in Nat /\ n = Len(q[that]) - c /\ \A i \in 1 .. n : r[that][i] # None
  BY Elements, Ends DEF Moved
<1>2. /\ g.first[that] = IF n = 0 THEN None ELSE r[that][1]
      /\ g.last[that] = IF n = 0 THEN None ELSE r[that][n]
  BY Ends
<1>. HIDE DEF n
<1>3. c <= Len(q[that]) /\ (n = 0 <=> c = Len(q[that])) /\ (n # 0 => 1 \in 1 .. n)
  BY <1>1
<1>. QED
  BY <1>1, <1>2, <1>3 DEF n

\* A loop that moves one statement in each round, as long as there is one, moves the whole list.
LEMMA MoveLoop ==
    ASSUME NEW h, NEW q, Represents(h, q), NEW l \in List, NEW that \in List, NEW p \in 0 .. Len(q[l]),
           NEW lo, lo[0] \in Int, lo[0] = 1 \/ lo[0] = Len(q[that]) + 1, NEW round,
           \A g \in Heap : g.first[that] = None => round[g] = g,
           \A c \in Nat : \A g, r :
             c < Len(q[that]) /\ Represents(g, r) /\ Moved(q, l, p, that, lo[c], c, r)
                => round[g] \in InMove(q, l, p, that, lo[c + 1], c + 1)
    PROVE  Repeat(round, Cardinality(Statement), h) \in InMove(q, l, p, that, lo[Len(q[that])], Len(q[that]))
<1>. DEFINE m == Len(q[that])
            N == Cardinality(Statement)
            Stage == [c \in 0 .. m |-> InMove(q, l, p, that, lo[c], c)]
<1>1. q \in [List -> Seq(Statement)] /\ h \in Heap
  BY DEF Represents
<1>2. m \in Nat /\ N \in Nat /\ m <= N
  BY Elements, Ends, FewStatements
<1>3. h \in Stage[0]
  <2>1. Moved(q, l, p, that, lo[0], 0, q)
    BY <1>1, MovedNone
  <2>. QED
    BY <1>1, <1>2, <2>1 DEF InMove
<1>4. ASSUME NEW c \in 0 .. (m - 1), NEW g \in Stage[c] PROVE round[g] \in Stage[c + 1]
  <2>1. c \in Nat /\ c < m /\ c \in 0 .. m /\ c + 1 \in 0 .. m
    BY <1>2
  <2>2. PICK r : Represents(g, r) /\ Moved(q, l, p, that, lo[c], c, r)
    BY <2>1 DEF InMove
  <2>3. round[g] \in InMove(q, l, p, that, lo[c + 1], c + 1)
    BY <2>1, <2>2
  <2>. QED
    BY <2>1, <2>3
<1>5. ASSUME NEW g \in Stage[m] PROVE round[g] = g
  <2>1. PICK r : Represents(g, r) /\ Moved(q, l, p, that, lo[m], m, r)
    BY <1>2 DEF InMove
  <2>2. g \in Heap
    BY <2>1 DEF Represents
  <2>3. g.first[that] = None
    BY <1>2, <2>1, MoreToMove
  <2>. QED
    BY <2>2, <2>3
<1>6. DOMAIN Stage = 0 .. m /\ Stage[m] = InMove(q, l, p, that, lo[m], m)
  BY <1>2
<1>7. (\A c \in 0 .. (m - 1) : \A g \in Stage[c] : round[g] \in Stage[c + 1]) /\ \A g \in Stage[m] : round[g] = g
  BY <1>4, <1>5
<1>. HIDE DEF m, N, Stage
<1>8. Repeat(round, N, h) \in Stage[m]
  BY <1>2, <1>3, <1>6, <1>7, RepeatStages
<1>. QED
  BY <1>6, <1>8 DEF m, N

\* push_back_all moves the statements of a list, the first one first, behind those of the other.
LEMMA PushBackAllMoves ==
    ASSUME NEW h, NEW q, Represents(h, q), NEW l \in List, NEW that \in List, l # that
    PROVE  push_back_all(h, l, that) \in InMove(q, l, Len(q[l]), that, 1, Len(q[that]))
<1>. DEFINE m == Len(q[that])
            p == Len(q[l])
            lo == [c \in Nat |-> 1]
            round == [g \in Heap |-> IF g.first[that] = None THEN g ELSE push_back(pop_front(g, that), l, g.first[that])]
<1>1. q \in [List -> Seq(Statement)] /\ m \in Nat /\ p \in Nat /\ p \in 0 .. Len(q[l])
  BY Elements DEF Represents
<1>2. ASSUME NEW c \in Nat, NEW g, NEW r, c < m, Represents(g, r), Moved(q, l, p, that, 1, c, r)
      PROVE  round[g] \in InMove(q, l, p, that, 1, c + 1)
  <2>1. g \in Heap
    BY <1>2 DEF Represents
  <2>2. g.first[that] = r[that][1] /\ Len(r[that]) # 0 /\ g.first[that] # None
    BY <1>1, <1>2, MoreToMove
  <2>. DEFINE s == r[that][1]
              f == pop_front(g, that)
              n == (p + c) + 1
              u == [r EXCEPT ![that] = Sequences_!RemoveAt(r[that], 1)]
              e == push_back(f, l, s)
              v == OneMoved(r, l, n, that, 1)
  <2>3. round[g] = e
    BY <2>1, <2>2
  <2>4. 1 \in 1 .. Len(r[that]) /\ n \in 1 .. (Len(r[l]) + 1) /\ Moved(q, l, p, that, 1, c + 1, v)
    BY <1>1, <1>2, MovedNext
  <2>5. LinkedOut(g, r, that, 1, f)
    BY <1>2, <2>2, PopLinks
  <2>6. /\ Represents(f, u) /\ u[l] = r[l] /\ s \in Statement /\ f.list[s] = None
        /\ \A k \in 1 .. (Len(r[l]) + 1) : \A d : LinkedIn(f, u, l, k, s, d) => Represents(d, OneMoved(r, l, k, that, 1))
    <3>. HIDE DEF f
    <3>. QED
      BY <1>2, <2>4, <2>5, MoveOne, ZenonT(60)
  <2>7. n = Len(u[l]) + 1
    <3>1. Len(r[l]) = p + c
      BY <1>2 DEF Moved
    <3>. QED
      BY <2>6, <3>1
  <2>. HIDE DEF s, f, u, n, v
  <2>8. LinkedIn(f, u, l, n, s, e)
    BY <2>6, <2>7, PushBackLinks
  <2>. HIDE DEF e
  <2>9. Represents(e, v)
    BY <2>4, <2>6, <2>8 DEF v
  <2>10. e \in Heap
    BY <2>9 DEF Represents
  <2>. QED
    BY <2>3, <2>4, <2>9, <2>10 DEF InMove
<1>3. \A g \in Heap : g.first[that] = None => round[g] = g
  OBVIOUS
<1>4. lo[0] = 1 /\ lo[0] \in Int /\ lo[m] = 1 /\ \A c \in Nat : lo[c] = 1 /\ lo[c + 1] = 1
  BY <1>1
<1>5. push_back_all(h, l, that) = Repeat(round, Cardinality(Statement), h)
  BY DEF push_back_all
<1>. HIDE DEF round, lo, p
<1>6. \A c \in Nat : \A g, r :
        c < Len(q[that]) /\ Represents(g, r) /\ Moved(q, l, p, that, lo[c], c, r)
           => round[g] \in InMove(q, l, p, that, lo[c + 1], c + 1)
  BY <1>2, <1>4
<1>7. Repeat(round, Cardinality(Statement), h) \in InMove(q, l, p, that, lo[Len(q[that])], Len(q[that]))
  BY <1>1, <1>3, <1>4, <1>6, MoveLoop
<1>. QED
  BY <1>4, <1>5, <1>7 DEF p

\* insert_all moves them in front of the statement number p + 1 of the other list.
LEMMA InsertAllMoves ==
    ASSUME NEW h, NEW q, Represents(h, q), NEW l \in List, NEW that \in List, l # that,
           NEW p \in Nat, p < Len(q[l])
    PROVE  insert_all(h, l, q[l][p + 1], that) \in InMove(q, l, p, that, 1, Len(q[that]))
<1>. DEFINE m == Len(q[that])
            at == q[l][p + 1]
            lo == [c \in Nat |-> 1]
            round == [g \in Heap |-> IF g.first[that] = None THEN g ELSE insert(erase(g, g.first[that]), l, at, g.first[that])]
<1>1. q \in [List -> Seq(Statement)] /\ m \in Nat /\ Len(q[l]) \in Nat /\ p \in 0 .. Len(q[l])
  BY Elements DEF Represents
<1>2. ASSUME NEW c \in Nat, NEW g, NEW r, c < m, Represents(g, r), Moved(q, l, p, that, 1, c, r)
      PROVE  round[g] \in InMove(q, l, p, that, 1, c + 1)
  <2>1. g \in Heap
    BY <1>2 DEF Represents
  <2>2. g.first[that] = r[that][1] /\ Len(r[that]) # 0 /\ g.first[that] # None
    BY <1>1, <1>2, MoreToMove
  <2>. DEFINE s == r[that][1]
              f == erase(g, s)
              n == (p + c) + 1
              u == [r EXCEPT ![that] = Sequences_!RemoveAt(r[that], 1)]
              e == insert(f, l, at, s)
              v == OneMoved(r, l, n, that, 1)
  <2>3. round[g] = e
    BY <2>1, <2>2
  <2>4. 1 \in 1 .. Len(r[that]) /\ n \in 1 .. (Len(r[l]) + 1) /\ Moved(q, l, p, that, 1, c + 1, v)
    BY <1>1, <1>2, MovedNext
  <2>5. LinkedOut(g, r, that, 1, f)
    BY <1>2, <2>4, EraseLinks
  <2>6. /\ Represents(f, u) /\ u[l] = r[l] /\ s \in Statement /\ f.list[s] = None
        /\ \A k \in 1 .. (Len(r[l]) + 1) : \A d : LinkedIn(f, u, l, k, s, d) => Represents(d, OneMoved(r, l, k, that, 1))
    <3>. HIDE DEF f
    <3>. QED
      BY <1>2, <2>4, <2>5, MoveOne, ZenonT(60)
  <2>7. n \in 1 .. Len(u[l]) /\ u[l][n] = at
    <3>. DEFINE a == Len(q[l])
    <3>1. Len(r[l]) = a + c /\ \A j \in 1 .. (a + c) :
            r[l][j] = IF j <= p THEN q[l][j] ELSE IF j <= p + c THEN q[that][(j - p) + (1 - 1)] ELSE q[l][j - c]
      BY <1>2 DEF Moved
    <3>. HIDE DEF a
    <3>2. n \in 1 .. (a + c) /\ ~(n <= p) /\ ~(n <= p + c) /\ n - c = p + 1
      BY <1>1 DEF a
    <3>3. r[l][n] = q[l][p + 1]
      <4>. HIDE DEF n
      <4>. QED
        BY <3>1, <3>2
    <3>. QED
      BY <2>6, <3>1, <3>2, <3>3
  <2>. HIDE DEF s, f, u, n, v, at
  <2>8. LinkedIn(f, u, l, n, s, e)
    BY <2>6, <2>7, InsertLinks
  <2>. HIDE DEF e
  <2>9. Represents(e, v)
    BY <2>4, <2>6, <2>8 DEF v
  <2>10. e \in Heap
    BY <2>9 DEF Represents
  <2>. QED
    BY <2>3, <2>4, <2>9, <2>10 DEF InMove
<1>3. \A g \in Heap : g.first[that] = None => round[g] = g
  OBVIOUS
<1>4. lo[0] = 1 /\ lo[0] \in Int /\ lo[m] = 1 /\ \A c \in Nat : lo[c] = 1 /\ lo[c + 1] = 1
  BY <1>1
<1>5. insert_all(h, l, at, that) = Repeat(round, Cardinality(Statement), h)
  BY DEF insert_all
<1>. HIDE DEF round, lo, at
<1>6. \A c \in Nat : \A g, r :
        c < Len(q[that]) /\ Represents(g, r) /\ Moved(q, l, p, that, lo[c], c, r)
           => round[g] \in InMove(q, l, p, that, lo[c + 1], c + 1)
  BY <1>2, <1>4
<1>7. Repeat(round, Cardinality(Statement), h) \in InMove(q, l, p, that, lo[Len(q[that])], Len(q[that]))
  BY <1>1, <1>3, <1>4, <1>6, MoveLoop
<1>. QED
  BY <1>4, <1>5, <1>7 DEF at

\* push_front_all moves them, the last one first, in front of those of the other list.
LEMMA PushFrontAllMoves ==
    ASSUME NEW h, NEW q, Represents(h, q), NEW l \in List, NEW that \in List, l # that
    PROVE  push_front_all(h, l, that) \in InMove(q, l, 0, that, 1, Len(q[that]))
<1>. DEFINE m == Len(q[that])
            lo == [c \in Nat |-> (m - c) + 1]
            round == [g \in Heap |-> IF g.first[that] = None THEN g ELSE push_front(pop_back(g, that), l, g.last[that])]
<1>1. q \in [List -> Seq(Statement)] /\ m \in Nat /\ Len(q[l]) \in Nat /\ 0 \in 0 .. Len(q[l])
  BY Elements DEF Represents
<1>2. ASSUME NEW c \in Nat, NEW g, NEW r, c < m, Represents(g, r), Moved(q, l, 0, that, (m - c) + 1, c, r)
      PROVE  round[g] \in InMove(q, l, 0, that, (m - (c + 1)) + 1, c + 1)
  <2>. DEFINE i == Len(r[that])
  <2>1. g \in Heap
    BY <1>2 DEF Represents
  <2>2. g.last[that] = r[that][i] /\ Len(r[that]) # 0 /\ g.first[that] # None
    BY <1>1, <1>2, MoreToMove
  <2>. DEFINE s == r[that][i]
              f == pop_back(g, that)
              u == [r EXCEPT ![that] = Sequences_!RemoveAt(r[that], i)]
              e == push_front(f, l, s)
              v == OneMoved(r, l, 1, that, i)
  <2>3. round[g] = e
    BY <2>1, <2>2
  <2>4. i \in 1 .. Len(r[that]) /\ 1 \in 1 .. (Len(r[l]) + 1) /\ Moved(q, l, 0, that, (m - (c + 1)) + 1, c + 1, v)
    BY <1>1, <1>2, MovedBefore
  <2>5. LinkedOut(g, r, that, i, f)
    BY <1>2, <2>2, PopLinks
  <2>6. /\ Represents(f, u) /\ u[l] = r[l] /\ s \in Statement /\ f.list[s] = None
        /\ \A k \in 1 .. (Len(r[l]) + 1) : \A d : LinkedIn(f, u, l, k, s, d) => Represents(d, OneMoved(r, l, k, that, i))
    <3>. HIDE DEF f, i
    <3>. QED
      BY <1>2, <2>4, <2>5, MoveOne
  <2>. HIDE DEF s, f, u, i, v
  <2>8. LinkedIn(f, u, l, 1, s, e)
    BY <2>6, PushFrontLinks
  <2>. HIDE DEF e
  <2>9. Represents(e, v)
    BY <2>4, <2>6, <2>8 DEF v
  <2>10. e \in Heap
    BY <2>9 DEF Represents
  <2>. QED
    BY <2>3, <2>4, <2>9, <2>10 DEF InMove
<1>3. \A g \in Heap : g.first[that] = None => round[g] = g
  OBVIOUS
<1>4. /\ lo[0] = m + 1 /\ lo[m] = 1 /\ lo[0] \in Int
      /\ \A c \in Nat : lo[c] = (m - c) + 1 /\ lo[c + 1] = (m - (c + 1)) + 1
  <2>. HIDE DEF m
  <2>. QED
    BY <1>1
<1>5. push_front_all(h, l, that) = Repeat(round, Cardinality(Statement), h)
  BY DEF push_front_all
<1>. HIDE DEF round, lo
<1>6. \A c \in Nat : \A g, r :
        c < Len(q[that]) /\ Represents(g, r) /\ Moved(q, l, 0, that, lo[c], c, r)
           => round[g] \in InMove(q, l, 0, that, lo[c + 1], c + 1)
  BY <1>2, <1>4
<1>7. Repeat(round, Cardinality(Statement), h) \in InMove(q, l, 0, that, lo[Len(q[that])], Len(q[that]))
  BY <1>1, <1>3, <1>4, <1>6, MoveLoop
<1>. QED
  BY <1>4, <1>5, <1>7

\* The sequences when a whole list has moved.
Spliced(q, l, p, that) ==
    [q EXCEPT ![l] = SubSeq(q[l], 1, p) \o q[that] \o SubSeq(q[l], p + 1, Len(q[l])), ![that] = <<>>]

\* Once all statements of a list have moved, it is spliced into the other.
LEMMA MovedAll ==
    ASSUME NEW q \in [List -> Seq(Statement)], NEW l \in List, NEW that \in List, l # that,
           NEW p \in 0 .. Len(q[l]), NEW r, Moved(q, l, p, that, 1, Len(q[that]), r)
    PROVE  r = Spliced(q, l, p, that)
<1>. DEFINE a == q[l]
            b == q[that]
            m == Len(b)
            t == SubSeq(a, 1, p) \o b \o SubSeq(a, p + 1, Len(a))
<1>1. a \in Seq(Statement) /\ b \in Seq(Statement) /\ p \in 0 .. Len(a) /\ Len(a) \in Nat /\ m \in Nat
  OBVIOUS
<1>2. /\ r \in [List -> Seq(Statement)] /\ \A k \in List \ {l, that} : r[k] = q[k]
      /\ Len(r[l]) = Len(a) + m /\ Len(r[that]) = m - m
  BY DEF Moved
<1>3. \A j \in 1 .. (Len(a) + m) : r[l][j] = IF j <= p THEN a[j] ELSE IF j <= p + m THEN b[(j - p) + (1 - 1)] ELSE a[j - m]
  BY DEF Moved
<1>. HIDE DEF a, b
<1>4. /\ t \in Seq(Statement) /\ Len(t) = Len(a) + Len(b)
      /\ \A j \in 1 .. Len(t) : t[j] = IF j <= p THEN a[j] ELSE IF j <= p + Len(b) THEN b[j - p] ELSE a[j - Len(b)]
  BY <1>1, PutIn
<1>. HIDE DEF m, t
<1>5. Len(b) = m
  BY DEF m
<1>6. \A j \in 1 .. (Len(a) + m) : (j - p) + (1 - 1) = j - p
  BY <1>1
<1>7. \A j \in 1 .. (Len(a) + m) : r[l][j] = t[j]
  BY <1>3, <1>4, <1>5, <1>6
<1>8. r[l] = t
  <2>. DEFINE x == r[l]
  <2>1. x \in Seq(Statement) /\ Len(x) = Len(t) /\ \A j \in 1 .. Len(x) : x[j] = t[j]
    BY <1>2, <1>4, <1>5, <1>7
  <2>. HIDE DEF x
  <2>2. x = t
    BY <1>4, <2>1, SeqEqual
  <2>. QED
    BY <2>2 DEF x
<1>9. r[that] = <<>>
  <2>. DEFINE x == r[that]
  <2>1. x \in Seq(Statement) /\ Len(x) = 0
    BY <1>1, <1>2
  <2>. HIDE DEF x
  <2>2. x = <<>>
    BY <2>1
  <2>. QED
    BY <2>2 DEF x
<1>. DEFINE v == Spliced(q, l, p, that)
<1>10. v = [q EXCEPT ![l] = t, ![that] = <<>>]
  BY DEF Spliced, t, a, b
<1>11. \A k \in List : v[k] = r[k]
  BY <1>2, <1>8, <1>9, <1>10
<1>12. v = [k \in List |-> v[k]] /\ r = [k \in List |-> r[k]]
  BY <1>2, <1>10
<1>. HIDE DEF v
<1>13. v = r
  BY <1>11, <1>12
<1>. QED
  BY <1>13 DEF v

\* The operations on two lists move one of them into the other.
LEMMA MoveRepresents ==
    ASSUME NEW h, NEW q, Represents(h, q), NEW l \in List, NEW that \in List, l # that, NEW p \in 0 .. Len(q[l]),
           NEW g \in InMove(q, l, p, that, 1, Len(q[that]))
    PROVE  Represents(g, Spliced(q, l, p, that))
<1>1. q \in [List -> Seq(Statement)]
  BY DEF Represents
<1>2. PICK r : Represents(g, r) /\ Moved(q, l, p, that, 1, Len(q[that]), r)
  BY DEF InMove
<1>3. r = Spliced(q, l, p, that)
  BY <1>1, <1>2, MovedAll
<1>. QED
  BY <1>2, <1>3

-----------------------------------------------------------------------------
(***************************************************************************)
(* The tree                                                                *)
(***************************************************************************)
\* A set of statements that has the parents of all lists its statements are in.
Upwards(h, P) == \A p \in P : h.list[p] # None => Owner[h.list[p]] \in P \cup {None}

\* The parents of a list are the least such set with the one that owns it.
LEMMA ParentsLeast ==
    ASSUME NEW h \in Heap, NEW l \in List
    PROVE  /\ Parents(h, l) \in SUBSET Statement
           /\ Owner[l] \in Parents(h, l) \cup {None}
           /\ Upwards(h, Parents(h, l))
           /\ \A P \in SUBSET Statement : Owner[l] \in P \cup {None} /\ Upwards(h, P) => Parents(h, l) \subseteq P
<1>1. Parents(h, l) = {s \in Statement : \A P \in SUBSET Statement :
                         Owner[l] \in P \cup {None} /\ Upwards(h, P) => s \in P}
  BY DEF Parents, Upwards
<1>2. Owner[l] \in Statement \cup {None}
  BY TreeAssumption
<1>3. Owner[l] \in Parents(h, l) \cup {None}
  BY <1>1, <1>2
<1>4. ASSUME NEW p \in Parents(h, l), h.list[p] # None PROVE Owner[h.list[p]] \in Parents(h, l) \cup {None}
  <2>. DEFINE o == Owner[h.list[p]]
  <2>1. p \in Statement
    BY <1>1
  <2>2. h.list[p] \in List
    BY <1>4, <2>1, HeapType
  <2>3. o \in Statement \cup {None}
    BY <2>2, TreeAssumption
  <2>. SUFFICES ASSUME o # None PROVE o \in Parents(h, l)
    OBVIOUS
  <2>4. ASSUME NEW P \in SUBSET Statement, Owner[l] \in P \cup {None}, Upwards(h, P) PROVE o \in P
    <3>1. p \in P
      BY <1>1, <2>4
    <3>. QED
      BY <1>4, <2>4, <3>1 DEF Upwards
  <2>. QED
    BY <1>1, <2>3, <2>4
<1>. QED
  BY <1>1, <1>3, <1>4 DEF Upwards

\* The parents of a list that has a parent are those of the list this one is in, and itself.
LEMMA ParentsAbove ==
    ASSUME NEW h \in Heap, NEW b \in List, Owner[b] \in Statement
    PROVE  /\ Owner[b] \in Parents(h, b)
           /\ \A k \in List : h.list[Owner[b]] = k => Parents(h, k) \subseteq Parents(h, b)
<1>1. Owner[b] \in Parents(h, b)
  BY ParentsLeast, TreeAssumption
<1>2. ASSUME NEW k \in List, h.list[Owner[b]] = k PROVE Parents(h, k) \subseteq Parents(h, b)
  <2>. DEFINE P == Parents(h, b)
  <2>1. P \in SUBSET Statement /\ Upwards(h, P)
    BY ParentsLeast
  <2>2. Owner[k] \in P \cup {None}
    BY <1>1, <1>2, <2>1, TreeAssumption DEF Upwards
  <2>. HIDE DEF P
  <2>3. Parents(h, k) \subseteq P
    BY <2>1, <2>2, ParentsLeast
  <2>. QED
    BY <2>3 DEF P
<1>. QED
  BY <1>1, <1>2

\* The AST stays a tree when statements leave their lists or join one that is not part of them.
LEMMA StaysAcyclic ==
    ASSUME NEW h \in Heap, NEW g \in Heap, Acyclic(h), NEW l \in List,
           NEW M \in SUBSET Statement, M \cap Parents(h, l) = {},
           \A x \in Statement : g.list[x] \in {h.list[x], None} \/ (x \in M /\ g.list[x] = l)
    PROVE  Acyclic(g)
<1>. SUFFICES ASSUME NEW x \in Statement, g.list[x] # None PROVE x \notin Parents(g, g.list[x])
  BY DEF Acyclic
<1>. DEFINE k == g.list[x]
            A == Parents(h, l)
            B == Parents(h, k)
<1>1. k \in List
  BY HeapType
<1>2. /\ A \in SUBSET Statement /\ Owner[l] \in A \cup {None} /\ Upwards(h, A)
      /\ B \in SUBSET Statement /\ Owner[k] \in B \cup {None} /\ Upwards(h, B)
  BY <1>1, ParentsLeast
<1>3. M \cap A = {}
  OBVIOUS
<1>4. ASSUME NEW P \in SUBSET Statement, Upwards(h, P), M \cap P = {} PROVE Upwards(g, P)
  BY <1>4 DEF Upwards
<1>5. \A P \in SUBSET Statement : Owner[k] \in P \cup {None} /\ Upwards(g, P) => Parents(g, k) \subseteq P
  BY <1>1, ParentsLeast
<1>6. CASE x \in M /\ k = l
  <2>1. Upwards(g, A)
    BY <1>2, <1>3, <1>4
  <2>2. Parents(g, k) \subseteq A
    BY <1>2, <1>5, <1>6, <2>1
  <2>. QED
    BY <1>3, <1>6, <2>2
<1>7. CASE k = h.list[x]
  <2>0. x \notin B
    BY <1>1, <1>7, TreeAssumption DEF Acyclic
  <2>1. CASE x \in A
    <3>1. Owner[k] \in A \cup {None}
      BY <1>1, <1>2, <1>7, <2>1, TreeAssumption DEF Upwards
    <3>2. B \subseteq A
      BY <1>1, <1>2, <3>1, ParentsLeast
    <3>3. Upwards(g, B)
      BY <1>2, <1>3, <1>4, <3>2
    <3>4. Parents(g, k) \subseteq B
      BY <1>2, <1>5, <3>3
    <3>. QED
      BY <2>0, <3>4
  <2>2. CASE x \notin A
    <3>. DEFINE P == A \cup B
    <3>1. P \in SUBSET Statement /\ Owner[k] \in P \cup {None}
      BY <1>2
    <3>2. Upwards(g, P)
      <4>1. ASSUME NEW p \in P, g.list[p] # None PROVE Owner[g.list[p]] \in P \cup {None}
        <5>1. p \in Statement
          BY <3>1
        <5>2. CASE g.list[p] = l
          BY <1>2, <5>2
        <5>3. CASE g.list[p] = h.list[p]
          BY <1>2, <4>1, <5>3 DEF Upwards
        <5>. QED
          BY <4>1, <5>1, <5>2, <5>3
      <4>. QED
        BY <4>1 DEF Upwards
    <3>3. Parents(g, k) \subseteq P
      <4>. HIDE DEF P
      <4>. QED
        BY <1>5, <3>1, <3>2
    <3>. QED
      BY <2>0, <2>2, <3>3
  <2>. QED
    BY <2>1, <2>2
<1>. QED
  BY <1>6, <1>7

\* The statements of some lists.
In(q, W) == UNION {Sequences_!ToSet(q[k]) : k \in W}

\* A set of lists that has the bodies of all statements in its lists.
Downwards(q, W) == Bodies(In(q, W)) \subseteq W

\* The lists within some lists are the least such set.
LEMMA WithinLeast ==
    ASSUME NEW q, NEW L \in SUBSET List
    PROVE  /\ Sequences_!Within(L, q) \in SUBSET List
           /\ L \subseteq Sequences_!Within(L, q)
           /\ Downwards(q, Sequences_!Within(L, q))
           /\ \A W \in SUBSET List : L \subseteq W /\ Downwards(q, W) => Sequences_!Within(L, q) \subseteq W
<1>. DEFINE D == Sequences_!Within(L, q)
<1>1. D = {l \in List : \A W \in SUBSET List : L \subseteq W /\ Downwards(q, W) => l \in W}
  BY DEF Sequences_!Within, Sequences_!Bodies, Bodies, Downwards, In
<1>. HIDE DEF D
<1>2. Downwards(q, D)
  <2>1. ASSUME NEW b \in Bodies(In(q, D)) PROVE b \in D
    <3>1. b \in List /\ Owner[b] \in In(q, D)
      BY DEF Bodies
    <3>2. PICK k \in D : Owner[b] \in Sequences_!ToSet(q[k])
      BY <3>1 DEF In
    <3>3. ASSUME NEW W \in SUBSET List, L \subseteq W, Downwards(q, W) PROVE b \in W
      <4>1. k \in W
        BY <1>1, <3>3
      <4>2. Owner[b] \in In(q, W)
        BY <3>2, <4>1 DEF In
      <4>3. b \in Bodies(In(q, W))
        BY <3>1, <4>2 DEF Bodies
      <4>. QED
        BY <3>3, <4>3 DEF Downwards
    <3>. QED
      BY <1>1, <3>1, <3>3
  <2>. QED
    BY <2>1 DEF Downwards
<1>. QED
  BY <1>1, <1>2 DEF D

\* Which statements a list has.
LEMMA InList ==
    ASSUME NEW h, NEW q, Represents(h, q), NEW k \in List, NEW x
    PROVE  x \in Sequences_!ToSet(q[k]) <=> x \in Statement /\ h.list[x] = k
<1>1. /\ DOMAIN q[k] = 1 .. Len(q[k])
      /\ \A i \in 1 .. Len(q[k]) : q[k][i] \in Statement /\ h.list[q[k][i]] = k
  BY Elements
<1>2. \A y \in Statement : h.list[y] = k => \E i \in 1 .. Len(q[k]) : q[k][i] = y
  BY Ends
<1>. QED
  BY <1>1, <1>2 DEF Sequences_!ToSet

\* What is within the bodies of a statement has it as a parent.
LEMMA WithinBodies ==
    ASSUME NEW h, NEW q, Represents(h, q), NEW o \in Statement,
           NEW L \in SUBSET List, \A b \in L : Owner[b] = o,
           NEW l \in Sequences_!Within(L, q)
    PROVE  o \in Parents(h, l)
<1>. DEFINE W == {k \in List : o \in Parents(h, k)}
<1>1. h \in Heap
  BY DEF Represents
<1>2. L \subseteq W
  BY <1>1, ParentsAbove
<1>3. Downwards(q, W)
  <2>1. ASSUME NEW b \in Bodies(In(q, W)) PROVE b \in W
    <3>1. b \in List /\ Owner[b] \in In(q, W)
      BY DEF Bodies
    <3>2. PICK k \in W : Owner[b] \in Sequences_!ToSet(q[k])
      BY <3>1 DEF In
    <3>3. Owner[b] \in Statement /\ h.list[Owner[b]] = k
      BY <3>2, InList
    <3>4. Parents(h, k) \subseteq Parents(h, b)
      BY <1>1, <3>1, <3>3, ParentsAbove
    <3>. QED
      BY <3>1, <3>4
  <2>. QED
    BY <2>1 DEF Downwards
<1>4. W \in SUBSET List
  OBVIOUS
<1>. HIDE DEF W
<1>5. l \in W
  BY <1>2, <1>3, <1>4, WithinLeast
<1>. QED
  BY <1>5 DEF W

\* The condition of MayMove: the list is not within the one that moves into it.
LEMMA MayMoveOutside ==
    ASSUME NEW h, NEW q, Represents(h, q), NEW l \in List, NEW that \in List, l # that,
           \A x \in Statement : h.list[x] = that => x \notin Parents(h, l)
    PROVE  l \notin Sequences_!Within({that}, q)
<1>. DEFINE W == {k \in List : k = that \/ \E x \in Statement : h.list[x] = that /\ x \in Parents(h, k)}
<1>1. h \in Heap
  BY DEF Represents
<1>2. Downwards(q, W)
  <2>1. ASSUME NEW b \in Bodies(In(q, W)) PROVE b \in W
    <3>1. b \in List /\ Owner[b] \in In(q, W)
      BY DEF Bodies
    <3>2. PICK k \in W : Owner[b] \in Sequences_!ToSet(q[k])
      BY <3>1 DEF In
    <3>3. Owner[b] \in Statement /\ h.list[Owner[b]] = k
      BY <3>2, InList
    <3>4. Parents(h, k) \subseteq Parents(h, b) /\ Owner[b] \in Parents(h, b)
      BY <1>1, <3>1, <3>3, ParentsAbove
    <3>. QED
      BY <3>1, <3>2, <3>3, <3>4
  <2>. QED
    BY <2>1 DEF Downwards
<1>3. W \in SUBSET List /\ {that} \subseteq W /\ l \notin W /\ {that} \in SUBSET List
  OBVIOUS
<1>. HIDE DEF W
<1>. QED
  BY <1>2, <1>3, WithinLeast

-----------------------------------------------------------------------------
(***************************************************************************)
(* Clearing                                                                *)
(***************************************************************************)
\* The heap leads along these sequences, which share no statement.
Chains(h, q) ==
    /\ h \in Heap /\ q \in [List -> Seq(Statement)]
    /\ \A l \in List : Chain(h.first[l], h.next, q[l])
    /\ \A k, l \in List : \A x \in Sequences_!ToSet(q[k]) : x \in Sequences_!ToSet(q[l]) => k = l

\* The heap g is h without the lists D and their statements.
Wiped(h, q, D, g) ==
    /\ g \in Heap
    /\ \A x \in Statement : /\ g.list[x] = IF x \in In(q, D) THEN None ELSE h.list[x]
                            /\ g.previous[x] = IF x \in In(q, D) THEN None ELSE h.previous[x]
                            /\ g.next[x] = IF x \in In(q, D) THEN None ELSE h.next[x]
    /\ \A k \in List : /\ g.first[k] = IF k \in D THEN None ELSE h.first[k]
                       /\ g.last[k] = IF k \in D THEN None ELSE h.last[k]

\* The lists D have been cleared and those of x.todo are to be, of the lists within L.
Clearing(h, q, L, D, x) ==
    /\ D \in SUBSET List /\ x.todo \in SUBSET List /\ D \cap x.todo = {}
    /\ x \in [heap : Heap, todo : SUBSET List]
    /\ Wiped(h, q, D, x.heap)
    /\ L \subseteq D \cup x.todo /\ D \cup x.todo \subseteq Sequences_!Within(L, q)
    /\ Bodies(In(q, D)) \subseteq D \cup x.todo
    /\ \A b \in D \cup x.todo : b \in L \/ Owner[b] \in In(q, D)

\* One more list.
LEMMA InOneMore ==
    ASSUME NEW q, NEW D, NEW l
    PROVE  In(q, D \cup {l}) = In(q, D) \cup Sequences_!ToSet(q[l])
<1>. QED
  BY DEF In

\* A round of clear wipes one of the lists.
LEMMA ClearRoundWipes ==
    ASSUME NEW h, NEW q, Chains(h, q), NEW L \in SUBSET List,
           \A b \in L : \A k \in Sequences_!Within(L, q) : Owner[b] \notin Sequences_!ToSet(q[k]),
           NEW D, NEW x, Clearing(h, q, L, D, x), x.todo # {}
    PROVE  \E l \in List \ D : Clearing(h, q, L, D \cup {l}, clearRound[x])
<1>. DEFINE g == x.heap
            l == CHOOSE b \in x.todo : TRUE
            met == Range(Walk(g.first[l], g.next))
            f == [list |-> [s \in Statement |-> IF s \in met THEN None ELSE g.list[s]],
                  previous |-> [s \in Statement |-> IF s \in met THEN None ELSE g.previous[s]],
                  next |-> [s \in Statement |-> IF s \in met THEN None ELSE g.next[s]],
                  first |-> [g.first EXCEPT ![l] = None],
                  last |-> [g.last EXCEPT ![l] = None]]
            y == [heap |-> f, todo |-> (x.todo \ {l}) \cup Bodies(met)]
            T == Sequences_!ToSet(q[l])
            E == D \cup {l}
<1>0. /\ D \in SUBSET List /\ x.todo \in SUBSET List /\ D \cap x.todo = {}
      /\ x \in [heap : Heap, todo : SUBSET List] /\ Wiped(h, q, D, g)
      /\ L \subseteq D \cup x.todo /\ D \cup x.todo \subseteq Sequences_!Within(L, q)
      /\ Bodies(In(q, D)) \subseteq D \cup x.todo
      /\ \A b \in D \cup x.todo : b \in L \/ Owner[b] \in In(q, D)
  BY DEF Clearing
<1>1. clearRound[x] = y
  BY <1>0 DEF clearRound
<1>2. l \in x.todo
  OBVIOUS
<1>. HIDE DEF l
<1>3. l \in List /\ l \notin D
  BY <1>0, <1>2
<1>4. ASSUME NEW s \in T PROVE s \in Statement /\ s \notin In(q, D)
  <2>1. s \in Statement
    BY <1>3 DEF Chains, Sequences_!ToSet
  <2>. SUFFICES ASSUME s \in In(q, D) PROVE FALSE
    BY <2>1
  <2>2. PICK k \in D : s \in Sequences_!ToSet(q[k])
    BY DEF In
  <2>3. k = l
    BY <1>0, <1>3, <2>2 DEF Chains
  <2>. QED
    BY <1>3, <2>3
<1>5. met = T
  <2>. DEFINE p == q[l]
              a == g.first[l]
              c == g.next
  <2>1. Chain(h.first[l], h.next, p)
    BY <1>3 DEF Chains
  <2>2. a = h.first[l]
    BY <1>0, <1>3 DEF Wiped
  <2>3. p \in Seq(Statement)
    BY <1>3 DEF Chains
  <2>4. \A i \in 1 .. Len(p) : p[i] \in Statement /\ p[i] \in T
    BY <2>3 DEF Sequences_!ToSet
  <2>5. \A i \in 1 .. Len(p) : c[p[i]] = h.next[p[i]]
    BY <1>0, <1>4, <2>4 DEF Wiped
  <2>. HIDE DEF p, a, c
  <2>6. Chain(a, c, p)
    BY <2>1, <2>2, <2>5 DEF Chain
  <2>7. Walk(a, c) = p
    BY <2>6, WalkMeets, Zenon
  <2>. QED
    BY <2>7 DEF Range, Sequences_!ToSet, p, a, c
<1>. HIDE DEF met
<1>6. In(q, E) = In(q, D) \cup T
  BY InOneMore
<1>7. g \in Heap
  BY <1>0 DEF Wiped
<1>8. /\ f \in Heap
      /\ \A s \in Statement : /\ f.list[s] = (IF s \in met THEN None ELSE g.list[s])
                              /\ f.previous[s] = (IF s \in met THEN None ELSE g.previous[s])
                              /\ f.next[s] = (IF s \in met THEN None ELSE g.next[s])
      /\ \A k \in List : /\ f.first[k] = (IF k = l THEN None ELSE g.first[k])
                         /\ f.last[k] = (IF k = l THEN None ELSE g.last[k])
  BY <1>7, HeapType DEF Heap
<1>. HIDE DEF f
<1>9. Wiped(h, q, E, f)
  <2>. HIDE DEF g, T, E
  <2>1. \A k \in List : k \in E <=> k \in D \/ k = l
    BY DEF E
  <2>2. \A s \in Statement : s \in In(q, E) <=> s \in In(q, D) \/ s \in met
    BY <1>5, <1>6
  <2>. HIDE DEF E
  <2>3. \A s \in Statement : /\ f.list[s] = (IF s \in In(q, E) THEN None ELSE h.list[s])
                             /\ f.previous[s] = (IF s \in In(q, E) THEN None ELSE h.previous[s])
                             /\ f.next[s] = (IF s \in In(q, E) THEN None ELSE h.next[s])
    BY <1>0, <1>8, <2>2 DEF Wiped
  <2>4. \A k \in List : /\ f.first[k] = (IF k \in E THEN None ELSE h.first[k])
                        /\ f.last[k] = (IF k \in E THEN None ELSE h.last[k])
    BY <1>0, <1>8, <2>1 DEF Wiped
  <2>. QED
    BY <1>8, <2>3, <2>4 DEF Wiped
<1>10. Bodies(In(q, E)) = Bodies(In(q, D)) \cup Bodies(T)
  BY <1>6 DEF Bodies
<1>. DEFINE W == Sequences_!Within(L, q)
<1>11. l \in W
  BY <1>0, <1>2
<1>12. Bodies(T) \subseteq W
  <2>1. Downwards(q, W)
    BY WithinLeast
  <2>2. T \subseteq In(q, W)
    BY <1>11 DEF In
  <2>3. Bodies(T) \subseteq Bodies(In(q, W))
    <3>. HIDE DEF T
    <3>. QED
      BY <2>2 DEF Bodies
  <2>. QED
    BY <2>1, <2>3 DEF Downwards
<1>. HIDE DEF W, T
<1>13. ASSUME NEW b \in Bodies(T) PROVE b \notin E
  <2>. SUFFICES ASSUME b \in E PROVE FALSE
    OBVIOUS
  <2>1. Owner[b] \in T
    BY DEF Bodies
  <2>2. b \notin L
    BY <1>11, <2>1 DEF W, T
  <2>3. Owner[b] \in In(q, D)
    BY <1>0, <1>2, <2>2
  <2>. QED
    BY <1>4, <2>1, <2>3
<1>14. Bodies(T) \in SUBSET List
  BY DEF Bodies
<1>15. y.heap = f /\ y.todo = (x.todo \ {l}) \cup Bodies(T)
  BY <1>5
<1>16. y \in [heap : Heap, todo : SUBSET List]
  BY <1>0, <1>5, <1>8, <1>14
<1>. HIDE DEF y
<1>17. E \in SUBSET List /\ y.todo \in SUBSET List /\ E \cap y.todo = {}
  BY <1>0, <1>3, <1>13, <1>14, <1>15
<1>18. L \subseteq E \cup y.todo /\ E \cup y.todo \subseteq W
  BY <1>0, <1>11, <1>12, <1>15 DEF W
<1>19. Bodies(In(q, E)) \subseteq E \cup y.todo
  BY <1>0, <1>10, <1>15
<1>20. \A b \in E \cup y.todo : b \in L \/ Owner[b] \in In(q, E)
  <2>1. \A b \in Bodies(T) : Owner[b] \in T
    BY DEF Bodies
  <2>. QED
    BY <1>0, <1>2, <1>6, <1>15, <2>1
<1>21. Clearing(h, q, L, E, y)
  BY <1>9, <1>15, <1>16, <1>17, <1>18, <1>19, <1>20 DEF Clearing, W
<1>. QED
  BY <1>1, <1>3, <1>21

\* clear and dropAllReferences wipe the lists within those they begin with.
LEMMA ClearAllWipes ==
    ASSUME NEW h, NEW q, Chains(h, q), NEW L \in SUBSET List,
           \A b \in L : \A k \in Sequences_!Within(L, q) : Owner[b] \notin Sequences_!ToSet(q[k])
    PROVE  Wiped(h, q, Sequences_!Within(L, q), clearAll(h, L))
<1>. DEFINE m == Cardinality(List)
            start == [heap |-> h, todo |-> L]
            Stage == [c \in 0 .. m |-> {x \in [heap : Heap, todo : SUBSET List] :
                        \E D : Clearing(h, q, L, D, x) /\ (Cardinality(D) = c \/ x.todo = {})}]
<1>1. m \in Nat /\ 0 \in 0 .. m /\ m \in 0 .. m
  BY FS_CardinalityType, TreeAssumption
<1>2. start \in Stage[0]
  <2>1. In(q, {}) = {} /\ Bodies({}) = {}
    BY DEF In, Bodies
  <2>2. h \in Heap
    BY DEF Chains
  <2>3. Wiped(h, q, {}, h)
    BY <2>1, <2>2 DEF Wiped
  <2>4. L \subseteq Sequences_!Within(L, q)
    BY WithinLeast
  <2>5. start \in [heap : Heap, todo : SUBSET List] /\ start.heap = h /\ start.todo = L
    BY <2>2
  <2>. HIDE DEF start
  <2>6. Clearing(h, q, L, {}, start)
    BY <2>1, <2>3, <2>4, <2>5 DEF Clearing
  <2>. QED
    BY <1>1, <2>5, <2>6, FS_EmptySet
<1>3. ASSUME NEW c \in 0 .. (m - 1), NEW x \in Stage[c] PROVE clearRound[x] \in Stage[c + 1]
  <2>0. c \in 0 .. m /\ c + 1 \in 0 .. m
    BY <1>1
  <2>1. PICK D : Clearing(h, q, L, D, x) /\ (Cardinality(D) = c \/ x.todo = {})
    BY <2>0
  <2>2. x \in [heap : Heap, todo : SUBSET List]
    BY <2>1 DEF Clearing
  <2>3. CASE x.todo = {}
    <3>1. clearRound[x] = x
      BY <2>2, <2>3 DEF clearRound
    <3>. QED
      BY <2>0, <2>1, <2>2, <2>3, <3>1
  <2>4. CASE x.todo # {}
    <3>1. PICK l \in List \ D : Clearing(h, q, L, D \cup {l}, clearRound[x])
      BY <2>1, <2>4, ClearRoundWipes
    <3>2. clearRound[x] \in [heap : Heap, todo : SUBSET List]
      BY <3>1 DEF Clearing
    <3>3. IsFiniteSet(D)
      BY <2>1, FS_Subset, TreeAssumption DEF Clearing
    <3>4. Cardinality(D \cup {l}) = Cardinality(D) + 1
      BY <3>1, <3>3, FS_AddElement
    <3>5. Cardinality(D \cup {l}) = c + 1
      BY <2>1, <2>4, <3>4
    <3>. QED
      BY <2>0, <3>1, <3>2, <3>5
  <2>. QED
    BY <2>3, <2>4
<1>4. ASSUME NEW x \in Stage[m] PROVE x \in [heap : Heap, todo : SUBSET List] /\ x.todo = {} /\ \E D : Clearing(h, q, L, D, x)
  <2>1. PICK D : Clearing(h, q, L, D, x) /\ (Cardinality(D) = m \/ x.todo = {})
    BY <1>1
  <2>2. D \in SUBSET List /\ x.todo \in SUBSET List /\ D \cap x.todo = {} /\ x \in [heap : Heap, todo : SUBSET List]
    BY <2>1 DEF Clearing
  <2>3. CASE Cardinality(D) = m
    <3>1. D = List
      BY <2>2, <2>3, FS_Subset, TreeAssumption
    <3>. QED
      BY <2>1, <2>2, <3>1
  <2>4. CASE x.todo = {}
    BY <2>1, <2>2, <2>4
  <2>. QED
    BY <2>1, <2>3, <2>4
<1>5. ASSUME NEW x \in Stage[m] PROVE clearRound[x] = x
  <2>1. x \in [heap : Heap, todo : SUBSET List] /\ x.todo = {}
    BY <1>4
  <2>. QED
    BY <2>1 DEF clearRound
<1>. DEFINE x == Repeat(clearRound, m, start)
<1>6. DOMAIN Stage = 0 .. m /\ m <= m
  BY <1>1
<1>7. (\A c \in 0 .. (m - 1) : \A y \in Stage[c] : clearRound[y] \in Stage[c + 1]) /\ \A y \in Stage[m] : clearRound[y] = y
  BY <1>3, <1>5
<1>8. x \in Stage[m]
  <2>. HIDE DEF m, start, Stage
  <2>. QED
    BY <1>1, <1>2, <1>6, <1>7, RepeatStages
<1>9. clearAll(h, L) = x.heap
  BY DEF clearAll
<1>. HIDE DEF x
<1>10. PICK D : Clearing(h, q, L, D, x)
  BY <1>4, <1>8
<1>11. D = Sequences_!Within(L, q)
  <2>1. /\ D \in SUBSET List /\ L \subseteq D /\ D \subseteq Sequences_!Within(L, q)
        /\ Bodies(In(q, D)) \subseteq D
    BY <1>4, <1>8, <1>10 DEF Clearing
  <2>2. Downwards(q, D)
    BY <2>1 DEF Downwards
  <2>. QED
    BY <2>1, <2>2, WithinLeast
<1>. QED
  BY <1>9, <1>10, <1>11 DEF Clearing

\* Wiping lists empties their sequences.
LEMMA WipedRepresents ==
    ASSUME NEW h, NEW q, Represents(h, q), NEW D \in SUBSET List, NEW g, Wiped(h, q, D, g)
    PROVE  Represents(g, [l \in List |-> IF l \in D THEN <<>> ELSE q[l]])
<1>. DEFINE v == [l \in List |-> IF l \in D THEN <<>> ELSE q[l]]
<1>1. q \in [List -> Seq(Statement)] /\ h \in Heap
  BY DEF Represents
<1>2. v \in [List -> Seq(Statement)] /\ (\A l \in D : v[l] = <<>>) /\ \A l \in List \ D : v[l] = q[l]
  BY <1>1
<1>. HIDE DEF v
<1>3. ASSUME NEW x \in Statement PROVE x \in In(q, D) <=> h.list[x] \in D
  <2>1. ASSUME NEW k \in D PROVE x \in Sequences_!ToSet(q[k]) <=> h.list[x] = k
    BY InList
  <2>. QED
    BY <2>1 DEF In
<1>4. ASSUME NEW x \in Statement
      PROVE  /\ g.list[x] = IF h.list[x] \in D THEN None ELSE h.list[x]
             /\ g.previous[x] = IF h.list[x] \in D THEN None ELSE h.previous[x]
             /\ g.next[x] = IF h.list[x] \in D THEN None ELSE h.next[x]
  BY <1>3 DEF Wiped
<1>5. ASSUME NEW l \in List PROVE Linked(g, l, v[l])
  <2>1. CASE l \in D
    <3>1. g.first[l] = None /\ g.last[l] = None
      BY <2>1 DEF Wiped
    <3>2. \A x \in Statement : g.list[x] # l
      BY <1>4, <2>1, TreeAssumption
    <3>3. v[l] = <<>> /\ <<>> \in Seq(Statement) /\ Len(<<>>) = 0 /\ 1 .. 0 = {}
      BY <1>2, <2>1
    <3>. QED
      BY <3>1, <3>2, <3>3 DEF Linked
  <2>2. CASE l \notin D
    <3>1. Linked(h, l, q[l]) /\ v[l] = q[l]
      BY <1>2, <2>2 DEF Represents
    <3>2. ASSUME NEW j \in 1 .. Len(q[l])
          PROVE  LET x == q[l][j] IN g.list[x] = h.list[x] /\ g.next[x] = h.next[x] /\ g.previous[x] = h.previous[x]
      <4>1. q[l][j] \in Statement /\ h.list[q[l][j]] = l
        BY Elements
      <4>. QED
        BY <1>4, <2>2, <4>1
    <3>3. \A x \in Statement : g.list[x] = l => h.list[x] = l
      BY <1>4, TreeAssumption
    <3>4. g.first[l] = h.first[l] /\ g.last[l] = h.last[l]
      BY <2>2 DEF Wiped
    <3>5. Linked(g, l, q[l])
      BY <3>1, <3>2, <3>3, <3>4, SameLinked
    <3>. QED
      BY <3>1, <3>5
  <2>. QED
    BY <2>1, <2>2
<1>6. ASSUME NEW x \in Statement, g.list[x] = None PROVE g.previous[x] = None /\ g.next[x] = None
  <2>1. h.list[x] = None => h.previous[x] = None /\ h.next[x] = None
    BY DEF Represents
  <2>. QED
    BY <1>4, <1>6, <2>1
<1>7. g \in Heap
  BY DEF Wiped
<1>8. Represents(g, v)
  BY <1>2, <1>5, <1>6, <1>7 DEF Represents
<1>. QED
  BY <1>8 DEF v

\* The links of a heap that represents sequences lead along them.
LEMMA RepresentsChains ==
    ASSUME NEW h, NEW q, Represents(h, q)
    PROVE  Chains(h, q)
<1>1. h \in Heap /\ q \in [List -> Seq(Statement)]
  BY DEF Represents
<1>2. ASSUME NEW l \in List PROVE Chain(h.first[l], h.next, q[l])
  BY Elements, Ends DEF Chain
<1>3. ASSUME NEW k \in List, NEW l \in List, NEW x \in Sequences_!ToSet(q[k]), x \in Sequences_!ToSet(q[l]) PROVE k = l
  BY <1>3, InList
<1>. QED
  BY <1>1, <1>2, <1>3 DEF Chains

\* Clearing lists of one owner empties what is within them.
LEMMA ClearRepresents ==
    ASSUME NEW h, NEW q, Represents(h, q), Acyclic(h),
           NEW o \in Statement \cup {None}, NEW L \in SUBSET List, \A b \in L : Owner[b] = o,
           NEW g, g = clearAll(h, L)
    PROVE  /\ Represents(g, Sequences_!Emptied(L, q))
           /\ \A x \in Statement : g.list[x] \in {h.list[x], None}
<1>. DEFINE D == Sequences_!Within(L, q)
<1>1. D \in SUBSET List
  BY WithinLeast
<1>2. ASSUME NEW b \in L, NEW k \in D PROVE Owner[b] \notin Sequences_!ToSet(q[k])
  <2>. SUFFICES ASSUME Owner[b] \in Sequences_!ToSet(q[k]) PROVE FALSE
    OBVIOUS
  <2>1. o \in Statement /\ h.list[o] = k /\ k \in List
    BY <1>1, InList
  <2>2. o \in Parents(h, k)
    BY <2>1, WithinBodies
  <2>. QED
    BY <2>1, <2>2, TreeAssumption DEF Acyclic
<1>3. Wiped(h, q, D, g)
  BY <1>2, RepresentsChains, ClearAllWipes
<1>4. Represents(g, [l \in List |-> IF l \in D THEN <<>> ELSE q[l]])
  BY <1>1, <1>3, WipedRepresents
<1>. QED
  BY <1>3, <1>4 DEF Wiped, Sequences_!Emptied

-----------------------------------------------------------------------------
(***************************************************************************)
(* Assignment                                                              *)
(***************************************************************************)
\* The heap f is h with the statements of list that in list l, and those of l in none.
Adopted(h, l, that, f) ==
    /\ f \in Heap /\ f.next = h.next /\ f.previous = h.previous
    /\ \A x \in Statement : f.list[x] = IF h.list[x] = that THEN l ELSE IF h.list[x] = l THEN None ELSE h.list[x]
    /\ \A k \in List : /\ f.first[k] = IF k = that THEN None ELSE IF k = l THEN h.first[that] ELSE h.first[k]
                       /\ f.last[k] = IF k = that THEN None ELSE IF k = l THEN h.last[that] ELSE h.last[k]

\* A list of at most one statement is replaced.
LEMMA AdoptedRepresents ==
    ASSUME NEW h, NEW q, Represents(h, q), NEW l \in List, NEW that \in List, l # that, Len(q[l]) <= 1,
           NEW f, Adopted(h, l, that, f)
    PROVE  Represents(f, [q EXCEPT ![l] = q[that], ![that] = <<>>])
<1>. DEFINE r == [q EXCEPT ![l] = q[that], ![that] = <<>>]
<1>1. q \in [List -> Seq(Statement)] /\ h \in Heap /\ f \in Heap
  BY DEF Represents, Adopted
<1>2. r \in [List -> Seq(Statement)] /\ r[l] = q[that] /\ r[that] = <<>> /\ \A k \in List \ {l, that} : r[k] = q[k]
  BY <1>1
<1>. HIDE DEF r
<1>3. Linked(f, l, q[that])
  <2>. DEFINE s == q[that]
              n == Len(s)
  <2>1. s \in Seq(Statement) /\ n \in Nat /\ \A i \in 1 .. n : s[i] \in Statement /\ h.list[s[i]] = that
    BY Elements
  <2>2. /\ h.first[that] = IF n = 0 THEN None ELSE s[1]
        /\ h.last[that] = IF n = 0 THEN None ELSE s[n]
        /\ \A i \in 1 .. n : /\ h.previous[s[i]] = IF i = 1 THEN None ELSE s[i - 1]
                             /\ h.next[s[i]] = IF i = n THEN None ELSE s[i + 1]
        /\ \A i, j \in 1 .. n : s[i] = s[j] => i = j
        /\ \A x \in Statement : h.list[x] = that => \E i \in 1 .. n : s[i] = x
    BY Ends
  <2>. HIDE DEF s, n
  <2>3. f.first[l] = h.first[that] /\ f.last[l] = h.last[that] /\ f.next = h.next /\ f.previous = h.previous
    BY DEF Adopted
  <2>4. \A x \in Statement : f.list[x] = l <=> h.list[x] = that
    BY TreeAssumption DEF Adopted
  <2>5. \A i \in 1 .. n : f.list[s[i]] = l
    BY <2>1, <2>4
  <2>6. \A x \in Statement : f.list[x] = l => \E i \in 1 .. n : s[i] = x
    BY <2>2, <2>4
  <2>7. \A i \in 1 .. n : /\ f.previous[s[i]] = IF i = 1 THEN None ELSE s[i - 1]
                          /\ f.next[s[i]] = IF i = n THEN None ELSE s[i + 1]
    BY <2>2, <2>3
  <2>8. /\ f.first[l] = IF n = 0 THEN None ELSE s[1]
        /\ f.last[l] = IF n = 0 THEN None ELSE s[n]
    BY <2>2, <2>3
  <2>9. Linked(f, l, s)
    BY <2>1, <2>2, <2>5, <2>6, <2>7, <2>8 DEF Linked, n
  <2>. QED
    BY <2>9 DEF s
<1>4. Linked(f, that, <<>>)
  <2>1. f.first[that] = None /\ f.last[that] = None
    BY DEF Adopted
  <2>2. \A x \in Statement : f.list[x] # that
    BY TreeAssumption DEF Adopted
  <2>3. <<>> \in Seq(Statement) /\ Len(<<>>) = 0 /\ 1 .. 0 = {}
    OBVIOUS
  <2>. QED
    BY <2>1, <2>2, <2>3 DEF Linked
<1>5. ASSUME NEW k \in List \ {l, that} PROVE Linked(f, k, q[k])
  <2>1. Linked(h, k, q[k])
    BY DEF Represents
  <2>2. ASSUME NEW j \in 1 .. Len(q[k])
        PROVE  LET x == q[k][j] IN f.list[x] = h.list[x] /\ f.next[x] = h.next[x] /\ f.previous[x] = h.previous[x]
    <3>1. q[k][j] \in Statement /\ h.list[q[k][j]] = k
      BY Elements
    <3>. QED
      BY <3>1 DEF Adopted
  <2>3. \A x \in Statement : f.list[x] = k => h.list[x] = k
    BY TreeAssumption DEF Adopted
  <2>4. f.first[k] = h.first[k] /\ f.last[k] = h.last[k]
    BY DEF Adopted
  <2>. QED
    BY <2>1, <2>2, <2>3, <2>4, SameLinked
<1>6. ASSUME NEW x \in Statement, f.list[x] = None PROVE f.previous[x] = None /\ f.next[x] = None
  <2>1. h.list[x] = None \/ h.list[x] = l
    BY <1>6, TreeAssumption DEF Adopted
  <2>2. f.previous = h.previous /\ f.next = h.next
    BY DEF Adopted
  <2>3. CASE h.list[x] = None
    BY <2>2, <2>3 DEF Represents
  <2>4. CASE h.list[x] = l
    <3>. DEFINE n == Len(q[l])
    <3>1. PICK i \in 1 .. n : q[l][i] = x
      BY <2>4, Ends
    <3>2. n \in Nat /\ n <= 1
      BY Elements
    <3>3. i = 1 /\ i = n
      BY <3>1, <3>2
    <3>4. h.previous[x] = None /\ h.next[x] = None
      BY <3>1, <3>3, Ends
    <3>. QED
      BY <2>2, <3>4
  <2>. QED
    BY <2>1, <2>3, <2>4
<1>7. ASSUME NEW k \in List PROVE Linked(f, k, r[k])
  BY <1>2, <1>3, <1>4, <1>5
<1>8. Represents(f, r)
  BY <1>1, <1>2, <1>6, <1>7 DEF Represents
<1>. QED
  BY <1>8 DEF r

\* What the sequences are after an assignment.
Replaced(q, l, that) ==
    [Sequences_!Emptied({l}, [q EXCEPT ![that] = <<>>]) EXCEPT ![l] = q[that]]

\* What it is to give all statements a list, and to detach one.
Relist(h, f) == [h EXCEPT !.list = f]
Relisted(h, f, g) ==
    /\ g \in Heap /\ g.list = f
    /\ g.next = h.next /\ g.previous = h.previous /\ g.first = h.first /\ g.last = h.last

\* Only the lists of the statements change.
LEMMA RelistedLinks ==
    ASSUME NEW h \in Heap, NEW f \in [Statement -> List \cup {None}]
    PROVE  Relisted(h, f, Relist(h, f))
<1>. QED
  BY DEF Heap, Relisted, Relist

\* Only the pointers of the detached statement change.
LEMMA DetachedLinks ==
    ASSUME NEW h \in Heap, NEW o \in Statement, NEW g, g = Detached(h, o)
    PROVE  /\ g \in Heap /\ g.first = h.first /\ g.last = h.last
           /\ \A x \in Statement : /\ g.list[x] = (IF x = o THEN None ELSE h.list[x])
                                   /\ g.next[x] = (IF x = o THEN None ELSE h.next[x])
                                   /\ g.previous[x] = (IF x = o THEN None ELSE h.previous[x])
<1>. DEFINE a == [h.list EXCEPT ![o] = None]
            b == [h.previous EXCEPT ![o] = None]
            c == [h.next EXCEPT ![o] = None]
<1>1. g = [list |-> a, previous |-> b, next |-> c, first |-> h.first, last |-> h.last]
  BY HeapType DEF Detached, Heap
<1>2. /\ a \in [Statement -> List \cup {None}] /\ b \in [Statement -> Statement \cup {None}]
      /\ c \in [Statement -> Statement \cup {None}]
      /\ \A x \in Statement : /\ a[x] = (IF x = o THEN None ELSE h.list[x])
                              /\ b[x] = (IF x = o THEN None ELSE h.previous[x])
                              /\ c[x] = (IF x = o THEN None ELSE h.next[x])
  BY HeapType
<1>3. h.first \in [List -> Statement \cup {None}] /\ h.last \in [List -> Statement \cup {None}]
  BY HeapType
<1>. HIDE DEF a, b, c
<1>. QED
  BY <1>1, <1>2, <1>3 DEF Heap

\* The heap a is h with the statements of list that in list l, those of l still there.
HandedOver(h, l, that, a) ==
    /\ a \in Heap /\ a.next = h.next /\ a.previous = h.previous
    /\ \A x \in Statement : a.list[x] = IF h.list[x] = that THEN l ELSE h.list[x]
    /\ \A k \in List : /\ a.first[k] = IF k = that THEN None ELSE IF k = l THEN h.first[that] ELSE h.first[k]
                       /\ a.last[k] = IF k = that THEN None ELSE IF k = l THEN h.last[that] ELSE h.last[k]

\* The first part of operator=: the statements of one list go to the other, whose own are left without one.
LEMMA AssignAdopts ==
    ASSUME NEW h, NEW q, Represents(h, q), NEW l \in List, NEW that \in List, l # that,
           NEW moved, moved = [h EXCEPT !.first[l] = h.first[that], !.last[l] = h.last[that],
                                        !.first[that] = None, !.last[that] = None],
           NEW a, a = adopt(moved, l, moved.first[l])
    PROVE  HandedOver(h, l, that, a)
<1>1. h \in Heap
  BY DEF Represents
<1>2. /\ moved \in Heap /\ moved.list = h.list /\ moved.next = h.next /\ moved.previous = h.previous
      /\ \A k \in List : /\ moved.first[k] = IF k = that THEN None ELSE IF k = l THEN h.first[that] ELSE h.first[k]
                         /\ moved.last[k] = IF k = that THEN None ELSE IF k = l THEN h.last[that] ELSE h.last[k]
  BY <1>1, HeapType DEF Heap
<1>. DEFINE met == Range(Walk(moved.first[l], moved.next))
<1>3. met = Sequences_!ToSet(q[that])
  <2>1. Chain(h.first[that], h.next, q[that])
    BY Elements, Ends DEF Chain
  <2>2. Walk(h.first[that], h.next) = q[that]
    BY <2>1, WalkMeets, Zenon
  <2>. QED
    BY <1>2, <2>2 DEF Range, Sequences_!ToSet
<1>. DEFINE fresh == [x \in Statement |-> IF x \in met THEN l ELSE moved.list[x]]
<1>4. a = [moved EXCEPT !.list = fresh]
  BY DEF adopt
<1>. HIDE DEF met
<1>5. /\ a \in Heap /\ a.next = h.next /\ a.previous = h.previous /\ a.first = moved.first /\ a.last = moved.last
      /\ \A x \in Statement : a.list[x] = IF x \in met THEN l ELSE h.list[x]
  <2>1. h.list \in [Statement -> List \cup {None}]
    BY <1>1, HeapType
  <2>2. fresh \in [Statement -> List \cup {None}] /\ \A x \in Statement : fresh[x] = IF x \in met THEN l ELSE h.list[x]
    BY <1>2, <2>1
  <2>. HIDE DEF fresh
  <2>3. a \in Heap /\ a.list = fresh /\ a.next = moved.next /\ a.previous = moved.previous /\ a.first = moved.first /\ a.last = moved.last
    <3>0. a = Relist(moved, fresh)
      BY <1>4 DEF Relist
    <3>1. Relisted(moved, fresh, a)
      BY <1>2, <2>2, <3>0, RelistedLinks, Zenon
    <3>. QED
      BY <3>1 DEF Relisted
  <2>. QED
    BY <1>2, <2>2, <2>3
<1>6. \A x \in Statement : x \in met <=> h.list[x] = that
  BY <1>3, InList
<1>. QED
  BY <1>2, <1>5, <1>6 DEF HandedOver

\* The sequences of which an assignment discards a part, and those in which it finds it.
Taken(q, l, that) == [q EXCEPT ![l] = q[that], ![that] = <<>>]
Left(q, that) == [q EXCEPT ![that] = <<>>]

\* The lists W are those within L.
AreWithin(W, L, q) ==
    /\ W \in SUBSET List /\ L \subseteq W /\ Downwards(q, W)
    /\ \A V \in SUBSET List : L \subseteq V /\ Downwards(q, V) => W \subseteq V

\* Within is the least set of lists that contains the bodies of its statements.
LEMMA WithinAre ==
    ASSUME NEW q, NEW L \in SUBSET List
    PROVE  AreWithin(Sequences_!Within(L, q), L, q)
<1>. QED
  BY WithinLeast DEF AreWithin

\* What is within a list that an assignment replaces.
HasOnly(q, l, o) == Sequences_!ToSet(q[l]) = {o}
DiscardsWithin(q, l, that, o) ==
    /\ l \notin Sequences_!Within(Bodies({o}), Taken(q, l, that))
    /\ Sequences_!Within({l}, Left(q, that)) = Sequences_!Within(Bodies({o}), Taken(q, l, that)) \cup {l}

\* The lists within the old contents are those within the bodies of its one statement, and the target
\* is none of them, even if the new contents come from such a body.
LEMMA WithinReplaced ==
    ASSUME NEW h, NEW q, Represents(h, q), Acyclic(h), NEW l \in List, NEW that \in List, l # that,
           NEW o \in Statement, HasOnly(q, l, o)
    PROVE  DiscardsWithin(q, l, that, o)
<1>. DEFINE B == Bodies({o})
            r == Taken(q, l, that)
            t == Left(q, that)
            D == Sequences_!Within(B, r)
            W == Sequences_!Within({l}, t)
<1>0. Sequences_!ToSet(q[l]) = {o}
  BY DEF HasOnly
<1>1. h \in Heap /\ q \in [List -> Seq(Statement)]
  BY DEF Represents
<1>2. B \in SUBSET List /\ {l} \in SUBSET List
  BY DEF Bodies
<1>3. /\ D \in SUBSET List /\ B \subseteq D /\ Downwards(r, D)
      /\ \A V \in SUBSET List : B \subseteq V /\ Downwards(r, V) => D \subseteq V
  <2>. HIDE DEF B, r
  <2>1. AreWithin(D, B, r)
    BY <1>2, WithinAre, Zenon
  <2>. QED
    BY <2>1 DEF AreWithin
<1>4. /\ W \in SUBSET List /\ l \in W /\ Downwards(t, W)
      /\ \A V \in SUBSET List : {l} \subseteq V /\ Downwards(t, V) => W \subseteq V
  <2>. HIDE DEF t
  <2>1. AreWithin(W, {l}, t)
    BY <1>2, WithinAre, Zenon
  <2>. QED
    BY <2>1 DEF AreWithin
<1>5. \A k \in List \ {l} : r[k] = t[k]
  BY <1>1 DEF Taken, Left
<1>6. \A k \in List : \A x \in Sequences_!ToSet(t[k]) : x \in Sequences_!ToSet(q[k])
  <2>1. \A k \in List \ {that} : t[k] = q[k]
    BY <1>1 DEF Left
  <2>2. Sequences_!ToSet(t[that]) = {}
    <3>1. t[that] = <<>> /\ DOMAIN <<>> = {}
      BY <1>1 DEF Left
    <3>. QED
      BY <3>1 DEF Sequences_!ToSet
  <2>. QED
    BY <2>1, <2>2
<1>7. o \notin Parents(h, l)
  <2>1. h.list[o] = l
    BY <1>0, InList
  <2>. QED
    BY <2>1, TreeAssumption DEF Acyclic
<1>. HIDE DEF W, D, r, t
<1>. DEFINE V == {k \in W : k # l /\ o \in Parents(h, k)}
<1>8. t[l] = q[l]
  BY <1>1 DEF Left, t
<1>9. o \in In(t, W)
  BY <1>0, <1>4, <1>8 DEF In
<1>10. B \subseteq V
  <2>1. ASSUME NEW b \in B PROVE b \in V
    <3>1. b \in List /\ Owner[b] = o
      BY DEF Bodies
    <3>2. o \in Parents(h, b)
      BY <1>1, <3>1, ParentsAbove
    <3>3. b \in W
      BY <1>4, <1>9, <3>1 DEF Downwards, Bodies
    <3>. QED
      BY <1>7, <3>2, <3>3
  <2>. QED
    BY <2>1
<1>11. Downwards(r, V)
  <2>1. ASSUME NEW b \in Bodies(In(r, V)) PROVE b \in V
    <3>1. b \in List /\ Owner[b] \in In(r, V)
      BY DEF Bodies
    <3>2. PICK k \in V : Owner[b] \in Sequences_!ToSet(r[k])
      BY <3>1 DEF In
    <3>3. k \in List /\ k # l /\ k \in W /\ o \in Parents(h, k)
      BY <1>4
    <3>4. Owner[b] \in Sequences_!ToSet(t[k])
      BY <1>5, <3>2, <3>3
    <3>5. Owner[b] \in In(t, W)
      BY <3>3, <3>4 DEF In
    <3>6. b \in W
      BY <1>4, <3>1, <3>5 DEF Downwards, Bodies
    <3>7. Owner[b] \in Statement /\ h.list[Owner[b]] = k
      BY <1>6, <3>3, <3>4, InList
    <3>8. o \in Parents(h, b)
      BY <1>1, <3>1, <3>3, <3>7, ParentsAbove
    <3>. QED
      BY <1>7, <3>6, <3>8
  <2>. QED
    BY <2>1 DEF Downwards
<1>12. V \in SUBSET List
  BY <1>4
<1>13. D \subseteq V
  <2>. HIDE DEF V, B
  <2>. QED
    BY <1>3, <1>10, <1>11, <1>12
<1>14. l \notin D
  BY <1>13
<1>15. Downwards(t, D \cup {l})
  <2>1. ASSUME NEW b \in Bodies(In(t, D \cup {l})) PROVE b \in D
    <3>1. b \in List /\ Owner[b] \in In(t, D \cup {l})
      BY DEF Bodies
    <3>2. PICK k \in D \cup {l} : Owner[b] \in Sequences_!ToSet(t[k])
      BY <3>1 DEF In
    <3>3. CASE k = l
      <4>1. Owner[b] = o
        BY <1>0, <1>8, <3>2, <3>3
      <4>. QED
        BY <1>3, <3>1, <4>1 DEF Bodies
    <3>4. CASE k # l
      <4>1. k \in D /\ k \in List \ {l}
        BY <1>3, <3>4
      <4>2. Owner[b] \in Sequences_!ToSet(r[k])
        BY <1>5, <3>2, <4>1
      <4>3. Owner[b] \in In(r, D)
        BY <4>1, <4>2 DEF In
      <4>. QED
        BY <1>3, <3>1, <4>3 DEF Downwards, Bodies
    <3>. QED
      BY <3>3, <3>4
  <2>. QED
    BY <2>1 DEF Downwards
<1>16. W \subseteq D \cup {l}
  <2>1. D \cup {l} \in SUBSET List /\ {l} \subseteq D \cup {l}
    BY <1>3
  <2>. QED
    BY <1>4, <1>15, <2>1
<1>17. W = D \cup {l}
  BY <1>4, <1>13, <1>16
<1>. QED
  BY <1>14, <1>17 DEF DiscardsWithin, W, D, B, r, t

\* operator= replaces the statements of a list that has at most one.
LEMMA AssignRepresents ==
    ASSUME NEW h, NEW q, Represents(h, q), Acyclic(h), NEW l \in List, NEW that \in List, l # that, Len(q[l]) <= 1,
           NEW g, g = assign(h, l, that)
    PROVE  /\ Represents(g, Replaced(q, l, that))
           /\ \A x \in Statement : g.list[x] \in {h.list[x], None} \/ (h.list[x] = that /\ g.list[x] = l)
<1>. DEFINE moved == [h EXCEPT !.first[l] = h.first[that], !.last[l] = h.last[that],
                               !.first[that] = None, !.last[that] = None]
            a == adopt(moved, l, moved.first[l])
            o == h.first[l]
            r == [q EXCEPT ![l] = q[that], ![that] = <<>>]
            t == [q EXCEPT ![that] = <<>>]
            n == Len(q[l])
<1>1. g = discard(a, o)
  BY DEF assign
<1>2. /\ a \in Heap /\ a.next = h.next /\ a.previous = h.previous
      /\ \A x \in Statement : a.list[x] = IF h.list[x] = that THEN l ELSE h.list[x]
      /\ \A k \in List : /\ a.first[k] = IF k = that THEN None ELSE IF k = l THEN h.first[that] ELSE h.first[k]
                         /\ a.last[k] = IF k = that THEN None ELSE IF k = l THEN h.last[that] ELSE h.last[k]
  <2>0. a = adopt(moved, l, moved.first[l])
    OBVIOUS
  <2>. HIDE DEF moved, a
  <2>1. moved = [h EXCEPT !.first[l] = h.first[that], !.last[l] = h.last[that], !.first[that] = None, !.last[that] = None]
    BY DEF moved
  <2>2. HandedOver(h, l, that, a)
    BY <2>0, <2>1, AssignAdopts, Zenon
  <2>. QED
    BY <2>2 DEF HandedOver
<1>. HIDE DEF moved, a
<1>3. h \in Heap /\ q \in [List -> Seq(Statement)]
  BY DEF Represents
<1>4. n \in Nat /\ n <= 1 /\ q[l] \in Seq(Statement) /\ \A i \in 1 .. n : q[l][i] \in Statement
  BY Elements
<1>5. o = IF n = 0 THEN None ELSE q[l][1]
  BY Ends
<1>6. \A x : x \in Sequences_!ToSet(q[l]) <=> \E i \in 1 .. n : x = q[l][i]
  BY <1>4 DEF Sequences_!ToSet
<1>7. \A x \in Statement : h.list[x] = l <=> x \in Sequences_!ToSet(q[l])
  BY InList
<1>8. r \in [List -> Seq(Statement)] /\ t \in [List -> Seq(Statement)]
      /\ r[l] = q[that] /\ r[that] = <<>> /\ t[that] = <<>> /\ t[l] = q[l] /\ \A k \in List \ {l} : r[k] = t[k]
  BY <1>3
<1>9. CASE n = 0
  <2>1. o = None /\ g = a
    BY <1>1, <1>5, <1>9 DEF discard
  <2>2. \A x \in Statement : h.list[x] # l
    BY <1>6, <1>7, <1>9
  <2>3. Adopted(h, l, that, g)
    BY <1>2, <2>1, <2>2 DEF Adopted
  <2>4. Represents(g, r)
    BY <2>3, AdoptedRepresents
  <2>. DEFINE E == Sequences_!Emptied({l}, t)
              W == Sequences_!Within({l}, t)
  <2>5. W = {l}
    <3>1. In(t, {l}) = {}
      BY <1>6, <1>8, <1>9 DEF In
    <3>2. Downwards(t, {l})
      BY <3>1 DEF Downwards, Bodies
    <3>. QED
      BY <3>2, WithinLeast
  <2>6. E = [k \in List |-> IF k \in W THEN <<>> ELSE t[k]]
    BY DEF Sequences_!Emptied
  <2>7. Replaced(q, l, that) = [E EXCEPT ![l] = q[that]]
    BY DEF Replaced
  <2>. HIDE DEF W, E
  <2>8. \A k \in List : Replaced(q, l, that)[k] = r[k]
    BY <1>8, <2>5, <2>6, <2>7
  <2>9. DOMAIN Replaced(q, l, that) = List /\ Replaced(q, l, that) = [k \in List |-> Replaced(q, l, that)[k]]
    BY <2>6, <2>7
  <2>. HIDE DEF r
  <2>10. Replaced(q, l, that) = r
    BY <1>8, <2>8, <2>9
  <2>11. \A x \in Statement : g.list[x] \in {h.list[x], None} \/ (h.list[x] = that /\ g.list[x] = l)
    BY <1>2, <2>1
  <2>. QED
    BY <2>4, <2>10, <2>11
<1>10. CASE n # 0
  <2>1. n = 1 /\ o = q[l][1] /\ o \in Statement /\ o # None
    <3>. HIDE DEF n, o
    <3>1. n = 1 /\ 1 \in 1 .. n
      BY <1>4, <1>10
    <3>. QED
      BY <1>4, <1>5, <1>10, <3>1, TreeAssumption
  <2>2. \A x : x \in Sequences_!ToSet(q[l]) <=> x = o
    BY <1>6, <2>1
  <2>3. h.list[o] = l /\ h.previous[o] = None /\ h.next[o] = None
    BY <2>1, Elements, Ends
  <2>4. \A x \in Statement : h.list[x] = l <=> x = o
    BY <1>7, <2>2
  <2>. DEFINE f == [a EXCEPT !.list[o] = None]
              B == Bodies({o})
              D == Sequences_!Within(B, r)
              d == clearAll(a, B)
  <2>5. /\ f \in Heap /\ f.next = a.next /\ f.previous = a.previous /\ f.first = a.first /\ f.last = a.last
        /\ \A x \in Statement : f.list[x] = IF x = o THEN None ELSE a.list[x]
    BY <1>2, <2>1, HeapType DEF Heap
  <2>. HIDE DEF f, o
  <2>6. Adopted(h, l, that, f)
    BY <1>2, <2>4, <2>5 DEF Adopted
  <2>7. Represents(f, r)
    BY <2>6, AdoptedRepresents
  <2>. HIDE DEF r
  <2>8. Chains(a, r)
    BY <1>2, <2>5, <2>7, RepresentsChains DEF Chains
  <2>9. B \in SUBSET List
    BY DEF Bodies
  <2>10. D \in SUBSET List
    BY <2>9, WithinLeast
  <2>11. ASSUME NEW b \in B, NEW k \in D PROVE Owner[b] \notin Sequences_!ToSet(r[k])
    <3>1. Owner[b] = o /\ k \in List
      BY <2>10 DEF Bodies
    <3>2. f.list[o] = None
      BY <2>1, <2>5
    <3>. QED
      BY <2>7, <3>1, <3>2, InList, TreeAssumption
  <2>12. Wiped(a, r, D, d)
    BY <2>8, <2>9, <2>11, ClearAllWipes
  <2>13. g = Detached(d, o)
    BY <1>1, <2>1 DEF discard, dropAllReferences
  <2>. HIDE DEF B, D, d
  <2>14. /\ g \in Heap /\ g.first = d.first /\ g.last = d.last
         /\ \A x \in Statement : /\ g.list[x] = (IF x = o THEN None ELSE d.list[x])
                                 /\ g.next[x] = (IF x = o THEN None ELSE d.next[x])
                                 /\ g.previous[x] = (IF x = o THEN None ELSE d.previous[x])
    <3>1. d \in Heap
      BY <2>12 DEF Wiped
    <3>. QED
      BY <2>1, <2>13, <3>1, DetachedLinks
  <2>15. Wiped(f, r, D, g)
    <3>1. \A x \in Statement : /\ d.list[x] = (IF x \in In(r, D) THEN None ELSE a.list[x])
                               /\ d.previous[x] = (IF x \in In(r, D) THEN None ELSE h.previous[x])
                               /\ d.next[x] = (IF x \in In(r, D) THEN None ELSE h.next[x])
      BY <1>2, <2>12 DEF Wiped
    <3>2. \A x \in Statement : /\ g.list[x] = (IF x \in In(r, D) THEN None ELSE f.list[x])
                               /\ g.previous[x] = (IF x \in In(r, D) THEN None ELSE f.previous[x])
                               /\ g.next[x] = (IF x \in In(r, D) THEN None ELSE f.next[x])
      BY <1>2, <2>3, <2>5, <2>14, <3>1
    <3>3. \A k \in List : /\ g.first[k] = (IF k \in D THEN None ELSE f.first[k])
                          /\ g.last[k] = (IF k \in D THEN None ELSE f.last[k])
      BY <2>5, <2>12, <2>14 DEF Wiped
    <3>. QED
      BY <2>14, <3>2, <3>3 DEF Wiped
  <2>. DEFINE v == [k \in List |-> IF k \in D THEN <<>> ELSE r[k]]
  <2>16. Represents(g, v)
    BY <2>7, <2>10, <2>15, WipedRepresents
  <2>17. l \notin D /\ Sequences_!Within({l}, t) = D \cup {l}
    <3>. HIDE DEF t
    <3>1. HasOnly(q, l, o)
      BY <2>2 DEF HasOnly
    <3>2. r = Taken(q, l, that) /\ t = Left(q, that)
      BY DEF r, t, Taken, Left
    <3>3. D = Sequences_!Within(Bodies({o}), r)
      BY DEF D, B
    <3>4. o \in Statement
      BY <2>1
    <3>5. DiscardsWithin(q, l, that, o)
      BY <3>1, <3>4, WithinReplaced, Zenon
    <3>. QED
      BY <3>2, <3>3, <3>5 DEF DiscardsWithin
  <2>. DEFINE E == Sequences_!Emptied({l}, t)
              W == Sequences_!Within({l}, t)
  <2>18. E = [k \in List |-> IF k \in D \cup {l} THEN <<>> ELSE t[k]]
    <3>1. E = [k \in List |-> IF k \in W THEN <<>> ELSE t[k]]
      BY DEF Sequences_!Emptied
    <3>. HIDE DEF E, W, t
    <3>2. W = D \cup {l}
      BY <2>17 DEF W
    <3>. QED
      BY <3>1, <3>2
  <2>19. Replaced(q, l, that) = [E EXCEPT ![l] = q[that]]
    BY DEF Replaced
  <2>. HIDE DEF E, t
  <2>20. \A k \in List : Replaced(q, l, that)[k] = v[k]
    BY <1>8, <2>17, <2>18, <2>19
  <2>21. Replaced(q, l, that) = [k \in List |-> Replaced(q, l, that)[k]]
    BY <2>18, <2>19
  <2>22. Replaced(q, l, that) = v
    BY <2>20, <2>21
  <2>23. \A x \in Statement : g.list[x] \in {h.list[x], None} \/ (h.list[x] = that /\ g.list[x] = l)
    BY <1>2, <2>5, <2>15 DEF Wiped
  <2>. QED
    BY <2>16, <2>22, <2>23
<1>. QED
  BY <1>9, <1>10

-----------------------------------------------------------------------------
(***************************************************************************)
(* The steps                                                               *)
(***************************************************************************)
\* What every step has to show.
Step == ListInv' /\ [Sequences_!Next]_Contents

\* A heap that represents sequences has them as its contents.
LEMMA NewContents ==
    ASSUME NEW q, Represents(heap', q), Acyclic(heap')
    PROVE  ListInv' /\ Contents' = q
<1>1. ContentsOf(heap') = q
  BY RepresentsContents
<1>2. Contents' = q
  BY <1>1 DEF Contents
<1>. QED
  BY <1>2 DEF ListInv

\* A statement that may join a list is in none, and the list is not part of it.
LEMMA JoinGuards ==
    ASSUME Represents(heap, Contents), NEW l \in List, NEW s \in Statement, MayJoin(l, s)
    PROVE  s \notin Sequences_!Held /\ l \notin Sequences_!Within(Sequences_!Bodies({s}), Contents)
<1>. DEFINE q == Contents
<1>1. ASSUME NEW k \in List PROVE s \notin Sequences_!ToSet(q[k])
  BY InList, TreeAssumption DEF MayJoin
<1>2. s \notin Sequences_!Held
  BY <1>1 DEF Sequences_!Held
<1>. DEFINE L == Bodies({s})
<1>3. L \in SUBSET List /\ \A b \in L : Owner[b] = s
  BY DEF Bodies
<1>. HIDE DEF q, L
<1>4. l \notin Sequences_!Within(L, q)
  BY <1>3, WithinBodies DEF MayJoin, q
<1>. QED
  BY <1>2, <1>4 DEF q, L, Bodies, Sequences_!Bodies

\* push_front, push_back and insert.
LEMMA StatementJoins ==
    ASSUME ListInv, NEW l \in List, NEW s \in Statement, MayJoin(l, s),
           NEW i \in 1 .. (Len(Contents[l]) + 1), LinkedIn(heap, Contents, l, i, s, heap')
    PROVE  Step
<1>. DEFINE q == Contents
            t == Sequences_!InsertAt(q[l], i, s)
            r == [q EXCEPT ![l] = t]
<1>1. Represents(heap, q) /\ Acyclic(heap) /\ heap.list[s] = None /\ s \notin Parents(heap, l)
  BY DEF ListInv, MayJoin
<1>2. Represents(heap', r)
  <2>. HIDE DEF q
  <2>1. i \in 1 .. (Len(q[l]) + 1) /\ LinkedIn(heap, q, l, i, s, heap')
    BY DEF q
  <2>. QED
    BY <1>1, <2>1, LinkedInRepresents
<1>3. Acyclic(heap')
  <2>1. heap \in Heap /\ heap' \in Heap
    BY <1>1, <1>2 DEF Represents
  <2>2. \A x \in Statement : heap'.list[x] \in {heap.list[x], None} \/ (x \in {s} /\ heap'.list[x] = l)
    BY DEF LinkedIn
  <2>3. {s} \cap Parents(heap, l) = {} /\ {s} \in SUBSET Statement
    BY <1>1
  <2>. QED
    BY <1>1, <2>1, <2>2, <2>3, StaysAcyclic
<1>4. ListInv' /\ Contents' = r
  <2>. HIDE DEF r
  <2>. QED
    BY <1>2, <1>3, NewContents
<1>5. s \notin Sequences_!Held /\ l \notin Sequences_!Within(Sequences_!Bodies({s}), Contents)
  BY <1>1, JoinGuards
<1>. DEFINE n == Len(q[l])
            j == i - 1
<1>6. n \in Nat
  BY <1>1, Elements
<1>7. j \in 0 .. n /\ j + 1 = i
  <2>1. i \in 1 .. (n + 1)
    OBVIOUS
  <2>. HIDE DEF n
  <2>. QED
    BY <1>6, <2>1
<1>8. Sequences_!Insert(l, j, s)
  <2>1. Contents' = [Contents EXCEPT ![l] = Sequences_!InsertAt(Contents[l], j + 1, s)]
    BY <1>4, <1>7
  <2>. HIDE DEF j
  <2>. QED
    BY <1>5, <1>7, <2>1 DEF Sequences_!Insert
<1>. HIDE DEF j
<1>9. Sequences_!Next
  BY <1>7, <1>8 DEF Sequences_!Next
<1>. QED
  BY <1>4, <1>9 DEF Step

\* pop_front, pop_back and erase.
LEMMA StatementLeaves ==
    ASSUME ListInv, NEW l \in List, NEW i \in 1 .. Len(Contents[l]), LinkedOut(heap, Contents, l, i, heap')
    PROVE  Step
<1>. DEFINE q == Contents
            t == Sequences_!RemoveAt(q[l], i)
            r == [q EXCEPT ![l] = t]
<1>1. Represents(heap, q) /\ Acyclic(heap)
  BY DEF ListInv
<1>2. Represents(heap', r)
  <2>. HIDE DEF q
  <2>1. i \in 1 .. Len(q[l]) /\ LinkedOut(heap, q, l, i, heap')
    BY DEF q
  <2>. QED
    BY <1>1, <2>1, LinkedOutRepresents
<1>3. Acyclic(heap')
  <2>1. heap \in Heap /\ heap' \in Heap
    BY <1>1, <1>2 DEF Represents
  <2>2. \A x \in Statement : heap'.list[x] \in {heap.list[x], None} \/ (x \in {} /\ heap'.list[x] = l)
    BY DEF LinkedOut
  <2>3. {} \cap Parents(heap, l) = {} /\ {} \in SUBSET Statement
    OBVIOUS
  <2>. QED
    BY <1>1, <2>1, <2>2, <2>3, StaysAcyclic
<1>4. ListInv' /\ Contents' = r
  <2>. HIDE DEF r
  <2>. QED
    BY <1>2, <1>3, NewContents
<1>5. Sequences_!Erase(l, i)
  BY <1>4 DEF Sequences_!Erase
<1>6. Sequences_!Next
  BY <1>5 DEF Sequences_!Next
<1>. QED
  BY <1>4, <1>6 DEF Step

\* push_front_all, push_back_all and insert_all.
LEMMA ListMoves ==
    ASSUME ListInv, NEW l \in List, NEW that \in List, MayMove(l, that), NEW p \in 0 .. Len(Contents[l]),
           heap' \in InMove(Contents, l, p, that, 1, Len(Contents[that]))
    PROVE  Step
<1>. DEFINE q == Contents
            r == Spliced(q, l, p, that)
            a == q[l]
            b == q[that]
            t == SubSeq(a, 1, p) \o b \o SubSeq(a, p + 1, Len(a))
            M == {x \in Statement : heap.list[x] = that}
<1>1. Represents(heap, q) /\ Acyclic(heap) /\ l # that
  BY DEF ListInv, MayMove
<1>2. Represents(heap', r)
  <2>. HIDE DEF q
  <2>1. p \in 0 .. Len(q[l]) /\ heap' \in InMove(q, l, p, that, 1, Len(q[that]))
    BY DEF q
  <2>. QED
    BY <1>1, <2>1, MoveRepresents
<1>3. heap \in Heap /\ heap' \in Heap /\ q \in [List -> Seq(Statement)] /\ r \in [List -> Seq(Statement)]
  BY <1>1, <1>2 DEF Represents
<1>4. M \in SUBSET Statement /\ M \cap Parents(heap, l) = {}
  BY DEF MayMove, Members
<1>5. a \in Seq(Statement) /\ b \in Seq(Statement) /\ p \in 0 .. Len(a) /\ Len(a) \in Nat /\ Len(b) \in Nat
  BY <1>3
<1>6. r[l] = t /\ r[that] = <<>> /\ \A k \in List \ {l, that} : r[k] = q[k]
  BY <1>1, <1>3 DEF Spliced
<1>7. ASSUME NEW x \in Sequences_!ToSet(t) PROVE x \in Sequences_!ToSet(a) \/ x \in Sequences_!ToSet(b)
  <2>. HIDE DEF a, b
  <2>1. /\ t \in Seq(Statement) /\ Len(t) = Len(a) + Len(b)
        /\ \A j \in 1 .. Len(t) : t[j] = IF j <= p THEN a[j] ELSE IF j <= p + Len(b) THEN b[j - p] ELSE a[j - Len(b)]
    BY <1>5, PutIn
  <2>. HIDE DEF t
  <2>2. PICK j \in 1 .. Len(t) : x = t[j]
    BY <2>1 DEF Sequences_!ToSet
  <2>. DEFINE n == Len(a)
              m == Len(b)
  <2>3. n \in Nat /\ m \in Nat /\ p \in 0 .. n /\ j \in 1 .. (n + m)
    BY <1>5, <2>1
  <2>4. x = IF j <= p THEN a[j] ELSE IF j <= p + m THEN b[j - p] ELSE a[j - m]
    BY <2>1, <2>2
  <2>5. (\A i \in 1 .. n : a[i] \in Sequences_!ToSet(a)) /\ (\A i \in 1 .. m : b[i] \in Sequences_!ToSet(b))
    BY <1>5 DEF Sequences_!ToSet
  <2>. HIDE DEF n, m
  <2>6. /\ j <= p => j \in 1 .. n
        /\ ~(j <= p) /\ j <= p + m => j - p \in 1 .. m
        /\ ~(j <= p) /\ ~(j <= p + m) => j - m \in 1 .. n
    BY <2>3
  <2>. QED
    BY <2>4, <2>5, <2>6
<1>8. ASSUME NEW x \in Statement
      PROVE  heap'.list[x] \in {heap.list[x], None} \/ (x \in M /\ heap'.list[x] = l)
  <2>. DEFINE k == heap'.list[x]
  <2>. SUFFICES ASSUME k # None PROVE k = heap.list[x] \/ (x \in M /\ k = l)
    OBVIOUS
  <2>1. k \in List
    BY <1>3, HeapType
  <2>2. x \in Sequences_!ToSet(r[k])
    BY <1>2, <2>1, InList
  <2>. HIDE DEF k, r, a, b, t, q
  <2>3. k # that
    <3>. SUFFICES ASSUME k = that PROVE FALSE
      OBVIOUS
    <3>1. x \in Sequences_!ToSet(<<>>) /\ DOMAIN <<>> = {}
      BY <1>6, <2>2
    <3>. QED
      BY <3>1 DEF Sequences_!ToSet
  <2>4. CASE k = l
    <3>1. x \in Sequences_!ToSet(a) \/ x \in Sequences_!ToSet(b)
      BY <1>6, <1>7, <2>2, <2>4
    <3>2. heap.list[x] = l \/ heap.list[x] = that
      BY <1>1, <3>1, InList DEF a, b
    <3>. QED
      BY <2>4, <3>2
  <2>5. CASE k # l
    <3>1. x \in Sequences_!ToSet(q[k])
      BY <1>6, <2>1, <2>2, <2>3, <2>5
    <3>. QED
      BY <1>1, <2>1, <3>1, InList
  <2>. QED
    BY <2>4, <2>5
<1>9. Acyclic(heap')
  <2>. HIDE DEF M
  <2>. QED
    BY <1>1, <1>3, <1>4, <1>8, StaysAcyclic
<1>10. ListInv' /\ Contents' = r
  <2>. HIDE DEF r
  <2>. QED
    BY <1>2, <1>9, NewContents
<1>11. l \notin Sequences_!Within({that}, Contents)
  BY <1>1, <1>4, MayMoveOutside
<1>12. Sequences_!Splice(l, p, that)
  <2>1. Contents' = [Contents EXCEPT ![l] = SubSeq(Contents[l], 1, p) \o Contents[that] \o SubSeq(Contents[l], p + 1, Len(Contents[l])),
                                     ![that] = <<>>]
    BY <1>10 DEF Spliced
  <2>. QED
    BY <1>11, <2>1 DEF Sequences_!Splice
<1>13. Sequences_!Next
  BY <1>12 DEF Sequences_!Next
<1>. QED
  BY <1>10, <1>13 DEF Step

\* clear and dropAllReferences.
LEMMA ListsCleared ==
    ASSUME ListInv, NEW o \in Statement \cup {None}, NEW L \in SUBSET List, \A b \in L : Owner[b] = o,
           heap' = clearAll(heap, L)
    PROVE  ListInv' /\ Sequences_!Clear(L)
<1>. DEFINE q == Contents
            r == Sequences_!Emptied(L, q)
<1>1. Represents(heap, q) /\ Acyclic(heap)
  BY DEF ListInv
<1>2. Represents(heap', r) /\ \A x \in Statement : heap'.list[x] \in {heap.list[x], None}
  <2>. HIDE DEF q
  <2>. QED
    BY <1>1, ClearRepresents
<1>3. heap \in Heap /\ heap' \in Heap
  BY <1>1, <1>2 DEF Represents
<1>4. Acyclic(heap')
  <2>. SUFFICES ASSUME NEW x \in Statement, heap'.list[x] # None PROVE Acyclic(heap')
    BY DEF Acyclic
  <2>. DEFINE l == heap'.list[x]
  <2>1. l \in List
    BY <1>3, HeapType
  <2>. HIDE DEF l
  <2>2. \A y \in Statement : heap'.list[y] \in {heap.list[y], None} \/ (y \in {} /\ heap'.list[y] = l)
    BY <1>2
  <2>3. {} \cap Parents(heap, l) = {} /\ {} \in SUBSET Statement
    OBVIOUS
  <2>. QED
    BY <1>1, <1>3, <2>1, <2>2, <2>3, StaysAcyclic
<1>5. ListInv' /\ Contents' = r
  <2>. HIDE DEF r
  <2>. QED
    BY <1>2, <1>4, NewContents
<1>. QED
  BY <1>5 DEF Sequences_!Clear

\* operator=.
LEMMA ListAssigned ==
    ASSUME ListInv, NEW l \in List, NEW that \in List, Assign(l, that)
    PROVE  Step
<1>. DEFINE q == Contents
            r == Replaced(q, l, that)
            M == {x \in Statement : heap.list[x] = that}
            n == Len(q[l])
<1>1. Represents(heap, q) /\ Acyclic(heap) /\ l # that /\ heap' = assign(heap, l, that)
  BY DEF ListInv, Assign, MayMove
<1>2. M \in SUBSET Statement /\ M \cap Parents(heap, l) = {}
  BY DEF Assign, MayMove, Members
<1>3. n \in Nat /\ n <= 1
  <2>1. n \in Nat /\ \A i \in 1 .. n : q[l][i] \in Statement /\ heap.list[q[l][i]] = l
    BY <1>1, Elements
  <2>2. \A i, j \in 1 .. n : q[l][i] = q[l][j] => i = j
    BY <1>1, Ends
  <2>. SUFFICES ASSUME ~(n <= 1) PROVE FALSE
    BY <2>1
  <2>. DEFINE a == q[l][1]
              b == q[l][2]
  <2>. HIDE DEF n
  <2>3. 1 \in 1 .. n /\ 2 \in 1 .. n
    BY <2>1
  <2>4. a \in Members(l) /\ b \in Members(l) /\ a # b
    BY <2>1, <2>2, <2>3 DEF Members
  <2>. HIDE DEF a, b
  <2>5. IsFiniteSet(Members(l)) /\ Cardinality(Members(l)) \in Nat
    BY FS_Subset, FS_CardinalityType, TreeAssumption DEF Members
  <2>6. IsFiniteSet({a}) /\ Cardinality({a}) = 1
    BY FS_Singleton
  <2>7. IsFiniteSet({a} \cup {b}) /\ Cardinality({a} \cup {b}) = 2
    <3>1. b \notin {a}
      BY <2>4
    <3>2. /\ IsFiniteSet({a} \cup {b})
          /\ Cardinality({a} \cup {b}) = IF b \in {a} THEN Cardinality({a}) ELSE Cardinality({a}) + 1
      BY <2>6, FS_AddElement, Zenon
    <3>. QED
      BY <2>6, <3>1, <3>2
  <2>8. Cardinality({a} \cup {b}) <= Cardinality(Members(l))
    BY <2>4, <2>5, FS_Subset
  <2>9. Cardinality(Members(l)) <= 1
    BY <2>5, ReplacedAssumption DEF Assign
  <2>. QED
    BY <2>5, <2>7, <2>8, <2>9
<1>4. /\ Represents(heap', r)
      /\ \A x \in Statement : heap'.list[x] \in {heap.list[x], None} \/ (heap.list[x] = that /\ heap'.list[x] = l)
  <2>1. Len(q[l]) <= 1
    BY <1>3
  <2>. HIDE DEF q
  <2>. QED
    BY <1>1, <2>1, AssignRepresents
<1>5. heap \in Heap /\ heap' \in Heap
  BY <1>1, <1>4 DEF Represents
<1>6. \A x \in Statement : heap'.list[x] \in {heap.list[x], None} \/ (x \in M /\ heap'.list[x] = l)
  BY <1>4
<1>7. Acyclic(heap')
  <2>. HIDE DEF M
  <2>. QED
    BY <1>1, <1>2, <1>5, <1>6, StaysAcyclic
<1>8. ListInv' /\ Contents' = r
  <2>. HIDE DEF r
  <2>. QED
    BY <1>4, <1>7, NewContents
<1>9. l \notin Sequences_!Within({that}, Contents)
  BY <1>1, <1>2, MayMoveOutside
<1>10. Sequences_!Replace(l, that)
  <2>1. Contents' = [Sequences_!Emptied({l}, [Contents EXCEPT ![that] = <<>>]) EXCEPT ![l] = Contents[that]]
    BY <1>8 DEF Replaced
  <2>. QED
    BY <1>9, <2>1 DEF Sequences_!Replace
<1>11. Sequences_!Next
  BY <1>10 DEF Sequences_!Next
<1>. QED
  BY <1>8, <1>11 DEF Step

\* Which number a statement has in its list.
LEMMA NumberInList ==
    ASSUME ListInv, NEW x \in Statement, heap.list[x] # None
    PROVE  heap.list[x] \in List /\ \E i \in 1 .. Len(Contents[heap.list[x]]) : Contents[heap.list[x]][i] = x
<1>1. Represents(heap, Contents) /\ heap \in Heap
  BY DEF ListInv, Represents
<1>2. heap.list[x] \in List
  BY <1>1, HeapType
<1>. QED
  BY <1>1, <1>2, Ends

\* Every call preserves the invariant, and does to the sequences what StatementSeq says.
LEMMA NextStep ==
    ASSUME ListInv, [Next]_heap
    PROVE  Step
<1>. DEFINE q == Contents
<1>0. Represents(heap, q)
  BY DEF ListInv
<1>1. ASSUME NEW l \in List, NEW s \in Statement, PushFront(l, s) PROVE Step
  <2>1. MayJoin(l, s) /\ heap' = push_front(heap, l, s) /\ heap.list[s] = None
    BY <1>1 DEF PushFront, MayJoin
  <2>2. LinkedIn(heap, q, l, 1, s, heap') /\ 1 \in 1 .. (Len(q[l]) + 1)
    BY <1>0, <2>1, PushFrontLinks, Elements
  <2>. QED
    BY <2>1, <2>2, StatementJoins
<1>2. ASSUME NEW l \in List, NEW s \in Statement, MayJoin(l, s), heap' = push_back(heap, l, s) PROVE Step
  <2>1. heap.list[s] = None
    BY <1>2 DEF MayJoin
  <2>2. LinkedIn(heap, q, l, Len(q[l]) + 1, s, heap') /\ Len(q[l]) + 1 \in 1 .. (Len(q[l]) + 1)
    BY <1>0, <1>2, <2>1, PushBackLinks, Elements
  <2>. QED
    BY <1>2, <2>2, StatementJoins
<1>3. ASSUME NEW l \in List, NEW s \in Statement, NEW at \in Statement \cup {None}, Insert(l, at, s) PROVE Step
  <2>1. MayJoin(l, s) /\ (at # None => heap.list[at] = l) /\ heap' = insert(heap, l, at, s) /\ heap.list[s] = None
    BY <1>3 DEF Insert, MayJoin
  <2>2. CASE at = None
    <3>1. heap' = push_back(heap, l, s)
      BY <2>1, <2>2 DEF insert
    <3>. QED
      BY <1>2, <2>1, <3>1
  <2>3. CASE at # None
    <3>1. PICK i \in 1 .. Len(q[l]) : q[l][i] = at
      BY <1>0, <2>1, <2>3, Ends
    <3>2. LinkedIn(heap, q, l, i, s, heap')
      BY <1>0, <2>1, <3>1, InsertLinks
    <3>3. i \in 1 .. (Len(q[l]) + 1)
      <4>1. Len(q[l]) \in Nat
        BY <1>0, Elements
      <4>. QED
        BY <4>1
    <3>. QED
      BY <2>1, <3>2, <3>3, StatementJoins
  <2>. QED
    BY <2>2, <2>3
<1>4. ASSUME NEW l \in List, PopFront(l) \/ PopBack(l) PROVE Step
  <2>. DEFINE n == Len(q[l])
  <2>1. n \in Nat /\ n # 0
    BY <1>0, <1>4, Elements, Ends DEF PopFront, PopBack
  <2>2. LinkedOut(heap, q, l, 1, pop_front(heap, l)) /\ LinkedOut(heap, q, l, n, pop_back(heap, l))
    BY <1>0, <2>1, PopLinks
  <2>3. 1 \in 1 .. n /\ n \in 1 .. n
    BY <2>1
  <2>. QED
    BY <1>4, <2>2, <2>3, StatementLeaves DEF PopFront, PopBack
<1>5. ASSUME NEW s \in Statement, Erase(s) PROVE Step
  <2>. DEFINE l == heap.list[s]
  <2>1. l # None /\ heap' = erase(heap, s)
    BY <1>5 DEF Erase
  <2>2. l \in List /\ \E i \in 1 .. Len(q[l]) : q[l][i] = s
    BY <2>1, NumberInList
  <2>. HIDE DEF l
  <2>3. PICK i \in 1 .. Len(q[l]) : q[l][i] = s
    BY <2>2
  <2>4. LinkedOut(heap, q, l, i, heap')
    BY <1>0, <2>1, <2>2, <2>3, EraseLinks
  <2>. QED
    BY <2>2, <2>4, StatementLeaves
<1>6. ASSUME NEW l \in List, NEW that \in List, PushFrontAll(l, that) PROVE Step
  <2>1. MayMove(l, that) /\ l # that /\ heap' = push_front_all(heap, l, that)
    BY <1>6 DEF PushFrontAll, MayMove
  <2>2. heap' \in InMove(q, l, 0, that, 1, Len(q[that])) /\ 0 \in 0 .. Len(q[l])
    BY <1>0, <2>1, PushFrontAllMoves, Elements
  <2>. QED
    BY <2>1, <2>2, ListMoves
<1>7. ASSUME NEW l \in List, NEW that \in List, PushBackAll(l, that) PROVE Step
  <2>1. MayMove(l, that) /\ l # that /\ heap' = push_back_all(heap, l, that)
    BY <1>7 DEF PushBackAll, MayMove
  <2>2. heap' \in InMove(q, l, Len(q[l]), that, 1, Len(q[that])) /\ Len(q[l]) \in 0 .. Len(q[l])
    BY <1>0, <2>1, PushBackAllMoves, Elements
  <2>. QED
    BY <2>1, <2>2, ListMoves
<1>8. ASSUME NEW at \in Statement, NEW that \in List, InsertAll(at, that) PROVE Step
  <2>. DEFINE l == heap.list[at]
  <2>1. l # None /\ MayMove(l, that) /\ l # that /\ heap' = insert_all(heap, l, at, that)
    BY <1>8 DEF InsertAll, MayMove
  <2>2. l \in List /\ \E i \in 1 .. Len(q[l]) : q[l][i] = at
    BY <2>1, NumberInList
  <2>. HIDE DEF l
  <2>3. PICK i \in 1 .. Len(q[l]) : q[l][i] = at
    BY <2>2
  <2>. DEFINE n == Len(q[l])
              p == i - 1
  <2>4. n \in Nat
    BY <1>0, <2>2, Elements
  <2>5. p \in Nat /\ p < n /\ p + 1 = i /\ p \in 0 .. n
    <3>1. i \in 1 .. n
      OBVIOUS
    <3>. HIDE DEF n
    <3>. QED
      BY <2>4, <3>1
  <2>. HIDE DEF p
  <2>6. insert_all(heap, l, q[l][p + 1], that) \in InMove(q, l, p, that, 1, Len(q[that]))
    BY <1>0, <2>1, <2>2, <2>5, InsertAllMoves
  <2>7. heap' \in InMove(q, l, p, that, 1, Len(q[that]))
    BY <2>1, <2>3, <2>5, <2>6
  <2>. QED
    BY <2>1, <2>2, <2>5, <2>7, ListMoves
<1>9. ASSUME NEW l \in List, Clear(l) PROVE Step
  <2>. DEFINE L == {l}
              o == Owner[l]
  <2>1. o \in Statement \cup {None} /\ L \in SUBSET List /\ (\A b \in L : Owner[b] = o) /\ heap' = clearAll(heap, L)
    BY <1>9, TreeAssumption DEF Clear, clear
  <2>2. ListInv' /\ Sequences_!Clear(L)
    <3>. HIDE DEF L, o
    <3>. QED
      BY <2>1, ListsCleared
  <2>3. Sequences_!Next
    BY <2>2 DEF Sequences_!Next
  <2>. QED
    BY <2>2, <2>3 DEF Step
<1>10. ASSUME NEW s \in Statement, DropAllReferences(s) PROVE Step
  <2>. DEFINE L == Bodies({s})
  <2>1. L \in SUBSET List /\ (\A b \in L : Owner[b] = s) /\ heap' = clearAll(heap, L)
    BY <1>10 DEF DropAllReferences, dropAllReferences, Bodies
  <2>2. ListInv' /\ Sequences_!Clear(L)
    <3>. HIDE DEF L
    <3>. QED
      BY <2>1, ListsCleared
  <2>3. L = Sequences_!Bodies({s})
    BY DEF Bodies, Sequences_!Bodies
  <2>. HIDE DEF L
  <2>4. Sequences_!Next
    BY <2>2, <2>3 DEF Sequences_!Next
  <2>. QED
    BY <2>2, <2>4 DEF Step
<1>11. CASE UNCHANGED heap
  <2>1. ListInv' /\ Contents' = Contents
    BY <1>11 DEF ListInv, Contents, Represents, Acyclic, Linked, Parents
  <2>. QED
    BY <2>1 DEF Step
<1>12. CASE Next
  BY <1>1, <1>2, <1>3, <1>4, <1>5, <1>6, <1>7, <1>8, <1>9, <1>10, <1>12, ListAssigned DEF Next, PushBack
<1>. QED
  BY <1>11, <1>12

\* In the beginning all lists are empty.
LEMMA InitStep ==
    ASSUME Init
    PROVE  ListInv /\ Sequences_!Init
<1>. DEFINE q == [l \in List |-> <<>>]
<1>1. heap \in Heap
  BY DEF Init, Heap
<1>2. q \in [List -> Seq(Statement)]
  OBVIOUS
<1>3. ASSUME NEW l \in List PROVE Linked(heap, l, q[l])
  <2>1. /\ heap.first[l] = None /\ heap.last[l] = None
        /\ \A x \in Statement : heap.list[x] # l
    BY TreeAssumption DEF Init
  <2>2. q[l] = <<>> /\ <<>> \in Seq(Statement) /\ Len(<<>>) = 0 /\ 1 .. 0 = {}
    OBVIOUS
  <2>. HIDE DEF q
  <2>. QED
    BY <2>1, <2>2 DEF Linked
<1>4. \A x \in Statement : heap.previous[x] = None /\ heap.next[x] = None /\ heap.list[x] = None
  BY DEF Init
<1>. HIDE DEF q
<1>5. Represents(heap, q)
  BY <1>1, <1>2, <1>3, <1>4 DEF Represents
<1>6. Contents = q
  BY <1>5, RepresentsContents DEF Contents
<1>7. Acyclic(heap)
  BY <1>4 DEF Acyclic
<1>. QED
  BY <1>5, <1>6, <1>7 DEF ListInv, Sequences_!Init, q

-----------------------------------------------------------------------------
(***************************************************************************)
(* The theorems                                                            *)
(***************************************************************************)
\* Whatever the passes call, the links of each StatementList represent a sequence, of which the
\* statements know that they are in it, and no statement is in a list inside itself.
THEOREM ListInvariance == Spec => []ListInv
<1>1. Init => ListInv
  BY InitStep
<1>2. ListInv /\ [Next]_heap => ListInv'
  BY NextStep DEF Step
<1>. QED
  BY <1>1, <1>2, PTL DEF Spec

\* Statement::{list, previous, next} and StatementList::{first, last} always agree: iteration in both
\* directions meets the same statements, erase and insert find the list of a statement, and the asserts
\* of push_front and push_back hold for every statement that is in no list.
THEOREM PointersAgree == Spec => []WellLinked
<1>1. ListInv => WellLinked
  BY RepresentsWellLinked DEF ListInv
<1>. QED
  BY <1>1, ListInvariance, PTL

\* Every operation of statements.cpp does to the statements it iterates over what the operation of
\* StatementSeq does to sequences: the loops over whole lists end with all statements moved in order,
\* clear reaches every body below a list and nothing else, and operator= leaves nothing behind.
THEOREM ListsAreSequences == Spec => ActsAsSequences
<1>1. Init => Sequences_!Init
  BY InitStep
<1>2. ListInv /\ [Next]_heap => [Sequences_!Next]_Contents
  BY NextStep DEF Step
<1>. QED
  BY <1>1, <1>2, ListInvariance, PTL DEF Spec, ActsAsSequences, Sequences_!Spec

=============================================================================
