--------------------------- MODULE AstMemoryProofs --------------------------
(***************************************************************************)
(* Proofs about AstMemory, for every size of pages, uses and objects and   *)
(* every number of operands.                                               *)
(***************************************************************************)
EXTENDS AstMemory, NaturalsLemmas, TLAPS

(***************************************************************************)
(* Tags                                                                    *)
(***************************************************************************)
TagState == [tag : Zero .. Vtable, bits : Nat]

\* The recursion that spells out the distances is well-defined.
LEMMA TagsRecursion ==
    /\ Tags \in [Nat -> TagState]
    /\ Tags[0] = [tag |-> Vtable, bits |-> 0]
    /\ \A d \in Nat \ {0} :
         Tags[d] = IF Tags[d - 1].bits = 0 THEN AtStop(d)
                   ELSE [tag |-> Tags[d - 1].bits % 2, bits |-> Tags[d - 1].bits \div 2]
<1>. USE DEF Zero, Vtable, Stop, FullStop, AtStop, TagState
<1>. DEFINE First == [tag |-> Vtable, bits |-> 0]
            After(d, bits) == IF bits = 0 THEN AtStop(d) ELSE [tag |-> bits % 2, bits |-> bits \div 2]
            step == [p \in Nat \X TagState |-> After(p[1] + 1, p[2].bits)]
<1>1. First \in TagState
  OBVIOUS
<1>2. \A d \in Nat, bits \in Nat : After(d, bits) \in TagState
  OBVIOUS
<1>3. step \in [Nat \X TagState -> TagState]
  <2>1. \A p \in Nat \X TagState : p[1] + 1 \in Nat /\ p[2].bits \in Nat
    OBVIOUS
  <2>. HIDE DEF After
  <2>. QED
    BY <1>2, <2>1
<1>. HIDE DEF step, First, TagState, After
<1>4. PICK f : Recursive(TagState, First, step, f)
  BY <1>1, <1>3, PrimitiveRecursion, Zenon
<1>5. \A n \in Nat : f[n + 1] = After(n + 1, f[n].bits)
  BY <1>4 DEF Recursive, step, TagState
<1>6. \A d \in Nat : f[d] = IF d = 0 THEN First ELSE After(d, f[d - 1].bits)
  <2>1. \A d \in Nat \ {0} : d - 1 \in Nat /\ (d - 1) + 1 = d
    OBVIOUS
  <2>. QED
    BY <1>4, <1>5, <2>1 DEF Recursive
<1>7. f = [d \in Nat |-> IF d = 0 THEN First ELSE After(d, f[d - 1].bits)]
  BY <1>4, <1>6 DEF Recursive
<1>8. Tags = [d \in Nat |-> IF d = 0 THEN First ELSE After(d, Tags[d - 1].bits)]
  BY <1>7 DEF Tags, First, After
<1>9. \A d \in Nat : Tags[d] = IF d = 0 THEN First ELSE After(d, Tags[d - 1].bits)
  BY <1>8
<1>10. Tags \in [Nat -> TagState]
  <2>. DEFINE Bad == {d \in Nat : Tags[d] \notin TagState}
  <2>1. ASSUME Bad # {} PROVE FALSE
    <3>1. PICK d \in Bad : \A l \in Bad : d <= l
      <4>1. Bad \in SUBSET Nat
        OBVIOUS
      <4>. HIDE DEF Bad
      <4>. QED
        BY <2>1, <4>1, LeastNumber
    <3>2. d # 0
      BY <1>1, <1>9, <3>1
    <3>3. d - 1 \in Nat /\ Tags[d - 1] \in TagState
      BY <3>1, <3>2
    <3>4. Tags[d] = After(d, Tags[d - 1].bits) /\ Tags[d - 1].bits \in Nat
      BY <1>9, <3>1, <3>2, <3>3 DEF TagState
    <3>. QED
      BY <1>2, <3>1, <3>4
  <2>. QED
    BY <1>8, <2>1
<1>. QED
  BY <1>9, <1>10 DEF First, After

\* What a tag says: a stop comes when nothing is left to encode, only the last
\* is a full stop, and a digit is taken off what is left.
LEMMA TagKinds ==
    ASSUME NEW d \in Nat \ {0}
    PROVE  /\ Tags[d].bits \in Nat /\ Tags[d].tag \in {0, 1, Stop, FullStop}
           /\ Tags[d - 1].bits = 0 =>
                Tags[d].bits = d /\ Tags[d].tag = IF d = 1 THEN FullStop ELSE Stop
           /\ Tags[d - 1].bits # 0 =>
                Tags[d].tag \in {0, 1} /\ Tags[d - 1].bits = 2 * Tags[d].bits + Tags[d].tag
<1>. USE DEF Stop, FullStop
<1>. DEFINE left == Tags[d - 1].bits
<1>1. d - 1 \in Nat /\ left \in Nat
  BY TagsRecursion DEF TagState
<1>2. CASE left = 0
  <2>1. Tags[d] = AtStop(d)
    BY <1>2, TagsRecursion
  <2>. QED
    BY <1>2, <2>1 DEF AtStop
<1>3. CASE left # 0
  <2>1. Tags[d] = [tag |-> left % 2, bits |-> left \div 2]
    BY <1>3, TagsRecursion
  <2>2. Tags[d].tag = left % 2 /\ Tags[d].bits = left \div 2
    BY <2>1
  <2>. HIDE DEF left
  <2>3. left % 2 \in {0, 1} /\ left \div 2 \in Nat /\ left = 2 * (left \div 2) + (left % 2)
    BY <1>1
  <2>. QED
    BY <1>3, <2>2, <2>3 DEF left
<1>. QED
  BY <1>2, <1>3

\* On the way from a distance to the stop there are digits only.
OnlyDigits(d, s) == \A m \in s + 1 .. d : Tags[m].tag < Stop

\* A stop that is met first on the way from d.
NextStop(d, s) == s \in 1 .. d /\ Tags[s].tag >= Stop /\ OnlyDigits(d, s)

\* There is a stop on the way from everywhere.
LEMMA StopExists ==
    ASSUME NEW d \in Nat \ {0}
    PROVE  \E s : NextStop(d, s)
<1>. DEFINE S == {s \in 1 .. d : Tags[s].tag >= Stop}
<1>1. 1 \in S
  BY TagKinds, TagsRecursion DEF Stop, FullStop
<1>2. S \in SUBSET (0 .. d) /\ S # {}
  BY <1>1
<1>3. PICK s \in S : \A m \in S : m <= s
  <2>. HIDE DEF S
  <2>. QED
    BY <1>2, GreatestNumber
<1>4. OnlyDigits(d, s)
  <2>. SUFFICES ASSUME NEW m \in s + 1 .. d PROVE Tags[m].tag < Stop
    BY DEF OnlyDigits
  <2>1. m \in Nat \ {0} /\ m \notin S /\ m \in 1 .. d
    BY <1>3
  <2>2. Tags[m].tag \in {0, 1, Stop, FullStop}
    BY <2>1, TagKinds
  <2>. QED
    BY <2>1, <2>2 DEF Stop, FullStop
<1>. QED
  BY <1>3, <1>4 DEF NextStop

-----------------------------------------------------------------------------
(***************************************************************************)
(* From a use to its user                                                  *)
(***************************************************************************)
\* The uses of an object are in memory as they were written.
Laid(object, count) ==
    /\ object \in 0 .. heap /\ count \in Nat /\ count * UseSize <= object
    /\ \A d \in 0 .. count : /\ object - d * UseSize \in DOMAIN memory
                             /\ memory[object - d * UseSize] = Tags[d].tag

\* Each step of walkWay comes nearer to the object by one use.
LEMMA Nearer ==
    ASSUME NEW object \in Nat, NEW d \in Nat, NEW n \in 0 .. d
    PROVE  /\ (object - d * UseSize) + n * UseSize = object - (d - n) * UseSize
           /\ d - n \in 0 .. d
<1>. QED
  BY SizeAssumption

\* walkWay stops at the first stop.
LEMMA StepsToStop ==
    ASSUME heap \in Nat, NEW object, NEW count, Laid(object, count),
           NEW d \in 1 .. count, NEW s, NextStop(d, s)
    PROVE  Steps(object - d * UseSize) = d - s
<1>. DEFINE use == object - d * UseSize
            Reached(n) == /\ ~Digit(use + n * UseSize)
                          /\ \A m \in 0 .. n - 1 : Digit(use + m * UseSize)
<1>1. /\ object \in Nat /\ count \in Nat /\ d \in Nat /\ s \in 1 .. d /\ UseSize \in Nat \ {0}
      /\ object <= heap /\ count * UseSize <= object
  BY SizeAssumption DEF Laid, NextStop
<1>2. \A n \in 0 .. d : use + n * UseSize = object - (d - n) * UseSize /\ d - n \in 0 .. count
  BY <1>1, Nearer
<1>3. \A n \in 0 .. d : Digit(use + n * UseSize) <=> Tags[d - n].tag < Stop
  BY <1>2 DEF Laid, Digit
<1>4. d - s \in 0 .. heap
  <2>1. count <= count * UseSize
    BY <1>1
  <2>. QED
    BY <1>1, <2>1
<1>5. Reached(d - s)
  <2>1. d - s \in 0 .. d /\ d - (d - s) = s
    BY <1>1
  <2>2. ~Digit(use + (d - s) * UseSize)
    <3>1. s \in Nat \ {0}
      BY <1>1
    <3>2. Tags[s].tag \in {0, 1, Stop, FullStop} /\ Tags[s].tag >= Stop
      BY <3>1, TagKinds DEF NextStop
    <3>3. ~(Tags[s].tag < Stop)
      BY <3>2 DEF Stop, FullStop
    <3>. QED
      BY <1>3, <2>1, <3>3
  <2>3. ASSUME NEW m \in 0 .. (d - s) - 1 PROVE Digit(use + m * UseSize)
    <3>1. m \in 0 .. d /\ d - m \in s + 1 .. d
      BY <1>1
    <3>. QED
      BY <1>3, <3>1 DEF NextStop, OnlyDigits
  <2>. QED
    BY <2>2, <2>3
<1>6. ASSUME NEW n \in 0 .. heap, Reached(n) PROVE n = d - s
  <2>1. d - s \in Nat /\ n \in Nat
    BY <1>1
  <2>2. ~(n < d - s)
    <3>1. n < d - s => n \in 0 .. (d - s) - 1
      BY <2>1
    <3>. QED
      BY <1>5, <1>6, <3>1
  <2>3. ~(d - s < n)
    <3>1. d - s < n => d - s \in 0 .. n - 1
      BY <2>1
    <3>. QED
      BY <1>5, <1>6, <3>1
  <2>. QED
    BY <2>1, <2>2, <2>3
<1>. HIDE DEF use
<1>7. Steps(use) = CHOOSE n \in 0 .. heap : Reached(n)
  BY DEF Steps
<1>. HIDE DEF Reached
<1>. QED
  BY <1>4, <1>5, <1>6, <1>7 DEF use

\* The digits between a stop and the next one spell how far that is from the
\* object: reading them from the far end gives back what was left to encode.
LEMMA DigitsSpellDistance ==
    ASSUME heap \in Nat, NEW object, NEW count, Laid(object, count),
           NEW d \in 1 .. count, NEW s, NextStop(d, s), Tags[d].bits = 0
    PROVE  Total(object - d * UseSize, d - s) = s
<1>. DEFINE use == object - d * UseSize
            k == d - s
            left == [n \in 0 .. k |-> Tags[d - n].bits]
            Body(n, t) == IF n = 0 THEN 0 ELSE 2 * t[n - 1] + memory[use + (n - 1) * UseSize]
            read == CHOOSE t : t = [n \in 0 .. k |-> Body(n, t)]
<1>1. /\ object \in Nat /\ count \in Nat /\ d \in Nat /\ s \in 1 .. d /\ UseSize \in Nat \ {0}
      /\ k \in 0 .. d
  BY SizeAssumption DEF Laid, NextStop
<1>2. left[0] = 0 /\ left[k] = s
  <2>1. 0 \in 0 .. k /\ k \in 0 .. k /\ d - 0 = d /\ d - k = s /\ s \in Nat \ {0} /\ s - 1 \in Nat
    BY <1>1
  <2>2. Tags[s].tag >= Stop
    BY DEF NextStop
  <2>3. Tags[s].bits = s
    BY <2>1, <2>2, TagKinds DEF Stop
  <2>. QED
    BY <2>1, <2>3
<1>3. ASSUME NEW n \in 1 .. k
      PROVE  left[n] = 2 * left[n - 1] + memory[use + (n - 1) * UseSize]
  <2>. DEFINE m == d - (n - 1)
  <2>1. /\ n - 1 \in 0 .. d /\ m \in s + 1 .. d /\ m \in Nat \ {0} /\ m - 1 = d - n
        /\ n \in 0 .. k /\ n - 1 \in 0 .. k /\ m \in 0 .. count
    BY <1>1
  <2>2. Tags[m].tag < Stop
    BY <2>1 DEF NextStop, OnlyDigits
  <2>3. use + (n - 1) * UseSize = object - m * UseSize
    BY <1>1, <2>1, Nearer
  <2>4. memory[use + (n - 1) * UseSize] = Tags[m].tag
    BY <2>1, <2>3 DEF Laid
  <2>5. Tags[m - 1].bits = 2 * Tags[m].bits + Tags[m].tag
    BY <2>1, <2>2, TagKinds DEF Stop, FullStop
  <2>6. left[n] = Tags[m - 1].bits /\ left[n - 1] = Tags[m].bits
    BY <2>1
  <2>. QED
    BY <2>4, <2>5, <2>6
<1>4. left = [n \in 0 .. k |-> Body(n, left)]
  <2>1. \A n \in 0 .. k : n # 0 => n \in 1 .. k
    BY <1>1
  <2>2. left \in [0 .. k -> {left[n] : n \in 0 .. k}]
    OBVIOUS
  <2>. HIDE DEF left, use, k
  <2>. QED
    BY <1>2, <1>3, <2>1, <2>2
<1>. HIDE DEF left
<1>5. read = [n \in 0 .. k |-> Body(n, read)]
  BY <1>4
<1>6. Total(use, k) = read[k]
  BY DEF Total
<1>. HIDE DEF read, use, k
<1>7. ASSUME {n \in 0 .. k : read[n] # left[n]} # {} PROVE FALSE
  <2>. DEFINE Bad == {n \in 0 .. k : read[n] # left[n]}
  <2>1. PICK n \in Bad : \A m \in Bad : n <= m
    <3>1. Bad \in SUBSET Nat /\ Bad # {}
      BY <1>1, <1>7
    <3>. HIDE DEF Bad
    <3>. QED
      BY <3>1, LeastNumber
  <2>2. n # 0
    BY <1>2, <1>5, <2>1
  <2>3. n \in 1 .. k /\ n - 1 \in 0 .. k /\ n - 1 \notin Bad
    BY <1>1, <2>1, <2>2
  <2>4. read[n - 1] = left[n - 1]
    BY <2>3
  <2>5. read[n] = 2 * read[n - 1] + memory[use + (n - 1) * UseSize]
    BY <1>5, <2>1, <2>2
  <2>. QED
    BY <1>3, <2>1, <2>3, <2>4, <2>5
<1>. QED
  BY <1>1, <1>2, <1>6, <1>7 DEF use, k

\* getUser comes out at the object, from each of its uses.
LEMMA UserOfUse ==
    ASSUME heap \in Nat, NEW object, NEW count, Laid(object, count), NEW d \in 1 .. count
    PROVE  getUser(object - d * UseSize) = object
<1>1. /\ object \in Nat /\ count \in Nat /\ d \in Nat \ {0} /\ UseSize \in Nat \ {0}
  BY SizeAssumption DEF Laid
<1>2. PICK s : NextStop(d, s)
  BY <1>1, StopExists
<1>3. s \in 1 .. d /\ s \in Nat \ {0} /\ s \in 0 .. count /\ Tags[s].tag >= Stop /\ d - s \in 0 .. d
  BY <1>1, <1>2 DEF NextStop
<1>. DEFINE way == walkWay(object - d * UseSize)
<1>4. way.stop = object - s * UseSize
  <2>1. Steps(object - d * UseSize) = d - s
    BY <1>2, StepsToStop
  <2>2. (object - d * UseSize) + (d - s) * UseSize = object - (d - (d - s)) * UseSize
    BY <1>1, <1>3, Nearer
  <2>3. d - (d - s) = s
    BY <1>1, <1>3
  <2>. QED
    BY <2>1, <2>2, <2>3 DEF walkWay
<1>5. way.stop \in DOMAIN memory /\ memory[way.stop] = Tags[s].tag
  BY <1>3, <1>4 DEF Laid
<1>6. Tags[s - 1].bits = 0 /\ Tags[s].tag = IF s = 1 THEN FullStop ELSE Stop
  BY <1>3, TagKinds DEF Stop, FullStop
<1>. HIDE DEF way
<1>7. CASE s = 1
  <2>1. getUser(object - d * UseSize) = way.stop + UseSize
    BY <1>5, <1>6, <1>7 DEF getUser, way
  <2>. QED
    BY <1>1, <1>4, <1>7, <2>1
<1>8. CASE s # 1
  <2>1. s - 1 \in 1 .. count /\ s - 1 \in Nat \ {0}
    BY <1>1, <1>3, <1>8
  <2>2. PICK s2 : NextStop(s - 1, s2)
    BY <2>1, StopExists
  <2>. DEFINE more == walkWay(object - (s - 1) * UseSize)
  <2>3. s2 \in 1 .. s - 1 /\ s2 \in Nat
    BY <2>1, <2>2 DEF NextStop
  <2>4. Steps(object - (s - 1) * UseSize) = (s - 1) - s2
    BY <2>1, <2>2, StepsToStop
  <2>5. Total(object - (s - 1) * UseSize, (s - 1) - s2) = s2
    BY <1>6, <2>1, <2>2, DigitsSpellDistance
  <2>6. /\ more.stop = (object - (s - 1) * UseSize) + ((s - 1) - s2) * UseSize
        /\ more.total = s2
    BY <2>4, <2>5 DEF walkWay
  <2>7. way.stop + UseSize = object - (s - 1) * UseSize
    BY <1>1, <1>3, <1>4
  <2>8. getUser(object - d * UseSize) = more.stop + UseSize * more.total
    BY <1>5, <1>6, <1>8, <2>7 DEF getUser, way, Stop, FullStop
  <2>. HIDE DEF more
  <2>9. (object - (s - 1) * UseSize) + ((s - 1) - s2) * UseSize = object - s2 * UseSize
    <3>1. (s - 1) - s2 \in 0 .. s - 1 /\ (s - 1) - ((s - 1) - s2) = s2
      BY <1>3, <2>3
    <3>. QED
      BY <1>1, <2>1, <3>1, Nearer
  <2>10. object - s2 * UseSize + UseSize * s2 = object
    BY <1>1, <2>3
  <2>. QED
    BY <2>6, <2>8, <2>9, <2>10
<1>. QED
  BY <1>7, <1>8

-----------------------------------------------------------------------------
(***************************************************************************)
(* The pool                                                                *)
(***************************************************************************)
Page == [base : Nat, size : Nat]

\* The part of the pool that is being filled: it lies below the heap's end.
PoolOK(heap_, pool_, offset_) ==
    /\ heap_ \in Nat
    /\ pool_ \in Seq(Page) /\ pool_ # <<>>
    /\ offset_ \in 0 .. Last(pool_).size
    /\ Last(pool_).base + Last(pool_).size <= heap_

\* Bytes that are taken: not in what is left of the last page, nor past the heap's end.
Taken(heap_, pool_, offset_, at, size) ==
    /\ at + size <= heap_
    /\ at >= Last(pool_).base + offset_ \/ at + size <= Last(pool_).base

InSomePage(pool_, at, size) ==
    \E p \in DOMAIN pool_ : pool_[p].base <= at /\ at + size <= pool_[p].base + pool_[p].size

\* What an allocation promises.
Allocates(r, size, align) ==
    /\ PoolOK(r.heap, r.pool, r.offset)
    /\ r.at \in Nat /\ r.at % align = 0
    /\ Taken(r.heap, r.pool, r.offset, r.at, size)
    /\ InSomePage(r.pool, r.at, size)
    /\ heap <= r.heap
    /\ \A at, n \in Nat : InSomePage(pool, at, n) => InSomePage(r.pool, at, n)
    /\ \A at, n \in Nat : Taken(heap, pool, offset, at, n) =>
          /\ Taken(r.heap, r.pool, r.offset, at, n)
          /\ at + n <= r.at \/ r.at + size <= at

\* The sizes, as far as most proofs need them.
LEMMA Sizes ==
    /\ WordSize \in Nat \ {0} /\ HeadSize \in Nat \ {0} /\ UseSize \in Nat \ {0}
    /\ ObjectSize \in Nat \ {0} /\ ChunkSize \in Nat \ {0} /\ 2 * WordSize <= ChunkSize
    /\ Gap \subseteq Nat
<1>1. /\ WordSize \in Nat /\ WordSize > 0 /\ 2 * WordSize <= ChunkSize
      /\ \A size \in {HeadSize, UseSize, ObjectSize, ChunkSize} : size \in Nat /\ size > 0
  BY SizeAssumption
<1>2. /\ HeadSize \in Nat /\ HeadSize > 0 /\ UseSize \in Nat /\ UseSize > 0
      /\ ObjectSize \in Nat /\ ObjectSize > 0 /\ ChunkSize \in Nat /\ ChunkSize > 0
  BY <1>1
<1>3. \A n \in Nat : n > 0 => n \in Nat \ {0}
  OBVIOUS
<1>4. Gap \subseteq Nat
  BY SizeAssumption
<1>. QED
  BY <1>1, <1>2, <1>3, <1>4

\* The last page.
LEMMA LastPage ==
    ASSUME NEW heap_, NEW pool_, NEW offset_, PoolOK(heap_, pool_, offset_)
    PROVE  /\ heap_ \in Nat /\ pool_ \in Seq(Page) /\ pool_ # <<>> /\ Last(pool_) \in Page
           /\ Last(pool_).base \in Nat /\ Last(pool_).size \in Nat
           /\ offset_ \in Nat /\ offset_ <= Last(pool_).size
           /\ Last(pool_).base + Last(pool_).size <= heap_
           /\ Len(pool_) \in DOMAIN pool_ /\ pool_[Len(pool_)] = Last(pool_)
<1>1. /\ heap_ \in Nat /\ pool_ \in Seq(Page) /\ pool_ # <<>>
      /\ offset_ \in 0 .. Last(pool_).size
      /\ Last(pool_).base + Last(pool_).size <= heap_
  BY DEF PoolOK
<1>2. Len(pool_) \in DOMAIN pool_ /\ pool_[Len(pool_)] = Last(pool_)
  BY <1>1 DEF Last
<1>3. Last(pool_) \in Page
  BY <1>1, <1>2
<1>4. Last(pool_).base \in Nat /\ Last(pool_).size \in Nat
  BY <1>3 DEF Page
<1>. QED
  BY <1>1, <1>2, <1>3, <1>4

\* A page behind the others, and one before them.
LEMMA NewPage ==
    ASSUME NEW pages \in Seq(Page), pages # <<>>, NEW page \in Page
    PROVE  /\ Append(pages, page) \in Seq(Page) /\ Append(pages, page) # <<>>
           /\ Last(Append(pages, page)) = page
           /\ Len(pages) + 1 \in DOMAIN Append(pages, page)
           /\ Append(pages, page)[Len(pages) + 1] = page
           /\ \A p \in DOMAIN pages : p \in DOMAIN Append(pages, page) /\ Append(pages, page)[p] = pages[p]
           /\ <<page>> \o pages \in Seq(Page) /\ <<page>> \o pages # <<>>
           /\ Last(<<page>> \o pages) = Last(pages)
           /\ 1 \in DOMAIN (<<page>> \o pages) /\ (<<page>> \o pages)[1] = page
           /\ \A p \in DOMAIN pages : /\ p + 1 \in DOMAIN (<<page>> \o pages)
                                      /\ (<<page>> \o pages)[p + 1] = pages[p]
<1>. USE DEF Last
<1>1. /\ Append(pages, page) \in Seq(Page) /\ Append(pages, page) # <<>>
      /\ Last(Append(pages, page)) = page
      /\ Len(pages) + 1 \in DOMAIN Append(pages, page)
      /\ Append(pages, page)[Len(pages) + 1] = page
  OBVIOUS
<1>2. \A p \in DOMAIN pages : p \in DOMAIN Append(pages, page) /\ Append(pages, page)[p] = pages[p]
  OBVIOUS
<1>. DEFINE t == <<page>> \o pages
<1>3. t \in Seq(Page) /\ Len(t) = Len(pages) + 1 /\ t[1] = page /\ 1 \in DOMAIN t
  OBVIOUS
<1>4. \A p \in DOMAIN pages : p + 1 \in DOMAIN t /\ t[p + 1] = pages[p]
  OBVIOUS
<1>5. Len(pages) \in DOMAIN pages
  OBVIOUS
<1>. HIDE DEF t
<1>6. t # <<>> /\ Last(t) = Last(pages)
  BY <1>3, <1>4, <1>5
<1>. QED
  BY <1>1, <1>2, <1>3, <1>4, <1>6 DEF t

\* The last page has room: the block lies at its end, padded downwards.
LEMMA InPageRoom ==
    ASSUME NEW page \in Page, NEW left \in 0 .. page.size, NEW size \in Nat, NEW align \in Nat \ {0},
           NEW heap_, NEW pool_, realSize(page.base + left, size, align) <= left
    PROVE  LET r == InPage(page, left, size, align, heap_, pool_) IN
           /\ r.heap = heap_ /\ r.pool = pool_
           /\ r.offset \in 0 .. left /\ r.at = page.base + r.offset
           /\ r.at \in Nat /\ r.at % align = 0 /\ r.at + size <= page.base + left
<1>. DEFINE end == page.base + left
            pad == (end - size) % align
<1>1. page.base \in Nat /\ page.size \in Nat /\ left \in Nat /\ end \in Nat /\ end - size \in Int
  BY DEF Page
<1>2. pad \in 0 .. align - 1 /\ ((end - size) - pad) % align = 0
  BY <1>1, Rounding
<1>3. realSize(end, size, align) = size + pad
  BY DEF realSize
<1>. DEFINE r == InPage(page, left, size, align, heap_, pool_)
<1>4. /\ r.heap = heap_ /\ r.pool = pool_ /\ r.offset = left - (size + pad)
      /\ r.at = page.base + (left - (size + pad))
  BY <1>3 DEF InPage
<1>. HIDE DEF pad, r
<1>5. r.at = (end - size) - pad
  BY <1>1, <1>2, <1>4
<1>6. size + pad <= left
  BY <1>3
<1>7. r.offset \in 0 .. left /\ r.at \in Nat /\ r.at + size <= end
  BY <1>1, <1>2, <1>4, <1>6
<1>8. r.at % align = 0
  BY <1>2, <1>5
<1>. QED
  BY <1>4, <1>7, <1>8 DEF r

\* allocateSmall: the block is taken from the end of what is left, or of a new page.
LEMMA SmallAllocates ==
    ASSUME PoolOK(heap, pool, offset), NEW size \in Nat, size < HalfPageSize,
           NEW align \in Nat \ {0}, align <= WordSize, NEW gap \in Gap
    PROVE  Allocates(allocateSmall(size, align, gap), size, align)
<1>. DEFINE last == Last(pool)
            r == allocateSmall(size, align, gap)
<1>1. /\ WordSize \in Nat \ {0} /\ ChunkSize \in Nat /\ gap \in Nat /\ 2 * WordSize <= ChunkSize
  BY Sizes
<1>2. pool \in Seq(Page) /\ pool # <<>> /\ Len(pool) \in DOMAIN pool /\ pool[Len(pool)] = last
  BY LastPage
<1>3. /\ heap \in Nat /\ last \in Page /\ last.base \in Nat /\ last.size \in Nat
      /\ offset \in Nat /\ offset <= last.size /\ last.base + last.size <= heap
  BY LastPage
<1>4. CASE ~(offset < realSize(last.base + offset, size, align))
  <2>1. r = InPage(last, offset, size, align, heap, pool)
    BY <1>4 DEF allocateSmall
  <2>. HIDE DEF last
  <2>2. realSize(last.base + offset, size, align) <= offset
    <3>1. realSize(last.base + offset, size, align) \in Int
      BY <1>1, <1>3 DEF realSize
    <3>. QED
      BY <1>3, <1>4, <3>1
  <2>3. /\ r.heap = heap /\ r.pool = pool
        /\ r.offset \in 0 .. offset /\ r.at = last.base + r.offset
        /\ r.at \in Nat /\ r.at % align = 0 /\ r.at + size <= last.base + offset
    <3>1. offset \in 0 .. last.size /\ last \in Page
      BY <1>3
    <3>. QED
      BY <2>1, <2>2, <3>1, InPageRoom
  <2>. HIDE DEF r
  <2>4. /\ r.heap = heap /\ r.pool = pool /\ r.offset \in Nat /\ r.offset <= offset
        /\ r.at = last.base + r.offset /\ r.at \in Nat /\ r.at + size <= last.base + offset
    BY <1>3, <2>3
  <2>5. PoolOK(r.heap, r.pool, r.offset)
    BY <1>2, <1>3, <2>4 DEF PoolOK, last
  <2>6. Taken(r.heap, r.pool, r.offset, r.at, size)
    BY <1>3, <2>4 DEF Taken, last
  <2>7. InSomePage(r.pool, r.at, size)
    <3>1. last.base <= r.at /\ r.at + size <= last.base + last.size
      BY <1>3, <2>4
    <3>. QED
      BY <1>2, <2>4, <3>1 DEF InSomePage
  <2>8. ASSUME NEW at \in Nat, NEW n \in Nat, Taken(heap, pool, offset, at, n)
        PROVE  /\ Taken(r.heap, r.pool, r.offset, at, n)
               /\ at + n <= r.at \/ r.at + size <= at
    BY <1>3, <2>4, <2>8 DEF Taken, last
  <2>. QED
    BY <1>3, <2>3, <2>4, <2>5, <2>6, <2>7, <2>8 DEF Allocates, r
<1>5. CASE offset < realSize(last.base + offset, size, align)
  <2>. DEFINE page == [base |-> heap + gap, size |-> ChunkSize]
              pages == Append(pool, page)
  <2>1. r = InPage(page, ChunkSize, size, align, page.base + ChunkSize, pages)
    BY <1>5 DEF allocateSmall
  <2>. HIDE DEF last
  <2>2. page \in Page /\ page.base = heap + gap /\ page.size = ChunkSize /\ page.base \in Nat
    BY <1>1, <1>3 DEF Page
  <2>3. /\ pages \in Seq(Page) /\ pages # <<>> /\ Last(pages) = page
        /\ Len(pool) + 1 \in DOMAIN pages /\ pages[Len(pool) + 1] = page
        /\ \A p \in DOMAIN pool : p \in DOMAIN pages /\ pages[p] = pool[p]
    BY <1>2, <2>2, NewPage, ZenonT(60)
  <2>. HIDE DEF page, pages
  <2>4. realSize(page.base + ChunkSize, size, align) <= ChunkSize
    <3>. DEFINE x == (page.base + ChunkSize) - size
    <3>1. x \in Int
      BY <1>1, <2>2
    <3>. HIDE DEF x
    <3>2. x % align \in 0 .. align - 1
      BY <3>1, Rounding
    <3>3. realSize(page.base + ChunkSize, size, align) = size + (x % align)
      BY DEF realSize, x
    <3>4. 2 * (ChunkSize \div 2) <= ChunkSize /\ ChunkSize \div 2 \in Nat
      BY <1>1
    <3>5. size < ChunkSize \div 2
      BY DEF HalfPageSize
    <3>. QED
      BY <1>1, <3>2, <3>3, <3>4, <3>5
  <2>5. /\ r.heap = page.base + ChunkSize /\ r.pool = pages
        /\ r.offset \in 0 .. ChunkSize /\ r.at = page.base + r.offset
        /\ r.at \in Nat /\ r.at % align = 0 /\ r.at + size <= page.base + ChunkSize
    <3>1. ChunkSize \in 0 .. page.size
      BY <1>1, <2>2
    <3>. QED
      BY <2>1, <2>2, <2>4, <3>1, InPageRoom
  <2>. HIDE DEF r
  <2>6. /\ Last(r.pool) = page /\ r.offset \in 0 .. page.size /\ page.base + page.size <= r.heap
        /\ r.heap \in Nat /\ heap <= page.base /\ heap <= r.heap /\ r.at + size <= r.heap
        /\ page.base <= r.at /\ r.offset \in Nat
    <3>1. Last(r.pool) = page
      BY <2>3, <2>5
    <3>2. r.offset \in Nat /\ r.offset \in 0 .. page.size /\ page.base + page.size <= r.heap
      BY <1>1, <2>2, <2>5
    <3>3. r.heap \in Nat /\ heap <= page.base /\ heap <= r.heap
      BY <1>1, <1>3, <2>2, <2>5
    <3>4. r.at + size <= r.heap /\ page.base <= r.at
      BY <2>2, <2>5, <3>2
    <3>. QED
      BY <3>1, <3>2, <3>3, <3>4
  <2>7. PoolOK(r.heap, r.pool, r.offset)
    BY <2>3, <2>5, <2>6 DEF PoolOK
  <2>8. Taken(r.heap, r.pool, r.offset, r.at, size)
    BY <2>2, <2>5, <2>6 DEF Taken
  <2>9. InSomePage(r.pool, r.at, size)
    <3>1. page.base <= r.at /\ r.at + size <= page.base + page.size
      BY <2>2, <2>5, <2>6
    <3>. QED
      BY <2>3, <2>5, <3>1 DEF InSomePage
  <2>10. ASSUME NEW at \in Nat, NEW n \in Nat, Taken(heap, pool, offset, at, n)
         PROVE  /\ Taken(r.heap, r.pool, r.offset, at, n)
                /\ at + n <= r.at \/ r.at + size <= at
    <3>1. at + n <= heap
      BY <2>10 DEF Taken
    <3>. QED
      BY <1>3, <2>2, <2>5, <2>6, <3>1 DEF Taken
  <2>11. ASSUME NEW at \in Nat, NEW n \in Nat, InSomePage(pool, at, n) PROVE InSomePage(r.pool, at, n)
    BY <2>3, <2>5, <2>11 DEF InSomePage
  <2>. QED
    BY <2>5, <2>6, <2>7, <2>8, <2>9, <2>10, <2>11 DEF Allocates, r
<1>. QED
  BY <1>4, <1>5

\* allocateLarge: a page of its own, in which std::align always finds room.
LEMMA LargeAllocates ==
    ASSUME PoolOK(heap, pool, offset), NEW size \in Nat, NEW align \in Nat \ {0}, NEW gap \in Gap
    PROVE  Allocates(allocateLarge(size, align, gap), size, align)
<1>. DEFINE page == [base |-> heap + gap, size |-> size + align - 1]
            pages == <<page>> \o pool
            r == allocateLarge(size, align, gap)
            last == Last(pool)
<1>1. gap \in Nat
  BY Sizes
<1>2. pool \in Seq(Page) /\ pool # <<>>
  BY LastPage
<1>3. /\ heap \in Nat /\ last.base \in Nat /\ last.size \in Nat
      /\ offset \in Nat /\ offset <= last.size /\ last.base + last.size <= heap
  BY LastPage
<1>4. /\ page \in Page /\ page.base = heap + gap /\ page.base \in Nat
      /\ page.size = size + (align - 1) /\ page.size \in Nat
  BY <1>1, <1>3 DEF Page
<1>5. /\ pages \in Seq(Page) /\ pages # <<>> /\ Last(pages) = last
      /\ 1 \in DOMAIN pages /\ pages[1] = page
      /\ \A p \in DOMAIN pool : p + 1 \in DOMAIN pages /\ pages[p + 1] = pool[p]
  BY <1>2, <1>4, NewPage
<1>6. /\ r.heap = page.base + page.size /\ r.pool = pages /\ r.offset = offset
      /\ r.at = page.base + ((0 - page.base) % align)
  BY DEF allocateLarge
<1>. HIDE DEF page, pages, r, last
<1>7. (0 - page.base) % align \in 0 .. align - 1 /\ r.at % align = 0
  <2>. DEFINE x == page.base
  <2>1. x \in Int
    BY <1>4
  <2>. HIDE DEF x
  <2>2. (0 - x) % align \in 0 .. align - 1 /\ (x + ((0 - x) % align)) % align = 0
    BY <2>1, Rounding
  <2>. QED
    BY <1>6, <2>2 DEF x
<1>8. r.at \in Nat /\ page.base <= r.at /\ r.at + size <= page.base + page.size
  BY <1>4, <1>6, <1>7
<1>9. /\ r.heap \in Nat /\ heap <= page.base /\ heap <= r.heap /\ Last(r.pool) = last
      /\ r.at + size <= r.heap /\ last.base + last.size <= r.heap
  BY <1>1, <1>3, <1>4, <1>5, <1>6, <1>8, SMTT(30)
<1>10. PoolOK(r.heap, r.pool, r.offset)
  <2>1. r.offset \in 0 .. last.size
    BY <1>3, <1>6
  <2>. QED
    BY <1>5, <1>6, <1>9, <2>1 DEF PoolOK
<1>11. Taken(r.heap, r.pool, r.offset, r.at, size)
  BY <1>3, <1>4, <1>6, <1>8, <1>9 DEF Taken
<1>12. InSomePage(r.pool, r.at, size)
  BY <1>5, <1>6, <1>8 DEF InSomePage
<1>13. ASSUME NEW at \in Nat, NEW n \in Nat, Taken(heap, pool, offset, at, n)
       PROVE  /\ Taken(r.heap, r.pool, r.offset, at, n)
              /\ at + n <= r.at \/ r.at + size <= at
  <2>1. at + n <= heap /\ (at >= last.base + offset \/ at + n <= last.base)
    BY <1>13 DEF Taken, last
  <2>2. at + n <= r.heap /\ at + n <= r.at
    BY <1>3, <1>4, <1>8, <1>9, <2>1
  <2>. QED
    BY <1>6, <1>9, <2>1, <2>2 DEF Taken
<1>14. ASSUME NEW at \in Nat, NEW n \in Nat, InSomePage(pool, at, n) PROVE InSomePage(r.pool, at, n)
  BY <1>5, <1>6, <1>14 DEF InSomePage
<1>. QED
  BY <1>7, <1>8, <1>9, <1>10, <1>11, <1>12, <1>13, <1>14 DEF Allocates, r

\* allocateDynamic
LEMMA DynamicAllocates ==
    ASSUME PoolOK(heap, pool, offset), NEW size \in Nat, NEW align \in {1, WordSize}, NEW gap \in Gap
    PROVE  Allocates(allocateDynamic(size, align, gap), size, align)
<1>1. align \in Nat \ {0} /\ align <= WordSize
  BY Sizes
<1>. QED
  BY <1>1, SmallAllocates, LargeAllocates DEF allocateDynamic

-----------------------------------------------------------------------------
(***************************************************************************)
(* The invariant                                                           *)
(***************************************************************************)
Apart(at, size, at2, size2) == at + size <= at2 \/ at2 + size2 <= at

\* Blocks are aligned, in a page, and out of what is left to hand out.
BlocksTaken ==
    \A i \in DOMAIN blocks :
        /\ blocks[i].at % blocks[i].align = 0
        /\ InSomePage(pool, blocks[i].at, blocks[i].size)
        /\ Taken(heap, pool, offset, blocks[i].at, blocks[i].size)

BlocksApart ==
    \A i, j \in DOMAIN blocks :
        i < j => Apart(blocks[i].at, blocks[i].size, blocks[j].at, blocks[j].size)

\* The address is in the block.
Within(at, size, a) == at <= a /\ a < at + size

\* An object and its uses are in one block, as they were written.
UserLaid(user) ==
    /\ user \in [at : Nat, count : UseCounts] /\ user.at % WordSize = 0
    /\ Laid(user.at, user.count)
    /\ \E i \in DOMAIN blocks : \A d \in 0 .. user.count :
         Within(blocks[i].at, blocks[i].size, user.at - d * UseSize)

\* What every state satisfies.  An operand leads to its user as long as no later
\* object is written over it, which the placement of blocks rules out.
MemoryInv ==
    /\ PoolOK(heap, pool, offset)
    /\ blocks \in Seq(Block)
    /\ BlocksTaken
    /\ BlocksApart
    /\ \A a \in DOMAIN memory : memory[a] \in Zero .. Vtable
    /\ \A user \in users : UserLaid(user)

\* Writes that stay in a block leave every other word alone.
Kept(at, size) ==
    \A a \in DOMAIN memory :
        a \in Int /\ ~Within(at, size, a) => a \in DOMAIN memory' /\ memory'[a] = memory[a]

\* An allocation places a block apart from all others, and whoever writes only
\* into it keeps all users as they are.
LEMMA AllocationKeeps ==
    ASSUME MemoryInv, NEW size \in Nat, NEW align \in {1, WordSize}, NEW r,
           Allocates(r, size, align), Allocated(r, size, align), Kept(r.at, size)
    PROVE  /\ PoolOK(heap, pool, offset)' /\ (blocks \in Seq(Block))'
           /\ BlocksTaken' /\ BlocksApart'
           /\ Len(blocks) + 1 \in DOMAIN blocks'
           /\ blocks'[Len(blocks) + 1] = [at |-> r.at, size |-> size, align |-> align]
           /\ \A user \in users : UserLaid(user)'
<1>. DEFINE b == [at |-> r.at, size |-> size, align |-> align]
            n == Len(blocks)
<1>1. heap' = r.heap /\ pool' = r.pool /\ offset' = r.offset /\ blocks' = Append(blocks, b)
  BY DEF Allocated
<1>2. r.at \in Nat /\ b \in Block /\ b.at = r.at /\ b.size = size /\ b.align = align
  BY DEF Allocates, Block
<1>3. blocks \in Seq(Block) /\ n \in Nat
  BY DEF MemoryInv
<1>4. \A i \in DOMAIN blocks : i \in Nat /\ i <= n /\ blocks[i] \in Block
  BY <1>3
<1>5. /\ blocks' \in Seq(Block) /\ n + 1 \in DOMAIN blocks' /\ blocks'[n + 1] = b
      /\ \A i \in DOMAIN blocks : i \in DOMAIN blocks' /\ blocks'[i] = blocks[i]
      /\ \A i \in DOMAIN blocks' : i \in DOMAIN blocks \/ i = n + 1
  BY <1>1, <1>2, <1>3
<1>6. \A i \in DOMAIN blocks : blocks[i].at \in Nat /\ blocks[i].size \in Nat
  BY <1>4 DEF Block
<1>. HIDE DEF b, n
<1>7. \A i \in DOMAIN blocks :
        /\ Taken(heap', pool', offset', blocks[i].at, blocks[i].size)
        /\ Apart(blocks[i].at, blocks[i].size, r.at, size)
        /\ InSomePage(pool', blocks[i].at, blocks[i].size)
        /\ blocks[i].at % blocks[i].align = 0
  BY <1>1, <1>6 DEF MemoryInv, BlocksTaken, Allocates, Apart
<1>8. PoolOK(heap, pool, offset)'
  BY <1>1 DEF Allocates, PoolOK
<1>9. BlocksTaken'
  <2>1. /\ Taken(heap', pool', offset', r.at, size) /\ InSomePage(pool', r.at, size)
        /\ r.at % align = 0
    BY <1>1 DEF Allocates
  <2>2. ASSUME NEW i \in DOMAIN blocks'
        PROVE  /\ blocks'[i].at % blocks'[i].align = 0
               /\ InSomePage(pool', blocks'[i].at, blocks'[i].size)
               /\ Taken(heap', pool', offset', blocks'[i].at, blocks'[i].size)
    BY <1>2, <1>5, <1>7, <2>1
  <2>. QED
    BY <2>2 DEF BlocksTaken, InSomePage, Taken
<1>10. BlocksApart'
  <2>1. ASSUME NEW i \in DOMAIN blocks', NEW j \in DOMAIN blocks', i < j
        PROVE  Apart(blocks'[i].at, blocks'[i].size, blocks'[j].at, blocks'[j].size)
    <3>1. i \in DOMAIN blocks
      <4>1. j \in DOMAIN blocks => j \in Nat /\ j <= n
        BY <1>4
      <4>2. j \in Nat /\ j <= n + 1
        BY <1>3, <1>5, <4>1
      <4>3. i # n + 1
        BY <1>3, <2>1, <4>2
      <4>. QED
        BY <1>5, <4>3
    <3>2. CASE j \in DOMAIN blocks
      BY <1>5, <2>1, <3>1, <3>2 DEF MemoryInv, BlocksApart
    <3>3. CASE j = n + 1
      BY <1>2, <1>5, <1>7, <3>1, <3>3
    <3>. QED
      BY <1>5, <3>2, <3>3
  <2>. QED
    BY <2>1 DEF BlocksApart, Apart
<1>11. ASSUME NEW user \in users PROVE UserLaid(user)'
  <2>1. UserLaid(user)
    BY DEF MemoryInv
  <2>. DEFINE word(d) == user.at - d * UseSize
  <2>2. PICK i \in DOMAIN blocks : \A d \in 0 .. user.count :
          Within(blocks[i].at, blocks[i].size, word(d))
    BY <2>1 DEF UserLaid
  <2>3. user.at \in Nat /\ user.count \in Nat /\ UseSize \in Nat
    BY <2>1, Sizes DEF UserLaid, Laid
  <2>4. \A d \in 0 .. user.count : word(d) \in Int
    BY <2>3
  <2>5. \A d \in 0 .. user.count : word(d) \in DOMAIN memory /\ memory[word(d)] = Tags[d].tag
    BY <2>1 DEF UserLaid, Laid
  <2>. HIDE DEF word
  <2>6. \A d \in 0 .. user.count : ~Within(r.at, size, word(d))
    BY <1>2, <1>6, <1>7, <2>2, <2>4 DEF Within, Apart
  <2>7. \A d \in 0 .. user.count : word(d) \in DOMAIN memory' /\ memory'[word(d)] = Tags[d].tag
    BY <2>4, <2>5, <2>6 DEF Kept
  <2>8. user.at \in 0 .. heap'
    <3>1. heap \in Nat /\ heap' \in Nat /\ heap <= heap' /\ user.at \in 0 .. heap
      BY <1>1, <1>8, <2>1 DEF MemoryInv, PoolOK, Allocates, UserLaid, Laid
    <3>. QED
      BY <3>1
  <2>9. Laid(user.at, user.count)'
    BY <2>1, <2>3, <2>7, <2>8 DEF Laid, UserLaid, word
  <2>10. i \in DOMAIN blocks' /\ \A d \in 0 .. user.count :
          Within(blocks'[i].at, blocks'[i].size, word(d))
    BY <1>5, <2>2
  <2>. QED
    BY <2>1, <2>9, <2>10 DEF UserLaid, word, Within
<1>. QED
  BY <1>5, <1>8, <1>9, <1>10, <1>11 DEF b, n

\* What Written writes and keeps.
LEMMA WritesKeep ==
    ASSUME MemoryInv, NEW words, NEW at \in Nat, NEW size \in Nat, memory' = Written(words),
           \A a \in DOMAIN words : words[a] \in Zero .. Vtable /\ Within(at, size, a)
    PROVE  /\ Kept(at, size)
           /\ \A a \in DOMAIN memory' : memory'[a] \in Zero .. Vtable
           /\ \A a \in DOMAIN words : a \in DOMAIN memory' /\ memory'[a] = words[a]
<1>1. DOMAIN memory' = DOMAIN words \cup DOMAIN memory
  BY DEF Written
<1>2. \A a \in DOMAIN memory' : memory'[a] = IF a \in DOMAIN words THEN words[a] ELSE memory[a]
  BY DEF Written
<1>3. \A a \in DOMAIN memory : memory[a] \in Zero .. Vtable
  BY DEF MemoryInv
<1>. QED
  BY <1>1, <1>2, <1>3 DEF Kept

\* prepareStorageAndUses stays in the block it was given and leaves the object
\* aligned, with its uses before it.
LEMMA UsesInBlock ==
    ASSUME NEW at \in Nat, at % WordSize = 0, NEW count \in Nat
    PROVE  LET size   == HeadSize + UseSize * count + ObjectSize
               object == at + HeadSize + UseSize * count
           IN  /\ size \in Nat /\ object \in Nat /\ object < at + size /\ object % WordSize = 0
               /\ count * UseSize <= object
               /\ \A d \in 0 .. count :
                    /\ object - d * UseSize \in Int /\ Within(at, size, object - d * UseSize)
                    /\ object - d * UseSize \in DOMAIN UsesAndObject(object, count)
                    /\ UsesAndObject(object, count)[object - d * UseSize] = Tags[d].tag
               /\ \A a \in DOMAIN UsesAndObject(object, count) :
                    /\ UsesAndObject(object, count)[a] \in Zero .. Vtable
                    /\ Within(at, HeadSize + UseSize * count + ObjectSize, a)
<1>. DEFINE size   == HeadSize + UseSize * count + ObjectSize
            object == at + HeadSize + UseSize * count
            words  == UsesAndObject(object, count)
<1>1. /\ WordSize \in Nat \ {0} /\ HeadSize \in Nat \ {0} /\ UseSize \in Nat \ {0}
      /\ ObjectSize \in Nat \ {0}
  BY Sizes
<1>2. HeadSize % WordSize = 0 /\ UseSize % WordSize = 0
  BY SizeAssumption
<1>3. /\ UseSize * count \in Nat /\ count * UseSize = UseSize * count
      /\ size \in Nat /\ object \in Nat /\ object < at + size
  BY <1>1
<1>4. object % WordSize = 0
  <2>1. (UseSize * count) % WordSize = 0
    BY <1>1, <1>2, MultipleProduct
  <2>2. at \in Int /\ HeadSize \in Int /\ at + HeadSize \in Int /\ UseSize * count \in Int
    BY <1>1, <1>3
  <2>3. (at + HeadSize) % WordSize = 0
    BY <1>1, <1>2, <2>2, MultipleSum
  <2>. QED
    BY <1>1, <2>1, <2>2, <2>3, MultipleSum
<1>5. ASSUME NEW d \in 0 .. count
      PROVE  /\ d * UseSize \in Nat /\ object - d * UseSize \in Int
             /\ Within(at, size, object - d * UseSize)
  <2>1. d * UseSize \in Nat /\ d * UseSize <= count * UseSize
    BY <1>1
  <2>2. object - d * UseSize \in Int /\ at <= object - d * UseSize
    BY <1>1, <1>3, <2>1
  <2>3. object - d * UseSize < at + size
    BY <1>3, <2>1
  <2>. QED
    BY <2>1, <2>2, <2>3 DEF Within
<1>6. count * UseSize <= object
  BY <1>1, <1>3
<1>. HIDE DEF object, size
<1>7. DOMAIN words = {object - d * UseSize : d \in 0 .. count}
  BY DEF UsesAndObject
<1>8. ASSUME NEW d \in 0 .. count
      PROVE  object - d * UseSize \in DOMAIN words /\ words[object - d * UseSize] = Tags[d].tag
  <2>1. (d * UseSize) \div UseSize = d
    BY <1>1, ProductDiv
  <2>2. object - (object - d * UseSize) = d * UseSize
    BY <1>3, <1>5
  <2>3. words[object - d * UseSize] = Tags[(object - (object - d * UseSize)) \div UseSize].tag
    BY DEF UsesAndObject
  <2>. QED
    BY <1>7, <2>1, <2>2, <2>3
<1>9. \A d \in 0 .. count : Tags[d].tag \in Zero .. Vtable
  BY TagsRecursion DEF TagState
<1>. HIDE DEF words
<1>10. ASSUME NEW a \in DOMAIN words PROVE words[a] \in Zero .. Vtable /\ Within(at, size, a)
  <2>1. PICK d \in 0 .. count : a = object - d * UseSize
    BY <1>7
  <2>. QED
    BY <1>5, <1>8, <1>9, <2>1
<1>. QED
  BY <1>3, <1>4, <1>5, <1>6, <1>8, <1>10 DEF object, size, words

\* In the first state nothing is allocated.
LEMMA InitMemoryInv == Init => MemoryInv
<1>. SUFFICES ASSUME Init PROVE MemoryInv
  OBVIOUS
<1>. DEFINE page == [base |-> 0, size |-> 0]
<1>1. heap \in Nat /\ pool = <<page>> /\ offset = 0 /\ blocks = <<>> /\ memory = <<>> /\ users = {}
  BY Sizes DEF Init
<1>2. PoolOK(heap, pool, offset)
  <2>1. page \in Page /\ pool \in Seq(Page) /\ pool # <<>> /\ Last(pool) = page
    BY <1>1 DEF Page, Last
  <2>. QED
    BY <1>1, <2>1 DEF PoolOK
<1>. QED
  BY <1>1, <1>2 DEF MemoryInv, BlocksTaken, BlocksApart

\* Objects with operands.
LEMMA WithUsesMemoryInv ==
    ASSUME MemoryInv, NEW count \in UseCounts, allocateWithUses(count)
    PROVE  MemoryInv'
<1>1. count \in Nat
  BY SizeAssumption DEF UseCounts
<1>. DEFINE size   == HeadSize + UseSize * count + ObjectSize
<1>2. PICK gap, r :
        /\ gap \in Gap /\ r = allocateDynamic(size, WordSize, gap)
        /\ Allocated(r, size, WordSize)
        /\ memory' = Written(UsesAndObject(r.at + HeadSize + UseSize * count, count))
        /\ users' = users \cup {[at |-> r.at + HeadSize + UseSize * count, count |-> count]}
  BY DEF allocateWithUses
<1>. DEFINE object == r.at + HeadSize + UseSize * count
            words  == UsesAndObject(object, count)
            user   == [at |-> object, count |-> count]
<1>3. size \in Nat
  BY <1>1, Sizes
<1>4. Allocates(r, size, WordSize)
  <2>. HIDE DEF size
  <2>. QED
    BY <1>2, <1>3, DynamicAllocates DEF MemoryInv
<1>5. r.at \in Nat /\ r.at % WordSize = 0 /\ r.at + size <= r.heap /\ r.heap \in Nat
  BY <1>4 DEF Allocates, Taken, PoolOK
<1>6. /\ object \in Nat /\ object < r.at + size /\ object % WordSize = 0
      /\ count * UseSize <= object
      /\ \A d \in 0 .. count : /\ Within(r.at, size, object - d * UseSize)
                               /\ object - d * UseSize \in DOMAIN words
                               /\ words[object - d * UseSize] = Tags[d].tag
      /\ \A a \in DOMAIN words : words[a] \in Zero .. Vtable /\ Within(r.at, size, a)
  BY <1>1, <1>5, UsesInBlock, ZenonT(60)
<1>7. Allocated(r, size, WordSize) /\ memory' = Written(words) /\ users' = users \cup {user}
  BY <1>2
<1>. HIDE DEF size, object, words
<1>8. /\ Kept(r.at, size)
      /\ \A a \in DOMAIN memory' : memory'[a] \in Zero .. Vtable
      /\ \A a \in DOMAIN words : a \in DOMAIN memory' /\ memory'[a] = words[a]
  BY <1>3, <1>5, <1>6, <1>7, WritesKeep
<1>9. /\ PoolOK(heap, pool, offset)' /\ (blocks \in Seq(Block))'
      /\ BlocksTaken' /\ BlocksApart'
      /\ Len(blocks) + 1 \in DOMAIN blocks'
      /\ blocks'[Len(blocks) + 1] = [at |-> r.at, size |-> size, align |-> WordSize]
      /\ \A u \in users : UserLaid(u)'
  BY <1>3, <1>4, <1>7, <1>8, AllocationKeeps
<1>10. UserLaid(user)'
  <2>1. user \in [at : Nat, count : UseCounts] /\ user.at = object /\ user.count = count
    BY <1>6
  <2>2. object \in 0 .. heap'
    BY <1>3, <1>5, <1>6, <1>7 DEF Allocated
  <2>3. Laid(object, count)'
    BY <1>1, <1>6, <1>8, <2>2 DEF Laid
  <2>4. \E i \in DOMAIN blocks' : \A d \in 0 .. count :
          Within(blocks'[i].at, blocks'[i].size, object - d * UseSize)
    <3>. DEFINE i == Len(blocks) + 1
    <3>1. i \in DOMAIN blocks' /\ blocks'[i].at = r.at /\ blocks'[i].size = size
      BY <1>9
    <3>. HIDE DEF i
    <3>. QED
      BY <1>6, <3>1
  <2>. HIDE DEF user
  <2>. QED
    BY <1>6, <2>1, <2>3, <2>4 DEF UserLaid, Laid, Within
<1>. HIDE DEF user
<1>11. \A u \in users' : UserLaid(u)'
  BY <1>7, <1>9, <1>10
<1>. QED
  BY <1>8, <1>9, <1>11 DEF MemoryInv

\* Objects without operands.
LEMMA WithoutUsesMemoryInv ==
    ASSUME MemoryInv, allocateWithoutUses
    PROVE  MemoryInv'
<1>1. PICK gap \in Gap :
        LET r == allocateDynamic(ObjectSize, WordSize, gap)
        IN  /\ Allocated(r, ObjectSize, WordSize)
            /\ memory' = Written([a \in {r.at} |-> Vtable])
  BY DEF allocateWithoutUses
<1>. DEFINE r     == allocateDynamic(ObjectSize, WordSize, gap)
            words == [a \in {r.at} |-> Vtable]
<1>2. ObjectSize \in Nat /\ ObjectSize > 0
  BY Sizes
<1>3. Allocates(r, ObjectSize, WordSize)
  BY <1>2, DynamicAllocates DEF MemoryInv
<1>. HIDE DEF r
<1>4. r.at \in Nat
  BY <1>3 DEF Allocates
<1>5. \A a \in DOMAIN words : words[a] \in Zero .. Vtable /\ Within(r.at, ObjectSize, a)
  BY <1>2, <1>4 DEF Zero, Vtable, Within
<1>6. Allocated(r, ObjectSize, WordSize) /\ memory' = Written(words) /\ users' = users
  BY <1>1 DEF r, allocateWithoutUses
<1>. HIDE DEF words
<1>7. Kept(r.at, ObjectSize) /\ \A a \in DOMAIN memory' : memory'[a] \in Zero .. Vtable
  BY <1>2, <1>4, <1>5, <1>6, WritesKeep
<1>8. /\ PoolOK(heap, pool, offset)' /\ (blocks \in Seq(Block))'
      /\ BlocksTaken' /\ BlocksApart' /\ \A u \in users : UserLaid(u)'
  BY <1>2, <1>3, <1>6, <1>7, AllocationKeeps
<1>. QED
  BY <1>6, <1>7, <1>8 DEF MemoryInv

\* Strings.
LEMMA StringMemoryInv ==
    ASSUME MemoryInv, NEW length \in Lengths, copyString(length)
    PROVE  MemoryInv'
<1>1. PICK gap \in Gap : Allocated(allocateDynamic(length + 1, 1, gap), length + 1, 1)
  BY DEF copyString
<1>2. memory' = memory /\ users' = users
  BY DEF copyString
<1>. DEFINE r == allocateDynamic(length + 1, 1, gap)
<1>3. length + 1 \in Nat
  BY SizeAssumption
<1>4. Allocates(r, length + 1, 1)
  BY <1>3, DynamicAllocates DEF MemoryInv
<1>5. Kept(r.at, length + 1)
  BY <1>2 DEF Kept
<1>6. /\ PoolOK(heap, pool, offset)' /\ (blocks \in Seq(Block))'
      /\ BlocksTaken' /\ BlocksApart' /\ \A u \in users : UserLaid(u)'
  <2>. HIDE DEF r
  <2>1. Allocated(r, length + 1, 1)
    BY <1>1 DEF r
  <2>. QED
    BY <1>3, <1>4, <1>5, <2>1, AllocationKeeps
<1>. QED
  BY <1>2, <1>6 DEF MemoryInv

\* Every allocation keeps the invariant.
LEMMA NextMemoryInv == MemoryInv /\ [Next]_vars => MemoryInv'
<1>. SUFFICES ASSUME MemoryInv, [Next]_vars PROVE MemoryInv'
  OBVIOUS
<1>1. CASE \E count \in UseCounts : allocateWithUses(count)
  BY <1>1, WithUsesMemoryInv
<1>2. CASE allocateWithoutUses
  BY <1>2, WithoutUsesMemoryInv
<1>3. CASE \E length \in Lengths : copyString(length)
  BY <1>3, StringMemoryInv
<1>4. CASE UNCHANGED vars
  BY <1>4 DEF vars, MemoryInv, PoolOK, BlocksTaken, BlocksApart, UserLaid, Laid
<1>. QED
  BY <1>1, <1>2, <1>3, <1>4 DEF Next

-----------------------------------------------------------------------------
(***************************************************************************)
(* Theorems                                                                *)
(***************************************************************************)
\* The pool, its blocks and the words of every user are as MemoryInv says,
\* whatever is allocated in whatever order.
THEOREM MemoryInvariance == Spec => []MemoryInv
<1>. QED
  BY InitMemoryInv, NextMemoryInv, PTL DEF Spec

\* DumbAllocator hands out aligned blocks inside its pages that never overlap.
THEOREM PlacementTheorem == Spec => []BlocksPlaced
<1>1. MemoryInv => BlocksPlaced
  <2>. SUFFICES ASSUME MemoryInv PROVE BlocksPlaced
    OBVIOUS
  <2>1. \A i \in DOMAIN blocks : blocks[i].at % blocks[i].align = 0
    BY DEF MemoryInv, BlocksTaken
  <2>2. \A user \in users : user.at % WordSize = 0
    BY DEF MemoryInv, UserLaid
  <2>3. \A i \in DOMAIN blocks : InSomePage(pool, blocks[i].at, blocks[i].size)
    BY DEF MemoryInv, BlocksTaken
  <2>4. \A i, j \in DOMAIN blocks :
          i < j => Apart(blocks[i].at, blocks[i].size, blocks[j].at, blocks[j].size)
    BY DEF MemoryInv, BlocksApart
  <2>. QED
    BY <2>1, <2>2, <2>3, <2>4 DEF BlocksPlaced, InSomePage, Apart
<1>. QED
  BY <1>1, MemoryInvariance, PTL

\* ExpressionUse::getUser finds the user from each of its operands, for every
\* number of operands.
THEOREM UserTheorem == Spec => []UserFound
<1>1. MemoryInv => UserFound
  <2>. SUFFICES ASSUME MemoryInv, NEW user \in users, NEW d \in 1 .. user.count
                PROVE  getUser(user.at - d * UseSize) = user.at
    BY DEF UserFound
  <2>1. heap \in Nat /\ Laid(user.at, user.count)
    BY DEF MemoryInv, PoolOK, UserLaid
  <2>. QED
    BY <2>1, UserOfUse
<1>. QED
  BY <1>1, MemoryInvariance, PTL

=============================================================================
