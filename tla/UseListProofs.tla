---------------------------- MODULE UseListProofs ---------------------------
(***************************************************************************)
(* Proofs about UseList, for every set of users and operand slots, and     *)
(* about RemoveUndef, for every tree of statements and expressions.        *)
(***************************************************************************)
EXTENDS RemoveUndef, NaturalsLemmas, TLAPS

(***************************************************************************)
(* The inductive invariant                                                 *)
(***************************************************************************)
\* Every list is doubly linked, and firstUse is where it starts.
WellLinked ==
    /\ \A u \in Slot : next[u] # None =>
         /\ expression[u] # None
         /\ prev[next[u]] = u
         /\ expression[next[u]] = expression[u]
    /\ \A u \in Slot : prev[u] # None => next[prev[u]] = u
    /\ \A u \in Slot : expression[u] = None => next[u] = None /\ prev[u] = None
    /\ \A e \in Expr : firstUse[e] # None =>
         expression[firstUse[e]] = e /\ prev[firstUse[e]] = None
    /\ \A u \in Slot : expression[u] # None /\ prev[u] = None => firstUse[expression[u]] = u

\* No list runs in a circle: along next some bounded rank goes down.
Acyclic ==
    \E bound \in Nat : \E rank \in [Slot -> 0 .. bound] :
        \A u \in Slot : next[u] # None => rank[next[u]] < rank[u]

\* The elements of a stack of calls.
Frames(s) == {s[i] : i \in DOMAIN s}

\* Only expressions that nothing uses are being dropped, and the target of a
\* replacement is complete.
Calls ==
    /\ \A frame \in Frames(stack) :
         /\ frame.user \in Expr => firstUse[frame.user] = None
         /\ frame.operands \subseteq Slots(frame.user)
    /\ replacing # None =>
         stack = <<>> /\ replacing[1] # replacing[2] /\ Complete(replacing[2])

\* An operand of an expression that is no longer used is about to be dropped.
Swept ==
    \A e \in Expr \ (fresh \cup Overwritten) : firstUse[e] = None =>
        \A u \in Slots(e) : expression[u] # None =>
            \/ \E frame \in Frames(stack) : frame.user = e /\ u \in frame.operands
            \/ replacing # None /\ replacing[1] = e

IInv == TypeOK /\ WellLinked /\ Acyclic /\ Calls /\ UsedIsComplete /\ Swept

-----------------------------------------------------------------------------
(***************************************************************************)
(* setUse                                                                  *)
(***************************************************************************)
\* What setUse does to each pointer, when it puts u before head.
Moved(u, target, head) ==
    /\ head = IF target = None THEN None ELSE firstUse[target]
    /\ head # u
    /\ expression' \in [Slot -> Expr \cup {None}]
    /\ next' \in [Slot -> Slot \cup {None}]
    /\ prev' \in [Slot -> Slot \cup {None}]
    /\ firstUse' \in [Expr -> Slot \cup {None}]
    /\ \A v \in Slot :
         /\ expression'[v] = IF v = u THEN target ELSE expression[v]
         /\ next'[v] = IF v = u THEN head ELSE IF v = prev[u] THEN next[u] ELSE next[v]
         /\ prev'[v] = IF v = head THEN u
                       ELSE IF v = u THEN None ELSE IF v = next[u] THEN prev[u] ELSE prev[v]
    /\ \A e \in Expr :
         firstUse'[e] = IF e = target THEN u
                        ELSE IF e = expression[u] /\ prev[u] = None THEN next[u] ELSE firstUse[e]

\* setUse, pointer by pointer.
LEMMA SetUseEffect ==
    ASSUME TypeOK, WellLinked, NEW u \in Slot, NEW target \in Expr \cup {None},
           setUse(u, target), expression[u] # target
    PROVE  \E head \in Slot \cup {None} : Moved(u, target, head)
<1>. USE SlotAssumption DEF TypeOK
<1>. DEFINE first_ == IF prev[u] = None /\ expression[u] # None
                      THEN [firstUse EXCEPT ![expression[u]] = next[u]] ELSE firstUse
            head == IF target # None THEN first_[target] ELSE None
<1>1. head = IF target = None THEN None ELSE firstUse[target]
  OBVIOUS
<1>2. head \in Slot \cup {None} /\ head # u
  BY <1>1 DEF WellLinked
<1>3. /\ expression' = [expression EXCEPT ![u] = target]
      /\ next' = [(IF prev[u] # None THEN [next EXCEPT ![prev[u]] = next[u]] ELSE next)
                    EXCEPT ![u] = head]
      /\ firstUse' = IF target # None THEN [first_ EXCEPT ![target] = u] ELSE first_
      /\ prev' = LET p == [(IF next[u] # None THEN [prev EXCEPT ![next[u]] = prev[u]] ELSE prev)
                             EXCEPT ![u] = None]
                 IN  IF head # None THEN [p EXCEPT ![head] = u] ELSE p
  BY DEF setUse
<1>4. /\ expression' \in [Slot -> Expr \cup {None}]
      /\ next' \in [Slot -> Slot \cup {None}]
      /\ firstUse' \in [Expr -> Slot \cup {None}]
  BY <1>2, <1>3
<1>. HIDE DEF head
<1>5. prev' \in [Slot -> Slot \cup {None}]
  BY <1>2, <1>3
<1>6. \A v \in Slot : 
         /\ expression'[v] = IF v = u THEN target ELSE expression[v]
         /\ next'[v] = IF v = u THEN head
                       ELSE IF v = prev[u] THEN next[u] ELSE next[v]
  BY <1>2, <1>3
<1>7. \A v \in Slot :
         prev'[v] = IF v = head THEN u
                    ELSE IF v = u THEN None
                    ELSE IF v = next[u] THEN prev[u] ELSE prev[v]
  BY <1>2, <1>3
<1>8. \A e \in Expr :
         firstUse'[e] = IF e = target THEN u
                        ELSE IF e = expression[u] /\ prev[u] = None THEN next[u]
                        ELSE firstUse[e]
  BY <1>3
<1>. QED
  BY <1>1, <1>2, <1>4, <1>5, <1>6, <1>7, <1>8 DEF Moved

\* setUse keeps the lists linked.
LEMMA SetUseLinked ==
    ASSUME TypeOK, WellLinked, NEW u \in Slot, NEW target \in Expr \cup {None}, setUse(u, target)
    PROVE  WellLinked'
<1>1. CASE expression[u] = target
  BY <1>1 DEF setUse, links, WellLinked
<1>2. CASE expression[u] # target
  <2>1. PICK head \in Slot \cup {None} : Moved(u, target, head)
    BY <1>2, SetUseEffect
  <2>. USE <1>2, <2>1, SlotAssumption DEF TypeOK, WellLinked, Moved
  <2>2. \A v \in Slot : next'[v] # None =>
          /\ expression'[v] # None
          /\ prev'[next'[v]] = v
          /\ expression'[next'[v]] = expression'[v]
    OBVIOUS
  <2>3. \A v \in Slot : prev'[v] # None => next'[prev'[v]] = v
    OBVIOUS
  <2>4. \A v \in Slot : expression'[v] = None => next'[v] = None /\ prev'[v] = None
    OBVIOUS
  <2>5. \A e \in Expr : firstUse'[e] # None =>
          expression'[firstUse'[e]] = e /\ prev'[firstUse'[e]] = None
    OBVIOUS
  <2>6. \A v \in Slot :
          expression'[v] # None /\ prev'[v] = None => firstUse'[expression'[v]] = v
    OBVIOUS
  <2>. QED
    BY <2>2, <2>3, <2>4, <2>5, <2>6
<1>. QED
  BY <1>1, <1>2

\* setUse closes no circle: the slot goes to the start of a list, where it gets
\* a rank above that of the old first slot.
LEMMA SetUseAcyclic ==
    ASSUME TypeOK, WellLinked, Acyclic,
           NEW u \in Slot, NEW target \in Expr \cup {None}, setUse(u, target)
    PROVE  Acyclic'
<1>1. CASE expression[u] = target
  BY <1>1 DEF setUse, links, Acyclic
<1>2. CASE expression[u] # target
  <2>1. PICK head \in Slot \cup {None} : Moved(u, target, head)
    BY <1>2, SetUseEffect
  <2>2. PICK bound \in Nat : \E rank \in [Slot -> 0 .. bound] :
          \A v \in Slot : next[v] # None => rank[next[v]] < rank[v]
    BY DEF Acyclic
  <2>3. PICK rank \in [Slot -> 0 .. bound] :
          \A v \in Slot : next[v] # None => rank[next[v]] < rank[v]
    BY <2>2
  <2>. DEFINE r == [rank EXCEPT ![u] = IF head = None THEN 0 ELSE rank[head] + 1]
  <2>4. bound + 1 \in Nat /\ r \in [Slot -> 0 .. (bound + 1)]
    BY <2>1, <2>3, SlotAssumption
  <2>5. \A v \in Slot : next'[v] # u
    BY <2>1, SlotAssumption, SMTT(30) DEF TypeOK, WellLinked, Moved
  <2>6. ASSUME NEW v \in Slot, next'[v] # None PROVE r[next'[v]] < r[v]
    <3>1. CASE v = u
      BY <2>1, <2>3, <2>6, <3>1, SlotAssumption DEF TypeOK, Moved
    <3>2. CASE v # u /\ v = prev[u]
      <4>1. next[v] = u /\ next'[v] = next[u]
        BY <2>1, <3>2, SlotAssumption DEF TypeOK, WellLinked, Moved
      <4>2. rank[u] < rank[v] /\ rank[next[u]] < rank[u] /\ next[u] \in Slot
        BY <2>3, <2>6, <4>1, SlotAssumption DEF TypeOK
      <4>3. r[next[u]] = rank[next[u]] /\ r[v] = rank[v]
        BY <2>5, <3>2, <4>1, <4>2
      <4>. QED
        BY <4>1, <4>2, <4>3
    <3>3. CASE v # u /\ v # prev[u]
      BY <2>1, <2>3, <2>5, <2>6, <3>3, SlotAssumption DEF TypeOK, Moved
    <3>. QED
      BY <3>1, <3>2, <3>3
  <2>. HIDE DEF r
  <2>. QED
    BY <2>4, <2>6 DEF Acyclic
<1>. QED
  BY <1>1, <1>2

\* setUse fills or empties one slot, and only its expression gains a use.
LEMMA SetUseHolds ==
    ASSUME TypeOK, WellLinked, NEW u \in Slot, NEW target \in Expr \cup {None}, setUse(u, target)
    PROVE  /\ expression' \in [Slot -> Expr \cup {None}]
           /\ next' \in [Slot -> Slot \cup {None}]
           /\ prev' \in [Slot -> Slot \cup {None}]
           /\ firstUse' \in [Expr -> Slot \cup {None}]
           /\ \A v \in Slot : expression'[v] = IF v = u THEN target ELSE expression[v]
           /\ \A e \in Expr : e # target /\ firstUse[e] = None => firstUse'[e] = None
           /\ \A e \in Expr : e # expression[u] /\ firstUse[e] # None => firstUse'[e] # None
           /\ target # None /\ target # expression[u] => firstUse'[target] # None
<1>1. CASE expression[u] = target
  BY <1>1, SlotAssumption DEF setUse, links, TypeOK, WellLinked
<1>2. CASE expression[u] # target
  <2>1. PICK head \in Slot \cup {None} : Moved(u, target, head)
    BY <1>2, SetUseEffect
  <2>. QED
    BY <1>2, <2>1, SlotAssumption DEF TypeOK, WellLinked, Moved
<1>. QED
  BY <1>1, <1>2

-----------------------------------------------------------------------------
(***************************************************************************)
(* Lists that are linked and not circular hold every use                   *)
(***************************************************************************)
\* The uses that an iteration misses would include one whose predecessor it meets.
LEMMA ExactLists == TypeOK /\ WellLinked /\ Acyclic => UsesExact
<1>. SUFFICES ASSUME TypeOK, WellLinked, Acyclic, NEW e \in Expr
              PROVE  /\ HoldsIteration(UsesOf(e), e)
                     /\ \A S \in SUBSET Slot : HoldsIteration(S, e) => UsesOf(e) \subseteq S
  BY DEF UsesExact
<1>1. HoldsIteration(UsesOf(e), e)
  BY SlotAssumption DEF HoldsIteration, UsesOf, TypeOK, WellLinked
<1>2. ASSUME NEW S \in SUBSET Slot, HoldsIteration(S, e), ~(UsesOf(e) \subseteq S)
      PROVE  FALSE
  <2>1. PICK bound \in Nat : \E rank \in [Slot -> 0 .. bound] :
          \A v \in Slot : next[v] # None => rank[next[v]] < rank[v]
    BY DEF Acyclic
  <2>2. PICK rank \in [Slot -> 0 .. bound] :
          \A v \in Slot : next[v] # None => rank[next[v]] < rank[v]
    BY <2>1
  <2>. DEFINE Missed == UsesOf(e) \ S
              T == {bound - rank[u] : u \in Missed}
  <2>3. T \subseteq Nat /\ T # {}
    BY <1>2, <2>2 DEF UsesOf
  <2>4. PICK x \in T : \A y \in T : x <= y
    BY <2>3, LeastNumber
  <2>5. PICK u \in Missed : x = bound - rank[u]
    BY <2>4
  <2>6. u \in Slot /\ expression[u] = e /\ u \notin S
    BY <2>5 DEF UsesOf
  <2>7. prev[u] # None
    <3>1. prev[u] = None => firstUse[e] = u
      BY <2>6, SlotAssumption DEF WellLinked
    <3>2. u # None /\ firstUse[e] # u
      BY <1>2, <2>6, SlotAssumption DEF HoldsIteration
    <3>. QED
      BY <3>1, <3>2
  <2>8. /\ prev[u] \in Slot /\ next[prev[u]] = u /\ expression[prev[u]] = e
        /\ rank[u] < rank[prev[u]]
    BY <2>2, <2>6, <2>7, SlotAssumption DEF TypeOK, WellLinked
  <2>9. prev[u] \notin S
    BY <1>2, <2>6, <2>8, SlotAssumption DEF HoldsIteration
  <2>10. bound - rank[prev[u]] \in T
    BY <2>8, <2>9 DEF UsesOf
  <2>11. bound - rank[prev[u]] < x /\ bound - rank[prev[u]] \in Nat /\ x \in Nat
    BY <2>2, <2>3, <2>5, <2>6, <2>8, <2>10
  <2>12. x <= bound - rank[prev[u]]
    BY <2>4, <2>10, Zenon
  <2>. QED
    BY <2>11, <2>12
<1>. QED
  BY <1>1, <1>2

-----------------------------------------------------------------------------
(***************************************************************************)
(* The steps                                                               *)
(***************************************************************************)
FrameType == [user : Expr \cup Holder, operands : SUBSET Slot]

\* The elements of a stack after a push and after a pop.
LEMMA Push ==
    ASSUME NEW T, NEW x \in T, NEW s \in Seq(T)
    PROVE  <<x>> \o s \in Seq(T) /\ Frames(<<x>> \o s) = {x} \cup Frames(s)
<1>. DEFINE t == <<x>> \o s
<1>1. \A i \in DOMAIN t : t[i] = x \/ \E j \in DOMAIN s : t[i] = s[j]
  OBVIOUS
<1>2. \A j \in DOMAIN s : j + 1 \in DOMAIN t /\ t[j + 1] = s[j]
  OBVIOUS
<1>3. 1 \in DOMAIN t /\ t[1] = x
  OBVIOUS
<1>4. t \in Seq(T)
  OBVIOUS
<1>. HIDE DEF t
<1>5. \A y \in Frames(t) : y \in {x} \cup Frames(s)
  BY <1>1 DEF Frames
<1>6. \A y \in {x} \cup Frames(s) : y \in Frames(t)
  BY <1>2, <1>3 DEF Frames
<1>7. Frames(t) = {x} \cup Frames(s)
  BY <1>5, <1>6
<1>. QED
  BY <1>4, <1>7 DEF t

\* Head and tail of a stack of calls.
LEMMA Pop ==
    ASSUME NEW T, NEW s \in Seq(T), s # <<>>
    PROVE  /\ Head(s) \in T
           /\ Tail(s) \in Seq(T)
           /\ Frames(s) = {Head(s)} \cup Frames(Tail(s))
<1>. DEFINE t == Tail(s)
            h == Head(s)
<1>1. \A i \in DOMAIN s : i = 1 \/ (i - 1 \in DOMAIN t /\ t[i - 1] = s[i])
  OBVIOUS
<1>2. \A i \in DOMAIN t : i + 1 \in DOMAIN s /\ t[i] = s[i + 1]
  OBVIOUS
<1>3. 1 \in DOMAIN s /\ h = s[1] /\ h \in T /\ t \in Seq(T)
  OBVIOUS
<1>. HIDE DEF t, h
<1>4. \A y \in Frames(s) : y \in {h} \cup Frames(t)
  BY <1>1, <1>3 DEF Frames
<1>5. \A y \in {h} \cup Frames(t) : y \in Frames(s)
  BY <1>2, <1>3 DEF Frames
<1>6. Frames(s) = {h} \cup Frames(t)
  BY <1>4, <1>5
<1>. QED
  BY <1>3, <1>6 DEF t, h

\* dropAllExpressionReferences visits an operand: the stack of calls.
LEMMA StackOfDrop ==
    ASSUME TypeOK, NEW u \in Slot, DropOperand(u)
    PROVE  LET top == [Head(stack) EXCEPT !.operands = @ \ {u}] IN
           /\ stack' \in Seq(FrameType)
           /\ Head(stack) \in Frames(stack)
           /\ \A f \in Frames(stack) : f = Head(stack) \/ f \in Frames(stack')
           /\ top \in Frames(stack')
           /\ \/ /\ expression[u] \in Expr => firstUse'[expression[u]] # None
                 /\ Frames(stack') \subseteq {top} \cup Frames(stack)
              \/ /\ expression[u] \in Expr /\ firstUse'[expression[u]] = None
                 /\ Frame(expression[u]) \in Frames(stack')
                 /\ Frames(stack') \subseteq {Frame(expression[u]), top} \cup Frames(stack)
<1>. DEFINE top == [Head(stack) EXCEPT !.operands = @ \ {u}]
            rest == <<top>> \o Tail(stack)
<1>1. stack \in Seq(FrameType) /\ stack # <<>>
  BY DEF TypeOK, FrameType, DropOperand
<1>2. Head(stack) \in FrameType /\ Tail(stack) \in Seq(FrameType)
        /\ Frames(stack) = {Head(stack)} \cup Frames(Tail(stack))
  BY <1>1, Pop
<1>3. top \in FrameType
  BY <1>2 DEF FrameType
<1>4. \/ /\ stack' = rest
         /\ expression[u] \in Expr => firstUse'[expression[u]] # None
      \/ /\ expression[u] \in Expr /\ firstUse'[expression[u]] = None
         /\ stack' = <<Frame(expression[u])>> \o rest
  BY SlotAssumption DEF DropOperand, TypeOK
<1>. HIDE DEF top
<1>5. rest \in Seq(FrameType) /\ Frames(rest) = {top} \cup Frames(Tail(stack))
  <2>. DEFINE s == Tail(stack)
  <2>1. s \in Seq(FrameType)
    BY <1>2
  <2>. HIDE DEF s
  <2>2. <<top>> \o s \in Seq(FrameType) /\ Frames(<<top>> \o s) = {top} \cup Frames(s)
    BY <1>3, <2>1, Push
  <2>. QED
    BY <2>2 DEF s
<1>6. expression[u] \in Expr => Frame(expression[u]) \in FrameType
  BY DEF FrameType, Frame, Slots
<1>. HIDE DEF rest
<1>7. CASE stack' = rest /\ (expression[u] \in Expr => firstUse'[expression[u]] # None)
  BY <1>2, <1>5, <1>7 DEF top
<1>8. CASE /\ expression[u] \in Expr /\ firstUse'[expression[u]] = None
           /\ stack' = <<Frame(expression[u])>> \o rest
  <2>1. /\ stack' \in Seq(FrameType)
        /\ Frames(stack') = {Frame(expression[u])} \cup Frames(rest)
    BY <1>5, <1>6, <1>8, Push
  <2>. QED
    BY <1>2, <1>5, <1>8, <2>1 DEF top
<1>. QED
  BY <1>4, <1>7, <1>8

\* A slot holds only expressions that are used.
LEMMA HeldIsUsed ==
    ASSUME TypeOK, WellLinked, Acyclic, NEW u \in Slot, expression[u] # None
    PROVE  expression[u] \in Expr /\ firstUse[expression[u]] # None
<1>1. expression[u] \in Expr
  BY DEF TypeOK
<1>2. UsesExact
  BY ExactLists
<1>3. firstUse[expression[u]] = None => HoldsIteration({}, expression[u])
  BY DEF HoldsIteration
<1>4. u \in UsesOf(expression[u]) /\ {} \in SUBSET Slot
  BY DEF UsesOf
<1>. QED
  BY <1>1, <1>2, <1>3, <1>4 DEF UsesExact

\* The lists stay exact whatever step is taken: each one calls setUse at most once.
LEMMA ListsStep ==
    ASSUME TypeOK, WellLinked, Acyclic, [Next]_vars
    PROVE  WellLinked' /\ Acyclic'
<1>1. ASSUME NEW u \in Slot, NEW target \in Expr \cup {None}, setUse(u, target)
      PROVE  WellLinked' /\ Acyclic'
  BY <1>1, SetUseLinked, SetUseAcyclic
<1>2. CASE UNCHANGED links
  BY <1>2 DEF links, WellLinked, Acyclic
<1>3. CASE \E u \in Slot, e \in Expr : SetOperand(u, e) \/ SetCondition(u, e)
  BY <1>1, <1>3 DEF SetOperand, SetCondition
<1>4. CASE \E u \in Slot, e \in Expr \cup {None} : Reset(u, e)
  BY <1>1, <1>4 DEF Reset
<1>5. CASE \E u \in Slot : DropOperand(u)
  BY <1>1, <1>5 DEF DropOperand
<1>6. CASE ReplaceUse
  <2>1. replacing \in Expr \X Expr /\ firstUse[replacing[1]] \in Slot
    BY <1>6 DEF ReplaceUse, TypeOK
  <2>. QED
    BY <1>1, <1>6, <2>1 DEF ReplaceUse
<1>7. CASE \/ \E user \in Holder : DropAllReferences(user)
           \/ DropReturn
           \/ \E e, to \in Expr : ReplaceAllUsesWith(e, to)
           \/ ReplaceReturn
           \/ UNCHANGED vars
  BY <1>2, <1>7 DEF DropAllReferences, DropReturn, ReplaceAllUsesWith, ReplaceReturn, vars
<1>. QED
  BY <1>3, <1>4, <1>5, <1>6, <1>7 DEF Next

\* What an idle state knows of dropped expressions.
LEMMA IdleFrames == Idle => Frames(stack) = {}
<1>. QED
  BY DEF Idle, Frames

\* A stack of one call.
LEMMA OneFrame ==
    ASSUME NEW user \in Expr \cup Holder
    PROVE  /\ <<Frame(user)>> \in Seq(FrameType)
           /\ Frames(<<Frame(user)>>) = {Frame(user)}
           /\ Frame(user).user = user
           /\ Frame(user).operands = Slots(user)
<1>1. Frame(user) \in FrameType
  BY DEF Frame, FrameType, Slots
<1>2. Frame(user).user = user /\ Frame(user).operands = Slots(user)
  BY DEF Frame
<1>. DEFINE f == Frame(user)
<1>3. f \in FrameType
  BY <1>1
<1>. HIDE DEF f
<1>4. <<f>> \in Seq(FrameType) /\ DOMAIN <<f>> = {1} /\ <<f>>[1] = f
  BY <1>3
<1>5. Frames(<<f>>) = {f}
  BY <1>4 DEF Frames
<1>. QED
  BY <1>2, <1>4, <1>5 DEF f

-----------------------------------------------------------------------------
\* Building: a new use is given to an expression that is complete.
LEMMA SetOperandStep ==
    ASSUME IInv, NEW u \in Slot, NEW e \in Expr, SetOperand(u, e) \/ SetCondition(u, e)
    PROVE  TypeOK' /\ Calls' /\ UsedIsComplete' /\ Swept'
<1>. USE SlotAssumption
<1>1. /\ TypeOK /\ WellLinked /\ Idle /\ setUse(u, e) /\ Usable(e)
      /\ fresh' = fresh \ {e} /\ stack' = stack /\ replacing' = replacing
  BY DEF IInv, SetOperand, SetCondition
<1>2. /\ expression' \in [Slot -> Expr \cup {None}]
      /\ next' \in [Slot -> Slot \cup {None}]
      /\ prev' \in [Slot -> Slot \cup {None}]
      /\ firstUse' \in [Expr -> Slot \cup {None}]
      /\ \A v \in Slot : expression'[v] = IF v = u THEN e ELSE expression[v]
      /\ \A x \in Expr : x # e /\ firstUse[x] = None => firstUse'[x] = None
      /\ \A x \in Expr : x # expression[u] /\ firstUse[x] # None => firstUse'[x] # None
      /\ e # expression[u] => firstUse'[e] # None
  BY <1>1, SetUseHolds
<1>3. TypeOK'
  BY <1>1, <1>2 DEF TypeOK
<1>4. Calls'
  BY <1>1, IdleFrames DEF Idle, Calls
<1>5. \A x \in Expr : Complete(x) => Complete(x)'
  BY <1>2 DEF Complete, Slots
<1>6. UsedIsComplete'
  BY <1>1, <1>2, <1>5 DEF IInv, UsedIsComplete, Usable
<1>7. Swept'
  <2>. SUFFICES ASSUME NEW x \in Expr \ (fresh' \cup Overwritten), firstUse'[x] = None,
                       NEW v \in Slots(x), expression'[v] # None
                PROVE  FALSE
    BY DEF Swept, Slots
  <2>1. expression[u] \in Overwritten \cup {None} /\ UserOf[u] \in (fresh \ {e}) \cup Holder
    BY DEF SetOperand, SetCondition
  <2>2. x # e /\ x \notin fresh /\ firstUse[x] = None
    BY <1>1, <1>2, <2>1 DEF TypeOK
  <2>3. v # u /\ v \in Slot /\ expression[v] # None
    BY <1>1, <1>2, <2>1, <2>2 DEF Slots
  <2>. QED
    BY <1>1, <2>2, <2>3, IdleFrames DEF IInv, Swept, Idle
<1>. QED
  BY <1>3, <1>4, <1>6, <1>7

\* reset: the slot belongs to a holder, and an expression that loses its last
\* use is dropped at once.
LEMMA ResetStep ==
    ASSUME IInv, NEW u \in Slot, NEW e \in Expr \cup {None}, Reset(u, e)
    PROVE  TypeOK' /\ Calls' /\ UsedIsComplete' /\ Swept'
<1>. USE SlotAssumption
<1>. DEFINE current == expression[u]
<1>1. /\ TypeOK /\ WellLinked /\ Acyclic /\ Idle /\ setUse(u, e) /\ (e # None => Usable(e))
      /\ UserOf[u] \in Holder /\ fresh' = fresh \ {e} /\ replacing' = None
      /\ stack' = IF current # None /\ firstUse'[current] = None THEN <<Frame(current)>> ELSE <<>>
  BY DEF IInv, Reset, Idle
<1>2. /\ expression' \in [Slot -> Expr \cup {None}]
      /\ next' \in [Slot -> Slot \cup {None}]
      /\ prev' \in [Slot -> Slot \cup {None}]
      /\ firstUse' \in [Expr -> Slot \cup {None}]
      /\ \A v \in Slot : expression'[v] = IF v = u THEN e ELSE expression[v]
      /\ \A x \in Expr : x # e /\ firstUse[x] = None => firstUse'[x] = None
      /\ \A x \in Expr : x # current /\ firstUse[x] # None => firstUse'[x] # None
      /\ e # None /\ e # current => firstUse'[e] # None
  BY <1>1, SetUseHolds
<1>3. current # None => current \in Expr /\ firstUse[current] # None
  BY <1>1, HeldIsUsed
<1>4. e = current /\ e # None => firstUse'[e] # None
  BY <1>1, <1>3 DEF setUse, links
<1>5. \/ stack' = <<>> /\ Frames(stack') = {} /\ (current # None => firstUse'[current] # None)
      \/ /\ current \in Expr /\ firstUse'[current] = None
         /\ stack' = <<Frame(current)>>
         /\ stack' \in Seq(FrameType) /\ Frames(stack') = {Frame(current)}
         /\ Frame(current).user = current /\ Frame(current).operands = Slots(current)
  <2>1. CASE current # None /\ firstUse'[current] = None
    BY <1>1, <1>3, <2>1, OneFrame
  <2>2. CASE ~(current # None /\ firstUse'[current] = None)
    BY <1>1, <2>2 DEF Frames
  <2>. QED
    BY <2>1, <2>2
<1>. HIDE DEF current
<1>6. TypeOK'
  <2>1. <<>> \in Seq(FrameType)
    OBVIOUS
  <2>2. stack' \in Seq(FrameType)
    BY <1>5, <2>1, Zenon
  <2>. QED
    BY <1>1, <1>2, <2>2 DEF TypeOK, FrameType
<1>7. Calls'
  BY <1>1, <1>5 DEF Calls, Slots
<1>8. \A x \in Expr : Complete(x) => Complete(x)'
  BY <1>1, <1>2 DEF Complete, Slots
<1>9. UsedIsComplete'
  BY <1>1, <1>2, <1>8 DEF IInv, UsedIsComplete, Usable
<1>10. Swept'
  <2>. SUFFICES ASSUME NEW x \in Expr \ (fresh' \cup Overwritten), firstUse'[x] = None,
                       NEW v \in Slots(x), expression'[v] # None
                PROVE  \E frame \in Frames(stack') : frame.user = x /\ v \in frame.operands
    BY DEF Swept, Slots
  <2>1. x # e
    BY <1>2, <1>4
  <2>2. v \in Slot /\ UserOf[v] = x /\ v # u /\ expression[v] # None
    BY <1>1, <1>2 DEF Slots
  <2>3. CASE x = current
    BY <1>3, <1>5, <2>3
  <2>4. CASE x # current
    <3>1. firstUse[x] = None /\ x \notin fresh
      BY <1>1, <1>2, <2>1, <2>4
    <3>. QED
      BY <1>1, <2>2, <3>1, IdleFrames DEF IInv, Swept, Idle
  <2>. QED
    BY <2>3, <2>4
<1>. QED
  BY <1>6, <1>7, <1>9, <1>10

\* A statement lets go of its operands: the call begins.
LEMMA DropAllReferencesStep ==
    ASSUME IInv, NEW user \in Holder, DropAllReferences(user)
    PROVE  TypeOK' /\ Calls' /\ UsedIsComplete' /\ Swept'
<1>. USE SlotAssumption
<1>1. /\ TypeOK /\ Idle /\ stack' = <<Frame(user)>>
      /\ expression' = expression /\ next' = next /\ prev' = prev /\ firstUse' = firstUse
      /\ fresh' = fresh /\ replacing' = None
  BY DEF IInv, DropAllReferences, links, Idle
<1>2. /\ stack' \in Seq(FrameType) /\ Frames(stack') = {Frame(user)}
      /\ Frame(user).user = user /\ Frame(user).operands = Slots(user)
  BY <1>1, OneFrame
<1>3. TypeOK'
  BY <1>1, <1>2 DEF TypeOK, FrameType
<1>4. Calls'
  BY <1>1, <1>2 DEF Calls, Slots
<1>5. UsedIsComplete'
  BY <1>1 DEF IInv, UsedIsComplete, Complete, Slots
<1>6. Swept'
  BY <1>1, IdleFrames DEF IInv, Swept, Slots, Idle
<1>. QED
  BY <1>3, <1>4, <1>5, <1>6

\* An operand is dropped: its user is not used, so that no used expression
\* loses an operand, and an expression that loses its last use is dropped next.
LEMMA DropOperandStep ==
    ASSUME IInv, NEW u \in Slot, DropOperand(u)
    PROVE  TypeOK' /\ Calls' /\ UsedIsComplete' /\ Swept'
<1>. USE SlotAssumption
<1>. DEFINE top == [Head(stack) EXCEPT !.operands = @ \ {u}]
<1>1. /\ TypeOK /\ WellLinked /\ Acyclic /\ Calls /\ setUse(u, None) /\ stack # <<>>
      /\ u \in Head(stack).operands /\ fresh' = fresh /\ replacing' = replacing
  BY DEF IInv, DropOperand
<1>2. /\ expression' \in [Slot -> Expr \cup {None}]
      /\ next' \in [Slot -> Slot \cup {None}]
      /\ prev' \in [Slot -> Slot \cup {None}]
      /\ firstUse' \in [Expr -> Slot \cup {None}]
      /\ \A v \in Slot : expression'[v] = IF v = u THEN None ELSE expression[v]
      /\ \A x \in Expr : firstUse[x] = None => firstUse'[x] = None
      /\ \A x \in Expr : x # expression[u] /\ firstUse[x] # None => firstUse'[x] # None
  BY <1>1, SetUseHolds
<1>3. /\ stack' \in Seq(FrameType)
      /\ Head(stack) \in Frames(stack)
      /\ \A f \in Frames(stack) : f = Head(stack) \/ f \in Frames(stack')
      /\ top \in Frames(stack')
      /\ \/ /\ expression[u] \in Expr => firstUse'[expression[u]] # None
            /\ Frames(stack') \subseteq {top} \cup Frames(stack)
         \/ /\ expression[u] \in Expr /\ firstUse'[expression[u]] = None
            /\ Frame(expression[u]) \in Frames(stack')
            /\ Frames(stack') \subseteq {Frame(expression[u]), top} \cup Frames(stack)
  BY <1>1, StackOfDrop
<1>4. Head(stack) \in FrameType
  BY <1>1, Pop DEF TypeOK, FrameType
<1>5. top.user = Head(stack).user /\ top.operands = Head(stack).operands \ {u}
  BY <1>4 DEF FrameType
<1>6. expression[u] \in Expr =>
        Frame(expression[u]).user = expression[u] /\ Frame(expression[u]).operands = Slots(expression[u])
  BY OneFrame
<1>7. /\ replacing = None
      /\ UserOf[u] = Head(stack).user
      /\ Head(stack).user \in Expr => firstUse[Head(stack).user] = None
      /\ Head(stack).operands \subseteq Slots(Head(stack).user)
  BY <1>1, <1>3 DEF Calls, Slots
<1>. HIDE DEF top
<1>8. TypeOK'
  BY <1>1, <1>2, <1>3 DEF TypeOK, FrameType
<1>9. Calls'
  <2>1. ASSUME NEW f \in Frames(stack')
        PROVE  /\ f.user \in Expr => firstUse'[f.user] = None
               /\ f.operands \subseteq Slots(f.user)
    <3>1. CASE f = top
      BY <1>2, <1>5, <1>7, <3>1
    <3>2. CASE f \in Frames(stack)
      BY <1>1, <1>2, <3>2 DEF Calls
    <3>3. CASE f = Frame(expression[u]) /\ expression[u] \in Expr /\ firstUse'[expression[u]] = None
      BY <1>6, <3>3
    <3>. QED
      BY <1>3, <3>1, <3>2, <3>3
  <2>. QED
    BY <1>1, <1>7, <2>1 DEF Calls, Slots
<1>10. UsedIsComplete'
  BY <1>2, <1>7 DEF IInv, UsedIsComplete, Complete, Slots
<1>11. Swept'
  <2>. SUFFICES ASSUME NEW x \in Expr \ (fresh' \cup Overwritten), firstUse'[x] = None,
                       NEW v \in Slots(x), expression'[v] # None
                PROVE  \E frame \in Frames(stack') : frame.user = x /\ v \in frame.operands
    BY DEF Swept, Slots
  <2>1. v \in Slot /\ v # u /\ expression[v] # None
    BY <1>2 DEF Slots
  <2>2. CASE firstUse[x] = None
    <3>1. PICK f \in Frames(stack) : f.user = x /\ v \in f.operands
      BY <1>1, <1>7, <2>1, <2>2 DEF IInv, Swept
    <3>2. CASE f = Head(stack)
      BY <1>3, <1>5, <2>1, <3>1, <3>2
    <3>3. CASE f \in Frames(stack')
      BY <3>1, <3>3
    <3>. QED
      BY <1>3, <3>2, <3>3
  <2>3. CASE firstUse[x] # None
    <3>1. x = expression[u]
      BY <1>2, <2>3
    <3>. QED
      BY <1>3, <1>6, <3>1
  <2>. QED
    BY <2>2, <2>3
<1>. QED
  BY <1>8, <1>9, <1>10, <1>11

\* A call returns when it has visited all operands.
LEMMA DropReturnStep ==
    ASSUME IInv, DropReturn
    PROVE  TypeOK' /\ Calls' /\ UsedIsComplete' /\ Swept'
<1>1. /\ TypeOK /\ Calls /\ stack # <<>> /\ Head(stack).operands = {} /\ stack' = Tail(stack)
      /\ expression' = expression /\ next' = next /\ prev' = prev /\ firstUse' = firstUse
      /\ fresh' = fresh /\ replacing' = replacing
  BY DEF IInv, DropReturn, links
<1>2. /\ stack' \in Seq(FrameType)
      /\ Frames(stack) = {Head(stack)} \cup Frames(stack')
  BY <1>1, Pop DEF TypeOK, FrameType
<1>3. TypeOK'
  BY <1>1, <1>2 DEF TypeOK, FrameType
<1>4. Calls'
  BY <1>1, <1>2 DEF Calls, Slots
<1>5. UsedIsComplete'
  BY <1>1 DEF IInv, UsedIsComplete, Complete, Slots
<1>6. Swept'
  BY <1>1, <1>2 DEF IInv, Swept, Slots
<1>. QED
  BY <1>3, <1>4, <1>5, <1>6

\* replaceAllUsesWith: the uses move to an expression that is complete.
LEMMA ReplaceStep ==
    ASSUME IInv,
           \/ \E e, to \in Expr : ReplaceAllUsesWith(e, to)
           \/ ReplaceUse
           \/ ReplaceReturn
    PROVE  TypeOK' /\ Calls' /\ UsedIsComplete' /\ Swept'
<1>. USE SlotAssumption
<1>1. TypeOK /\ WellLinked /\ Acyclic /\ Calls /\ UsedIsComplete /\ Swept
  BY DEF IInv
<1>2. ASSUME NEW e \in Expr, NEW to \in Expr, ReplaceAllUsesWith(e, to)
      PROVE  TypeOK' /\ Calls' /\ UsedIsComplete' /\ Swept'
  <2>1. /\ Idle /\ e # to /\ Usable(to) /\ replacing' = <<e, to>> /\ stack' = stack
        /\ expression' = expression /\ next' = next /\ prev' = prev /\ firstUse' = firstUse
        /\ fresh' = fresh
    BY <1>2 DEF ReplaceAllUsesWith, links
  <2>2. TypeOK'
    BY <1>1, <2>1 DEF TypeOK
  <2>3. Complete(to)'
    BY <2>1 DEF Usable, Complete, Slots
  <2>4. Calls'
    BY <2>1, <2>3, IdleFrames DEF Calls, Idle
  <2>5. UsedIsComplete' /\ Swept'
    BY <1>1, <2>1, IdleFrames DEF UsedIsComplete, Complete, Slots, Swept, Idle
  <2>. QED
    BY <2>2, <2>4, <2>5
<1>3. CASE ReplaceUse
  <2>. DEFINE from == replacing[1]
              to == replacing[2]
              u == firstUse[from]
  <2>1. /\ from \in Expr /\ to \in Expr /\ u \in Slot /\ replacing # None
        /\ stack = <<>> /\ from # to /\ Complete(to)
    BY <1>1, <1>3 DEF ReplaceUse, TypeOK, Calls
  <2>2. /\ expression[u] = from /\ setUse(u, to)
        /\ fresh' = fresh \ {to} /\ stack' = stack /\ replacing' = replacing
    BY <1>1, <1>3, <2>1 DEF ReplaceUse, WellLinked
  <2>. HIDE DEF from, to, u
  <2>3. /\ expression' \in [Slot -> Expr \cup {None}]
        /\ next' \in [Slot -> Slot \cup {None}]
        /\ prev' \in [Slot -> Slot \cup {None}]
        /\ firstUse' \in [Expr -> Slot \cup {None}]
        /\ \A v \in Slot : expression'[v] = IF v = u THEN to ELSE expression[v]
        /\ \A x \in Expr : x # to /\ firstUse[x] = None => firstUse'[x] = None
        /\ \A x \in Expr : x # from /\ firstUse[x] # None => firstUse'[x] # None
        /\ firstUse'[to] # None
    BY <1>1, <2>1, <2>2, SetUseHolds
  <2>4. TypeOK'
    BY <1>1, <2>2, <2>3 DEF TypeOK
  <2>5. \A x \in Expr : Complete(x) => Complete(x)'
    BY <2>1, <2>3 DEF Complete, Slots
  <2>6. Calls'
    <3>1. Frames(stack') = {}
      BY <2>1, <2>2 DEF Frames
    <3>. QED
      BY <2>1, <2>2, <2>5, <3>1 DEF Calls, from, to
  <2>7. UsedIsComplete'
    BY <1>1, <2>1, <2>3, <2>5 DEF UsedIsComplete
  <2>8. Swept'
    <3>. SUFFICES ASSUME NEW x \in Expr \ (fresh' \cup Overwritten), firstUse'[x] = None, x # from,
                         NEW v \in Slots(x), expression'[v] # None
                  PROVE  FALSE
      BY <2>1, <2>2 DEF Swept, Slots, from
    <3>1. x # to /\ x \notin fresh /\ firstUse[x] = None
      BY <2>2, <2>3
    <3>2. v \in Slot /\ expression[v] # None
      BY <2>1, <2>2, <2>3 DEF Slots
    <3>3. Frames(stack) = {}
      BY <2>1 DEF Frames
    <3>. QED
      BY <1>1, <3>1, <3>2, <3>3 DEF Swept, from
  <2>. QED
    BY <2>4, <2>6, <2>7, <2>8
<1>4. CASE ReplaceReturn
  <2>. DEFINE from == replacing[1]
  <2>1. /\ from \in Expr /\ firstUse[from] = None /\ stack = <<>> /\ replacing # None
        /\ stack' = <<Frame(from)>> /\ replacing' = None
        /\ expression' = expression /\ next' = next /\ prev' = prev /\ firstUse' = firstUse
        /\ fresh' = fresh
    BY <1>1, <1>4 DEF ReplaceReturn, TypeOK, Calls, links
  <2>2. /\ stack' \in Seq(FrameType) /\ Frames(stack') = {Frame(from)}
        /\ Frame(from).user = from /\ Frame(from).operands = Slots(from)
    BY <2>1, OneFrame
  <2>3. Frames(stack) = {}
    BY <2>1 DEF Frames
  <2>. HIDE DEF from
  <2>4. TypeOK'
    BY <1>1, <2>1, <2>2 DEF TypeOK, FrameType
  <2>5. Calls'
    BY <2>1, <2>2 DEF Calls, Slots
  <2>6. UsedIsComplete'
    BY <1>1, <2>1 DEF UsedIsComplete, Complete, Slots
  <2>7. Swept'
    <3>1. \A x \in Expr \ (fresh \cup Overwritten) : firstUse[x] = None /\ x # from =>
            \A v \in Slots(x) : expression[v] = None
      BY <1>1, <2>3 DEF Swept, from
    <3>. QED
      BY <2>1, <2>2, <3>1 DEF Swept, Slots
  <2>. QED
    BY <2>4, <2>5, <2>6, <2>7
<1>. QED
  BY <1>2, <1>3, <1>4

-----------------------------------------------------------------------------
(***************************************************************************)
(* The theorems                                                            *)
(***************************************************************************)
\* The empty tree satisfies the inductive invariant.
LEMMA InitIInv ==
    ASSUME Init
    PROVE  IInv
<1>. USE SlotAssumption
<1>1. TypeOK
  BY DEF Init, TypeOK
<1>2. WellLinked
  BY DEF Init, WellLinked
<1>3. Acyclic
  <2>1. [u \in Slot |-> 0] \in [Slot -> 0 .. 0] /\ \A u \in Slot : next[u] = None
    BY DEF Init
  <2>. QED
    BY <2>1 DEF Acyclic
<1>4. Calls /\ UsedIsComplete /\ Swept
  BY DEF Init, Calls, UsedIsComplete, Swept, Frames
<1>. QED
  BY <1>1, <1>2, <1>3, <1>4 DEF IInv

\* Every step keeps the inductive invariant.
LEMMA NextIInv ==
    ASSUME IInv, [Next]_vars
    PROVE  IInv'
<1>1. WellLinked' /\ Acyclic'
  BY ListsStep DEF IInv
<1>2. CASE Next
  <2>1. TypeOK' /\ Calls' /\ UsedIsComplete' /\ Swept'
    BY <1>2, SetOperandStep, ResetStep, DropAllReferencesStep, DropOperandStep, DropReturnStep,
       ReplaceStep DEF Next
  <2>. QED
    BY <1>1, <2>1 DEF IInv
<1>3. CASE UNCHANGED vars
  <2>1. TypeOK' /\ Calls' /\ UsedIsComplete' /\ Swept'
    BY <1>3 DEF vars, links, IInv, TypeOK, Calls, UsedIsComplete, Swept, Complete, Slots
  <2>. QED
    BY <1>1, <2>1 DEF IInv
<1>. QED
  BY <1>2, <1>3

\* The inductive invariant: the lists are linked and end, only unused users are
\* being dropped, used expressions are complete and unused ones are swept.
THEOREM Invariance == Spec => []IInv
<1>1. Init => IInv
  BY InitIInv
<1>2. IInv /\ [Next]_vars => IInv'
  BY NextIInv
<1>. QED
  BY <1>1, <1>2, PTL DEF Spec

\* The pointers of expression_use.h and the running calls keep their types.
THEOREM TypeCorrect == Spec => []TypeOK
<1>1. IInv => TypeOK
  BY DEF IInv
<1>. QED
  BY <1>1, Invariance, PTL

\* Expression::uses() visits exactly the slots that hold the expression.
THEOREM UsesTheorem == Spec => []UsesExact
<1>1. IInv => UsesExact
  BY ExactLists DEF IInv
<1>. QED
  BY <1>1, Invariance, PTL

\* An expression that a statement, a reference or an expression uses keeps all
\* of its operands (expression_user.h:182).
THEOREM CompleteTheorem == Spec => []UsedIsComplete
<1>1. IInv => UsedIsComplete
  BY DEF IInv
<1>. QED
  BY <1>1, Invariance, PTL

\* Between two calls no unused expression holds on to its operands.
THEOREM GarbageTheorem == Spec => []NoGarbage
<1>1. IInv => NoGarbage
  BY IdleFrames DEF IInv, Swept, NoGarbage, Idle
<1>. QED
  BY <1>1, Invariance, PTL

-----------------------------------------------------------------------------
(***************************************************************************)
(* The inductive invariant of the pass.  Every step of it is a step of     *)
(* UseList, so that the invariant of the use lists holds under the pass    *)
(* and its iterators.                                                      *)
(***************************************************************************)
\* A call runs only while the pass waits for it, and drops erased statements
\* and expressions.
PassCalls ==
    /\ replacing = None
    /\ phase # "drop" => stack = <<>>
    /\ \A f \in Frames(stack) : f.user \in Expr \cup erased
    /\ phase = "build" => erased = {}

\* What an erased statement still holds is about to be dropped.
ErasedSwept ==
    \A u \in Slot : UserOf[u] \in erased /\ expression[u] # None =>
        \E f \in Frames(stack) : f.user = UserOf[u] /\ u \in f.operands

\* The iterator of removeStatementUses is in the list of an assignment of undef,
\* or, while its statement is dropped, in a slot of an erased statement.
Iterators ==
    /\ phase \in {"statements", "drop"} => use # None
    /\ phase = "drop" => inner # None /\ UserOf[inner] \in erased
    /\ phase = "statements" /\ inner # None =>
         /\ expression[inner] \in Assignment
         /\ expression[Source[expression[inner]]] = undef

PassInv == PassTypeOK /\ IInv /\ PassCalls /\ ErasedSwept /\ Iterators

-----------------------------------------------------------------------------
(***************************************************************************)
(* The steps                                                               *)
(***************************************************************************)
\* The pass does to the use lists only what UseList allows.
LEMMA PassStepsLists ==
    ASSUME [PassNext]_passVars
    PROVE  [Next]_vars
<1>1. CASE Build
  <2>1. PICK u \in Slot : \E e \in Fits[u] : SetOperand(u, e)
    BY <1>1 DEF Build
  <2>2. PICK e \in Fits[u] : SetOperand(u, e)
    BY <2>1
  <2>3. e \in Expr
    BY AssignmentAssumption
  <2>. QED
    BY <2>2, <2>3 DEF Next
<1>2. CASE removeStatementUses
  BY <1>2, AssignmentAssumption DEF removeStatementUses, Next
<1>3. CASE Drop
  BY <1>3 DEF Drop, Next
<1>4. CASE doRun \/ NextUse \/ Dropped \/ StatementsDone \/ PassDone \/ Terminated \/ UNCHANGED passVars
  BY <1>4 DEF doRun, NextUse, Dropped, StatementsDone, PassDone, Terminated, passVars
<1>. QED
  BY <1>1, <1>2, <1>3, <1>4 DEF PassNext

\* The backend builds: the pass has not begun.
LEMMA BuildStep ==
    ASSUME PassInv, Build
    PROVE  PassTypeOK' /\ PassCalls' /\ ErasedSwept' /\ Iterators'
<1>1. /\ phase = "build" /\ UNCHANGED pass /\ stack' = stack /\ replacing' = replacing
  BY DEF Build, SetOperand
<1>. QED
  BY <1>1 DEF PassInv, PassTypeOK, PassCalls, ErasedSwept, Iterators, pass

\* An iterator moves along a list that nothing changes meanwhile.
LEMMA IteratorStep ==
    ASSUME PassInv, doRun \/ NextUse \/ StatementsDone \/ PassDone \/ Terminated \/ UNCHANGED passVars
    PROVE  PassTypeOK' /\ PassCalls' /\ ErasedSwept' /\ Iterators'
<1>. USE SlotAssumption, AssignmentAssumption
<1>1. /\ expression' = expression /\ next' = next /\ prev' = prev /\ firstUse' = firstUse
      /\ stack' = stack /\ replacing' = replacing /\ erased' = erased
      /\ phase \notin {"drop"} => phase' \notin {"drop", "build"} \/ UNCHANGED pass
      /\ phase = "drop" => UNCHANGED pass
  BY DEF doRun, NextUse, StatementsDone, PassDone, Terminated, passVars, vars, links, pass
<1>2. TypeOK /\ WellLinked /\ PassTypeOK /\ PassCalls /\ ErasedSwept /\ Iterators
  BY DEF PassInv, IInv
<1>3. PassTypeOK' /\ Iterators'
  <2>1. CASE doRun
    BY <1>1, <1>2, <2>1 DEF doRun, PassTypeOK, Iterators, TypeOK
  <2>2. CASE NextUse
    <3>1. CASE ~asUndefAssignment(use)
      BY <1>1, <1>2, <2>2, <3>1 DEF NextUse, PassTypeOK, Iterators, TypeOK
    <3>2. CASE asUndefAssignment(use)
      <4>1. /\ phase' = "statements" /\ inner' = firstUse[UserOf[use]] /\ use' = use /\ use # None
            /\ UserOf[use] \in Assignment /\ UserOf[use] \in Expr
            /\ expression[Source[UserOf[use]]] = undef
        BY <2>2, <3>2 DEF NextUse, asUndefAssignment
      <4>2. inner' # None => expression[inner'] = UserOf[use]
        BY <1>2, <4>1 DEF WellLinked
      <4>. QED
        BY <1>1, <1>2, <4>1, <4>2 DEF PassTypeOK, Iterators, TypeOK
    <3>. QED
      BY <3>1, <3>2
  <2>3. CASE StatementsDone
    BY <1>1, <1>2, <2>3 DEF StatementsDone, PassTypeOK, Iterators, TypeOK
  <2>4. CASE PassDone
    BY <1>1, <1>2, <2>4 DEF PassDone, PassTypeOK, Iterators, TypeOK
  <2>5. CASE Terminated \/ UNCHANGED passVars
    BY <1>1, <1>2, <2>5 DEF Terminated, passVars, pass, PassTypeOK, Iterators
  <2>. QED
    BY <2>1, <2>2, <2>3, <2>4, <2>5
<1>4. PassCalls' /\ ErasedSwept'
  BY <1>1, <1>2 DEF PassCalls, ErasedSwept, pass
<1>. QED
  BY <1>3, <1>4

\* removeStatementUses: a statement is erased and its call begins, or the use is
\* not a statement's and the iterator goes on in the list of the assignment.
LEMMA RemoveStep ==
    ASSUME PassInv, removeStatementUses
    PROVE  PassTypeOK' /\ PassCalls' /\ ErasedSwept' /\ Iterators'
<1>. USE SlotAssumption, AssignmentAssumption
<1>1. TypeOK /\ WellLinked /\ PassTypeOK /\ PassCalls /\ ErasedSwept /\ Iterators
  BY DEF PassInv, IInv
<1>2. phase = "statements" /\ inner \in Slot /\ inner # None /\ use # None /\ stack = <<>>
  BY <1>1 DEF removeStatementUses, PassTypeOK, PassCalls, Iterators
<1>3. CASE UserOf[inner] \in Statement
  <2>. DEFINE s == UserOf[inner]
  <2>1. /\ erased' = erased \cup {s} /\ phase' = "drop" /\ use' = use /\ inner' = inner
        /\ stack' = <<Frame(s)>> /\ expression' = expression /\ replacing' = replacing
    BY <1>3 DEF removeStatementUses, DropAllReferences, links
  <2>2. Frames(stack') = {Frame(s)} /\ Frame(s).user = s /\ Frame(s).operands = Slots(s)
    BY <1>3, <2>1, OneFrame
  <2>3. Frames(stack) = {}
    BY <1>2 DEF Frames
  <2>4. ErasedSwept'
    BY <1>1, <2>1, <2>2, <2>3 DEF ErasedSwept, Slots
  <2>5. PassTypeOK' /\ PassCalls' /\ Iterators'
    BY <1>1, <1>2, <1>3, <2>1, <2>2 DEF PassTypeOK, PassCalls, Iterators
  <2>. QED
    BY <2>4, <2>5
<1>4. CASE UserOf[inner] \notin Statement
  <2>1. /\ inner' = next[inner] /\ phase' = phase /\ use' = use /\ erased' = erased
        /\ expression' = expression /\ stack' = stack /\ replacing' = replacing
    BY <1>4 DEF removeStatementUses, vars, links
  <2>2. inner' \in Slot \cup {None} /\ (inner' # None => expression[inner'] = expression[inner])
    BY <1>1, <1>2, <2>1 DEF TypeOK, WellLinked
  <2>. QED
    BY <1>1, <1>2, <2>1, <2>2 DEF PassTypeOK, PassCalls, ErasedSwept, Iterators
<1>. QED
  BY <1>3, <1>4

\* dropAllReferences runs: a slot of an erased statement is emptied when it
\* leaves the operands of its call.
LEMMA DropStep ==
    ASSUME PassInv, Drop
    PROVE  PassTypeOK' /\ PassCalls' /\ ErasedSwept' /\ Iterators'
<1>. USE SlotAssumption, AssignmentAssumption
<1>1. /\ TypeOK /\ WellLinked /\ Calls /\ PassTypeOK /\ PassCalls /\ ErasedSwept /\ Iterators
      /\ phase = "drop" /\ phase' = phase /\ use' = use /\ inner' = inner /\ erased' = erased
  BY DEF PassInv, IInv, Drop, pass
<1>2. PassTypeOK' /\ Iterators'
  BY <1>1 DEF PassTypeOK, Iterators
<1>3. ASSUME NEW u \in Slot, DropOperand(u) PROVE PassCalls' /\ ErasedSwept'
  <2>. DEFINE top == [Head(stack) EXCEPT !.operands = @ \ {u}]
  <2>1. /\ Head(stack) \in Frames(stack)
        /\ \A f \in Frames(stack) : f = Head(stack) \/ f \in Frames(stack')
        /\ top \in Frames(stack')
        /\ \A f \in Frames(stack') : \/ f \in Frames(stack) \cup {top}
                                     \/ expression[u] \in Expr /\ f = Frame(expression[u])
    BY <1>1, <1>3, StackOfDrop
  <2>2. /\ replacing' = replacing /\ u \in Head(stack).operands
        /\ \A v \in Slot : expression'[v] = IF v = u THEN None ELSE expression[v]
    BY <1>1, <1>3, SetUseHolds DEF DropOperand
  <2>3. Head(stack) \in FrameType
    BY <1>1, <1>3, Pop DEF TypeOK, FrameType, DropOperand
  <2>4. top.user = Head(stack).user /\ top.operands = Head(stack).operands \ {u}
    BY <2>3 DEF FrameType
  <2>5. expression[u] \in Expr => Frame(expression[u]).user = expression[u]
    BY DEF Frame
  <2>. HIDE DEF top
  <2>6. PassCalls'
    BY <1>1, <2>1, <2>2, <2>4, <2>5 DEF PassCalls
  <2>7. ErasedSwept'
    <3>. SUFFICES ASSUME NEW v \in Slot, UserOf[v] \in erased, expression'[v] # None
                  PROVE  \E f \in Frames(stack') : f.user = UserOf[v] /\ v \in f.operands
      BY <1>1 DEF ErasedSwept
    <3>1. v # u /\ expression[v] # None
      BY <2>2
    <3>2. PICK f \in Frames(stack) : f.user = UserOf[v] /\ v \in f.operands
      BY <1>1, <3>1 DEF ErasedSwept
    <3>3. CASE f = Head(stack)
      BY <2>1, <2>4, <3>1, <3>2, <3>3
    <3>4. CASE f \in Frames(stack')
      BY <3>2, <3>4
    <3>. QED
      BY <2>1, <3>3, <3>4
  <2>. QED
    BY <2>6, <2>7
<1>4. ASSUME DropReturn PROVE PassCalls' /\ ErasedSwept'
  <2>1. /\ stack # <<>> /\ Head(stack).operands = {} /\ stack' = Tail(stack)
        /\ expression' = expression /\ replacing' = replacing
    BY <1>4 DEF DropReturn, links
  <2>2. Frames(stack) = {Head(stack)} \cup Frames(stack')
    BY <1>1, <2>1, Pop DEF TypeOK, FrameType
  <2>. QED
    BY <1>1, <2>1, <2>2 DEF PassCalls, ErasedSwept
<1>. QED
  BY <1>2, <1>3, <1>4 DEF Drop

\* The call has returned: the slot of the iterator is empty, and so is the rest
\* of the list it can see.
LEMMA DroppedStep ==
    ASSUME PassInv, Dropped
    PROVE  PassTypeOK' /\ PassCalls' /\ ErasedSwept' /\ Iterators'
<1>. USE SlotAssumption, AssignmentAssumption
<1>1. /\ TypeOK /\ WellLinked /\ PassTypeOK /\ PassCalls /\ ErasedSwept /\ Iterators
      /\ phase = "drop" /\ phase' = "statements" /\ stack = <<>> /\ inner' = next[inner]
      /\ expression' = expression /\ stack' = stack /\ replacing' = replacing
      /\ use' = use /\ erased' = erased
  BY DEF PassInv, IInv, Dropped, Idle, vars, links
<1>2. Frames(stack) = {} /\ inner \in Slot /\ UserOf[inner] \in erased
  BY <1>1 DEF Frames, Iterators, PassTypeOK
<1>3. next[inner] = None
  BY <1>1, <1>2 DEF ErasedSwept, WellLinked
<1>. QED
  BY <1>1, <1>2, <1>3 DEF PassTypeOK, PassCalls, ErasedSwept, Iterators

-----------------------------------------------------------------------------
(***************************************************************************)
(* The theorems                                                            *)
(***************************************************************************)
\* The invariant of the use lists holds under the pass, whose iterators stay on
\* uses of an assignment of undef until they meet a slot that has been emptied.
THEOREM PassInvariance == PassSpec => []PassInv
<1>1. PassInit => PassInv
  <2>. SUFFICES ASSUME PassInit PROVE PassInv
    OBVIOUS
  <2>1. IInv
    BY InitIInv DEF PassInit
  <2>2. PassTypeOK /\ PassCalls /\ ErasedSwept /\ Iterators
    BY DEF PassInit, Init, PassTypeOK, PassCalls, ErasedSwept, Iterators, Frames
  <2>. QED
    BY <2>1, <2>2 DEF PassInv
<1>2. PassInv /\ [PassNext]_passVars => PassInv'
  <2>. SUFFICES ASSUME PassInv, [PassNext]_passVars PROVE PassInv'
    OBVIOUS
  <2>1. IInv'
    BY PassStepsLists, NextIInv DEF PassInv
  <2>2. PassTypeOK' /\ PassCalls' /\ ErasedSwept' /\ Iterators'
    BY BuildStep, IteratorStep, RemoveStep, DropStep, DroppedStep DEF PassNext
  <2>. QED
    BY <2>1, <2>2 DEF PassInv
<1>. QED
  BY <1>1, <1>2, PTL DEF PassSpec

\* When the pass is done, its erased statements hold nothing (eraseStatement and
\* dropAllReferences, ast/pass_removeundef.cpp), and no expression that lost its
\* last use holds on to its operands.
THEOREM ErasedTheorem == PassSpec => []ErasedIsDropped
<1>1. PassInv => ErasedIsDropped
  <2>. SUFFICES ASSUME PassInv, phase = "done"
                PROVE  /\ \A u \in Slot : UserOf[u] \in erased => expression[u] = None
                       /\ \A e \in Expr \ fresh : firstUse[e] = None =>
                              \A u \in Slots(e) : expression[u] = None
    BY DEF ErasedIsDropped
  <2>1. Frames(stack) = {} /\ replacing = None
    BY DEF PassInv, PassCalls, Frames
  <2>2. \A u \in Slot : UserOf[u] \in erased => expression[u] = None
    BY <2>1 DEF PassInv, ErasedSwept
  <2>3. Swept /\ Overwritten = {}
    BY AssignmentAssumption DEF PassInv, IInv
  <2>. QED
    BY <2>1, <2>2, <2>3 DEF Swept
<1>. QED
  BY <1>1, PassInvariance, PTL

\* The pass erases only statements that assign undef, and leaves every operand
\* of the other statements in place, whatever the lists it iterates over lose.
THEOREM OnlyUndefTheorem == PassSpec => OnlyUndefErased
<1>. DEFINE Kept == /\ erased' \ erased \subseteq UndefStatements
                    /\ \A u \in Slot : phase # "build" /\ UserOf[u] \in Statement \ erased' =>
                           expression'[u] = expression[u]
<1>1. PassInv /\ [PassNext]_passVars => [Kept]_passVars
  <2>. SUFFICES ASSUME PassInv, PassNext PROVE Kept
    OBVIOUS
  <2>. USE SlotAssumption, AssignmentAssumption
  <2>1. CASE Build
    BY <2>1 DEF Build, pass
  <2>2. CASE doRun \/ NextUse \/ Dropped \/ StatementsDone \/ PassDone \/ Terminated
    BY <2>2 DEF doRun, NextUse, Dropped, StatementsDone, PassDone, Terminated, passVars, vars,
                links, pass
  <2>3. CASE removeStatementUses
    <3>1. /\ expression' = expression
          /\ erased' \ erased \subseteq {UserOf[inner]} \cap Statement
      BY <2>3 DEF removeStatementUses, DropAllReferences, vars, links
    <3>2. /\ inner \in Slot /\ expression[inner] \in Assignment
          /\ expression[Source[expression[inner]]] = undef
      BY <2>3 DEF removeStatementUses, PassInv, PassTypeOK, Iterators
    <3>3. UserOf[inner] \in Statement => UserOf[inner] \in UndefStatements
      BY <3>2 DEF UndefStatements, Slots
    <3>. QED
      BY <3>1, <3>3
  <2>4. CASE Drop
    <3>1. erased' = erased /\ TypeOK /\ WellLinked /\ Calls /\ PassCalls
      BY <2>4 DEF Drop, pass, PassInv, IInv
    <3>2. ASSUME NEW u \in Slot, DropOperand(u), NEW v \in Slot, UserOf[v] \in Statement \ erased
          PROVE  expression'[v] = expression[v]
      <4>1. Head(stack) \in Frames(stack) /\ u \in Head(stack).operands
        BY <3>1, <3>2, StackOfDrop DEF DropOperand
      <4>2. UserOf[u] \in Expr \cup erased
        BY <3>1, <4>1 DEF PassCalls, Calls, Slots
      <4>3. v # u
        BY <3>2, <4>2
      <4>. QED
        BY <3>1, <3>2, <4>3, SetUseHolds DEF DropOperand
    <3>3. CASE DropReturn
      BY <3>1, <3>3 DEF DropReturn, links
    <3>. QED
      BY <2>4, <3>1, <3>2, <3>3 DEF Drop
  <2>. QED
    BY <2>1, <2>2, <2>3, <2>4 DEF PassNext
<1>. QED
  BY <1>1, PassInvariance, PTL DEF PassSpec, OnlyUndefErased

=============================================================================
