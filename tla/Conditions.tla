----------------------------- MODULE Conditions -----------------------------
(***************************************************************************)
(* The conditions with which the structurizer (ast/pass_backend.cpp)       *)
(* replaces branches: sequences of literals that foldBasicBlocks factors   *)
(* into nested if statements, and that createDisjunction simplifies.       *)
(*                                                                         *)
(* A literal is a record [atom, negated].  An atom is an expression that   *)
(* the program evaluates, told apart by its address.                       *)
(***************************************************************************)
EXTENDS Naturals, FiniteSets, FiniteSetsExt, SequencesExt, Ordering

CONSTANT Shape   \* what Expression::operator== sees of an atom

\* derefEqual compares structure: Expression::defaultEqualityCheck.
derefEqual(a, b) == a.negated = b.negated /\ Shape[a.atom] = Shape[b.atom]

\* areOpposites compares pointers.
areOpposites(a, b) == a.atom = b.atom /\ a.negated # b.negated

-----------------------------------------------------------------------------
(***************************************************************************)
(* createDisjunction                                                       *)
(***************************************************************************)
\* What the code takes for the index that has just left largerConjunctions: the
\* one after it, since the iterator has moved on.  Past the end it reads what
\* the erased last element has left in the vector.
NextSizeOne(larger, k) ==
    LET later == {j \in larger : j > k} IN IF later = {} THEN k ELSE Min(later)

\* The first opposite of a condition is erased.
EraseOpposite(term, one) ==
    LET hits == {j \in DOMAIN term : areOpposites(one, term[j])}
    IN  IF hits = {} THEN term ELSE RemoveAt(term, Min(hits))

\* A round of the do loop: the last of sizeOneConjunctions is removed, and the
\* opposite of its condition is erased from every larger conjunction.
Sweep(s) ==
    LET one     == Head(s.conj[Last(s.ones)])
        erased  == [k \in DOMAIN s.conj |-> IF k \in s.larger THEN EraseOpposite(s.conj[k], one) ELSE s.conj[k]]
        singles == {k \in s.larger : erased[k] # s.conj[k] /\ Len(erased[k]) = 1}
        pushed  == Ascending(singles)
    IN  [conj   |-> erased,
         ones   |-> Front(s.ones) \o [i \in DOMAIN pushed |-> NextSizeOne(s.larger, pushed[i])],
         larger |-> s.larger \ singles]

SweepUnlessDone(s) == IF s.ones = <<>> THEN s ELSE Sweep(s)

SizeOne(terms) == {k \in DOMAIN terms : Len(terms[k]) = 1}

\* The whole loop.  An index is in sizeOneConjunctions once at most for every
\* one that it starts with or that leaves largerConjunctions.
Reduce(terms) ==
    LET after[n \in Nat] ==
            IF n = 0 THEN [conj |-> terms, ones |-> Ascending(SizeOne(terms)), larger |-> DOMAIN terms \ SizeOne(terms)]
            ELSE SweepUnlessDone(after[n - 1])
    IN  after[Cardinality(DOMAIN terms)]

\* Conditions that occur in all larger conjunctions.
CommonSubExpressions(conj, larger) ==
    {lit \in UNION {ToSet(conj[k]) : k \in larger} : \A k \in larger : lit \in ToSet(conj[k])}

Without(term, common) ==
    LET upto[n \in 0 .. Len(term)] ==
            IF n = 0 THEN <<>>
            ELSE IF term[n] \in common THEN upto[n - 1] ELSE Append(upto[n - 1], term[n])
    IN  upto[Len(term)]

\* What a call of createDisjunction makes of its terms: conjunctions and, if some
\* conditions are common to the larger ones, their conjunction with what the
\* call for the rest makes.
Level(terms) ==
    LET reduced == Reduce(terms)
        conj    == reduced.conj
        larger  == reduced.larger
        common  == CommonSubExpressions(conj, larger)
    IN  IF SizeOne(terms) # {} /\ Cardinality(larger) > 1 /\ common # {}
        THEN [plain  |-> {conj[k] : k \in DOMAIN conj \ larger},
              common |-> common,
              rest   |-> [k \in larger |-> Without(conj[k], common)]]
        ELSE [plain |-> Range(conj), common |-> {}, rest |-> <<>>]

\* The conjunctions in terms, by their indices in inputConjunctions.  There are
\* fewer in every further call; one for no terms at all adds nothing.
createDisjunction(terms) ==
    LET call[n \in Nat] == IF n = 0 THEN Level(terms) ELSE Level(call[n - 1].rest)
    IN  [n \in 1 .. Cardinality(DOMAIN terms) |-> [plain |-> call[n - 1].plain, common |-> call[n - 1].common]]

-----------------------------------------------------------------------------
(***************************************************************************)
(* foldBasicBlocks: the if statements around a block                       *)
(***************************************************************************)
\* The length of the prefix or suffix that a path shares with the first path.
CommonPrefix(a, b) ==
    Max({n \in 0 .. Min({Len(a), Len(b)}) : \A i \in 1 .. n : derefEqual(a[i], b[i])})
CommonSuffix(a, b) == CommonPrefix(Reverse(a), Reverse(b))

\* The if statements around a block: the common prefix, the common suffix and
\* the disjunction of what is left of each path.  A path of which nothing is
\* left has no term in the disjunction.  The terms are taken from the last path on.
Nest(paths) ==
    LET front  == Head(paths)
        prefix == Min({CommonPrefix(front, paths[i]) : i \in DOMAIN paths})
        suffix == IF prefix = Len(front) THEN 0
                  ELSE Min({CommonSuffix(front, paths[i]) : i \in DOMAIN paths})
        parts  == [i \in DOMAIN paths |-> SubSeq(paths[i], prefix + 1, Len(paths[i]) - suffix)]
        n      == Len(paths)
        terms  == [i \in {j \in DOMAIN paths : parts[n + 1 - j] # <<>>} |-> parts[n + 1 - i]]
    IN  [common |-> SubSeq(front, 1, prefix) \o SubSeq(front, Len(front) - suffix + 1, Len(front)),
         rest   |-> IF DOMAIN terms = {} THEN <<>> ELSE <<createDisjunction(terms)>>]

-----------------------------------------------------------------------------
(***************************************************************************)
(* What conditions mean                                                    *)
(***************************************************************************)
\* Whether the if statements execute their block, given the values of the atoms.
Holds(lit, value) == value[lit.atom] # lit.negated
HoldsAll(term, value) == \A i \in DOMAIN term : Holds(term[i], value)
HoldsDisjunction(d, value) ==
    \E n \in DOMAIN d :
        /\ \A m \in 1 .. (n - 1) : \A lit \in d[m].common : Holds(lit, value)
        /\ \E term \in d[n].plain : HoldsAll(term, value)
Guarded(nest, value) ==
    /\ HoldsAll(nest.common, value)
    /\ nest.rest # <<>> => HoldsDisjunction(nest.rest[1], value)

=============================================================================
