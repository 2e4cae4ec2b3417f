---------------------------- MODULE StatementList ---------------------------
(***************************************************************************)
(* The lists of statements of the AST (ast/statements.cpp): statements     *)
(* that are linked to each other and know the list they are in, so that a  *)
(* pass can take a statement out of the tree without knowing where it is.  *)
(*                                                                         *)
(* The operations are functions of the heap, in which a loop of the code   *)
(* is the repetition of its body; an action is one call by a pass.         *)
(***************************************************************************)
EXTENDS Naturals, FiniteSets, Sequences, Functions

CONSTANTS Statement, List, Owner, None,
          MaxReplaced   \* the most statements operator= may find in its target

ASSUME TreeAssumption ==
    /\ IsFiniteSet(Statement) /\ IsFiniteSet(List)
    /\ None \notin Statement /\ None \notin List
    /\ Owner \in [List -> Statement \cup {None}]

\* operator= is right for these, and the passes call it for no others.
ASSUME ReplacedAssumption == MaxReplaced \in {0, 1}

VARIABLE heap   \* the members of all statements and lists

\* Statement::{list, previous, next} and StatementList::{first, last}
Heap == [list : [Statement -> List \cup {None}],
         previous : [Statement -> Statement \cup {None}],
         next : [Statement -> Statement \cup {None}],
         first : [List -> Statement \cup {None}],
         last : [List -> Statement \cup {None}]]

-----------------------------------------------------------------------------
(***************************************************************************)
(* One statement                                                           *)
(***************************************************************************)
Detached(h, s) ==
    [h EXCEPT !.list[s] = None, !.previous[s] = None, !.next[s] = None]

pop_front(h, l) ==
    LET result == h.first[l]
        second == h.next[result]
    IN  Detached(IF second = None
                 THEN [h EXCEPT !.first[l] = second, !.last[l] = None]
                 ELSE [h EXCEPT !.first[l] = second, !.previous[second] = None], result)

pop_back(h, l) ==
    LET result == h.last[l]
        second == h.previous[result]
    IN  Detached(IF second = None
                 THEN [h EXCEPT !.last[l] = second, !.first[l] = None]
                 ELSE [h EXCEPT !.last[l] = second, !.next[second] = None], result)

push_front(h, l, s) ==
    LET old == h.first[l]
    IN  IF old = None
        THEN [h EXCEPT !.list[s] = l, !.last[l] = s, !.first[l] = s]
        ELSE [h EXCEPT !.list[s] = l, !.previous[old] = s, !.next[s] = old, !.first[l] = s]

push_back(h, l, s) ==
    LET old == h.last[l]
    IN  IF old = None
        THEN [h EXCEPT !.list[s] = l, !.first[l] = s, !.last[l] = s]
        ELSE [h EXCEPT !.list[s] = l, !.next[old] = s, !.previous[s] = old, !.last[l] = s]

\* Before a statement of the list, or at its end.
insert(h, l, at, s) ==
    CASE at = None -> push_back(h, l, s)
      [] at # None /\ h.previous[at] = None -> push_front(h, l, s)
      [] OTHER -> [h EXCEPT !.list[s] = l, !.next[h.previous[at]] = s, !.previous[at] = s,
                            !.previous[s] = h.previous[at], !.next[s] = at]

\* Mutant: the erased statement still knows its neighbours.
eraseKeepsLinks(h, s) ==
    LET l       == h.list[s]
        oldPrev == h.previous[s]
        oldNext == h.next[s]
        ahead   == IF oldPrev = None THEN [h EXCEPT !.first[l] = oldNext]
                                     ELSE [h EXCEPT !.next[oldPrev] = oldNext]
        behind  == IF oldNext = None THEN [ahead EXCEPT !.last[l] = oldPrev]
                                     ELSE [ahead EXCEPT !.previous[oldNext] = oldPrev]
    IN  [behind EXCEPT !.list[s] = None]

erase(h, s) ==
    LET l       == h.list[s]
        oldPrev == h.previous[s]
        oldNext == h.next[s]
        ahead   == IF oldPrev = None THEN [h EXCEPT !.first[l] = oldNext]
                                     ELSE [h EXCEPT !.next[oldPrev] = oldNext]
        behind  == IF oldNext = None THEN [ahead EXCEPT !.last[l] = oldPrev]
                                     ELSE [ahead EXCEPT !.previous[oldNext] = oldPrev]
    IN  Detached(behind, s)

-----------------------------------------------------------------------------
(***************************************************************************)
(* Whole lists                                                             *)
(***************************************************************************)
\* What n rounds of a loop make of what it starts with.  A loop that has ended
\* changes nothing.
Repeat(round, n, start) ==
    LET after[m \in Nat] == IF m = 0 THEN start ELSE round[after[m - 1]]
    IN  after[n]

\* Mutant: the statements are taken from the front.
push_front_all_reversed(h, l, that) ==
    Repeat([g \in Heap |-> IF g.first[that] = None THEN g ELSE push_front(pop_front(g, that), l, g.first[that])],
           Cardinality(Statement), h)

push_front_all(h, l, that) ==
    Repeat([g \in Heap |-> IF g.first[that] = None THEN g ELSE push_front(pop_back(g, that), l, g.last[that])],
           Cardinality(Statement), h)

push_back_all(h, l, that) ==
    Repeat([g \in Heap |-> IF g.first[that] = None THEN g ELSE push_back(pop_front(g, that), l, g.first[that])],
           Cardinality(Statement), h)

insert_all(h, l, at, that) ==
    Repeat([g \in Heap |-> IF g.first[that] = None THEN g ELSE insert(erase(g, g.first[that]), l, at, g.first[that])],
           Cardinality(Statement), h)

\* The statements an iteration meets, from first on or from last backwards.  It
\* is cut short when it meets more statements than there are.
Walk(from, link) ==
    LET at[n \in Nat] == IF n = 0 THEN from ELSE IF at[n - 1] = None THEN None ELSE link[at[n - 1]]
    IN  [i \in 1 .. Cardinality({n \in 0 .. Cardinality(Statement) : at[n] # None}) |-> at[i - 1]]

\* The lists that dropAllStatementReferences clears.
Bodies(S) == {l \in List : Owner[l] \in S}

\* The loop of clear over one list, which reads the successor of a statement before it detaches
\* it.  The bodies of the statements are to be cleared as well.  They are other parts of the tree:
\* whether that happens before a statement is detached or afterwards makes no difference.
clearRound ==
    [c \in [heap : Heap, todo : SUBSET List] |->
        IF c.todo = {} THEN c
        ELSE LET h == c.heap
                 l == CHOOSE b \in c.todo : TRUE
                 met == Range(Walk(h.first[l], h.next))
             IN  [heap |-> [list |-> [s \in Statement |-> IF s \in met THEN None ELSE h.list[s]],
                            previous |-> [s \in Statement |-> IF s \in met THEN None ELSE h.previous[s]],
                            next |-> [s \in Statement |-> IF s \in met THEN None ELSE h.next[s]],
                            first |-> [h.first EXCEPT ![l] = None],
                            last |-> [h.last EXCEPT ![l] = None]],
                  todo |-> (c.todo \ {l}) \cup Bodies(met)]]

\* Every list of a tree is cleared once.
clearAll(h, lists) == Repeat(clearRound, Cardinality(List), [heap |-> h, todo |-> lists]).heap

clear(h, l) == clearAll(h, {l})
dropAllReferences(h, s) == clearAll(h, Bodies({s}))

\* The loops of operator=.  The second one goes on from a statement that is
\* already detached: it ends after the first of the old statements.
adopt(h, l, from) ==
    [h EXCEPT !.list = [s \in Statement |-> IF s \in Range(Walk(from, h.next)) THEN l ELSE @[s]]]
discard(h, s) == IF s = None THEN h ELSE Detached(dropAllReferences(h, s), s)

\* operator=(StatementList&&), and the constructors that take a list.
assign(h, l, that) ==
    LET moved == [h EXCEPT !.first[l] = h.first[that], !.last[l] = h.last[that],
                           !.first[that] = None, !.last[that] = None]
    IN  discard(adopt(moved, l, moved.first[l]), h.first[l])

-----------------------------------------------------------------------------
(***************************************************************************)
(* The calls of the passes                                                 *)
(***************************************************************************)
Members(l) == {s \in Statement : heap.list[s] = l}

\* The statements a list is part of: its parent, the parent of the list that
\* one is in, and so on.
Parents(h, l) ==
    {s \in Statement : \A P \in SUBSET Statement :
        /\ Owner[l] \in P \cup {None}
        /\ \A p \in P : h.list[p] # None => Owner[h.list[p]] \in P \cup {None}
        => s \in P}

\* A statement, or the statements of a list, may join a list: the asserts of
\* push_front, push_back and insert, and the AST stays a tree.
MayJoin(l, s) == heap.list[s] = None /\ s \notin Parents(heap, l)
MayMove(l, that) == l # that /\ Members(that) \cap Parents(heap, l) = {}

Init ==
    heap = [list |-> [s \in Statement |-> None],
            previous |-> [s \in Statement |-> None],
            next |-> [s \in Statement |-> None],
            first |-> [l \in List |-> None],
            last |-> [l \in List |-> None]]

PushFront(l, s) == MayJoin(l, s) /\ heap' = push_front(heap, l, s)
PushBack(l, s) == MayJoin(l, s) /\ heap' = push_back(heap, l, s)
Insert(l, at, s) ==
    /\ MayJoin(l, s)
    /\ at # None => heap.list[at] = l
    /\ heap' = insert(heap, l, at, s)

PopFront(l) == heap.first[l] # None /\ heap' = pop_front(heap, l)
PopBack(l) == heap.first[l] # None /\ heap' = pop_back(heap, l)
Erase(s) == heap.list[s] # None /\ heap' = erase(heap, s)

PushFrontAll(l, that) == MayMove(l, that) /\ heap' = push_front_all(heap, l, that)
PushBackAll(l, that) == MayMove(l, that) /\ heap' = push_back_all(heap, l, that)
InsertAll(at, that) ==
    /\ heap.list[at] # None
    /\ MayMove(heap.list[at], that)
    /\ heap' = insert_all(heap, heap.list[at], at, that)

\* The passes only assign to lists that are empty or have one statement.
Assign(l, that) ==
    /\ MayMove(l, that)
    /\ Cardinality(Members(l)) <= MaxReplaced
    /\ heap' = assign(heap, l, that)

Clear(l) == heap' = clear(heap, l)
DropAllReferences(s) == heap' = dropAllReferences(heap, s)

Next ==
    \/ \E l \in List, s \in Statement : PushFront(l, s) \/ PushBack(l, s)
    \/ \E l \in List, s \in Statement, at \in Statement \cup {None} : Insert(l, at, s)
    \/ \E l \in List : PopFront(l) \/ PopBack(l) \/ Clear(l)
    \/ \E s \in Statement : Erase(s) \/ DropAllReferences(s)
    \/ \E l, that \in List : PushFrontAll(l, that) \/ PushBackAll(l, that) \/ Assign(l, that)
    \/ \E at \in Statement, that \in List : InsertAll(at, that)

Spec == Init /\ [][Next]_heap

-----------------------------------------------------------------------------
(***************************************************************************)
(* Properties                                                              *)
(***************************************************************************)
\* The members of statements.h point to statements and lists.
TypeOK == heap \in Heap

\* What the lists hold.
ContentsOf(h) == [l \in List |-> Walk(h.first[l], h.next)]
Contents == ContentsOf(heap)

\* The five kinds of pointers agree.  Going backwards visits the same statements
\* in the opposite order; a statement knows the list it is in, on which erase,
\* insert and getParent rely; and one that is in no list has no neighbours, as
\* push_front and push_back assert.
WellLinked ==
    /\ \A l \in List :
          LET n == Len(Contents[l]) IN
          Walk(heap.last[l], heap.previous) = [i \in 1 .. n |-> Contents[l][n + 1 - i]]
    /\ \A s \in Statement, l \in List :
          heap.list[s] = l <=> \E i \in DOMAIN Contents[l] : Contents[l][i] = s
    /\ \A s \in Statement : heap.list[s] = None => heap.previous[s] = None /\ heap.next[s] = None

\* The lists behave as sequences of statements.
Sequences_ == INSTANCE StatementSeq WITH items <- Contents
ActsAsSequences == Sequences_!Spec

=============================================================================
