---------------------------- MODULE StatementSeq ----------------------------
(***************************************************************************)
(* What StatementList (ast/statements.h) promises: every body of the AST   *)
(* is a sequence of statements, and its operations are those of sequences. *)
(***************************************************************************)
EXTENDS Naturals, FiniteSets, SequencesExt

CONSTANTS
    Statement,   \* statements
    List,        \* bodies of statements and StatementReferences
    Owner,       \* StatementList::parent, None for a StatementReference
    None         \* nullptr

VARIABLE items   \* the statements of each list, in order

Held == UNION {ToSet(items[l]) : l \in List}

\* The lists within some lists, through the bodies of their statements.
Bodies(S) == {l \in List : Owner[l] \in S}
Within(L, contents) ==
    {l \in List : \A W \in SUBSET List :
        L \subseteq W /\ Bodies(UNION {ToSet(contents[k]) : k \in W}) \subseteq W => l \in W}

Emptied(L, contents) == [l \in List |-> IF l \in Within(L, contents) THEN <<>> ELSE contents[l]]

Init == items = [l \in List |-> <<>>]

\* A statement joins a list that is not part of it.
Insert(l, i, s) ==
    /\ s \notin Held
    /\ l \notin Within(Bodies({s}), items)
    /\ items' = [items EXCEPT ![l] = InsertAt(@, i + 1, s)]

Erase(l, i) == items' = [items EXCEPT ![l] = RemoveAt(@, i)]

\* All statements of a list move into another, at some position.
Splice(to, i, from) ==
    /\ to \notin Within({from}, items)
    /\ items' = [items EXCEPT ![to] = SubSeq(@, 1, i) \o items[from] \o SubSeq(@, i + 1, Len(@)),
                              ![from] = <<>>]

\* All statements of a list take the place of those of another, which are
\* cleared.  They may come from a body of a statement that is replaced.
Replace(to, from) ==
    /\ to \notin Within({from}, items)
    /\ items' = [Emptied({to}, [items EXCEPT ![from] = <<>>]) EXCEPT ![to] = items[from]]

\* A list, or the bodies of a statement, lose all statements they contain.
Clear(L) == items' = Emptied(L, items)

Next ==
    \/ \E l \in List, s \in Statement : \E i \in 0 .. Len(items[l]) : Insert(l, i, s)
    \/ \E l \in List : \E i \in 1 .. Len(items[l]) : Erase(l, i)
    \/ \E to, from \in List : \E i \in 0 .. Len(items[to]) : Splice(to, i, from)
    \/ \E to, from \in List : Replace(to, from)
    \/ \E l \in List : Clear({l})
    \/ \E s \in Statement : Clear(Bodies({s}))

Spec == Init /\ [][Next]_items

=============================================================================
