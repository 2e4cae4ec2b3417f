----------------------------- MODULE Congruence -----------------------------
(***************************************************************************)
(* AstMergeCongruentVariables (ast/pass_congruence.cpp) and the liveness   *)
(* that it asks for (ast/analysis_liveness.cpp), on the expressions and    *)
(* statements that Translation has made.                                   *)
(*                                                                         *)
(* Calls whose result is used next lose the statement that roots them.     *)
(* Then variables that are assigned to one another are merged if neither   *)
(* is assigned while the other is live.  The merges are done in the order  *)
(* of a hash table, that is in any order.                                  *)
(***************************************************************************)
EXTENDS Translation, SequencesExt

CONSTANT Functions      \* functions in the form that Translation takes

VARIABLES
    fn,         \* the function
    exprs,      \* its expressions
    statements, \* its statements
    mergeList,  \* pairs <<replaced, replacement>> that are still to be merged
    noted,      \* why the pass may have changed what the function does
    phase       \* "translate", "congruence", "merge", and those of AstPrinter

-----------------------------------------------------------------------------
(***************************************************************************)
(* Uses                                                                    *)
(***************************************************************************)
UsesIn(args, e) == Cardinality({i \in DOMAIN args : args[i] = e})

\* The slots of expressions that use e, whether these are printed or not.
ExprUses(e, users) == FoldSet(LAMBDA f, sum : UsesIn(exprs[f].args, e) + sum, 0, users)

RECURSIVE StatementUses(_, _)
StatementUses(list, e) ==
    IF list = <<>> THEN 0
    ELSE LET s == Head(list)
         IN  UsesIn(s.args, e) + StatementUses(Tail(list), e)
             + (CASE s.stmt = "if" -> StatementUses(s.then, e) + StatementUses(s.else, e)
                  [] s.stmt = "loop" -> StatementUses(s.body, e)
                  [] OTHER -> 0)
uses_size(e) == ExprUses(e, DOMAIN exprs) + StatementUses(statements, e)
uses_many(e) == uses_size(e) > 1

\* An expression and those it is made of.
RECURSIVE Closure(_)
Closure(e) == {e} \cup UNION {Closure(exprs[e].args[i]) : i \in DOMAIN exprs[e].args}

\* The expressions that a statement uses; it is one of their getUsingStatements.
Used(s) == UNION {Closure(s.args[i]) : i \in DOMAIN s.args}

-----------------------------------------------------------------------------
(***************************************************************************)
(* LivenessAnalysis                                                        *)
(***************************************************************************)
IsAssign(s) == s.stmt = "expr" /\ Len(s.args) = 2

\* The statements in the order of the text, each with the index behind it, the
\* list it is in and the loops around it, innermost first.
RECURSIVE collectStatementIndices(_, _, _, _)
collectStatementIndices(flat, list, parent, loops) ==
    IF list = <<>> THEN flat
    ELSE LET s == Head(list)
             at == Len(flat) + 1
             begun == Append(flat, [stmt |-> s.stmt, args |-> s.args, end |-> 0, parent |-> parent, loops |-> loops,
                                    post |-> s.stmt = "loop" /\ ~ s.pre])
             inner == CASE s.stmt = "if" ->
                              collectStatementIndices(collectStatementIndices(begun, s.then, <<at, "then">>, loops),
                                                      s.else, <<at, "else">>, loops)
                        [] s.stmt = "loop" -> collectStatementIndices(begun, s.body, <<at, "body">>, <<at>> \o loops)
                        [] OTHER -> begun
         IN  collectStatementIndices([inner EXCEPT ![at].end = Len(inner) + 1], Tail(list), parent, loops)

Flat == collectStatementIndices(<<>>, statements, <<0, "body">>, <<>>)

memoryOperations(flat) == {k \in DOMAIN flat : flat[k].stmt = "expr"}
assignedExpressions(flat) == {flat[k].args[1] : k \in {j \in DOMAIN flat : IsAssign(flat[j])}}

\* The uses and definitions of e by statement, definitions first.  A use in an
\* expression counts for every statement that uses the expression.
usingStatements(flat, e) ==
    FlattenSeq([k \in DOMAIN flat |->
        LET s == flat[k]
            defs == IF IsAssign(s) /\ s.args[1] = e THEN 1 ELSE 0
            uses == UsesIn(s.args, e) - defs + ExprUses(e, Used(s))
        IN  [i \in 1 .. defs + uses |-> [at |-> k, isDef |-> i <= defs]]])

\* previousUseDef # end.  The comparison is the wrong way round for upper_bound,
\* so that it halves the entries down and only looks at the one in the middle;
\* what the comment says is that there is one before.
PreviousFound(entries, k, halved) == entries[IF halved THEN Len(entries) \div 2 + 1 ELSE 1].at < k

\* The entries up to k are the first n.  Of the loops around k the innermost one
\* that has entries before k decides; if k has an entry itself there is none.
liveRangeContains(flat, e, k, halved) ==
    LET entries == usingStatements(flat, e)
        n == Cardinality({i \in DOMAIN entries : entries[i].at <= k})
        After(loop) == {i \in 1 .. n : entries[i].at > loop}
        deciding == SelectSeq(flat[k].loops, LAMBDA loop : After(loop) # {})
    IN  \/ PreviousFound(entries, k, halved) /\ n < Len(entries) /\ ~ entries[n + 1].isDef
        \/ /\ deciding # <<>> /\ entries[n].at < k
           /\ ~ entries[CHOOSE i \in After(deciding[1]) : i - 1 \notin After(deciding[1])].isDef

assignmentAssigns(s, left, right) == IsAssign(s) /\ s.args[1] = left /\ s.args[2] = right

interferenceFree(flat, a, b, halved) ==
    ~ \E k \in DOMAIN flat :
        /\ IsAssign(flat[k]) /\ flat[k].args[1] = b
        /\ ~ assignmentAssigns(flat[k], b, a)
        /\ liveRangeContains(flat, a, k, halved)

congruent(flat, a, b) == interferenceFree(flat, a, b, TRUE) /\ interferenceFree(flat, b, a, TRUE)

-----------------------------------------------------------------------------
(***************************************************************************)
(* The statements that root calls                                          *)
(***************************************************************************)
\* Calls that are used by more than their own statement.
RootedCalls(flat) ==
    {k \in DOMAIN flat : flat[k].stmt = "expr" /\ ~ IsAssign(flat[k]) /\ uses_size(flat[k].args[1]) > 1}

Location(flat, k) == IF flat[k].post THEN flat[k].end ELSE k

\* The first statements to use the call of statement k; there are two if a do
\* loop's condition uses it and what follows as well.
FirstUses(flat, k) ==
    LET users == {j \in DOMAIN flat \ {k} : flat[k].args[1] \in Used(flat[j])}
    IN  {j \in users : \A i \in users : Location(flat, j) <= Location(flat, i)}

\* Nothing else happens to memory before.
NextIsUse(flat, k) ==
    \A m \in memoryOperations(flat) : m > k => \E f \in FirstUses(flat, k) : m >= Location(flat, f)

\* Whether the statement is erased; it depends on the one that is taken for the first.
Erased(flat, k) ==
    IF NextIsUse(flat, k) THEN {flat[f].parent = flat[k].parent : f \in FirstUses(flat, k)} ELSE {FALSE}

RECURSIVE WithoutCalls(_, _)
WithoutCalls(list, calls) ==
    FlattenSeq([i \in DOMAIN list |->
        LET s == list[i]
        IN  CASE s.stmt = "if" -> <<[s EXCEPT !.then = WithoutCalls(@, calls), !.else = WithoutCalls(@, calls)]>>
              [] s.stmt = "loop" -> <<[s EXCEPT !.body = WithoutCalls(@, calls)]>>
              [] OTHER -> IF s.stmt = "expr" /\ Len(s.args) = 1 /\ s.args[1] \in calls THEN <<>> ELSE <<s>>])

-----------------------------------------------------------------------------
(***************************************************************************)
(* Merging                                                                 *)
(***************************************************************************)
\* Of the variables there are only those of allocas are addressable; a location
\* in memory is.
isExpressionAddressable(e) == exprs[e].kind # "assignable" \/ exprs[e].op = "alloca"

candidateSet(flat) ==
    {p \in {flat[k].args : k \in {j \in DOMAIN flat : IsAssign(flat[j])}} :
        p[1] # p[2] /\ p[2] \in assignedExpressions(flat)}

Merges(flat) ==
    LET chosen == {p \in candidateSet(flat) : congruent(flat, p[1], p[2])}
        first == {p \in chosen : ~ isExpressionAddressable(p[1])}
    IN  first \cup {<<p[2], p[1]>> : p \in {q \in chosen \ first : ~ isExpressionAddressable(q[2])}}

Renamed(x, a, b) == IF x = a THEN b ELSE x
InArgs(args, a, b) == [i \in DOMAIN args |-> Renamed(args[i], a, b)]

\* mergeVariables in the statements: assignments of b to itself go.
RECURSIVE InStatements(_, _, _)
InStatements(list, a, b) ==
    FlattenSeq([i \in DOMAIN list |->
        LET s == [list[i] EXCEPT !.args = InArgs(@, a, b)]
        IN  CASE s.stmt = "if" -> <<[s EXCEPT !.then = InStatements(@, a, b), !.else = InStatements(@, a, b)]>>
              [] s.stmt = "loop" -> <<[s EXCEPT !.body = InStatements(@, a, b)]>>
              [] OTHER -> IF IsAssign(s) /\ s.args = <<b, b>> THEN <<>> ELSE <<s>>])

-----------------------------------------------------------------------------
(***************************************************************************)
(* What the pass is known to get wrong                                     *)
(***************************************************************************)
\* Variables that end up as one, through pairs that have them in common.
RECURSIVE Together(_, _)
Together(merges, class) ==
    LET more == class \cup UNION {{p[1], p[2]} : p \in {q \in merges : q[1] \in class \/ q[2] \in class}}
    IN  IF more = class THEN class ELSE Together(merges, more)

\* "ranges": two variables become one although the analysis, as the comment has
\* it, says that one is assigned while the other is live; either the range is
\* not seen because it begins in the first half of the entries, or the two have
\* not been compared.
\* "do": the condition of a do loop counts as a use where the loop begins.
\* "memory": a variable is merged with a location in memory.
\* "ternary": the call moves to where it is made under a condition only.
\* "loop": the call moves into the condition of a loop, where it is repeated.
Deviations(flat, merges, erased) ==
    LET merged == UNION {{p[1], p[2]} : p \in merges}
        Free(a, b) == interferenceFree(flat, a, b, FALSE)
        Ternaries == {e \in DOMAIN exprs : exprs[e].kind = "ternary"}
    IN  {d \in {"ranges", "do", "memory", "ternary", "loop"} :
            CASE d = "ranges" -> \E a \in merged : \E b \in Together(merges, {a}) \ {a} : ~ Free(a, b)
              [] d = "do" -> \E k \in DOMAIN flat : flat[k].post /\ Used(flat[k]) \cap merged # {}
              [] d = "memory" -> \E a \in merged : exprs[a].kind # "assignable"
              [] d = "ternary" -> \E e \in Ternaries : \E i \in {2, 3} : Closure(exprs[e].args[i]) \cap erased # {}
              [] OTHER -> \E k \in DOMAIN flat : flat[k].stmt = "loop" /\ Used(flat[k]) \cap erased # {}}

-----------------------------------------------------------------------------
(***************************************************************************)
(* Actions                                                                 *)
(***************************************************************************)
\* doRun up to the merges.  The liveness is that of before, and so is the list.
EraseRoots ==
    /\ phase = "congruence"
    /\ \E flat \in {Flat} : \E calls \in {RootedCalls(flat)} :
          /\ \A k \in calls : NextIsUse(flat, k) => FirstUses(flat, k) # {}
          /\ \E erased \in {{flat[k].args[1] : k \in ks} :
                            ks \in {ks \in SUBSET calls : \A k \in calls : (k \in ks) \in Erased(flat, k)}} :
                \E merges \in {Merges(flat)} :
                   /\ statements' = WithoutCalls(statements, erased)
                   /\ mergeList' = merges
                   /\ noted' = Deviations(flat, merges, erased)
    /\ phase' = "merge"
    /\ UNCHANGED <<fn, exprs>>

\* firstUse is null for a call that only unused expressions use.
NoFirstUse ==
    /\ phase = "congruence"
    /\ \E flat \in {Flat} : \E k \in RootedCalls(flat) : NextIsUse(flat, k) /\ FirstUses(flat, k) = {}
    /\ phase' = "crashed"
    /\ UNCHANGED <<fn, exprs, statements, mergeList, noted>>

\* The list refers to expressions through uses, which are replaced as well.
MergeVariables ==
    /\ phase = "merge"
    /\ \E p \in mergeList :
          LET rest == {<<Renamed(q[1], p[1], p[2]), Renamed(q[2], p[1], p[2])>> : q \in mergeList \ {p}}
          IN  /\ mergeList' = {q \in rest : q[1] # q[2]}
              /\ exprs' = [e \in DOMAIN exprs |-> [exprs[e] EXCEPT !.args = InArgs(@, p[1], p[2])]]
              /\ statements' = InStatements(statements, p[1], p[2])
    /\ UNCHANGED <<fn, noted, phase>>
=============================================================================
