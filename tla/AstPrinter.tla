----------------------------- MODULE AstPrinter -----------------------------
(***************************************************************************)
(* StatementPrintVisitor (ast/print.cpp, ast/print_item.cpp): statements   *)
(* become lines in nested scopes.  An expression that is used many times   *)
(* is given to a variable on the line where it is first met; declarations  *)
(* are put in when everything has been printed.                            *)
(*                                                                         *)
(* A text is a tree, made of what a C compiler sees in the printed line.   *)
(* `out' is the stack of texts that have been printed and are not part of  *)
(* a line yet.  A printed item is <<"line", n>> or <<"scope", n>>.         *)
(***************************************************************************)
EXTENDS Congruence

VARIABLES
    todo,       \* statements that are still to be printed
    printer     \* the members of StatementPrintVisitor

vars == <<fn, exprs, statements, mergeList, noted, todo, printer, phase>>

NoPrinter ==
    [scopes |-> <<[parent |-> 0, kind |-> "root", cond |-> <<>>, items |-> <<>>, declared |-> <<>>]>>,
     current |-> 1, lines |-> <<>>, tokens |-> <<>>, orderedTokens |-> <<>>, usedByStatement |-> <<>>,
     out |-> <<>>]

operatorPrecedence ==
    [AddressOf |-> 2, Dereference |-> 2, ArithmeticNegate |-> 2, LogicalNegate |-> 2, BinaryNegate |-> 2,
     Multiply |-> 3, Divide |-> 3, Modulus |-> 3, Add |-> 4, Subtract |-> 4, ShiftLeft |-> 5,
     ShiftRight |-> 5, SmallerThan |-> 6, SmallerOrEqualTo |-> 6, GreaterThan |-> 6,
     GreaterOrEqualTo |-> 6, Equal |-> 7, NotEqual |-> 7, BitwiseAnd |-> 8, BitwiseXor |-> 9,
     BitwiseOr |-> 10, Assign |-> 13]
ternaryPrecedence == 13
IsComparison(op) == operatorPrecedence[op] \in {6, 7}

\* An operand of the same level goes without, on either side.
needsParentheses(precedence, e) ==
    CASE exprs[e].kind \in {"nary", "unary"} -> operatorPrecedence[exprs[e].op] > precedence
      [] exprs[e].kind = "ternary" -> ternaryPrecedence > precedence
      [] OTHER -> FALSE

\* Mutant: comparisons are given to variables as well.
shouldReduceIntoTokenAll(e) ==
    CASE exprs[e].kind = "assignable" -> TRUE
      [] exprs[e].kind \in {"token", "numeric"} -> FALSE
      [] OTHER -> uses_many(e)

shouldReduceIntoToken(e) ==
    CASE exprs[e].kind = "assignable" -> TRUE
      [] exprs[e].kind \in {"token", "numeric"} -> FALSE
      [] exprs[e].kind = "unary" -> uses_many(e) /\ exprs[exprs[e].args[1]].kind = "call"
      [] exprs[e].kind = "nary" -> ~ IsComparison(exprs[e].op) /\ uses_many(e)
      [] OTHER -> uses_many(e)

-----------------------------------------------------------------------------
(***************************************************************************)
(* Texts.  Binary operators that are printed without parentheses between   *)
(* them are one chain, whatever expressions they come from.                *)
(***************************************************************************)
Var(e) == [text |-> "var", e |-> e]
Chain(first, rest) == [text |-> "chain", first |-> first, rest |-> rest]
FirstOf(t) == IF t.text = "chain" THEN t.first ELSE t
RestOf(t) == IF t.text = "chain" THEN t.rest ELSE <<>>

ChainText(op, l, r) == Chain(FirstOf(l), RestOf(l) \o <<<<op, FirstOf(r)>>>> \o RestOf(r))

RECURSIVE TernaryText(_, _, _)
TernaryText(c, t, f) ==
    IF c.text = "ternary" THEN [c EXCEPT !.args[3] = TernaryText(c.args[3], t, f)]
    ELSE [text |-> "ternary", args |-> <<c, t, f>>]

\* There is nothing between two signs: together they are one operator.
UnaryText(op, t) ==
    LET first == FirstOf(t)
        unary == IF op = "ArithmeticNegate" /\ first.text = "unary" /\ first.op = op
                 THEN [text |-> "unary", op |-> "Decrement", arg |-> first.arg]
                 ELSE [text |-> "unary", op |-> op, arg |-> first]
    IN  IF t.text = "chain" THEN Chain(unary, t.rest) ELSE unary

TextOf(e, texts) ==
    CASE exprs[e].kind \in {"token", "numeric"} -> [text |-> exprs[e].kind, e |-> e]
      [] exprs[e].kind = "unary" -> UnaryText(exprs[e].op, texts[1])
      [] exprs[e].kind = "nary" -> ChainText(exprs[e].op, texts[1], texts[2])
      [] exprs[e].kind = "ternary" -> TernaryText(texts[1], texts[2], texts[3])
      [] OTHER -> [text |-> "call", args |-> texts]

-----------------------------------------------------------------------------
(***************************************************************************)
(* Printing, with the printer as argument and result                       *)
(***************************************************************************)
Top(p) == p.out[Len(p.out)]
Pop(p) == [p EXCEPT !.out = SubSeq(@, 1, Len(@) - 1)]

appendItem(p, item) == [p EXCEPT !.scopes[p.current].items = Append(@, item)]
AppendLine(p, var, text) ==
    appendItem([p EXCEPT !.lines = Append(@, [scope |-> p.current, var |-> var, text |-> text, declares |-> FALSE])],
               <<"line", Len(p.lines) + 1>>)

\* Mutant: only the last of the expressions gets the user.
fillUsersLast(p, user) ==
    LET n == Len(p.usedByStatement)
    IN  [p EXCEPT !.tokens = [e \in DOMAIN p.tokens |->
                                 p.tokens[e] \o IF n > 0 /\ e = p.usedByStatement[n] THEN <<user>> ELSE <<>>],
                  !.usedByStatement = <<>>]

\* An expression that has been used twice gets the user twice.
fillUsers(p, user) ==
    [p EXCEPT !.tokens = [e \in DOMAIN p.tokens |->
                             p.tokens[e] \o [i \in 1 .. UsesIn(p.usedByStatement, e) |-> user]],
              !.usedByStatement = <<>>]

RECURSIVE VisitExpression(_, _)
RECURSIVE VisitOperands(_, _, _)

\* printWithParentheses of one operand after the other.
VisitOperands(p, precedence, args) ==
    IF args = <<>> THEN p
    ELSE The({VisitOperands(
                  IF /\ precedence < 99 /\ needsParentheses(precedence, Head(args))
                     /\ Head(args) \notin DOMAIN q.tokens
                  THEN [q EXCEPT !.out[Len(q.out)] = [text |-> "paren", arg |-> Top(q)]] ELSE q,
                  precedence, Tail(args)) : q \in {VisitExpression(p, Head(args))}})

\* The visit of an expression that is no variable.  Parameters of calls are
\* never in parentheses.
VisitBody(p, e) ==
    LET precedence == CASE exprs[e].kind \in {"unary", "nary"} -> operatorPrecedence[exprs[e].op]
                        [] exprs[e].kind = "ternary" -> ternaryPrecedence
                        [] OTHER -> 99
        n == Len(exprs[e].args)
    IN  The({[q EXCEPT !.out = Append(SubSeq(@, 1, Len(@) - n),
                                      TextOf(e, SubSeq(@, Len(@) - n + 1, Len(@))))] :
             q \in {VisitOperands(p, precedence, exprs[e].args)}})

NewToken(p, e) == [p EXCEPT !.tokens = e :> <<>> @@ @, !.orderedTokens = Append(@, e)]

\* The variable of an expression, which the first visit assigns.
getIdentifier(p, e) ==
    IF e \in DOMAIN p.tokens THEN p
    ELSE IF exprs[e].kind = "assignable" THEN NewToken(p, e)
    ELSE The({fillUsers([AppendLine(Pop(q), e, Top(q)) EXCEPT !.usedByStatement = Append(@, e)],
                        <<"line", Len(q.lines) + 1>>) : q \in {VisitBody(NewToken(p, e), e)}})

VisitExpression(p, e) ==
    IF shouldReduceIntoToken(e)
    THEN The({[q EXCEPT !.usedByStatement = Append(@, e), !.out = Append(@, Var(e))] : q \in {getIdentifier(p, e)}})
    ELSE VisitBody(p, e)

-----------------------------------------------------------------------------
RECURSIVE VisitStatement(_, _)
RECURSIVE VisitAll(_, _)
RECURSIVE VisitElse(_, _, _)

VisitAll(p, list) ==
    IF list = <<>> THEN p
    ELSE The({VisitAll(q, Tail(list)) : q \in {VisitStatement(p, Head(list))}})

NewScope(p, kind, cond) ==
    [p EXCEPT !.scopes = Append(@, [parent |-> p.current, kind |-> kind, cond |-> cond,
                                    items |-> <<>>, declared |-> <<>>])]

\* The list is printed in a scope of its own, then the scope is appended.
VisitInScope(p, scope, list) ==
    The({appendItem([q EXCEPT !.current = p.current], <<"scope", scope>>) :
         q \in {VisitAll([p EXCEPT !.current = scope], list)}})

\* An if, and the ifs that are alone in its else.
VisitElse(p, s, kind) ==
    LET Body(q) == LET scope == Len(q.scopes) + 1
                   IN  VisitInScope(fillUsers(NewScope(Pop(q), kind, Top(q)), <<"scope", scope>>), scope, s.then)
    IN  The({IF Len(s.else) = 1 /\ s.else[1].stmt = "if" THEN VisitElse(q, s.else[1], "elseif")
             ELSE IF s.else = <<>> THEN q
             ELSE VisitInScope(NewScope(q, "else", <<>>), Len(q.scopes) + 1, s.else) :
             q \in {Body(r) : r \in {VisitExpression(p, s.args[1])}}})

\* The lines that compute the condition are before a while loop, and in the body
\* of a do loop.
visitLoop(p, s) ==
    IF s.pre
    THEN The({VisitInScope(fillUsers(NewScope(Pop(q), "while", Top(q)), <<"scope", Len(q.scopes) + 1>>),
                           Len(q.scopes) + 1, s.body) : q \in {VisitExpression(p, s.args[1])}})
    ELSE LET scope == Len(p.scopes) + 1
         IN  The({appendItem(fillUsers([Pop(q) EXCEPT !.scopes[scope].cond = Top(q), !.current = p.current],
                                       <<"scope", scope>>), <<"scope", scope>>) :
                  q \in {VisitExpression(r, s.args[1]) :
                         r \in {VisitAll([NewScope(p, "do", <<>>) EXCEPT !.current = scope], s.body)}}})

\* Mutant: a statement that prints nothing keeps the uses for the next line.
visitExprKeeps(p, s) ==
    IF Len(s.args) = 2
    THEN The({LET l == q.out[Len(q.out) - 1]
              IN  fillUsers(AppendLine(Pop(Pop(q)), IF l.text = "var" THEN l.e ELSE 0,
                                       IF l.text = "var" THEN Top(q)
                                       ELSE [text |-> "assign", to |-> l, value |-> Top(q)]),
                            <<"line", Len(q.lines) + 1>>) :
              q \in {VisitOperands(p, operatorPrecedence["Assign"], s.args)}})
    ELSE The({IF s.args[1] \in DOMAIN q.tokens THEN Pop(q)
              ELSE fillUsers(AppendLine(Pop(q), 0, Top(q)), <<"line", Len(q.lines) + 1>>) :
              q \in {VisitExpression(p, s.args[1])}})

\* A statement prints nothing if its expression, a call, has become a variable.
\* An assignment begins its line with the variable it is to, if it is to one.
visitExpr(p, s) ==
    IF Len(s.args) = 2
    THEN The({LET l == q.out[Len(q.out) - 1]
              IN  fillUsers(AppendLine(Pop(Pop(q)), IF l.text = "var" THEN l.e ELSE 0,
                                       IF l.text = "var" THEN Top(q)
                                       ELSE [text |-> "assign", to |-> l, value |-> Top(q)]),
                            <<"line", Len(q.lines) + 1>>) :
              q \in {VisitOperands(p, operatorPrecedence["Assign"], s.args)}})
    ELSE The({IF s.args[1] \in DOMAIN q.tokens THEN [Pop(q) EXCEPT !.usedByStatement = <<>>]
              ELSE fillUsers(AppendLine(Pop(q), 0, Top(q)), <<"line", Len(q.lines) + 1>>) :
              q \in {VisitExpression(p, s.args[1])}})

visitKeyword(p, s) ==
    The({fillUsers(AppendLine(Pop(q), 0, [text |-> "return", value |-> Top(q)]), <<"line", Len(q.lines) + 1>>) :
         q \in {VisitExpression(p, s.args[1])}})

VisitStatement(p, s) ==
    CASE s.stmt = "if" -> VisitElse(p, s, "if")
      [] s.stmt = "loop" -> visitLoop(p, s)
      [] s.stmt = "return" -> visitKeyword(p, s)
      [] OTHER -> visitExpr(p, s)

-----------------------------------------------------------------------------
(***************************************************************************)
(* insertDeclarations                                                      *)
(***************************************************************************)
ParentOf(p, item) == IF item[1] = "line" THEN p.lines[item[2]].scope ELSE p.scopes[item[2]].parent

RECURSIVE Ancestry(_, _)
Ancestry(p, scope) == IF scope = 0 THEN <<>> ELSE Append(Ancestry(p, p.scopes[scope].parent), scope)
getStatementParents(p, item) == Ancestry(p, ParentOf(p, item))

IsAssignment(p, item, e) == item[1] = "line" /\ p.lines[item[2]].var = e

\* How many scopes the two have in common, from the outermost on.
CommonLength(parents, others) ==
    Cardinality({n \in DOMAIN parents : n <= Len(others) /\ \A i \in 1 .. n : parents[i] = others[i]})

prependItem(p, scope, e) == [p EXCEPT !.scopes[scope].declared = Append(@, e)]

\* A variable is declared in the innermost scope that has all of its users; if
\* its first assignment is there, the assignment becomes the declaration.
insertDeclaration(p, e) ==
    LET users == p.tokens[e]
        assigns == {i \in DOMAIN users : IsAssignment(p, users[i], e)}
        first == users[CHOOSE i \in assigns : \A j \in assigns : i <= j]
        parents == getStatementParents(p, first)
        common == CHOOSE n \in {CommonLength(parents, getStatementParents(p, users[i])) : i \in DOMAIN users} :
                     \A i \in DOMAIN users : n <= CommonLength(parents, getStatementParents(p, users[i]))
    IN  CASE assigns = {} -> prependItem(p, getStatementParents(p, users[1])[1], e)
          [] assigns # {} /\ common = Len(parents) -> [p EXCEPT !.lines[first[2]].declares = TRUE]
          [] OTHER -> prependItem(p, parents[common], e)

-----------------------------------------------------------------------------
Init ==
    /\ fn \in Functions
    /\ exprs = <<>> /\ statements = <<>> /\ mergeList = {} /\ noted = {}
    /\ todo = <<>> /\ printer = NoPrinter
    /\ phase = "translate"

Translate ==
    /\ phase = "translate"
    /\ exprs' = Expressions(fn)
    /\ statements' = Statements(fn.insts, fn.body)
    /\ phase' = "congruence"
    /\ UNCHANGED <<fn, mergeList, noted, todo, printer>>

Congruence == (EraseRoots \/ NoFirstUse \/ MergeVariables) /\ UNCHANGED <<todo, printer>>

PrintBegins ==
    /\ phase = "merge" /\ mergeList = {}
    /\ todo' = statements
    /\ phase' = "print"
    /\ UNCHANGED <<fn, exprs, statements, mergeList, noted, printer>>

PrintNext ==
    /\ phase = "print" /\ todo # <<>>
    /\ printer' = VisitStatement(printer, Head(todo))
    /\ todo' = Tail(todo)
    /\ UNCHANGED <<fn, exprs, statements, mergeList, noted, phase>>

PrintEnds ==
    /\ phase = "print" /\ todo = <<>>
    /\ phase' = "declare"
    /\ UNCHANGED <<fn, exprs, statements, mergeList, noted, todo, printer>>

InsertDeclaration ==
    /\ phase = "declare" /\ printer.orderedTokens # <<>>
    /\ printer' = [insertDeclaration(printer, Head(printer.orderedTokens)) EXCEPT !.orderedTokens = Tail(@)]
    /\ UNCHANGED <<fn, exprs, statements, mergeList, noted, todo, phase>>

DeclareEnds ==
    /\ phase = "declare" /\ printer.orderedTokens = <<>>
    /\ phase' = "done"
    /\ UNCHANGED <<fn, exprs, statements, mergeList, noted, todo, printer>>

Finished == phase \in {"done", "crashed"} /\ UNCHANGED vars

Next ==
    Translate \/ Congruence \/ PrintBegins \/ PrintNext \/ PrintEnds \/ InsertDeclaration \/ DeclareEnds \/ Finished

Spec == Init /\ [][Next]_vars
=============================================================================
