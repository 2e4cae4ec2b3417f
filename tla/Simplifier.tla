----------------------------- MODULE Simplifier -----------------------------
(***************************************************************************)
(* AstSimplifyExpressions (ast/pass_simplifyexpressions.cpp).  Expressions *)
(* are shared, and the pass visits each once and replaces it in all its    *)
(* users; here every occurrence is rewritten.  A user that has been        *)
(* visited is visited again when an operand turned out to be constant;     *)
(* nothing is rewritten then, because a negated constant is left alone and *)
(* the terms of && and || are only looked at in new expressions.           *)
(***************************************************************************)
EXTENDS AstTree

\* Whether a term that has been seen before is the same object.
SameObject(a, b) == a = b /\ ~ (a.kind = "nary" /\ a.op \in {ShortCircuitAnd, ShortCircuitOr}) /\ a.kind # "not"

AddTerm(terms, term) == IF \E i \in DOMAIN terms : SameObject(terms[i], term) THEN terms ELSE Append(terms, term)

RECURSIVE collectExpressionTerms(_, _, _)
\* The operands, through operands with the same operator: true terms and false terms.
collectExpressionTerms(op, args, terms) ==
    IF args = <<>> THEN terms
    ELSE LET e == Head(args)
             bare == countNegationDepth(e)
         IN  The({collectExpressionTerms(op, Tail(args), more) : more \in {
                    CASE e.kind = "nary" /\ e.op = op -> collectExpressionTerms(op, e.args, terms)
                      [] ~ (e.kind = "nary" /\ e.op = op) /\ bare[2] -> [terms EXCEPT !.false = AddTerm(@, bare[1])]
                      [] OTHER -> [terms EXCEPT !.true = AddTerm(@, bare[1])]}})

Contains(terms, term) == \E i \in DOMAIN terms : SameObject(terms[i], term)

\* What one term does to the whole: it decides it, or goes without saying.
Constant(op) == IF op = ShortCircuitOr THEN trueExpr ELSE falseExpr
Decides(op, term, negated) ==
    IF negated THEN negate(term) = Constant(op) ELSE term = Constant(op)

\* The terms that are kept: no constants; negated ones first.
RemainingTerms(terms) ==
    LET bare(t) == t \notin {trueExpr, falseExpr}
        false == SelectSeq(terms.false, bare)
    IN  [i \in DOMAIN false |-> negate(false[i])] \o SelectSeq(terms.true, bare)

removeIdenticalTerms(op, terms) ==
    IF \/ \E i \in DOMAIN terms.false : Contains(terms.true, terms.false[i]) \/ Decides(op, terms.false[i], TRUE)
       \/ \E i \in DOMAIN terms.true : Decides(op, terms.true[i], FALSE)
    THEN Constant(op)
    ELSE Nary(op, RemainingTerms(terms))

\* op ^ 1
Flipped(op) == IF op % 2 = 0 THEN op + 1 ELSE op - 1

\* The expression that takes the place of a unary one, given its new operand.
visitUnaryOperator(kind, operand) ==
    CASE kind = "not" /\ operand.kind = "not" -> operand.args[1]
      [] kind = "not" /\ operand.kind = "nary" /\ Len(operand.args) = 2
         /\ operand.op >= ComparisonMin /\ operand.op <= ComparisonMax -> Nary(Flipped(operand.op), operand.args)
      [] kind = "deref" /\ operand.kind = "addressof" -> operand.args[1]
      [] OTHER -> Unary(kind, operand)

\* The first element behind the address of an object is the object.
visitSubscript(pointer, index) ==
    IF pointer.kind = "addressof" /\ index = Leaf("zero") THEN pointer.args[1] ELSE Index(pointer, index)

RECURSIVE Simplify(_)
SimplifyArgs(e) == The({Nary(e.op, args) : args \in {[i \in DOMAIN e.args |-> Simplify(e.args[i])] \o <<>>}})

\* The terms are collected first, then the operands that are left are visited.
Simplify(e) ==
    CASE e.kind \in {"not", "deref", "addressof"} -> The({visitUnaryOperator(e.kind, operand) : operand \in {Simplify(e.args[1])}})
      [] e.kind = "index" -> The({visitSubscript(pointer, index) :
                                    pointer \in {Simplify(e.args[1])}, index \in {Simplify(e.args[2])}})
      [] e.kind = "nary" /\ e.op \in {ShortCircuitAnd, ShortCircuitOr} ->
            The({IF result.kind = "nary" THEN SimplifyArgs(result) ELSE result :
                    result \in {removeIdenticalTerms(e.op, terms) :
                        terms \in {collectExpressionTerms(e.op, e.args, [true |-> <<>>, false |-> <<>>])}}})
      [] e.kind = "nary" /\ e.op \notin {ShortCircuitAnd, ShortCircuitOr} -> SimplifyArgs(e)
      [] OTHER -> e

RECURSIVE SimplifyList(_)
\* StatementSimplifierVisitor.
SimplifyList(list) ==
    IF list = <<>> THEN <<>>
    ELSE LET s == Head(list)
         IN  <<CASE s.stmt = "if" -> The({IfElse(cond, then, else) : cond \in {Simplify(s.cond)},
                                            then \in {SimplifyList(s.then)}, else \in {SimplifyList(s.else)}})
                 [] s.stmt = "loop" -> The({Loop(cond, s.pos, body) : cond \in {Simplify(s.cond)}, body \in {SimplifyList(s.body)}})
                 [] s.stmt = "expr" -> Expr(s.name, Simplify(s.value))
                 [] OTHER -> s>> \o SimplifyList(Tail(list))
=============================================================================
