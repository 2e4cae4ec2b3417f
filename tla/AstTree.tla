------------------------------- MODULE AstTree ------------------------------
(***************************************************************************)
(* Expressions and statements of the AST as values (ast/expressions.h,     *)
(* ast/statements.h), the comparison of expressions (ast/expressions.cpp), *)
(* AstContext::negate, and what a tree does when it runs.                  *)
(*                                                                         *)
(* Expressions are over leaves (arguments, numbers) whose values are 0 and *)
(* 1, and conditions over comparisons of them.  Two leaves, tokens or      *)
(* comparisons that are equal are one object to the passes, since          *)
(* expressionFor makes one expression per LLVM value; every other          *)
(* composite expression is an object of its own.                           *)
(***************************************************************************)
EXTENDS Integers, Sequences, FiniteSets, TLC

\* The only element of a set.
The(S) == CHOOSE x \in S : TRUE

\* NAryOperatorExpression::NAryOperatorType, the operators that matter here.
ComparisonMin == 16
SmallerThan == 16
GreaterOrEqualTo == 17
Equal == 20
NotEqual == 21
ComparisonMax == 22
BitwiseAnd == 22
BitwiseXor == 23
ShortCircuitAnd == 25
ShortCircuitOr == 26

Leaf(name) == [kind |-> "leaf", op |-> 0, name |-> name, args |-> <<>>]
Token(name) == [kind |-> "token", op |-> 0, name |-> name, args |-> <<>>]
Unary(kind, e) == [kind |-> kind, op |-> 0, name |-> "", args |-> <<e>>]
Nary(op, args) == [kind |-> "nary", op |-> op, name |-> "", args |-> args]
Index(e, i) == [kind |-> "index", op |-> 0, name |-> "", args |-> <<e, i>>]

trueExpr == Token("true")
falseExpr == Token("false")
Not(e) == Unary("not", e)
AddressOf(e) == Unary("addressof", e)
Dereference(e) == Unary("deref", e)
And(args) == Nary(ShortCircuitAnd, args)
Or(args) == Nary(ShortCircuitOr, args)

Expr(name, e) == [stmt |-> "expr", name |-> name, value |-> e]
Keyword(word) == [stmt |-> "keyword", name |-> word]
IfElse(cond, then, else) == [stmt |-> "if", cond |-> cond, then |-> then, else |-> else]
Loop(cond, pos, body) == [stmt |-> "loop", cond |-> cond, pos |-> pos, body |-> body]
Break == Keyword("break")

negate(e) ==
    CASE e.kind = "not" -> e.args[1]
      [] e = trueExpr -> falseExpr
      [] e = falseExpr -> trueExpr
      [] OTHER -> Not(e)

RECURSIVE Unwrapped(_)
\* An n-ary expression with one operand stands for the operand.
Unwrapped(e) == IF e.kind = "nary" /\ Len(e.args) = 1 THEN Unwrapped(e.args[1]) ELSE e

\* getUserType: all unary operators have one.
UserType(e) == IF e.kind \in {"not", "addressof", "deref"} THEN "unary" ELSE e.kind

RECURSIVE SameExpr(_, _)
\* operator==.  The operators of n-ary expressions are not compared.
defaultEqualityCheck(a, b) ==
    LET innerA == Unwrapped(a)
        innerB == Unwrapped(b)
    IN  /\ UserType(innerA) = UserType(innerB) /\ Len(innerA.args) = Len(innerB.args)
        /\ \A i \in DOMAIN innerA.args :
              innerA.args[i] = innerB.args[i] \/ SameExpr(innerA.args[i], innerB.args[i])
SameExpr(a, b) ==
    CASE a.kind = "nary" -> defaultEqualityCheck(a, b)
      [] a.kind \in {"not", "addressof", "deref"} -> b.kind = a.kind /\ SameExpr(a.args[1], b.args[1])
      [] a.kind = "index" -> defaultEqualityCheck(a, b)
      [] OTHER -> a = b

RECURSIVE CountNegationDepth(_, _)
CountNegationDepth(e, negated) ==
    IF e.kind = "not" THEN CountNegationDepth(e.args[1], ~ negated) ELSE <<e, negated>>
countNegationDepth(e) == CountNegationDepth(e, FALSE)

-----------------------------------------------------------------------------
(***************************************************************************)
(* What a tree does.  Conditions read values that do not change within an  *)
(* iteration of a loop (they are values of LLVM's SSA form), and may have  *)
(* any value in the next.  A run is given a valuation for the start, and   *)
(* one for each iteration that begins.                                     *)
(***************************************************************************)
RECURSIVE Value(_, _)
Compare(op, a, b) ==
    CASE op = SmallerThan -> a < b
      [] op = GreaterOrEqualTo -> a >= b
      [] op = Equal -> a = b
      [] op = NotEqual -> a # b
      [] op = BitwiseAnd -> a = 1 /\ b = 1
      [] op = BitwiseXor -> a # b
Value(e, env) ==
    CASE e.kind = "leaf" -> env[e.name]
      [] e.kind = "token" -> IF e = trueExpr THEN 1 ELSE 0
      [] e.kind = "not" -> 1 - Value(e.args[1], env)
      [] e.kind \in {"deref", "index"} ->
            IF /\ e.args[1].kind = "addressof"
               /\ e.kind = "index" => Value(e.args[2], env) = 0
            THEN Value(e.args[1].args[1], env) ELSE env["memory"]
      [] e.kind = "addressof" -> 1
      [] e.op = ShortCircuitAnd -> IF \A i \in DOMAIN e.args : Value(e.args[i], env) = 1 THEN 1 ELSE 0
      [] e.op = ShortCircuitOr -> IF \E i \in DOMAIN e.args : Value(e.args[i], env) = 1 THEN 1 ELSE 0
      [] OTHER -> IF Compare(e.op, Value(e.args[1], env), Value(e.args[2], env)) THEN 1 ELSE 0

Holds(e, env) == Value(e, env) = 1

RECURSIVE Run(_, _, _)
RECURSIVE RunLoop(_, _, _)
\* A run: what it does, how it ends, and the valuations that are left.
Done(trace, end, rest) == [trace |-> trace, end |-> end, rest |-> rest]
After(first, second) == [second EXCEPT !.trace = first.trace \o second.trace]

RunStatement(s, env, rest) ==
    CASE s.stmt = "expr" -> Done(<<<<s.name, Value(s.value, env)>>>>, "next", rest)
      [] s.stmt = "keyword" -> Done(<<>>, s.name, rest)
      [] s.stmt = "if" -> Run(IF Holds(s.cond, env) THEN s.then ELSE s.else, env, rest)
      [] s.stmt = "loop" -> RunLoop(s, env, rest)
Run(list, env, rest) ==
    IF list = <<>> THEN Done(<<>>, "next", rest)
    ELSE The({IF first.end = "next" THEN After(first, Run(Tail(list), env, first.rest)) ELSE first :
                first \in {RunStatement(Head(list), env, rest)}})
\* A loop takes a valuation when an iteration begins; without one the run is cut.
RunLoop(s, env, rest) ==
    IF rest = <<>> THEN Done(<<>>, "cut", rest)
    ELSE LET inner == Head(rest) @@ env
         IN  IF s.pos = "pre" /\ ~ Holds(s.cond, inner) THEN Done(<<>>, "next", Tail(rest))
             ELSE The({CASE body.end = "break" -> [body EXCEPT !.end = "next"]
                         [] body.end \in {"return", "cut"} -> body
                         [] s.pos = "post" /\ ~ Holds(s.cond, inner) -> body
                         [] OTHER -> After(body, RunLoop(s, env, body.rest)) :
                            body \in {Run(s.body, inner, Tail(rest))}})
=============================================================================
