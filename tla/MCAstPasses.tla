---------------------------- MODULE MCAstPasses -----------------------------
(***************************************************************************)
(* The AST passes on functions with one loop or none: lists of up to three *)
(* statements with conditions over two values of the loop (c, d) and one   *)
(* from outside (x).                                                       *)
(***************************************************************************)
EXTENDS AstPipeline

One == Leaf("one")
C == Nary(Equal, <<Leaf("c"), One>>)
D == Nary(SmallerThan, <<Leaf("d"), One>>)
X == Nary(Equal, <<Leaf("x"), One>>)
Masked == Nary(BitwiseAnd, <<Leaf("c"), Leaf("d")>>)
Pointed == Dereference(AddressOf(Leaf("d")))
Element == Index(AddressOf(Leaf("d")), Leaf("zero"))

\* Statements of which each occurs once: they are told apart in a run.
Do(name) == Expr(name, Leaf("zero"))
If(cond, body) == IfElse(cond, body, <<>>)
Endless(body) == <<Loop(trueExpr, "pre", body)>>

\* Ifs that leave the loop, and ifs that do not.
Leaves(name) ==
    {If(cond, <<Break>>) : cond \in {C, Not(C), D, And(<<C, D>>), Or(<<Not(C), D>>), Not(Masked), falseExpr}}
    \cup {If(Not(D), <<Do(name), Break>>), If(C, <<If(Pointed, <<Break>>)>>)}
Stays(name) ==
    {If(cond, <<Do(name)>>) : cond \in {C, Not(C), Not(D), Or(<<C, D>>), And(<<Not(Not(C)), Pointed>>)}}
    \cup {If(C, <<If(D, <<Do(name)>>)>>), Do(name),
          Expr(name, Element), Expr(name, Index(AddressOf(Leaf("c")), Leaf("i")))}

Bodies ==
    {<<a>> : a \in Leaves("A")}
    \cup {<<a, b>> : a \in Leaves("A") \cup Stays("A"), b \in Leaves("B") \cup Stays("B")}
    \cup {<<a, Do("M"), b>> : a \in Leaves("A"), b \in Leaves("B")}
    \cup {<<a, b, c>> : a \in Leaves("A"), b \in Stays("B"), c \in {If(Not(C), <<Do("Z")>>), If(D, <<Break>>)}}

Lists ==
    {<<If(p, <<Do("A")>>), If(q, <<Do("B")>>), If(r, <<Do("Z"), Keyword("return")>>)>> :
        p, q, r \in {X, Not(X), C, And(<<X, C>>), Or(<<X, C>>), falseExpr, trueExpr}}

MCTrees ==
    {Endless(body) : body \in Bodies} \cup Lists
    \cup {<<If(X, Endless(<<a, b>>)), If(Not(X), <<Do("N")>>)>> : a \in Leaves("A"), b \in Stays("B")}

MCStarts == {"zero" :> 0 @@ "one" :> 1 @@ "c" :> c @@ "d" :> d @@ "x" :> x @@ "i" :> 1 @@ "memory" :> 1 - d :
                c, d, x \in {0, 1}}

\* Up to two iterations begin; the third one cuts the run.
MCDraws == {<<"c" :> c1 @@ "d" :> d1, "c" :> c2 @@ "d" :> d2>> : c1, d1, c2, d2 \in {0, 1}}
=============================================================================
