----------------------------- MODULE MCAstText ------------------------------
(***************************************************************************)
(* Functions of two arguments, on integers of two bits: pairs of           *)
(* operators, trees of calls that share expressions, loads and stores, and *)
(* loops.                                                                  *)
(***************************************************************************)
EXTENDS TextRuns

X == 1
Y == 2
One == 3
Ones == 4
Zero == 5
True == 6
Inst(op, args) == [op |-> op, args |-> args, bits |-> W]
Const(n, bits) == [op |-> "const", args |-> <<>>, bits |-> bits, value |-> n]
Bool(op, args) == [op |-> op, args |-> args, bits |-> 1]

Base == X :> Inst("arg", <<>>) @@ Y :> Inst("arg", <<>>) @@ One :> Const(1, W)
        @@ Ones :> Const(Modulus - 1, W) @@ Zero :> Const(0, W) @@ True :> Const(1, 1)
At(v) == [item |-> "inst", v |-> v]
PhiIn(v, value) == [item |-> "phi_in", v |-> v, value |-> value]
If(c, then, else) == [item |-> "if", cond |-> c, then |-> then, else |-> else]
LoopOf(pre, c, head, body) == [item |-> "loop", pre |-> pre, cond |-> c, head |-> head, body |-> body]
Line(first, last) == [i \in 1 .. last - first + 1 |-> At(first + i - 1)]

Arithmetic == {"add", "sub", "mul", "udiv", "sdiv", "urem", "srem", "shl", "lshr", "ashr", "and", "or", "xor"}
Predicates == {"eq", "ne", "ugt", "sgt", "uge", "sge", "ult", "slt", "ule", "sle"}

\* return (x op y) op z, with the operands in either order, or the first twice.
Pairs ==
    {[insts |-> 10 :> Inst(op1, first) @@ 11 :> Inst(op2, second) @@ 12 :> Inst("ret", <<11>>) @@ Base,
      body |-> Line(10, 12)] :
        op1 \in Arithmetic, op2 \in Arithmetic \cup Predicates, first \in {<<X, Y>>, <<X, Ones>>, <<Zero, X>>},
        second \in {<<10, Y>>, <<Y, 10>>, <<10, 10>>, <<Zero, 10>>}}

\* Negations, and conditions that choose a value.
Negations ==
    {[insts |-> 10 :> Inst("sub", <<Zero, X>>) @@ 11 :> Inst("xor", args) @@ 12 :> Bool(op, <<10, 11>>)
                @@ 13 :> Bool("xor", cond) @@ 14 :> Inst("select", <<13, 11, v>>)
                @@ 15 :> Inst("select", <<w, 14, X>>) @@ 16 :> Inst("sub", <<Zero, 15>>)
                @@ 17 :> Inst("ret", <<16>>) @@ Base,
      body |-> Line(10, 17)] :
        args \in {<<10, Ones>>, <<Ones, 10>>, <<Ones, Ones>>, <<10, 10>>}, op \in Predicates,
        cond \in {<<12, True>>, <<True, 12>>, <<12, 12>>}, v \in {Y, 10}, w \in {12, 13}}

\* Calls in and around an if, with shared arguments.  20 is called before, 24 after.
Shared2 == 10 :> Inst("mul", <<X, Y>>) @@ 11 :> Inst("add", <<10, X>>)
           @@ 12 :> Bool("ult", <<X, Y>>) @@ 13 :> Bool("ugt", <<11, Y>>) @@ Base
Calls(a, b, c, d) == [v \in 20 .. 24 |->
                        IF v = 24 THEN Inst("ret", <<d>>)
                        ELSE Inst("call", IF v = 20 THEN <<X>> ELSE <<CASE v = 21 -> a [] v = 22 -> b [] v = 23 -> c>>)]
Shapes(p, q) ==
    {<<If(p, <<At(21)>>, <<At(22)>>), At(23)>>, <<At(21), If(p, <<At(22)>>, <<At(23)>>)>>,
     <<At(21), If(p, <<At(22)>>, <<If(q, <<At(23)>>, <<>>)>>)>>,
     <<If(p, <<At(21)>>, <<If(q, <<At(22)>>, <<At(23)>>)>>)>>,
     <<If(p, <<At(21)>>, <<If(q, <<At(22)>>, <<>>)>>), If(q, <<At(23)>>, <<>>)>>,
     <<If(p, <<If(q, <<At(21), At(22)>>, <<>>)>>, <<At(23)>>)>>,
     <<At(21), LoopOf(FALSE, q, <<>>, <<At(22)>>), At(23)>>,
     <<LoopOf(TRUE, p, <<>>, <<At(21), If(q, <<At(22), At(24)>>, <<At(23)>>)>>)>>}
Trees ==
    {[insts |-> Calls(a, b, c, d) @@ Shared2, body |-> Line(10, 13) \o <<At(20)>> \o shape \o <<At(24)>>] :
        a, b, c \in {X, 10, 11, 20}, d \in {11, 20}, shape \in Shapes(12, 13) \cup Shapes(13, 12)}

\* Memory: 20 is a variable on the stack, 21 a load of it, 22 one through an
\* argument.
Memory ==
    {[insts |-> 20 :> Inst("alloca", <<>>) @@ 21 :> Inst("load", <<20>>) @@ 22 :> Inst("load", <<X>>)
                @@ 23 :> Inst("store", <<20, Y>>) @@ 24 :> Inst("store", <<X, 21>>) @@ 25 :> Inst("call", <<22, 20>>)
                @@ 26 :> Inst("add", <<21, 22>>) @@ 27 :> Inst("store", <<20, 26>>) @@ 28 :> Inst("ret", <<result>>)
                @@ 29 :> Inst("store", <<20, Y>>) @@ Base,
      body |-> <<At(20), At(29)>> \o [i \in 1 .. 5 |-> At(order[i])] \o <<At(28)>>] :
        result \in {Y, 21},
        order \in {o \in [1 .. 5 -> 21 .. 27] :
                     LET Before(i, v) == \E j \in 1 .. i - 1 : o[j] = v
                     IN  /\ \E i \in 1 .. 5 : o[i] = 21
                         /\ \A i, j \in 1 .. 5 : o[i] = o[j] => i = j
                         /\ \A i \in 1 .. 5 : /\ o[i] = 24 => Before(i, 21)
                                              /\ o[i] = 25 => Before(i, 22)
                                              /\ o[i] = 26 => Before(i, 21) /\ Before(i, 22)
                                              /\ o[i] = 27 => Before(i, 26)}}

\* Loops with two phis, and with a counter in memory.
PhiLoops ==
    {[insts |-> 20 :> Inst("phi", <<>>) @@ 21 :> Inst("phi", <<>>) @@ 22 :> Inst("call", <<w>>)
                @@ 23 :> Inst("sub", <<20, One>>) @@ 24 :> Inst("mul", <<23, 23>>) @@ 25 :> Bool(op, <<u, v>>)
                @@ 26 :> Inst("ret", <<r>>) @@ Base,
      body |-> <<PhiIn(20, X), PhiIn(21, Y),
                 LoopOf(FALSE, 25, <<>>, Line(20, 25) \o <<PhiIn(20, a), PhiIn(21, b)>>), At(26)>>] :
        op \in {"ult", "eq"}, u \in {X, 20, 22, 23}, v \in {One, 24}, a, b \in {20, 21, 22, 23}, w \in {21, X}, r \in {21, Y}}
MemoryLoops ==
    {[insts |-> 20 :> Inst("alloca", <<>>) @@ 21 :> Inst("store", <<20, X>>) @@ 22 :> Inst("load", <<20>>)
                @@ 23 :> Inst("sub", <<22, One>>) @@ 24 :> Inst("mul", <<23, 23>>) @@ 25 :> Bool(op, <<w, Y>>)
                @@ 26 :> Inst("call", <<X>>) @@ 27 :> Inst("store", <<20, v>>) @@ 28 :> Inst("ret", <<Y>>) @@ Base,
      body |-> <<At(20), At(21), LoopOf(TRUE, 25, Line(22, 25), <<At(26), At(27)>>), At(28)>>] :
        op \in Predicates, v \in {Y, 26, One}, w \in {22, 23, 24}}

\* Phis where branches join, one of which may get the value of the other; 20 is a
\* call whose result may not be used at all.
Joins ==
    {[insts |-> 20 :> Inst("call", <<X>>) @@ 21 :> Inst("phi", <<>>) @@ 22 :> Inst("phi", <<>>)
                @@ 23 :> Inst("select", <<12, u, Y>>) @@ 24 :> Inst("store", <<X, v>>) @@ 25 :> Inst("call", <<w>>)
                @@ 26 :> Inst("ret", <<r>>) @@ 12 :> Bool("ult", <<X, Y>>) @@ Base,
      body |-> <<At(12)>> \o first \o <<At(21), If(12, <<PhiIn(22, 21)>>, <<PhiIn(22, b)>>), At(22), At(23)>>
               \o last \o <<At(26)>>] :
        first \in {<<At(20), If(12, <<PhiIn(21, X)>>, <<PhiIn(21, a)>>)>> : a \in {Y, 20}}
                  \cup {<<PhiIn(21, X), At(20)>>},
        b \in {X, 20}, u \in {20, 21}, v \in {21, 22, X}, w \in {21, 22, 23}, r \in {21, 22, 25},
        last \in {<<At(25)>>, <<At(24), At(25)>>, <<At(25), At(24)>>}}

\* The result of call 20 is used next: in a choice, for a loop, or by nothing.
Moves ==
    {[insts |-> 20 :> Inst("call", <<X>>) @@ 21 :> value @@ 22 :> Bool("ult", <<21, Y>>) @@ 23 :> Inst("call", <<c>>)
                @@ 24 :> Inst("ret", <<r>>) @@ 12 :> Bool("ult", <<X, Y>>) @@ Base,
      body |-> <<At(12), At(20), At(21), At(22)>> \o next \o <<At(24)>>] :
        value \in {Inst("add", <<20, X>>), Inst("select", <<12, 20, Y>>), Inst("select", <<12, Y, 20>>)},
        c \in {X, 20, 21}, r \in {Y, 20, 21},
        next \in {<<>>, <<At(23)>>, <<If(22, <<At(23)>>, <<>>)>>}
                 \cup {<<LoopOf(pre, 22, <<>>, loop)>> : pre \in BOOLEAN, loop \in {<<>>, <<At(23)>>}}}

MCFunctions == Moves \cup Joins \cup Pairs \cup Negations \cup Trees \cup Memory \cup PhiLoops \cup MemoryLoops
MCInputs == {X :> x @@ Y :> y : x, y \in Values}
=============================================================================
