------------------------------ MODULE TextRuns ------------------------------
(***************************************************************************)
(* What a printed function does, what the LLVM function does that it comes *)
(* from, and the properties that relate the two.                           *)
(*                                                                         *)
(* A run keeps the values by variable or LLVM value, the memory, the calls *)
(* and stores it has made, and the rounds of loops it may still take.  A   *)
(* call returns a number that depends on how many there have been.         *)
(***************************************************************************)
EXTENDS AstPrinter

CONSTANTS
    Inputs,      \* values of the arguments: functions from their numbers
    MaxRounds    \* bound: rounds of loops in a run

Values == 0 .. Modulus - 1
Cell == Modulus - 1        \* the address of the one alloca that a function may have

Truth(b) == IF b THEN 1 ELSE 0
Signed(a) == IF a >= Modulus \div 2 THEN a - Modulus ELSE a
Magnitude(a) == IF a < 0 THEN - a ELSE a
Quotient(a, b) == IF b = 0 THEN 0 ELSE (IF (a < 0) = (b < 0) THEN 1 ELSE -1) * (Magnitude(a) \div Magnitude(b))
Remainder(a, b) == IF b = 0 THEN 0 ELSE a - b * Quotient(a, b)

Unsigned(op, a, b) ==
    CASE op = "Add" -> (a + b) % Modulus
      [] op = "Subtract" -> (a - b) % Modulus
      [] op = "Multiply" -> (a * b) % Modulus
      [] op = "Divide" -> Quotient(a, b)
      [] op = "Modulus" -> Remainder(a, b)
      [] op = "ShiftLeft" -> IF b >= W THEN 0 ELSE (a * 2 ^ b) % Modulus
      [] op = "ShiftRight" -> IF b >= W THEN 0 ELSE a \div 2 ^ b
      [] op = "BitwiseAnd" -> a & b
      [] op = "BitwiseOr" -> a | b
      [] op = "BitwiseXor" -> a ^^ b
      [] op = "Equal" -> Truth(a = b)
      [] op = "NotEqual" -> Truth(a # b)
      [] op = "SmallerThan" -> Truth(a < b)
      [] op = "SmallerOrEqualTo" -> Truth(a <= b)
      [] op = "GreaterThan" -> Truth(a > b)
      [] op = "GreaterOrEqualTo" -> Truth(a >= b)

\* LLVM's binary operators and comparisons.
LLVMUnsigned(op, a, b) ==
    CASE op = "add" -> (a + b) % Modulus
      [] op = "sub" -> (a - b) % Modulus
      [] op = "mul" -> (a * b) % Modulus
      [] op \in {"udiv", "sdiv"} -> Quotient(a, b)
      [] op \in {"urem", "srem"} -> Remainder(a, b)
      [] op = "shl" -> IF b >= W THEN 0 ELSE (a * 2 ^ b) % Modulus
      [] op \in {"lshr", "ashr"} -> IF b >= W THEN 0 ELSE a \div 2 ^ b
      [] op = "and" -> a & b
      [] op = "or" -> a | b
      [] op = "xor" -> a ^^ b
      [] op = "eq" -> Truth(a = b)
      [] op = "ne" -> Truth(a # b)
      [] op \in {"ult", "slt"} -> Truth(a < b)
      [] op \in {"ule", "sle"} -> Truth(a <= b)
      [] op \in {"ugt", "sgt"} -> Truth(a > b)
      [] op \in {"uge", "sge"} -> Truth(a >= b)
LLVMValue(op, a, b) ==
    CASE op \in {"sdiv", "srem", "slt", "sle", "sgt", "sge"} -> LLVMUnsigned(op, Signed(a), Signed(b)) % Modulus
      [] op = "ashr" -> (Signed(a) \div 2 ^ b) % Modulus
      [] OTHER -> LLVMUnsigned(op, a, b)

-----------------------------------------------------------------------------
Start(input) ==
    [env |-> input, mem |-> [a \in Values |-> (a * a + 1) % Modulus], events |-> <<>>, calls |-> 0,
     rounds |-> MaxRounds, ended |-> FALSE, signed |-> FALSE,
     value |-> 0]
Stopped(run) == run.ended \/ run.rounds = 0
Called(run, args) == [run EXCEPT !.calls = @ + 1, !.events = Append(@, <<"call", args>>)]
Stored(run, a, v) == [run EXCEPT !.mem[a] = v, !.events = Append(@, <<"store", a, v>>)]
Returned(run, v) == [run EXCEPT !.ended = TRUE, !.events = Append(@, <<"return", v>>)]
CallResult(run) == (2 * run.calls + 1) % Modulus
Set(run, x, v) == [run EXCEPT !.env = x :> v @@ @]

\* One LLVM instruction.
Execute(run, v) ==
    LET inst == fn.insts[v]
        arg == [i \in DOMAIN inst.args |-> IF fn.insts[inst.args[i]].op = "const"
                                           THEN fn.insts[inst.args[i]].value ELSE run.env[inst.args[i]]]
    IN  CASE inst.op = "call" -> Set(Called(run, arg), v, CallResult(run))
          [] inst.op = "store" -> Stored(run, arg[1], arg[2])
          [] inst.op = "ret" -> Returned(run, arg[1])
          [] inst.op = "load" -> Set(run, v, run.mem[arg[1]])
          [] inst.op = "alloca" -> Set(run, v, Cell)
          [] inst.op = "phi" -> Set(run, v, run.env[Aux(v)])
          [] inst.op = "select" -> Set(run, v, IF arg[1] # 0 THEN arg[2] ELSE arg[3])
          [] OTHER -> LET value == LLVMValue(inst.op, arg[1], arg[2])
                      IN  [Set(run, v, value) EXCEPT
                              !.signed = @ \/ value # LLVMUnsigned(inst.op, arg[1], arg[2])]

ValueOf(run, v) == IF fn.insts[v].op = "const" THEN fn.insts[v].value ELSE run.env[v]

RECURSIVE RunBlocks(_, _)
RECURSIVE RunLoopBlocks(_, _)
RunBlocks(run, items) ==
    IF items = <<>> \/ Stopped(run) THEN run
    ELSE LET it == Head(items)
             after == CASE it.item = "inst" -> Execute(run, it.v)
                        [] it.item = "phi_in" -> Set(run, Aux(it.v), ValueOf(run, it.value))
                        [] it.item = "if" ->
                              RunBlocks(run, IF ValueOf(run, it.cond) # 0 THEN it.then ELSE it.else)
                        [] OTHER -> RunLoopBlocks(run, it)
         IN  RunBlocks(after, Tail(items))
RunLoopBlocks(run, it) ==
    IF Stopped(run) THEN run
    ELSE LET head == RunBlocks(run, it.head)
             body == RunBlocks([head EXCEPT !.rounds = @ - 1], it.body)
         IN  IF it.pre
             THEN IF ValueOf(head, it.cond) # 0 THEN RunLoopBlocks(body, it) ELSE head
             ELSE IF ~ Stopped(body) /\ ValueOf(body, it.cond) # 0 THEN RunLoopBlocks(body, it) ELSE body

-----------------------------------------------------------------------------
\* A text, evaluated from left to right; the result is in `value'.  A variable
\* without a value may have any.
Yield(run, v) == [run EXCEPT !.value = v]

RECURSIVE Eval(_, _)
RECURSIVE EvalChain(_, _, _)
RECURSIVE EvalAll(_, _, _)
Eval(run, t) ==
    CASE t.text = "numeric" -> Yield(run, exprs[t.e].value)
      [] t.text = "token" -> Yield(run, run.env[t.e])
      [] t.text = "var" -> Yield(run, IF exprs[t.e].op = "alloca" THEN run.mem[Cell]
                                      ELSE IF t.e \in DOMAIN run.env THEN run.env[t.e] ELSE 0)
      [] t.text = "paren" -> Eval(run, t.arg)
      [] t.text = "unary" /\ t.op = "AddressOf" -> Yield(run, Cell)
      [] t.text = "unary" /\ t.op # "AddressOf" ->
            LET done == Eval(run, t.arg)
                v == done.value
            IN  Yield(done, CASE t.op = "Dereference" -> run.mem[v]
                              [] t.op = "ArithmeticNegate" -> (- v) % Modulus
                              [] t.op = "BinaryNegate" -> Modulus - 1 - v
                              [] t.op = "Decrement" -> (v - 1) % Modulus
                              [] OTHER -> Truth(v = 0))
      [] t.text = "chain" -> EvalChain(run, t.first, t.rest)
      [] t.text = "ternary" -> LET done == Eval(run, t.args[1])
                               IN  Eval(done, IF done.value # 0 THEN t.args[2] ELSE t.args[3])
      [] OTHER -> EvalAll(run, t.args, <<>>)
\* The operator that binds least, of several the last one, is applied last.
EvalChain(run, first, rest) ==
    IF rest = <<>> THEN Eval(run, first)
    ELSE LET Level(i) == operatorPrecedence[rest[i][1]]
             last == CHOOSE i \in DOMAIN rest :
                        \A j \in DOMAIN rest : Level(j) < Level(i) \/ (Level(j) = Level(i) /\ j <= i)
             left == EvalChain(run, first, SubSeq(rest, 1, last - 1))
             right == EvalChain(left, rest[last][2], SubSeq(rest, last + 1, Len(rest)))
         IN  Yield(right, Unsigned(rest[last][1], left.value, right.value))
\* The parameters of a call, and the call.
EvalAll(run, args, values) ==
    IF args = <<>> THEN Yield(Called(run, values), CallResult(run))
    ELSE LET done == Eval(run, Head(args)) IN EvalAll(done, Tail(args), Append(values, done.value))

RunLine(run, line) ==
    LET t == line.text
    IN  CASE t.text = "assign" -> LET to == Eval(run, t.to.arg)
                                      done == Eval(to, t.value)
                                  IN  Stored(done, to.value, done.value)
          [] t.text = "return" -> LET done == Eval(run, t.value) IN Returned(done, done.value)
          [] OTHER -> LET done == Eval(run, t) IN IF line.var = 0 THEN done ELSE Set(done, line.var, done.value)

RECURSIVE RunItems(_, _, _)
RECURSIVE RunLoopText(_, _)
\* skip: an if of the chain has been taken.
RunItems(run, items, skip) ==
    IF items = <<>> \/ Stopped(run) THEN run
    ELSE LET item == Head(items)
             scope == printer.scopes[item[2]]
             asked == scope.kind = "if" \/ (scope.kind = "elseif" /\ ~ skip)
             cond == IF asked THEN Eval(run, scope.cond) ELSE run
             taken == IF asked THEN cond.value # 0 ELSE scope.kind = "else" /\ ~ skip
         IN  IF item[1] = "line"
             THEN RunItems(RunLine(run, printer.lines[item[2]]), Tail(items), skip)
             ELSE IF scope.kind \in {"while", "do"}
             THEN RunItems(RunLoopText(run, scope), Tail(items), skip)
             ELSE RunItems(IF taken THEN RunItems(cond, scope.items, FALSE) ELSE cond, Tail(items),
                           taken \/ (scope.kind # "if" /\ skip))
RunLoopText(run, scope) ==
    IF Stopped(run) THEN run
    ELSE LET entered == IF scope.kind = "while" THEN Eval(run, scope.cond) ELSE Yield(run, 1)
             round == RunItems([entered EXCEPT !.rounds = @ - 1], scope.items, FALSE)
             again == IF scope.kind = "do" /\ ~ Stopped(round) THEN Eval(round, scope.cond)
                      ELSE Yield(round, Truth(scope.kind = "while"))
         IN  IF entered.value = 0 THEN entered
             ELSE IF again.value # 0 THEN RunLoopText(again, scope) ELSE again

-----------------------------------------------------------------------------
(***************************************************************************)
(* The text, as the sequence of what it does to variables:                 *)
(* <<"use" | "assign" | "declare", variable, scope>>                       *)
(***************************************************************************)
RECURSIVE VarsIn(_)
VarsIn(t) ==
    CASE t.text = "var" -> {t.e}
      [] t.text \in {"paren", "unary"} -> VarsIn(t.arg)
      [] t.text = "chain" -> VarsIn(t.first) \cup UNION {VarsIn(t.rest[i][2]) : i \in DOMAIN t.rest}
      [] t.text \in {"ternary", "call"} -> UNION {VarsIn(t.args[i]) : i \in DOMAIN t.args}
      [] t.text = "assign" -> VarsIn(t.to) \cup VarsIn(t.value)
      [] t.text = "return" -> VarsIn(t.value)
      [] OTHER -> {}

UsesOf(t, scope) == SetToSeq({<<"use", e, scope>> : e \in VarsIn(t)})

RECURSIVE Effects(_)
Effects(scope) ==
    LET s == printer.scopes[scope]
        LineEffects(line) ==
            UsesOf(line.text, scope)
            \o (IF line.declares THEN <<<<"declare", line.var, scope>>>> ELSE <<>>)
            \o (IF line.var # 0 THEN <<<<"assign", line.var, scope>>>> ELSE <<>>)
        ScopeEffects(inner) ==
            LET i == printer.scopes[inner]
                cond == IF i.cond = <<>> THEN <<>> ELSE UsesOf(i.cond, scope)
            IN  IF i.kind = "do" THEN Effects(inner) \o cond ELSE cond \o Effects(inner)
    IN  [i \in DOMAIN s.declared |-> <<"declare", s.declared[i], scope>>]
        \o FlattenSeq([i \in DOMAIN s.items |->
                         IF s.items[i][1] = "line" THEN LineEffects(printer.lines[s.items[i][2]])
                         ELSE ScopeEffects(s.items[i][2])])

Encloses(outer, inner) == \E i \in DOMAIN Ancestry(printer, inner) : Ancestry(printer, inner)[i] = outer

\* Effect i of a text is in reach of effect j, which comes before it.
InReach(text, j, i) == j < i /\ text[j][2] = text[i][2] /\ Encloses(text[j][3], text[i][3])

-----------------------------------------------------------------------------
(***************************************************************************)
(* What the printer is known to get wrong                                  *)
(***************************************************************************)
\* Expressions that are computed on a line of their own when they are first met.
Shared(e) == /\ exprs[e].kind \in {"nary", "call", "ternary"} /\ uses_many(e)
             /\ exprs[e].kind = "nary" => ~ IsComparison(exprs[e].op)

RECURSIVE StatementsIn(_)
StatementsIn(list) ==
    UNION {{list[i]} \cup (CASE list[i].stmt = "if" -> StatementsIn(list[i].then) \cup StatementsIn(list[i].else)
                             [] list[i].stmt = "loop" -> StatementsIn(list[i].body)
                             [] OTHER -> {}) : i \in DOMAIN list}
AllStatements == StatementsIn(statements)

\* The line for an else-if's condition is between the if and the else.
ElseIfComputes ==
    \E s \in AllStatements :
        /\ s.stmt = "if" /\ Len(s.else) = 1 /\ s.else[1].stmt = "if"
        /\ \E e \in Closure(s.else[1].args[1]) : Shared(e)

\* The condition of a while loop is computed once.
WhileComputes == \E s \in AllStatements : s.stmt = "loop" /\ s.pre /\ \E e \in Closure(s.args[1]) : Shared(e)

\* A line within the condition of a do loop is taken for the user of the
\* variables that the condition has used before it.
DoLosesUsers ==
    \E s \in AllStatements :
        /\ s.stmt = "loop" /\ ~ s.pre
        /\ Cardinality({e \in Closure(s.args[1]) : Shared(e) \/ exprs[e].kind = "assignable"}) > 1

\* A variable is used where the line that assigns it need not have been executed.
UsedElsewhere(text) ==
    \E i \in DOMAIN text : /\ text[i][1] = "use" /\ exprs[text[i][2]].kind # "assignable"
                           /\ ~ \E j \in DOMAIN text : text[j][1] = "assign" /\ InReach(text, j, i)

\* a - (b - c) is printed as a - b - c, and so on.
Regrouped ==
    \E e \in DOMAIN exprs :
        \/ /\ exprs[e].kind = "nary"
           /\ LET right == exprs[exprs[e].args[2]]
              IN  /\ right.kind = "nary" /\ ~ shouldReduceIntoToken(exprs[e].args[2])
                  /\ operatorPrecedence[right.op] = operatorPrecedence[exprs[e].op]
                  /\ exprs[e].op # "Add"
                  /\ exprs[e].op \in {"Multiply", "BitwiseAnd", "BitwiseXor", "BitwiseOr"} => right.op # exprs[e].op
        \/ /\ exprs[e].kind = "ternary" /\ exprs[exprs[e].args[1]].kind = "ternary"
           /\ ~ shouldReduceIntoToken(exprs[e].args[1])

\* - - a is printed as --a.
Decrements ==
    \E e \in DOMAIN exprs :
        /\ exprs[e].op = "ArithmeticNegate"
        /\ exprs[exprs[e].args[1]].op = "ArithmeticNegate" /\ ~ shouldReduceIntoToken(exprs[e].args[1])

\* A load is printed where its value is used, which may be after a write to
\* memory.  In straight code that is looked for; if there are branches or loops
\* only the loads for a while loop's condition are known to stay.
LoadMoves ==
    LET items == fn.body
        OpAt(i) == IF items[i].item = "inst" THEN fn.insts[items[i].v].op ELSE ""
        InHead == UNION {ValuesOf(items[i].head) \ Requested(fn.insts, ValuesOf(items[i].body)) :
                            i \in {j \in DOMAIN items : items[j].item = "loop"}}
        loads == {v \in ValuesOf(items) \ InHead : fn.insts[v].op = "load"}
    IN  \/ loads # {} /\ \E s \in AllStatements : s.stmt \in {"if", "loop"}
        \/ \E i, j, k \in DOMAIN items :
              /\ i < j /\ j < k /\ OpAt(i) = "load" /\ OpAt(j) \in {"store", "call"}
              /\ items[k].item = "inst" /\ items[i].v \in Requested(fn.insts, {items[k].v})

-----------------------------------------------------------------------------
\* Between two statements nothing is left over: the stream is empty (print.cpp
\* asserts it), every use has been given to a line or scope, the scope is the
\* outermost.  Every variable has a user, whose first one insertDeclarations
\* takes without a check.
NothingLeftOver ==
    /\ phase \in {"translate", "congruence", "merge", "print", "declare", "done", "crashed"}
    /\ printer.out = <<>> /\ printer.usedByStatement = <<>> /\ printer.current = 1
    /\ \A e \in DOMAIN printer.tokens :
          /\ printer.tokens[e] # <<>>
          /\ \A i \in DOMAIN printer.tokens[e] :
                LET user == printer.tokens[e][i]
                IN  IF user[1] = "line" THEN user[2] \in DOMAIN printer.lines
                                        ELSE user[2] \in DOMAIN printer.scopes
    /\ \A n \in DOMAIN printer.lines : printer.lines[n].scope \in DOMAIN printer.scopes

\* insertDeclarations: in the text that is printed every variable is declared
\* once, and each use of it and assignment to it is in the scope of the
\* declaration and behind it; a do loop's condition with several variables
\* aside.
DeclaredInScope ==
    phase = "done" /\ ~ DoLosesUsers =>
        LET text == Effects(1)
        IN  \A i \in DOMAIN text : text[i][1] # "declare" =>
                /\ \E j \in DOMAIN text : text[j][1] = "declare" /\ InReach(text, j, i)
                /\ \A j, k \in DOMAIN text : (text[j][1] = "declare" /\ text[k][1] = "declare"
                                              /\ text[j][2] = text[i][2] /\ text[k][2] = text[i][2]) => j = k

\* visitIfElse: an else is printed directly behind the if it belongs to, unless
\* its own condition needs a line.
ElsesFollow ==
    phase = "done" /\ ~ ElseIfComputes =>
        \A s \in DOMAIN printer.scopes : \A i \in DOMAIN printer.scopes[s].items :
            LET items == printer.scopes[s].items
                Kind(item) == IF item[1] = "line" THEN "line" ELSE printer.scopes[item[2]].kind
            IN  Kind(items[i]) \in {"else", "elseif"} => i > 1 /\ Kind(items[i - 1]) \in {"if", "elseif"}

\* The printed function makes the calls and stores of the LLVM function, with the
\* same values and in the same order, and returns the same, for any arguments: in
\* functions that show none of the deviations above, and where signedness does
\* not matter, which the operators do not tell.
TextBehaves ==
    phase = "done" =>
        LET text == Effects(1)
            deviates == \/ ElseIfComputes \/ WhileComputes \/ UsedElsewhere(text)
                        \/ Regrouped \/ Decrements \/ LoadMoves \/ noted # {}
        IN  ~ deviates =>
                \A input \in Inputs :
                    LET llvm == RunBlocks(Start(input), fn.body)
                        printed == RunItems(Start(input), printer.scopes[1].items, FALSE)
                    IN  llvm.signed \/ printed.events = llvm.events
=============================================================================
