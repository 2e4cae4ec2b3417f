---------------------------- MODULE Translation -----------------------------
(***************************************************************************)
(* AstContext's translation of LLVM values to expressions and of           *)
(* instructions to statements (ast/ast_context.cpp).                       *)
(*                                                                         *)
(* A function is a record: insts gives the LLVM values by number, body the *)
(* places of the instructions, in the control structure that the back end  *)
(* has found.  One expression is made for each value and cached, so value  *)
(* v is expression v.  The few translations that make a second expression  *)
(* have it at Aux(v).  All integers are of type getIntegerType(false, W).  *)
(***************************************************************************)
EXTENDS Integers, Sequences, FiniteSets, Bitwise, TLC

CONSTANT W        \* bits of an integer

The(S) == CHOOSE x \in S : TRUE

Modulus == 2 ^ W
Aux(v) == v + 1000

Numeric(n) == [kind |-> "numeric", op |-> "", args |-> <<>>, value |-> n]
Token == [kind |-> "token", op |-> "", args |-> <<>>]
Assignable(prefix) == [kind |-> "assignable", op |-> prefix, args |-> <<>>]
Unary(op, e) == [kind |-> "unary", op |-> op, args |-> <<e>>]
Nary(op, l, r) == [kind |-> "nary", op |-> op, args |-> <<l, r>>]
Call(args) == [kind |-> "call", op |-> "", args |-> args]
Ternary(args) == [kind |-> "ternary", op |-> "", args |-> args]

\* Both tables.  Signed and unsigned operations have the same operator.
getOperator ==
    [add |-> "Add", sub |-> "Subtract", mul |-> "Multiply", udiv |-> "Divide", sdiv |-> "Divide",
     urem |-> "Modulus", srem |-> "Modulus", shl |-> "ShiftLeft", lshr |-> "ShiftRight",
     ashr |-> "ShiftRight", and |-> "BitwiseAnd", or |-> "BitwiseOr", xor |-> "BitwiseXor",
     eq |-> "Equal", ne |-> "NotEqual", ugt |-> "GreaterThan", sgt |-> "GreaterThan",
     uge |-> "GreaterOrEqualTo", sge |-> "GreaterOrEqualTo", ult |-> "SmallerThan",
     slt |-> "SmallerThan", ule |-> "SmallerOrEqualTo", sle |-> "SmallerOrEqualTo"]

IsConstant(inst) == inst.op = "const"
IsAllOnes(inst) == IsConstant(inst) /\ inst.value = 2 ^ inst.bits - 1
\* The sign bit of a constant is set.
IsNegative(inst) == IsConstant(inst) /\ inst.value >= 2 ^ (inst.bits - 1)

\* InstToExpr::visitBinaryOperator
visitBinaryOperator(insts, v) ==
    LET inst == insts[v]
        left == inst.args[1]
        right == inst.args[2]
        negated == IF IsConstant(insts[left]) THEN (IF IsAllOnes(insts[left]) THEN right ELSE 0)
                   ELSE IF IsAllOnes(insts[right]) THEN left ELSE 0
    IN  CASE inst.op = "add" /\ IsNegative(insts[right]) -> Nary("Subtract", left, Aux(v))
          [] inst.op = "xor" /\ negated # 0 ->
                Unary(IF inst.bits = 1 THEN "LogicalNegate" ELSE "BinaryNegate", negated)
          [] inst.op = "sub" /\ IsConstant(insts[left]) /\ insts[left].value = 0 ->
                Unary("ArithmeticNegate", right)
          [] OTHER -> Nary(getOperator[inst.op], left, right)

\* InstToExpr::visitValue: the expression of value v.
visitValue(insts, v) ==
    LET inst == insts[v]
    IN  CASE inst.op = "const" -> Numeric(inst.value)
          [] inst.op = "arg" -> Token
          [] inst.op = "phi" -> Assignable("phi")
          [] inst.op = "alloca" -> Unary("AddressOf", Aux(v))
          [] inst.op = "load" -> Unary("Dereference", inst.args[1])
          [] inst.op = "call" -> Call(inst.args)
          [] inst.op = "select" -> Ternary(inst.args)
          [] OTHER -> visitBinaryOperator(insts, v)

\* The constant whose sign has been changed; the constant itself, and the all
\* ones and zeros that a unary operator replaces, are made and never used.
positiveRight(inst) == Numeric(2 ^ inst.bits - inst.value)

\* The second expression that is made for value v, if any: the variable of an
\* alloca, the location of a store, the positive constant, phiReadsToWrites.
HasAux(insts, v) ==
    \/ insts[v].op \in {"alloca", "phi", "store"}
    \/ insts[v].op = "add" /\ IsNegative(insts[insts[v].args[2]])
AuxOf(insts, v) ==
    CASE insts[v].op = "alloca" -> Assignable("alloca")
      [] insts[v].op = "phi" -> Assignable("phi_in")
      [] insts[v].op = "store" -> Unary("Dereference", insts[v].args[1])
      [] OTHER -> positiveRight(insts[insts[v].args[2]])

\* The values that are asked for: those of the instructions that the blocks
\* have, and their operands.
RECURSIVE Requested(_, _)
Requested(insts, asked) ==
    LET more == asked \cup UNION {{insts[v].args[i] : i \in DOMAIN insts[v].args} : v \in asked}
    IN  IF more = asked THEN asked ELSE Requested(insts, more)

RECURSIVE ValuesOf(_)
ValuesOf(items) ==
    UNION {LET it == items[i]
           IN  CASE it.item = "inst" -> {it.v}
                 [] it.item = "phi_in" -> {it.v, it.value}
                 [] it.item = "if" -> {it.cond} \cup ValuesOf(it.then) \cup ValuesOf(it.else)
                 [] OTHER -> {it.cond} \cup ValuesOf(it.head) \cup ValuesOf(it.body) : i \in DOMAIN items}

\* All expressions of a function; a store and a return have none of their own.
Expressions(fn) ==
    LET asked == Requested(fn.insts, ValuesOf(fn.body))
        values == {v \in asked : fn.insts[v].op \notin {"store", "ret"}}
        seconds == {v \in asked : HasAux(fn.insts, v)}
    IN  [e \in values \cup {Aux(v) : v \in seconds} |->
            IF e \in values THEN visitValue(fn.insts, e) ELSE AuxOf(fn.insts, e - 1000)]

-----------------------------------------------------------------------------
Assign(l, r) == [stmt |-> "expr", args |-> <<l, r>>]
CallOf(e) == [stmt |-> "expr", args |-> <<e>>]
Return(e) == [stmt |-> "return", args |-> <<e>>]
IfElse(c, then, else) == [stmt |-> "if", args |-> <<c>>, then |-> then, else |-> else]
Loop(c, pre, body) == [stmt |-> "loop", args |-> <<c>>, pre |-> pre, body |-> body]

\* AstContext::statementFor: only these instructions have one.
statementFor(insts, v) ==
    CASE insts[v].op = "store" -> <<Assign(Aux(v), insts[v].args[2])>>
      [] insts[v].op = "call" -> <<CallOf(v)>>
      [] insts[v].op = "phi" -> <<Assign(v, Aux(v))>>
      [] insts[v].op = "ret" -> <<Return(insts[v].args[1])>>
      [] OTHER -> <<>>

\* Mutant: a phi is assigned in place.
phiAssignmentInPlace(phi, value) == Assign(phi, value)

\* AstContext::phiAssignment
phiAssignment(phi, value) == Assign(Aux(phi), value)

\* The statements of a function.
RECURSIVE Statements(_, _)
Statements(insts, items) ==
    IF items = <<>> THEN <<>>
    ELSE LET it == Head(items)
         IN  (CASE it.item = "inst" -> statementFor(insts, it.v)
                [] it.item = "phi_in" -> <<phiAssignment(it.v, it.value)>>
                [] it.item = "if" ->
                      <<IfElse(it.cond, Statements(insts, it.then), Statements(insts, it.else))>>
                [] OTHER -> <<Loop(it.cond, it.pre, Statements(insts, it.body))>>)
             \o Statements(insts, Tail(items))
=============================================================================
