------------------------------ MODULE Combiners -----------------------------
(***************************************************************************)
(* The passes that combine statements: ast/pass_consecutivecombine.cpp     *)
(* and ast/pass_nestedcombiner.cpp.  A pass takes a statement list and     *)
(* gives the list that replaces it.                                        *)
(***************************************************************************)
EXTENDS AstTree

isLogicallySame(a, b) == SameExpr(a, b)

isLogicallyOpposite(a, b) ==
    /\ countNegationDepth(a)[2] # countNegationDepth(b)[2]
    /\ SameExpr(countNegationDepth(a)[1], countNegationDepth(b)[1])

RECURSIVE optimizeSequence(_)
RECURSIVE CombineIfs(_, _)
RECURSIVE VisitConsecutive(_)

\* The if that takes the place of two with opposite conditions.
OppositeBodies(last, this) ==
    IfElse(last.cond, optimizeSequence(last.then \o this.else), optimizeSequence(last.else \o this.then))

\* The if that takes the place of two with the same condition.
SameBodies(last, this) ==
    IfElse(last.cond, optimizeSequence(last.then \o this.then), optimizeSequence(last.else \o this.else))

\* Appends a statement to the new sequence, or merges it with an if that is the
\* last statement there.
AppendStatement(sequence, s) ==
    LET n == Len(sequence)
    IN  CASE n > 0 /\ s.stmt = "if" /\ sequence[n].stmt = "if" /\ isLogicallySame(s.cond, sequence[n].cond) ->
                [sequence EXCEPT ![n] = SameBodies(@, s)]
          [] n > 0 /\ s.stmt = "if" /\ sequence[n].stmt = "if" /\ ~ isLogicallySame(s.cond, sequence[n].cond)
             /\ isLogicallyOpposite(s.cond, sequence[n].cond) ->
                [sequence EXCEPT ![n] = OppositeBodies(@, s)]
          [] OTHER -> Append(sequence, s)

CombineIfs(list, sequence) ==
    IF list = <<>> THEN sequence
    ELSE The({CombineIfs(Tail(list), longer) : longer \in {AppendStatement(sequence, Head(list))}})

\* If there is an else, the positive form comes first.
PositiveForm(cond, ifBody, elseBody) ==
    IF ifBody # <<>> /\ elseBody # <<>> /\ countNegationDepth(cond)[2]
    THEN <<IfElse(countNegationDepth(cond)[1], elseBody, ifBody)>>
    ELSE <<IfElse(cond, ifBody, elseBody)>>

\* The rest of visitIfElse: the if-body is not empty.
WithoutConstants(cond, ifBody, elseBody) ==
    CASE cond = trueExpr -> ifBody
      [] cond = falseExpr -> elseBody
      [] OTHER -> PositiveForm(cond, ifBody, elseBody)

visitIfElseConsecutive(cond, ifBody, elseBody) ==
    CASE ifBody = <<>> /\ elseBody = <<>> -> <<>>
      [] ifBody = <<>> /\ elseBody # <<>> -> WithoutConstants(negate(cond), elseBody, ifBody)
      [] OTHER -> WithoutConstants(cond, ifBody, elseBody)

\* Changes do { if (foo) { ... } } while (foo) into while (foo) { ... }.
visitLoopConsecutive(loop, body) ==
    IF /\ loop.pos = "post" /\ Len(body) = 1 /\ body[1].stmt = "if"
       /\ body[1].else = <<>> /\ SameExpr(body[1].cond, loop.cond)
    THEN <<Loop(loop.cond, "pre", body[1].then)>>
    ELSE <<Loop(loop.cond, loop.pos, body)>>

VisitConsecutive(list) ==
    IF list = <<>> THEN <<>>
    ELSE LET s == Head(list)
         IN  (CASE s.stmt = "if" -> The({visitIfElseConsecutive(s.cond, ifBody, elseBody) :
                                            ifBody \in {optimizeSequence(s.then)}, elseBody \in {optimizeSequence(s.else)}})
                [] s.stmt = "loop" -> The({visitLoopConsecutive(s, body) : body \in {optimizeSequence(s.body)}})
                [] OTHER -> <<s>>) \o VisitConsecutive(Tail(list))

optimizeSequence(list) == The({VisitConsecutive(sequence) : sequence \in {CombineIfs(list, <<>>)}})

-----------------------------------------------------------------------------
RECURSIVE MemoryOperation(_)
\* MemoryOperationVisitor.
MemoryOperation(e) ==
    \/ e.kind \in {"deref", "index"}
    \/ e.kind \in {"nary", "not", "addressof"} /\ \E i \in DOMAIN e.args : MemoryOperation(e.args[i])

isBreak(list) == list = <<Break>>

\* Where the if is that structurizeLoop may turn into the condition of the loop:
\* the first statement, else the last one.
EligibleCondition(body) ==
    CASE body # <<>> /\ body[1].stmt = "if" -> [at |-> 1, pos |-> "pre"]
      [] Len(body) > 1 /\ body[1].stmt # "if" /\ body[Len(body)].stmt = "if" -> [at |-> Len(body), pos |-> "post"]
      [] OTHER -> [at |-> 0, pos |-> "pre"]

\* Mutant: the condition of a break is not negated.
LoopConditionPlain(loop, ifElse) == And(<<loop.cond, ifElse.cond>>)

LoopCondition(loop, ifElse) ==
    And(<<loop.cond, IF isBreak(ifElse.then) THEN negate(ifElse.cond) ELSE ifElse.cond>>)

Replacement(ifElse) == IF isBreak(ifElse.then) THEN ifElse.else ELSE ifElse.then

structurizeLoop(loop, eligible) ==
    LET at == eligible.at
        ifElse == loop.body[at]
        condition == IF isBreak(ifElse.then) THEN negate(ifElse.cond) ELSE ifElse.cond
    IN  IF at # 0 /\ (isBreak(loop.body[at].then) # isBreak(loop.body[at].else))
        THEN Loop(LoopCondition(loop, ifElse), eligible.pos,
                  IF eligible.pos = "pre" THEN Replacement(ifElse) \o Tail(loop.body)
                  ELSE [loop.body EXCEPT ![at] = IfElse(condition, Replacement(ifElse), <<>>)])
        ELSE loop

\* Merges an if with the only if inside it.
visitIfElseNested(cond, ifBody, elseBody) ==
    IF /\ elseBody = <<>> /\ Len(ifBody) = 1 /\ ifBody[1].stmt = "if" /\ ifBody[1].else = <<>>
       /\ ~ MemoryOperation(ifBody[1].cond)
    THEN IfElse(And(<<cond, ifBody[1].cond>>), ifBody[1].then, <<>>)
    ELSE IfElse(cond, ifBody, elseBody)

RECURSIVE VisitNested(_)
VisitNested(list) ==
    IF list = <<>> THEN <<>>
    ELSE LET s == Head(list)
         IN  The(CASE s.stmt = "if" -> {<<visitIfElseNested(s.cond, ifBody, elseBody)>> :
                                           ifBody \in {VisitNested(s.then)}, elseBody \in {VisitNested(s.else)}}
                   [] s.stmt = "loop" -> {<<structurizeLoop(Loop(s.cond, s.pos, body), EligibleCondition(body))>> :
                                           body \in {VisitNested(s.body)}}
                   [] OTHER -> {<<s>>}) \o VisitNested(Tail(list))
=============================================================================
