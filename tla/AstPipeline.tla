---------------------------- MODULE AstPipeline -----------------------------
(***************************************************************************)
(* The AST passes that change the shape of a function, in the order that   *)
(* GeneratePseudocode (main.cpp) gives them, applied to a tree that the    *)
(* back end has made: ifs without else, and endless loops left by break.   *)
(*                                                                         *)
(* Three steps of the passes are known to be wrong.  `flaws' records the   *)
(* ones whose situation has come up in a run, so that the properties can   *)
(* say what holds when they have not.                                      *)
(***************************************************************************)
EXTENDS Combiners, Simplifier

CONSTANTS
    Trees,      \* what the back end may have made of a function
    Starts,     \* valuations of the leaves when the function begins
    Draws       \* sequences of valuations, one for each iteration that begins

VARIABLES
    source,    \* the tree of the back end
    tree,      \* what the passes have made of it
    step,      \* how many passes have run
    flaws      \* which of the flaws could have shown so far

vars == <<source, tree, step, flaws>>

\* RemoveUndef and the merging of variables do not change the shape.
Passes == <<"consecutive", "nested", "consecutive", "simplify", "consecutive", "nested", "consecutive">>

Turn(pass) == step < Len(Passes) /\ Passes[step + 1] = pass

-----------------------------------------------------------------------------
RECURSIVE Conditions(_)
RECURSIVE LoopsOf(_)
RECURSIVE Subterms(_)
Subterms(e) == {e} \cup UNION {Subterms(e.args[i]) : i \in DOMAIN e.args}

\* All conditions of a list, and all its loops.
Conditions(list) ==
    UNION {LET s == list[i]
           IN  CASE s.stmt = "if" -> {s.cond} \cup Conditions(s.then) \cup Conditions(s.else)
                 [] s.stmt = "loop" -> {s.cond} \cup Conditions(s.body)
                 [] OTHER -> {} : i \in DOMAIN list}
LoopsOf(list) ==
    UNION {LET s == list[i]
           IN  CASE s.stmt = "if" -> LoopsOf(s.then) \cup LoopsOf(s.else)
                 [] s.stmt = "loop" -> {s} \cup LoopsOf(s.body)
                 [] OTHER -> {} : i \in DOMAIN list}

\* Two conditions are equal to operator==, though they are not the same.
Alike(list) == \E a, b \in {countNegationDepth(e)[1] : e \in Conditions(list)} :
    a # b /\ SameExpr(a, b) /\ \E env \in Starts : Value(a, env) # Value(b, env)

\* A loop that has a condition gets another one that is tested elsewhere.
Retested(list) == \E loop \in {Loop(l.cond, l.pos, VisitNested(l.body)) : l \in LoopsOf(list)} :
    /\ loop.cond # trueExpr
    /\ structurizeLoop(loop, EligibleCondition(loop.body)) # loop
    /\ EligibleCondition(loop.body).pos # loop.pos

\* An & that is negated.
FlipsAnd(list) == \E e \in UNION {Subterms(c) : c \in Conditions(list)} :
    e.kind = "not" /\ countNegationDepth(e)[1].op = BitwiseAnd

-----------------------------------------------------------------------------
Init == source \in Trees /\ tree = source /\ step = 0 /\ flaws = {}

ConsecutiveCombiner ==
    /\ Turn("consecutive")
    /\ tree' = optimizeSequence(tree)
    /\ flaws' = flaws \cup IF Alike(tree) THEN {"alike"} ELSE {}
    /\ step' = step + 1 /\ UNCHANGED source

NestedCombiner ==
    /\ Turn("nested")
    /\ tree' = VisitNested(tree)
    /\ flaws' = flaws \cup IF Retested(tree) THEN {"retested"} ELSE {}
    /\ step' = step + 1 /\ UNCHANGED source

SimplifyExpressions ==
    /\ Turn("simplify")
    /\ tree' = SimplifyList(tree)
    /\ flaws' = flaws \cup IF FlipsAnd(tree) THEN {"flip"} ELSE {}
    /\ step' = step + 1 /\ UNCHANGED source

Finished == step = Len(Passes) /\ UNCHANGED vars

Next == ConsecutiveCombiner \/ NestedCombiner \/ SimplifyExpressions \/ Finished

Spec == Init /\ [][Next]_vars

-----------------------------------------------------------------------------
RECURSIVE IfsOf(_)
IfsOf(list) ==
    UNION {LET s == list[i]
           IN  CASE s.stmt = "if" -> {s} \cup IfsOf(s.then) \cup IfsOf(s.else)
                 [] s.stmt = "loop" -> IfsOf(s.body)
                 [] OTHER -> {} : i \in DOMAIN list}

RECURSIVE NamesOf(_)
\* The expression statements, in the order of the text.
NamesOf(list) ==
    IF list = <<>> THEN <<>>
    ELSE LET s == Head(list)
         IN  (CASE s.stmt = "if" -> NamesOf(s.then) \o NamesOf(s.else)
                [] s.stmt = "loop" -> NamesOf(s.body)
                [] s.stmt = "expr" -> <<s.name>>
                [] OTHER -> <<>>) \o NamesOf(Tail(list))

(***************************************************************************)
(* The type invariant.  The lists are intrusive: a statement is in one     *)
(* place, and the passes make no new ones.                                 *)
(***************************************************************************)
TypeOK ==
    /\ source \in Trees /\ step \in 0..Len(Passes)
    /\ flaws \subseteq {"alike", "retested", "flip"}
    /\ LET names == NamesOf(tree)
       IN  /\ \A i, j \in DOMAIN names : names[i] = names[j] => i = j
           /\ \A i \in DOMAIN names : \E j \in DOMAIN NamesOf(source) : NamesOf(source)[j] = names[i]

SameRuns(one, other) ==
    \A env \in Starts, draws \in Draws : Run(one, env, draws) = Run(other, env, draws)

(***************************************************************************)
(* However the conditions come out, in and outside of loops, the tree      *)
(* executes the statements that the back end's tree executes, in the same  *)
(* order and as often, and ends the same way, after every pass: the moves  *)
(* of bodies by the combiners, the negations they take along and the       *)
(* terms that the simplifier drops all fit together.                       *)
(***************************************************************************)
SameBehaviour == flaws = {} => SameRuns(source, tree)

(***************************************************************************)
(* expressions.h:187, "It must be possible to invert a comparison by       *)
(* flipping the lowest bit of the operator type": simplifying conditions   *)
(* keeps their values.                                                     *)
(***************************************************************************)
SimplifyingKeepsValues == [][SimplifyExpressions => SameRuns(tree, tree')]_vars
=============================================================================
