----------------------------- MODULE RemoveUndef ----------------------------
(***************************************************************************)
(* The pass that removes assignments of undef (ast/pass_removeundef.cpp).  *)
(* It iterates over the uses of undef, and for each assignment over the    *)
(* uses of that, while the statements it drops take slots out of the very  *)
(* lists it iterates over.                                                 *)
(***************************************************************************)
EXTENDS UseList

CONSTANTS undef,       \* AstContext::expressionForUndef
          Assignment,  \* NAryOperatorExpressions of type Assign...
          Source,      \* ...and the slots of their last operands
          Statement,   \* ExpressionStatements
          context,     \* the slot of the AstContext's reference to undef
          Fits         \* what the backend puts into a slot

ASSUME AssignmentAssumption ==
    /\ context \in Slot /\ Fits \in [Slot -> SUBSET Expr] /\ Fits[context] = {undef}
    /\ undef \in Expr /\ Assignment \subseteq Expr \ {undef} /\ Statement \subseteq Holder
    /\ Source \in [Assignment -> Slot]
    /\ \A a \in Assignment : UserOf[Source[a]] = a
    /\ Overwritten = {}  \* neither the backend nor the pass replaces a condition

VARIABLES
    phase,    \* "build", "uses" (of undef), "statements", "drop", "done"
    use,      \* the iterator over the uses of undef
    inner,    \* the iterator of removeStatementUses
    erased    \* the statements that are out of their lists

pass == <<phase, use, inner, erased>>
passVars == <<vars, pass>>

\* Mutant: undef may be any operand of the assignment.
asUndefAssignmentAnywhere(u) == UserOf[u] \in Assignment

asUndefAssignment(u) ==
    /\ UserOf[u] \in Assignment
    /\ expression[Source[UserOf[u]]] = undef

\* The statements of an assignment of undef.
UndefStatements ==
    {s \in Statement : \E u \in Slots(s) :
        expression[u] \in Assignment /\ expression[Source[expression[u]]] = undef}

PassInit == Init /\ phase = "build" /\ use = None /\ inner = None /\ erased = {}

\* The backend makes expressions and statements.
Build ==
    /\ phase = "build"
    /\ \E u \in Slot : \E e \in Fits[u] : SetOperand(u, e)
    /\ UNCHANGED pass

doRun ==
    /\ phase = "build"
    /\ expression[context] = undef
    /\ phase' = "uses"
    /\ use' = firstUse[undef]
    /\ UNCHANGED <<vars, inner, erased>>

\* The loop over undef->uses().
NextUse ==
    /\ phase = "uses"
    /\ use # None
    /\ IF asUndefAssignment(use)
       THEN phase' = "statements" /\ inner' = firstUse[UserOf[use]] /\ use' = use
       ELSE use' = next[use] /\ UNCHANGED <<phase, inner>>
    /\ UNCHANGED <<vars, erased>>

\* Mutant: the erased statement keeps its expression.
removeStatementUsesNoDrop ==
    /\ phase = "statements"
    /\ inner # None
    /\ erased' = IF UserOf[inner] \in Statement THEN erased \cup {UserOf[inner]} ELSE erased
    /\ inner' = next[inner]
    /\ UNCHANGED <<vars, phase, use>>

\* The loop of removeStatementUses: a statement is erased and dropped.
removeStatementUses ==
    /\ phase = "statements"
    /\ inner # None
    /\ IF UserOf[inner] \in Statement
       THEN /\ erased' = erased \cup {UserOf[inner]}
            /\ DropAllReferences(UserOf[inner])
            /\ phase' = "drop"
            /\ UNCHANGED <<use, inner>>
       ELSE /\ inner' = next[inner]
            /\ UNCHANGED <<vars, phase, use, erased>>

Drop ==
    /\ phase = "drop"
    /\ (\E u \in Slot : DropOperand(u)) \/ DropReturn
    /\ UNCHANGED pass

\* Mutant: the iterator does not advance after a drop.
DroppedStays ==
    /\ phase = "drop"
    /\ Idle
    /\ phase' = "statements"
    /\ UNCHANGED <<vars, use, inner, erased>>

\* The iterators go on from slots that may hold nothing any more.
Dropped ==
    /\ phase = "drop"
    /\ Idle
    /\ phase' = "statements"
    /\ inner' = next[inner]
    /\ UNCHANGED <<vars, use, erased>>

StatementsDone ==
    /\ phase = "statements"
    /\ inner = None
    /\ phase' = "uses"
    /\ use' = next[use]
    /\ UNCHANGED <<vars, inner, erased>>

PassDone ==
    /\ phase = "uses"
    /\ use = None
    /\ phase' = "done"
    /\ UNCHANGED <<vars, use, inner, erased>>

Terminated == phase = "done" /\ UNCHANGED passVars

PassNext ==
    \/ Build
    \/ doRun
    \/ NextUse
    \/ removeStatementUses
    \/ Drop
    \/ Dropped
    \/ StatementsDone
    \/ PassDone
    \/ Terminated

PassSpec == PassInit /\ [][PassNext]_passVars

\* The pass runs to its end.
FairPassSpec == PassSpec /\ WF_passVars(phase # "build" /\ PassNext)

-----------------------------------------------------------------------------
(***************************************************************************)
(* Properties                                                              *)
(***************************************************************************)
\* The iterators and the erased statements have their types.
PassTypeOK ==
    /\ phase \in {"build", "uses", "statements", "drop", "done"}
    /\ use \in Slot \cup {None}
    /\ inner \in Slot \cup {None}
    /\ erased \subseteq Statement

\* A statement is erased only if it was an assignment of undef, and one that is
\* left keeps its expression, with all operands.
OnlyUndefErased ==
    [][/\ erased' \ erased \subseteq UndefStatements
       /\ \A u \in Slot : phase # "build" /\ UserOf[u] \in Statement \ erased' =>
              expression'[u] = expression[u]]_passVars

\* A statement that is erased has let go of its assignment when the pass is done,
\* and an assignment without statements has let go of undef.
ErasedIsDropped ==
    phase = "done" =>
        /\ \A u \in Slot : UserOf[u] \in erased => expression[u] = None
        /\ \A e \in Expr \ fresh : firstUse[e] = None => \A u \in Slots(e) : expression[u] = None

\* The iterators come to the end of the lists that change under them.
PassEnds == phase # "build" ~> phase = "done"

\* pass_removeundef.cpp:57, "Remove undefined assignments": none is left.
UndefAssignmentsRemoved == phase = "done" => UndefStatements = {}

=============================================================================
