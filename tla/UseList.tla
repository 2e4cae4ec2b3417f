------------------------------ MODULE UseList -------------------------------
(***************************************************************************)
(* Who uses which expression: the intrusive use lists of the AST           *)
(* (ast/expression_use.cpp), the reference counting built on them          *)
(* (ast/expression_user.cpp) and Expression::replaceAllUsesWith            *)
(* (ast/expressions.cpp).                                                  *)
(*                                                                         *)
(* Expressions and statements are users.  A user has operand slots, its    *)
(* ExpressionUses, and all slots that hold the same expression are linked  *)
(* in a list that starts at the expression's firstUse.  An expression that *)
(* loses its last use drops its own operands, and so on recursively.       *)
(***************************************************************************)
EXTENDS Integers, FiniteSets, Sequences

CONSTANTS
    Expr,        \* expressions
    Holder,      \* users that nothing uses: statements, ExpressionReferences
    Slot,        \* ExpressionUse objects
    UserOf,      \* ExpressionUse::getUser
    Overwritten, \* the expressions that setCondition may replace in a statement
    None         \* nullptr

ASSUME SlotAssumption ==
    /\ UserOf \in [Slot -> Expr \cup Holder]
    /\ Expr \cap Holder = {}
    /\ None \notin Expr /\ None \notin Slot /\ None \notin Holder
    /\ Overwritten \subseteq Expr

VARIABLES
    expression,  \* the expression a slot holds
    next,        \* the links of the lists
    prev,
    firstUse,    \* the first slot that holds an expression
    fresh,       \* expressions that nothing has used yet
    stack,       \* the running calls of dropAllExpressionReferences
    replacing    \* the running replaceAllUsesWith, <<from, to>>

links == <<expression, next, prev, firstUse>>
vars == <<links, fresh, stack, replacing>>

Slots(user) == {u \in Slot : UserOf[u] = user}
UsesOf(e) == {u \in Slot : expression[u] = e}

\* No operand is missing.
Complete(e) == \A u \in Slots(e) : expression[u] # None

\* What a pass may still put into a slot: new expressions, and those in use.
Usable(e) == Complete(e) /\ (e \in fresh \/ firstUse[e] # None)

Idle == stack = <<>> /\ replacing = None

Init ==
    /\ expression = [u \in Slot |-> None]
    /\ next = [u \in Slot |-> None]
    /\ prev = [u \in Slot |-> None]
    /\ firstUse = [e \in Expr |-> None]
    /\ fresh = Expr
    /\ stack = <<>>
    /\ replacing = None

-----------------------------------------------------------------------------
\* Mutant: unlinking forgets the back pointer of the slot that follows.
setUseKeepsPrev(u, target) ==
    IF expression[u] = target THEN UNCHANGED links
    ELSE LET first_ == IF prev[u] = None /\ expression[u] # None
                       THEN [firstUse EXCEPT ![expression[u]] = next[u]] ELSE firstUse
             next_  == IF prev[u] # None THEN [next EXCEPT ![prev[u]] = next[u]] ELSE next
             head   == IF target # None THEN first_[target] ELSE None
             prev_  == [prev EXCEPT ![u] = None]
         IN  /\ expression' = [expression EXCEPT ![u] = target]
             /\ next' = [next_ EXCEPT ![u] = head]
             /\ firstUse' = IF target # None THEN [first_ EXCEPT ![target] = u] ELSE first_
             /\ prev' = IF head # None THEN [prev_ EXCEPT ![head] = u] ELSE prev_

(***************************************************************************)
(* ExpressionUse::setUse.  The first half takes the slot out of its list   *)
(* (setPrevNext, setNextPrev), the second puts it first in another.        *)
(***************************************************************************)
setUse(u, target) ==
    IF expression[u] = target THEN UNCHANGED links
    ELSE LET before == prev[u]
             after  == next[u]
             next_  == IF before # None THEN [next EXCEPT ![before] = after] ELSE next
             first_ == IF before = None /\ expression[u] # None
                       THEN [firstUse EXCEPT ![expression[u]] = after] ELSE firstUse
             prev_  == IF after # None THEN [prev EXCEPT ![after] = before] ELSE prev
             head   == IF target # None THEN first_[target] ELSE None
             prev__ == [prev_ EXCEPT ![u] = None]
         IN  /\ expression' = [expression EXCEPT ![u] = target]
             /\ next' = [next_ EXCEPT ![u] = head]
             /\ firstUse' = IF target # None THEN [first_ EXCEPT ![target] = u] ELSE first_
             /\ prev' = IF head # None THEN [prev__ EXCEPT ![head] = u] ELSE prev__

(***************************************************************************)
(* Building and changing the tree                                          *)
(***************************************************************************)
\* setOperand on a slot that is empty: the constructor of an expression, or a
\* statement that is new or has dropped its operands.
SetOperand(u, e) ==
    /\ Idle
    /\ expression[u] = None
    /\ UserOf[u] \in (fresh \ {e}) \cup Holder
    /\ Usable(e)
    /\ setUse(u, e)
    /\ fresh' = fresh \ {e}
    /\ UNCHANGED <<stack, replacing>>

\* setCondition on a statement that has a condition already.  Nothing checks
\* whether the old one was still used elsewhere.
SetCondition(u, e) ==
    /\ Idle
    /\ UserOf[u] \in Holder
    /\ expression[u] \in Overwritten
    /\ Usable(e)
    /\ setUse(u, e)
    /\ fresh' = fresh \ {e}
    /\ UNCHANGED <<stack, replacing>>

-----------------------------------------------------------------------------
(***************************************************************************)
(* Reference counting                                                      *)
(***************************************************************************)
\* A call of dropAllReferences: the user and the operands still to be visited.
Frame(user) == [user |-> user, operands |-> Slots(user)]

\* Mutant: reset forgets to drop the expression it has replaced.
ResetWithoutDrop(u, e) ==
    /\ Idle
    /\ UserOf[u] \in Holder
    /\ e # None => Usable(e)
    /\ setUse(u, e)
    /\ fresh' = fresh \ {e}
    /\ UNCHANGED <<stack, replacing>>

\* ExpressionReference::reset, which the assignment operators use as well: the
\* new expression is in the slot before the old one is dropped.
Reset(u, e) ==
    LET current == expression[u] IN
    /\ Idle
    /\ UserOf[u] \in Holder
    /\ e # None => Usable(e)
    /\ setUse(u, e)
    /\ fresh' = fresh \ {e}
    /\ stack' = IF current # None /\ firstUse'[current] = None THEN <<Frame(current)>> ELSE <<>>
    /\ UNCHANGED replacing

\* dropAllReferences of a statement that is removed, or ~ExpressionReference.
DropAllReferences(user) ==
    /\ Idle
    /\ user \in Holder
    /\ stack' = <<Frame(user)>>
    /\ UNCHANGED <<links, fresh, replacing>>

\* Mutant: the operands are dropped even if the expression is still used.
DropOperandStillUsed(u) ==
    /\ stack # <<>>
    /\ u \in Head(stack).operands
    /\ LET expr == expression[u]
           rest == <<[Head(stack) EXCEPT !.operands = @ \ {u}]>> \o Tail(stack)
       IN  /\ setUse(u, None)
           /\ stack' = IF expr # None THEN <<Frame(expr)>> \o rest ELSE rest
    /\ UNCHANGED <<fresh, replacing>>

\* dropAllExpressionReferences visits an operand: it lets go of it, and drops
\* the operands of an expression that is no longer used.
DropOperand(u) ==
    /\ stack # <<>>
    /\ u \in Head(stack).operands
    /\ LET expr == expression[u]
           rest == <<[Head(stack) EXCEPT !.operands = @ \ {u}]>> \o Tail(stack)
       IN  /\ setUse(u, None)
           /\ stack' = IF expr # None /\ firstUse'[expr] = None
                       THEN <<Frame(expr)>> \o rest ELSE rest
    /\ UNCHANGED <<fresh, replacing>>

DropReturn ==
    /\ stack # <<>>
    /\ Head(stack).operands = {}
    /\ stack' = Tail(stack)
    /\ UNCHANGED <<links, fresh, replacing>>

(***************************************************************************)
(* replaceAllUsesWith, followed by dropAllReferences as in all its callers *)
(* (ast/pass_simplifyexpressions.cpp)                                      *)
(***************************************************************************)
\* The expressions that are reached through the operands of a set of them.
Operands(S) == S \cup ({expression[u] : u \in {v \in Slot : UserOf[v] \in S}} \ {None})
Below(S) ==
    LET below[n \in 0 .. Cardinality(Expr)] == IF n = 0 THEN S ELSE Operands(below[n - 1])
    IN  below[Cardinality(Expr)]

\* Mutant: an expression may be replaced with itself.
ReplaceAllUsesWithSelf(e, to) ==
    /\ Idle
    /\ firstUse[e] # None
    /\ Usable(to)
    /\ e = to \/ e \notin Below({to})
    /\ replacing' = <<e, to>>
    /\ UNCHANGED <<links, fresh, stack>>

\* The replacement is an operand of an operand, or new and built from such.
ReplaceAllUsesWith(e, to) ==
    /\ Idle
    /\ firstUse[e] # None
    /\ e # to
    /\ Usable(to)
    /\ e \notin Below({to})
    /\ replacing' = <<e, to>>
    /\ UNCHANGED <<links, fresh, stack>>

ReplaceUse ==
    /\ replacing # None
    /\ firstUse[replacing[1]] # None
    /\ setUse(firstUse[replacing[1]], replacing[2])
    /\ fresh' = fresh \ {replacing[2]}
    /\ UNCHANGED <<stack, replacing>>

ReplaceReturn ==
    /\ replacing # None
    /\ firstUse[replacing[1]] = None
    /\ stack' = <<Frame(replacing[1])>>
    /\ replacing' = None
    /\ UNCHANGED <<links, fresh>>

Next ==
    \/ \E u \in Slot, e \in Expr : SetOperand(u, e) \/ SetCondition(u, e)
    \/ \E u \in Slot, e \in Expr \cup {None} : Reset(u, e)
    \/ \E user \in Holder : DropAllReferences(user)
    \/ \E u \in Slot : DropOperand(u)
    \/ DropReturn
    \/ \E e, to \in Expr : ReplaceAllUsesWith(e, to)
    \/ ReplaceUse
    \/ ReplaceReturn

Spec == Init /\ [][Next]_vars

\* A call that is running goes on until it returns.
FairSpec == Spec /\ WF_vars(~Idle /\ Next)

-----------------------------------------------------------------------------
(***************************************************************************)
(* Properties                                                              *)
(***************************************************************************)
\* The pointers of expression_use.h and the running calls have their types.
TypeOK ==
    /\ expression \in [Slot -> Expr \cup {None}]
    /\ next \in [Slot -> Slot \cup {None}]
    /\ prev \in [Slot -> Slot \cup {None}]
    /\ firstUse \in [Expr -> Slot \cup {None}]
    /\ fresh \subseteq Expr
    /\ stack \in Seq([user : Expr \cup Holder, operands : SUBSET Slot])
    /\ replacing \in (Expr \X Expr) \cup {None}

\* A set of slots that an iteration over e->uses() cannot leave.
HoldsIteration(S, e) ==
    /\ firstUse[e] # None => firstUse[e] \in S
    /\ \A u \in S : next[u] # None => next[u] \in S

\* Expression::uses() visits exactly the slots that hold the expression: they
\* are the smallest set that its iteration does not leave.
UsesExact ==
    \A e \in Expr :
        /\ HoldsIteration(UsesOf(e), e)
        /\ \A S \in SUBSET Slot : HoldsIteration(S, e) => UsesOf(e) \subseteq S

\* expression_user.h:182, "hold a reference to expressions that must not be
\* dropped yet": an expression that is used, by a reference, a statement or
\* another expression, has all of its operands.
UsedIsComplete == \A e \in Expr : firstUse[e] # None => Complete(e)

\* Reference counting leaves no garbage behind: when no call is running, an
\* expression that has been used and no longer is has let go of its operands.
\* Only those that setCondition replaces may be left behind with theirs.
NoGarbage ==
    Idle => \A e \in Expr \ (fresh \cup Overwritten) :
                firstUse[e] = None => \A u \in Slots(e) : expression[u] = None

\* Dropping and replacing come to an end.
CallsReturn == ~Idle ~> Idle

=============================================================================
