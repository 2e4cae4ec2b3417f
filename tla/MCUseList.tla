----------------------------- MODULE MCUseList ------------------------------
(***************************************************************************)
(* Instances of UseList: a leaf, some unary expressions, a binary one, a    *)
(* statement and an ExpressionReference.                                   *)
(***************************************************************************)
EXTENDS UseList

CONSTANTS leaf, Unary, binary, statement, reference

MCExpr == {leaf, binary} \cup Unary
MCHolder == {statement, reference}

\* The operands of a user: how many it has is fixed when it is allocated.
Arity == [user \in MCExpr \cup MCHolder |->
            CASE user = leaf -> 0 [] user = binary -> 2 [] OTHER -> 1]

MCSlot == UNION {{<<user, i>> : i \in 1 .. Arity[user]} : user \in MCExpr \cup MCHolder}
MCUserOf == [u \in MCSlot |-> u[1]]
=============================================================================
