--------------------------- MODULE MCStructurizer ---------------------------
(***************************************************************************)
(* Instances of Structurizer: functions of a few blocks, from which an     *)
(* instance takes a class.  The successors of a block are ascending, since *)
(* only conditions depend on the order in which a branch lists them.       *)
(***************************************************************************)
EXTENDS Structurizer

\* Variables of redirectors have the same name and type and compare equal.
DispatchAlike == [a \in Atoms |-> IF a[1] <= N THEN a ELSE <<N + 1, a[2]>>]

\* Branches with a number of targets, the first of which is taken if a condition
\* holds.
Branches(widths) ==
    {s \in UNION {[1 .. n -> 2 .. N] : n \in widths} : \A i \in 1 .. Len(s) - 1 : s[i] < s[i + 1]}

\* The first block leads to the second one, which may be in a loop and may end
\* with a switch.  Every block is reached from an earlier one.
Functions(widths) ==
    {p \in {<<<<2>>, b>> \o tail : b \in Branches(widths), tail \in [1 .. N - 2 -> Branches(0 .. 2)]} :
        \A b \in 2 .. N : \E a \in 1 .. b - 1 : Contains(p[a], b)}

\* All functions with two-way branches, and those with a switch and simple loops.
SmallFunctions == Functions(0 .. 2) \cup {p \in Functions({3}) : SimpleLoops(p)}

\* A loop that is left to two blocks, one of which is reached without it.
TwoExits == {<<<<2, 4>>, <<3, 4>>, <<2, 5>>, <<5>>, <<>>>>}

\* A loop of one block whose switch leaves it to two blocks, in another loop.
SwitchInLoop == {<<<<2>>, <<3, 5>>, <<2, 3, 4>>, <<2>>, <<>>>>}
=============================================================================
