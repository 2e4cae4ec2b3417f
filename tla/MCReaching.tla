----------------------------- MODULE MCReaching -----------------------------
(***************************************************************************)
(* Instances of ReachingConditions: all regions of a few blocks.           *)
(***************************************************************************)
EXTENDS ReachingConditions

\* No two conditions look alike.
AllDifferent == [b \in 1 .. N |-> b]

\* The first two compare the same operands, as in x < y and x > y.
FirstTwoAlike == [b \in 1 .. N |-> IF b = 2 THEN 1 ELSE b]

\* Blocks in the order of the region, and the other way round.
UpAndDown == {[b \in 1 .. N |-> [n \in 1 .. N |-> n]], [b \in 1 .. N |-> [n \in 1 .. N |-> N + 1 - n]]}
=============================================================================
