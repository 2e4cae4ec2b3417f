------------------------- MODULE ReachingConditions -------------------------
(***************************************************************************)
(* How the structurizer (ast/pass_backend.cpp) replaces the branches of an *)
(* acyclic region with conditions: foldBasicBlocks collects the conditions *)
(* along every path to a block, factors out what all paths have in common  *)
(* and simplifies the rest with createDisjunction.  The block ends up      *)
(* nested in one if statement per common condition and one for the rest.   *)
(***************************************************************************)
EXTENDS Conditions

CONSTANTS
    N,        \* number of blocks of the region, numbered in reverse postorder
    Orders    \* orders in which LLVM may list the predecessors of each block

\* Every block has one place in an order.
IsOrder(visited) ==
    /\ visited \in [1 .. N -> 1 .. N]
    /\ \A p \in 1 .. N : \E n \in 1 .. N : visited[n] = p
    /\ \A m, n \in 1 .. N : visited[m] = visited[n] => m = n

ASSUME RegionAssumption ==
    /\ N \in Nat \ {0} /\ DOMAIN Shape = 1 .. N
    /\ \A order \in Orders : \A b \in 1 .. N : IsOrder(order[b])

Block == 1 .. N
Exit == N + 1

\* A region: the two successors of every block.  A block with one successor ends
\* in an unconditional branch.
Regions ==
    {r \in [Block -> (2 .. Exit) \X (2 .. Exit)] :
        /\ \A b \in Block : r[b][1] > b /\ r[b][2] > b
        /\ \A b \in Block \ {1} : \E p \in Block : b \in {r[p][1], r[p][2]}}

VARIABLES
    succ,       \* the region
    order,      \* the order in which the edges to a block are visited
    reaching,   \* reachingConditions of the blocks that are folded
    nesting     \* the if statements around them

vars == <<succ, order, reaching, nesting>>

-----------------------------------------------------------------------------
(***************************************************************************)
(* Edges and conditions                                                    *)
(***************************************************************************)
\* The condition of the edge as a sequence: the condition of the block or its
\* negation, or nothing for expressionForTrue.
EdgeCondition(from, to) ==
    IF succ[from][1] = succ[from][2] THEN <<>>
    ELSE <<[atom |-> from, negated |-> to # succ[from][1]]>>

Precedes(p, b) == b \in {succ[p][1], succ[p][2]}

-----------------------------------------------------------------------------
(***************************************************************************)
(* foldBasicBlocks                                                         *)
(***************************************************************************)
\* Mutant: the condition of the edge is added to the last path only.
PathsThroughLastOnly(p, b) ==
    LET edge == EdgeCondition(p, b)
    IN  IF reaching[p] = <<>>
        THEN IF edge = <<>> THEN <<>> ELSE <<edge>>
        ELSE [reaching[p] EXCEPT ![Len(reaching[p])] = @ \o edge]

\* The paths to a block: those of its predecessors, each with the condition of
\* the edge.  A block that is reached unconditionally has no paths.
PathsThrough(p, b) ==
    LET edge == EdgeCondition(p, b)
    IN  IF reaching[p] = <<>>
        THEN IF edge = <<>> THEN <<>> ELSE <<edge>>
        ELSE [i \in DOMAIN reaching[p] |-> reaching[p][i] \o edge]

\* The loop over the edges to a block.
Disjunction(b) ==
    LET collected[n \in 0 .. N] ==
            IF n = 0 THEN <<>>
            ELSE LET p == order[b][n] IN
                 collected[n - 1] \o (IF Precedes(p, b) THEN PathsThrough(p, b) ELSE <<>>)
    IN  collected[N]

Init ==
    /\ succ \in Regions
    /\ order \in Orders
    /\ reaching = <<>>
    /\ nesting = <<>>

\* The next block is folded into the sequence.
FoldBlock ==
    LET b == Len(reaching) + 1 IN
    /\ b \in Block
    /\ reaching' = Append(reaching, Disjunction(b))
    /\ nesting' = Append(nesting, IF Disjunction(b) = <<>> THEN [common |-> <<>>, rest |-> <<>>]
                                  ELSE Nest(Disjunction(b)))
    /\ UNCHANGED <<succ, order>>

Done == Len(reaching) = N /\ UNCHANGED vars

Next == FoldBlock \/ Done

Spec == Init /\ [][Next]_vars

-----------------------------------------------------------------------------
(***************************************************************************)
(* Properties                                                              *)
(***************************************************************************)
\* The block to which the branch at the end of a block goes.
NextBlock(region, value, p) == IF p = Exit THEN Exit ELSE region[p][IF value[p] THEN 1 ELSE 2]

\* The blocks that the branches execute for given values of the conditions.
Executed(region, value) ==
    LET at[n \in Nat] == IF n = 0 THEN 1 ELSE NextBlock(region, value, at[n - 1])
    IN  {b \in Block : \E n \in 0 .. N : at[n] = b}

\* foldBasicBlocks, "Create reaching condition": the if statements around a
\* block let it execute exactly when the branches of the region reach it.
GuardsExact ==
    \A b \in DOMAIN nesting : \A value \in [Block -> BOOLEAN] :
        Guarded(nesting[b], value) <=> b \in Executed(succ, value)

=============================================================================
