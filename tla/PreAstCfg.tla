------------------------------ MODULE PreAstCfg -----------------------------
(***************************************************************************)
(* The graph that the structurizer works on (ast/pre_ast_cfg.cpp): blocks  *)
(* with the statements they hold, and edges with conditions, which both    *)
(* of their ends list.  Blocks and edges are numbered as they are created. *)
(*                                                                         *)
(* The dominator tree, the post-dominator tree and the dominance frontiers *)
(* of LLVM are given by the definitions of these notions.                  *)
(***************************************************************************)
EXTENDS Naturals, FiniteSets, SequencesExt

CONSTANT None   \* nullptr

\* The graph without blocks.
EmptyGraph == [edges |-> <<>>, predecessors |-> <<>>, successors |-> <<>>, statements |-> <<>>]

Blocks(g) == DOMAIN g.successors
From(g, e) == g.edges[e].from
To(g, e) == g.edges[e].to

createBlock(g, statements) ==
    [g EXCEPT !.predecessors = Append(@, <<>>), !.successors = Append(@, <<>>),
              !.statements = Append(@, statements)]

\* createEdge, after which all callers add the edge to the lists of both ends.
createEdge(g, from, to, condition) ==
    LET e == Len(g.edges) + 1
    IN  [g EXCEPT !.edges = Append(@, [from |-> from, to |-> to, edgeCondition |-> condition]),
                  !.successors[from] = Append(@, e), !.predecessors[to] = Append(@, e)]

\* Mutant: the block that the edge now leads to is not told.
setToUnlisted(g, e, newTo) ==
    [g EXCEPT !.predecessors[To(g, e)] = Remove(@, e), !.edges[e].to = newTo]

\* PreAstBasicBlockEdge::setTo
setTo(g, e, newTo) ==
    LET old == [g EXCEPT !.predecessors[To(g, e)] = Remove(@, e)]
    IN  [old EXCEPT !.predecessors[newTo] = Append(@, e), !.edges[e].to = newTo]

\* PreAstBasicBlock::swap: the blocks trade places in the graph.
swap(g, a, b) ==
    LET other(c) == IF c = a THEN b ELSE IF c = b THEN a ELSE c
    IN  [edges |-> [e \in DOMAIN g.edges |->
                       [g.edges[e] EXCEPT !.from = other(@), !.to = other(@)]],
         predecessors |-> [c \in Blocks(g) |-> g.predecessors[other(c)]],
         successors   |-> [c \in Blocks(g) |-> g.successors[other(c)]],
         statements   |-> [c \in Blocks(g) |-> g.statements[other(c)]]]

\* The condition that the variable of a redirector has the value of a case.
CaseCondition(redirector, case) == <<[atom |-> <<redirector, case>>, negated |-> FALSE]>>

\* One turn of createRedirectorBlock's loop.  An edge is led to the new block
\* and the block it comes from remembers where it was going to.
Redirect(g, targets, redirector, e) ==
    LET to    == To(g, e)
        known == Contains(targets, to)
        all   == IF known THEN targets ELSE Append(targets, to)
        case  == (CHOOSE i \in DOMAIN all : all[i] = to) - 1
        g1    == IF known THEN g
                 ELSE createEdge(g, redirector, to, CaseCondition(redirector, case))
        g2    == [g1 EXCEPT !.statements[From(g1, e)] =
                     Append(@, [kind |-> "dispatch", variable |-> redirector, case |-> case])]
    IN  [graph |-> setTo(g2, e, redirector), targets |-> all]

createRedirectorBlock(g, redirected) ==
    LET new == Len(g.successors) + 1
        step(acc, e) == Redirect(acc.graph, acc.targets, new, e)
    IN  FoldLeft(step, [graph |-> createBlock(g, <<>>), targets |-> <<>>], redirected).graph

-----------------------------------------------------------------------------
(***************************************************************************)
(* Dominance                                                               *)
(***************************************************************************)
Successors(g, b) == {To(g, e) : e \in ToSet(g.successors[b])}

\* The blocks reached along a relation from some without going through others.
RECURSIVE Reach(_, _, _)
Reach(next, blocks, avoided) ==
    LET more == UNION {next[b] : b \in blocks} \ (blocks \cup avoided)
    IN  IF more = {} THEN blocks ELSE Reach(next, blocks \cup more, avoided)

SuccessorMap(g) == [b \in Blocks(g) |-> Successors(g, b)]
PredecessorMap(g) == [b \in Blocks(g) |-> {From(g, e) : e \in ToSet(g.predecessors[b])}]

\* The blocks that dominate each block, given those reached from the root without
\* going through a block.
Dominators(without) == [b \in DOMAIN without |-> {a \in DOMAIN without : a = b \/ b \notin without[a]}]

Frontier(dom, predecessors) ==
    [a \in DOMAIN dom |-> {b \in DOMAIN dom : /\ a = b \/ a \notin dom[b]
                                              /\ \E c \in predecessors[b] : a \in dom[c]}]

\* The sets of dominators and of post-dominators, and the dominance frontiers.
TreesOf(successors, predecessors) ==
    LET returns == {b \in DOMAIN successors : successors[b] = {}}
        dom     == Dominators([a \in DOMAIN successors |-> Reach(successors, {1} \ {a}, {a})])
    IN  [dom      |-> dom,
         pdom     |-> Dominators([a \in DOMAIN successors |-> Reach(predecessors, returns \ {a}, {a})]),
         frontier |-> Frontier(dom, predecessors)]

Trees(g) == TreesOf(SuccessorMap(g), PredecessorMap(g))

=============================================================================
