----------------------------- MODULE Structurizer ---------------------------
(***************************************************************************)
(* The structurizer (ast/pass_backend.cpp): a control flow graph becomes a *)
(* tree of statements without goto.  Blocks are visited in post-order; a   *)
(* region that begins at the block is folded into a single block, until    *)
(* one block is left.  Then the tree is executed side by side with the     *)
(* graph it was made from.                                                 *)
(***************************************************************************)
EXTENDS Conditions, PreAstCfg

CONSTANTS
    N,          \* number of blocks of a function
    Programs,   \* functions: the successors of each block
    Orders,     \* orders in which LLVM may list the predecessors of a block
    MaxBlock,   \* bound on the number of blocks, created ones included
    MaxCase     \* bound on the cases of a redirector

\* What conditions test: <<0, 0>> is false, <<b, 0>> is the condition of block
\* b's branch, <<b, k>> whether its switch selects its k-th successor, <<r, k>>
\* whether the variable of redirector r is k.
Atoms == (0 .. MaxBlock) \X (0 .. MaxCase)

ASSUME ProgramAssumption ==
    /\ DOMAIN Shape = Atoms
    /\ Orders \subseteq {"up", "down"}
    /\ \A p \in Programs : /\ DOMAIN p = 1 .. N
                           /\ \A b \in 1 .. N : /\ Len(p[b]) \in 0 .. MaxCase
                                                /\ ToSet(p[b]) \subseteq 2 .. N
                                                /\ IsInjective(p[b])

VARIABLES
    program,   \* the function
    phase,     \* "generate", "visit", "folded", "run"; after undefined behaviour, of ranges
               \* "undefined", of lists of edges "unlinked"
    graph,     \* the graph, as far as it is folded
    trees,     \* dominance, as it was before any region was folded
    blocksInReversePostOrder,
    path,      \* po_iterator: the blocks being visited and their next edges
    visited,   \* po_iterator: the blocks it has seen
    exits,     \* the post-dominators that are still to be tried for a region
    rest,      \* the statements that are still to be executed
    value,     \* the number of the successor that each block has last selected
    dispatch,  \* the variables of redirectors
    expected   \* the block that the graph executes next

folding == <<graph, trees, blocksInReversePostOrder, path, visited, exits>>
running == <<rest, value, dispatch, expected>>
vars == <<program, phase, folding, running>>

-----------------------------------------------------------------------------
(***************************************************************************)
(* foldBasicBlocks                                                         *)
(***************************************************************************)
\* A block that loops or branches back makes its range a loop.
IsLoop(g, range) ==
    \E i \in DOMAIN range : \E j \in 1 .. i : range[j] \in Successors(g, range[i])

\* The edges of a block that leave a set of blocks.
Leaving(g, b, members) == SelectSeq(g.successors[b], LAMBDA e : To(g, e) \notin members)

\* Mutant: only the block that decides where the loop exits to gets a break.
AddBreakToLast(g, range) ==
    LET members == ToSet(range)
        leaving == SelectSeq(range, LAMBDA b : Leaving(g, b, members) # <<>>)
        edge    == Leaving(g, Last(leaving), members)[1]
    IN  IF leaving = <<>> THEN g
        ELSE [g EXCEPT !.statements[Last(leaving)] =
                 Append(@, [kind |-> "break", condition |-> g.edges[edge].edgeCondition])]

\* The breaks: to where the first leaving edge of the last block that has one
\* goes, and from all members of the loop that branch there.
AddBreaks(g, range) ==
    LET members == ToSet(range)
        leaving == SelectSeq(range, LAMBDA b : Leaving(g, b, members) # <<>>)
        exit    == To(g, Leaving(g, Last(leaving), members)[1])
        inner   == SelectSeq(g.predecessors[exit], LAMBDA e : From(g, e) \in members)
        break(h, e) == [h EXCEPT !.statements[From(h, e)] =
                           Append(@, [kind |-> "break", condition |-> g.edges[e].edgeCondition])]
    IN  IF leaving = <<>> THEN g ELSE FoldLeft(break, g, inner)

\* Mutant: a branch of a block to itself is taken for a path to it.
ReachingFromSelf(g, range, reaching, b) ==
    LET known == SelectSeq(g.predecessors[b], LAMBDA e :
                     \E i \in 1 .. Len(reaching) + 1 : range[i] = From(g, e))
        through(e) ==
            LET paths == Append(reaching, <<>>)[CHOOSE i \in DOMAIN range : range[i] = From(g, e)]
                edge  == g.edges[e].edgeCondition
            IN  IF paths = <<>> THEN (IF edge = <<>> THEN <<>> ELSE <<edge>>)
                ELSE [i \in DOMAIN paths |-> paths[i] \o edge]
    IN  FlattenSeq([i \in DOMAIN known |-> through(known[i])])

\* The paths to a block, given those to the blocks of the range before it.
Reaching(g, range, reaching, b) ==
    LET known   == SelectSeq(g.predecessors[b], LAMBDA e :
                       From(g, e) # b /\ \E i \in DOMAIN reaching : range[i] = From(g, e))
        through(e) ==
            LET paths == reaching[CHOOSE i \in DOMAIN reaching : range[i] = From(g, e)]
                edge  == g.edges[e].edgeCondition
            IN  IF paths = <<>> THEN (IF edge = <<>> THEN <<>> ELSE <<edge>>)
                ELSE [i \in DOMAIN paths |-> paths[i] \o edge]
    IN  FlattenSeq([i \in DOMAIN known |-> through(known[i])])

RECURSIVE ReachingAll(_, _, _)
ReachingAll(g, range, reaching) ==
    IF Len(reaching) = Len(range) THEN reaching
    ELSE ReachingAll(g, range,
                     Append(reaching, Reaching(g, range, reaching, range[Len(reaching) + 1])))

\* The statements of a range of blocks, which are taken out of the blocks and
\* put into ifs for the conditions under which each block is reached.
Collect(g, range, loop, reaching) ==
    LET wrap(i) == LET body == g.statements[range[i]]
                   IN  IF reaching[i] = <<>> THEN body
                       ELSE <<[kind |-> "if", guard |-> Nest(reaching[i]), body |-> body]>>
        whole(body) == IF loop THEN <<[kind |-> "loop", body |-> body]>> ELSE body
    IN  [graph     |-> [g EXCEPT !.statements = [b \in Blocks(g) |->
                           IF b \in ToSet(range) THEN <<>> ELSE @[b]]],
         statement |-> whole(FlattenSeq([i \in DOMAIN range |-> wrap(i)]))]

CollectReached(g, range, loop) == Collect(g, range, loop, ReachingAll(g, range, <<>>))

foldBasicBlocks(g, range) ==
    LET loop == IsLoop(g, range)
    IN  CollectReached(IF loop THEN AddBreaks(g, range) ELSE g, range, loop)

-----------------------------------------------------------------------------
(***************************************************************************)
(* splitAndFoldRegion                                                      *)
(***************************************************************************)
RECURSIVE Search(_, _, _, _, _)

\* The depth-first search for loop nodes.  An edge to a block that is being
\* visited, or to a loop node, makes loop nodes of all blocks being visited.
Search(g, all, stack, nodes, backEdges) ==
    IF stack = <<>> THEN [nodes |-> nodes, backEdges |-> backEdges]
    ELSE LET top     == Last(stack)
             edges   == g.successors[top.block]
             to      == To(g, edges[top.next])
             next    == [stack EXCEPT ![Len(stack)].next = @ + 1]
             onStack == \E i \in DOMAIN stack : stack[i].block = to
             blocks  == [i \in DOMAIN stack |-> stack[i].block]
         IN  IF top.next > Len(edges) THEN Search(g, all, Front(stack), nodes, backEdges)
             ELSE IF to \notin all THEN Search(g, all, next, nodes, backEdges)
             ELSE IF onStack \/ Contains(nodes, to)
             THEN Search(g, all, next,
                         nodes \o SelectSeq(blocks, LAMBDA b : ~Contains(nodes, b)),
                         IF onStack THEN Append(backEdges, edges[top.next]) ELSE backEdges)
             ELSE Search(g, all, Append(next, [block |-> to, next |-> 1]), nodes, backEdges)

\* Whether edges lead to different blocks.
Diverge(g, edges) == \E i \in DOMAIN edges : To(g, edges[i]) # To(g, edges[1])

Position(range, b) == CHOOSE i \in DOMAIN range : range[i] = b

\* Mutant: the new block goes before the first one and does not trade places.
WithEntryUnswapped(g, range, nodes, entering) ==
    LET new == Len(g.successors) + 1
    IN  IF ~Diverge(g, entering) THEN [graph |-> g, range |-> range, entry |-> range[1]]
        ELSE [graph |-> createRedirectorBlock(g, entering), range |-> <<new>> \o range, entry |-> new]

\* A loop gets a single entry: a new block before it, or one that trades
\* places with the first block of the region.
WithEntry(g, range, nodes, entering) ==
    LET new     == Len(g.successors) + 1
        made    == createRedirectorBlock(g, entering)
        first   == CHOOSE i \in DOMAIN range : /\ Contains(nodes, range[i])
                                               /\ \A j \in 1 .. i - 1 : ~Contains(nodes, range[j])
    IN  IF ~Diverge(g, entering) THEN [graph |-> g, range |-> range, entry |-> range[1]]
        ELSE IF first # 1
        THEN [graph |-> made, range |-> InsertAt(range, first, new), entry |-> new]
        ELSE [graph |-> swap(made, new, range[1]), range |-> InsertAt(range, 2, new), entry |-> new]

\* Mutant: the exit goes before the block that leaves the loop first.
WithExitFirst(g, range, exiting) ==
    LET new == Len(g.successors) + 1
    IN  IF ~Diverge(g, exiting) THEN [graph |-> g, range |-> range, exit |-> None]
        ELSE [graph |-> createRedirectorBlock(g, exiting),
              range |-> InsertAt(range, Position(range, From(g, exiting[1])), new),
              exit  |-> new]

\* ...and a single exit, which goes before the block that leaves the loop last.
WithExit(g, range, exiting) ==
    LET new == Len(g.successors) + 1
    IN  IF ~Diverge(g, exiting) THEN [graph |-> g, range |-> range, exit |-> None]
        ELSE [graph |-> createRedirectorBlock(g, exiting),
              range |-> InsertAt(range, Position(range, From(g, Last(exiting))), new),
              exit  |-> new]

\* The edges that enter and leave loop nodes, branches back included.
Entering(g, found) ==
    found.backEdges \o FlattenSeq([i \in DOMAIN found.nodes |->
        SelectSeq(g.predecessors[found.nodes[i]], LAMBDA e : ~Contains(found.nodes, From(g, e)))])
Exiting(g, nodes) ==
    FlattenSeq([i \in DOMAIN nodes |->
        SelectSeq(g.successors[nodes[i]], LAMBDA e : ~Contains(nodes, To(g, e)))])

\* Ranges are folded one after the other.
FoldAll(g, ranges) ==
    LET append(acc, fold) == [graph |-> fold.graph, statement |-> acc.statement \o fold.statement]
        step(acc, range)  == append(acc, foldBasicBlocks(acc.graph, range))
    IN  FoldLeft(step, [graph |-> g, statement |-> <<>>], ranges)

\* The ranges before the loop, of the loop and after it.  A loop whose exit is
\* placed before its entry is a range without an end.
FoldParts(entry, closed) ==
    LET range == closed.range
        start == Position(range, entry)
        stop  == IF closed.exit = None THEN Len(range) + 1 ELSE Position(range, closed.exit)
        parts == <<SubSeq(range, 1, start - 1), SubSeq(range, start, stop - 1),
                   SubSeq(range, stop, Len(range))>>
    IN  [fold    |-> FoldAll(closed.graph, SelectSeq(parts, LAMBDA part : part # <<>>)),
         range   |-> range,
         ordered |-> start < stop]

CloseAndFold(opened, exiting) ==
    FoldParts(opened.entry, WithExit(opened.graph, opened.range, exiting))

OpenAndFold(g, region, found) ==
    CloseAndFold(WithEntry(g, region, found.nodes, Entering(g, found)), Exiting(g, found.nodes))

\* The search only sees the blocks of a region up to the end of the list.
splitAndFoldRegion(g, region, upToEnd) ==
    OpenAndFold(g, region, Search(g, IF upToEnd THEN ToSet(region) ELSE {},
                                  <<[block |-> region[1], next |-> 1]>>, <<>>, <<>>))

-----------------------------------------------------------------------------
(***************************************************************************)
(* Regions                                                                 *)
(***************************************************************************)
InTree(b) == b \in DOMAIN trees.dom

\* domTree.dominates: a block that is not in the tree is dominated by all.
Dominates(a, b) == a = b \/ ~InTree(b) \/ (InTree(a) /\ a \in trees.dom[b])
ProperlyDominates(a, b) == a # b /\ InTree(a) /\ InTree(b) /\ a \in trees.dom[b]

isRegion(entry, exit) ==
    LET onEntry == trees.frontier[entry]
        onExit  == trees.frontier[exit]
    IN  /\ ~Dominates(entry, exit) => onEntry \subseteq {entry, exit}
        /\ \A b \in onEntry \ {entry, exit} :
              /\ b \in onExit
              /\ \A e \in ToSet(graph.predecessors[b]) :
                    ~(Dominates(entry, From(graph, e)) /\ ~Dominates(exit, From(graph, e)))
        /\ \A b \in onExit : ProperlyDominates(entry, b) => b = exit

regionContains(entry, exit, b) ==
    /\ InTree(b)
    /\ exit # None => /\ Dominates(entry, b)
                      /\ ~(Dominates(exit, b) /\ Dominates(entry, exit))

\* The edges out of some blocks are all in the lists of the blocks they lead to, once.
\* To erase what remove has not found is undefined, and of two one would be left.
Linked(g, blocks) ==
    \A b \in blocks : \A e \in ToSet(g.successors[b]) :
        Len(SelectSeq(g.predecessors[To(g, e)], LAMBDA e_ : e_ = e)) = 1

\* The edges out of some blocks are taken away.
ClearSuccessors(g, blocks) ==
    LET gone == UNION {ToSet(g.successors[b]) : b \in blocks}
    IN  [g EXCEPT !.predecessors = [b \in Blocks(g) |-> SelectSeq(@[b], LAMBDA e : e \notin gone)],
                  !.successors = [b \in Blocks(g) |-> IF b \in blocks THEN <<>> ELSE @[b]]]

\* The exit of a folded region is left with one edge from it, which is always
\* taken, and the entry is the only block of the region in the list.
Merge(entry, exit, others, split) ==
    LET folded  == [split.fold.graph EXCEPT !.statements[entry] = split.fold.statement]
        cleared == ClearSuccessors(folded, ToSet(split.range))
        leading == SelectSeq(cleared.predecessors[exit], LAMBDA e :
                       ~regionContains(entry, exit, From(cleared, e)))
    IN  [graph   |-> IF exit = None THEN cleared
                     ELSE createEdge([cleared EXCEPT !.predecessors[exit] = leading],
                                     entry, exit, <<>>),
         list    |-> <<split.range[1]>> \o others,
         ordered |-> split.ordered,
         linked  |-> Linked(folded, ToSet(split.range))]

NotReduced ==
    [graph |-> graph, list |-> blocksInReversePostOrder, ordered |-> TRUE, linked |-> TRUE]

\* The region from the first block of the list to an exit, or to the end of the
\* function.
reduceRegion(exit) ==
    LET list   == blocksInReversePostOrder
        entry  == list[1]
        region == SelectSeq(list, LAMBDA b : regionContains(entry, exit, b))
        others == SelectSeq(list, LAMBDA b : ~regionContains(entry, exit, b))
    IN  IF Len(region) = 1 /\ entry \notin Successors(graph, entry) THEN NotReduced
        ELSE Merge(entry, exit, others, splitAndFoldRegion(graph, region, others = <<>>))

-----------------------------------------------------------------------------
(***************************************************************************)
(* structurizeFunction                                                     *)
(***************************************************************************)
\* generateBlocks: edges are created target by target.
Generate(p, order) ==
    LET up       == [b \in 1 .. N |-> b]
        sources  == IF order = "up" THEN up ELSE Reverse(up)
        blocks   == FoldLeft(LAMBDA g, b : createBlock(g, <<[kind |-> "block", block |-> b]>>),
                             EmptyGraph, up)
        into(b)  == LET preds == SelectSeq(sources, LAMBDA a : Contains(p[a], b))
                    IN  [i \in DOMAIN preds |-> <<preds[i], b>>]
        condition(a, b) == IF Len(p[a]) = 1 THEN <<>>
                           ELSE IF Len(p[a]) = 2 THEN <<[atom |-> <<a, 0>>, negated |-> b # p[a][1]]>>
                           ELSE <<[atom |-> <<a, Position(p[a], b)>>, negated |-> FALSE]>>
    IN  FoldLeft(LAMBDA g, pair : createEdge(g, pair[1], pair[2], condition(pair[1], pair[2])),
                 blocks, FlattenSeq([b \in 1 .. N |-> into(b)]))

\* The loops that are never left, each as the set of its blocks.
EndlessLoops(successors) ==
    LET after == [b \in DOMAIN successors |-> Reach(successors, successors[b], {})]
    IN  {loop \in {after[b] : b \in DOMAIN after} \ {{}} : \A b \in loop : after[b] = loop}

FalseCondition == <<[atom |-> <<0, 0>>, negated |-> FALSE]>>

Init ==
    /\ program \in Programs
    /\ phase = "generate"
    /\ \E order \in Orders : graph = Generate(program, order)
    /\ trees = None
    /\ blocksInReversePostOrder = <<>>
    /\ path = <<>>
    /\ visited = {}
    /\ exits = <<>>
    /\ rest = <<>>
    /\ \E stale \in 1 .. MaxCase : /\ value = [b \in 1 .. N |-> stale]
                                   /\ dispatch = [b \in 1 .. MaxBlock |-> stale - 1]
    /\ expected = 1

\* An endless loop gets a false edge to a block of its own, from one of the
\* blocks by which it is entered.
ensureLoopsExit ==
    /\ phase = "generate"
    /\ LET loops     == EndlessLoops(SuccessorMap(graph))
           entries(l) == {b \in l : \E e \in ToSet(graph.predecessors[b]) : From(graph, e) \notin l}
           addExit(g, b) == createEdge(createBlock(g, <<>>), b, Len(g.successors) + 1, FalseCondition)
       IN  \E entry \in [loops -> Blocks(graph)] :
              /\ \A l \in loops : entry[l] \in entries(l)
              /\ graph' = FoldLeft(addExit, graph, SetToSeq({entry[l] : l \in loops}))
    /\ trees' = Trees(graph')
    /\ path' = <<[block |-> 1, next |-> 1]>>
    /\ visited' = {1}
    /\ phase' = "visit"
    /\ UNCHANGED <<program, blocksInReversePostOrder, exits, running>>

\* po_iterator goes down to a block whose successors have all been seen.
RECURSIVE Descend(_, _)
Descend(stack, seen) ==
    LET top == Last(stack)
        to  == To(graph, graph.successors[top.block][top.next])
        next == [stack EXCEPT ![Len(stack)].next = @ + 1]
    IN  IF top.next > Len(graph.successors[top.block]) THEN [stack |-> stack, seen |-> seen]
        ELSE IF to \in seen THEN Descend(next, seen)
        ELSE Descend(Append(next, [block |-> to, next |-> 1]), seen \cup {to})

\* The blocks that post-dominate a block, the nearest one first.
PostDominators(b) ==
    IF ~InTree(b) THEN <<>>
    ELSE SetToSortSeq(trees.pdom[b] \ {b},
                      LAMBDA x, y : Cardinality(trees.pdom[x]) > Cardinality(trees.pdom[y]))

\* The next block in post-order is a possible entry of regions.
Visit ==
    /\ phase = "visit" /\ exits = <<>> /\ path # <<>>
    /\ LET found == Descend(path, visited)
           entry == Last(found.stack).block
       IN  /\ blocksInReversePostOrder' = <<entry>> \o blocksInReversePostOrder
           /\ path' = Front(found.stack)
           /\ visited' = found.seen
           /\ exits' = PostDominators(entry)
    /\ UNCHANGED <<program, phase, graph, trees, running>>

Reduced(after, next) ==
    /\ graph' = after.graph
    /\ blocksInReversePostOrder' = after.list
    /\ phase' = IF ~after.ordered THEN "undefined" ELSE IF ~after.linked THEN "unlinked" ELSE next

\* A post-dominator of the entry may be the exit of a region.
TryExit ==
    /\ phase = "visit" /\ exits # <<>>
    /\ LET entry == blocksInReversePostOrder[1]
           exit  == Head(exits)
       IN  /\ Reduced(IF isRegion(entry, exit) THEN reduceRegion(exit) ELSE NotReduced, "visit")
           /\ exits' = IF Dominates(entry, exit) THEN Tail(exits) ELSE <<>>
    /\ UNCHANGED <<program, trees, path, visited, running>>

\* The function itself is the last region.
Finish ==
    /\ phase = "visit" /\ exits = <<>> /\ path = <<>>
    /\ Reduced(reduceRegion(None), "folded")
    /\ UNCHANGED <<program, trees, path, visited, exits, running>>

\* runOnFunction takes the statement of the block that is left.  The trees go out
\* of scope, and nothing reads the graph again before it is freed.
Take ==
    /\ phase = "folded"
    /\ phase' = "run"
    /\ rest' = graph.statements[blocksInReversePostOrder[1]]
    /\ graph' = EmptyGraph
    /\ trees' = None
    /\ visited' = {}
    /\ UNCHANGED <<program, blocksInReversePostOrder, path, exits, value, dispatch, expected>>

-----------------------------------------------------------------------------
(***************************************************************************)
(* Execution of the statements                                             *)
(***************************************************************************)
Truth == [a \in Atoms |-> IF a[1] = 0 THEN FALSE
                          ELSE IF a[1] > N THEN dispatch[a[1]] = a[2]
                          ELSE value[a[1]] = (IF a[2] = 0 THEN 1 ELSE a[2])]

HoldAll(condition) == \A i \in DOMAIN condition : Holds(condition[i], Truth)

\* A block of the function, with the branch it takes.
RunBlock ==
    /\ phase = "run" /\ rest # <<>> /\ Head(rest).kind = "block"
    /\ LET b == Head(rest).block
           returns == program[b] = <<>>
       IN  \E i \in IF returns THEN {0} ELSE DOMAIN program[b] :
              /\ value' = IF Len(program[b]) > 1 THEN [value EXCEPT ![b] = i] ELSE value
              /\ expected' = IF returns THEN None ELSE program[b][i]
              /\ rest' = IF returns THEN <<>> ELSE Tail(rest)
    /\ UNCHANGED <<program, phase, folding, dispatch>>

\* What is left after the innermost loop.
AfterLoop(statements) ==
    LET loops == {i \in DOMAIN statements : statements[i].kind = "again"}
    IN  SubSeq(statements, Min(loops) + 1, Len(statements))

\* A statement of the structurizer.
RunControl ==
    /\ phase = "run" /\ rest # <<>> /\ Head(rest).kind # "block"
    /\ LET s == Head(rest)
       IN  /\ rest' = CASE s.kind = "dispatch" -> Tail(rest)
                       [] s.kind = "if" -> (IF Guarded(s.guard, Truth) THEN s.body ELSE <<>>) \o Tail(rest)
                       [] s.kind = "loop" -> s.body \o <<[kind |-> "again", body |-> s.body]>> \o Tail(rest)
                       [] s.kind = "again" -> s.body \o rest
                       [] s.kind = "break" -> IF HoldAll(s.condition) THEN AfterLoop(rest) ELSE Tail(rest)
           /\ dispatch' = IF s.kind = "dispatch" THEN [dispatch EXCEPT ![s.variable] = s.case] ELSE dispatch
    /\ UNCHANGED <<program, phase, folding, value, expected>>

Next == ensureLoopsExit \/ Visit \/ TryExit \/ Finish \/ Take \/ RunBlock \/ RunControl

Spec == Init /\ [][Next]_vars /\ WF_vars(RunControl)

------------------------------------------------------------------------

-----------------------------------------------------------------------------
(***************************************************************************)
(* Properties                                                              *)
(***************************************************************************)
AtBlock == rest # <<>> /\ Head(rest).kind = "block"
Done == phase = "run" /\ rest = <<>>

\* The successors of the blocks of a function, as sets.
Targets(p) == [b \in 1 .. N |-> ToSet(p[b])]

\* The blocks that a block dominates, its natural loop, and the blocks that the
\* loop is left to.
Dominated(to, h) == (1 .. N) \ Reach(to, {1} \ {h}, {h})
Loop(to, h) == {b \in Dominated(to, h) : \E a \in Dominated(to, h) :
                   h \in to[a] /\ (b = h \/ a \in Reach(to, {b}, {h}))}
LoopExits(to, h) == UNION {to[b] : b \in Loop(to, h)} \ Loop(to, h)

\* Loops have one entry (without branches back to dominators nothing goes round)
\* and are left to one block at most.
SimpleLoops(p) ==
    LET to      == Targets(p)
        forward == [b \in 1 .. N |-> {h \in to[b] : b \notin Dominated(to, h)}]
    IN  /\ \A b \in 1 .. N : b \notin Reach(forward, forward[b], {})
        /\ \A h \in 1 .. N : Cardinality(LoopExits(to, h)) <= 1

\* Whatever branches are taken and whatever uninitialized variables hold, the
\* statements execute the blocks that the function executes, in its order, and
\* end where it returns: "goto-free C-like output" is a translation
\* (structurizeFunction and all that it calls).
ExecutesGraph ==
    /\ AtBlock => Head(rest).block = expected
    /\ Done => expected = None

\* That holds of functions with simple loops: each loop is a region, which is
\* folded before the regions around it, and its breaks lead where it exits to.
SimpleLoopsTranslated == ExecutesGraph \/ ~SimpleLoops(program)

\* No loop statement of foldBasicBlocks goes round without executing a block.
Progress == phase = "run" ~> (AtBlock \/ Done)

\* The assertion at the end of structurizeFunction: blocks created for loops,
\* which are in no dominator tree, are folded with their region.
SingleBlockLeft == phase = "folded" => Len(blocksInReversePostOrder) = 1

\* The exit of a loop that splitAndFoldRegion puts into the list comes after its
\* entry: foldBasicBlocks does not run past the end of the list.
RangesOrdered == phase # "undefined"

\* The lists of successors and of predecessors agree when reduceRegion clears them,
\* although edges have been redirected, swapped and merged by then: erase, which
\* takes the place that remove returns unchecked, is never given the end of a list.
EdgesLinked == phase # "unlinked"

=============================================================================
