# A TLA+ model of fcd

fcd is a decompiler: it reads an executable, lifts its machine code to LLVM IR
with remill, optimizes and rewrites that IR, turns it into an abstract syntax
tree and prints the tree as C. It is one thread that runs to completion. What is
hard in it is not concurrency but *state that changes under the code that walks
over it*: work lists that grow while they are processed, maps that outlive the
function they were filled for, intrusive linked lists with hand-written
reference counting, and rewriting that must keep the meaning of a program whose
branches have been taken away.

## 1. Inventory

The pipeline (`main.cpp`) is: parse the executable; lift it (`LiftExecutable`);
run LLVM passes (`FinalizeModule`, `RunPassPipeline`); build, rewrite and print
the AST (`AstBackEnd` and the passes registered with it).

| Component | State | Operations | Hard behaviour | What makes it correct |
|---|---|---|---|---|
| Lifting driver and translation context (`main.cpp`, `codegen/`) | list of entry points; maps `insts`, `blocks`, `functions`; work lists | seed, decode rounds, declare, define, lift a block or instruction | fixpoint over a list with duplicates; unchecked lookups; maps shared by functions | every called function is discovered and defined; every block is complete and in one function; it terminates |
| Entry points and executables (`symbols/`, `executables/`) | symbols, segments, stub targets (lazily cached) | `getInfo`, `map`, `getStubTarget`, format parsers | a lookup creates symbols; offsets and sizes from files | lookups agree with the file |
| Use lists and references (`ast/expression_use*`, `ast/expression_user*`) | `firstUse`, `next`, `prev`, operand slots, tags | `setUse`, `reset`, `dropAllReferences`, `replaceAllUsesWith` | recursive drops from within iterations; garbage in the lists | lists hold exactly the uses; used expressions are complete |
| Statement lists (`ast/statements*`) | `first`, `last`; `list`, `previous`, `next` | push, pop, insert, erase, splice, assign, clear | ownership moves between lists; nested clears | lists behave as sequences |
| AST context (`ast/ast_context*`, `dumb_allocator.h`) | pool, types, map from values to expressions | create and cache expressions and statements | cached expressions may have been dropped | an instruction has one, complete expression |
| Pre-AST graph (`ast/pre_ast_cfg*`) | blocks, edges with conditions | build, redirect edges | several edges between two blocks, switches | exactly one edge condition of a block holds |
| Structurizer (`ast/pass_backend*`) | dominator trees, regions, block statements | fold regions, break loops, reaching conditions | irreducible regions, several exits, simplification of conditions | the tree executes the blocks the graph executes |
| AST passes (`ast/pass_*.cpp`, `ast/analysis_liveness*`) | the tree they rewrite | remove undef, combine ifs and loops, simplify, merge variables | rewriting while iterating | behaviour of the program is kept |
| Printing (`ast/print*`, `ast/type_printer*`) | tokenized expressions, names | visit and print | what is materialized as a variable depends on use counts | evaluation order is kept |
| LLVM passes (`pass_*.cpp`, `callconv/`) | LLVM IR | recover arguments, stack frames and locals; narrow integers; drop dead loads | order of rewriting callers and callees; overlapping stack slots | IR keeps its meaning |
| Header declarations, metadata, Python bindings | clang's AST; LLVM metadata; none | look up prototypes; get and set; forward | none of their own | - |

Components interact by calls only. The lifter calls the executable for bytes and
symbols and remill for decoding; the backend consumes the LLVM module; AST passes
share one tree per function, and every pass that changes it goes through
`ExpressionUse::setUse`, `dropAllReferences` and the operations of
`StatementList`. These two are therefore the foundation of everything behind the
backend, and the lifter of everything before it.

The hazards found while reading are listed with their lines in `PROJECT.json`.

## 2. Modules

| Module | Models |
|---|---|
| `Lifter` | `LiftExecutable`, and of `RemillTranslationContext`: `DecodeFunction`, `GetOrDecodeInst`, `DeclareFunction`, `DefineFunction`, `LiftBlock`, `LiftInst`, `GetOrCreateBlock` |
| `LifterProofs` | theorems about `Lifter` |
| `UseList` | `ExpressionUse`, `ExpressionUser`, `ExpressionReference`, `Expression::replaceAllUsesWith` |
| `RemoveUndef` | `AstRemoveUndef`, running on the use lists of `UseList` |
| `UseListProofs` | theorems about `UseList`, and on those about `RemoveUndef` |
| `StatementSeq` | what a list of statements is meant to be |
| `StatementList` | the linked lists of `statements.cpp`; implements `StatementSeq` |
| `StatementListProofs` | theorems about `StatementList`, and that it implements `StatementSeq` |
| `Conditions` | conditions of paths: `createDisjunction`, the factoring in `foldBasicBlocks`, and what conditions mean |
| `ReachingConditions` | the conditions `foldBasicBlocks` puts around the blocks of an acyclic region |
| `ReachingProofs` | theorems about `ReachingConditions` and `Conditions` |
| `PreAstCfg` | the graph of `pre_ast_cfg.cpp`: blocks, edges, redirectors, swaps; dominance |
| `Structurizer` | `ensureLoopsExit` and class `Structurizer`, on `PreAstCfg` and `Conditions`, and the execution of the result |
| `AstMemory` | `DumbAllocator`, the allocation of users with their operands, `getUser` |
| `AstMemoryProofs` | theorems about `AstMemory` |
| `Executables` | the readers of ELF files, flat files and Python scripts; `EntryPointRepository`; entry points from headers |
| `ExecutablesProofs` | theorems about `Executables` |
| `CallConv` | the tables of `callconv_remill.cpp` |
| `ArgumentRecovery` | `RemillArgumentRecovery` (`pass_argrec_remill.cpp`) |
| `StackRecovery` | `RemillStackRecovery` (`pass_stackrec_remill.cpp`), on what `ArgumentRecovery` leaves |
| `PrototypesProofs` | theorems about both passes: functions, names, calls, parameters and results |
| `Ordering` | the elements of a set of numbers in their order |
| `NaturalsLemmas` | least and greatest numbers, recursion and multiples, for the proofs |
| `AstTree` | expressions and statements as values, their comparison and negation, and their execution |
| `Combiners` | `AstConsecutiveCombiner`, `AstNestedCombiner` |
| `Simplifier` | `AstSimplifyExpressions` |
| `AstPipeline` | these passes in the order of `GeneratePseudocode` |
| `Translation` | `AstContext`'s expressions for LLVM values and statements for instructions |
| `Congruence` | `AstMergeCongruentVariables` and `LivenessAnalysis`, on what `Translation` makes |
| `AstPrinter` | `StatementPrintVisitor`, on what `Congruence` leaves |
| `TextRuns` | what the LLVM function does, what its printed text does, and that the two agree |
| `MC*` | constants of the runs |

Four chains of modules are composed with `EXTENDS`: `UseList` - `RemoveUndef`;
`Conditions` - `PreAstCfg` - `Structurizer`; `CallConv` - `ArgumentRecovery` -
`StackRecovery`; and `Translation` - `Congruence` - `AstPrinter` - `TextRuns`, which
goes from LLVM values to the text.

Modules without a `TypeOK` among the properties of their run keep the definition
as the description of their variables.

### Lifter

An address stands for an instruction, a block or a function, as in the maps of
the translation context. The input (`input`) holds everything that comes from
outside: what each mapped address decodes to, the symbols, the mode
(`--partial`, `--exclusive`) and the list of user entry points. It is chosen in
`Init` and never changes. `phase` says where `LiftExecutable` is.

* `entry_points` is the *set* of addresses in the list and `size` the *length*
  of the list, because the loop condition compares lengths and the list may begin
  with duplicates. After `sort()` and `unique()` the two agree, and from then on
  the loops visit addresses in ascending order (`IsNext`); before that the order
  of symbols is that of an `unordered_set`, i.e. any.
* `DecodeFunction`, `DecodeInst`, `CollectCalls` are the call of
  `RTC.DecodeFunction`, one turn of its loop, and the caller's loop over the
  result. `insts_to_decode` is a set although the code has a queue: the result
  does not depend on the order, and an address that is queued twice is skipped
  the second time.
* `DefineFunction`, `LiftBlock`, `LiftInst`, `FinishFunction` are the parts of
  lifting. `LiftInst` is one turn of `LiftBlock`'s loop: the code of
  `RemillTranslationContext::LiftInst` and the `switch` after it. `owner` is the
  parent function of each block of the map `blocks`; `lifted` the blocks that are
  not empty; `branches` the edges between blocks in the IR.
* A failed `CHECK` leads to phase `aborted`, the null dereference of
  `getInfo(addr)->virtualAddress` to `crashed`.
* Remill is external: `Category` and `Instruction` list what the switches tell
  apart, and `CanFailToLift` lets `LiftIntoBlock` fail for any valid instruction.
* `FinalizeModule` is one step, since nothing after it touches this state.

### UseList, RemoveUndef

A slot (`Slot`) is an `ExpressionUse`. `UserOf` is `getUser`, a constant because
a slot is part of its user's allocation. `setUse` is the whole of
`ExpressionUse::setUse`, unlinking and linking in the order of the code.
`dropAllExpressionReferences` recurs from within its loop over operands, so it is
modelled with an explicit stack of frames (`stack`), one operand per step;
`replaceAllUsesWith` is one use per step, followed by the drop that all of its
callers add. `fresh` holds the expressions that have never been used: passes put
new expressions or expressions that are in use into slots, never ones that have
been dropped (for the cache of expressions see section 5).
`SetCondition` overwrites an operand of a statement without dropping it, as
`set##name` does; the constant `Overwritten` says to which expressions it happens, because
it is the one operation after which unused expressions remain in the lists.

`RemoveUndef` extends `UseList` with the two iterators of the pass. They point to
slots and advance by `next`, also when the slot has just been unlinked, which is
what the code does. Statements are removed with `UseList`'s own actions.
Building the tree before the pass is `UseList`'s `SetOperand`, restricted by
`Fits` to the kinds of operands that the backend creates.

### StatementSeq, StatementList

`StatementList` keeps the five kinds of pointers in one record, `heap`, and gives
every C++ function as a function from heap to heap. A loop that moves statements one by
one is the repetition (`Repeat`) of its body, as a function of heaps that changes
nothing once the list is empty; there are never more rounds than statements. `clear` and
`dropAllReferences` call each other down the tree; in the model they work off a set of
lists (`clearRound`), since the order in which different parts of a tree are
cleared makes no difference. `StatementSeq` says what the functions are for: one
sequence per list, and insertion, removal, splicing, replacement and clearing of
sequences. The refinement mapping reads a list from `first` along `next` (`Contents`).

Two bounds are taken from the callers: a statement joins a list only if it is
detached and the list is not inside it (the asserts, and that an AST is a tree);
and `operator=` is applied to lists of at most `MaxReplaced` statements, which
`ReplacedAssumption` limits to 0 or 1.
The latter matters. `operator=` advances from a statement that it has just
detached and so drops only the first statement of the list it replaces. The
callers assign to lists that they have emptied or that hold a single statement, so
the defect is latent: with two, `WellLinked` would fail.

### ReachingConditions

A region is an acyclic graph of blocks `1 .. N` in reverse postorder with one or two
successors each; block `N + 1` is what follows it. A condition is a literal over
the block that branches on it. `reaching` holds the disjunction of conjunctions
the code collects for each block, `nesting` the `if` statements around it.
`createDisjunction` is translated with its index handling: the index that is
pushed to `sizeOneConjunctions` is the one *after* the erased element. Reading
past the end of the vector is undefined; there the model takes the value that
`erase` leaves in place, the outcome of a build without iterator checks.
A term keeps its index in `inputConjunctions` when others are taken away, so terms are
functions on a set of indices. The do loop is iterated as often as it can run (`Reduce`), and the calls
of `createDisjunction` are a function of their depth (`Level`), each on fewer terms.
`Orders` gives every block the order in which LLVM lists its predecessors, as a permutation of the blocks.
`areOpposites` compares pointers, `derefEqual` compares structure; `Shape` says
which conditions look the same to the latter. The wrong index costs
simplifications (the example of the comment at `pass_backend.cpp:152` is not
simplified as it says), but the result is equivalent: `GuardsExact` compares it with a walk along the branches (`Executed`).
Branches with equal successors are
unconditional, as the CFG simplification before the backend leaves them.

### PreAstCfg and Structurizer

`graph` holds blocks and edges as the code does, with the list of predecessors and
of successors of every block in the code's order, because that order decides
where the depth-first searches go. A block holds a sequence of statements: at
first one statement that stands for its instructions, later what has been folded
into it. `trees` is computed once, as in `runOnFunction`, and never updated, though
folding creates blocks; LLVM's dominance is given by its definition. `Visit` takes
the next block from `po_iterator`, which reads the graph while it is being
folded; `TryExit` tries one post-dominator as exit of a region and reduces the
region; `Finish` reduces the whole function and `Take` hands its statement on. A range that `foldBasicBlocks` could
not walk to its end leads to the phase `"undefined"`.

Then the statements are executed (`RunBlock`, `RunControl`) beside the function they
were made from: a block chooses its branch, `expected` is where the function goes,
and conditions read what blocks have last chosen. What an SSA value or a
dispatch variable holds before it is assigned is arbitrary; `Init` chooses one
initial value for all. Conditions are taken as values: that an expression may be
evaluated later than the branch it comes from is not modelled. A block lists its
predecessors in ascending or descending order, which stands for LLVM's use lists.
The first block has no predecessors, as LLVM requires.

The search for loop nodes always marks the first block of the range, since it
lies at the bottom of its stack. The branch that inserts a new entry before the
first loop node (`pass_backend.cpp:637-645`) is therefore never taken; `WithEntry`
translates it all the same.

`reduceRegion` clears the edges of a folded region with `erase(remove(...))`, of which `erase` takes a
place and not a range (`pass_backend.cpp:738`): an edge that is not in the list would be undefined
behaviour, and of one that is in it twice a copy would be left. `Linked` asks for exactly one; otherwise the phase is
`"unlinked"`, which `EdgesLinked` excludes.

### AstMemory

Addresses are numbers and sizes are scaled down, but their relations are those of
the code: a use is not a power of two, strings are not aligned, half a page
is the limit of what goes into a shared page. Where the system puts a page is
chosen (`Gap`). `memory` holds the two tag bits of each use, which is all that
`getUser` reads. The loop of `prepareStorageAndUses` is the function `Tags`, which
says for a distance from the object what the tag is and what is left to encode; the walk of
`getUser` is the functions `Steps`, `Digit` and `Total` over the tags that it passes.
Every factory of `AstContext` is one of three actions: with operands, without, and
the copy of a string. `clear` is never called. The way back, from a user to the uses
in front of it, is not modelled: the code walks over a chain of arrays
(`iterateUseArrays`, `goToNextNonEmptyBuffer`), but nothing ever sets the field
`array` that links them, so that the chain has one element and the walk is an index.

### Executables

A pointer into the file is an offset, and a function for each structure says what
the bytes at an offset mean when they are read as it (`SymAt`, `RelAt`...), so that
files in which tables overlap or point anywhere are among the inputs. One action
per walk, in the order of the code; a run then installs the header declarations
and asks questions (`getInfo`, `getStubTarget`), which is when symbols are made up
and answers are cached. The target triple, the class and the byte order of a file are
left out, and so is how clang finds declarations. `map` answers for all of a segment's size in
memory, and behind what the file has of the segment points to whatever follows there
(`elf_executable.cpp:528`); the model does the same. No property is about that, since the
code has no notion of bytes that a loader fills with zeros.

### CallConv, ArgumentRecovery, StackRecovery

A module is a function from values to functions; replacing a function makes a new
value, so that a call of an erased function is a call of a value that is `Gone`. A
body is a sequence of loads and stores of registers and stack slots, calls, branches and
returns. The tables of the calling conventions are complete. The iteration of the
pass over `new_funcs` is one action per function, in the order of the module, since
that order decides which calls are updated. The LLVM passes between the two
(promotion of registers, dropping of calls of undef) are assumed to do what
`StackRecovery` says of them in its head. A failed `CHECK` ends in a stage of its own.

The stack recovery asks once, in its first loop, which functions use their stack pointer
(`IsOldFunc`), and the loops after it go over the functions recorded then (`old_funcs`). That
matters: a call that has been rewritten no longer passes the stack pointer, so a
function that used it for nothing else does not use it any more at its own turn, and is
rewritten all the same. A call of the AArch64 bodies that passes nothing but its own stack pointer makes
that happen in the run.

An argument on the stack has an offset twice: at the call, where it is the store's distance
above the stack pointer, and in the function, where it is counted from the first word
(`StackIdx`, which skips the arguments in registers as `StoreStackParamsToLocals` does). The two
agree only as long as the arguments are words: a larger store counts its own size
in at the call and not in the function. `StackArgsLand` says so, and the run has a
store of 16 bytes among its bodies.

### AstTree, Combiners, Simplifier, AstPipeline

Trees are values: a pass is an operator from trees to trees. What is lost is the
identity of expressions; `AstTree` says when two occurrences are one object to the
code. Leaves have the values 0 and 1 and get new ones at the start of each round of a
loop, so a condition that moves across that point shows. Three steps are known to
be wrong, and `flaws` records in which trees they could have come up:

* `alike`: `operator==` ignores the operator of an n-ary expression, and conditions that
  differ in nothing else are combined (`expressions.cpp:76`);
* `retested`: a loop that already has a condition at its start gets another one and is
  tested at its end (`pass_nestedcombiner.cpp:167`);
* `flip`: `!(a & b)` becomes `a ^ b`, because the operator after the last comparison is
  flipped too (`pass_simplifyexpressions.cpp:164`).

`SameBehaviour` is about all other trees.

### Translation, Congruence, AstPrinter, TextRuns

A function of LLVM is a set of instructions and their places in the control structure,
which `Structurizer` is about. Value `v` is expression `v`, because `expressionFor`
makes one per value. `Translate` makes all of them, with the rules for
constants, negations, differences, selects, allocas, and the two assignments of a
phi. Simplification, which runs between translation and congruence, is not repeated in this chain.

`Congruence` numbers the statements as `collectStatementIndices` does and translates
`liveRangeContains` with its searches as they are, also the one that is the
wrong way round. Calls that are followed by their use lose their statement; then
pairs of variables are merged in any order, which is what the hash table amounts to.
`firstUse` may be null; that leads to the phase `"crashed"`. `noted` records the
situations in which the pass may change what the function does:

* `ranges`: variables are merged that the analysis would have kept apart had it done what
  its comment says, or that it has not compared (`analysis_liveness.cpp:171`, `pass_congruence.cpp:184`);
* `do`: a merged variable in the condition of a do loop, which counts as a use at the
  loop's start (`analysis_liveness.cpp:167`);
* `memory`: a variable is merged with a location in memory;
* `ternary`, `loop`: a call moves to where it is made conditionally or again
  (`pass_congruence.cpp:136`).

`AstPrinter` prints statement by statement into scopes, with `usedByStatement`,
tokens and their users as the code keeps them, and places declarations at the
end. A text is the tree that a C compiler would read, which is not
the expression's tree where parentheses are missing. `TextRuns` executes both sides on integers of `W` bits for
all arguments, with the calls and stores they make as what is observed. `TextBehaves` excepts, one
by one, what the translation and the printer are known to get wrong:

* operands of equal precedence lose their parentheses, and two signs in a row run
  together (`print.cpp:104`);
* a shared expression is computed in the scope where it is met first, also for uses elsewhere
  (`print.cpp:186`);
* the lines of an else-if's condition are printed between the if and the else (`print.cpp:635`);
* the lines of a while condition are printed before the loop and run once (`print.cpp:665`);
* a load is printed where it is used, behind a store or call that has changed the memory
  (`ast_context.cpp:635`);
* signed operators become operators on unsigned operands (`ast_context.cpp:25`);
* what `noted` records.

Each exception is stated about the function or the text, not about the outcome, and
without any one of those of `noted` the run fails.

## 3. Runs

| Run | Checks | Bounds |
|---|---|---|
| `lifter` | discovery is complete, lifted code is decoded code, blocks are complete and in one function, null symbols only in partial mode, termination | all programs of 3 instructions over 5 categories with every target among 4 addresses (one unmapped), every set of symbols, at most one user entry point, all modes; and all 10 categories on the first two addresses with up to two, possibly equal, user entry points |
| `uselist` | exact lists, complete expressions, no garbage, calls return | a leaf, two unary and a binary expression, a statement and a reference; `setCondition` may replace one of the unary expressions |
| `statementlist` | links are mirrored, `list` is right and detached statements are clean (`WellLinked`); refinement of `StatementSeq` | if, loop, two plain statements; three bodies and a reference |
| `removeundef` | ends, erases only what it should, leaves no half-dropped expression | two assignments, three statements |
| `reaching` | the ifs execute what the branches execute | all regions of 5 blocks, two predecessor orders |
| `structurizer` | the statements execute what the function executes if its loops are simple; loops make progress; one block is left, ranges end, edges are in the lists of both ends | functions of 5 blocks, the first of which only leads to the second: all with two-way branches, and those with simple loops also with a three-way branch in the second block; every block is reached from an earlier one; two predecessor orders |
| `ast_memory` | blocks are aligned, in their page and apart; tags lead from operands to users | four allocations in pages of 64 bytes: users with 1, 2, 3, 5, 11 and 22 operands of 6 bytes, strings, plain objects; pages that touch and pages that do not |
| `executables` | entry points are mapped (`EntryPointsMapped`); no walk over an ELF file loses a function that is mapped, and the last one that names it decides (`FunctionsNamed`); answers never change | files of 8 and 10 bytes with up to four program headers, three sections and two or three entries in a dynamic segment; all scripts with anything missing; three sets of headers; two questions |
| `prototypes` | registers that are read become parameters, results are found where callers look, calls backwards follow their callee, stack arguments land in parameters, erased functions are not called | three functions for each of five architectures and conventions |
| `prototypes_lost` (violation) | `pass_argrec_remill.cpp:411`, "Replace all uses of the old function with the new one" | the same |
| `ast_passes` | the statements executed, their order and the way the function ends stay the same | endless loops of one to three ifs, ifs around loops, three ifs in a row; two rounds with all values of the conditions |
| `ast_text` | declarations are around their uses, elses follow their ifs, nothing is left over, and the text does what the function does | over 8,000 functions of integers of two bits, all arguments, up to three rounds of loops |

Why the bounds are enough. Three instructions make a caller, a callee that is only
found in the second round and a callee of that one, loops, overlapping functions,
tail calls and jumps out of the file; two make every pair of neighbouring
categories. Four expressions with one of two operands allow sharing, the same
operand twice, chains in which a drop recurs, and replacement of an operand by its
own operand. Two plain statements between the statements with bodies give lists
with a first, a middle and a last element. Five blocks are the least in which a
disjunction has two larger conjunctions with a common condition beside a single
one, so that all of `createDisjunction` runs. Five blocks, the first of
which has no predecessors, make nested loops, a loop in a branch and a branch in
a loop, endless loops, several returns, loops with two entries and loops left to
two blocks, for which folding creates blocks. `MaxBlock` and `MaxCase` bound the blocks
and cases that folding creates; TLC would report a condition outside of them. Use
counts up to 22 make a stop, its digits and further stops, with one, two, three and four digits.
Four objects fill a page and open the next, with large ones before, between
and after. Three functions make calls to earlier, later and the same function and
a callee that has been replaced when its caller is. Two rounds of a loop tell a test
at the start from one at the end. Two bits make a least integer without a positive
counterpart, and every wrap-around.

Fairness. The program is sequential and never waits, so `WF` on the whole next-state
relation (`Lifter`), or on the steps of a call that has begun (`UseList`,
`RemoveUndef`), or on the control statements of the output (`Structurizer`), says only that the process is scheduled. No fairness is assumed of
the passes that decide to call.

### Known disagreements

`prototypes_lost` is a run, since a comment says in so many words what should hold:
**calls to later functions are lost** (`pass_argrec_remill.cpp:243`). `UpdateCalls` only looks at
callers that still have the prefix in their name; callers earlier in the module have lost
it, and what remains of the old function is replaced by undef. `BackwardCallsFollow` shows that the other calls are right.

The others are definitions beside the properties of the modules, which the runs do
not list. Put in the place of the properties in the run's cfg, each one makes TLC
show the disagreement; for the last two the functions are `TwoExits` and `SwitchInLoop` of
`MCStructurizer`, for the fourth `Shape` is `FirstTwoAlike` of `MCReaching`.

* **Duplicates end discovery early** (`NothingNewToDecode`, `main.cpp:195`). The loop ends when the list
  is no longer than before the round, but duplicates are removed in the round. A
  user entry point that is also a symbol hides one new function. It is declared,
  and lifted, but what only it calls is never decoded as a function.
* **Blocks are shared by functions** (`BranchesStayInFunction`, `translation_context_remill.cpp:317`). The map
  of blocks is keyed by address. Code reached from two functions ends up in
  one of them, and the other one branches there. A direct jump to a known
  function becomes a tail call, but its target is still made a block of the caller.
  `SeparateBranchesStay` shows the converse: without shared code nothing of the
  kind happens.
* **Iterating while dropping** (`UndefAssignmentsRemoved`, `pass_removeundef.cpp:46`). The pass usually stops
  after the first assignment.
* **A path that adds nothing** (`GuardsExact`, `pass_backend.cpp:484`). Right as long as
  conditions that compare equal are equal; `operator==` ignores the operator of an
  n-ary expression, so `a < b` and `a > b` compare equal.
* **Loops that are not regions** (`ExecutesGraph`, `pass_backend.cpp:378`, `:534`). A range with a
  branch back becomes a loop as a whole. That is right when every loop is a
  region and has been folded before, as `SimpleLoopsTranslated` shows for
  loops with one entry that are left to one block. A loop with two entries, or one that is left to a block
  which is also reached otherwise, is folded together with the blocks before it,
  and these are executed in each round. The search that would split such a range is
  only done when the region reaches the end of the list of visited blocks.
* **Exit before entry** (`RangesOrdered`, `pass_backend.cpp:670`). The exit that is created for a
  loop goes before the block that leaves the loop last. With two-way branches this
  is never the first block of the region; with a switch it may be.

Further, with their own names: `SimplifyingKeepsValues` (`AstPipeline`: `flip` above),
and `CallsConsistent` (`StackRecovery`: `pass_stackrec_remill.cpp:265` drops every
argument that is equal to the stack pointer, not only the stack pointer's own, so that
calls and prototypes differ although the comment at line 406 says they agree). The exceptions of `SameBehaviour` and `TextBehaves` are listed in section 2.

## 4. Proofs

The theorems hold for every value of the constants under the assumptions of the
modules, which TLC evaluates in each run: finite sets of natural addresses, instructions that
end after they begin (`AddressAssumption`, `InputAssumption`); slots with users that are
either expressions or holders (`SlotAssumption`); assignments with a source of their own, and no
conditions replaced during the pass (`AssignmentAssumption`); sizes that are multiples of a
word and a page of at least two words (`SizeAssumption`); bytes of a file that read as the structures of the format
(`FileAssumption`); finitely many statements and lists, and no assignment to a list of more than one
statement (`TreeAssumption`, `ReplacedAssumption`); at least one function, conventions that have a table, and bodies as remill
makes them, whose calls are of lifted functions and which have a branch
(`NumFuncsAssumption`, `ConventionsAssumption`, `BodiesAssumption`).

The library's induction theorems cannot be used with the installed provers.
`NaturalsLemmas` takes their place: the order of the numbers is well-founded, so a
set of counterexamples has a least one, and a recursive function on the numbers
exists and satisfies its equations.

**LifterProofs.** The inductive invariant `IInv` joins the type invariant with
six parts. `Decoded`: what is decoded is closed under `DecodeSuccessors`, up to
the work list of the function being decoded. `Rounds`: at the end of each round
everything that was in the list at its start is decoded and its calls are in the
list, so that an idle round means completeness; this is where the length of a list
without duplicates is its cardinality. `Blocks`: a block that is created is lifted
or queued for the current function; a lifted block other than the current one is terminated. `Declared`:
functions are entry points or callees of decoded calls. `AtHome`: with functions
that share no code, blocks belong to the function at their home. `Created`: both
ends of a branch, and the first block of a function, exist. None of the properties is inductive
alone: that lifting decodes nothing new needs closure, which needs the work list,
and that every declaration is defined needs both and the loop's exit condition.

**UseListProofs.** `WellLinked` says that `next` and `prev` are inverse to each
other within the slots of one expression and that the slot without predecessor is
`firstUse`. `Acyclic` says that some ranking decreases along `next`; without it
a cycle beside the list would be consistent with `WellLinked`. From the two
follows `UsesExact` in the form checked by TLC, that the holders of an expression
are the smallest set closed under iteration. `Calls` describes the stack: only
expressions without uses, or holders, are being dropped. `Swept` says that what
is unused and not being dropped is empty, unless `setCondition` may replace it.

Every step of the pass that removes undefined assignments is a step of `UseList`, so `IInv`
holds under it. `PassInv` adds to it which calls run in which phase, that whatever an erased statement
still holds is among the operands about to be dropped (`ErasedSwept`), and where the two
iterators are: the inner one in the list of an assignment of undef, or in a slot
of an erased statement (`Iterators`). That is what makes `OnlyUndefErased` true although
the iterators read lists that the pass is taking apart.

**ExecutablesProofs.** `ExecutableInv` adds to `EntryPointsMapped` which stages belong to which
format, and that nothing has a name before parsing begins. `EntryPointsMapped` alone does not survive a step: when the last walk
removes what is not mapped, the format must be known to be ELF, or `map` could mean another lookup.
`PythonMapped` shows that a script without `mapAddress` is accepted only without entry points. `AnswersTheorem` is an action property: each step keeps the answers given.

**AstMemoryProofs.** `TagsRecursion` and the lemmas after it say what the tags at a distance
are: from each stop on the digits of the distance, until they are used up. `StepsToStop`,
`DigitsSpellDistance` and `UserOfUse` add up what the walk of `getUser` reads, so that every slot
leads to its user whatever the number of operands. `MemoryInv` joins that with the allocator: pages are apart, blocks lie in a
page below its fill mark and are apart, and each user has its tags in memory, where later
blocks do not reach.

**PrototypesProofs.** Of each function there are up to three versions: the lifted one, the one with
parameters in registers and the one with parameters on the stack as well.
`PassesInv` says for each loop of the passes which of them exist, which names they have, and
where calls go. In the first loops every call is of a lifted function (`Declaring`). While
functions are replaced, a call of a function that has been replaced goes to the new version with its
parameters as arguments or, if the caller comes first, to undef (`Replacing`). In the stack
recovery all calls are of functions that exist, and never of the version that is to be
erased (`Stacking`). `OldInv`, beside it, says that the functions recorded in `old_funcs` are still there when
the second loop comes to them, and that the last loop finds a new version of each. The three properties of the module follow; `ReadsArrive` also needs
that the body a parameter list was computed from is the body that was cloned.

For the stack recovery, `StackInv` says that functions are rewritten in their order
and that a call passes what the version it calls expects (`Passes`): exactly its registers before the
callee is rewritten, at least its parameters afterwards (`Covers`). The parameters on the stack come from
one call, the one with the fewest arguments, so the others pass as many or more. A call's stack
arguments are the objects that follow its stack pointer without a gap, in ascending order
(`AscendingOrder`, `AdjacentFound`), so the offset of each is the sum of the sizes up to and
with its own (`FoundArgs`); the function's offset is a word and the sizes before it (`StackIdxSteps`).
`ArgumentsLand` concludes that the two are equal as long as they are words.

For results, `ResultInv` follows one type through the two loops: the one type of the stores that end
a lifted function's blocks (`OneTypeFound`) becomes that of the new function, the clone has the same
stores in the same blocks and returns in the register for that type (`ReturnsShifted`), and each call
that `UpdateCalls` makes expects the result there. It says of functions that have not been replaced
yet what `ResultsArrive` says at the end, and of lifted bodies that each result is stored under a name of
the register in which results of its type are returned (`Suits`). That last part does not follow from the code:
the pass looks the register up by the type of the stored value and never compares it with the register
that was stored into. `ResultInvariance` and `ResultsTheorem` therefore have the hypothesis `ResultsTyped`
of `ArgumentRecovery`: integers in the general registers, floats of the variable's own width in `XMM0`,
`S0` and `D0`. TLC evaluates it on the instance (`MCResultsTyped`). `StoredWhereReturned` goes through the tables of
the conventions and of the aliases: under `ResultsTyped` they agree. An `F32` stored into `D0`, which
`ReturnTable` accepts, would be returned in `S0`.

**StatementListProofs.** `WellLinked` speaks of what an iteration finds and is not inductive: it says
nothing about `Owner`, and neither `clear` nor a move into a list below is right on statements that
contain themselves. `ListInv` says that every list represents a sequence, link by link
(`Represents`), and that no statement is inside itself (`Acyclic`). `RepresentsContents` shows that
an iteration along such links finds that sequence, and `RepresentsWellLinked` that it finds
it backwards too. One statement is linked in or out at a position, whichever function does
it (`LinkedInRepresents`, `LinkedOutRepresents`). A loop over a whole list keeps that some
part of it, at either end, has moved (`MoveLoop`), and has moved all when it ends (`MovedAll`). `ClearAllWipes`
shows that `clear` is done after at most as many rounds as there are lists: in a tree no list
is put on the work list twice. What is wiped is then exactly what `StatementSeq` calls `Within`, the least
set of lists that contains the bodies of its statements. For `operator=`, `WithinReplaced`
shows that the new contents are safe from the clearing of the old ones, also if they come
from a body of the statement that is replaced. `NextStep` puts these together: each
action keeps `ListInv` and is an action of `StatementSeq`. That `MaxReplaced` is at most 1 is used in
`ListAssigned` alone.

**ReachingProofs.** The *trace* of a block under given values of the conditions is the set of
conditions that the branches evaluate before they reach it. `PathsTraced`, the heart of the invariant
`FoldInv`, says of every folded block that its paths are the traces of all values that reach it, each
of them once (`Enumerates`), and that their conditions are in the order of the blocks. It says more than `GuardsExact`,
and it has to: that the guards of the predecessors are right says nothing about the sequences of
conditions that `PathsThrough` extends. It is inductive because a trace of a block is a trace of the block before it with the
condition of the edge (`TraceStep`), and because changing a value behind a block does not change
how it is reached (`Redirect`). `DisjunctionCollects` goes through the predecessors in the order in which they are
visited. This part needs no assumption about `operator==`; it is `CollectedPathsAreTheWays`.

What makes the simplifications right is that two traces of a block agree up to one condition,
where they are opposites (`TracesDiverge`). Of terms that part in this way at most one is a single condition
to begin with, or there are two and no others (`UnitsAlone`), and the opposite of that condition is in
all others, so erasing it changes nothing. The
loop keeps that (`Reduced`): what is left of the larger terms still parts, and the next single condition
either has its opposite in every one of them or in none (`Fits`). The second case is the one in which the
code pushes the wrong index; it ends the loop early, and does no harm.
`Reduce` has then done all rounds that the code does (`ReduceReduced`). A further call for what is
left has fewer terms (`LevelRight`), so that there are never more calls than terms, and with
`DisjunctionKeeps` the result means the disjunction of the terms. `NestKeeps` adds the common
prefix and suffix; it is the only place at which two conditions are compared by structure, and uses that no
two of them look alike (`AllDistinct`, the hypothesis of `GuardsAreExact`; without it the
disagreement "a path that adds nothing" of section 3 arises). Otherwise only
`RegionAssumption` is used.

**Only model-checked.**

* Liveness (`Terminates`, `CallsReturn`, `PassEnds`, `Progress`), since it depends on fairness.
* `FunctionsNamed` of `Executables`: the walks are folds over the tables of a file, and what a fold
  computes is shown by induction over its sequence.
* The properties of `Structurizer`, `AstPipeline` and `TextRuns`: their definitions follow the
  recursion of the code with recursive operators, which put a module out of reach of the SMT
  solver, and what they compute is shown by induction over trees.

## 5. Not modelled

* **The LLVM passes of fcd that are commented out** in the default list of `main.cpp:304-321`:
  `pass_locals.cpp` (`recoverstackframe`), `pass_intnarrowing.cpp`, `pass_intops.cpp`, `pass_signext.cpp`,
  `pass_conditions.cpp`, `pass_memssa_dle.cpp`. The program does not run them unless a pass is
  named on the command line, and they match patterns of LLVM instructions that a
  model would have to define first.
* **`pass_intrinsics_remill.cpp`, `pass_asaa.cpp`**: one-to-one rewriting of calls of
  remill's intrinsics, and an alias analysis that compares address spaces.
* **Types, casts, aggregates, address computations and intrinsics** in `AstContext` and in the printer.
  Integers have one width in `Translation`, so no conversion occurs.
* **Header parsing and translation of C types** by clang; which addresses headers
  declare is modelled.
* **Metadata accessors, Python bindings, scripts**, which hold no state that a property
  here depends on, and the inside of LLVM and remill.
* **Simplification before congruence in one chain.** `AstPipeline` and `Congruence` represent
  expressions differently (trees and shared nodes), so each is checked on what the back end makes.
* **The cache of expressions across functions** (`ast_context.cpp:624`). `expressionMap` keeps
  expressions that have been dropped; translation makes each expression once before anything is
  dropped, so within one function the two do not meet.

Seen while reading: user passes of the default pipeline are inserted behind
`simplifyconditions`, which has been commented out, so that the iterator goes past the end
(`main.cpp:332`). And, with no effect that a property could show: both edges of a
conditional branch with equal successors get the positive condition
(`pre_ast_cfg.cpp:138`; the CFG simplification before leaves no such branch); every
function with a body gets two `FunctionNode`s, of which one is empty
(`pass_backend.cpp:884`); `DumbAllocator::clear` leaves no null page
(`dumb_allocator.h:92`; it is not called); `getOperandUse` compares with `>=` where `>` is
needed (`expression_user.cpp:80`; it matters only for users with several arrays of
operands, which nothing makes).
