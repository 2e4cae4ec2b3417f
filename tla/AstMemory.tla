------------------------------ MODULE AstMemory -----------------------------
(***************************************************************************)
(* The memory of the AST: the pool (dumb_allocator.h), the objects that    *)
(* AstContext allocates from it (ast/ast_context.h, ast_context.cpp), and  *)
(* the way from an operand back to its user (ast/expression_use.cpp).      *)
(*                                                                         *)
(* An object with operands has them right before it in memory, last one    *)
(* first:                                                                  *)
(*                                                                         *)
(*     head | use n-1 | ... | use 1 | use 0 | object                       *)
(*                                                                         *)
(* A use does not know its user.  It has two spare bits, and the bits of   *)
(* all uses together spell out, for anyone who walks towards the object,   *)
(* how far it still is.                                                    *)
(*                                                                         *)
(* Sizes are in bytes, scaled down.  Addresses are numbers.  An allocation *)
(* of 2^64 bytes does not happen, so that the overflow checks never fail.  *)
(***************************************************************************)
EXTENDS Integers, Sequences, SequencesExt

CONSTANTS
    ChunkSize,      \* DefaultChunkSize
    WordSize,       \* sizeof(void*), and the alignment of everything but strings
    HeadSize,       \* sizeof(ExpressionUseArrayHead)
    UseSize,        \* sizeof(ExpressionUse)
    ObjectSize,     \* sizeof of any class of the AST
    Counts,         \* numbers of operands: of n-ary expressions, calls, aggregates
    Lengths,        \* lengths of names
    Gap,            \* where the heap may leave unused bytes before a page
    MaxObjects      \* bound: objects and strings allocated from the pool

ASSUME SizeAssumption ==
    /\ WordSize \in Nat /\ WordSize > 0
    /\ \A size \in {HeadSize, UseSize, ObjectSize, ChunkSize} :
          size \in Nat /\ size > 0 /\ size % WordSize = 0
    /\ 2 * WordSize <= ChunkSize
    /\ \A gap \in Gap : gap \in Nat /\ gap % WordSize = 0
    /\ Counts \subseteq Nat /\ Lengths \subseteq Nat

VARIABLES
    heap,     \* the first address that new has not handed out
    pool,     \* the pages, [base, size]; the last one is being filled
    offset,   \* how much of it is left
    blocks,   \* what has been allocated, [at, size, align]
    memory,   \* tags of uses, and where an object starts
    users     \* [at, count]: the objects that have operands

vars == <<heap, pool, offset, blocks, memory, users>>

Zero == 0
One == 1
Stop == 2
FullStop == 3
Vtable == 4      \* the first word of an object: an aligned pointer
HalfPageSize == ChunkSize \div 2

Init ==
    /\ heap = WordSize
    /\ pool = <<[base |-> 0, size |-> 0]>>     \* pool.push_back(nullptr)
    /\ offset = 0
    /\ blocks = <<>>
    /\ memory = <<>>
    /\ users = {}

-----------------------------------------------------------------------------
(***************************************************************************)
(* DumbAllocator.  A result is [heap, pool, offset, at].                   *)
(***************************************************************************)
\* size + ((endOffset - size) & (alignment - 1))
realSize(endOffset, size, align) == size + ((endOffset - size) % align)

\* Mutant: the bytes lost to alignment are not taken off what is left.
InPageLosesPadding(page, left, size, align, heap_, pool_) ==
    [heap |-> heap_, pool |-> pool_, offset |-> left - size,
     at |-> page.base + left - realSize(page.base + left, size, align)]

InPage(page, left, size, align, heap_, pool_) ==
    LET left_ == left - realSize(page.base + left, size, align)
    IN  [heap |-> heap_, pool |-> pool_, offset |-> left_, at |-> page.base + left_]

\* Pages are filled from their end.
allocateSmall(size, align, gap) ==
    IF offset < realSize(Last(pool).base + offset, size, align)
    THEN LET page == [base |-> heap + gap, size |-> ChunkSize]
         IN  InPage(page, ChunkSize, size, align, page.base + ChunkSize, Append(pool, page))
    ELSE InPage(Last(pool), offset, size, align, heap, pool)

\* A page of its own, put first so that the last one goes on being filled.
allocateLarge(size, align, gap) ==
    LET page == [base |-> heap + gap, size |-> size + align - 1]
        at   == page.base + ((0 - page.base) % align)     \* std::align
    IN  [heap |-> page.base + page.size, pool |-> <<page>> \o pool,
         offset |-> offset, at |-> at]

allocateDynamic(size, align, gap) ==
    IF size < HalfPageSize THEN allocateSmall(size, align, gap)
                           ELSE allocateLarge(size, align, gap)

Allocated(result, size, align) ==
    /\ heap' = result.heap
    /\ pool' = result.pool
    /\ offset' = result.offset
    /\ blocks' = Append(blocks, [at |-> result.at, size |-> size, align |-> align])

-----------------------------------------------------------------------------
(***************************************************************************)
(* Tags.  From the last use in memory backwards: a stop, then the distance *)
(* of that stop from the object in binary, lowest digit first, then the    *)
(* next stop, and so on.                                                   *)
(***************************************************************************)
\* Mutant: a stop encodes its distance from the use after it.
AtStopShort(d) == [tag |-> IF d = 1 THEN FullStop ELSE Stop, bits |-> IF d = 1 THEN 1 ELSE d - 1]

\* A stop at a distance from the object, and what it leaves to encode.
AtStop(d) == [tag |-> IF d = 1 THEN FullStop ELSE Stop, bits |-> d]

\* The tag at a distance from the object, and what is left to encode.
Tags[d \in Nat] ==
    IF d = 0 THEN [tag |-> Vtable, bits |-> 0]
    ELSE LET bits == Tags[d - 1].bits
         IN  IF bits = 0 THEN AtStop(d) ELSE [tag |-> bits % 2, bits |-> bits \div 2]

\* prepareStorageAndUses: what is written for an object at this address.
UsesAndObject(object, count) ==
    [a \in {object - d * UseSize : d \in 0 .. count} |-> Tags[(object - a) \div UseSize].tag]

\* The memory after words have been written to it.
Written(words) ==
    [a \in DOMAIN words \cup DOMAIN memory |-> IF a \in DOMAIN words THEN words[a] ELSE memory[a]]

-----------------------------------------------------------------------------
(***************************************************************************)
(* AstContext.  Every factory is one of these three.                       *)
(***************************************************************************)
\* How many operands an object gets that has them: 1 for unary, memberAccess,
\* cast and every statement, 2 for subscript, 3 for ternary, as many as there
\* are for nary, call and aggregate.
UseCounts == {1, 2, 3} \cup Counts

Bounded == Len(blocks) < MaxObjects

allocateWithUses(count) ==
    /\ Bounded
    /\ \E gap \in Gap :
         LET size   == HeadSize + UseSize * count + ObjectSize
             result == allocateDynamic(size, WordSize, gap)
             object == result.at + HeadSize + UseSize * count
         IN  /\ Allocated(result, size, WordSize)
             /\ memory' = Written(UsesAndObject(object, count))
             /\ users' = users \cup {[at |-> object, count |-> count]}

\* numeric, token, assembly and assignable have no operands.
allocateWithoutUses ==
    /\ Bounded
    /\ \E gap \in Gap :
         LET result == allocateDynamic(ObjectSize, WordSize, gap)
         IN  /\ Allocated(result, ObjectSize, WordSize)
             /\ memory' = Written([a \in {result.at} |-> Vtable])
    /\ UNCHANGED users

\* The name of a token, assembly or assignable, with its final zero.
copyString(length) ==
    /\ Bounded
    /\ \E gap \in Gap : Allocated(allocateDynamic(length + 1, 1, gap), length + 1, 1)
    /\ UNCHANGED <<memory, users>>

Next ==
    \/ \E count \in UseCounts : allocateWithUses(count)
    \/ allocateWithoutUses
    \/ \E length \in Lengths : copyString(length)

Spec == Init /\ [][Next]_vars

-----------------------------------------------------------------------------
(***************************************************************************)
(* From a use to its user.  Nothing but the tags is read.                  *)
(***************************************************************************)
Digit(use) == use \in DOMAIN memory /\ memory[use] < Stop

\* How many digits there are on the way to the next stop.
Steps(use) ==
    CHOOSE n \in 0 .. heap :
        /\ ~Digit(use + n * UseSize)
        /\ \A m \in 0 .. n - 1 : Digit(use + m * UseSize)

\* The number that the digits spell.
Total(use, steps) ==
    LET total[n \in 0 .. steps] ==
            IF n = 0 THEN 0 ELSE 2 * total[n - 1] + memory[use + (n - 1) * UseSize]
    IN  total[steps]

\* The next stop, and the digits on the way there.
walkWay(use) == [stop |-> use + Steps(use) * UseSize, total |-> Total(use, Steps(use))]

\* walkToEndOfArray, which always finds the user at once.
getUser(use) ==
    LET way == walkWay(use)
    IN  IF way.stop \notin DOMAIN memory THEN way.stop
        ELSE IF memory[way.stop] = FullStop THEN way.stop + UseSize
        ELSE LET more == walkWay(way.stop + UseSize) IN more.stop + UseSize * more.total

-----------------------------------------------------------------------------
(***************************************************************************)
(* Properties                                                              *)
(***************************************************************************)
Block == [at : Nat, size : Nat, align : {1, WordSize}]

\* The types of the variables; the pool always has a last page, and no more is
\* left of it than its size.
TypeOK ==
    /\ heap \in Nat
    /\ pool \in Seq([base : Nat, size : Nat])
    /\ pool # <<>> /\ offset \in 0 .. Last(pool).size
    /\ blocks \in Seq(Block)
    /\ \A a \in DOMAIN memory : memory[a] \in Zero .. Vtable
    /\ users \subseteq [at : Nat, count : UseCounts]

\* What DumbAllocator hands out is aligned (the assertions at the end of
\* allocateSmall and of prepareStorageAndUses), lies in one of its pages and
\* overlaps nothing that it has handed out before, although pages are filled
\* backwards, strings are not aligned, and large objects get pages that are put
\* in front.
BlocksPlaced ==
    /\ \A i \in DOMAIN blocks : blocks[i].at % blocks[i].align = 0
    /\ \A user \in users : user.at % WordSize = 0
    /\ \A i \in DOMAIN blocks : \E p \in DOMAIN pool :
          /\ pool[p].base <= blocks[i].at
          /\ blocks[i].at + blocks[i].size <= pool[p].base + pool[p].size
    /\ \A i, j \in DOMAIN blocks :
          i < j => \/ blocks[i].at + blocks[i].size <= blocks[j].at
                   \/ blocks[j].at + blocks[j].size <= blocks[i].at

\* ExpressionUse::getUser decodes the tags right: from every operand of every
\* user it comes out at the user, however many operands there are.
UserFound ==
    \A user \in users : \A d \in 1 .. user.count : getUser(user.at - d * UseSize) = user.at

=============================================================================
