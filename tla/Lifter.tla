------------------------------- MODULE Lifter -------------------------------
(***************************************************************************)
(* The lifting stage of fcd: LiftExecutable in main.cpp drives             *)
(* RemillTranslationContext in translation_context_remill.cpp.  From the   *)
(* entry points it knows, it decodes functions until no new entry point    *)
(* turns up, declares one LLVM function per entry point, and then lifts    *)
(* each of them, block by block and instruction by instruction.            *)
(*                                                                         *)
(* An address identifies an instruction, a basic block or a function, as   *)
(* the maps insts, blocks and functions of the translation context do.     *)
(* The std::queues of addresses are sets here: every element is taken out  *)
(* exactly once whatever the order, a repeated one is a no-op in the code. *)
(***************************************************************************)
EXTENDS Integers, FiniteSets, Sequences

CONSTANTS
    Address,  \* the addresses a program can name
    Mapped,   \* those Executable::map resolves to bytes of the file
    Inputs,   \* the programs and command lines to consider
    None      \* nullptr

(***************************************************************************)
(* remill::Instruction::Category.  "async" is ConditionalAsyncHyperCall,   *)
(* "normal" stands for every category the switches send to default.        *)
(***************************************************************************)
Category == {"invalid", "error", "normal", "jump", "ijump", "call", "icall",
             "branch", "async", "return"}

\* branch_not_taken_pc and pc + NumBytes() are the same address: next_pc.
Instruction == [category : Category, branch_taken_pc : Address, next_pc : Address]

Mode == {"full", "partial", "exclusive"}

Input == [image   : [Mapped -> Instruction],  \* what DecodeInstruction returns
          visible : SUBSET Address,           \* symbols of the providers
          mode    : Mode,                     \* --partial, --exclusive
          user    : Seq(Address)]             \* --other_entry

ASSUME AddressAssumption ==
    /\ Address \subseteq Nat
    /\ IsFiniteSet(Address)
    /\ Mapped \subseteq Address
    /\ None \notin Address

ASSUME InputAssumption ==
    /\ Inputs \subseteq Input
    /\ \A i \in Inputs : \A a \in Mapped : i.image[a].next_pc > a

VARIABLES
    input,             \* the executable and the flags; never changes
    phase,             \* where LiftExecutable is
    entry_points,      \* the elements of the list entry_points...
    size,              \* ...and its length, larger while it has duplicates
    prev_size,         \* the length before the last decoding round
    sorted,            \* whether the list has been through sort()
    pending,           \* what is left of the current loop over the list
    new_entry_points,  \* call targets the current round has found
    insts,             \* instructions decoded so far, of any function
    insts_to_decode,   \* DecodeFunction's work list
    result,            \* DecodeFunction's result so far
    functions,         \* functions that are declared
    defined,           \* functions with a body
    func,              \* the function DefineFunction is lifting
    owner,             \* blocks: the function a block was created in
    lifted,            \* blocks that are no longer empty
    terminated,        \* blocks with a terminator instruction
    branches,          \* <<block, successor>> pairs of the lifted blocks
    blocks_to_lift,    \* DefineFunction's work list
    block,             \* the block LiftBlock is filling
    pc                 \* the instruction it is at

seeds == <<entry_points, size, prev_size, sorted, pending, new_entry_points>>
decoder == <<insts, insts_to_decode, result>>
code == <<functions, defined, owner, lifted, terminated, branches>>
lifter == <<func, blocks_to_lift, block, pc>>
vars == <<input, phase, seeds, decoder, code, lifter>>

-----------------------------------------------------------------------------
(***************************************************************************)
(* Helpers                                                                 *)
(***************************************************************************)
IsTerminator(inst) ==
    inst.category \in {"invalid", "error", "jump", "ijump", "branch", "async", "return"}

\* EntryPointRepository::getInfo: a provider has a symbol at the address, or
\* Executable::getInfo makes one up because the address is mapped.
HasInfo(addr) == addr \in input.visible \cup Mapped

\* The addresses of the list user, in any order.
Elements(s) == {s[i] : i \in DOMAIN s}

\* Mutant: DecodeFunction forgets the fall-through of a conditional branch.
DecodeSuccessorsTakenOnly(inst) ==
    IF inst.category \in {"branch", "jump"} THEN {inst.branch_taken_pc}
    ELSE IF IsTerminator(inst) THEN {} ELSE {inst.next_pc}

\* Where DecodeFunction goes on after an instruction.
DecodeSuccessors(inst) ==
    CASE inst.category = "branch" -> {inst.next_pc, inst.branch_taken_pc}
      [] inst.category = "jump"   -> {inst.branch_taken_pc}
      [] OTHER -> IF IsTerminator(inst) THEN {} ELSE {inst.next_pc}

\* The call targets LiftExecutable collects from a decoded function.
CallTargets(addrs) ==
    {input.image[a].branch_taken_pc :
        a \in {b \in addrs : input.image[b].category = "call"}}

\* sort() has put the list in ascending order; before it, any order goes.
IsNext(addr) == sorted => \A a \in pending : addr <= a

\* Mutant: one round of decoding is taken to be enough.
IterConditionOnce(cur, prev) == input.mode # "exclusive" /\ prev = 0

\* The condition of LiftExecutable's decoding loop.
IterCondition(cur, prev) ==
    CASE input.mode = "exclusive" -> FALSE
      [] input.mode = "partial"   -> prev = 0
      [] OTHER                    -> cur > prev

Init ==
    /\ input \in Inputs
    /\ phase = "seed"
    /\ entry_points = {} /\ size = 0 /\ prev_size = 0 /\ sorted = FALSE
    /\ pending = {} /\ new_entry_points = {}
    /\ insts = {} /\ insts_to_decode = {} /\ result = {}
    /\ functions = {} /\ defined = {} /\ func = None
    /\ owner = [a \in Address |-> None]
    /\ lifted = {} /\ terminated = {} /\ branches = {}
    /\ blocks_to_lift = {} /\ block = None /\ pc = None

\* A failed CHECK ends the process.
Abort ==
    /\ phase' = "aborted"
    /\ UNCHANGED <<input, seeds, decoder, code, lifter>>

-----------------------------------------------------------------------------
(***************************************************************************)
(* LiftExecutable: the initial entry points                                *)
(***************************************************************************)
Seed ==
    LET visible == IF input.mode = "full" THEN input.visible ELSE {}
        all     == visible \cup Elements(input.user)
    IN  /\ phase = "seed"
        /\ IF all = {} \/ \E a \in Elements(input.user) : ~HasInfo(a)
           THEN Abort
           ELSE /\ entry_points' = all
                /\ size' = Cardinality(visible) + Len(input.user)
                /\ phase' = "iterate"
                /\ UNCHANGED <<input, prev_size, sorted, pending, new_entry_points,
                               decoder, code, lifter>>

(***************************************************************************)
(* LiftExecutable: rounds of decoding                                      *)
(***************************************************************************)
BeginRound ==
    /\ phase = "iterate"
    /\ IterCondition(size, prev_size)
    /\ prev_size' = size
    /\ new_entry_points' = {}
    /\ pending' = entry_points
    /\ phase' = "decode"
    /\ UNCHANGED <<input, entry_points, size, sorted, decoder, code, lifter>>

\* RTC.DecodeFunction(ep_addr) is called...
DecodeFunction(addr) ==
    /\ phase = "decode"
    /\ insts_to_decode = {} /\ result = {}
    /\ addr \in pending /\ IsNext(addr)
    /\ pending' = pending \ {addr}
    /\ insts_to_decode' = {addr}
    /\ UNCHANGED <<input, phase, entry_points, size, prev_size, sorted,
                   new_entry_points, insts, result, code, lifter>>

\* Mutant: an address that is already in the result is walked again.
DecodeInstAgain(addr) ==
    /\ phase = "decode"
    /\ addr \in insts_to_decode
    /\ IF addr \in Mapped
       THEN /\ insts' = insts \cup {addr}
            /\ result' = result \cup {addr}
            /\ insts_to_decode' = (insts_to_decode \ {addr})
                                     \cup DecodeSuccessors(input.image[addr])
            /\ UNCHANGED <<input, phase, seeds, code, lifter>>
       ELSE Abort

\* ...goes once around its loop...
DecodeInst(addr) ==
    /\ phase = "decode"
    /\ addr \in insts_to_decode
    /\ \/ /\ addr \in result
          /\ insts_to_decode' = insts_to_decode \ {addr}
          /\ UNCHANGED <<input, phase, seeds, insts, result, code, lifter>>
       \/ /\ addr \notin result /\ addr \notin Mapped
          /\ Abort
       \/ /\ addr \notin result /\ addr \in Mapped
          /\ insts' = insts \cup {addr}
          /\ result' = result \cup {addr}
          /\ insts_to_decode' = (insts_to_decode \ {addr})
                                   \cup DecodeSuccessors(input.image[addr])
          /\ UNCHANGED <<input, phase, seeds, code, lifter>>

\* Mutant: the calls of one function replace those of the functions before it.
CollectCallsOverwrite ==
    /\ phase = "decode"
    /\ insts_to_decode = {} /\ result # {}
    /\ new_entry_points' = CallTargets(result)
    /\ result' = {}
    /\ UNCHANGED <<input, phase, entry_points, size, prev_size, sorted, pending,
                   insts, insts_to_decode, code, lifter>>

\* ...and returns: the calls among its instructions are new entry points.
CollectCalls ==
    /\ phase = "decode"
    /\ insts_to_decode = {} /\ result # {}
    /\ new_entry_points' = new_entry_points \cup CallTargets(result)
    /\ result' = {}
    /\ UNCHANGED <<input, phase, entry_points, size, prev_size, sorted, pending,
                   insts, insts_to_decode, code, lifter>>

\* entry_points.splice(...), sort() and unique().
EndRound ==
    /\ phase = "decode"
    /\ pending = {} /\ insts_to_decode = {} /\ result = {}
    /\ entry_points' = entry_points \cup new_entry_points
    /\ size' = Cardinality(entry_points')
    /\ sorted' = TRUE
    /\ phase' = "iterate"
    /\ UNCHANGED <<input, prev_size, pending, new_entry_points, decoder, code, lifter>>

(***************************************************************************)
(* LiftExecutable: one declaration per entry point.  getInfo's answer is   *)
(* dereferenced unchecked; "crashed" is the null dereference.              *)
(***************************************************************************)
DeclareFunctions ==
    /\ phase = "iterate"
    /\ ~IterCondition(size, prev_size)
    /\ \/ /\ \E a \in entry_points : ~HasInfo(a)
          /\ phase' = "crashed"
          /\ UNCHANGED <<input, seeds, decoder, code, lifter>>
       \/ /\ \A a \in entry_points : HasInfo(a)
          /\ functions' = functions \cup entry_points
          /\ pending' = entry_points
          /\ phase' = "define"
          /\ UNCHANGED <<input, entry_points, size, prev_size, sorted, new_entry_points,
                         decoder, defined, owner, lifted, terminated, branches, lifter>>

-----------------------------------------------------------------------------
(***************************************************************************)
(* DefineFunction, LiftBlock and LiftInst                                  *)
(***************************************************************************)
\* GetOrCreateBlock for every address of a set, in function f.
GetOrCreateBlocks(addrs, f) ==
    [a \in Address |-> IF a \in addrs /\ owner[a] = None THEN f ELSE owner[a]]

DefineFunction(addr) ==
    /\ phase = "define"
    /\ addr \in pending /\ IsNext(addr)
    /\ pending' = pending \ {addr}
    /\ func' = addr
    /\ functions' = functions \cup {addr}
    /\ defined' = defined \cup {addr}
    /\ owner' = GetOrCreateBlocks({addr}, addr)
    /\ blocks_to_lift' = blocks_to_lift \cup {addr}
    /\ phase' = "lift"
    /\ UNCHANGED <<input, entry_points, size, prev_size, sorted, new_entry_points,
                   decoder, lifted, terminated, branches, block, pc>>

\* LiftBlock(func, addr), up to its loop: a block with code is left alone.
LiftBlock(addr) ==
    /\ phase = "lift"
    /\ block = None
    /\ addr \in blocks_to_lift
    /\ \/ /\ addr \in lifted
          /\ blocks_to_lift' = blocks_to_lift \ {addr}
          /\ UNCHANGED <<block, pc>>
       \/ /\ addr \notin lifted
          /\ block' = addr
          /\ pc' = addr
          /\ UNCHANGED blocks_to_lift
    /\ UNCHANGED <<input, phase, seeds, decoder, code, func>>

\* The blocks that an instruction branches to; LiftBlock creates them all.
BranchTargets(inst) ==
    CASE inst.category = "branch" -> {inst.branch_taken_pc, inst.next_pc}
      [] inst.category = "jump"   -> {inst.branch_taken_pc}
      [] OTHER -> {}

\* Mutant: the fall-through block of a conditional branch is not queued.
BlocksToQueueTakenOnly(inst) ==
    (BranchTargets(inst) \cap {inst.branch_taken_pc}) \ (lifted \cup {block})

\* LiftBlock queues the ones that are empty; its own block no longer is.
BlocksToQueue(inst) == BranchTargets(inst) \ (lifted \cup {block})

\* A jump to a declared function becomes a tail call instead of a branch.
TailCall(inst) == inst.category = "jump" /\ inst.branch_taken_pc \in functions

\* Whether LiftInst leaves a terminator at the end of the block.
EmitsTerminator(inst) ==
    inst.category \in {"branch", "jump", "ijump", "return", "invalid", "error"}

\* The declaration a call instruction needs, unless it calls what follows it.
CalleeOf(inst) ==
    IF inst.category = "call" /\ inst.branch_taken_pc # inst.next_pc
    THEN {inst.branch_taken_pc} ELSE {}

\* remill's LiftIntoBlock may report that it has no semantics for a valid
\* instruction, which fails a CHECK.
CanFailToLift(inst) == inst.category # "invalid"

\* Once around LiftBlock's loop: LiftInst and the switch after it.  The last
\* iteration returns to DefineFunction, which pops the block.
LiftInst ==
    /\ phase = "lift"
    /\ block # None
    /\ \/ /\ pc \in Mapped => CanFailToLift(input.image[pc])
          /\ Abort
       \/ /\ pc \in Mapped
          /\ LET inst == input.image[pc] IN
             /\ insts' = insts \cup {pc}
             /\ lifted' = lifted \cup {block}
             /\ owner' = GetOrCreateBlocks(BranchTargets(inst), func)
             /\ branches' = IF TailCall(inst) THEN branches
                            ELSE branches \cup {<<block, t>> : t \in BranchTargets(inst)}
             /\ terminated' = IF EmitsTerminator(inst) THEN terminated \cup {block}
                              ELSE terminated
             /\ functions' = functions \cup CalleeOf(inst)
             /\ blocks_to_lift' = (blocks_to_lift \cup BlocksToQueue(inst))
                                     \ (IF IsTerminator(inst) THEN {block} ELSE {})
             /\ block' = IF IsTerminator(inst) THEN None ELSE block
             /\ pc' = IF IsTerminator(inst) THEN None ELSE inst.next_pc
          /\ UNCHANGED <<input, phase, seeds, insts_to_decode, result, defined, func>>

\* Mutant: DefineFunction returns after lifting a single block.
FinishFunctionEarly ==
    /\ phase = "lift"
    /\ block = None
    /\ func' = None
    /\ phase' = "define"
    /\ UNCHANGED <<input, seeds, decoder, code, blocks_to_lift, block, pc>>

\* DefineFunction returns: its work list is empty.
FinishFunction ==
    /\ phase = "lift"
    /\ block = None /\ blocks_to_lift = {}
    /\ func' = None
    /\ phase' = "define"
    /\ UNCHANGED <<input, seeds, decoder, code, blocks_to_lift, block, pc>>

\* Every entry point is lifted; FinalizeModule and the LLVM passes take over.
FinalizeModule ==
    /\ phase = "define"
    /\ pending = {}
    /\ phase' = "done"
    /\ UNCHANGED <<input, seeds, decoder, code, lifter>>

Terminating ==
    /\ phase \in {"done", "aborted", "crashed"}
    /\ UNCHANGED vars

Next ==
    \/ Seed
    \/ BeginRound
    \/ \E addr \in Address : DecodeFunction(addr) \/ DecodeInst(addr)
    \/ CollectCalls
    \/ EndRound
    \/ DeclareFunctions
    \/ \E addr \in Address : DefineFunction(addr) \/ LiftBlock(addr)
    \/ LiftInst
    \/ FinishFunction
    \/ FinalizeModule
    \/ Terminating

Spec == Init /\ [][Next]_vars

\* The program is one thread: as long as it can take a step it takes one.
FairSpec == Spec /\ WF_vars(Next)

-----------------------------------------------------------------------------
(***************************************************************************)
(* Properties                                                              *)
(***************************************************************************)
\* The state variables have the types main.cpp and the translation context
\* declare for them.
TypeOK ==
    /\ input \in Inputs
    /\ phase \in {"seed", "iterate", "decode", "define", "lift",
                  "done", "aborted", "crashed"}
    /\ entry_points \subseteq Address /\ size \in Nat /\ prev_size \in Nat
    /\ sorted \in BOOLEAN
    /\ pending \subseteq Address /\ new_entry_points \subseteq Address
    /\ insts \subseteq Mapped /\ insts_to_decode \subseteq Address /\ result \subseteq Mapped
    /\ functions \subseteq Address /\ defined \subseteq Address
    /\ owner \in [Address -> Address \cup {None}]
    /\ lifted \subseteq Address /\ terminated \subseteq Address
    /\ branches \subseteq Address \X Address
    /\ func \in Address \cup {None} /\ blocks_to_lift \subseteq Address
    /\ block \in Address \cup {None} /\ pc \in Address \cup {None}

\* --other_entry repeats none of the symbols and none of its own addresses.
NoRepeats ==
    /\ Cardinality(Elements(input.user)) = Len(input.user)
    /\ Elements(input.user) \cap input.visible = {}

Full == input.mode = "full" /\ NoRepeats

\* In a full disassembly from a list without duplicates, the decoding loop
\* (main.cpp:195) has found every function that a lifted call refers to: no
\* declaration is left without a body in the finished module.
AllDeclaredDefined == Full /\ phase = "done" => functions \subseteq defined

\* ...and its last round was idle: every entry point has been decoded, and
\* every call of the decoded code goes to an entry point.
NothingNewToDecode ==
    input.mode = "full" /\ phase \in {"define", "lift", "done"} =>
        /\ entry_points \subseteq insts
        /\ CallTargets(insts) \subseteq entry_points

\* The same for a list that has no duplicates to begin with.
DiscoveryComplete == NoRepeats => NothingNewToDecode

\* In a full disassembly LiftBlock walks over exactly the instructions that
\* DecodeFunction has walked over: lifting decodes nothing new.
LiftDecodesNothingNew == [][Full /\ phase = "lift" => insts' = insts]_vars

\* DefineFunction (translation_context_remill.cpp:396) leaves no block that it
\* created empty, and none without a terminator unless it ends in a
\* conditional hyper call, for which LiftInst emits none.
BlocksComplete ==
    phase \in {"define", "done"} =>
        \A a \in Address : owner[a] # None =>
            /\ a \in lifted
            /\ (\A m \in insts : input.image[m].category # "async") => a \in terminated

\* A block is only filled while the function it was created in is being
\* lifted, although the map of blocks is shared by all functions: the
\* parent LiftInst reads off the block is the function LiftBlock was given.
LiftedByOwner == block # None => owner[block] = func /\ block \in blocks_to_lift

\* What the commented-out verifyModule (main.cpp:242) would check of the
\* branches: they stay in one function, and so does the branch with which
\* DefineFunction enters a function's code.
BranchesStayInFunction ==
    /\ \A b \in branches : owner[b[1]] = owner[b[2]]
    /\ \A f \in defined : owner[f] = f

\* No two functions share code: every address has one home, the entry point of
\* the function it belongs to, and only calls leave it.
Separate(home) ==
    /\ \A f \in input.visible \cup Elements(input.user) \cup CallTargets(Mapped) : home[f] = f
    /\ \A a \in Mapped : \A s \in DecodeSuccessors(input.image[a]) : home[s] = home[a]

\* The map of blocks has no function in its key.  Blocks stay apart all the
\* same as long as the functions of the program share no code.
SeparateBranchesStay ==
    BranchesStayInFunction \/ \A home \in [Address -> Address] : ~Separate(home)

\* The unchecked getInfo(addr)->virtualAddress of main.cpp:212 only ever meets
\* a null pointer when --partial, or an entry point that is listed twice, has cut
\* the decoding short.
NullInfoOnlyPartial == phase = "crashed" => ~Full /\ input.mode # "exclusive"

\* Lifting ends, whatever loops and overlaps the program has.
Terminates == <>(phase \in {"done", "aborted", "crashed"})

=============================================================================
