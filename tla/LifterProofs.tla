---------------------------- MODULE LifterProofs ----------------------------
(***************************************************************************)
(* Proofs about Lifter, for every program and every set of addresses.      *)
(***************************************************************************)
EXTENDS Lifter, FiniteSetTheorems, TLAPS

(***************************************************************************)
(* The inductive invariant, in four parts.                                 *)
(***************************************************************************)
Early == {"seed", "iterate", "decode"}
Late == {"define", "lift", "done"}

\* What is decoded leads only to what is decoded or queued, and its calls only
\* to entry points, old or about to be added.  Lifting keeps this in a full
\* disassembly; in the other modes it may walk into undecoded code.
Decoded ==
    /\ result \subseteq insts
    /\ phase \in {"seed", "iterate"} \cup Late => insts_to_decode = {} /\ result = {}
    /\ phase \in Early \/ (Full /\ phase \in Late) =>
         /\ \A a \in insts :
                DecodeSuccessors(input.image[a]) \subseteq insts \cup insts_to_decode
         /\ CallTargets(insts) \subseteq
                entry_points \cup new_entry_points \cup CallTargets(result)

\* How far the rounds have come.  Without duplicates the lengths that
\* IterCondition compares are cardinalities, and the entry points that the
\* last round started from are decoded.
Rounds ==
    /\ phase = "seed" => entry_points = {} /\ new_entry_points = {} /\ prev_size = 0
    /\ pending \subseteq entry_points
    /\ phase = "iterate" => new_entry_points \subseteq entry_points
    /\ NoRepeats /\ phase \in {"iterate", "decode"} => size = Cardinality(entry_points)
    /\ NoRepeats /\ phase = "iterate" =>
         \E P \in SUBSET entry_points : P \subseteq insts /\ Cardinality(P) = prev_size
    /\ phase = "decode" =>
         /\ input.mode # "exclusive"
         /\ prev_size = size
         /\ entry_points \subseteq pending \cup insts \cup insts_to_decode
    /\ input.mode = "exclusive" /\ phase = "iterate" => \A a \in entry_points : HasInfo(a)
    /\ Full /\ phase \in Late =>
         entry_points \subseteq insts /\ new_entry_points \subseteq entry_points
    /\ NullInfoOnlyPartial

\* A block that exists is filled or queued; one that is queued and empty
\* belongs to the function being lifted.
Blocks ==
    /\ phase \in Early \cup {"define", "done"} =>
         func = None /\ block = None /\ blocks_to_lift = {}
    /\ \A a \in Address : owner[a] # None => a \in lifted \cup blocks_to_lift
    /\ \A a \in blocks_to_lift \ lifted : owner[a] = func
    /\ block # None => owner[block] = func /\ block \in blocks_to_lift
    /\ phase = "lift" => func # None
    /\ block # None => pc # None
    /\ \A a \in lifted : \/ a = block
                         \/ a \in terminated
                         \/ \E m \in insts : input.image[m].category = "async"

\* Functions are declared for entry points and call targets only, and the
\* loop over the entry points defines every one of them.
Declared ==
    /\ phase \in Early => functions = {} /\ defined = {}
    /\ functions \subseteq entry_points \cup CallTargets(insts)
    /\ phase \in Late => entry_points \subseteq defined \cup pending
    /\ phase = "done" => pending = {}
    /\ Full /\ phase = "lift" => blocks_to_lift \subseteq insts
    /\ Full /\ phase = "lift" /\ block # None => pc \in insts

\* Where the functions share no code, everything stays at home.
AtHome ==
    \A home \in [Address -> Address] : Separate(home) =>
        /\ \A f \in entry_points \cup new_entry_points \cup pending \cup defined : home[f] = f
        /\ \A b \in branches : home[b[1]] = home[b[2]]
        /\ \A a \in Address : owner[a] # None => owner[a] = home[a]
        /\ func # None => home[func] = func
        /\ block # None => home[pc] = home[block]

\* Both ends of a branch are blocks that exist, and so is a function's first.
Created ==
    /\ \A b \in branches : owner[b[1]] # None /\ owner[b[2]] # None
    /\ \A f \in defined : owner[f] # None

IInv == TypeOK /\ Decoded /\ Rounds /\ Blocks /\ Declared /\ AtHome /\ Created

-----------------------------------------------------------------------------
(***************************************************************************)
(* Facts about the input                                                   *)
(***************************************************************************)
\* Every field of the input has its type.
LEMMA InputType ==
    ASSUME input \in Inputs
    PROVE  /\ \A a \in Mapped : input.image[a] \in Instruction
           /\ input.visible \subseteq Address
           /\ input.mode \in Mode
           /\ Len(input.user) \in Nat
           /\ Elements(input.user) \subseteq Address
<1>1. input \in Input
  BY InputAssumption
<1>2. input.user \in Seq(Address) /\ input.image \in [Mapped -> Instruction]
  BY <1>1 DEF Input
<1>. QED
  BY <1>1, <1>2 DEF Input, Elements

\* Every address that an instruction names is an address.
LEMMA TargetType ==
    ASSUME NEW inst \in Instruction
    PROVE  /\ inst.next_pc \in Address /\ inst.branch_taken_pc \in Address
           /\ DecodeSuccessors(inst) \subseteq Address
           /\ BranchTargets(inst) \subseteq DecodeSuccessors(inst)
           /\ CalleeOf(inst) \subseteq Address
           /\ ~IsTerminator(inst) => DecodeSuccessors(inst) = {inst.next_pc}
BY DEF Instruction, DecodeSuccessors, BranchTargets, CalleeOf, IsTerminator, Category

\* Calls go to addresses.
LEMMA CallTargetsType ==
    ASSUME input \in Inputs, NEW S \in SUBSET Mapped
    PROVE  CallTargets(S) \subseteq Address
BY InputType, TargetType DEF CallTargets

-----------------------------------------------------------------------------
(***************************************************************************)
(* Type correctness                                                        *)
(***************************************************************************)
\* One round of LiftBlock's loop keeps the types of the lifter's state.
LEMMA LiftInstType == TypeOK /\ LiftInst => TypeOK'
<1>. SUFFICES ASSUME TypeOK, LiftInst PROVE TypeOK'
  OBVIOUS
<1>. USE AddressAssumption DEF TypeOK, seeds, decoder, code, lifter
<1>1. CASE Abort
  BY <1>1 DEF Abort
<1>2. CASE pc \in Mapped /\ ~Abort
  <2>. DEFINE inst == input.image[pc]
  <2>1. inst \in Instruction
    BY <1>2, InputType
  <2>. HIDE DEF inst
  <2>2. /\ BranchTargets(inst) \subseteq Address /\ inst.next_pc \in Address
        /\ CalleeOf(inst) \subseteq Address
    BY <2>1, TargetType
  <2>3. /\ block \in Address /\ insts' = insts \cup {pc} /\ lifted' = lifted \cup {block}
        /\ owner' = GetOrCreateBlocks(BranchTargets(inst), func)
        /\ branches' \subseteq branches \cup ({block} \X BranchTargets(inst))
        /\ terminated' \subseteq terminated \cup {block}
        /\ functions' = functions \cup CalleeOf(inst)
        /\ blocks_to_lift' \subseteq blocks_to_lift \cup BranchTargets(inst)
        /\ block' \in {None, block} /\ pc' \in {None, inst.next_pc}
        /\ UNCHANGED <<input, phase, seeds, insts_to_decode, result, defined, func>>
    BY <1>2 DEF LiftInst, inst, BlocksToQueue
  <2>4. owner' \in [Address -> Address \cup {None}]
    BY <2>2, <2>3 DEF GetOrCreateBlocks
  <2>. QED
    BY <1>2, <2>2, <2>3, <2>4
<1>. QED
  BY <1>1, <1>2 DEF LiftInst

\* Every step keeps the types.
LEMMA TypeStep == TypeOK /\ [Next]_vars => TypeOK'
<1>. SUFFICES ASSUME TypeOK, [Next]_vars PROVE TypeOK'
  OBVIOUS
<1>. USE AddressAssumption DEF TypeOK, seeds, decoder, code, lifter
<1>1. CASE Seed
  <2>1. input.visible \subseteq Address /\ Elements(input.user) \subseteq Address
        /\ Len(input.user) \in Nat
    BY InputType
  <2>. DEFINE visible == IF input.mode = "full" THEN input.visible ELSE {}
  <2>2. visible \subseteq Address /\ Cardinality(visible) \in Nat
    BY <2>1, FS_CardinalityType, FS_Subset
  <2>3. CASE Abort
    BY <2>3 DEF Abort
  <2>4. CASE ~Abort
    <3>1. /\ entry_points' = visible \cup Elements(input.user)
          /\ size' = Cardinality(visible) + Len(input.user)
          /\ phase' = "iterate"
          /\ UNCHANGED <<input, prev_size, sorted, pending, new_entry_points,
                         decoder, code, lifter>>
      BY <1>1, <2>4 DEF Seed
    <3>. HIDE DEF visible
    <3>2. entry_points' \subseteq Address
      BY <2>1, <2>2, <3>1
    <3>3. \A m, n \in Nat : m + n \in Nat
      OBVIOUS
    <3>4. size' \in Nat
      BY <2>1, <2>2, <3>1, <3>3, Zenon
    <3>. QED
      BY <3>1, <3>2, <3>4
  <2>. QED
    BY <2>3, <2>4
<1>2. CASE BeginRound
  BY <1>2 DEF BeginRound
<1>3. ASSUME NEW addr \in Address, DecodeFunction(addr) PROVE TypeOK'
  BY <1>3 DEF DecodeFunction
<1>4. ASSUME NEW addr \in Address, DecodeInst(addr) PROVE TypeOK'
  <2>1. addr \in Mapped => DecodeSuccessors(input.image[addr]) \subseteq Address
    BY InputType, TargetType
  <2>. QED
    BY <1>4, <2>1 DEF DecodeInst, Abort
<1>5. CASE CollectCalls
  BY <1>5, CallTargetsType DEF CollectCalls
<1>6. CASE EndRound
  <2>1. Cardinality(entry_points') \in Nat
    BY <1>6, FS_CardinalityType, FS_Subset DEF EndRound
  <2>. QED
    BY <1>6, <2>1 DEF EndRound
<1>7. CASE DeclareFunctions
  BY <1>7 DEF DeclareFunctions
<1>8. ASSUME NEW addr \in Address, DefineFunction(addr) PROVE TypeOK'
  BY <1>8 DEF DefineFunction, GetOrCreateBlocks
<1>9. ASSUME NEW addr \in Address, LiftBlock(addr) PROVE TypeOK'
  BY <1>9 DEF LiftBlock
<1>10. CASE LiftInst
  BY <1>10, LiftInstType
<1>11. CASE FinishFunction
  BY <1>11 DEF FinishFunction
<1>12. CASE FinalizeModule
  BY <1>12 DEF FinalizeModule
<1>13. CASE UNCHANGED vars
  BY <1>13 DEF vars
<1>. QED
  BY <1>1, <1>2, <1>3, <1>4, <1>5, <1>6, <1>7, <1>8, <1>9, <1>10, <1>11, <1>12, <1>13
     DEF Next, Terminating

\* The initial state has the right types.
LEMMA TypeInit == Init => TypeOK
<1>. SUFFICES ASSUME Init PROVE TypeOK
  OBVIOUS
<1>1. sorted \in BOOLEAN
  BY Zenon DEF Init
<1>2. owner \in [Address -> Address \cup {None}]
  BY DEF Init
<1>. QED
  BY <1>1, <1>2, AddressAssumption DEF Init, TypeOK

\* The state of LiftExecutable and of the translation context keeps its types.
THEOREM TypeCorrect == Spec => []TypeOK
<1>1. Init => TypeOK
  BY TypeInit
<1>2. TypeOK /\ [Next]_vars => TypeOK'
  BY TypeStep
<1>. QED
  BY <1>1, <1>2, PTL DEF Spec

-----------------------------------------------------------------------------
(***************************************************************************)
(* Facts the preservation proofs share                                     *)
(***************************************************************************)
\* The calls of some code are those of its parts.
LEMMA CallTargetsUnion ==
    ASSUME NEW S, NEW T
    PROVE  /\ CallTargets(S \cup T) = CallTargets(S) \cup CallTargets(T)
           /\ CallTargets({}) = {}
BY DEF CallTargets

\* The executable and the command line are what they were.
LEMMA SameInput ==
    ASSUME [Next]_vars
    PROVE  /\ input' = input
           /\ Full' = Full /\ NoRepeats' = NoRepeats
           /\ CallTargets(insts)' = CallTargets(insts')
           /\ CallTargets(result)' = CallTargets(result')
           /\ \A a : HasInfo(a)' = HasInfo(a)
<1>1. input' = input
  BY DEF Next, vars, Seed, Abort, BeginRound, DecodeFunction, DecodeInst, CollectCalls,
         EndRound, DeclareFunctions, DefineFunction, LiftBlock, LiftInst, FinishFunction,
         FinalizeModule, Terminating
<1>. QED
  BY <1>1 DEF Full, NoRepeats, Elements, CallTargets, HasInfo

-----------------------------------------------------------------------------
(***************************************************************************)
(* Decoding reaches a closed set of instructions                           *)
(***************************************************************************)
\* In a full disassembly LiftInst only meets instructions that are decoded.
LEMMA LiftInstDecoded ==
    ASSUME IInv, [Next]_vars, LiftInst, Full
    PROVE  insts' = insts
BY DEF IInv, Declared, LiftInst, Abort, decoder

\* Decoding keeps track of what a function still has to decode, step by step.
LEMMA DecodedStep ==
    ASSUME IInv, [Next]_vars
    PROVE  Decoded'
<1>1. TypeOK /\ Decoded /\ Rounds /\ Full' = Full /\ input' = input
  BY SameInput DEF IInv
<1>2. /\ CallTargets(insts)' = CallTargets(insts')
      /\ CallTargets(result)' = CallTargets(result')
  BY SameInput
<1>. DEFINE Closed(I, Q) ==
              \A a \in I : DecodeSuccessors(input.image[a]) \subseteq I \cup Q
            Known(I, E) == CallTargets(I) \subseteq E
<1>3. (\A a \in insts : DecodeSuccessors(input.image[a]) \subseteq insts \cup insts_to_decode)'
        <=> Closed(insts', insts_to_decode')
  BY <1>1 DEF DecodeSuccessors, IsTerminator
<1>4. SUFFICES
        /\ result' \subseteq insts'
        /\ phase' \in {"seed", "iterate"} \cup Late => insts_to_decode' = {} /\ result' = {}
        /\ phase' \in Early \/ (Full /\ phase' \in Late) =>
             /\ Closed(insts', insts_to_decode')
             /\ Known(insts', entry_points' \cup new_entry_points' \cup CallTargets(result'))
  BY <1>1, <1>2, <1>3 DEF Decoded, Early, Late
<1>5. /\ result \subseteq insts
      /\ phase \in {"seed", "iterate"} \cup Late => insts_to_decode = {} /\ result = {}
      /\ phase \in Early \/ (Full /\ phase \in Late) =>
             /\ Closed(insts, insts_to_decode)
             /\ Known(insts, entry_points \cup new_entry_points \cup CallTargets(result))
  BY <1>1 DEF Decoded
<1>6. CallTargets({}) = {}
  BY CallTargetsUnion
<1>. HIDE DEF Known
<1>7. ASSUME NEW I, NEW E, NEW F, Known(I, E), E \subseteq F PROVE Known(I, F)
  BY <1>7 DEF Known
<1>. HIDE DEF Closed
<1>. USE DEF Early, Late, seeds, decoder
<1>8. CASE Seed
  <2>1. entry_points = {}
    BY <1>8, <1>1 DEF Seed, Rounds
  <2>. QED
    BY <1>8, <1>5, <1>7, <2>1 DEF Seed, Abort
<1>9. CASE BeginRound
  <2>1. new_entry_points \subseteq entry_points
    BY <1>9, <1>1 DEF BeginRound, Rounds
  <2>. QED
    BY <1>9, <1>5, <1>7, <2>1 DEF BeginRound
<1>10. ASSUME NEW addr \in Address, DecodeFunction(addr) PROVE <1>4!1
  BY <1>10, <1>5 DEF DecodeFunction, Closed
<1>11. ASSUME NEW addr \in Address, DecodeInst(addr) PROVE <1>4!1
  <2>1. CASE Abort
    BY <2>1, <1>5 DEF Abort
  <2>2. CASE addr \in result /\ ~Abort
    BY <2>2, <1>11, <1>5 DEF DecodeInst, Closed
  <2>3. CASE addr \notin result /\ ~Abort
    <3>1. /\ phase = "decode" /\ phase' = phase
          /\ insts' = insts \cup {addr} /\ result' = result \cup {addr}
          /\ insts_to_decode' = (insts_to_decode \ {addr})
                                   \cup DecodeSuccessors(input.image[addr])
          /\ entry_points' = entry_points /\ new_entry_points' = new_entry_points
      BY <2>3, <1>11 DEF DecodeInst
    <3>2. Closed(insts', insts_to_decode')
      BY <3>1, <1>5 DEF Closed
    <3>3. /\ CallTargets(insts') = CallTargets(insts) \cup CallTargets({addr})
          /\ CallTargets(result') = CallTargets(result) \cup CallTargets({addr})
      BY <3>1, CallTargetsUnion
    <3>4. Known(insts', entry_points' \cup new_entry_points' \cup CallTargets(result'))
      BY <3>1, <3>3, <1>5 DEF Known
    <3>. QED
      BY <3>1, <3>2, <3>4, <1>5
  <2>. QED
    BY <2>1, <2>2, <2>3
<1>12. CASE CollectCalls
  BY <1>12, <1>5, <1>7 DEF CollectCalls
<1>13. CASE EndRound
  BY <1>13, <1>5, <1>6, <1>7 DEF EndRound
<1>14. CASE DeclareFunctions
  BY <1>14, <1>5, <1>6, <1>7 DEF DeclareFunctions
<1>15. ASSUME NEW addr \in Address, DefineFunction(addr) PROVE <1>4!1
  BY <1>15, <1>5 DEF DefineFunction
<1>16. ASSUME NEW addr \in Address, LiftBlock(addr) PROVE <1>4!1
  BY <1>16, <1>5 DEF LiftBlock
<1>17. CASE LiftInst
  <2>1. CASE Abort
    BY <2>1, <1>5 DEF Abort
  <2>2. CASE ~Abort
    <3>1. /\ insts \subseteq insts'
          /\ phase = "lift" /\ phase' = phase
          /\ UNCHANGED <<entry_points, new_entry_points, insts_to_decode, result>>
      BY <2>2, <1>17 DEF LiftInst
    <3>2. Full => insts' = insts
      BY <1>17, LiftInstDecoded
    <3>. QED
      BY <3>1, <3>2, <1>5
  <2>. QED
    BY <2>1, <2>2
<1>18. CASE FinishFunction
  BY <1>18, <1>5 DEF FinishFunction
<1>19. CASE FinalizeModule
  BY <1>19, <1>5 DEF FinalizeModule
<1>20. CASE UNCHANGED vars
  BY <1>20, <1>5 DEF vars
<1>. QED
  BY <1>8, <1>9, <1>10, <1>11, <1>12, <1>13, <1>14, <1>15, <1>16, <1>17, <1>18, <1>19, <1>20
     DEF Next, Terminating

-----------------------------------------------------------------------------
(***************************************************************************)
(* The rounds end only when every entry point is decoded                   *)
(***************************************************************************)
\* Without duplicates the list is as long as the set of its elements.
LEMMA SeedSize ==
    ASSUME TypeOK, NoRepeats, NEW V \in {input.visible, {}}
    PROVE  Cardinality(V) + Len(input.user) = Cardinality(V \cup Elements(input.user))
<1>. DEFINE U == Elements(input.user)
<1>1. V \subseteq Address /\ U \subseteq Address
  BY InputType DEF TypeOK
<1>2. IsFiniteSet(V) /\ IsFiniteSet(U)
  BY <1>1, AddressAssumption, FS_Subset
<1>3. V \cap U = {} /\ Cardinality(U) = Len(input.user)
  BY DEF NoRepeats
<1>. HIDE DEF U
<1>4. Cardinality(V \cup U) = Cardinality(V) + Cardinality(U) - Cardinality(V \cap U)
  BY <1>2, FS_Union
<1>5. Cardinality(V) \in Nat /\ Cardinality(U) \in Nat /\ Cardinality(V \cap U) = 0
  BY <1>2, <1>3, FS_CardinalityType, FS_EmptySet
<1>. QED
  BY <1>3, <1>4, <1>5 DEF U

\* A full disassembly that stops has decoded all of its entry points.
LEMMA LastRoundIdle ==
    ASSUME IInv, Full, phase = "iterate", ~IterCondition(size, prev_size)
    PROVE  entry_points \subseteq insts /\ \A a \in entry_points : HasInfo(a)
<1>1. ~(size > prev_size) /\ size = Cardinality(entry_points) /\ NoRepeats
  BY DEF IInv, Rounds, IterCondition, Full
<1>2. PICK P \in SUBSET entry_points : P \subseteq insts /\ Cardinality(P) = prev_size
  BY <1>1 DEF IInv, Rounds
<1>3. IsFiniteSet(entry_points)
  BY AddressAssumption, FS_Subset DEF IInv, TypeOK
<1>4. /\ Cardinality(P) \in Nat /\ Cardinality(entry_points) \in Nat
      /\ Cardinality(P) <= Cardinality(entry_points)
      /\ Cardinality(P) = Cardinality(entry_points) => P = entry_points
  BY <1>2, <1>3, FS_Subset, FS_CardinalityType
<1>5. P = entry_points
  BY <1>1, <1>2, <1>4
<1>. QED
  BY <1>2, <1>5 DEF IInv, TypeOK, HasInfo

\* The decoding rounds keep every call of decoded code among the entry points that
\* are known or about to be.
LEMMA RoundsStep ==
    ASSUME IInv, [Next]_vars
    PROVE  Rounds'
<1>1. TypeOK /\ Rounds /\ Decoded
  BY DEF IInv
<1>2. /\ input' = input /\ Full' = Full /\ NoRepeats' = NoRepeats
      /\ \A a : HasInfo(a)' = HasInfo(a)
  BY SameInput
<1>. USE <1>1, <1>2 DEF Late, seeds, decoder, Rounds, NullInfoOnlyPartial
<1>3. CASE Abort
  BY <1>3 DEF Abort
<1>4. CASE Seed /\ ~Abort
  <2>. DEFINE V == IF input.mode = "full" THEN input.visible ELSE {}
  <2>1. /\ phase = "seed" /\ phase' = "iterate"
        /\ entry_points' = V \cup Elements(input.user)
        /\ size' = Cardinality(V) + Len(input.user)
        /\ \A a \in Elements(input.user) : HasInfo(a)
        /\ UNCHANGED <<prev_size, pending, new_entry_points, insts, insts_to_decode>>
    BY <1>4 DEF Seed
  <2>2. NoRepeats => size' = Cardinality(entry_points')
    BY <2>1, SeedSize
  <2>3. \E P \in SUBSET entry_points' : P \subseteq insts' /\ Cardinality(P) = prev_size'
    BY <2>1, FS_EmptySet
  <2>4. \A a \in V : HasInfo(a)
    BY DEF HasInfo
  <2>. QED
    BY <2>1, <2>2, <2>3, <2>4
<1>5. CASE BeginRound
  BY <1>5 DEF BeginRound, IterCondition
<1>6. ASSUME NEW addr \in Address, DecodeFunction(addr) PROVE Rounds'
  BY <1>6 DEF DecodeFunction
<1>7. ASSUME NEW addr \in Address, DecodeInst(addr), ~Abort PROVE Rounds'
  BY <1>7 DEF DecodeInst, Decoded
<1>8. CASE CollectCalls
  BY <1>8 DEF CollectCalls
<1>9. CASE EndRound
  <2>1. NoRepeats => entry_points \in SUBSET entry_points' /\ entry_points \subseteq insts'
                     /\ Cardinality(entry_points) = prev_size'
    BY <1>9 DEF EndRound
  <2>. QED
    BY <1>9, <2>1 DEF EndRound
<1>10. CASE DeclareFunctions
  <2>1. Full => entry_points \subseteq insts /\ \A a \in entry_points : HasInfo(a)
    BY <1>10, LastRoundIdle DEF DeclareFunctions
  <2>. QED
    BY <1>10, <2>1 DEF DeclareFunctions
<1>11. ASSUME NEW addr \in Address, DefineFunction(addr) PROVE Rounds'
  BY <1>11 DEF DefineFunction
<1>12. ASSUME NEW addr \in Address, LiftBlock(addr) PROVE Rounds'
  BY <1>12 DEF LiftBlock
<1>13. CASE LiftInst /\ ~Abort
  BY <1>13 DEF LiftInst
<1>14. CASE FinishFunction
  BY <1>14 DEF FinishFunction
<1>15. CASE FinalizeModule
  BY <1>15 DEF FinalizeModule
<1>16. CASE UNCHANGED vars
  BY <1>16 DEF vars
<1>. QED
  BY <1>3, <1>4, <1>5, <1>6, <1>7, <1>8, <1>9, <1>10, <1>11, <1>12, <1>13, <1>14, <1>15, <1>16
     DEF Next, Terminating

-----------------------------------------------------------------------------
(***************************************************************************)
(* Every block is filled, by the function that created it                  *)
(***************************************************************************)
\* A block that has been created is filled or waits to be, in its own function.
LEMMA BlocksStep ==
    ASSUME IInv, [Next]_vars
    PROVE  Blocks'
<1>1. TypeOK /\ Blocks /\ input' = input
  BY SameInput DEF IInv
<1>. USE <1>1, AddressAssumption DEF Early, seeds, decoder, code, lifter, Blocks, TypeOK
<1>2. CASE Abort
  BY <1>2 DEF Abort
<1>3. CASE Seed /\ ~Abort
  BY <1>3 DEF Seed
<1>4. CASE BeginRound
  BY <1>4 DEF BeginRound
<1>5. ASSUME NEW addr \in Address, DecodeFunction(addr) PROVE Blocks'
  BY <1>5 DEF DecodeFunction
<1>6. ASSUME NEW addr \in Address, DecodeInst(addr), ~Abort PROVE Blocks'
  <2>1. insts \subseteq insts' /\ phase = "decode" /\ phase' = phase
        /\ UNCHANGED <<code, lifter>>
    BY <1>6 DEF DecodeInst
  <2>. QED
    BY <2>1
<1>7. CASE CollectCalls
  BY <1>7 DEF CollectCalls
<1>8. CASE EndRound
  BY <1>8 DEF EndRound
<1>9. CASE DeclareFunctions
  BY <1>9 DEF DeclareFunctions
<1>10. ASSUME NEW addr \in Address, DefineFunction(addr) PROVE Blocks'
  <2>1. /\ phase = "define" /\ phase' = "lift" /\ func' = addr
        /\ block' = None /\ pc' = pc /\ block = None
        /\ blocks_to_lift = {} /\ blocks_to_lift' = {addr}
        /\ UNCHANGED <<lifted, terminated, insts>>
    BY <1>10 DEF DefineFunction
  <2>2. \A a \in Address : owner'[a] = IF a = addr /\ owner[a] = None THEN addr ELSE owner[a]
    BY <1>10 DEF DefineFunction, GetOrCreateBlocks
  <2>. QED
    BY <2>1, <2>2
<1>11. ASSUME NEW addr \in Address, LiftBlock(addr) PROVE Blocks'
  BY <1>11 DEF LiftBlock
<1>12. CASE LiftInst /\ ~Abort
  <2>. DEFINE inst == input.image[pc]
  <2>1. inst \in Instruction
    BY <1>12, InputType DEF LiftInst
  <2>. HIDE DEF inst
  <2>2. BranchTargets(inst) \subseteq Address /\ inst.next_pc \in Address
    BY <2>1, TargetType
  <2>3. /\ phase = "lift" /\ phase' = phase /\ block \in Address /\ func' = func
        /\ insts' = insts \cup {pc} /\ lifted' = lifted \cup {block}
        /\ terminated' = IF EmitsTerminator(inst) THEN terminated \cup {block} ELSE terminated
        /\ blocks_to_lift' = (blocks_to_lift \cup (BranchTargets(inst) \ (lifted \cup {block})))
                                \ (IF IsTerminator(inst) THEN {block} ELSE {})
        /\ block' = IF IsTerminator(inst) THEN None ELSE block
        /\ pc' = IF IsTerminator(inst) THEN None ELSE inst.next_pc
    BY <1>12 DEF LiftInst, BlocksToQueue, inst
  <2>4. \A a \in Address : owner'[a] = IF a \in BranchTargets(inst) /\ owner[a] = None
                                        THEN func ELSE owner[a]
    BY <1>12 DEF LiftInst, GetOrCreateBlocks, inst
  <2>5. IsTerminator(inst) => EmitsTerminator(inst) \/ inst.category = "async"
    BY DEF IsTerminator, EmitsTerminator
  <2>6. \A a \in lifted' : \/ a = block'
                          \/ a \in terminated'
                          \/ \E m \in insts' : input.image[m].category = "async"
    BY <2>3, <2>5 DEF inst
  <2>7. /\ \A a \in Address : owner'[a] # None => a \in lifted' \cup blocks_to_lift'
        /\ \A a \in blocks_to_lift' \ lifted' : owner'[a] = func'
    BY <2>2, <2>3, <2>4
  <2>8. block' # None => owner'[block'] = func' /\ block' \in blocks_to_lift' /\ pc' # None
    BY <2>2, <2>3, <2>4
  <2>. QED
    BY <2>3, <2>6, <2>7, <2>8
<1>13. CASE FinishFunction
  BY <1>13 DEF FinishFunction
<1>14. CASE FinalizeModule
  BY <1>14 DEF FinalizeModule
<1>15. CASE UNCHANGED vars
  BY <1>15 DEF vars
<1>. QED
  BY <1>2, <1>3, <1>4, <1>5, <1>6, <1>7, <1>8, <1>9, <1>10, <1>11, <1>12, <1>13, <1>14, <1>15
     DEF Next, Terminating

-----------------------------------------------------------------------------
(***************************************************************************)
(* Every declared function is an entry point or a call target              *)
(***************************************************************************)
\* What is declared has been found by decoding, and lifting meets decoded code only.
LEMMA DeclaredStep ==
    ASSUME IInv, [Next]_vars
    PROVE  Declared'
<1>1. TypeOK /\ Decoded /\ Rounds /\ Blocks /\ Declared
  BY DEF IInv
<1>2. /\ input' = input /\ Full' = Full /\ CallTargets(insts)' = CallTargets(insts')
      /\ \A S, T : CallTargets(S \cup T) = CallTargets(S) \cup CallTargets(T)
  BY SameInput, CallTargetsUnion
<1>. USE <1>1, <1>2 DEF Early, Late, seeds, decoder, code, lifter, Declared
<1>3. CASE Abort
  BY <1>3 DEF Abort
<1>4. CASE Seed /\ ~Abort
  BY <1>4 DEF Seed
<1>5. CASE BeginRound
  BY <1>5 DEF BeginRound
<1>6. ASSUME NEW addr \in Address, DecodeFunction(addr) PROVE Declared'
  BY <1>6 DEF DecodeFunction
<1>7. ASSUME NEW addr \in Address, DecodeInst(addr), ~Abort PROVE Declared'
  BY <1>7 DEF DecodeInst
<1>8. CASE CollectCalls
  BY <1>8 DEF CollectCalls
<1>9. CASE EndRound
  BY <1>9 DEF EndRound
<1>10. CASE DeclareFunctions
  BY <1>10 DEF DeclareFunctions
<1>11. ASSUME NEW addr \in Address, DefineFunction(addr) PROVE Declared'
  <2>1. /\ addr \in entry_points
        /\ Full => entry_points \subseteq insts
        /\ blocks_to_lift = {} /\ block = None
    BY <1>11 DEF DefineFunction, Rounds, Blocks
  <2>. QED
    BY <1>11, <2>1 DEF DefineFunction, Rounds
<1>12. ASSUME NEW addr \in Address, LiftBlock(addr) PROVE Declared'
  BY <1>12 DEF LiftBlock
<1>13. CASE LiftInst /\ ~Abort
  <2>. DEFINE inst == input.image[pc]
  <2>1. pc \in Mapped /\ inst \in Instruction
    BY <1>13, InputType DEF LiftInst, TypeOK
  <2>2. CalleeOf(inst) \subseteq CallTargets({pc})
    BY DEF CalleeOf, CallTargets
  <2>. HIDE DEF inst
  <2>3. /\ phase = "lift" /\ phase' = phase /\ UNCHANGED <<entry_points, pending, defined>>
        /\ insts' = insts \cup {pc}
        /\ functions' = functions \cup CalleeOf(inst)
        /\ blocks_to_lift' \subseteq blocks_to_lift \cup BranchTargets(inst)
        /\ block' # None => ~IsTerminator(inst) /\ pc' = inst.next_pc
    BY <1>13 DEF LiftInst, BlocksToQueue, inst
  <2>4. functions' \subseteq entry_points' \cup CallTargets(insts')
    BY <2>2, <2>3
  <2>5. Full => pc \in insts
    BY <1>13, <2>3 DEF LiftInst
  <2>6. Full => DecodeSuccessors(inst) \subseteq insts
    BY <2>3, <2>5 DEF Decoded, inst
  <2>7. /\ BranchTargets(inst) \subseteq DecodeSuccessors(inst)
        /\ ~IsTerminator(inst) => inst.next_pc \in DecodeSuccessors(inst)
    BY <2>1, TargetType
  <2>. QED
    BY <2>3, <2>4, <2>6, <2>7
<1>14. CASE FinishFunction
  BY <1>14 DEF FinishFunction
<1>15. CASE FinalizeModule
  BY <1>15 DEF FinalizeModule
<1>16. CASE UNCHANGED vars
  BY <1>16 DEF vars
<1>. QED
  BY <1>3, <1>4, <1>5, <1>6, <1>7, <1>8, <1>9, <1>10, <1>11, <1>12, <1>13, <1>14, <1>15, <1>16
     DEF Next, Terminating

-----------------------------------------------------------------------------
(***************************************************************************)
(* Functions that share no code keep their blocks apart                    *)
(***************************************************************************)
\* An instruction, its successors and the block it is lifted into are at home
\* in the same function.
LEMMA HomeOfSuccessors ==
    ASSUME IInv, LiftInst, NEW home \in [Address -> Address], Separate(home), pc \in Mapped
    PROVE  /\ \A t \in BranchTargets(input.image[pc]) : t \in Address /\ home[t] = func
           /\ ~IsTerminator(input.image[pc]) => home[input.image[pc].next_pc] = func
           /\ home[block] = func
<1>1. TypeOK /\ Blocks /\ AtHome
  BY DEF IInv
<1>2. /\ block # None /\ block \in Address /\ owner[block] = func /\ func # None
      /\ home[pc] = home[block]
  BY <1>1 DEF LiftInst, TypeOK, Blocks, AtHome
<1>3. home[block] = func
  BY <1>1, <1>2 DEF AtHome
<1>4. \A t \in DecodeSuccessors(input.image[pc]) : home[t] = func
  BY <1>2, <1>3 DEF Separate
<1>5. /\ DecodeSuccessors(input.image[pc]) \subseteq Address
      /\ BranchTargets(input.image[pc]) \subseteq DecodeSuccessors(input.image[pc])
      /\ ~IsTerminator(input.image[pc]) =>
             input.image[pc].next_pc \in DecodeSuccessors(input.image[pc])
  BY <1>1, InputType, TargetType DEF TypeOK
<1>. QED
  BY <1>3, <1>4, <1>5

\* When functions share no code, everything a function touches is at home in it.
LEMMA AtHomeStep ==
    ASSUME IInv, [Next]_vars
    PROVE  AtHome'
<1>1. TypeOK /\ Rounds /\ Blocks /\ AtHome /\ input' = input
  BY SameInput DEF IInv
<1>. DEFINE Home(home) ==
        /\ \A f \in entry_points \cup new_entry_points \cup pending \cup defined : home[f] = f
        /\ \A b \in branches : home[b[1]] = home[b[2]]
        /\ \A a \in Address : owner[a] # None => owner[a] = home[a]
        /\ func # None => home[func] = func
        /\ block # None => home[pc] = home[block]
<1>2. SUFFICES ASSUME NEW home \in [Address -> Address], Separate(home)'
               PROVE  Home(home)'
  BY DEF AtHome
<1>3. Separate(home)
  BY <1>1, <1>2 DEF Separate, Elements, CallTargets, DecodeSuccessors, IsTerminator
<1>4. Home(home)
  BY <1>1, <1>3 DEF AtHome
<1>. USE <1>1, <1>4 DEF seeds, decoder, code, lifter
<1>5. CASE Abort
  BY <1>5 DEF Abort
<1>6. CASE Seed /\ ~Abort
  <2>1. entry_points' \subseteq input.visible \cup Elements(input.user)
        /\ UNCHANGED <<new_entry_points, pending, code, lifter>>
    BY <1>6 DEF Seed
  <2>. QED
    BY <2>1, <1>3 DEF Separate
<1>7. CASE BeginRound
  BY <1>7 DEF BeginRound
<1>8. ASSUME NEW addr \in Address, DecodeFunction(addr) PROVE Home(home)'
  BY <1>8 DEF DecodeFunction
<1>9. ASSUME NEW addr \in Address, DecodeInst(addr), ~Abort PROVE Home(home)'
  BY <1>9 DEF DecodeInst
<1>10. CASE CollectCalls
  <2>1. CallTargets(result) \subseteq CallTargets(Mapped)
    BY DEF CallTargets, TypeOK
  <2>. QED
    BY <1>10, <2>1, <1>3 DEF CollectCalls, Separate
<1>11. CASE EndRound
  BY <1>11 DEF EndRound
<1>12. CASE DeclareFunctions
  BY <1>12 DEF DeclareFunctions
<1>13. ASSUME NEW addr \in Address, DefineFunction(addr) PROVE Home(home)'
  <2>1. addr \in entry_points
    BY <1>13 DEF DefineFunction, Rounds
  <2>2. \A a \in Address : owner'[a] = IF a = addr /\ owner[a] = None THEN addr ELSE owner[a]
    BY <1>13 DEF DefineFunction, GetOrCreateBlocks
  <2>. QED
    BY <1>13, <2>1, <2>2 DEF DefineFunction
<1>14. ASSUME NEW addr \in Address, LiftBlock(addr) PROVE Home(home)'
  BY <1>14 DEF LiftBlock
<1>15. CASE LiftInst /\ ~Abort
  <2>. DEFINE inst == input.image[pc]
  <2>1. /\ \A t \in BranchTargets(inst) : home[t] = func
        /\ ~IsTerminator(inst) => home[inst.next_pc] = func
        /\ home[block] = func
    BY <1>15, <1>3, HomeOfSuccessors DEF LiftInst
  <2>. HIDE DEF inst
  <2>2. /\ UNCHANGED <<seeds, func, defined>>
        /\ branches' \subseteq branches \cup {<<block, t>> : t \in BranchTargets(inst)}
        /\ block' # None => block' = block /\ ~IsTerminator(inst) /\ pc' = inst.next_pc
    BY <1>15 DEF LiftInst, inst
  <2>3. \A a \in Address : owner'[a] = IF a \in BranchTargets(inst) /\ owner[a] = None
                                        THEN func ELSE owner[a]
    BY <1>15 DEF LiftInst, GetOrCreateBlocks, inst
  <2>. QED
    BY <2>1, <2>2, <2>3
<1>16. CASE FinishFunction
  BY <1>16 DEF FinishFunction
<1>17. CASE FinalizeModule
  BY <1>17 DEF FinalizeModule
<1>18. CASE UNCHANGED vars
  BY <1>18 DEF vars
<1>. QED
  BY <1>5, <1>6, <1>7, <1>8, <1>9, <1>10, <1>11, <1>12, <1>13, <1>14, <1>15, <1>16, <1>17, <1>18
     DEF Next, Terminating

\* The blocks that branches lead to, and those of the defined functions, exist.
LEMMA CreatedStep ==
    ASSUME IInv, [Next]_vars
    PROVE  Created'
<1>1. TypeOK /\ Blocks /\ Created
  BY DEF IInv
<1>. USE <1>1, AddressAssumption DEF seeds, decoder, code, lifter, Created
<1>2. CASE UNCHANGED <<owner, branches, defined>>
  BY <1>2
<1>3. ASSUME NEW addr \in Address, DefineFunction(addr) PROVE Created'
  <2>1. /\ \A a \in Address : owner'[a] = IF a = addr /\ owner[a] = None THEN addr ELSE owner[a]
        /\ branches' = branches /\ defined' = defined \cup {addr}
    BY <1>3 DEF DefineFunction, GetOrCreateBlocks
  <2>. QED
    BY <2>1 DEF TypeOK
<1>4. CASE LiftInst /\ ~Abort
  <2>. DEFINE inst == input.image[pc]
  <2>1. BranchTargets(inst) \subseteq Address
    BY <1>4, InputType, TargetType DEF LiftInst, TypeOK
  <2>. HIDE DEF inst
  <2>2. block \in Address /\ owner[block] = func /\ func # None
    BY <1>4 DEF LiftInst, Blocks, TypeOK
  <2>3. \A a \in Address : owner'[a] = IF a \in BranchTargets(inst) /\ owner[a] = None
                                        THEN func ELSE owner[a]
    BY <1>4 DEF LiftInst, GetOrCreateBlocks, inst
  <2>4. /\ branches' \subseteq branches \cup {<<block, t>> : t \in BranchTargets(inst)}
        /\ defined' = defined
    BY <1>4 DEF LiftInst, inst
  <2>5. \A b \in branches' : owner'[b[1]] # None /\ owner'[b[2]] # None
    <3>1. ASSUME NEW b \in branches PROVE owner'[b[1]] # None /\ owner'[b[2]] # None
      BY <2>3 DEF TypeOK
    <3>2. ASSUME NEW t \in BranchTargets(inst) PROVE owner'[block] # None /\ owner'[t] # None
      BY <2>1, <2>2, <2>3
    <3>. QED
      BY <2>4, <3>1, <3>2
  <2>. QED
    BY <2>3, <2>4, <2>5 DEF TypeOK
<1>. QED
  BY <1>2, <1>3, <1>4
     DEF Next, vars, Seed, Abort, BeginRound, DecodeFunction, DecodeInst, CollectCalls,
         EndRound, DeclareFunctions, LiftBlock, LiftInst, FinishFunction,
         FinalizeModule, Terminating

-----------------------------------------------------------------------------
(***************************************************************************)
(* The theorems                                                            *)
(***************************************************************************)
\* The parts of the inductive invariant hold in every state of the program.
THEOREM Invariance == Spec => []IInv
<1>1. Init => IInv
  <2>. SUFFICES ASSUME Init PROVE IInv
    OBVIOUS
  <2>. USE DEF Init
  <2>1. TypeOK
    BY TypeInit
  <2>2. CallTargets({}) = {}
    BY CallTargetsUnion
  <2>3. Decoded /\ Declared
    BY <2>2 DEF Decoded, Declared, Early, Late
  <2>4. Rounds
    BY DEF Rounds, Late, NullInfoOnlyPartial
  <2>5. Blocks /\ AtHome /\ Created
    BY DEF Blocks, AtHome, Created, Early
  <2>. QED
    BY <2>1, <2>3, <2>4, <2>5 DEF IInv
<1>2. IInv /\ [Next]_vars => IInv'
  BY TypeStep, DecodedStep, RoundsStep, BlocksStep, DeclaredStep, AtHomeStep, CreatedStep
     DEF IInv
<1>. QED
  BY <1>1, <1>2, PTL DEF Spec

\* LiftExecutable, main.cpp:194: a full disassembly from a list without
\* duplicates decodes every function that its code can call.
THEOREM DiscoveryTheorem == Spec => []DiscoveryComplete
<1>1. IInv => DiscoveryComplete
  <2>. SUFFICES ASSUME IInv, NoRepeats, input.mode = "full", phase \in {"define", "lift", "done"}
                PROVE  entry_points \subseteq insts /\ CallTargets(insts) \subseteq entry_points
    BY DEF DiscoveryComplete, NothingNewToDecode
  <2>1. Full /\ phase \in Late
    BY DEF Full, Late
  <2>2. CallTargets({}) = {}
    BY CallTargetsUnion
  <2>. QED
    BY <2>1, <2>2 DEF IInv, Decoded, Rounds
<1>. QED
  BY <1>1, Invariance, PTL

\* main.cpp:219: every function the finished module declares has a body.
THEOREM DefinedTheorem == Spec => []AllDeclaredDefined
<1>1. IInv => AllDeclaredDefined
  <2>. SUFFICES ASSUME IInv, Full, phase = "done" PROVE functions \subseteq defined
    BY DEF AllDeclaredDefined
  <2>1. CallTargets({}) = {}
    BY CallTargetsUnion
  <2>2. entry_points \subseteq defined \cup pending /\ functions \subseteq entry_points
    BY <2>1 DEF IInv, Decoded, Rounds, Declared, Late
  <2>3. pending = {}
    BY DEF IInv, Declared
  <2>. QED
    BY <2>2, <2>3
<1>. QED
  BY <1>1, Invariance, PTL

\* main.cpp:212: getInfo returns null only where --partial or a repeated
\* entry point has cut the decoding short.
THEOREM NullInfoTheorem == Spec => []NullInfoOnlyPartial
<1>1. IInv => NullInfoOnlyPartial
  BY DEF IInv, Rounds
<1>. QED
  BY <1>1, Invariance, PTL

\* DefineFunction leaves no block without code, or code without an end.
THEOREM BlocksTheorem == Spec => []BlocksComplete
<1>1. IInv => BlocksComplete
  BY AddressAssumption DEF IInv, TypeOK, Blocks, BlocksComplete
<1>. QED
  BY <1>1, Invariance, PTL

\* LiftBlock only fills blocks of the function it was asked to lift.
THEOREM OwnerTheorem == Spec => []LiftedByOwner
<1>1. IInv => LiftedByOwner
  BY DEF IInv, Blocks, LiftedByOwner
<1>. QED
  BY <1>1, Invariance, PTL

\* A program whose functions share no code is lifted to functions whose
\* branches stay inside.
THEOREM SeparateTheorem == Spec => []SeparateBranchesStay
<1>1. IInv => SeparateBranchesStay
  <2>. SUFFICES ASSUME IInv, NEW home \in [Address -> Address], Separate(home)
                PROVE  BranchesStayInFunction
    BY DEF SeparateBranchesStay
  <2>1. /\ \A a \in Address : owner[a] # None => owner[a] = home[a]
        /\ \A b \in branches : home[b[1]] = home[b[2]]
        /\ \A f \in defined : home[f] = f
    BY DEF IInv, AtHome
  <2>. QED
    BY <2>1 DEF IInv, TypeOK, Created, BranchesStayInFunction
<1>. QED
  BY <1>1, Invariance, PTL

\* Lifting a full disassembly never decodes an instruction that DecodeFunction
\* has not seen.
THEOREM NothingNewTheorem == Spec => LiftDecodesNothingNew
<1>1. IInv /\ [Next]_vars => (Full /\ phase = "lift" => insts' = insts)
  <2>. SUFFICES ASSUME IInv, [Next]_vars, Full, phase = "lift" PROVE insts' = insts
    OBVIOUS
  <2>1. CASE LiftInst
    BY <2>1, LiftInstDecoded
  <2>. QED
    BY <2>1 DEF Next, vars, decoder, Seed, BeginRound, DecodeFunction, DecodeInst, CollectCalls,
                EndRound, DeclareFunctions, DefineFunction, LiftBlock, FinishFunction,
                FinalizeModule, Terminating
<1>. QED
  BY <1>1, Invariance, PTL DEF Spec, LiftDecodesNothingNew
=============================================================================
