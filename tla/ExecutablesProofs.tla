-------------------------- MODULE ExecutablesProofs -------------------------
(***************************************************************************)
(* Proofs about Executables, for every file, script and header.            *)
(***************************************************************************)
EXTENDS Executables, TLAPS

(***************************************************************************)
(* The inductive invariant                                                 *)
(***************************************************************************)
\* The stages of ElfExecutable::parse.
ElfStages == {"header", "dynamic", "initfini", "relocations", "symtabs"}

\* Only an ELF file is read in steps, and nothing has a name before.
StagesInv ==
    /\ stage = "start" => DOMAIN symbols = {}
    /\ stage \in ElfStages => format = "elf"

ExecutableInv == StagesInv /\ EntryPointsMapped

-----------------------------------------------------------------------------
\* map answers from the format, the segments, the origin and the size alone.
LEMMA MapUnchanged ==
    ASSUME UNCHANGED <<format, segments, origin, size>>
    PROVE  \A a : map(a)' = map(a)
<1>. QED
  BY DEF map, mapElf, mapFlat, mapPython

\* A script that is accepted has an address in the file for each entry point.
LEMMA PythonMapped ==
    ASSUME NEW script \in Scripts, ParsePython(script), stage' = "ready", stage = "start"
    PROVE  \A a \in DOMAIN symbols' : map(a)' # None
<1>. DEFINE points == script.entryPoints
<1>1. script \in Script
  BY FileAssumption
<1>2. /\ cacheEntryPoints(script) /\ symbols' = PythonEntries(script) /\ size' = size
      /\ format' = IF script.mapAddress THEN "python" ELSE "unmappable"
      /\ script.mapAddress \/ ~ReachesMap(script)
  BY <1>1 DEF ParsePython, Script
<1>3. points \in Seq([address : Address, name : Name] \cup {None})
  BY <1>1 DEF Script
<1>4. DOMAIN symbols' = {points[i].address : i \in DOMAIN points}
  BY <1>2 DEF PythonEntries
<1>5. \A i \in DOMAIN points : points[i] # None /\ mapPython(points[i].address) # None
  BY <1>2 DEF cacheEntryPoints
<1>6. CASE script.mapAddress
  <2>1. \A a : map(a)' = mapPython(a)
    BY <1>2, <1>6 DEF map, mapPython
  <2>. QED
    BY <1>4, <1>5, <2>1
<1>7. CASE ~script.mapAddress
  <2>1. points = <<>> \/ points[1] = None
    BY <1>2, <1>7 DEF ReachesMap
  <2>2. points # <<>> => 1 \in DOMAIN points
    BY <1>3
  <2>3. points = <<>>
    BY <1>5, <2>1, <2>2
  <2>. QED
    BY <1>4, <2>3
<1>. QED
  BY <1>6, <1>7

-----------------------------------------------------------------------------
(***************************************************************************)
(* The theorems                                                            *)
(***************************************************************************)
\* The inductive invariant: formats and stages agree, and the symbols of a parsed
\* executable are mapped.
THEOREM ExecutableInvariance == Spec => []ExecutableInv
<1>1. Init => ExecutableInv
  BY DEF Init, ExecutableInv, StagesInv, EntryPointsMapped, Parsed, ElfStages, Empty
<1>2. ExecutableInv /\ [Next]_vars => ExecutableInv'
  <2>. SUFFICES ASSUME ExecutableInv, [Next]_vars PROVE ExecutableInv'
    OBVIOUS
  <2>. USE DEF ExecutableInv
  <2>1. ASSUME NEW auto \in BOOLEAN, NEW magic \in BOOLEAN, NEW hostEndian \in BOOLEAN,
               NEW class \in 0 .. 2, ParseElf(auto, magic, hostEndian, class)
        PROVE  ExecutableInv'
    BY <2>1 DEF ParseElf, Fail, StagesInv, EntryPointsMapped, Parsed, ElfStages, elf, answers
  <2>2. ASSUME NEW org \in Address, ParseFlat(org) PROVE ExecutableInv'
    BY <2>2 DEF ParseFlat, StagesInv, EntryPointsMapped, Parsed, ElfStages, elf, answers
  <2>3. ASSUME NEW script \in Scripts, ParsePython(script) PROVE ExecutableInv'
    <3>1. stage = "start" /\ stage' \in {"crashed", "error", "ready"}
      BY <2>3 DEF ParsePython
    <3>2. EntryPointsMapped'
      BY <2>3, <3>1, PythonMapped DEF EntryPointsMapped, Parsed
    <3>. QED
      BY <3>1, <3>2 DEF StagesInv, ElfStages
  <2>4. ASSUME NEW phs \in ProgramHeaders, NEW shs \in SectionHeaders, NEW entry \in Entries,
               WalkHeader(phs, shs, entry)
        PROVE  ExecutableInv'
    <3>1. stage = "header" /\ stage' = "dynamic" /\ format' = format
      BY <2>4 DEF WalkHeader
    <3>. QED
      BY <3>1 DEF StagesInv, ElfStages, EntryPointsMapped, Parsed
  <2>5. ASSUME \/ \E entries \in Dynamics : WalkDynamic(entries)
               \/ WalkEntryArrays \/ NameInitFini \/ WalkRelocations
        PROVE  ExecutableInv'
    <3>1. /\ stage \in ElfStages /\ stage' \in ElfStages
          /\ UNCHANGED <<format, size, segments>>
      BY <2>5 DEF WalkDynamic, WalkEntryArrays, NameInitFini, WalkRelocations, ElfStages, elf
    <3>. QED
      BY <3>1 DEF StagesInv, ElfStages, EntryPointsMapped, Parsed
  <2>6. CASE WalkSymtabs
    <3>1. /\ stage = "symtabs" /\ stage' \in {"crashed", "symtabs"}
          /\ UNCHANGED <<format, size, segments>>
      BY <2>6 DEF WalkSymtabs, WalkSymtab
    <3>. QED
      BY <3>1 DEF StagesInv, ElfStages, EntryPointsMapped, Parsed
  <2>7. CASE RemoveUnmapped
    <3>1. /\ stage = "symtabs" /\ stage' = "ready" /\ format = "elf" /\ format' = "elf"
          /\ UNCHANGED <<size, segments>>
          /\ DOMAIN symbols' = {b \in DOMAIN symbols : mapElf(b) # None}
      BY <2>7 DEF RemoveUnmapped, elf, StagesInv, ElfStages
    <3>2. \A a : map(a)' = mapElf(a)
      BY <3>1 DEF map, mapElf
    <3>. QED
      BY <3>1, <3>2 DEF StagesInv, ElfStages, EntryPointsMapped, Parsed
  <2>8. ASSUME NEW declarations \in Declarations, ReadHeaders(declarations) PROVE ExecutableInv'
    <3>1. /\ stage = "ready" /\ stage' = "open" /\ symbols' = symbols
          /\ UNCHANGED <<format, size, origin, segments>>
      BY <2>8 DEF ReadHeaders, elf
    <3>2. \A a : map(a)' = map(a)
      BY <3>1, MapUnchanged
    <3>. QED
      BY <3>1, <3>2 DEF StagesInv, ElfStages, EntryPointsMapped, Parsed
  <2>9. ASSUME NEW a \in Address, AskInfo(a) PROVE ExecutableInv'
    <3>1. /\ stage = "open" /\ stage' \in {"open", "crashed"}
          /\ UNCHANGED <<format, size, origin, segments>>
          /\ symbols' = symbols \/ (symbols' = Put(symbols, a, <<>>) /\ getInfo(a) /\ a \notin DOMAIN symbols)
      BY <2>9 DEF AskInfo, elf
    <3>2. \A b : map(b)' = map(b)
      BY <3>1, MapUnchanged
    <3>3. \A b \in DOMAIN symbols' : b \in DOMAIN symbols \/ map(b) # None
      BY <3>1 DEF getInfo, Put
    <3>. QED
      BY <3>1, <3>2, <3>3 DEF StagesInv, ElfStages, EntryPointsMapped, Parsed
  <2>10. CASE (\E a \in Address : AskStub(a)) \/ Finished \/ UNCHANGED vars
    <3>1. UNCHANGED <<stage, format, size, origin, segments, symbols>>
      BY <2>10 DEF AskStub, Finished, vars, elf, answers
    <3>2. \A a : map(a)' = map(a)
      BY <3>1, MapUnchanged
    <3>. QED
      BY <3>1, <3>2 DEF StagesInv, ElfStages, EntryPointsMapped, Parsed
  <2>. QED
    BY <2>1, <2>2, <2>3, <2>4, <2>5, <2>6, <2>7, <2>8, <2>9, <2>10 DEF Next
<1>. QED
  BY <1>1, <1>2, PTL DEF Spec

\* Every entry point of an executable that has been parsed is mapped, in all
\* formats and whatever is asked of it (Executable::getInfo, and the last loop
\* of ElfExecutable::parse).
THEOREM EntryPointsTheorem == Spec => []EntryPointsMapped
<1>1. ExecutableInv => EntryPointsMapped
  BY DEF ExecutableInv
<1>. QED
  BY <1>1, ExecutableInvariance, PTL

\* What the program has been told stays true: symbols and stub targets are only
\* added, never renamed or lost (Executable::getInfo and getStubTarget).
THEOREM AnswersTheorem == Spec => AnswersStable
<1>. DEFINE Stable ==
         stage = "open" =>
           /\ \A a \in DOMAIN symbols : a \in DOMAIN symbols' /\ symbols'[a] = symbols[a]
           /\ \A a \in DOMAIN stubTargets :
                a \in DOMAIN stubTargets' /\ stubTargets'[a] = stubTargets[a]
<1>1. [Next]_vars => [Stable]_vars
  <2>. SUFFICES ASSUME Next, stage = "open"
                PROVE  /\ \A a \in DOMAIN symbols : a \in DOMAIN symbols' /\ symbols'[a] = symbols[a]
                       /\ \A a \in DOMAIN stubTargets :
                            a \in DOMAIN stubTargets' /\ stubTargets'[a] = stubTargets[a]
    OBVIOUS
  <2>1. ASSUME NEW a \in Address, AskInfo(a)
        PROVE  /\ stubTargets' = stubTargets
               /\ \A b \in DOMAIN symbols : b \in DOMAIN symbols' /\ symbols'[b] = symbols[b]
    BY <2>1 DEF AskInfo, Put
  <2>2. ASSUME NEW a \in Address, AskStub(a)
        PROVE  /\ symbols' = symbols
               /\ \A b \in DOMAIN stubTargets :
                    b \in DOMAIN stubTargets' /\ stubTargets'[b] = stubTargets[b]
    BY <2>2 DEF AskStub, Cached, Put
  <2>3. CASE Finished
    BY <2>3 DEF Finished, vars, answers
  <2>4. (\E a \in Address : AskInfo(a) \/ AskStub(a)) \/ Finished
    BY DEF Next, ParseElf, ParseFlat, ParsePython, WalkHeader, WalkDynamic, WalkEntryArrays,
           NameInitFini, WalkRelocations, WalkSymtabs, RemoveUnmapped, ReadHeaders
  <2>. QED
    BY <2>1, <2>2, <2>3, <2>4
<1>. QED
  BY <1>1, PTL DEF Spec, AnswersStable

=============================================================================
