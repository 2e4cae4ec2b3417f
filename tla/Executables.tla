----------------------------- MODULE Executables ----------------------------
(***************************************************************************)
(* Where the decompiler's program comes from: the readers of executables   *)
(* (executables/), which build a map of addresses, a set of named entry    *)
(* points and the names of imported functions, and the repository of entry *)
(* points (symbols/entry_points.cpp) that joins them with the functions    *)
(* declared in headers (header_decls.cpp).                                 *)
(*                                                                         *)
(* A pointer into the file is its offset.  What the bytes of the file mean *)
(* depends on the type they are read as: SymAt[o] is what the reader sees  *)
(* if it takes the bytes at o for a symbol.  All structures of an ELF file *)
(* have the same size here.                                                *)
(***************************************************************************)
EXTENDS Integers, Sequences, FiniteSets, SequencesExt

CONSTANTS
    Address,      \* addresses of the program, a set of numbers
    AddressLimit, \* 2^64
    Name,         \* what a symbol may be called
    EntSize,      \* the size of a structure in an ELF file
    Sizes,        \* sizes of files
    AddrAt, SymAt, RelAt, NameAt,   \* a file's bytes from an offset on, by type
    ProgramHeaders, \* sequences of Elf_Phdr: [type, vaddr, memsz, offset, filesz]
    SectionHeaders, \* sequences of Elf_Shdr: [type, entsizeOk, link, offset, size]
    Entries,      \* where the program may start
    Dynamics,     \* contents of dynamic segments: sequences of [tag, value]
    Scripts,      \* Python scripts, see ParsePython
    ScriptMap,    \* mapAddress of the scripts: from addresses to offsets or None
    Declarations, \* sequences of [name, address], functions in headers
    MaxQueries,   \* bound: requests for information on an address
    None          \* nullptr

VARIABLES
    stage,        \* how far the program is
    format,       \* "elf", "flat", "python"; "unmappable" if mapAddress is missing
    size,         \* the length of the file
    origin,       \* --flat-org
    segments,     \* ElfExecutable::segments, what can be loaded
    dynamics,     \* dynamic segments that are still to be read
    dynEnt,       \* the last dynamic entry of each tag
    sections,     \* all section headers
    symtabs,      \* symbol tables that are still to be read
    symbols,      \* Executable::symbols, names by address
    imports,      \* ElfExecutable::stubTargets
    stubTargets,  \* Executable::stubTargets
    exports,      \* HeaderDeclarations::knownExports
    queries

elf == <<segments, dynamics, dynEnt, sections, symtabs>>
answers == <<symbols, imports, stubTargets, exports, queries>>
vars == <<stage, format, size, origin, elf, answers>>

Empty == <<>>
DT_RELA == 7
DT_REL == 17

\* The structures of an ELF file, alike in both classes but for widths and order.
Elf_Phdr == [type : {"LOAD", "DYNAMIC"}, vaddr : Nat, memsz : Nat, offset : Nat, filesz : Nat]
Elf_Shdr == [type : {"SYMTAB", "STRTAB"}, entsizeOk : BOOLEAN, link : Nat, offset : Nat, size : Nat]
Elf_Sym == [name : Nat, func : BOOLEAN, value : Nat]
Elf_Rel == [offset : Nat, symbol : Nat]
ElfDynamicTag ==
    {"PLTRELSZ", "STRTAB", "SYMTAB", "RELA", "RELASZ", "RELAENT", "INIT", "FINI", "PLTREL", "JMPREL",
     "INIT_ARRAY", "FINI_ARRAY", "INIT_ARRAYSZ", "FINI_ARRAYSZ", "PREINIT_ARRAY", "PREINIT_ARRAYSZ"}
Elf_Dynamic == [tag : ElfDynamicTag, value : Nat]

\* What a script exposes and what comes of its init.
Script ==
    [loads : BOOLEAN, init : {"missing", "raises", "works"}, type : BOOLEAN, triple : BOOLEAN,
     getStubTarget : BOOLEAN, mapAddress : BOOLEAN,
     entryPoints : Seq([address : Address, name : Name] \cup {None})]

ASSUME FileAssumption ==
    /\ Address \subseteq Nat
    /\ ProgramHeaders \subseteq Seq(Elf_Phdr)
    /\ \A shs \in SectionHeaders : \A i \in DOMAIN shs : shs[i] \in Elf_Shdr
    /\ \A entries \in Dynamics : \A i \in DOMAIN entries : entries[i] \in Elf_Dynamic
    /\ \A o \in DOMAIN SymAt : SymAt[o] \in Elf_Sym
    /\ \A o \in DOMAIN RelAt : RelAt[o] \in Elf_Rel
    /\ Scripts \subseteq Script

Init ==
    /\ stage = "start" /\ format = None
    /\ size \in Sizes
    /\ origin = 0
    /\ segments = <<>> /\ dynamics = <<>> /\ dynEnt = Empty
    /\ sections = <<>> /\ symtabs = <<>>
    /\ symbols = Empty /\ imports = Empty /\ stubTargets = Empty /\ exports = Empty
    /\ queries = 0

-----------------------------------------------------------------------------
(***************************************************************************)
(* Reading bytes                                                           *)
(***************************************************************************)
\* map[key] = value of the code's containers.
Put(f, key, value) == [k \in DOMAIN f \cup {key} |-> IF k = key THEN value ELSE f[k]]

\* bounded_cast of one structure, from a base that may be past the end.
InFile(base, offset) == base <= size /\ base + offset + EntSize <= size

\* bounded_cast of an array: the offsets of all of its elements, or of none.
bounded_cast(offset, count) ==
    IF offset + count * EntSize > size THEN <<>>
    ELSE [i \in 1 .. count |-> offset + (i - 1) * EntSize]

\* ElfExecutable::map: the last segment with the address wins.  Nothing says
\* whether the offset is still in the file.
mapElf(a) ==
    LET in == {i \in DOMAIN segments : a >= segments[i].vbegin /\ a < segments[i].vend}
    IN  IF in = {} THEN None
        ELSE LET s == segments[CHOOSE i \in in : \A j \in in : j <= i]
             IN  s.fbegin + (a - s.vbegin)

\* FlatBinary::map
mapFlat(a) == IF a >= origin /\ a < origin + size THEN a - origin ELSE None

\* PythonParsedExecutable::map; the offset may be the end of the file.
mapPython(a) == IF ScriptMap[a] = None \/ ScriptMap[a] > size THEN None ELSE ScriptMap[a]

map(a) == CASE format = "elf" -> mapElf(a)
            [] format = "flat" -> mapFlat(a)
            [] format = "python" -> mapPython(a)
            [] OTHER -> None

-----------------------------------------------------------------------------
(***************************************************************************)
(* Executable::parse and the factories                                     *)
(***************************************************************************)
Fail ==
    /\ stage' = "error"
    /\ UNCHANGED <<format, size, origin, elf, answers>>

\* --format=elf, or auto on a file that starts with the magic number.  The byte
\* order must be the host's, the class 1 or 2.
ParseElf(auto, magic, hostEndian, class) ==
    /\ stage = "start"
    /\ IF (auto /\ ~magic) \/ ~hostEndian \/ class \notin {1, 2} THEN Fail
       ELSE /\ stage' = "header" /\ format' = "elf"
            /\ UNCHANGED <<size, origin, elf, answers>>

\* --format=flat, with the option --flat-org.
ParseFlat(org) ==
    /\ stage = "start"
    /\ stage' = "ready" /\ format' = "flat" /\ origin' = org
    /\ UNCHANGED <<size, elf, answers>>

(***************************************************************************)
(* PythonParsedExecutable::create.  A script has a BOOLEAN for each thing  *)
(* it may expose, init "works", "raises" or is "missing", and a sequence   *)
(* of entry points, None for one that is no pair of an address and a       *)
(* string.  A function that is missing is null: calling it ends the        *)
(* program.  Only getStubTarget is checked, twice.                         *)
(***************************************************************************)
PythonEntries(script) ==
    [a \in {script.entryPoints[i].address : i \in DOMAIN script.entryPoints} |->
        LET last == CHOOSE i \in DOMAIN script.entryPoints :
                        /\ script.entryPoints[i].address = a
                        /\ \A j \in DOMAIN script.entryPoints :
                              script.entryPoints[j].address = a => j <= i
        IN  <<script.entryPoints[last].name>>]

cacheEntryPoints(script) ==
    \A i \in DOMAIN script.entryPoints :
        script.entryPoints[i] # None /\ mapPython(script.entryPoints[i].address) # None

\* cacheEntryPoints gets as far as calling mapAddress.
ReachesMap(script) == script.entryPoints # <<>> /\ script.entryPoints[1] # None

ParsePython(script) ==
    /\ stage = "start"
    /\ UNCHANGED <<size, origin, elf, imports, stubTargets, exports, queries>>
    /\ LET whole == script.type /\ script.triple /\ script.getStubTarget
           crash == \/ script.init = "missing"
                    \/ script.init = "works" /\ whole /\ ~script.mapAddress /\ ReachesMap(script)
       IN  IF script.loads /\ crash THEN stage' = "crashed" /\ UNCHANGED <<format, symbols>>
           ELSE IF ~script.loads \/ script.init = "raises" \/ ~whole \/ ~cacheEntryPoints(script)
           THEN stage' = "error" /\ UNCHANGED <<format, symbols>>
           ELSE /\ stage' = "ready"
                /\ format' = IF script.mapAddress THEN "python" ELSE "unmappable"
                /\ symbols' = PythonEntries(script)

-----------------------------------------------------------------------------
(***************************************************************************)
(* ElfExecutable::parse, one action per walk                               *)
(***************************************************************************)
Loadable(ph) ==
    /\ ph.type = "LOAD"
    /\ ph.vaddr + ph.memsz < AddressLimit
    /\ ph.offset + ph.filesz <= size

Segment(ph) == [vbegin |-> ph.vaddr, vend |-> ph.vaddr + ph.memsz, fbegin |-> ph.offset]

\* The segments, under the numbers of their headers.
Segments(phs) == [i \in {j \in DOMAIN phs : Loadable(phs[j])} |-> Segment(phs[i])]

DynamicSegments(phs) == SelectSeq(phs, LAMBDA ph : ph.type = "DYNAMIC")
SymbolTables(shs) == SelectSeq(shs, LAMBDA sh : sh.type = "SYMTAB")

WalkHeader(phs, shs, entry) ==
    /\ stage = "header"
    /\ segments' = Segments(phs)
    /\ dynamics' = DynamicSegments(phs)
    /\ sections' = shs
    /\ symtabs' = SymbolTables(shs)
    /\ symbols' = IF entry # 0 \/ \E i \in DOMAIN segments' : segments'[i].vbegin = 0
                  THEN Put(symbols, entry, <<>>) ELSE symbols
    /\ stage' = "dynamic"
    /\ UNCHANGED <<format, size, origin, dynEnt, imports, stubTargets, exports, queries>>

\* A later entry with the same tag replaces an earlier one.
DynamicEntries(known, entries) ==
    FoldLeft(LAMBDA ent, dyn : Put(ent, dyn.tag, dyn.value), known, entries)

\* One dynamic segment.  It is read whole or not at all.
WalkDynamic(entries) ==
    /\ stage = "dynamic" /\ dynamics # <<>>
    /\ Len(entries) = Head(dynamics).filesz \div EntSize
    /\ dynEnt' = IF bounded_cast(Head(dynamics).offset, Len(entries)) = <<>> THEN dynEnt
                 ELSE DynamicEntries(dynEnt, entries)
    /\ dynamics' = Tail(dynamics)
    /\ UNCHANGED <<stage, format, size, origin, segments, sections, symtabs, answers>>

Has(tags) == tags \subseteq DOMAIN dynEnt

\* A counter after the prefix; the name is appended to what is there already.
NameEntries(known, prefix, offsets) ==
    FoldLeft(LAMBDA known_, i :
                 LET a == AddrAt[offsets[i]]
                     name == IF a \in DOMAIN known_ THEN known_[a] ELSE <<>>
                 IN  Put(known_, a, name \o <<prefix, i - 1>>),
             known, [i \in DOMAIN offsets |-> i])

\* The location of an array is taken for an offset in the file, and its size for
\* a number of elements.
NameArray(known, prefix, location, length) ==
    IF Has({location, length})
    THEN NameEntries(known, prefix, bounded_cast(dynEnt[location], dynEnt[length]))
    ELSE known

WalkEntryArrays ==
    /\ stage = "dynamic" /\ dynamics = <<>>
    /\ symbols' = NameArray(NameArray(NameArray(symbols,
                      "preinit_", "PREINIT_ARRAY", "PREINIT_ARRAYSZ"),
                      "init_", "INIT_ARRAY", "INIT_ARRAYSZ"),
                      "fini_", "FINI_ARRAY", "FINI_ARRAYSZ")
    /\ stage' = "initfini"
    /\ UNCHANGED <<format, size, origin, elf, imports, stubTargets, exports, queries>>

NameInitFini ==
    /\ stage = "initfini"
    /\ LET init == IF Has({"INIT"}) THEN Put(symbols, dynEnt["INIT"], <<"init">>) ELSE symbols
       IN  symbols' = IF Has({"FINI"}) THEN Put(init, dynEnt["FINI"], <<"fini">>) ELSE init
    /\ stage' = "relocations"
    /\ UNCHANGED <<format, size, origin, elf, imports, stubTargets, exports, queries>>

\* The relocations of a table that lie in the file, and whose symbol and name do.
Named(symtab, strtab, relocBase, length) ==
    SelectSeq([i \in 1 .. (length + EntSize - 1) \div EntSize |-> (i - 1) * EntSize],
              LAMBDA at : /\ InFile(relocBase, at)
                          /\ InFile(symtab, RelAt[relocBase + at].symbol * EntSize)
                          /\ strtab + SymAt[symtab + RelAt[relocBase + at].symbol * EntSize].name < size)

NameImports(known, symtab, strtab, relocBase, length) ==
    FoldLeft(LAMBDA known_, at :
                 LET rel == RelAt[relocBase + at]
                 IN  Put(known_, rel.offset, NameAt[strtab + SymAt[symtab + rel.symbol * EntSize].name]),
             known, Named(symtab, strtab, relocBase, length))

\* The table at the address under this tag, whose size is under the other.
NameTable(known, table, length) ==
    IF ~Has({"SYMTAB", "STRTAB", table, length}) THEN known
    ELSE LET symtab == mapElf(dynEnt["SYMTAB"])
             strtab == mapElf(dynEnt["STRTAB"])
             relocs == mapElf(dynEnt[table])
         IN  IF None \in {symtab, strtab, relocs} THEN known
             ELSE NameImports(known, symtab, strtab, relocs, dynEnt[length])

\* PLT relocations, then those of position-independent executables.
WalkRelocations ==
    /\ stage = "relocations"
    /\ LET plt == IF Has({"PLTREL"}) /\ dynEnt["PLTREL"] \in {DT_REL, DT_RELA}
                  THEN NameTable(imports, "JMPREL", "PLTRELSZ") ELSE imports
       IN  imports' = IF Has({"RELAENT"}) /\ dynEnt["RELAENT"] = EntSize
                      THEN NameTable(plt, "RELA", "RELASZ") ELSE plt
    /\ stage' = "symtabs"
    /\ UNCHANGED <<format, size, origin, elf, symbols, stubTargets, exports, queries>>

\* Where the names of a symbol table are; its link may lead nowhere.
StringTable(sh) ==
    IF /\ sh.link \in 1 .. Len(sections) - 1
       /\ sections[sh.link + 1].type = "STRTAB"
       /\ sections[sh.link + 1].offset < size
    THEN sections[sh.link + 1].offset ELSE None

\* The functions of a table, in its order.
Functions(sh) ==
    IF ~sh.entsizeOk THEN <<>>
    ELSE SelectSeq(LET offsets == bounded_cast(sh.offset, sh.size \div EntSize)
                   IN  [i \in DOMAIN offsets |-> SymAt[offsets[i]]], LAMBDA sym : sym.func)

\* A name that is past the end of the file is no name.
SymbolName(sym, strtab) ==
    IF sym.name = 0 \/ strtab + sym.name >= size THEN <<>> ELSE <<NameAt[strtab + sym.name]>>

\* Mutant: an address that has a name keeps it.
NameFunctionsFirst(known, sh) ==
    FoldLeft(LAMBDA known_, sym : IF sym.value \in DOMAIN known_ THEN known_
                                  ELSE Put(known_, sym.value, SymbolName(sym, StringTable(sh))),
             known, Functions(sh))

\* "This can override dynamic segment info, and it's fine."
NameFunctions(known, sh) ==
    FoldLeft(LAMBDA known_, sym : Put(known_, sym.value, SymbolName(sym, StringTable(sh))),
             known, Functions(sh))

\* The name of a symbol is looked up although there may be no string table: the
\* lookup starts from a null pointer then, and reads whatever is at that address.
WalkSymtab(sh) ==
    IF StringTable(sh) = None /\ \E i \in DOMAIN Functions(sh) : Functions(sh)[i].name # 0
    THEN stage' = "crashed" /\ UNCHANGED symbols
    ELSE symbols' = NameFunctions(symbols, sh) /\ UNCHANGED stage

WalkSymtabs ==
    /\ stage = "symtabs" /\ symtabs # <<>>
    /\ WalkSymtab(Head(symtabs))
    /\ symtabs' = Tail(symtabs)
    /\ UNCHANGED <<format, size, origin, segments, dynamics, dynEnt, sections,
                   imports, stubTargets, exports, queries>>

\* "Figure out file offset for symbols, remove those that don't have one."
RemoveUnmapped ==
    /\ stage = "symtabs" /\ symtabs = <<>>
    /\ symbols' = [a \in {b \in DOMAIN symbols : mapElf(b) # None} |-> symbols[a]]
    /\ stage' = "ready"
    /\ UNCHANGED <<format, size, origin, elf, imports, stubTargets, exports, queries>>

-----------------------------------------------------------------------------
(***************************************************************************)
(* Headers and questions                                                   *)
(***************************************************************************)
\* FunctionDeclarationFinder: of two functions at an address the last is known.
KnownExports(declarations) ==
    FoldLeft(LAMBDA known, d : IF d.address = None THEN known ELSE Put(known, d.address, <<d.name>>),
             Empty, declarations)

ReadHeaders(declarations) ==
    /\ stage = "ready" /\ exports = Empty /\ queries = 0
    /\ exports' = KnownExports(declarations)
    /\ stage' = "open"
    /\ UNCHANGED <<format, size, origin, elf, symbols, imports, stubTargets, queries>>

\* Mutant: any address that is asked for becomes an entry point.
getInfoUnmapped(a) == TRUE

\* Executable::getInfo has an answer.
getInfo(a) == a \in DOMAIN symbols \/ map(a) # None

\* EntryPointRepository::getInfo asks the headers first.  An executable that maps
\* the address makes a symbol without a name of it.
AskInfo(a) ==
    /\ stage = "open" /\ queries < MaxQueries
    /\ IF format = "unmappable" /\ a \notin DOMAIN exports
       THEN stage' = "crashed" /\ UNCHANGED symbols
       ELSE /\ symbols' = IF a \notin DOMAIN exports /\ getInfo(a) /\ a \notin DOMAIN symbols
                          THEN Put(symbols, a, <<>>) ELSE symbols
            /\ UNCHANGED stage
    /\ queries' = queries + 1
    /\ UNCHANGED <<format, size, origin, elf, imports, stubTargets, exports>>

\* doGetStubTarget: a script may give another answer each time.
StubAnswers(a) ==
    CASE format = "elf"    -> IF a \in DOMAIN imports THEN {imports[a]} ELSE {None}
      [] format = "flat"   -> {None}
      [] OTHER             -> Name \cup {None}

\* Mutant: the cache is not asked.
CachedNever(a) == FALSE

Cached(a) == a \in DOMAIN stubTargets

\* Executable::getStubTarget keeps what it has found out.
AskStub(a) ==
    /\ stage = "open" /\ queries < MaxQueries
    /\ IF Cached(a) THEN UNCHANGED stubTargets
       ELSE \E name \in StubAnswers(a) :
               stubTargets' = IF name = None THEN stubTargets ELSE Put(stubTargets, a, name)
    /\ queries' = queries + 1
    /\ UNCHANGED <<stage, format, size, origin, elf, symbols, imports, exports>>

Finished == stage \in {"open", "error", "crashed"} /\ UNCHANGED vars

Next ==
    \/ \E auto, magic, hostEndian \in BOOLEAN, class \in 0 .. 2 : ParseElf(auto, magic, hostEndian, class)
    \/ \E org \in Address : ParseFlat(org)
    \/ \E script \in Scripts : ParsePython(script)
    \/ \E phs \in ProgramHeaders, shs \in SectionHeaders, entry \in Entries :
          WalkHeader(phs, shs, entry)
    \/ \E entries \in Dynamics : WalkDynamic(entries)
    \/ WalkEntryArrays
    \/ NameInitFini
    \/ WalkRelocations
    \/ WalkSymtabs
    \/ RemoveUnmapped
    \/ \E declarations \in Declarations : ReadHeaders(declarations)
    \/ \E a \in Address : AskInfo(a) \/ AskStub(a)
    \/ Finished

Spec == Init /\ [][Next]_vars

-----------------------------------------------------------------------------
(***************************************************************************)
(* Properties                                                              *)
(***************************************************************************)
Parsed == stage \in {"ready", "open"}

\* The types of the variables that later parts of the program read.
TypeOK ==
    /\ DOMAIN symbols \subseteq Address
    /\ DOMAIN imports \subseteq Address /\ DOMAIN stubTargets \subseteq Address
    /\ \A a \in DOMAIN stubTargets : stubTargets[a] \in Name
    /\ \A i \in DOMAIN segments : segments[i].fbegin \in 0 .. size /\ segments[i].vend < AddressLimit

\* Every entry point of an executable that has been parsed is mapped, and stays so
\* whatever is asked of it: parse removes those that are not, the Python reader
\* refuses them, and getInfo makes none of its own.
EntryPointsMapped == Parsed => \A a \in DOMAIN symbols : map(a) # None

\* Whether the first place in the section headers and their tables is the earlier.
Before(p, q) == p[1] < q[1] \/ (p[1] = q[1] /\ p[2] <= q[2])

\* Where the symbol tables have a function at an address.
FunctionsAt(a) ==
    {p \in {<<i, j>> : i \in {k \in DOMAIN sections : sections[k].type = "SYMTAB"},
                      j \in 1 .. size \div EntSize} :
        /\ p[2] \in DOMAIN Functions(sections[p[1]])
        /\ Functions(sections[p[1]])[p[2]].value = a}

\* The name of an address in the source that has the last word on it.  An array of
\* initializers shares the name with other sources and gives none here.
NamesGiven(a) ==
    IF FunctionsAt(a) # {}
    THEN {SymbolName(Functions(sections[p[1]])[p[2]], StringTable(sections[p[1]])) :
             p \in {q \in FunctionsAt(a) : \A r \in FunctionsAt(a) : Before(r, q)}}
    ELSE IF Has({"FINI"}) /\ dynEnt["FINI"] = a THEN {<<"fini">>}
    ELSE IF Has({"INIT"}) /\ dynEnt["INIT"] = a THEN {<<"init">>}
    ELSE {}

\* The six walks of ElfExecutable::parse lose none of each other's entry points and
\* agree whose name counts: a function of a symbol table or of the dynamic segment
\* whose address is mapped is an entry point in the end, under the name that the
\* last function of the last symbol table gives it ("This can override dynamic
\* segment info, and it's fine."), and under "fini" or "init" if no table has it.
FunctionsNamed ==
    format = "elf" /\ Parsed =>
        \A a \in Address : mapElf(a) # None =>
            \A name \in NamesGiven(a) : a \in DOMAIN symbols /\ symbols[a] = name

\* What the program has been told stays true: an entry point is not lost or renamed,
\* and an address that was an imported function stays that function, even if a
\* script would say something else the second time.
AnswersStable ==
    [][stage = "open" =>
         /\ \A a \in DOMAIN symbols : a \in DOMAIN symbols' /\ symbols'[a] = symbols[a]
         /\ \A a \in DOMAIN stubTargets : a \in DOMAIN stubTargets' /\ stubTargets'[a] = stubTargets[a]]_vars
=============================================================================
