---------------------------- MODULE MCExecutables ---------------------------
(***************************************************************************)
(* Instances of Executables: small ELF files with overlapping segments,    *)
(* one larger in memory than in the file, others that cannot be loaded,    *)
(* dynamic segments of every kind, and symbol tables with and without      *)
(* strings; a few scripts; headers that repeat an address.                 *)
(***************************************************************************)
EXTENDS Executables

CONSTANTS main, exit, puts

MCAddress == 0 .. 6
MCName == {main, exit, puts}
Offset == 0 .. 24

MCAddrAt == [o \in Offset |-> (3 * o) % 7]
MCRelAt == [o \in Offset |-> [offset |-> o % 5, symbol |-> (o \div 2) % 2]]
MCSymAt == [o \in Offset |-> [name |-> IF o % 4 = 0 THEN 0 ELSE 1 + (o % 3),
                              func |-> o % 8 # 2, value |-> (o + 2) % 7]]
MCNameAt == [o \in Offset |-> CASE o % 3 = 0 -> main [] o % 3 = 1 -> exit [] OTHER -> puts]

Phdr(type, vaddr, memsz, offset, filesz) ==
    [type |-> type, vaddr |-> vaddr, memsz |-> memsz, offset |-> offset, filesz |-> filesz]

Text == Phdr("LOAD", 0, 4, 0, 4)
Data == Phdr("LOAD", 2, 4, 4, 2)        \* overlaps Text, has two bytes of zeros
Huge == Phdr("LOAD", 4, 5, 0, 2)        \* ends past the last address
Past == Phdr("LOAD", 5, 1, 11, 4)        \* ends past the end of the file
Dyn == Phdr("DYNAMIC", 0, 4, 2, 4)
More == Phdr("DYNAMIC", 0, 4, 0, 6)
Lost == Phdr("DYNAMIC", 0, 4, 6, 6)     \* ends past the end of the file

MCProgramHeaders ==
    {<<>>, <<Text>>, <<Data, Text>>, <<Text, Data, Dyn>>, <<Huge, Text, More>>,
     <<Past, Data, More>>, <<Text, Data, Dyn, More>>, <<Data, Lost, Dyn>>}

Shdr(type, entsizeOk, link, offset, sz) ==
    [type |-> type, entsizeOk |-> entsizeOk, link |-> link, offset |-> offset, size |-> sz]

Strings == Shdr("STRTAB", FALSE, 0, 1, 4)
MCSectionHeaders ==
    {<<>>, <<Shdr("SYMTAB", TRUE, 1, 0, 8), Strings>>,
     <<Shdr("SYMTAB", TRUE, 1, 2, 6), Strings, Shdr("SYMTAB", TRUE, 1, 0, 7)>>,
     <<Shdr("SYMTAB", TRUE, 0, 4, 2), Strings>>,          \* unnamed functions, no strings
     <<Shdr("SYMTAB", TRUE, 2, 0, 4), Strings>>,          \* a link to nowhere
     <<Shdr("SYMTAB", FALSE, 1, 0, 4), Strings, Shdr("SYMTAB", TRUE, 1, 6, 8)>>}

D(tag, value) == [tag |-> tag, value |-> value]
MCDynamics ==
    {<<D("INIT", 1), D("FINI", 5)>>, <<D("INIT", 3), D("INIT", 0)>>,
     <<D("SYMTAB", 0), D("STRTAB", 3)>>, <<D("INIT_ARRAY", 0), D("INIT_ARRAYSZ", 2)>>,
     <<D("JMPREL", 1), D("PLTRELSZ", 4), D("PLTREL", DT_RELA)>>,
     <<D("RELA", 2), D("RELASZ", 6), D("RELAENT", EntSize)>>,
     <<D("PREINIT_ARRAY", 2), D("PREINIT_ARRAYSZ", 2), D("FINI_ARRAY", 0)>>,
     <<D("FINI_ARRAYSZ", 1), D("FINI_ARRAY", 0), D("RELA", 6)>>}

Entry(a, n) == [address |-> a, name |-> n]
MCScripts ==
    [loads : BOOLEAN, init : {"missing", "raises", "works"}, type : BOOLEAN, triple : BOOLEAN,
     getStubTarget : BOOLEAN, mapAddress : BOOLEAN,
     entryPoints : {<<>>, <<None>>, <<Entry(1, main), Entry(1, exit)>>, <<Entry(1, main), Entry(4, exit)>>}]

MCScriptMap == [a \in MCAddress |-> CASE a < 3 -> 2 * a [] a = 3 -> None [] OTHER -> 3 * a]

MCDeclarations == {<<>>, <<Entry(2, puts), Entry(2, main)>>, <<Entry(None, exit), Entry(6, puts)>>}
=============================================================================
