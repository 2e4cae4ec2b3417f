CONSTANTS
    main = main
    exit = exit
    puts = puts
    None = None
    Address <- MCAddress
    AddressLimit = 8
    Name <- MCName
    EntSize = 2
    Sizes = {8, 10}
    AddrAt <- MCAddrAt
    SymAt <- MCSymAt
    RelAt <- MCRelAt
    NameAt <- MCNameAt
    ProgramHeaders <- MCProgramHeaders
    SectionHeaders <- MCSectionHeaders
    Entries = {0, 5}
    Dynamics <- MCDynamics
    Scripts <- MCScripts
    ScriptMap <- MCScriptMap
    Declarations <- MCDeclarations
    MaxQueries = 2
SPECIFICATION Spec
INVARIANTS EntryPointsMapped FunctionsNamed
PROPERTIES AnswersStable
