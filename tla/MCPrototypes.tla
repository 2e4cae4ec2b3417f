---------------------------- MODULE MCPrototypes ----------------------------
EXTENDS StackRecovery

MCConventions == {[arch |-> "AMD64", cc |-> "X86_64_SysV"], [arch |-> "AMD64", cc |-> "Win64"],
                  [arch |-> "AArch64", cc |-> "C"], [arch |-> "X86", cc |-> "C"],
                  [arch |-> "X86", cc |-> "X86_FastCall"]}

\* How a body reads its parameters.
Reads(arch) ==
    CASE arch = "AMD64" -> {<<Load("RSP")>>, <<Load("RSP"), Load("ECX"), Store("RCX", "I64")>>,
                            <<Store("RDX", "I64"), Load("RDX"), OtherUse("R8"), Load("R8")>>}
      [] arch = "AArch64" -> {<<Load("SP"), Load("W1"), Load("X0")>>, <<Store("X1", "I64"), Load("W1")>>}
      [] arch = "X86" -> {<<Load("ESP")>>}

\* How it returns.
Returns(arch) ==
    CASE arch = "AMD64" -> {<<Ret(None)>>, <<Store("RAX", "I64"), Ret(None)>>,
                            <<Store("AL", "I8"), Ret(None), Store("RAX", "I64"), Ret(None)>>}
      [] arch = "AArch64" -> {<<Store("S0", "F32"), Ret(None)>>, <<Store("X0", "I64"), Ret(None)>>}
      [] arch = "X86" -> {<<Store("EAX", "I32"), Ret(None)>>, <<Store("ST0", "F64"), Ret(None)>>}

\* How it calls: with nothing but its own stack pointer, with the return address
\* alone, with one more word, with a half word, or with a copy of the stack
\* pointer in a register.
Calls(arch, f) ==
    CASE arch = "AMD64" -> {<<Slot("store", -8, 8), Call(f, -8, {})>>,
                            <<Slot("store", -8, 8), Slot("store", -16, 8), Call(f, -16, {})>>,
                            <<Slot("store", -8, 16), Slot("store", -24, 8), Call(f, -24, {})>>,
                            <<Slot("store", -8, 4), Slot("store", -16, 8), Call(f, -16, {}),
                              Slot("load", -8, 8), Slot("store", -16, 8), Call(f, -16, {})>>}
      [] arch = "AArch64" -> {<<Call(f, -8, {"X0"})>>, <<Call(f, 0, {})>>, <<Slot("store", -8, 8), Call(f, -16, {})>>,
                              <<Slot("store", -8, 8), Slot("store", -16, 8), Call(f, -16, {"X0"})>>,
                              <<Slot("store", -8, 8), Slot("store", -16, 8), Call(f, -16, {})>>}
      [] arch = "X86" -> {<<Slot("store", -4, 4), Slot("store", -8, 4), Call(f, -8, {})>>,
                          <<Slot("store", -4, 4), Slot("load", -8, 4), Call(f, -8, {})>>}

CodeOf(arch, f) ==
    {<<Br>> \o reads \o ret : reads \in Reads(arch), ret \in Returns(arch)}
    \cup {<<Br>> \o reads \o calls \o ret : reads \in Reads(arch), calls \in UNION {Calls(arch, g) : g \in Funcs},
                                           ret \in {CHOOSE r \in Returns(arch) : Len(r) = 2}}

\* The last function is a stub, or reads a parameter from its stack.
LastFunction(arch) == {<<>>, <<Br, Load(StackPointerName(arch)), Slot("load", 8, 8), Ret(None)>>}

MCBodies(arch) == {<<f, g, h>> : f \in CodeOf(arch, 1), g \in CodeOf(arch, 2), h \in LastFunction(arch)}
                  \cup {<<f, <<>>, f>> : f \in CodeOf(arch, 1)}

\* Results are stored with the types of their registers.
ASSUME MCResultsTyped == ResultsTyped
=============================================================================
