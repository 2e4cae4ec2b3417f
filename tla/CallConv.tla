------------------------------ MODULE CallConv ------------------------------
(***************************************************************************)
(* Calling conventions (fcd/callconv/callconv_remill.cpp): which registers *)
(* carry parameters and results, per architecture and convention.  An      *)
(* architecture is the remill::Arch in use; a convention is an             *)
(* llvm::CallingConv::ID.  Value kinds are LLVM types, and the bit masks   *)
(* of ArgConstraint are sets of them.                                      *)
(***************************************************************************)
EXTENDS Sequences

\* What the functions below return when they end the program (LOG(FATAL)).
Fatal == "fatal"

kIntegralLeast32 == {"I8", "I16", "I32"}
kIntegralLeast64 == kIntegralLeast32 \cup {"I64"}
kFloats == {"F32", "F64"}

\* Rows of a table: the registers of regs, each accepting kinds.
Rows(regs, kinds) == [i \in DOMAIN regs |-> [var_name |-> regs[i], accepted_val_kinds |-> kinds]]

\* The three families of architectures the switch tells apart.
StackPointerName(arch) ==
    CASE arch = "AArch64" -> "SP"
      [] arch = "X86" -> "ESP"
      [] arch = "AMD64" -> "RSP"
      [] OTHER -> Fatal

ParamTable(arch, cc) ==
    CASE cc = "X86_64_SysV" ->
            Rows(<<"RDI", "RSI", "RDX", "RCX", "R8", "R9">>, kIntegralLeast64)
            \o Rows(<<"XMM0", "XMM1", "XMM2", "XMM3", "XMM4", "XMM5", "XMM6", "XMM7",
                      "XMM8", "XMM9", "XMM10", "XMM11", "XMM12", "XMM13", "XMM14", "XMM15">>, kFloats)
      [] cc = "Win64" ->
            Rows(<<"RCX", "RDX", "R8", "R9">>, kIntegralLeast64)
            \o Rows(<<"XMM0", "XMM1", "XMM2", "XMM3">>, kFloats)
      [] cc = "X86_FastCall" -> Rows(<<"ECX", "EDX">>, kIntegralLeast32)
      [] cc = "X86_ThisCall" -> Rows(<<"ECX">>, kIntegralLeast32)
      [] cc = "X86_StdCall" -> <<>>
      [] cc = "C" /\ arch = "X86" -> <<>>
      [] cc = "C" /\ arch = "AArch64" ->
            Rows(<<"X0", "X1", "X2", "X3", "X4", "X5", "X6", "X7">>, kIntegralLeast64)
            \o Rows(<<"D0", "D1", "D2", "D3", "D4", "D5", "D6", "D7",
                      "D8", "D9", "D10", "D11", "D12", "D13", "D14", "D15",
                      "D16", "D17", "D18", "D19", "D20", "D21", "D22", "D23",
                      "D24", "D25", "D26", "D27", "D28", "D29", "D30", "D31">>, kFloats)

ReturnTable(arch, cc) ==
    CASE cc \in {"X86_64_SysV", "Win64"} -> Rows(<<"RAX">>, kIntegralLeast64) \o Rows(<<"XMM0">>, kFloats)
      [] cc \in {"X86_StdCall", "X86_FastCall", "X86_ThisCall"} ->
            Rows(<<"EAX">>, kIntegralLeast32) \o Rows(<<"ST0">>, kFloats \cup {"F80"})
      [] cc = "C" /\ arch = "X86" -> Rows(<<"EAX">>, kIntegralLeast32 \cup {"F32"})
      [] cc = "C" /\ arch = "AArch64" ->
            Rows(<<"X0">>, kIntegralLeast64) \o Rows(<<"S0">>, {"F32"}) \o Rows(<<"D0">>, kFloats)

IntReturnValVar(arch, cc) ==
    CASE cc \in {"X86_64_SysV", "Win64"} -> "RAX"
      [] cc \in {"X86_StdCall", "X86_FastCall", "X86_ThisCall"} -> "EAX"
      [] cc = "C" /\ arch = "X86" -> "EAX"
      [] cc = "C" /\ arch = "AArch64" -> "X0"
      [] OTHER -> Fatal

\* Mutant: every float of AArch64 is returned in the double register.
FloatReturnValVarDouble(arch, cc, type) ==
    CASE cc \in {"X86_64_SysV", "Win64"} -> "XMM0"
      [] cc \in {"X86_StdCall", "X86_FastCall", "X86_ThisCall"} -> "ST0"
      [] cc = "C" /\ arch = "X86" -> "EAX"
      [] cc = "C" /\ arch = "AArch64" -> "D0"

FloatReturnValVar(arch, cc, type) ==
    CASE cc \in {"X86_64_SysV", "Win64"} -> "XMM0"
      [] cc \in {"X86_StdCall", "X86_FastCall", "X86_ThisCall"} -> "ST0"
      [] cc = "C" /\ arch = "X86" -> "EAX"
      [] cc = "C" /\ arch = "AArch64" /\ type = "F64" -> "D0"
      [] cc = "C" /\ arch = "AArch64" /\ type = "F32" -> "S0"
      [] OTHER -> Fatal

ReturnValVar(arch, cc, type) ==
    CASE type \in kIntegralLeast64 \cup {"Ptr"} -> IntReturnValVar(arch, cc)
      [] type = "F80" -> "ST0"
      [] type \in kFloats -> FloatReturnValVar(arch, cc, type)
      [] OTHER -> Fatal

RegsFromTable(table) == [i \in DOMAIN table |-> table[i].var_name]

ParamRegs(arch, cc) == RegsFromTable(ParamTable(arch, cc))
ReturnRegs(arch, cc) == RegsFromTable(ReturnTable(arch, cc))
=============================================================================
