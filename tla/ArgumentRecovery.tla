-------------------------- MODULE ArgumentRecovery --------------------------
(***************************************************************************)
(* RemillArgumentRecovery (fcd/pass_argrec_remill.cpp): every lifted       *)
(* function, which takes the whole machine state, is replaced by one whose *)
(* parameters are the registers of the calling convention that it reads.   *)
(*                                                                         *)
(* The module is the function fns from values to functions.  A function f  *)
(* is lifted as value f, rewritten as value f + NumFuncs, and rewritten    *)
(* once more, by the stack recovery, as f + 2 * NumFuncs.  A body is a     *)
(* sequence of instructions; the register variables are accessed through   *)
(* loads, stores and other uses of their address, "slot" stands for an     *)
(* access to memory at an offset from the stack pointer, "br" and "ret"    *)
(* end basic blocks.  The first block is the one that remill makes for its *)
(* variables: no register is accessed in it.                               *)
(***************************************************************************)
EXTENDS Integers, Sequences, FiniteSets, SequencesExt, TLC, CallConv

CONSTANTS
    NumFuncs,       \* number of functions, in the order of the module
    Conventions,    \* [arch, cc]: targets and their default calling conventions
    Bodies(_)       \* what the lifter may have made of the functions, for a target

ASSUME NumFuncsAssumption == NumFuncs \in Nat /\ NumFuncs > 0

\* A target's convention is one that has a table of registers.
ASSUME ConventionsAssumption == \A c \in Conventions : ParamRegs(c.arch, c.cc) \in Seq(STRING)

VARIABLES
    conv,     \* the target
    merged,   \* whether the linker shares equal string literals of two files
    fns,      \* the functions of the module
    stage,    \* where the passes are
    k         \* the function their current loop is at

argVars == <<conv, merged, fns, stage, k>>

Funcs == 1..NumFuncs
Values == 1..(3 * NumFuncs)
Undef == 0                    \* the callee of a call whose function is gone
None == "none"
Gone == [prefix |-> None]     \* a value that no function has

Load(v) == [op |-> "load", var |-> v]
Store(v, ty) == [op |-> "store", var |-> v, ty |-> ty]
OtherUse(v) == [op |-> "use", var |-> v]
Slot(kind, idx, size) == [op |-> "slot", kind |-> kind, idx |-> idx, size |-> size]
Br == [op |-> "br"]
Ret(reg) == [op |-> "ret", val |-> reg]
\* A call of the function at the address of f; top is the offset of the stack pointer at the call, and same the
\* registers that hold the same value as the stack pointer there.
Call(f, top, same) == [op |-> "call", callee |-> f, to |-> f, top |-> top, same |-> same, args |-> <<>>, dst |-> None]

\* What remill makes bodies of.  A call is of the function that was lifted.
Instructions ==
    {Br} \cup [op : {"load", "use"}, var : STRING] \cup [op : {"store"}, var : STRING, ty : STRING]
    \cup [op : {"slot"}, kind : {"load", "store"}, idx : Int, size : Int] \cup [op : {"ret"}, val : {None}]
    \cup [op : {"call"}, callee : Funcs, to : Funcs, top : Int, same : SUBSET STRING, args : {<<>>}, dst : {None}]

\* The entry block of a function with a body ends in a branch.
ASSUME BodiesAssumption ==
    \A c \in Conventions : \A body \in Bodies(c.arch) : \A f \in Funcs :
        /\ body[f] \in Seq(Instructions)
        /\ \A i \in DOMAIN body[f] : body[f][i].op = "call" => body[f][i].to = body[f][i].callee
        /\ body[f] # <<>> => \E i \in DOMAIN body[f] : body[f][i].op = "br"

\* The types with which remill stores the registers that carry results: integers
\* in the general ones, and in the others floats of the width of the variable.
Carries(var, ty) ==
    /\ var \in {"AL", "AH", "AX", "EAX", "RAX", "W0", "X0"} => ty \in kIntegralLeast64
    /\ var = "XMM0" => ty \in kFloats
    /\ var = "S0" => ty = "F32"
    /\ var = "D0" => ty = "F64"

\* Targets other than X86 have their own conventions, and their bodies store
\* results with such types.  The pass does not check it; only ResultsArrive
\* depends on it.
ResultsTyped ==
    \A c \in Conventions : c.arch # "X86" =>
        /\ <<c.arch, c.cc>> \in {<<"AMD64", "X86_64_SysV">>, <<"AMD64", "Win64">>, <<"AArch64", "C">>}
        /\ \A body \in Bodies(c.arch) : \A f \in Funcs : \A i \in DOMAIN body[f] :
              body[f][i].op = "store" => Carries(body[f][i].var, body[f][i].ty)

\* Remill's functions: the pass sees bodies that have all their registers in memory.
Init ==
    /\ conv \in Conventions
    /\ merged \in BOOLEAN
    /\ \E body \in Bodies(conv.arch) :
          fns = [v \in Values |->
                IF v \in Funcs THEN [prefix |-> "", params |-> <<>>, ret |-> "lifted", locals |-> FALSE, code |-> body[v]]
                               ELSE Gone]
    /\ stage = "declare" /\ k = 1

Exists(v) == fns[v] # Gone
\* A stub has no body.
IsLiftedFunction(v) == Exists(v) /\ fns[v].ret = "lifted" /\ fns[v].code # <<>>

-----------------------------------------------------------------------------
\* The registers that DeclareParametrizedFunc looks for.
SearchedRegs == [c \in Conventions |-> <<StackPointerName(c.arch)>> \o ParamRegs(c.arch, c.cc)]

AMD64Aliases == {
    {"AL", "AH", "AX", "EAX", "RAX"}, {"CL", "CH", "CX", "ECX", "RCX"}, {"DL", "DH", "DX", "EDX", "RDX"},
    {"SIL", "SI", "ESI", "RSI"}, {"DIL", "DI", "EDI", "RDI"}, {"SPL", "SP", "ESP", "RSP"},
    {"R8B", "R8W", "R8D", "R8"}, {"R9B", "R9W", "R9D", "R9"}}

\* W2 and X2 are missing, and so is W11; from 12 to 31 like the others.
AArch64Aliases == {
    {"W0", "X0"}, {"W1", "X1"}, {"W3", "X3"}, {"W4", "X4"}, {"W5", "X5"}, {"W6", "X6"}, {"W7", "X7"},
    {"W8", "X8"}, {"W9", "X9"}, {"W10", "X10"}, {"X11"}, {"WZR", "ZR"}, {"WSP", "SP"}}

Aliases(arch) == IF arch = "AMD64" THEN AMD64Aliases ELSE AArch64Aliases

\* Mutant: the aliases are not looked up.
RegisterAliasSetSelf(reg) == {reg}

\* The table is searched for the address of the literal.  Where the literals of
\* the convention and of the table are different objects only the register
\* itself is left.
RegisterAliasSet(reg) ==
    {reg} \cup (IF merged THEN UNION {s \in Aliases(conv.arch) : reg \in s} ELSE {})

\* UsersOfVar: an instruction that uses the address of one of the variables.
IsUser(inst, regs) == inst.op \in {"load", "store", "use"} /\ inst.var \in regs

\* The first user of the register in the body, or 0.
FirstUserOfReg(code, regs) ==
    IF \E i \in DOMAIN code : IsUser(code[i], regs)
    THEN CHOOSE i \in DOMAIN code : IsUser(code[i], regs) /\ \A j \in 1..(i - 1) : ~ IsUser(code[j], regs)
    ELSE 0

TerminalBlocksOf(code) == {i \in DOMAIN code : code[i].op = "ret"}

BlockStart(code, i) == CHOOSE j \in 1..i : (j = 1 \/ code[j - 1].op \in {"br", "ret"})
                                           /\ \A n \in j..(i - 1) : code[n].op \notin {"br", "ret"}

\* The first user of the register going backwards in the block that ends at i.
LastUserOfReg(code, regs, i) ==
    IF \E n \in BlockStart(code, i)..i : IsUser(code[n], regs)
    THEN CHOOSE n \in 1..i : IsUser(code[n], regs) /\ \A j \in (n + 1)..i : ~ IsUser(code[j], regs)
    ELSE 0

\* The stores that may give the function its return type.
ReturnStores(code) ==
    {n \in UNION {{LastUserOfReg(code, RegisterAliasSet(reg), i) : i \in TerminalBlocksOf(code)} :
                       reg \in Range(ReturnRegs(conv.arch, conv.cc))} :
        n # 0 /\ code[n].op = "store"}

FoundTypes(code) == {code[n].ty : n \in ReturnStores(code)}

RecoverRetType(types) == IF types = {} THEN "void" ELSE CHOOSE ty \in types : TRUE

\* The alias through which a register is accessed first, if that access is a load.
ParamVar(code, first) == IF first = 0 \/ code[first].op # "load" THEN None ELSE code[first].var

\* The elements of a sequence at the given indices, in order.
Selected(s, keep) ==
    LET upto[n \in Nat] == IF n = 0 THEN <<>>
                           ELSE IF n \in keep THEN Append(upto[n - 1], s[n]) ELSE upto[n - 1]
    IN  upto[Len(s)]

\* For each register that is searched for, the alias that is a parameter, or None.
ParamVars(code) ==
    [i \in DOMAIN SearchedRegs[conv] |->
        ParamVar(code, FirstUserOfReg(code, RegisterAliasSet(SearchedRegs[conv][i])))]

\* The parameters, the stack pointer first.
UsedRegs(found) == Selected(found, {i \in DOMAIN found : found[i] # None})

RegArg(reg) == [reg |-> reg, off |-> 0, size |-> 0]

DeclareParametrizedFunc(regs, types) ==
    [prefix |-> "argrec_", params |-> [i \in DOMAIN regs |-> RegArg(regs[i])],
     ret |-> RecoverRetType(types), locals |-> FALSE, code |-> <<>>]

ConvertRemillArgsToLocals(fn) == [fn EXCEPT !.locals = TRUE]

\* Stores the arguments at the end of the entry block.
StoreRegArgsToLocals(params, code) ==
    LET end == CHOOSE i \in DOMAIN code : code[i].op = "br" /\ \A j \in 1..(i - 1) : code[j].op # "br"
    IN  SubSeq(code, 1, end - 1) \o [i \in DOMAIN params |-> [op |-> "arg", var |-> params[i].reg]]
        \o SubSeq(code, end, Len(code))

LoadReturnRegToRetInsts(ret, code) ==
    [i \in DOMAIN code |-> IF code[i].op = "ret" /\ ret # "void" THEN Ret(ReturnValVar(conv.arch, conv.cc, ret)) ELSE code[i]]

\* To the next function of the loop, or to what comes after it.
Advance(loop, after) ==
    IF k < NumFuncs THEN stage' = loop /\ k' = k + 1 ELSE stage' = after /\ k' = 1

\* The first loop of runOnModule, for one function.  CHECK(found_types.size() < 2).
Recover ==
    /\ stage = "declare"
    /\ UNCHANGED <<conv, merged>>
    /\ \/ /\ ~ IsLiftedFunction(k)
          /\ fns' = fns
          /\ Advance("declare", "replace")
       \/ /\ IsLiftedFunction(k)
          /\ \E types \in {FoundTypes(fns[k].code)}, found \in {ParamVars(fns[k].code)} :
                \/ /\ Cardinality(types) > 1
                   /\ stage' = "fatal" /\ UNCHANGED <<fns, k>>
                \/ /\ Cardinality(types) < 2
                   /\ fns' = [fns EXCEPT ![k + NumFuncs] = DeclareParametrizedFunc(UsedRegs(found), types)]
                   /\ stage' = "clone" /\ k' = k

\* ... and the rest of its body: the new function gets a copy of the old body.
Clone ==
    /\ stage = "clone"
    /\ \E old \in {ConvertRemillArgsToLocals(fns[k])} : \E new \in {fns[k + NumFuncs]} :
          fns' = [fns EXCEPT ![k] = old,
                             ![k + NumFuncs] = [new EXCEPT !.locals = old.locals, !.code =
                                LoadReturnRegToRetInsts(new.ret, StoreRegArgsToLocals(new.params, old.code))]]
    /\ Advance("declare", "replace")
    /\ UNCHANGED <<conv, merged>>

-----------------------------------------------------------------------------
IsCallOf(inst, f) == inst.op = "call" /\ inst.to = f

\* The function with its calls of f going to another value.
Retarget(fn, f, to) ==
    IF fn = Gone THEN fn
    ELSE [fn EXCEPT !.code = [i \in DOMAIN fn.code |->
            IF IsCallOf(fn.code[i], f) THEN [fn.code[i] EXCEPT !.to = to] ELSE fn.code[i]]]

\* The call of the new function: the parameters are loaded from the caller's
\* registers, the result goes to the return register.
NewCall(call, f, new) ==
    [call EXCEPT !.to = f + NumFuncs, !.args = new.params,
                 !.dst = IF new.ret = "void" THEN None ELSE ReturnValVar(conv.arch, conv.cc, new.ret)]

UpdateCallsIn(fn, f, new) ==
    [fn EXCEPT !.code = [i \in DOMAIN fn.code |->
        IF IsCallOf(fn.code[i], f) THEN NewCall(fn.code[i], f, new) ELSE fn.code[i]]]

\* Mutant: the calls of the function itself are left out.
UpdateCallsOther(f) ==
    [v \in Values |-> IF fns[v].prefix = "argrec_" /\ v # f + NumFuncs
                      THEN UpdateCallsIn(fns[v], f, fns[f + NumFuncs]) ELSE fns[v]]

\* Only callers that still have the prefix in their name.
UpdateCalls(f) ==
    [v \in Values |-> IF fns[v].prefix = "argrec_"
                      THEN UpdateCallsIn(fns[v], f, fns[f + NumFuncs]) ELSE fns[v]]

\* takeName, replaceAllUsesWith(undef), eraseFromParent.
TakeNameAndErase(f, new, updated) ==
    [v \in Values |-> CASE v = f -> Gone
                        [] v = new -> [Retarget(updated[v], f, Undef) EXCEPT !.prefix = ""]
                        [] OTHER -> Retarget(updated[v], f, Undef)]

\* The second loop of runOnModule, for one function.
Replace ==
    /\ stage = "replace"
    /\ fns' = IF Exists(k + NumFuncs) THEN TakeNameAndErase(k, k + NumFuncs, UpdateCalls(k)) ELSE fns
    /\ Advance("replace", "optimize")
    /\ UNCHANGED <<conv, merged>>

-----------------------------------------------------------------------------
(***************************************************************************)
(* Properties of the pass.                                                 *)
(***************************************************************************)
Recovered == {v \in (NumFuncs + 1)..(2 * NumFuncs) : Exists(v)}
ArgsRecovered == stage = "optimize"

(***************************************************************************)
(* A function whose first access to a parameter register, by whatever name *)
(* it has (W2 and X2 are two registers for the pass), is a load gets a     *)
(* parameter for it (DeclareParametrizedFunc), and the caller passes its   *)
(* own value of exactly that register: arguments and parameters of every   *)
(* call that remains agree, although prototypes and calls are made in two  *)
(* separate loops over the module.                                         *)
(***************************************************************************)
ReadsArrive ==
    ArgsRecovered /\ merged /\ conv.arch # "X86" => \A v \in Recovered :
        /\ \A reg \in Range(SearchedRegs[conv]), family \in Aliases(conv.arch) :
              LET first == FirstUserOfReg(fns[v].code, family)
              IN  reg \in family /\ first # 0 /\ fns[v].code[first].op = "load"
                    => RegArg(fns[v].code[first].var) \in Range(fns[v].params)
        /\ \A i \in DOMAIN fns[v].code :
              fns[v].code[i].op = "call" /\ fns[v].code[i].to \in Recovered
                => fns[v].code[i].args = fns[fns[v].code[i].to].params

(***************************************************************************)
(* The result that a function stores into a return register before it      *)
(* returns (RecoverRetType), the register its return instructions load     *)
(* (LoadReturnRegToRetInsts) and the register its callers store the result *)
(* into (UpdateCalls) are the same register.                               *)
(***************************************************************************)
ResultsArrive ==
    ArgsRecovered /\ merged /\ conv.arch # "X86" => \A v \in Recovered : \A n \in ReturnStores(fns[v].code) :
        /\ \A i \in TerminalBlocksOf(fns[v].code) : fns[v].code[i].val \in RegisterAliasSet(fns[v].code[n].var)
        /\ \A c \in Recovered : \A j \in DOMAIN fns[c].code :
              fns[c].code[j].op = "call" /\ fns[c].code[j].to = v
                => fns[c].code[j].dst \in RegisterAliasSet(fns[v].code[n].var)

(***************************************************************************)
(* Whatever the calls between the functions: no call of an erased function *)
(* is left, a call never ends up at another function, and a call that      *)
(* comes from the function itself or from one behind it in the module is a *)
(* call of the new function.                                               *)
(***************************************************************************)
BackwardCallsFollow ==
    ArgsRecovered => \A v \in Recovered : \A i \in DOMAIN fns[v].code :
        fns[v].code[i].op = "call" =>
            \/ fns[v].code[i].to = Undef /\ v < fns[v].code[i].callee + NumFuncs
            \/ fns[v].code[i].to = fns[v].code[i].callee + NumFuncs /\ Exists(fns[v].code[i].to)
            \/ fns[v].code[i].to = fns[v].code[i].callee /\ Exists(fns[v].code[i].to)

(***************************************************************************)
(* runOnModule: "Replace all uses of the old function with the new one".   *)
(***************************************************************************)
NoCallIsLost ==
    ArgsRecovered => \A v \in Recovered : \A i \in DOMAIN fns[v].code :
        fns[v].code[i].op = "call" => fns[v].code[i].to # Undef
=============================================================================
