--------------------------- MODULE StackRecovery ----------------------------
(***************************************************************************)
(* RemillStackRecovery (fcd/pass_stackrec_remill.cpp), behind the argument *)
(* recovery: accesses to memory at constant offsets from the stack pointer *)
(* become local variables, and the ones that a caller fills right above    *)
(* the return address become parameters.                                   *)
(*                                                                         *)
(* LLVM's own passes are assumed to have kept one add per offset, to have  *)
(* promoted the register variables and to have dropped the calls of undef. *)
(***************************************************************************)
EXTENDS ArgumentRecovery, Ordering

VARIABLES
    objs,       \* the stack objects of each function: offset -> size
    old_funcs   \* the functions that the first loop of the pass found

stack == <<objs, old_funcs>>
vars == <<conv, merged, fns, stage, k, stack>>

NoObjects == [idx \in {} |-> 0]
PointerSize == IF conv.arch = "X86" THEN 4 ELSE 8

\* The function that the stack recovery looks at for k, and its replacement.
Source == k + NumFuncs
Target == k + 2 * NumFuncs

IsSP(param) == param.reg = StackPointerName(conv.arch)
HasStackPointerArg(v) == v # Undef /\ Exists(v) /\ \E i \in DOMAIN fns[v].params : IsSP(fns[v].params[i])

UsesStackPointer(code) ==
    \E i \in DOMAIN code : \/ code[i].op = "slot"
                           \/ code[i].op = "call" /\ \E j \in DOMAIN code[i].args : IsSP(code[i].args[j])

\* External: what the optimiser leaves of a body.
Promoted(code) ==
    Selected(code, {i \in DOMAIN code : code[i].op \in {"slot", "br", "ret"}
                                        \/ (code[i].op = "call" /\ code[i].to # Undef)})

Optimize ==
    /\ stage = "optimize"
    /\ fns' = [v \in Values |-> IF v \in Recovered THEN [fns[v] EXCEPT !.code = Promoted(fns[v].code)] ELSE fns[v]]
    /\ stage' = "objects"
    /\ UNCHANGED <<conv, merged, k, stack>>

\* The largest access gives the object its type.
FindStackObjects(code) ==
    LET slots == {i \in DOMAIN code : code[i].op = "slot"}
    IN  [idx \in {code[i].idx : i \in slots} |->
            code[CHOOSE i \in slots : code[i].idx = idx /\ \A j \in slots : code[j].idx = idx => code[j].size <= code[i].size].size]

\* Recovered functions that have a stack pointer and use it.  The question is
\* asked once: the loops that follow go over the functions found here, whose
\* calls may have lost the stack pointer by then.
IsOldFunc(v) == HasStackPointerArg(v) /\ UsesStackPointer(fns[v].code) /\ fns[v].code # <<>>

\* FindStackObjects, PromoteStackObjsToVars: the first loop of runOnModule.
PromoteStackObjsToVars ==
    /\ stage = "objects"
    /\ objs' = IF IsOldFunc(Source) THEN [objs EXCEPT ![Source] = FindStackObjects(fns[Source].code)] ELSE objs
    /\ old_funcs' = IF IsOldFunc(Source) THEN old_funcs \cup {Source} ELSE old_funcs
    /\ Advance("objects", "calls")
    /\ UNCHANGED <<conv, merged, fns>>

-----------------------------------------------------------------------------
\* Where the search for stores before the call at i ends: at the start of its
\* block, or at a call whose callee has a stack pointer.
SearchStart(code, i) ==
    LET stops == {j \in BlockStart(code, i)..(i - 1) : code[j].op = "call" /\ HasStackPointerArg(code[j].to)}
    IN  IF stops = {} THEN BlockStart(code, i) ELSE 1 + CHOOSE j \in stops : \A n \in stops : n <= j

\* The promoted variables that are stored to in front of the call.
FuncVars(v, i) == {fns[v].code[j].idx : j \in {n \in SearchStart(fns[v].code, i)..(i - 1) :
    fns[v].code[n].op = "slot" /\ fns[v].code[n].kind = "store" /\ fns[v].code[n].idx \in DOMAIN objs[v]}}

\* How many of the offsets, beginning with the top of the stack, follow each
\* other without a gap: each variable is as large as its distance from the one
\* before.
Adjacent(v, sorted) ==
    CHOOSE n \in 1..Len(sorted) :
        /\ \A j \in 2..n : sorted[j] - sorted[j - 1] = objs[v][sorted[j]]
        /\ n = Len(sorted) \/ sorted[n + 1] - sorted[n] # objs[v][sorted[n + 1]]

StackArgs(v, top, sorted) ==
    [j \in 1..(Adjacent(v, sorted) - 1) |-> [reg |-> "stack", off |-> sorted[j + 1] - top, size |-> objs[v][sorted[j + 1]]]]

FindStackParams(v, call, found) ==
    IF found = {} THEN <<>>
    ELSE StackArgs(v, call.top, Ascending({idx \in found : idx >= call.top}))

\* Every argument that has the value of the stack pointer is dropped with it.
LoadStackParamsToCall(v, call, found) ==
    [call EXCEPT !.args = Selected(call.args, {i \in DOMAIN call.args :
                                                 ~ IsSP(call.args[i]) /\ call.args[i].reg \notin call.same})
                          \o FindStackParams(v, call, found)]

CallersOf(f) ==
    UNION {{<<v, i>> : i \in {j \in DOMAIN fns[v].code : fns[v].code[j].op = "call" /\ fns[v].code[j].to = f}} :
               v \in {u \in Values : Exists(u)}}

\* CHECK(sp_top_var != nullptr): the stack pointer of the call is no variable.
TopUnknown(v, i) == FuncVars(v, i) # {} /\ fns[v].code[i].top \notin DOMAIN objs[v]
\* std::next(sp_top_it) of an iterator at the end.
TopNotStored(v, i) == FuncVars(v, i) # {} /\ ~ TopUnknown(v, i) /\ fns[v].code[i].top \notin FuncVars(v, i)

NewCallOf(v, i) == LoadStackParamsToCall(v, fns[v].code[i], FuncVars(v, i))

\* Mutant: the call with the most arguments gives the prototype.
CanonicalLongest(calls) == {call \in calls : \A other \in calls : Len(call.args) >= Len(other.args)}

\* The calls that may give the prototype: those with the fewest arguments.
Canonical(calls) == {call \in calls : \A other \in calls : Len(call.args) <= Len(other.args)}

RegParams(v) == Selected(fns[v].params, {i \in DOMAIN fns[v].params : ~ IsSP(fns[v].params[i])})

\* The parameters on the stack that the body itself reads.
OwnStackParams(v) ==
    LET sorted == Ascending({idx \in DOMAIN objs[v] : idx > 0})
    IN  [i \in DOMAIN sorted |-> [reg |-> "stack", off |-> sorted[i], size |-> objs[v][sorted[i]]]]

\* Mutant: offsets are counted from the stack pointer, where the return address is.
StackIdxFromZero(regs, types, i) ==
    LET stack_idx[n \in 0..Len(types)] == IF n <= Len(regs) THEN 0 ELSE stack_idx[n - 1] + types[n].size
    IN  stack_idx[i - 1]

\* StoreStackParamsToLocals: where in its own frame the function puts argument i.
\* The arguments that have the names of registers are skipped.
StackIdx(regs, types, i) ==
    LET stack_idx[n \in 0..Len(types)] == IF n <= Len(regs) THEN PointerSize ELSE stack_idx[n - 1] + types[n].size
    IN  stack_idx[i - 1]

\* CloneFunctionInto names the arguments after the old registers; the rest are
\* on the stack.
NewParams(regs, types) ==
    [i \in DOMAIN types |-> IF i <= Len(regs) THEN RegArg(regs[i].reg)
                            ELSE [reg |-> "stack", off |-> StackIdx(regs, types, i), size |-> types[i].size]]

\* What the prototype is made from.
ArgTypes(sites) ==
    IF sites = {} THEN {RegParams(Source) \o OwnStackParams(Source)}
                  ELSE {call.args : call \in Canonical({NewCallOf(site[1], site[2]) : site \in sites})}

\* The module with the new calls in place of the old ones.
WithNewCalls(sites) ==
    [v \in Values |-> IF Exists(v) THEN [fns[v] EXCEPT !.code = [i \in DOMAIN fns[v].code |->
                                            IF <<v, i>> \in sites THEN NewCallOf(v, i) ELSE fns[v].code[i]]]
                                   ELSE Gone]

\* DeclareParametrizedFunc, CloneFunctionInto: the calls in the old body are
\* there twice from now on.
WithClone(module, types) ==
    [module EXCEPT ![Target] = [module[Source] EXCEPT !.prefix = "stackrec_",
                                                      !.params = NewParams(RegParams(Source), types)]]

\* Mutant: calls in the new functions are not looked at.
SetCalledFunctionOld(f, new, module) ==
    [v \in Values |-> IF v > 2 * NumFuncs THEN module[v] ELSE Retarget(module[v], f, new)]

SetCalledFunction(f, new, module) == [v \in Values |-> Retarget(module[v], f, new)]

\* One function of the second loop of runOnModule.
RecoverCalls ==
    /\ stage = "calls"
    /\ UNCHANGED <<conv, merged, stack>>
    /\ \/ /\ Source \notin old_funcs
          /\ fns' = fns /\ Advance("calls", "names")
       \/ /\ Source \in old_funcs
          /\ \E sites \in {CallersOf(Source)} :
                \/ /\ \E site \in sites : TopUnknown(site[1], site[2])
                   /\ stage' = "fatal" /\ UNCHANGED <<fns, k>>
                \/ /\ \E site \in sites : TopNotStored(site[1], site[2])
                   /\ stage' = "undefined" /\ UNCHANGED <<fns, k>>
                \/ /\ \A site \in sites : ~ TopUnknown(site[1], site[2]) /\ ~ TopNotStored(site[1], site[2])
                   /\ \E types \in ArgTypes(sites) :
                        \/ \* ++new_args runs past the end
                           /\ Len(types) < Len(RegParams(Source))
                           /\ stage' = "undefined" /\ UNCHANGED <<fns, k>>
                        \/ /\ Len(types) >= Len(RegParams(Source))
                           /\ fns' = SetCalledFunction(Source, Target, WithClone(WithNewCalls(sites), types))
                           /\ Advance("calls", "names")

\* The last loop: the new function takes the name of the old one, which goes.
TakeNames ==
    /\ stage = "names"
    /\ fns' = IF Source \in old_funcs THEN TakeNameAndErase(Source, Target, fns) ELSE fns
    /\ Advance("names", "done")
    /\ UNCHANGED <<conv, merged, stack>>

\* The passes end; a CHECK ends the program, and nothing is known of it after
\* undefined behaviour.
Finished == stage \in {"done", "fatal", "undefined"} /\ UNCHANGED vars

InitBoth == Init /\ objs = [v \in Values |-> NoObjects] /\ old_funcs = {}

Next ==
    \/ Recover /\ UNCHANGED stack
    \/ Clone /\ UNCHANGED stack
    \/ Replace /\ UNCHANGED stack
    \/ Optimize
    \/ PromoteStackObjsToVars
    \/ RecoverCalls
    \/ TakeNames
    \/ Finished

Spec == InitBoth /\ [][Next]_vars

-----------------------------------------------------------------------------
Args == [reg : STRING, off : Int, size : Int]

TypeOK ==
    /\ conv \in Conventions /\ merged \in BOOLEAN /\ k \in Funcs
    /\ old_funcs \subseteq (NumFuncs + 1)..(2 * NumFuncs)
    /\ stage \in {"declare", "clone", "replace", "optimize", "objects", "calls", "names", "done", "fatal", "undefined"}
    /\ \A v \in Values : Exists(v) =>
          /\ fns[v].prefix \in {"", "argrec_", "stackrec_"}
          /\ v > NumFuncs /\ fns[v].code # <<>> => fns[v].locals
          /\ \A i \in DOMAIN fns[v].params : fns[v].params[i] \in Args
          /\ \A i \in DOMAIN fns[v].code : fns[v].code[i].op = "call" => fns[v].code[i].to \in Values \cup {Undef}
    /\ \A v \in Values : \A idx \in DOMAIN objs[v] : objs[v][idx] > 0

\* The functions with a new prototype, when the pass is over.
Rewritten == {v \in (2 * NumFuncs + 1)..(3 * NumFuncs) : Exists(v)}

(***************************************************************************)
(* A parameter on the stack is found twice: as an offset from the stack    *)
(* pointer at the call (FindStackParams), and as an offset in the frame of *)
(* the function (StoreStackParamsToLocals). The argument that a caller     *)
(* stored some way above its stack pointer is the parameter that the       *)
(* function has at that distance from its own. Arguments up to there have  *)
(* to be words: the caller's offset of a larger one counts its own size    *)
(* in, the function's offset does not. And the call must pass no copy of   *)
(* the stack pointer, which would be dropped with it.                      *)
(***************************************************************************)
StackArgsLand ==
    stage = "done" => \A v \in Values : Exists(v) => \A i \in DOMAIN fns[v].code :
        fns[v].code[i].op = "call" /\ fns[v].code[i].to \in Rewritten /\ fns[v].code[i].same = {} =>
            LET args == fns[v].code[i].args
                params == fns[fns[v].code[i].to].params
            IN  \A j \in DOMAIN args \cap DOMAIN params :
                  (\A n \in 1..j : params[n].reg = "stack" => args[n].size = PointerSize /\ params[n].size = PointerSize)
                    => args[j].off = params[j].off

(***************************************************************************)
(* After all functions have been rewritten, one after the other, each with *)
(* the prototype one of its calls suggests, every call of a rewritten      *)
(* function passes the registers of the function, without the stack        *)
(* pointer, followed by at least the other arguments the function expects. *)
(* Calls that pass a copy of the stack pointer are the exception: the copy *)
(* is dropped too.                                                         *)
(***************************************************************************)
CallsCoverPrototypes ==
    stage = "done" => \A v \in Values : Exists(v) => \A i \in DOMAIN fns[v].code :
        fns[v].code[i].op = "call" /\ fns[v].code[i].to \in Rewritten /\ fns[v].code[i].same = {} =>
            LET args == fns[v].code[i].args
                params == fns[fns[v].code[i].to].params
            IN  /\ Len(params) <= Len(args)
                /\ \A j \in DOMAIN params : params[j].reg = args[j].reg /\ ~ IsSP(args[j])

(***************************************************************************)
(* "The call parameter list and the prototype of the called function       *)
(* should now be consistent."                                              *)
(***************************************************************************)
CallsConsistent ==
    stage = "done" => \A v \in Values : Exists(v) => \A i \in DOMAIN fns[v].code :
        fns[v].code[i].op = "call" /\ fns[v].code[i].to \in Rewritten
            => Len(fns[v].code[i].args) = Len(fns[fns[v].code[i].to].params)

(***************************************************************************)
(* Both passes leave a module in which every call has a function: what one *)
(* loop of a pass erased no other loop, and no later pass, still refers to.*)
(***************************************************************************)
CalleesExist ==
    stage \in {"objects", "calls", "names", "done"} => \A v \in Values : Exists(v) => \A i \in DOMAIN fns[v].code :
        fns[v].code[i].op = "call" => fns[v].code[i].to # Undef /\ Exists(fns[v].code[i].to)
=============================================================================
