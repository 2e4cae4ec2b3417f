-------------------------- MODULE PrototypesProofs --------------------------
(***************************************************************************)
(* Proofs about ArgumentRecovery and StackRecovery, for every number of    *)
(* functions, every target and whatever bodies the functions have.         *)
(***************************************************************************)
EXTENDS StackRecovery, NaturalsLemmas, FiniteSetTheorems, TLAPS

(***************************************************************************)
(* The invariant                                                           *)
(***************************************************************************)
\* The calls in a body.
CallsIn(code) == {code[i] : i \in {j \in DOMAIN code : code[j].op = "call"}}

\* What a pass never takes away from a call.
CallShape(call) ==
    /\ {"op", "callee", "to", "top", "same", "args", "dst"} \subseteq DOMAIN call
    /\ call.op = "call" /\ call.callee \in Funcs

\* Accesses to the stack are at numbers.
SlotsOK(code) == \A i \in DOMAIN code : code[i].op = "slot" => code[i].idx \in Int

\* A body is a sequence, and its calls are calls of lifted functions.
IsCode(code) == code \in Seq(Range(code)) /\ SlotsOK(code) /\ \A call \in CallsIn(code) : CallShape(call)

\* Parameters that are registers.
IsRegs(params) == params \in Seq(Range(params)) /\ \A i \in DOMAIN params : params[i] = RegArg(params[i].reg)

FunctionShape(fn) ==
    /\ {"prefix", "params", "ret", "locals", "code"} \subseteq DOMAIN fn
    /\ fn.prefix # None
    /\ IsCode(fn.code)

Stages == {"declare", "clone", "replace", "optimize", "objects", "calls", "names", "done", "fatal", "undefined"}

\* The shape of the module, whatever stage the passes are at.
ModuleOK ==
    /\ conv \in Conventions /\ k \in Funcs /\ stage \in Stages
    /\ DOMAIN fns = Values
    /\ \A v \in Values : Exists(v) => FunctionShape(fns[v])

\* The loads of parameter registers have parameters.
ReadsCovered(code, params) ==
    \A reg \in Range(SearchedRegs[conv]), family \in Aliases(conv.arch) :
        LET first == FirstUserOfReg(code, family)
        IN  reg \in family /\ first # 0 /\ code[first].op = "load" => RegArg(code[first].var) \in Range(params)

\* The body of a lifted function.
Lifted(code) ==
    /\ code \in Seq(Instructions)
    /\ code # <<>> => \E i \in DOMAIN code : code[i].op = "br"
    /\ \A call \in CallsIn(code) : call.to = call.callee

\* While new functions are declared and get their bodies.
Declaring ==
    /\ \A f \in Funcs :
         /\ Exists(f) /\ fns[f].ret = "lifted" /\ Lifted(fns[f].code)
         /\ Exists(f + NumFuncs) <=> fns[f].code # <<>> /\ (f < k \/ (f = k /\ stage = "clone"))
         /\ ~Exists(f + 2 * NumFuncs)
         /\ Exists(f + NumFuncs) =>
              /\ fns[f + NumFuncs].prefix = "argrec_"
              /\ IsRegs(fns[f + NumFuncs].params)
              /\ \A call \in CallsIn(fns[f + NumFuncs].code) : call.to = call.callee
              /\ merged => IF f < k THEN ReadsCovered(fns[f + NumFuncs].code, fns[f + NumFuncs].params)
                                    ELSE ReadsCovered(fns[f].code, fns[f + NumFuncs].params)

\* The functions that Replace has been at.
Past(f) == stage = "optimize" \/ f < k

\* Where a call in the new function of f goes to.
Followed(f, call) ==
    IF Past(call.callee) /\ Exists(call.callee + NumFuncs)
    THEN \/ call.to = Undef /\ f < call.callee
         \/ call.to = call.callee + NumFuncs /\ call.args = fns[call.to].params
    ELSE call.to = call.callee

\* While calls are replaced.  A function without a new one has no body.
Replacing ==
    \A f \in Funcs :
        /\ Exists(f) <=> ~(Past(f) /\ Exists(f + NumFuncs))
        /\ Exists(f) /\ ~Exists(f + NumFuncs) => fns[f].code = <<>>
        /\ ~Exists(f + 2 * NumFuncs)
        /\ Exists(f + NumFuncs) =>
             /\ fns[f + NumFuncs].prefix = IF Past(f) THEN "" ELSE "argrec_"
             /\ IsRegs(fns[f + NumFuncs].params)
             /\ \A call \in CallsIn(fns[f + NumFuncs].code) : Followed(f, call)
             /\ merged => ReadsCovered(fns[f + NumFuncs].code, fns[f + NumFuncs].params)

\* In the stack recovery: the functions that are about to go are not called.
Stacking ==
    /\ \A v \in Values : Exists(v) => \A call \in CallsIn(fns[v].code) :
         /\ call.to \in Values /\ Exists(call.to)
         /\ \A f \in Funcs : Exists(f + 2 * NumFuncs) => call.to # f + NumFuncs

\* The inductive invariant: each loop finds the module as the loop before it left it.
PassesInv ==
    /\ ModuleOK
    /\ stage \in {"declare", "clone"} => Declaring
    /\ stage = "clone" => fns[k].code # <<>>
    /\ stage \in {"replace", "optimize"} => Replacing
    /\ stage \in {"objects", "calls", "names", "done"} => Stacking

\* Beside it: the functions that the first loop of the stack recovery recorded are there for the second loop, which
\* has made new ones for those it has been at; the last loop finds a new one for each of them.
OldInv ==
    /\ stage \in {"declare", "clone", "replace", "optimize"} => old_funcs = {}
    /\ \A f \in Funcs : f + NumFuncs \in old_funcs =>
         /\ stage \in {"objects", "calls"} => Exists(f + NumFuncs)
         /\ stage = "names" \/ (stage = "calls" /\ f < k) => Exists(f + 2 * NumFuncs)

-----------------------------------------------------------------------------
(***************************************************************************)
(* Values and bodies                                                       *)
(***************************************************************************)
\* The values of the functions, and of their first and second replacements.
LEMMA Numbers ==
    /\ NumFuncs \in Nat \ {0}
    /\ \A f \in Funcs : f \in Nat /\ f \in Values /\ f + NumFuncs \in Values /\ f + 2 * NumFuncs \in Values
    /\ \A f, g \in Funcs : /\ f # g + NumFuncs /\ f # g + 2 * NumFuncs /\ f + NumFuncs # g + 2 * NumFuncs
                           /\ f + NumFuncs = g + NumFuncs => f = g
                           /\ f + 2 * NumFuncs = g + 2 * NumFuncs => f = g
    /\ \A v \in Values : \/ v \in Funcs
                         \/ \E f \in Funcs : v = f + NumFuncs
                         \/ \E f \in Funcs : v = f + 2 * NumFuncs
    /\ Undef \notin Values
<1>. USE DEF Funcs, Values, Undef
<1>1. NumFuncs \in Nat \ {0}
  BY NumFuncsAssumption
<1>2. \A f \in Funcs : f \in Nat /\ f \in Values /\ f + NumFuncs \in Values /\ f + 2 * NumFuncs \in Values
  BY <1>1
<1>3. \A f, g \in Funcs : /\ f # g + NumFuncs /\ f # g + 2 * NumFuncs /\ f + NumFuncs # g + 2 * NumFuncs
                          /\ f + NumFuncs = g + NumFuncs => f = g
                          /\ f + 2 * NumFuncs = g + 2 * NumFuncs => f = g
  BY <1>1
<1>4. ASSUME NEW v \in Values
      PROVE  v \in Funcs \/ (\E f \in Funcs : v = f + NumFuncs) \/ (\E f \in Funcs : v = f + 2 * NumFuncs)
  <2>1. (v \in Nat /\ v <= NumFuncs) \/ v - NumFuncs \in Funcs \/ v - 2 * NumFuncs \in Funcs
    BY <1>1
  <2>2. /\ v - NumFuncs \in Funcs => v = (v - NumFuncs) + NumFuncs
        /\ v - 2 * NumFuncs \in Funcs => v = (v - 2 * NumFuncs) + 2 * NumFuncs
    BY <1>1
  <2>3. v <= NumFuncs => v \in Funcs
    BY <1>1
  <2>. QED
    BY <2>1, <2>2, <2>3
<1>5. Undef \notin Values
  BY <1>1
<1>. QED
  BY <1>1, <1>2, <1>3, <1>4, <1>5

\* A function on 1 .. n is a sequence of its own elements.
LEMMA IsSequence ==
    ASSUME NEW n \in Nat, NEW s, s = [i \in 1 .. n |-> s[i]]
    PROVE  s \in Seq(Range(s)) /\ Len(s) = n /\ DOMAIN s = 1 .. n
<1>1. DOMAIN s = 1 .. n /\ \A i \in 1 .. n : s[i] \in Range(s)
  BY DEF Range
<1>. HIDE DEF Range
<1>2. s \in [1 .. n -> Range(s)]
  BY <1>1
<1>3. s \in Seq(Range(s))
  BY <1>2
<1>. QED
  BY <1>1, <1>3

\* A body with each instruction replaced by another one.
LEMMA Elementwise ==
    ASSUME NEW s, s \in Seq(Range(s)), NEW t, t = [i \in DOMAIN s |-> t[i]]
    PROVE  t \in Seq(Range(t)) /\ Len(t) = Len(s) /\ DOMAIN t = DOMAIN s
<1>1. Len(s) \in Nat /\ DOMAIN s = 1 .. Len(s)
  OBVIOUS
<1>2. t = [i \in 1 .. Len(s) |-> t[i]]
  BY <1>1
<1>. HIDE DEF Range
<1>. DEFINE n == Len(s)
<1>. HIDE DEF n
<1>3. n \in Nat /\ t = [i \in 1 .. n |-> t[i]]
  BY <1>1, <1>2 DEF n
<1>4. t \in Seq(Range(t)) /\ Len(t) = n /\ DOMAIN t = 1 .. n
  BY <1>3, IsSequence
<1>. QED
  BY <1>1, <1>4 DEF n

\* Selected keeps exactly the elements at the given indices.
LEMMA SelectedElements ==
    ASSUME NEW S, NEW s \in Seq(S), NEW keep \in SUBSET DOMAIN s
    PROVE  Selected(s, keep) \in Seq(S) /\ Range(Selected(s, keep)) = {s[i] : i \in keep}
<1>. DEFINE After(n, t) == IF n \in keep THEN Append(t, s[n]) ELSE t
            step == [p \in Nat \X Seq(S) |-> After(p[1] + 1, p[2])]
<1>1. \A n, t : t \in Seq(S) => After(n, t) \in Seq(S)
  OBVIOUS
<1>2. <<>> \in Seq(S)
  OBVIOUS
<1>3. step \in [Nat \X Seq(S) -> Seq(S)]
  <2>. HIDE DEF After
  <2>. QED
    BY <1>1
<1>. HIDE DEF step, After
<1>4. PICK f : Recursive(Seq(S), <<>>, step, f)
  <2>. DEFINE V == Seq(S)
              v0 == <<>>
  <2>1. v0 \in V /\ step \in [Nat \X V -> V]
    BY <1>2, <1>3
  <2>. HIDE DEF V, v0
  <2>2. \E g : Recursive(V, v0, step, g)
    BY <2>1, PrimitiveRecursion, Zenon
  <2>. QED
    BY <2>2 DEF V, v0
<1>5. f \in [Nat -> Seq(S)] /\ f[0] = <<>> /\ \A n \in Nat : f[n + 1] = After(n + 1, f[n])
  BY <1>4 DEF Recursive, step
<1>6. \A d \in Nat : f[d] = IF d = 0 THEN <<>> ELSE After(d, f[d - 1])
  <2>1. \A d \in Nat \ {0} : d - 1 \in Nat /\ (d - 1) + 1 = d
    OBVIOUS
  <2>. QED
    BY <1>5, <2>1
<1>. DEFINE upto == CHOOSE u : u = [n \in Nat |-> IF n = 0 THEN <<>> ELSE After(n, u[n - 1])]
<1>7. f = [n \in Nat |-> IF n = 0 THEN <<>> ELSE After(n, f[n - 1])]
  BY <1>5, <1>6
<1>8. upto = [n \in Nat |-> IF n = 0 THEN <<>> ELSE After(n, upto[n - 1])]
  BY <1>7
<1>9. Selected(s, keep) = upto[Len(s)]
  BY DEF Selected, After
<1>. HIDE DEF upto
<1>10. upto[0] = <<>> /\ \A n \in Nat \ {0} : upto[n] = After(n, upto[n - 1])
  BY <1>8
<1>. DEFINE Good(n) == /\ upto[n] \in Seq(S)
                       /\ Range(upto[n]) = {s[i] : i \in {j \in keep : j <= n}}
            Bad == {n \in 0 .. Len(s) : ~Good(n)}
<1>11. keep \subseteq 1 .. Len(s) /\ Len(s) \in Nat /\ \A n \in keep : s[n] \in S
  OBVIOUS
<1>12. Good(0)
  <2>1. Range(<<>>) = {}
    BY DEF Range
  <2>2. \A j \in keep : ~(j <= 0)
    BY <1>11
  <2>. QED
    BY <1>10, <2>1, <2>2
<1>13. ASSUME NEW n \in 1 .. Len(s), Good(n - 1) PROVE Good(n)
  <2>. DEFINE t == upto[n - 1]
  <2>1. n \in Nat \ {0} /\ upto[n] = After(n, t) /\ t \in Seq(S)
    BY <1>10, <1>11, <1>13
  <2>2. \A j \in keep : j <= n <=> (j <= n - 1 \/ j = n)
    BY <1>11, <2>1
  <2>3. Range(t) = {s[i] : i \in {j \in keep : j <= n - 1}}
    BY <1>13
  <2>4. CASE n \in keep
    <3>1. upto[n] = Append(t, s[n]) /\ s[n] \in S
      BY <1>11, <2>1, <2>4 DEF After
    <3>. HIDE DEF t
    <3>2. Range(Append(t, s[n])) = Range(t) \cup {s[n]}
      <4>. DEFINE x == s[n]
      <4>1. x \in S
        BY <3>1
      <4>. HIDE DEF x
      <4>2. DOMAIN Append(t, x) = DOMAIN t \cup {Len(t) + 1}
        BY <2>1, <4>1
      <4>3. \A i \in DOMAIN t : Append(t, x)[i] = t[i]
        BY <2>1, <4>1
      <4>4. Append(t, x)[Len(t) + 1] = x
        BY <2>1, <4>1
      <4>. QED
        BY <4>2, <4>3, <4>4 DEF Range, x
    <3>3. {s[i] : i \in {j \in keep : j <= n}} = {s[i] : i \in {j \in keep : j <= n - 1}} \cup {s[n]}
      <4>1. {j \in keep : j <= n} = {j \in keep : j <= n - 1} \cup {n}
        BY <1>11, <2>1, <2>2, <2>4
      <4>. QED
        BY <4>1
    <3>4. upto[n] \in Seq(S)
      BY <2>1, <3>1
    <3>. QED
      BY <2>3, <3>1, <3>2, <3>3, <3>4
  <2>5. CASE n \notin keep
    <3>1. upto[n] = t
      BY <2>1, <2>5 DEF After
    <3>2. {j \in keep : j <= n} = {j \in keep : j <= n - 1}
      BY <2>2, <2>5
    <3>. QED
      BY <2>1, <2>3, <3>1, <3>2
  <2>. QED
    BY <2>4, <2>5
<1>. HIDE DEF Good
<1>14. ASSUME Bad # {} PROVE FALSE
  <2>1. PICK n \in Bad : \A m \in Bad : n <= m
    <3>1. Bad \in SUBSET Nat
      BY <1>11
    <3>. HIDE DEF Bad
    <3>. QED
      BY <1>14, <3>1, LeastNumber
  <2>2. n # 0
    BY <1>12, <2>1
  <2>3. n \in 1 .. Len(s) /\ n - 1 \in 0 .. Len(s) /\ ~(n <= n - 1)
    BY <1>11, <2>1, <2>2
  <2>4. Good(n - 1)
    BY <2>1, <2>3
  <2>. QED
    BY <1>13, <2>1, <2>3, <2>4
<1>15. Good(Len(s))
  BY <1>11, <1>14
<1>16. {j \in keep : j <= Len(s)} = keep
  BY <1>11
<1>. QED
  BY <1>9, <1>15, <1>16 DEF Good

-----------------------------------------------------------------------------
(***************************************************************************)
(* Rewriting calls                                                         *)
(***************************************************************************)
\* A body with some calls replaced by other calls.
OnlyCallsDiffer(code, new) ==
    /\ new = [i \in DOMAIN code |-> new[i]]
    /\ \A i \in DOMAIN code : IF code[i].op = "call" THEN CallShape(new[i]) ELSE new[i] = code[i]

\* Such a body is a body again, and each of its calls stands where a call stood.
LEMMA CallsRewritten ==
    ASSUME NEW code, IsCode(code), NEW new, OnlyCallsDiffer(code, new)
    PROVE  /\ IsCode(new) /\ DOMAIN new = DOMAIN code
           /\ \A call \in CallsIn(new) : \E i \in DOMAIN code : call = new[i] /\ code[i] \in CallsIn(code)
<1>1. new \in Seq(Range(new)) /\ DOMAIN new = DOMAIN code
  BY Elementwise DEF IsCode, OnlyCallsDiffer
<1>2. ASSUME NEW call \in CallsIn(new)
      PROVE  CallShape(call) /\ \E i \in DOMAIN code : call = new[i] /\ code[i] \in CallsIn(code)
  <2>1. PICK i \in DOMAIN code : call = new[i] /\ new[i].op = "call"
    BY <1>1 DEF CallsIn
  <2>2. code[i].op = "call" /\ CallShape(new[i])
    BY <2>1 DEF OnlyCallsDiffer
  <2>3. code[i] \in CallsIn(code)
    BY <2>2 DEF CallsIn
  <2>. QED
    BY <2>1, <2>2, <2>3
<1>3. SlotsOK(new)
  BY <1>1 DEF IsCode, SlotsOK, OnlyCallsDiffer, CallShape
<1>. QED
  BY <1>1, <1>2, <1>3 DEF IsCode

\* A function with another body.
LEMMA BodyReplaced ==
    ASSUME NEW fn, FunctionShape(fn), NEW code, IsCode(code)
    PROVE  LET new == [fn EXCEPT !.code = code] IN
           /\ FunctionShape(new) /\ new # Gone
           /\ new.code = code /\ new.prefix = fn.prefix /\ new.params = fn.params /\ new.ret = fn.ret
<1>. DEFINE new == [fn EXCEPT !.code = code]
<1>1. DOMAIN new = DOMAIN fn /\ {"prefix", "params", "ret", "locals", "code"} \subseteq DOMAIN fn
  BY DEF FunctionShape
<1>2. new.code = code /\ new.prefix = fn.prefix /\ new.params = fn.params /\ new.ret = fn.ret
  BY <1>1
<1>3. new.prefix # None
  BY <1>2 DEF FunctionShape
<1>. HIDE DEF new
<1>4. FunctionShape(new)
  BY <1>1, <1>2, <1>3 DEF FunctionShape
<1>5. new # Gone
  BY <1>3 DEF Gone
<1>. QED
  BY <1>2, <1>4, <1>5 DEF new

\* A body whose calls of f are changed by some rule: what the changed calls are.
LEMMA RetargetKeeps ==
    ASSUME NEW fn, FunctionShape(fn), NEW f, NEW to
    PROVE  LET new == Retarget(fn, f, to) IN
           /\ FunctionShape(new) /\ new # Gone
           /\ new.prefix = fn.prefix /\ new.params = fn.params /\ new.ret = fn.ret
           /\ OnlyCallsDiffer(fn.code, new.code)
           /\ \A call \in CallsIn(new.code) : \E old \in CallsIn(fn.code) :
                /\ call.callee = old.callee /\ call.args = old.args /\ call.same = old.same /\ call.dst = old.dst
                /\ call.to = IF old.to = f THEN to ELSE old.to
<1>. DEFINE code == [i \in DOMAIN fn.code |->
              IF IsCallOf(fn.code[i], f) THEN [fn.code[i] EXCEPT !.to = to] ELSE fn.code[i]]
<1>1. fn # Gone /\ IsCode(fn.code)
  BY DEF FunctionShape, Gone
<1>2. Retarget(fn, f, to) = [fn EXCEPT !.code = code]
  BY <1>1 DEF Retarget
<1>3. ASSUME NEW call, CallShape(call)
      PROVE  LET changed == [call EXCEPT !.to = to] IN
             /\ CallShape(changed) /\ changed.callee = call.callee /\ changed.args = call.args
             /\ changed.same = call.same /\ changed.dst = call.dst /\ changed.to = to
  BY <1>3 DEF CallShape
<1>4. \A i \in DOMAIN fn.code : fn.code[i].op = "call" => CallShape(fn.code[i])
  BY <1>1 DEF IsCode, CallsIn
<1>5. /\ code = [i \in DOMAIN fn.code |-> code[i]]
      /\ \A i \in DOMAIN fn.code :
           code[i] = IF IsCallOf(fn.code[i], f) THEN [fn.code[i] EXCEPT !.to = to] ELSE fn.code[i]
  OBVIOUS
<1>. HIDE DEF code
<1>6. OnlyCallsDiffer(fn.code, code)
  <2>1. ASSUME NEW i \in DOMAIN fn.code
        PROVE  IF fn.code[i].op = "call" THEN CallShape(code[i]) ELSE code[i] = fn.code[i]
    <3>1. CASE IsCallOf(fn.code[i], f)
      BY <1>3, <1>4, <1>5, <3>1 DEF IsCallOf
    <3>2. CASE ~IsCallOf(fn.code[i], f)
      BY <1>4, <1>5, <3>2
    <3>. QED
      BY <3>1, <3>2
  <2>. QED
    BY <1>5, <2>1 DEF OnlyCallsDiffer
<1>7. IsCode(code) /\ \A call \in CallsIn(code) :
        \E i \in DOMAIN fn.code : call = code[i] /\ fn.code[i] \in CallsIn(fn.code)
  BY <1>1, <1>6, CallsRewritten
<1>8. ASSUME NEW call \in CallsIn(code)
      PROVE  \E old \in CallsIn(fn.code) :
                /\ call.callee = old.callee /\ call.args = old.args /\ call.same = old.same /\ call.dst = old.dst
                /\ call.to = IF old.to = f THEN to ELSE old.to
  <2>1. PICK i \in DOMAIN fn.code : call = code[i] /\ fn.code[i] \in CallsIn(fn.code)
    BY <1>7
  <2>2. CallShape(fn.code[i]) /\ fn.code[i].op = "call"
    BY <1>1, <2>1 DEF IsCode, CallShape
  <2>. DEFINE old == fn.code[i]
  <2>. DEFINE changed == [old EXCEPT !.to = to]
  <2>. HIDE DEF old, changed
  <2>3. CASE old.to = f
    <3>1. call = changed
      BY <1>5, <2>1, <2>2, <2>3 DEF IsCallOf, old, changed
    <3>2. /\ changed.callee = old.callee /\ changed.args = old.args
          /\ changed.same = old.same /\ changed.dst = old.dst /\ changed.to = to
      BY <1>3, <2>2 DEF old, changed
    <3>. QED
      BY <2>1, <2>3, <3>1, <3>2 DEF old
  <2>4. CASE old.to # f
    <3>1. call = old
      BY <1>5, <2>1, <2>4 DEF IsCallOf, old
    <3>. QED
      BY <2>1, <2>4, <3>1 DEF old
  <2>. QED
    BY <2>3, <2>4
<1>9. LET new == [fn EXCEPT !.code = code] IN
      /\ FunctionShape(new) /\ new # Gone
      /\ new.code = code /\ new.prefix = fn.prefix /\ new.params = fn.params /\ new.ret = fn.ret
  BY <1>7, BodyReplaced
<1>. QED
  BY <1>2, <1>6, <1>8, <1>9

\* The register in which the result of a function arrives.
Result(ret) == IF ret = "void" THEN None ELSE ReturnValVar(conv.arch, conv.cc, ret)

\* The same for UpdateCalls.
LEMMA UpdateKeeps ==
    ASSUME NEW fn, FunctionShape(fn), NEW f, NEW target
    PROVE  LET new == UpdateCallsIn(fn, f, target) IN
           /\ FunctionShape(new) /\ new # Gone
           /\ new.prefix = fn.prefix /\ new.params = fn.params /\ new.ret = fn.ret
           /\ OnlyCallsDiffer(fn.code, new.code)
           /\ \A call \in CallsIn(new.code) : \E old \in CallsIn(fn.code) :
                /\ call.callee = old.callee
                /\ IF old.to = f
                   THEN call.to = f + NumFuncs /\ call.args = target.params /\ call.dst = Result(target.ret)
                   ELSE call.to = old.to /\ call.args = old.args /\ call.dst = old.dst
<1>. DEFINE code == [i \in DOMAIN fn.code |->
              IF IsCallOf(fn.code[i], f) THEN NewCall(fn.code[i], f, target) ELSE fn.code[i]]
<1>1. IsCode(fn.code)
  BY DEF FunctionShape
<1>2. UpdateCallsIn(fn, f, target) = [fn EXCEPT !.code = code]
  BY DEF UpdateCallsIn
<1>3. ASSUME NEW call, CallShape(call)
      PROVE  LET changed == NewCall(call, f, target) IN
             /\ CallShape(changed) /\ changed.callee = call.callee
             /\ changed.to = f + NumFuncs /\ changed.args = target.params /\ changed.dst = Result(target.ret)
  <2>. DEFINE dst == Result(target.ret)
              to == f + NumFuncs
              args == target.params
  <2>1. NewCall(call, f, target) = [call EXCEPT !.to = to, !.args = args, !.dst = dst]
    BY DEF NewCall, Result
  <2>. HIDE DEF dst, to, args
  <2>2. LET changed == [call EXCEPT !.to = to, !.args = args, !.dst = dst] IN
        /\ DOMAIN changed = DOMAIN call /\ changed.op = call.op /\ changed.callee = call.callee
        /\ changed.to = to /\ changed.args = args /\ changed.dst = dst
    BY <1>3 DEF CallShape
  <2>. QED
    BY <1>3, <2>1, <2>2 DEF CallShape, to, args, dst
<1>4. \A i \in DOMAIN fn.code : fn.code[i].op = "call" => CallShape(fn.code[i])
  BY <1>1 DEF IsCode, CallsIn
<1>5. /\ code = [i \in DOMAIN fn.code |-> code[i]]
      /\ \A i \in DOMAIN fn.code :
           code[i] = IF IsCallOf(fn.code[i], f) THEN NewCall(fn.code[i], f, target) ELSE fn.code[i]
  OBVIOUS
<1>. HIDE DEF code
<1>6. OnlyCallsDiffer(fn.code, code)
  <2>1. ASSUME NEW i \in DOMAIN fn.code
        PROVE  IF fn.code[i].op = "call" THEN CallShape(code[i]) ELSE code[i] = fn.code[i]
    <3>1. CASE IsCallOf(fn.code[i], f)
      BY <1>3, <1>4, <1>5, <3>1 DEF IsCallOf
    <3>2. CASE ~IsCallOf(fn.code[i], f)
      BY <1>4, <1>5, <3>2
    <3>. QED
      BY <3>1, <3>2
  <2>. QED
    BY <1>5, <2>1 DEF OnlyCallsDiffer
<1>7. IsCode(code) /\ \A call \in CallsIn(code) :
        \E i \in DOMAIN fn.code : call = code[i] /\ fn.code[i] \in CallsIn(fn.code)
  BY <1>1, <1>6, CallsRewritten
<1>8. ASSUME NEW call \in CallsIn(code)
      PROVE  \E old \in CallsIn(fn.code) :
                /\ call.callee = old.callee
                /\ IF old.to = f
                   THEN call.to = f + NumFuncs /\ call.args = target.params /\ call.dst = Result(target.ret)
                   ELSE call.to = old.to /\ call.args = old.args /\ call.dst = old.dst
  <2>1. PICK i \in DOMAIN fn.code : call = code[i] /\ fn.code[i] \in CallsIn(fn.code)
    BY <1>7
  <2>2. CallShape(fn.code[i]) /\ fn.code[i].op = "call"
    BY <1>1, <2>1 DEF IsCode, CallShape
  <2>. DEFINE old == fn.code[i]
  <2>. DEFINE changed == NewCall(old, f, target)
  <2>. HIDE DEF old, changed
  <2>3. CASE old.to = f
    <3>1. call = changed
      BY <1>5, <2>1, <2>2, <2>3 DEF IsCallOf, old, changed
    <3>2. changed.callee = old.callee /\ changed.to = f + NumFuncs /\ changed.args = target.params
          /\ changed.dst = Result(target.ret)
      BY <1>3, <2>2 DEF old, changed
    <3>. QED
      BY <2>1, <2>3, <3>1, <3>2 DEF old
  <2>4. CASE old.to # f
    <3>1. call = old
      BY <1>5, <2>1, <2>4 DEF IsCallOf, old
    <3>. QED
      BY <2>1, <2>4, <3>1 DEF old
  <2>. QED
    BY <2>3, <2>4
<1>9. LET new == [fn EXCEPT !.code = code] IN
      /\ FunctionShape(new) /\ new # Gone
      /\ new.code = code /\ new.prefix = fn.prefix /\ new.params = fn.params /\ new.ret = fn.ret
  BY <1>7, BodyReplaced
<1>. QED
  BY <1>2, <1>6, <1>8, <1>9

-----------------------------------------------------------------------------
(***************************************************************************)
(* Reads of registers                                                      *)
(***************************************************************************)
\* The instruction at i is the first user of the registers.
IsFirst(code, regs, i) ==
    i \in DOMAIN code /\ IsUser(code[i], regs) /\ \A j \in 1..(i - 1) : ~IsUser(code[j], regs)

\* FirstUserOfReg finds it.
LEMMA FirstUser ==
    ASSUME NEW code, code \in Seq(Range(code)), NEW regs
    PROVE  /\ FirstUserOfReg(code, regs) # 0 => IsFirst(code, regs, FirstUserOfReg(code, regs))
           /\ \A i : IsFirst(code, regs, i) => FirstUserOfReg(code, regs) = i
<1>. DEFINE Users == {i \in DOMAIN code : IsUser(code[i], regs)}
            First == CHOOSE i \in DOMAIN code : IsUser(code[i], regs) /\ \A j \in 1..(i - 1) : ~IsUser(code[j], regs)
<1>1. DOMAIN code = 1 .. Len(code) /\ Len(code) \in Nat
  OBVIOUS
<1>2. FirstUserOfReg(code, regs) = IF Users # {} THEN First ELSE 0
  BY DEF FirstUserOfReg
<1>3. Users # {} => \E i : IsFirst(code, regs, i)
  <2>. SUFFICES ASSUME Users # {} PROVE \E i : IsFirst(code, regs, i)
    OBVIOUS
  <2>1. PICK i \in Users : \A j \in Users : i <= j
    <3>1. Users \in SUBSET Nat
      BY <1>1
    <3>. HIDE DEF Users
    <3>. QED
      BY <3>1, LeastNumber
  <2>2. ASSUME NEW j \in 1..(i - 1) PROVE ~IsUser(code[j], regs)
    <3>1. j \in DOMAIN code /\ ~(i <= j)
      BY <1>1, <2>1
    <3>. QED
      BY <2>1, <3>1
  <2>. QED
    BY <2>1, <2>2 DEF IsFirst
<1>4. (\E i : IsFirst(code, regs, i)) => IsFirst(code, regs, First)
  BY DEF IsFirst
<1>5. ASSUME NEW i, IsFirst(code, regs, i), NEW l, IsFirst(code, regs, l) PROVE i = l
  <2>1. i \in Nat /\ l \in Nat /\ i >= 1 /\ l >= 1
    BY <1>1, <1>5 DEF IsFirst
  <2>2. ~(i < l)
    <3>1. i < l => i \in 1..(l - 1)
      BY <2>1
    <3>. QED
      BY <1>5, <3>1 DEF IsFirst
  <2>3. ~(l < i)
    <3>1. l < i => l \in 1..(i - 1)
      BY <2>1
    <3>. QED
      BY <1>5, <3>1 DEF IsFirst
  <2>. QED
    BY <2>1, <2>2, <2>3
<1>6. (\E i : IsFirst(code, regs, i)) => Users # {}
  BY DEF IsFirst
<1>. HIDE DEF Users, First
<1>. QED
  BY <1>2, <1>3, <1>4, <1>5, <1>6

\* Loads, stores and other uses of register variables.
Accesses(inst) == inst.op \in {"load", "store", "use"}

\* A body that has the same accesses in the same order, at other places.
SameAccesses(code, new, shift) ==
    /\ \A i \in DOMAIN code : shift[i] \in DOMAIN new
    /\ \A i, j \in DOMAIN code : i < j => shift[i] < shift[j]
    /\ \A i \in DOMAIN code : Accesses(code[i]) => new[shift[i]] = code[i]
    /\ \A n \in DOMAIN new : Accesses(new[n]) => \E i \in DOMAIN code : n = shift[i] /\ new[n] = code[i]

\* It reads the same parameters.
LEMMA ReadsShifted ==
    ASSUME NEW code, code \in Seq(Range(code)), NEW new, new \in Seq(Range(new)),
           NEW shift, SameAccesses(code, new, shift), NEW params, ReadsCovered(code, params)
    PROVE  ReadsCovered(new, params)
<1>. SUFFICES ASSUME NEW reg \in Range(SearchedRegs[conv]), NEW family \in Aliases(conv.arch), reg \in family,
                     FirstUserOfReg(new, family) # 0, new[FirstUserOfReg(new, family)].op = "load"
              PROVE  RegArg(new[FirstUserOfReg(new, family)].var) \in Range(params)
  BY DEF ReadsCovered
<1>. DEFINE n == FirstUserOfReg(new, family)
<1>1. IsFirst(new, family, n)
  BY FirstUser
<1>2. PICK i \in DOMAIN code : n = shift[i] /\ new[n] = code[i]
  BY <1>1 DEF IsFirst, IsUser, SameAccesses, Accesses
<1>3. DOMAIN code = 1 .. Len(code) /\ Len(code) \in Nat /\ DOMAIN new = 1 .. Len(new) /\ Len(new) \in Nat
  OBVIOUS
<1>. HIDE DEF n
<1>4. ASSUME NEW j \in 1..(i - 1), IsUser(code[j], family) PROVE FALSE
  <2>1. j \in DOMAIN code /\ j < i
    BY <1>3
  <2>2. new[shift[j]] = code[j] /\ shift[j] \in DOMAIN new /\ shift[j] < n
    BY <1>2, <1>4, <2>1 DEF SameAccesses, Accesses, IsUser
  <2>3. n \in DOMAIN new
    BY <1>1 DEF IsFirst
  <2>4. shift[j] \in 1..(n - 1)
    BY <1>3, <2>2, <2>3
  <2>. QED
    BY <1>1, <1>4, <2>2, <2>4 DEF IsFirst
<1>5. IsFirst(code, family, i)
  BY <1>1, <1>2, <1>4 DEF IsFirst
<1>6. FirstUserOfReg(code, family) = i /\ i # 0
  BY <1>3, <1>5, FirstUser
<1>. QED
  BY <1>2, <1>6 DEF ReadsCovered, n

\* Rewritten calls read nothing else.
LEMMA ReadsRewritten ==
    ASSUME NEW code, IsCode(code), NEW new, OnlyCallsDiffer(code, new), NEW params, ReadsCovered(code, params)
    PROVE  ReadsCovered(new, params)
<1>. DEFINE shift == [i \in DOMAIN code |-> i]
<1>1. IsCode(new) /\ DOMAIN new = DOMAIN code
  BY CallsRewritten
<1>2. \A i \in DOMAIN code : Accesses(code[i]) => new[i] = code[i]
  BY DEF Accesses, OnlyCallsDiffer
<1>3. \A i \in DOMAIN code : Accesses(new[i]) => new[i] = code[i]
  BY DEF Accesses, OnlyCallsDiffer, CallShape
<1>4. SameAccesses(code, new, shift)
  BY <1>1, <1>2, <1>3 DEF SameAccesses
<1>. HIDE DEF shift
<1>. QED
  BY <1>1, <1>4, ReadsShifted DEF IsCode

\* What ends a basic block.
EndsBlock(inst) == inst.op \in {"br", "ret"}

\* The same accesses in the same blocks: what ended a block still does.
SameBlocks(code, new, shift) ==
    /\ SameAccesses(code, new, shift)
    /\ \A i \in DOMAIN code : EndsBlock(code[i]) => EndsBlock(new[shift[i]])
    /\ \A n \in DOMAIN new : new[n].op = "ret" => \E i \in DOMAIN code : n = shift[i] /\ code[i].op = "ret"

\* The elements of a concatenation.
LEMMA Concatenated ==
    ASSUME NEW S, NEW a \in Seq(S), NEW b \in Seq(S)
    PROVE  /\ a \o b \in Seq(S) /\ Len(a \o b) = Len(a) + Len(b)
           /\ \A i \in 1..(Len(a) + Len(b)) : (a \o b)[i] = IF i <= Len(a) THEN a[i] ELSE b[i - Len(a)]
<1>1. a \o b \in Seq(S)
  OBVIOUS
<1>2. Len(a \o b) = Len(a) + Len(b)
  OBVIOUS
<1>3. \A i \in 1..(Len(a) + Len(b)) : (a \o b)[i] = IF i <= Len(a) THEN a[i] ELSE b[i - Len(a)]
  OBVIOUS
<1>. QED
  BY <1>1, <1>2, <1>3

\* Instructions put into a body.
LEMMA Inserted ==
    ASSUME NEW S, NEW s \in Seq(S), NEW b \in Seq(S), NEW e \in 1 .. Len(s)
    PROVE  LET t == SubSeq(s, 1, e - 1) \o b \o SubSeq(s, e, Len(s)) IN
           /\ t \in Seq(S) /\ Len(t) = Len(s) + Len(b)
           /\ \A i \in 1 .. Len(s) + Len(b) :
                t[i] = IF i < e THEN s[i] ELSE IF i < e + Len(b) THEN b[(i - e) + 1] ELSE s[i - Len(b)]
<1>. DEFINE a == SubSeq(s, 1, e - 1)
            c == SubSeq(s, e, Len(s))
            ab == a \o b
<1>1. Len(s) \in Nat /\ e \in Nat /\ e >= 1 /\ e <= Len(s)
  OBVIOUS
<1>2. a \in Seq(S) /\ Len(a) = e - 1 /\ \A i \in 1..(e - 1) : a[i] = s[i]
  BY <1>1
<1>3. c \in Seq(S) /\ Len(c) = (Len(s) - e) + 1 /\ \A i \in 1..((Len(s) - e) + 1) : c[i] = s[(e + i) - 1]
  BY <1>1
<1>. HIDE DEF a, c
<1>4. /\ ab \in Seq(S) /\ Len(ab) = (e - 1) + Len(b)
      /\ \A i \in 1..((e - 1) + Len(b)) : ab[i] = IF i <= e - 1 THEN a[i] ELSE b[i - (e - 1)]
  <2>1. /\ ab \in Seq(S) /\ Len(ab) = Len(a) + Len(b)
        /\ \A i \in 1..(Len(a) + Len(b)) : ab[i] = IF i <= Len(a) THEN a[i] ELSE b[i - Len(a)]
    BY <1>2, Concatenated
  <2>2. Len(a) = e - 1
    BY <1>2
  <2>. HIDE DEF ab
  <2>. QED
    BY <2>1, <2>2
<1>. HIDE DEF ab
<1>. DEFINE t == ab \o c
            p == Len(b)
            l == Len(s)
<1>5. /\ t \in Seq(S) /\ Len(t) = Len(ab) + Len(c)
      /\ \A i \in 1..(Len(ab) + Len(c)) : t[i] = IF i <= Len(ab) THEN ab[i] ELSE c[i - Len(ab)]
  <2>1. ab \in Seq(S) /\ c \in Seq(S)
    BY <1>3, <1>4
  <2>. QED
    BY <2>1, Concatenated
<1>. HIDE DEF t
<1>6. p \in Nat /\ l \in Nat
  OBVIOUS
<1>7. Len(t) = l + p /\ Len(ab) = (e - 1) + p /\ Len(c) = (l - e) + 1
  <2>1. Len(ab) = (e - 1) + p /\ Len(c) = (l - e) + 1 /\ Len(t) = Len(ab) + Len(c)
    BY <1>3, <1>4, <1>5
  <2>. HIDE DEF p, l
  <2>. QED
    BY <1>1, <1>6, <2>1 DEF l
<1>8. /\ \A i \in 1..((e - 1) + p) : t[i] = ab[i]
      /\ \A i \in ((e - 1) + p) + 1 .. l + p : t[i] = c[i - ((e - 1) + p)]
  <2>1. \A i \in 1 .. l + p : t[i] = IF i <= (e - 1) + p THEN ab[i] ELSE c[i - ((e - 1) + p)]
    <3>1. Len(ab) + Len(c) = l + p
      BY <1>5, <1>7
    <3>. QED
      BY <1>5, <1>7, <3>1
  <2>. HIDE DEF p, l
  <2>2. e <= l
    BY <1>1 DEF l
  <2>. QED
    BY <1>1, <1>6, <2>1, <2>2
<1>9. /\ \A i \in 1..((e - 1) + p) : ab[i] = IF i <= e - 1 THEN a[i] ELSE b[i - (e - 1)]
      /\ \A i \in 1..((l - e) + 1) : c[i] = s[(e + i) - 1]
      /\ e <= l
  BY <1>1, <1>3, <1>4
<1>. HIDE DEF p, l
<1>10. ASSUME NEW i \in 1 .. l + p
       PROVE  t[i] = IF i < e THEN s[i] ELSE IF i < e + p THEN b[(i - e) + 1] ELSE s[i - p]
  <2>1. CASE i < e
    <3>1. i \in 1..(e - 1) /\ i \in 1..((e - 1) + p)
      BY <1>1, <1>6, <2>1
    <3>. QED
      BY <1>2, <1>8, <1>9, <2>1, <3>1
  <2>2. CASE i >= e /\ i < e + p
    <3>1. i \in 1..((e - 1) + p) /\ ~(i <= e - 1) /\ i - (e - 1) = (i - e) + 1 /\ ~(i < e)
      BY <1>1, <1>6, <2>2
    <3>. QED
      BY <1>8, <1>9, <2>2, <3>1
  <2>3. CASE i >= e + p
    <3>. DEFINE m == i - ((e - 1) + p)
    <3>1. m \in 1..((l - e) + 1) /\ i \in ((e - 1) + p) + 1 .. l + p /\ (e + m) - 1 = i - p /\ ~(i < e) /\ ~(i < e + p)
      BY <1>1, <1>6, <1>9, <2>3, SMTT(30)
    <3>. QED
      BY <1>8, <1>9, <3>1
  <2>. QED
    BY <1>1, <1>6, <2>1, <2>2, <2>3
<1>. QED
  BY <1>5, <1>7, <1>10 DEF t, ab, a, c, p, l

\* The calls that remill makes.
LEMMA InstructionCalls == \A inst \in Instructions : inst.op = "call" => CallShape(inst)
<1>. SUFFICES ASSUME NEW inst \in Instructions, inst.op = "call" PROVE CallShape(inst)
  OBVIOUS
<1>. DEFINE Made == [op : {"call"}, callee : Funcs, to : Funcs, top : Int, same : SUBSET STRING,
                     args : {<<>>}, dst : {None}]
<1>1. inst \in Made
  BY DEF Instructions, Br
<1>. QED
  BY <1>1 DEF CallShape

\* ... and the offsets in it are numbers.
LEMMA InstructionSlots == \A inst \in Instructions : inst.op = "slot" => inst.idx \in Int
BY DEF Instructions, Br

\* A body that remill made has the shape of a body.
LEMMA LiftedIsCode ==
    ASSUME NEW code, Lifted(code)
    PROVE  IsCode(code)
<1>1. code \in Seq(Instructions)
  BY DEF Lifted
<1>2. Len(code) \in Nat /\ code = [i \in 1 .. Len(code) |-> code[i]]
  BY <1>1
<1>3. code \in Seq(Range(code))
  <2>. DEFINE n == Len(code)
  <2>1. n \in Nat /\ code = [i \in 1 .. n |-> code[i]]
    BY <1>2
  <2>. HIDE DEF n
  <2>. QED
    BY <2>1, IsSequence
<1>4. \A i \in DOMAIN code : code[i] \in Instructions
  BY <1>1
<1>5. SlotsOK(code)
  BY <1>4, InstructionSlots DEF SlotsOK
<1>. QED
  BY <1>3, <1>4, <1>5, InstructionCalls DEF IsCode, CallsIn

\* The body of the new function: the arguments are stored at the end of the entry
\* block, and the return instructions return something, but neither calls nor
\* accesses to registers are added, dropped or moved past each other.
LEMMA Cloned ==
    ASSUME NEW code, Lifted(code), code # <<>>, NEW params, params \in Seq(Range(params)), NEW ret
    PROVE  LET new == LoadReturnRegToRetInsts(ret, StoreRegArgsToLocals(params, code)) IN
           /\ IsCode(new)
           /\ \A call \in CallsIn(new) : call \in CallsIn(code)
           /\ ReadsCovered(code, params) => ReadsCovered(new, params)
           /\ \E shift : SameBlocks(code, new, shift)
           /\ ret # "void" => \A i \in DOMAIN new : new[i].op = "ret" => new[i].val = ReturnValVar(conv.arch, conv.cc, ret)
<1>. DEFINE b == [i \in DOMAIN params |-> [op |-> "arg", var |-> params[i].reg]]
            First(i) == code[i].op = "br" /\ \A j \in 1..(i - 1) : code[j].op # "br"
            e == CHOOSE i \in DOMAIN code : First(i)
            mid == StoreRegArgsToLocals(params, code)
            new == LoadReturnRegToRetInsts(ret, mid)
            p == Len(b)
            l == Len(code)
<1>1. code \in Seq(Instructions) /\ DOMAIN code = 1 .. l /\ l \in Nat
  BY DEF Lifted
<1>2. b \in Seq(Range(b)) /\ \A i \in DOMAIN b : b[i].op = "arg"
  <2>1. \A i \in DOMAIN b : b[i].op = "arg"
    OBVIOUS
  <2>2. b = [i \in DOMAIN params |-> b[i]]
    OBVIOUS
  <2>. HIDE DEF b
  <2>. QED
    BY <2>1, <2>2, Elementwise
<1>3. p \in Nat /\ DOMAIN b = 1 .. p
  <2>. HIDE DEF b
  <2>. QED
    BY <1>2
<1>4. e \in DOMAIN code
  <2>. DEFINE Brs == {i \in DOMAIN code : code[i].op = "br"}
  <2>1. Brs # {}
    BY DEF Lifted
  <2>2. PICK i \in Brs : \A j \in Brs : i <= j
    <3>1. Brs \in SUBSET Nat
      BY <1>1
    <3>. HIDE DEF Brs
    <3>. QED
      BY <2>1, <3>1, LeastNumber
  <2>3. ASSUME NEW j \in 1..(i - 1) PROVE code[j].op # "br"
    <3>. HIDE DEF l
    <3>1. j \in DOMAIN code /\ ~(i <= j)
      BY <1>1, <2>2
    <3>. QED
      BY <2>2, <3>1
  <2>. QED
    BY <2>2, <2>3
<1>5. mid = SubSeq(code, 1, e - 1) \o b \o SubSeq(code, e, Len(code))
  BY DEF StoreRegArgsToLocals
<1>. HIDE DEF b, e
<1>. DEFINE S == Instructions \cup Range(b)
<1>6. code \in Seq(S) /\ b \in Seq(S) /\ e \in 1 .. Len(code)
  <2>1. \A i \in DOMAIN code : code[i] \in S
    BY <1>1
  <2>2. code \in Seq(S)
    <3>. HIDE DEF S
    <3>. QED
      BY <1>1, <2>1
  <2>3. Range(b) \subseteq S
    OBVIOUS
  <2>4. b \in Seq(S)
    <3>. HIDE DEF S
    <3>. QED
      BY <1>2, <2>3
  <2>. QED
    BY <1>1, <1>4, <2>2, <2>4
<1>. HIDE DEF S
<1>7. /\ mid \in Seq(S) /\ Len(mid) = l + p
      /\ \A i \in 1 .. l + p :
           mid[i] = IF i < e THEN code[i] ELSE IF i < e + p THEN b[(i - e) + 1] ELSE code[i - p]
  <2>. HIDE DEF mid
  <2>. QED
    BY <1>5, <1>6, Inserted
<1>8. DOMAIN mid = 1 .. l + p
  <2>. HIDE DEF mid
  <2>. QED
    BY <1>7
<1>9. new = [i \in 1 .. l + p |->
              IF mid[i].op = "ret" /\ ret # "void" THEN Ret(ReturnValVar(conv.arch, conv.cc, ret)) ELSE mid[i]]
  BY <1>8 DEF LoadReturnRegToRetInsts
<1>. DEFINE back == ReturnValVar(conv.arch, conv.cc, ret)
<1>10. \A i \in 1 .. l + p : IF mid[i].op = "ret" /\ ret # "void" THEN new[i] = Ret(back) ELSE new[i] = mid[i]
  BY <1>9
<1>11. new = [i \in 1 .. l + p |-> new[i]] /\ DOMAIN new = 1 .. l + p
  BY <1>9
<1>. HIDE DEF new, mid, back, p, l
<1>12. new \in Seq(Range(new))
  <2>1. l + p \in Nat
    BY <1>1, <1>3
  <2>. QED
    BY <1>11, <2>1, IsSequence
<1>13. e \in Nat /\ e >= 1 /\ e <= l
  BY <1>1, <1>4
<1>14. ASSUME NEW i \in 1 .. l + p, new[i].op # "arg", new[i].op # "ret"
       PROVE  \/ i < e /\ i \in DOMAIN code /\ new[i] = code[i]
              \/ i >= e + p /\ i - p \in DOMAIN code /\ i - p >= e /\ new[i] = code[i - p]
  <2>1. new[i] = mid[i]
    BY <1>10, <1>14 DEF Ret
  <2>2. CASE i < e
    <3>1. i \in DOMAIN code
      BY <1>1, <1>13, <2>2
    <3>. QED
      BY <1>7, <2>1, <2>2, <3>1
  <2>3. CASE ~(i < e) /\ i < e + p
    <3>1. (i - e) + 1 \in DOMAIN b
      BY <1>3, <1>13, <2>3
    <3>2. mid[i] = b[(i - e) + 1]
      BY <1>7, <2>3
    <3>. QED
      BY <1>2, <1>14, <2>1, <3>1, <3>2
  <2>4. CASE i >= e + p
    <3>1. i - p \in DOMAIN code /\ i - p >= e /\ ~(i < e) /\ ~(i < e + p)
      BY <1>1, <1>3, <1>13, <2>4
    <3>. QED
      BY <1>7, <2>1, <2>4, <3>1
  <2>. QED
    BY <1>3, <1>13, <2>2, <2>3, <2>4
<1>15. ASSUME NEW i \in DOMAIN code, code[i].op # "ret"
       PROVE  /\ i < e => i \in 1 .. l + p /\ new[i] = code[i]
              /\ ~(i < e) => i + p \in 1 .. l + p /\ new[i + p] = code[i]
  <2>1. CASE i < e
    <3>1. i \in 1 .. l + p
      BY <1>1, <1>3
    <3>. QED
      BY <1>7, <1>10, <1>15, <2>1, <3>1
  <2>2. CASE ~(i < e)
    <3>1. i + p \in 1 .. l + p /\ ~(i + p < e) /\ ~(i + p < e + p) /\ (i + p) - p = i
      BY <1>1, <1>3, <1>13, <2>2
    <3>. QED
      BY <1>7, <1>10, <1>15, <2>2, <3>1
  <2>. QED
    BY <2>1, <2>2
<1>16. ASSUME NEW call \in CallsIn(new) PROVE call \in CallsIn(code)
  <2>1. PICK i \in 1 .. l + p : call = new[i] /\ new[i].op = "call"
    BY <1>11 DEF CallsIn
  <2>2. \E j \in DOMAIN code : call = code[j]
    BY <1>14, <2>1
  <2>. QED
    BY <2>1, <2>2 DEF CallsIn
<1>17. IsCode(new)
  <2>1. \A i \in 1 .. l + p : new[i].op = "slot" => \E j \in DOMAIN code : new[i] = code[j]
    BY <1>14
  <2>2. SlotsOK(code) /\ \A call \in CallsIn(code) : CallShape(call)
    BY LiftedIsCode DEF IsCode
  <2>3. SlotsOK(new)
    BY <1>11, <2>1, <2>2 DEF SlotsOK
  <2>. QED
    BY <1>12, <1>16, <2>2, <2>3 DEF IsCode
<1>. DEFINE shift == [i \in DOMAIN code |-> IF i < e THEN i ELSE i + p]
<1>18. SameAccesses(code, new, shift)
  <2>1. \A i \in DOMAIN code : shift[i] \in DOMAIN new
    BY <1>1, <1>3, <1>11, <1>13
  <2>2. \A i, j \in DOMAIN code : i < j => shift[i] < shift[j]
    BY <1>1, <1>3, <1>13
  <2>3. \A i \in DOMAIN code : Accesses(code[i]) => new[shift[i]] = code[i]
    BY <1>15 DEF Accesses
  <2>4. ASSUME NEW n \in DOMAIN new, Accesses(new[n])
        PROVE  \E i \in DOMAIN code : n = shift[i] /\ new[n] = code[i]
    <3>1. n \in 1 .. l + p
      BY <1>11
    <3>2. \/ n < e /\ n \in DOMAIN code /\ new[n] = code[n]
          \/ n >= e + p /\ n - p \in DOMAIN code /\ n - p >= e /\ new[n] = code[n - p]
      BY <1>14, <2>4, <3>1 DEF Accesses
    <3>3. CASE n < e /\ n \in DOMAIN code /\ new[n] = code[n]
      BY <3>3
    <3>4. CASE n >= e + p /\ n - p \in DOMAIN code /\ n - p >= e /\ new[n] = code[n - p]
      <4>1. ~(n - p < e) /\ (n - p) + p = n
        BY <1>3, <1>13, <3>1, <3>4
      <4>. QED
        BY <3>4, <4>1
    <3>. QED
      BY <3>2, <3>3, <3>4
  <2>. QED
    BY <2>1, <2>2, <2>3, <2>4 DEF SameAccesses
<1>19. \A i \in DOMAIN code : mid[shift[i]] = code[i] /\ shift[i] \in 1 .. l + p
  <2>. TAKE i \in DOMAIN code
  <2>1. CASE i < e
    <3>1. i \in 1 .. l + p
      BY <1>1, <1>3
    <3>. QED
      BY <1>7, <2>1, <3>1
  <2>2. CASE ~(i < e)
    <3>1. i + p \in 1 .. l + p /\ ~(i + p < e) /\ ~(i + p < e + p) /\ (i + p) - p = i
      BY <1>1, <1>3, <1>13, <2>2
    <3>. QED
      BY <1>7, <2>2, <3>1
  <2>. QED
    BY <2>1, <2>2
<1>20. ASSUME NEW n \in 1 .. l + p, mid[n].op = "ret"
       PROVE  \E i \in DOMAIN code : n = shift[i] /\ code[i].op = "ret"
  <2>1. CASE n < e
    <3>1. n \in DOMAIN code
      BY <1>1, <1>13, <2>1
    <3>. QED
      BY <1>7, <1>20, <2>1, <3>1
  <2>2. CASE ~(n < e) /\ n < e + p
    <3>1. (n - e) + 1 \in DOMAIN b
      BY <1>3, <1>13, <2>2
    <3>2. mid[n] = b[(n - e) + 1]
      BY <1>7, <2>2
    <3>. QED
      BY <1>2, <1>20, <3>1, <3>2
  <2>3. CASE n >= e + p
    <3>1. n - p \in DOMAIN code /\ ~(n - p < e) /\ ~(n < e) /\ ~(n < e + p) /\ (n - p) + p = n
      BY <1>1, <1>3, <1>13, <2>3
    <3>. QED
      BY <1>7, <1>20, <3>1
  <2>. QED
    BY <1>3, <1>13, <2>1, <2>2, <2>3
<1>. HIDE DEF shift
<1>21. ReadsCovered(code, params) => ReadsCovered(new, params)
  BY <1>12, <1>18, LiftedIsCode, ReadsShifted DEF IsCode
<1>22. \A n \in 1 .. l + p : new[n].op = "ret" <=> mid[n].op = "ret"
  BY <1>10 DEF Ret
<1>23. \A n \in 1 .. l + p : mid[n].op # "ret" => new[n] = mid[n]
  BY <1>10
<1>24. \A i \in DOMAIN code : EndsBlock(code[i]) => EndsBlock(new[shift[i]])
  BY <1>19, <1>22, <1>23 DEF EndsBlock
<1>25. SameBlocks(code, new, shift)
  BY <1>11, <1>18, <1>20, <1>22, <1>24 DEF SameBlocks
<1>26. ret # "void" => \A i \in DOMAIN new : new[i].op = "ret" => new[i].val = back
  BY <1>10, <1>11, <1>22 DEF Ret
<1>. QED
  BY <1>16, <1>17, <1>21, <1>25, <1>26 DEF new, mid, back

\* No name belongs to two registers.
LEMMA AliasesDisjoint ==
    ASSUME NEW arch, NEW s \in Aliases(arch), NEW t \in Aliases(arch), NEW reg \in s, reg \in t
    PROVE  s = t
<1>1. CASE arch = "AMD64"
  BY <1>1 DEF Aliases, AMD64Aliases
<1>2. CASE arch # "AMD64"
  BY <1>2 DEF Aliases, AArch64Aliases
<1>. QED
  BY <1>1, <1>2

\* No alias is None.
LEMMA AliasesNamed ==
    ASSUME NEW arch, NEW s \in Aliases(arch)
    PROVE  None \notin s
<1>1. CASE arch = "AMD64"
  BY <1>1 DEF Aliases, AMD64Aliases, None
<1>2. CASE arch # "AMD64"
  BY <1>2 DEF Aliases, AArch64Aliases, None
<1>. QED
  BY <1>1, <1>2

\* A sequence over a set is one over every larger set.
LEMMA SequenceOfMore ==
    ASSUME NEW S, NEW T, S \subseteq T, NEW s \in Seq(S)
    PROVE  s \in Seq(T)
<1>1. DOMAIN s = 1 .. Len(s) /\ Len(s) \in Nat /\ s = [i \in 1 .. Len(s) |-> s[i]]
  OBVIOUS
<1>2. \A i \in 1 .. Len(s) : s[i] \in T
  OBVIOUS
<1>3. s \in [1 .. Len(s) -> T]
  BY <1>1, <1>2
<1>. QED
  BY <1>1, <1>3

\* DeclareParametrizedFunc: there is a parameter for each register that is read
\* before it is written.
LEMMA Declared ==
    ASSUME conv \in Conventions, NEW code, code \in Seq(Range(code)), NEW types
    PROVE  LET new == DeclareParametrizedFunc(UsedRegs(ParamVars(code)), types) IN
           /\ FunctionShape(new) /\ new # Gone /\ new.prefix = "argrec_" /\ new.code = <<>>
           /\ IsRegs(new.params)
           /\ merged => ReadsCovered(code, new.params)
<1>. DEFINE searched == SearchedRegs[conv]
            found == ParamVars(code)
            keep == {i \in DOMAIN found : found[i] # None}
            regs == UsedRegs(found)
            new == DeclareParametrizedFunc(regs, types)
            n == Len(searched)
<1>. DEFINE sp == StackPointerName(conv.arch)
            Names == STRING \cup {sp}
<1>1. searched \in Seq(Names)
  <2>1. ParamRegs(conv.arch, conv.cc) \in Seq(STRING)
    BY ConventionsAssumption
  <2>2. searched = <<sp>> \o ParamRegs(conv.arch, conv.cc)
    BY DEF SearchedRegs
  <2>3. STRING \subseteq Names /\ sp \in Names
    OBVIOUS
  <2>. HIDE DEF searched, Names, sp
  <2>4. ParamRegs(conv.arch, conv.cc) \in Seq(Names)
    BY <2>1, <2>3, SequenceOfMore
  <2>. QED
    BY <2>2, <2>3, <2>4
<1>. HIDE DEF Names, sp
<1>2. n \in Nat /\ DOMAIN searched = 1 .. n
  <2>. HIDE DEF searched
  <2>. QED
    BY <1>1
<1>. HIDE DEF searched, n
<1>3. /\ found = [i \in 1 .. n |-> found[i]]
      /\ \A i \in 1 .. n : found[i] = ParamVar(code, FirstUserOfReg(code, RegisterAliasSet(searched[i])))
  BY <1>2 DEF ParamVars, searched
<1>. HIDE DEF found
<1>4. found \in Seq(Range(found)) /\ DOMAIN found = 1 .. n
  BY <1>2, <1>3, IsSequence
<1>5. regs \in Seq(Range(found)) /\ Range(regs) = {found[i] : i \in keep}
  <2>1. keep \in SUBSET DOMAIN found
    OBVIOUS
  <2>2. regs = Selected(found, keep)
    BY DEF UsedRegs
  <2>. HIDE DEF keep, regs
  <2>. DEFINE S == Range(found)
  <2>3. found \in Seq(S)
    BY <1>4
  <2>. HIDE DEF S
  <2>4. Selected(found, keep) \in Seq(S) /\ Range(Selected(found, keep)) = {found[i] : i \in keep}
    BY <2>1, <2>3, SelectedElements
  <2>. QED
    BY <2>2, <2>4 DEF S
<1>. HIDE DEF regs
<1>. DEFINE params == [i \in DOMAIN regs |-> RegArg(regs[i])]
<1>6. params \in Seq(Range(params))
  <2>1. params = [i \in DOMAIN regs |-> params[i]]
    OBVIOUS
  <2>2. regs \in Seq(Range(regs))
    <3>1. Len(regs) \in Nat /\ regs = [i \in 1 .. Len(regs) |-> regs[i]]
      BY <1>5
    <3>. DEFINE m == Len(regs)
    <3>2. m \in Nat /\ regs = [i \in 1 .. m |-> regs[i]]
      BY <3>1
    <3>. HIDE DEF m
    <3>. QED
      BY <3>2, IsSequence
  <2>. HIDE DEF params
  <2>. QED
    BY <2>1, <2>2, Elementwise
<1>7. \A x \in Range(regs) : RegArg(x) \in Range(params)
  BY DEF Range
<1>8. /\ new.params = params /\ new.prefix = "argrec_" /\ new.code = <<>>
      /\ DOMAIN new = {"prefix", "params", "ret", "locals", "code"}
  BY DEF DeclareParametrizedFunc
<1>. HIDE DEF params, new
<1>9. FunctionShape(new) /\ new # Gone
  <2>1. <<>> \in Seq(Range(<<>>)) /\ CallsIn(<<>>) = {}
    BY DEF Range, CallsIn
  <2>2. IsCode(<<>>)
    BY <2>1 DEF IsCode, SlotsOK
  <2>3. new.prefix # None
    BY <1>8 DEF None
  <2>. QED
    BY <1>8, <2>2, <2>3 DEF FunctionShape, Gone
<1>10. ASSUME merged PROVE ReadsCovered(code, params)
  <2>. SUFFICES ASSUME NEW reg \in Range(searched), NEW family \in Aliases(conv.arch), reg \in family,
                       FirstUserOfReg(code, family) # 0, code[FirstUserOfReg(code, family)].op = "load"
                PROVE  RegArg(code[FirstUserOfReg(code, family)].var) \in Range(params)
    BY DEF ReadsCovered, searched
  <2>. DEFINE first == FirstUserOfReg(code, family)
  <2>1. PICK i \in 1 .. n : reg = searched[i]
    BY <1>2 DEF Range
  <2>2. RegisterAliasSet(reg) = family
    <3>1. \A s \in Aliases(conv.arch) : reg \in s <=> s = family
      BY AliasesDisjoint
    <3>2. UNION {s \in Aliases(conv.arch) : reg \in s} = family
      BY <3>1
    <3>. QED
      BY <1>10, <3>2 DEF RegisterAliasSet
  <2>3. found[i] = code[first].var
    BY <1>3, <2>1, <2>2 DEF ParamVar
  <2>4. IsFirst(code, family, first)
    BY FirstUser
  <2>5. code[first].var \in family
    BY <2>4 DEF IsFirst, IsUser
  <2>6. found[i] # None
    BY <2>3, <2>5, AliasesNamed
  <2>7. i \in keep
    BY <1>4, <2>6
  <2>. QED
    BY <1>5, <1>7, <2>3, <2>7
<1>11. IsRegs(params)
  BY <1>6 DEF IsRegs, params, RegArg
<1>. QED
  BY <1>8, <1>9, <1>10, <1>11 DEF new, regs, found

-----------------------------------------------------------------------------
(***************************************************************************)
(* The steps of the argument recovery                                      *)
(***************************************************************************)
\* Advance
LEMMA Advances ==
    ASSUME ModuleOK, NEW loop, NEW after, Advance(loop, after)
    PROVE  /\ k' \in Funcs
           /\ \/ k < NumFuncs /\ stage' = loop /\ k' = k + 1
              \/ k = NumFuncs /\ stage' = after /\ k' = 1
<1>1. k \in Funcs /\ NumFuncs \in Nat \ {0}
  BY Numbers DEF ModuleOK
<1>. QED
  BY <1>1 DEF Advance, Funcs

\* The module that the lifter leaves.
LEMMA InitInv == InitBoth => PassesInv
<1>. SUFFICES ASSUME InitBoth PROVE PassesInv
  OBVIOUS
<1>1. conv \in Conventions /\ stage = "declare" /\ k = 1
  BY DEF InitBoth, Init
<1>2. PICK body \in Bodies(conv.arch) :
        fns = [v \in Values |->
                IF v \in Funcs THEN [prefix |-> "", params |-> <<>>, ret |-> "lifted", locals |-> FALSE, code |-> body[v]]
                               ELSE Gone]
  BY DEF InitBoth, Init
<1>3. k \in Funcs
  BY <1>1, Numbers DEF Funcs
<1>4. \A f \in Funcs : Lifted(body[f])
  <2>1. ASSUME NEW f \in Funcs PROVE Lifted(body[f])
    <3>1. /\ body[f] \in Seq(Instructions)
          /\ \A i \in DOMAIN body[f] : body[f][i].op = "call" => body[f][i].to = body[f][i].callee
          /\ body[f] # <<>> => \E i \in DOMAIN body[f] : body[f][i].op = "br"
      BY <1>1, <1>2, BodiesAssumption
    <3>. HIDE DEF Instructions
    <3>. QED
      BY <3>1 DEF Lifted, CallsIn
  <2>. QED
    BY <2>1
<1>5. ASSUME NEW f \in Funcs
      PROVE  /\ Exists(f) /\ fns[f].ret = "lifted" /\ fns[f].code = body[f] /\ FunctionShape(fns[f])
             /\ ~Exists(f + NumFuncs) /\ ~Exists(f + 2 * NumFuncs)
  <2>. DEFINE fn == [prefix |-> "", params |-> <<>>, ret |-> "lifted", locals |-> FALSE, code |-> body[f]]
  <2>1. fns[f] = fn
    BY <1>2, Numbers
  <2>2. fns[f + NumFuncs] = Gone /\ fns[f + 2 * NumFuncs] = Gone
    BY <1>2, Numbers
  <2>3. fn.prefix = "" /\ fn.ret = "lifted" /\ fn.code = body[f]
        /\ DOMAIN fn = {"prefix", "params", "ret", "locals", "code"}
    OBVIOUS
  <2>4. IsCode(body[f])
    BY <1>4, LiftedIsCode
  <2>. HIDE DEF fn
  <2>5. FunctionShape(fn) /\ fn # Gone
    <3>1. fn.prefix # None
      BY <2>3 DEF None
    <3>2. fn # Gone
      BY <3>1 DEF Gone
    <3>. QED
      BY <2>3, <2>4, <3>1, <3>2 DEF FunctionShape
  <2>. QED
    BY <2>1, <2>2, <2>3, <2>5 DEF Exists
<1>6. ModuleOK
  <2>1. \A v \in Values : Exists(v) => FunctionShape(fns[v])
    <3>1. \A v \in Values : Exists(v) => v \in Funcs
      BY <1>5, Numbers
    <3>. QED
      BY <1>5, <3>1
  <2>2. DOMAIN fns = Values
    BY <1>2
  <2>. QED
    BY <1>1, <1>3, <2>1, <2>2 DEF ModuleOK, Stages
<1>7. Declaring
  <2>1. \A f \in Funcs : ~(f < k \/ (f = k /\ stage = "clone"))
    BY <1>1 DEF Funcs
  <2>. QED
    BY <1>4, <1>5, <2>1 DEF Declaring
<1>. QED
  BY <1>1, <1>6, <1>7 DEF PassesInv

\* The new function of f, with its body.
Made(f) ==
    /\ fns[f + NumFuncs].prefix = "argrec_"
    /\ IsRegs(fns[f + NumFuncs].params)
    /\ \A call \in CallsIn(fns[f + NumFuncs].code) : call.to = call.callee
    /\ merged => ReadsCovered(fns[f + NumFuncs].code, fns[f + NumFuncs].params)

\* The functions up to n are declared and have their bodies.
DeclaredTo(n) ==
    \A f \in Funcs :
        /\ Exists(f) /\ fns[f].ret = "lifted" /\ Lifted(fns[f].code)
        /\ Exists(f + NumFuncs) <=> fns[f].code # <<>> /\ f <= n
        /\ ~Exists(f + 2 * NumFuncs)
        /\ Exists(f + NumFuncs) => Made(f)

\* The end of the first loop, for one function.
LEMMA DeclareLoop ==
    ASSUME ModuleOK, ModuleOK', NEW n \in Funcs, n = k, DeclaredTo(n)', Advance("declare", "replace")
    PROVE  PassesInv'
<1>1. \A f \in Funcs : f \in Nat /\ f >= 1 /\ f <= NumFuncs
  BY Numbers DEF Funcs
<1>2. CASE k < NumFuncs /\ stage' = "declare" /\ k' = k + 1
  <2>1. \A f \in Funcs : f <= n <=> (f < k' \/ (f = k' /\ stage' = "clone"))
    BY <1>1, <1>2
  <2>2. \A f \in Funcs : f <= n => f < k'
    BY <1>1, <1>2
  <2>3. Declaring'
    <3>. SUFFICES ASSUME NEW f \in Funcs
         PROVE /\ Exists(f)' /\ fns'[f].ret = "lifted" /\ Lifted(fns'[f].code)
               /\ Exists(f + NumFuncs)' <=> fns'[f].code # <<>> /\ (f < k' \/ (f = k' /\ stage' = "clone"))
               /\ ~Exists(f + 2 * NumFuncs)'
               /\ Exists(f + NumFuncs)' => Made(f)' /\ f < k'
      BY DEF Declaring, Made, Lifted
    <3>. QED
      BY <2>1, <2>2 DEF DeclaredTo, Lifted
  <2>. QED
    BY <1>2, <2>3 DEF PassesInv
<1>3. CASE k = NumFuncs /\ stage' = "replace" /\ k' = 1
  <2>1. \A f \in Funcs : f <= n
    BY <1>1, <1>3
  <2>2. \A f \in Funcs : ~Past(f)'
    BY <1>1, <1>3 DEF Past
  <2>3. ASSUME NEW f \in Funcs PROVE
        /\ Exists(f)' /\ (Exists(f + NumFuncs)' <=> fns'[f].code # <<>>)
        /\ ~Exists(f + 2 * NumFuncs)'
        /\ Exists(f + NumFuncs)' => Made(f)' /\ FunctionShape(fns'[f + NumFuncs])
    <3>1. f + NumFuncs \in Values
      BY Numbers
    <3>. QED
      BY <2>1, <3>1 DEF DeclaredTo, ModuleOK, FunctionShape, IsCode, CallShape
  <2>4. ASSUME NEW f \in Funcs, Exists(f + NumFuncs)', NEW call \in CallsIn(fns'[f + NumFuncs].code)
        PROVE  Followed(f, call)'
    <3>1. call.callee \in Funcs /\ call.to = call.callee
      BY <2>3, <2>4 DEF FunctionShape, IsCode, CallShape, Made
    <3>. QED
      BY <2>2, <3>1 DEF Followed
  <2>5. Replacing'
    <3>. SUFFICES ASSUME NEW f \in Funcs
         PROVE /\ Exists(f)' <=> ~(Past(f)' /\ Exists(f + NumFuncs)')
               /\ Exists(f)' /\ ~Exists(f + NumFuncs)' => fns'[f].code = <<>>
               /\ ~Exists(f + 2 * NumFuncs)'
               /\ Exists(f + NumFuncs)' =>
                    /\ fns'[f + NumFuncs].prefix = IF Past(f)' THEN "" ELSE "argrec_"
                    /\ IsRegs(fns'[f + NumFuncs].params)
                    /\ \A call \in CallsIn(fns'[f + NumFuncs].code) : Followed(f, call)'
                    /\ merged' => ReadsCovered(fns[f + NumFuncs].code, fns[f + NumFuncs].params)'
      BY DEF Replacing
    <3>. QED
      BY <2>2, <2>3, <2>4 DEF Made
  <2>. QED
    BY <1>3, <2>5 DEF PassesInv
<1>. QED
  BY <1>2, <1>3, Advances

\* The functions before the current one are complete.
LEMMA DeclaredBefore ==
    ASSUME PassesInv, stage \in {"declare", "clone"}, NEW f \in Funcs
    PROVE  /\ Exists(f) /\ fns[f].ret = "lifted" /\ Lifted(fns[f].code)
           /\ ~Exists(f + 2 * NumFuncs)
           /\ Exists(f + NumFuncs) <=> fns[f].code # <<>> /\ (f < k \/ (f = k /\ stage = "clone"))
           /\ Exists(f + NumFuncs) /\ f < k => Made(f)
<1>. QED
  BY DEF PassesInv, Declaring, Made

\* Stubs stay as they are; a new function is declared for every other one.
LEMMA RecoverInv ==
    ASSUME PassesInv, Recover
    PROVE  PassesInv'
<1>. DEFINE n == k
<1>1. stage = "declare" /\ conv' = conv /\ merged' = merged /\ n \in Funcs /\ ModuleOK
  BY DEF Recover, PassesInv, ModuleOK
<1>2. CASE ~IsLiftedFunction(k) /\ fns' = fns /\ Advance("declare", "replace")
  <2>1. fns[k].code = <<>>
    BY <1>1, <1>2, DeclaredBefore DEF IsLiftedFunction
  <2>2. ModuleOK'
    <3>1. k' \in Funcs /\ stage' \in {"declare", "replace"}
      BY <1>1, <1>2, Advances
    <3>. QED
      BY <1>1, <1>2, <3>1 DEF ModuleOK, Exists, Stages
  <2>3. \E m \in Funcs : m = k /\ DeclaredTo(m)'
    <3>1. \A m \in Funcs : m = k => DeclaredTo(m)'
      <4>. SUFFICES ASSUME NEW m \in Funcs, m = k, NEW f \in Funcs
             PROVE  /\ Exists(f)' /\ fns'[f].ret = "lifted" /\ Lifted(fns'[f].code)
                    /\ Exists(f + NumFuncs)' <=> fns'[f].code # <<>> /\ f <= m
                    /\ ~Exists(f + 2 * NumFuncs)'
                    /\ Exists(f + NumFuncs)' => Made(f)'
        BY DEF DeclaredTo, Lifted
      <4>1. f <= m <=> f < k \/ f = k
        BY <1>1, Numbers
      <4>2. f = k => fns[f].code = <<>>
        BY <2>1
      <4>3. Exists(f)' = Exists(f) /\ Exists(f + NumFuncs)' = Exists(f + NumFuncs)
            /\ Exists(f + 2 * NumFuncs)' = Exists(f + 2 * NumFuncs)
        BY <1>2 DEF Exists
      <4>4. Made(f) => Made(f)'
        BY <1>1, <1>2 DEF Made, ReadsCovered
      <4>5. /\ Exists(f) /\ fns[f].ret = "lifted" /\ Lifted(fns[f].code)
            /\ ~Exists(f + 2 * NumFuncs)
            /\ Exists(f + NumFuncs) <=> fns[f].code # <<>> /\ f < k
            /\ Exists(f + NumFuncs) /\ f < k => Made(f)
        BY <1>1, DeclaredBefore
      <4>. QED
        BY <1>2, <4>1, <4>2, <4>3, <4>4, <4>5
    <3>. QED
      BY <1>1, <3>1
  <2>. QED
    BY <1>1, <1>2, <2>2, <2>3, DeclareLoop
<1>3. CASE stage' = "fatal" /\ UNCHANGED <<fns, k>>
  <2>1. ModuleOK'
    BY <1>1, <1>3 DEF ModuleOK, Exists, Stages
  <2>. QED
    BY <1>3, <2>1 DEF PassesInv
<1>4. CASE /\ IsLiftedFunction(k)
           /\ \E types :
                fns' = [fns EXCEPT ![k + NumFuncs] = DeclareParametrizedFunc(UsedRegs(ParamVars(fns[k].code)), types)]
           /\ stage' = "clone" /\ k' = k
  <2>1. PICK types, new :
          /\ new = DeclareParametrizedFunc(UsedRegs(ParamVars(fns[k].code)), types)
          /\ fns' = [fns EXCEPT ![k + NumFuncs] = new]
    BY <1>4
  <2>2. Lifted(fns[k].code) /\ fns[k].code # <<>>
    BY <1>1, <1>4, DeclaredBefore DEF IsLiftedFunction
  <2>3. fns[k].code \in Seq(Range(fns[k].code)) /\ conv \in Conventions
    BY <1>1, <2>2, LiftedIsCode DEF IsCode, ModuleOK
  <2>4. /\ FunctionShape(new) /\ new # Gone /\ new.prefix = "argrec_" /\ new.code = <<>>
        /\ IsRegs(new.params)
        /\ merged => ReadsCovered(fns[k].code, new.params)
    BY <2>1, <2>3, Declared
  <2>5. k + NumFuncs \in Values /\ DOMAIN fns = Values
    BY <1>1, Numbers DEF ModuleOK
  <2>6. DOMAIN fns' = Values /\ fns'[k + NumFuncs] = new /\ \A v \in Values : v # k + NumFuncs => fns'[v] = fns[v]
    BY <2>1, <2>5
  <2>7. ModuleOK'
    BY <1>1, <1>4, <2>4, <2>6 DEF ModuleOK, Exists, Stages
  <2>8. ASSUME NEW f \in Funcs
        PROVE  /\ Exists(f)' /\ fns'[f].ret = "lifted" /\ Lifted(fns'[f].code)
               /\ Exists(f + NumFuncs)' <=> fns'[f].code # <<>> /\ (f < k' \/ (f = k' /\ stage' = "clone"))
               /\ ~Exists(f + 2 * NumFuncs)'
               /\ Exists(f + NumFuncs)' =>
                    /\ fns'[f + NumFuncs].prefix = "argrec_"
                    /\ IsRegs(fns'[f + NumFuncs].params)
                    /\ \A call \in CallsIn(fns'[f + NumFuncs].code) : call.to = call.callee
                    /\ merged' => IF f < k' THEN ReadsCovered(fns[f + NumFuncs].code, fns[f + NumFuncs].params)'
                                            ELSE ReadsCovered(fns[f].code, fns[f + NumFuncs].params)'
    <3>1. /\ Exists(f) /\ fns[f].ret = "lifted" /\ Lifted(fns[f].code)
          /\ ~Exists(f + 2 * NumFuncs)
          /\ Exists(f + NumFuncs) <=> fns[f].code # <<>> /\ f < k
          /\ Exists(f + NumFuncs) /\ f < k => Made(f)
      BY <1>1, DeclaredBefore
    <3>2. /\ f \in Values /\ f + NumFuncs \in Values /\ f + 2 * NumFuncs \in Values
          /\ f # k + NumFuncs /\ f + 2 * NumFuncs # k + NumFuncs
          /\ f + NumFuncs = k + NumFuncs => f = k
      BY <1>1, Numbers
    <3>3. fns'[f] = fns[f] /\ fns'[f + 2 * NumFuncs] = fns[f + 2 * NumFuncs]
      BY <2>6, <3>2
    <3>4. \A code, params : ReadsCovered(code, params) => ReadsCovered(code, params)'
      BY <1>1 DEF ReadsCovered
    <3>5. CASE f = k
      <4>1. fns'[f + NumFuncs] = new /\ ~(f < k')
        BY <1>1, <1>4, <2>6, <3>5, Numbers
      <4>2. CallsIn(new.code) = {}
        BY <2>4 DEF CallsIn
      <4>3. merged' => ReadsCovered(fns[f].code, fns[f + NumFuncs].params)'
        BY <1>1, <2>4, <3>3, <3>5, <4>1 DEF ReadsCovered
      <4>. QED
        BY <1>4, <2>2, <2>4, <3>1, <3>3, <3>5, <4>1, <4>2, <4>3 DEF Exists
    <3>6. CASE f # k
      <4>1. fns'[f + NumFuncs] = fns[f + NumFuncs]
        BY <2>6, <3>2, <3>6
      <4>2. Made(f) /\ merged' => ReadsCovered(fns[f + NumFuncs].code, fns[f + NumFuncs].params)'
        BY <1>1, <4>1 DEF Made, ReadsCovered
      <4>. QED
        BY <1>1, <1>4, <3>1, <3>3, <3>6, <4>1, <4>2 DEF Exists, Made
    <3>. QED
      BY <3>5, <3>6
  <2>9. Declaring'
    BY <2>8 DEF Declaring, Lifted
  <2>10. fns'[k'].code # <<>>
    BY <1>1, <1>4, <2>2, <2>6, Numbers
  <2>. QED
    BY <1>4, <2>7, <2>9, <2>10 DEF PassesInv
<1>. QED
  <2>1. \/ ~IsLiftedFunction(k) /\ fns' = fns /\ Advance("declare", "replace")
        \/ stage' = "fatal" /\ UNCHANGED <<fns, k>>
        \/ /\ IsLiftedFunction(k)
           /\ \E types :
                fns' = [fns EXCEPT ![k + NumFuncs] = DeclareParametrizedFunc(UsedRegs(ParamVars(fns[k].code)), types)]
           /\ stage' = "clone" /\ k' = k
    BY DEF Recover
  <2>. QED
    BY <1>2, <1>3, <1>4, <2>1

\* The new function gets its body, and the next one its turn.
LEMMA CloneInv ==
    ASSUME PassesInv, Clone
    PROVE  PassesInv'
<1>1. /\ stage = "clone" /\ conv' = conv /\ merged' = merged /\ k \in Funcs /\ ModuleOK
      /\ Advance("declare", "replace") /\ fns[k].code # <<>>
  BY DEF Clone, PassesInv, ModuleOK
<1>2. /\ k \in Values /\ k + NumFuncs \in Values /\ k # k + NumFuncs /\ DOMAIN fns = Values
  BY <1>1, Numbers DEF ModuleOK
<1>3. Exists(k) /\ Exists(k + NumFuncs) /\ Lifted(fns[k].code)
  BY <1>1, DeclaredBefore
<1>4. FunctionShape(fns[k]) /\ FunctionShape(fns[k + NumFuncs])
  BY <1>1, <1>2, <1>3 DEF ModuleOK
<1>5. /\ fns[k + NumFuncs].prefix = "argrec_"
      /\ IsRegs(fns[k + NumFuncs].params)
      /\ merged => ReadsCovered(fns[k].code, fns[k + NumFuncs].params)
  <2>1. ~(k < k)
    BY <1>1, Numbers
  <2>. QED
    BY <1>1, <1>3, <2>1 DEF PassesInv, Declaring
<1>6. PICK old, code, new :
        /\ old = [fns[k] EXCEPT !.locals = TRUE]
        /\ code = LoadReturnRegToRetInsts(fns[k + NumFuncs].ret, StoreRegArgsToLocals(fns[k + NumFuncs].params, old.code))
        /\ new = [fns[k + NumFuncs] EXCEPT !.locals = old.locals, !.code = code]
        /\ fns' = [fns EXCEPT ![k] = old, ![k + NumFuncs] = new]
  BY DEF Clone, ConvertRemillArgsToLocals
<1>7. FunctionShape(old) /\ old # Gone /\ old.code = fns[k].code /\ old.ret = fns[k].ret
  <2>1. {"prefix", "params", "ret", "locals", "code"} \subseteq DOMAIN fns[k]
    BY <1>4 DEF FunctionShape
  <2>2. /\ DOMAIN old = DOMAIN fns[k] /\ old.code = fns[k].code /\ old.ret = fns[k].ret
        /\ old.prefix = fns[k].prefix
    BY <1>6, <2>1
  <2>3. FunctionShape(old)
    BY <1>4, <2>2 DEF FunctionShape
  <2>. QED
    BY <2>2, <2>3 DEF FunctionShape, Gone
<1>8. /\ IsCode(code)
      /\ \A call \in CallsIn(code) : call \in CallsIn(fns[k].code)
      /\ merged => ReadsCovered(code, fns[k + NumFuncs].params)
  BY <1>1, <1>3, <1>5, <1>6, <1>7, Cloned DEF IsRegs
<1>9. /\ FunctionShape(new) /\ new # Gone /\ new.code = code
      /\ new.prefix = "argrec_" /\ new.params = fns[k + NumFuncs].params
  <2>. DEFINE fn == fns[k + NumFuncs]
              locals == old.locals
  <2>1. new = [fn EXCEPT !.locals = locals, !.code = code] /\ FunctionShape(fn)
    BY <1>4, <1>6
  <2>2. fn.prefix = "argrec_"
    BY <1>5
  <2>. HIDE DEF fn, locals
  <2>3. {"prefix", "params", "ret", "locals", "code"} \subseteq DOMAIN fn
    BY <2>1 DEF FunctionShape
  <2>4. DOMAIN new = DOMAIN fn /\ new.code = code /\ new.prefix = fn.prefix /\ new.params = fn.params
    BY <2>1, <2>3
  <2>5. FunctionShape(new)
    BY <1>8, <2>1, <2>4 DEF FunctionShape
  <2>6. new # Gone
    BY <2>5 DEF FunctionShape, Gone
  <2>. QED
    BY <2>2, <2>4, <2>5, <2>6 DEF fn
<1>10. /\ DOMAIN fns' = Values /\ fns'[k] = old /\ fns'[k + NumFuncs] = new
       /\ \A v \in Values : v # k /\ v # k + NumFuncs => fns'[v] = fns[v]
  BY <1>2, <1>6
<1>11. ModuleOK'
  <2>1. k' \in Funcs /\ stage' \in {"declare", "replace"}
    BY <1>1, Advances
  <2>. QED
    BY <1>1, <1>7, <1>9, <1>10, <2>1 DEF ModuleOK, Exists, Stages
<1>12. ASSUME NEW m \in Funcs, m = k, NEW f \in Funcs
       PROVE  /\ Exists(f)' /\ fns'[f].ret = "lifted" /\ Lifted(fns'[f].code)
              /\ Exists(f + NumFuncs)' <=> fns'[f].code # <<>> /\ f <= m
              /\ ~Exists(f + 2 * NumFuncs)'
              /\ Exists(f + NumFuncs)' => Made(f)'
  <2>1. /\ Exists(f) /\ fns[f].ret = "lifted" /\ Lifted(fns[f].code)
        /\ ~Exists(f + 2 * NumFuncs)
        /\ Exists(f + NumFuncs) <=> fns[f].code # <<>> /\ (f < k \/ f = k)
        /\ Exists(f + NumFuncs) /\ f < k => Made(f)
    BY <1>1, DeclaredBefore
  <2>2. f <= m <=> f < k \/ f = k
    BY <1>12, Numbers
  <2>3. /\ f \in Values /\ f + NumFuncs \in Values /\ f + 2 * NumFuncs \in Values
        /\ f # k + NumFuncs /\ f + 2 * NumFuncs # k + NumFuncs /\ f + 2 * NumFuncs # k /\ f + NumFuncs # k
        /\ f + NumFuncs = k + NumFuncs => f = k
    BY <1>1, Numbers
  <2>4. fns'[f + 2 * NumFuncs] = fns[f + 2 * NumFuncs]
    BY <1>10, <2>3
  <2>5. CASE f = k
    <3>1. fns'[f] = old /\ fns'[f + NumFuncs] = new
      BY <1>10, <2>5
    <3>2. \A call \in CallsIn(new.code) : call.to = call.callee
      BY <1>3, <1>8, <1>9 DEF Lifted
    <3>3. merged' => ReadsCovered(fns[f + NumFuncs].code, fns[f + NumFuncs].params)'
      BY <1>1, <1>8, <1>9, <3>1 DEF ReadsCovered
    <3>4. Made(f)'
      BY <1>5, <1>9, <3>1, <3>2, <3>3 DEF Made
    <3>. QED
      BY <1>1, <1>7, <1>9, <2>1, <2>2, <2>4, <2>5, <3>1, <3>4 DEF Exists
  <2>6. CASE f # k
    <3>1. fns'[f] = fns[f] /\ fns'[f + NumFuncs] = fns[f + NumFuncs]
      BY <1>10, <2>3, <2>6
    <3>2. Made(f) => Made(f)'
      BY <1>1, <3>1 DEF Made, ReadsCovered
    <3>. QED
      BY <2>1, <2>2, <2>4, <2>6, <3>1, <3>2 DEF Exists
  <2>. QED
    BY <2>5, <2>6
<1>13. \A m \in Funcs : m = k => DeclaredTo(m)'
  BY <1>12 DEF DeclaredTo, Lifted
<1>. QED
  BY <1>1, <1>11, <1>13, DeclareLoop

\* A call that goes to the new function, and one that stays.
Replaced(call, f) ==
    call.to = f + NumFuncs /\ call.args = fns[f + NumFuncs].params /\ call.dst = Result(fns[f + NumFuncs].ret)
Same(call, old) == call.to = old.to /\ call.args = old.args /\ call.dst = old.dst

\* What Replace(f) makes of the function at v.
ReplacedBy(f, v, new) ==
    /\ v = f => new = Gone
    /\ v # f => (new = Gone <=> ~Exists(v))
    /\ v # f /\ Exists(v) =>
         /\ FunctionShape(new) /\ new.params = fns[v].params /\ new.ret = fns[v].ret
         /\ OnlyCallsDiffer(fns[v].code, new.code)
         /\ new.prefix = IF v = f + NumFuncs THEN "" ELSE fns[v].prefix
         /\ fns[v].code = <<>> => new.code = <<>>
         /\ \A params : ReadsCovered(fns[v].code, params) => ReadsCovered(new.code, params)
         /\ \A call \in CallsIn(new.code) : \E old \in CallsIn(fns[v].code) :
              /\ call.callee = old.callee
              /\ IF old.to = f
                 THEN IF fns[v].prefix = "argrec_"
                      THEN Replaced(call, f)
                      ELSE call.to = Undef
                 ELSE Same(call, old)

\* What TakeNameAndErase and UpdateCalls make of each function.
LEMMA ReplacedFunctions ==
    ASSUME ModuleOK, NEW f \in Funcs, Exists(f + NumFuncs), NEW v \in Values,
           NEW new, new = TakeNameAndErase(f, f + NumFuncs, UpdateCalls(f))[v]
    PROVE  ReplacedBy(f, v, new)
<1>. DEFINE updated == UpdateCalls(f)[v]
            lost == Retarget(updated, f, Undef)
<1>1. f # f + NumFuncs /\ f + NumFuncs # f
  BY Numbers
<1>2. updated = IF fns[v].prefix = "argrec_" THEN UpdateCallsIn(fns[v], f, fns[f + NumFuncs]) ELSE fns[v]
  BY DEF UpdateCalls
<1>3. v = f => new = Gone
  BY <1>1 DEF TakeNameAndErase
<1>4. v = f + NumFuncs => new = [lost EXCEPT !.prefix = ""]
  BY <1>1 DEF TakeNameAndErase
<1>5. v # f /\ v # f + NumFuncs => new = lost
  BY DEF TakeNameAndErase
<1>. HIDE DEF updated, lost
<1>6. ASSUME ~Exists(v), v # f PROVE new = Gone
  <2>1. fns[v] = Gone /\ fns[v].prefix # "argrec_" /\ v # f + NumFuncs
    BY <1>6 DEF Exists, Gone, None
  <2>2. lost = Gone
    BY <1>2, <2>1 DEF lost, Retarget
  <2>. QED
    BY <1>5, <1>6, <2>1, <2>2
<1>7. ASSUME Exists(v), v # f
      PROVE  /\ FunctionShape(lost) /\ lost # Gone /\ lost.params = fns[v].params /\ lost.prefix = fns[v].prefix
             /\ lost.ret = fns[v].ret
             /\ OnlyCallsDiffer(fns[v].code, updated.code) /\ OnlyCallsDiffer(updated.code, lost.code)
             /\ IsCode(fns[v].code) /\ IsCode(updated.code)
             /\ \A call \in CallsIn(lost.code) : \E old \in CallsIn(fns[v].code) :
                     /\ call.callee = old.callee
                     /\ IF old.to = f
                        THEN IF fns[v].prefix = "argrec_"
                             THEN Replaced(call, f)
                             ELSE call.to = Undef
                        ELSE Same(call, old)
  <2>1. FunctionShape(fns[v])
    BY <1>7 DEF ModuleOK
  <2>2. /\ FunctionShape(updated) /\ updated.prefix = fns[v].prefix /\ updated.params = fns[v].params
        /\ updated.ret = fns[v].ret
        /\ OnlyCallsDiffer(fns[v].code, updated.code)
        /\ \A call \in CallsIn(updated.code) : \E old \in CallsIn(fns[v].code) :
             /\ call.callee = old.callee
             /\ IF old.to = f /\ fns[v].prefix = "argrec_"
                THEN Replaced(call, f)
                ELSE Same(call, old)
    <3>1. CASE fns[v].prefix = "argrec_"
      BY <1>2, <2>1, <3>1, UpdateKeeps DEF Replaced, Same
    <3>2. CASE fns[v].prefix # "argrec_"
      <4>1. updated = fns[v]
        BY <1>2, <3>2
      <4>2. fns[v].code \in Seq(Range(fns[v].code)) /\ \A call \in CallsIn(fns[v].code) : CallShape(call)
        BY <2>1 DEF FunctionShape, IsCode
      <4>3. fns[v].code = [i \in DOMAIN fns[v].code |-> fns[v].code[i]]
        BY <4>2
      <4>4. OnlyCallsDiffer(fns[v].code, fns[v].code)
        BY <4>2, <4>3 DEF OnlyCallsDiffer, CallsIn
      <4>. QED
        BY <2>1, <3>2, <4>1, <4>4 DEF Same
    <3>. QED
      BY <3>1, <3>2
  <2>3. /\ FunctionShape(lost) /\ lost # Gone /\ lost.prefix = updated.prefix /\ lost.params = updated.params
        /\ lost.ret = updated.ret
        /\ OnlyCallsDiffer(updated.code, lost.code)
        /\ \A call \in CallsIn(lost.code) : \E old \in CallsIn(updated.code) :
             /\ call.callee = old.callee /\ call.args = old.args /\ call.dst = old.dst
             /\ call.to = IF old.to = f THEN Undef ELSE old.to
    BY <2>2, RetargetKeeps DEF lost
  <2>4. ASSUME NEW call \in CallsIn(lost.code)
        PROVE  \E old \in CallsIn(fns[v].code) :
                 /\ call.callee = old.callee
                 /\ IF old.to = f
                    THEN IF fns[v].prefix = "argrec_"
                         THEN Replaced(call, f)
                         ELSE call.to = Undef
                    ELSE Same(call, old)
    <3>1. PICK mid \in CallsIn(updated.code) :
            /\ call.callee = mid.callee /\ call.args = mid.args /\ call.dst = mid.dst
            /\ call.to = IF mid.to = f THEN Undef ELSE mid.to
      BY <2>3
    <3>2. PICK old \in CallsIn(fns[v].code) :
            /\ mid.callee = old.callee
            /\ IF old.to = f /\ fns[v].prefix = "argrec_"
               THEN Replaced(mid, f)
               ELSE Same(mid, old)
      BY <2>2
    <3>. QED
      BY <1>1, <3>1, <3>2 DEF Replaced, Same
  <2>. QED
    BY <2>1, <2>2, <2>3, <2>4 DEF FunctionShape
<1>8. ASSUME Exists(v), v # f
      PROVE  /\ FunctionShape(new) /\ new # Gone /\ new.params = lost.params /\ new.code = lost.code /\ new.ret = lost.ret
             /\ new.prefix = IF v = f + NumFuncs THEN "" ELSE fns[v].prefix
  <2>1. CASE v = f + NumFuncs
    <3>1. {"prefix", "params", "ret", "locals", "code"} \subseteq DOMAIN lost
      BY <1>7, <1>8 DEF FunctionShape
    <3>2. DOMAIN new = DOMAIN lost /\ new.prefix = "" /\ new.params = lost.params /\ new.code = lost.code
          /\ new.ret = lost.ret
      BY <1>4, <2>1, <3>1
    <3>3. new.prefix # None
      BY <3>2 DEF None
    <3>4. FunctionShape(new)
      BY <1>7, <1>8, <3>2, <3>3 DEF FunctionShape
    <3>5. new # Gone
      BY <3>3 DEF Gone
    <3>. QED
      BY <2>1, <3>2, <3>4, <3>5
  <2>2. CASE v # f + NumFuncs
    BY <1>5, <1>7, <1>8, <2>2
  <2>. QED
    BY <2>1, <2>2
<1>9. ASSUME Exists(v), v # f, fns[v].code = <<>> PROVE lost.code = <<>>
  <2>1. DOMAIN lost.code = {} /\ lost.code = [i \in DOMAIN updated.code |-> lost.code[i]] /\ DOMAIN updated.code = {}
    BY <1>7, <1>9, CallsRewritten DEF OnlyCallsDiffer
  <2>. QED
    BY <2>1
<1>10. ASSUME Exists(v), v # f, NEW params, ReadsCovered(fns[v].code, params) PROVE ReadsCovered(lost.code, params)
  <2>1. ReadsCovered(updated.code, params)
    BY <1>7, <1>10, ReadsRewritten
  <2>. QED
    BY <1>7, <1>10, <2>1, ReadsRewritten
<1>11. ASSUME Exists(v), v # f PROVE OnlyCallsDiffer(fns[v].code, lost.code)
  <2>1. /\ OnlyCallsDiffer(fns[v].code, updated.code) /\ OnlyCallsDiffer(updated.code, lost.code)
        /\ DOMAIN updated.code = DOMAIN fns[v].code
    BY <1>7, <1>11, CallsRewritten
  <2>2. lost.code = [i \in DOMAIN fns[v].code |-> lost.code[i]]
    BY <2>1 DEF OnlyCallsDiffer
  <2>3. ASSUME NEW i \in DOMAIN fns[v].code
        PROVE  IF fns[v].code[i].op = "call" THEN CallShape(lost.code[i]) ELSE lost.code[i] = fns[v].code[i]
    BY <2>1 DEF OnlyCallsDiffer, CallShape
  <2>. QED
    BY <2>2, <2>3 DEF OnlyCallsDiffer
<1>. QED
  BY <1>3, <1>6, <1>7, <1>8, <1>9, <1>10, <1>11 DEF ReplacedBy

\* The new function takes the place of the old one.
LEMMA ReplaceInv ==
    ASSUME PassesInv, Replace
    PROVE  PassesInv'
<1>1. /\ stage = "replace" /\ conv' = conv /\ merged' = merged /\ k \in Funcs /\ ModuleOK
      /\ Advance("replace", "optimize") /\ Replacing
  BY DEF Replace, PassesInv, ModuleOK
<1>2. PICK n \in Funcs : n = k
  BY <1>1
<1>3. \A f \in Funcs : f \in Nat /\ f >= 1 /\ f <= NumFuncs
  BY Numbers DEF Funcs
<1>4. /\ k' \in Funcs /\ stage' \in {"replace", "optimize"}
      /\ \A f \in Funcs : Past(f)' <=> Past(f) \/ f = n
      /\ \A f \in Funcs : Past(f) <=> f < n
  <2>1. \/ k < NumFuncs /\ stage' = "replace" /\ k' = k + 1
        \/ k = NumFuncs /\ stage' = "optimize" /\ k' = 1
    BY <1>1, Advances
  <2>2. k' \in Funcs
    BY <1>1, Advances
  <2>3. \A f \in Funcs : f < n + 1 <=> f < n \/ f = n
    BY <1>3
  <2>4. n = NumFuncs => \A f \in Funcs : f < n \/ f = n
    BY <1>3
  <2>. QED
    BY <1>1, <1>2, <2>1, <2>2, <2>3, <2>4 DEF Past
<1>5. DOMAIN fns = Values /\ \A v \in Values : Exists(v) => FunctionShape(fns[v])
  BY <1>1 DEF ModuleOK
<1>6. \A f \in Funcs : Exists(f + NumFuncs) =>
         \A call \in CallsIn(fns[f + NumFuncs].code) : call.callee \in Funcs /\ Followed(f, call)
  BY <1>1, <1>5, Numbers DEF Replacing, FunctionShape, IsCode, CallShape
<1>7. CASE ~Exists(n + NumFuncs)
  <2>1. fns' = fns
    BY <1>2, <1>7 DEF Replace
  <2>2. \A v : Exists(v)' = Exists(v)
    BY <2>1 DEF Exists
  <2>3. ModuleOK'
    BY <1>1, <1>4, <2>1, <2>2 DEF ModuleOK, Stages
  <2>4. ASSUME NEW f \in Funcs
        PROVE  /\ Exists(f)' <=> ~(Past(f)' /\ Exists(f + NumFuncs)')
               /\ Exists(f)' /\ ~Exists(f + NumFuncs)' => fns'[f].code = <<>>
               /\ ~Exists(f + 2 * NumFuncs)'
               /\ Exists(f + NumFuncs)' =>
                    /\ fns'[f + NumFuncs].prefix = IF Past(f)' THEN "" ELSE "argrec_"
                    /\ IsRegs(fns'[f + NumFuncs].params)
                    /\ \A call \in CallsIn(fns'[f + NumFuncs].code) : Followed(f, call)'
                    /\ merged' => ReadsCovered(fns[f + NumFuncs].code, fns[f + NumFuncs].params)'
    <3>1. Past(f)' /\ Exists(f + NumFuncs) <=> Past(f) /\ Exists(f + NumFuncs)
      BY <1>4, <1>7
    <3>2. ASSUME Exists(f + NumFuncs), NEW call \in CallsIn(fns[f + NumFuncs].code) PROVE Followed(f, call)'
      <4>1. call.callee \in Funcs /\ Followed(f, call)
        BY <1>6, <3>2
      <4>2. Past(call.callee)' /\ Exists(call.callee + NumFuncs)' <=> Past(call.callee) /\ Exists(call.callee + NumFuncs)
        BY <1>4, <1>7, <2>2, <4>1
      <4>. QED
        BY <2>1, <4>1, <4>2 DEF Followed
    <3>3. ReadsCovered(fns[f + NumFuncs].code, fns[f + NumFuncs].params)
          => ReadsCovered(fns[f + NumFuncs].code, fns[f + NumFuncs].params)'
      BY <1>1, <2>1 DEF ReadsCovered
    <3>. QED
      BY <1>1, <2>1, <2>2, <3>1, <3>2, <3>3 DEF Replacing
  <2>5. Replacing'
    BY <2>4 DEF Replacing
  <2>. QED
    BY <1>4, <2>3, <2>5 DEF PassesInv
<1>8. CASE Exists(n + NumFuncs)
  <2>1. fns' = TakeNameAndErase(n, n + NumFuncs, UpdateCalls(n))
    BY <1>2, <1>8 DEF Replace
  <2>2. DOMAIN fns' = Values
    BY <2>1 DEF TakeNameAndErase
  <2>3. ASSUME NEW v \in Values
        PROVE  /\ v = n => fns'[v] = Gone
               /\ v # n => (fns'[v] = Gone <=> ~Exists(v))
               /\ v # n /\ Exists(v) =>
                    /\ FunctionShape(fns'[v]) /\ fns'[v].params = fns[v].params
                    /\ fns'[v].prefix = IF v = n + NumFuncs THEN "" ELSE fns[v].prefix
                    /\ fns[v].code = <<>> => fns'[v].code = <<>>
                    /\ \A params : ReadsCovered(fns[v].code, params) => ReadsCovered(fns'[v].code, params)
                    /\ \A call \in CallsIn(fns'[v].code) : \E old \in CallsIn(fns[v].code) :
                         /\ call.callee = old.callee
                         /\ IF old.to = n
                            THEN IF fns[v].prefix = "argrec_"
                                 THEN call.to = n + NumFuncs /\ call.args = fns[n + NumFuncs].params
                                 ELSE call.to = Undef
                            ELSE call.to = old.to /\ call.args = old.args
    <3>1. PICK new : new = fns'[v]
      OBVIOUS
    <3>2. new = TakeNameAndErase(n, n + NumFuncs, UpdateCalls(n))[v]
      BY <2>1, <3>1
    <3>3. ReplacedBy(n, v, new)
      BY <1>1, <1>8, <3>2, ReplacedFunctions
    <3>. QED
      BY <3>1, <3>3 DEF ReplacedBy, Replaced, Same
  <2>4. \A v \in Values : Exists(v)' <=> v # n /\ Exists(v)
    BY <2>3 DEF Exists
  <2>5. ModuleOK'
    BY <1>1, <1>4, <2>2, <2>3, <2>4 DEF ModuleOK, Stages
  <2>6. \A f \in Funcs : /\ f \in Values /\ f + NumFuncs \in Values /\ f + 2 * NumFuncs \in Values
                         /\ f + NumFuncs # n /\ f + 2 * NumFuncs # n
                         /\ f + NumFuncs = n + NumFuncs <=> f = n
    BY Numbers
  <2>7. \A f \in Funcs : /\ Exists(f + NumFuncs)' = Exists(f + NumFuncs)
                         /\ Exists(f + NumFuncs) => fns'[f + NumFuncs].params = fns[f + NumFuncs].params
    BY <2>3, <2>4, <2>6 DEF Exists
  <2>8. ASSUME NEW f \in Funcs, Exists(f + NumFuncs), NEW call \in CallsIn(fns'[f + NumFuncs].code)
        PROVE  Followed(f, call)'
    <3>1. PICK old \in CallsIn(fns[f + NumFuncs].code) :
            /\ call.callee = old.callee
            /\ IF old.to = n
               THEN IF fns[f + NumFuncs].prefix = "argrec_"
                    THEN call.to = n + NumFuncs /\ call.args = fns[n + NumFuncs].params
                    ELSE call.to = Undef
               ELSE call.to = old.to /\ call.args = old.args
      BY <2>3, <2>6, <2>8
    <3>. DEFINE c == old.callee
    <3>2. c \in Funcs /\ Followed(f, old) /\ call.callee = c
      BY <1>6, <2>8, <3>1
    <3>. HIDE DEF c
    <3>3. CASE c = n
      <4>1. ~Past(n) /\ Past(n)' /\ Exists(n + NumFuncs)'
        BY <1>3, <1>4, <1>8, <2>7
      <4>2. old.to = n
        BY <3>2, <3>3, <4>1 DEF Followed, c
      <4>3. fns[f + NumFuncs].prefix = "argrec_" \/ f < n
        BY <1>1, <1>4, <2>8 DEF Replacing
      <4>4. fns[f + NumFuncs].prefix # "argrec_" => f < n
        BY <4>3
      <4>5. \/ call.to = Undef /\ f < n
            \/ call.to = n + NumFuncs /\ call.args = fns'[n + NumFuncs].params
        BY <1>8, <2>7, <3>1, <4>2, <4>4
      <4>. QED
        BY <3>2, <3>3, <4>1, <4>5 DEF Followed
    <3>4. CASE c # n
      <4>1. /\ Past(c)' <=> Past(c)
            /\ Exists(c + NumFuncs)' <=> Exists(c + NumFuncs)
        BY <1>4, <2>7, <3>2, <3>4
      <4>2. CASE Past(c) /\ Exists(c + NumFuncs)
        <5>1. \/ old.to = Undef /\ f < c
              \/ old.to = c + NumFuncs /\ old.args = fns[c + NumFuncs].params
          BY <3>2, <4>2 DEF Followed, c
        <5>2. old.to # n
          <6>1. n # Undef /\ c + NumFuncs # n
            BY <3>2, Numbers
          <6>. QED
            BY <5>1, <6>1
        <5>3. call.to = old.to /\ call.args = old.args
          BY <3>1, <5>2
        <5>4. \/ call.to = Undef /\ f < c
              \/ call.to = c + NumFuncs /\ call.args = fns'[c + NumFuncs].params
          BY <2>7, <3>2, <4>2, <5>1, <5>3
        <5>. QED
          BY <3>2, <4>1, <4>2, <5>4 DEF Followed
      <4>3. CASE ~(Past(c) /\ Exists(c + NumFuncs))
        <5>1. old.to = c
          BY <3>2, <4>3 DEF Followed, c
        <5>2. call.to = c
          BY <3>1, <3>4, <5>1
        <5>. QED
          BY <3>2, <4>1, <4>3, <5>2 DEF Followed
      <4>. QED
        BY <4>2, <4>3
    <3>. QED
      BY <3>3, <3>4
  <2>9. ASSUME NEW f \in Funcs
        PROVE  /\ Exists(f)' <=> ~(Past(f)' /\ Exists(f + NumFuncs)')
               /\ Exists(f)' /\ ~Exists(f + NumFuncs)' => fns'[f].code = <<>>
               /\ ~Exists(f + 2 * NumFuncs)'
               /\ Exists(f + NumFuncs)' =>
                    /\ fns'[f + NumFuncs].prefix = IF Past(f)' THEN "" ELSE "argrec_"
                    /\ IsRegs(fns'[f + NumFuncs].params)
                    /\ \A call \in CallsIn(fns'[f + NumFuncs].code) : Followed(f, call)'
                    /\ merged' => ReadsCovered(fns[f + NumFuncs].code, fns[f + NumFuncs].params)'
    <3>1. /\ Exists(f) <=> ~(Past(f) /\ Exists(f + NumFuncs))
          /\ Exists(f) /\ ~Exists(f + NumFuncs) => fns[f].code = <<>>
          /\ ~Exists(f + 2 * NumFuncs)
          /\ Exists(f + NumFuncs) =>
               /\ fns[f + NumFuncs].prefix = IF Past(f) THEN "" ELSE "argrec_"
               /\ merged => ReadsCovered(fns[f + NumFuncs].code, fns[f + NumFuncs].params)
      BY <1>1 DEF Replacing
    <3>2. Exists(f)' <=> ~(Past(f)' /\ Exists(f + NumFuncs)')
      BY <1>4, <1>8, <2>4, <2>6, <2>7, <3>1
    <3>3. Exists(f)' /\ ~Exists(f + NumFuncs)' => fns'[f].code = <<>>
      BY <2>3, <2>4, <2>6, <2>7, <3>1
    <3>4. ~Exists(f + 2 * NumFuncs)'
      BY <2>4, <2>6, <3>1
    <3>5. Exists(f + NumFuncs) => fns'[f + NumFuncs].prefix = IF Past(f)' THEN "" ELSE "argrec_"
      BY <1>4, <2>3, <2>6, <3>1
    <3>6. ASSUME Exists(f + NumFuncs), merged PROVE ReadsCovered(fns[f + NumFuncs].code, fns[f + NumFuncs].params)'
      <4>1. ReadsCovered(fns'[f + NumFuncs].code, fns[f + NumFuncs].params)
        BY <2>3, <2>6, <3>1, <3>6
      <4>2. fns'[f + NumFuncs].params = fns[f + NumFuncs].params
        BY <2>7, <3>6
      <4>3. ReadsCovered(fns'[f + NumFuncs].code, fns'[f + NumFuncs].params)
        BY <4>1, <4>2
      <4>. QED
        BY <1>1, <4>3 DEF ReadsCovered
    <3>7. Exists(f + NumFuncs) => IsRegs(fns'[f + NumFuncs].params)
      BY <1>1, <2>7 DEF Replacing
    <3>. QED
      BY <1>1, <2>7, <2>8, <3>2, <3>3, <3>4, <3>5, <3>6, <3>7
  <2>10. Replacing'
    BY <2>9 DEF Replacing
  <2>. QED
    BY <1>4, <2>5, <2>10 DEF PassesInv
<1>. QED
  BY <1>7, <1>8

-----------------------------------------------------------------------------
(***************************************************************************)
(* The stack recovery                                                      *)
(***************************************************************************)
\* The optimiser leaves no call of undef.
LEMMA PromotedCode ==
    ASSUME NEW code, IsCode(code)
    PROVE  /\ IsCode(Promoted(code))
           /\ \A call \in CallsIn(Promoted(code)) : call \in CallsIn(code) /\ call.to # Undef
<1>. DEFINE keep == {i \in DOMAIN code : code[i].op \in {"slot", "br", "ret"}
                                         \/ (code[i].op = "call" /\ code[i].to # Undef)}
<1>1. code \in Seq(Range(code)) /\ keep \in SUBSET DOMAIN code
  BY DEF IsCode
<1>2. PICK new : new = Promoted(code)
  OBVIOUS
<1>3. new = Selected(code, keep)
  BY <1>2 DEF Promoted
<1>4. \A i \in keep : code[i].op = "call" => code[i] \in CallsIn(code) /\ code[i].to # Undef
  BY DEF CallsIn
<1>. HIDE DEF keep
<1>5. new \in Seq(Range(code)) /\ Range(new) = {code[i] : i \in keep}
  BY <1>1, <1>3, SelectedElements
<1>6. new \in Seq(Range(new))
  <2>. DEFINE n == Len(new)
  <2>1. n \in Nat /\ new = [i \in 1 .. n |-> new[i]]
    BY <1>5
  <2>. HIDE DEF n
  <2>. QED
    BY <2>1, IsSequence
<1>7. ASSUME NEW call \in CallsIn(new) PROVE call \in CallsIn(code) /\ call.to # Undef
  <2>1. call \in Range(new) /\ call.op = "call"
    BY DEF CallsIn, Range
  <2>2. PICK i \in keep : call = code[i]
    BY <1>5, <2>1
  <2>. QED
    BY <1>4, <2>1, <2>2
<1>8. SlotsOK(new)
  <2>1. \A i \in keep : code[i].op = "slot" => code[i].idx \in Int
    BY <1>1 DEF IsCode, SlotsOK
  <2>2. \A i \in DOMAIN new : new[i] \in Range(new)
    BY DEF Range
  <2>. QED
    BY <1>5, <2>1, <2>2 DEF SlotsOK
<1>. QED
  BY <1>2, <1>6, <1>7, <1>8 DEF IsCode

\* The optimiser runs between the passes: the calls that Replace turned into calls of undef go, and the others have
\* a function.
LEMMA OptimizeInv ==
    ASSUME PassesInv, Optimize
    PROVE  PassesInv'
<1>1. /\ stage = "optimize" /\ stage' = "objects" /\ conv' = conv /\ k' = k /\ ModuleOK /\ Replacing
      /\ fns' = [v \in Values |-> IF v \in Recovered THEN [fns[v] EXCEPT !.code = Promoted(fns[v].code)] ELSE fns[v]]
  BY DEF Optimize, PassesInv
<1>2. DOMAIN fns' = Values
  BY <1>1
<1>3. \A f \in Funcs : /\ f \in Values /\ f + NumFuncs \in Values /\ f + 2 * NumFuncs \in Values
                       /\ f \notin Recovered /\ f + 2 * NumFuncs \notin Recovered
                       /\ f + NumFuncs \in Recovered <=> Exists(f + NumFuncs)
  <2>1. \A f \in Funcs : /\ f \notin (NumFuncs + 1)..(2 * NumFuncs) /\ f + 2 * NumFuncs \notin (NumFuncs + 1)..(2 * NumFuncs)
                         /\ f + NumFuncs \in (NumFuncs + 1)..(2 * NumFuncs)
    BY Numbers DEF Funcs
  <2>. QED
    BY <2>1, Numbers DEF Recovered
<1>4. ASSUME NEW v \in Values, v \in Recovered
      PROVE  /\ Exists(v) /\ FunctionShape(fns'[v]) /\ fns'[v] # Gone
             /\ \A call \in CallsIn(fns'[v].code) : call \in CallsIn(fns[v].code) /\ call.to # Undef
  <2>1. Exists(v) /\ FunctionShape(fns[v])
    BY <1>1, <1>4 DEF Recovered, ModuleOK
  <2>2. PICK code : code = Promoted(fns[v].code)
    OBVIOUS
  <2>3. IsCode(code) /\ \A call \in CallsIn(code) : call \in CallsIn(fns[v].code) /\ call.to # Undef
    BY <2>1, <2>2, PromotedCode DEF FunctionShape
  <2>4. fns'[v] = [fns[v] EXCEPT !.code = code]
    BY <1>1, <1>4, <2>2
  <2>5. LET new == [fns[v] EXCEPT !.code = code] IN FunctionShape(new) /\ new # Gone /\ new.code = code
    BY <2>1, <2>3, BodyReplaced
  <2>. QED
    BY <2>1, <2>3, <2>4, <2>5
<1>5. \A v \in Values : v \notin Recovered => fns'[v] = fns[v]
  BY <1>1
<1>6. \A v \in Values : (Exists(v)' <=> Exists(v)) /\ (Exists(v)' => FunctionShape(fns'[v]))
  BY <1>1, <1>4, <1>5 DEF Exists, ModuleOK
<1>7. ModuleOK'
  BY <1>1, <1>2, <1>6 DEF ModuleOK, Stages
<1>8. \A f \in Funcs : /\ Exists(f) <=> ~Exists(f + NumFuncs)
                       /\ Exists(f) => fns[f].code = <<>>
                       /\ ~Exists(f + 2 * NumFuncs)
  BY <1>1 DEF Replacing, Past
<1>9. ASSUME NEW v \in Values, Exists(v)', NEW call \in CallsIn(fns'[v].code)
      PROVE  call.to \in Values /\ Exists(call.to)
  <2>1. CASE v \in Funcs
    <3>1. fns'[v].code = <<>>
      BY <1>3, <1>5, <1>6, <1>8, <1>9, <2>1
    <3>. QED
      BY <1>9, <3>1 DEF CallsIn
  <2>2. ASSUME NEW f \in Funcs, v = f + NumFuncs PROVE call.to \in Values /\ Exists(call.to)
    <3>1. v \in Recovered
      BY <1>3, <1>6, <1>9, <2>2
    <3>2. call \in CallsIn(fns[v].code) /\ call.to # Undef /\ Exists(v)
      BY <1>4, <1>9, <3>1
    <3>3. call.callee \in Funcs
      BY <1>1, <3>2 DEF ModuleOK, FunctionShape, IsCode, CallShape
    <3>4. Followed(f, call)
      BY <1>1, <2>2, <3>2 DEF Replacing
    <3>5. IF Exists(call.callee + NumFuncs) THEN call.to = call.callee + NumFuncs ELSE call.to = call.callee
      BY <1>1, <3>2, <3>4 DEF Followed, Past
    <3>. QED
      BY <1>3, <1>8, <3>3, <3>5
  <2>3. ASSUME NEW f \in Funcs, v = f + 2 * NumFuncs PROVE FALSE
    BY <1>6, <1>8, <1>9, <2>3
  <2>. QED
    BY <2>1, <2>2, <2>3, Numbers
<1>10. \A f \in Funcs : ~Exists(f + 2 * NumFuncs)'
  BY <1>3, <1>6, <1>8
<1>11. Stacking'
  <2>1. \A v \in Values : Exists(v)' => \A call \in CallsIn(fns'[v].code) : call.to \in Values /\ Exists(call.to)'
    BY <1>6, <1>9
  <2>. QED
    BY <1>10, <2>1 DEF Stacking
<1>. QED
  BY <1>1, <1>7, <1>11 DEF PassesInv

\* A function's objects are found: no function changes.
LEMMA PromoteInv ==
    ASSUME PassesInv, PromoteStackObjsToVars
    PROVE  PassesInv'
<1>1. /\ stage = "objects" /\ conv' = conv /\ fns' = fns /\ ModuleOK /\ Stacking /\ k \in Funcs
      /\ Advance("objects", "calls")
  BY DEF PromoteStackObjsToVars, PassesInv, ModuleOK
<1>2. k' \in Funcs /\ stage' \in {"objects", "calls"}
  BY <1>1, Advances
<1>3. \A v : Exists(v)' = Exists(v)
  BY <1>1 DEF Exists
<1>4. ModuleOK'
  BY <1>1, <1>2, <1>3 DEF ModuleOK, Stages
<1>5. Stacking'
  BY <1>1, <1>3 DEF Stacking
<1>. QED
  BY <1>2, <1>4, <1>5 DEF PassesInv

\* The call is the one at i in the function at w, with the arguments that LoadStackParamsToCall gives to calls of f.
FromCall(call, w, i, f) ==
    LET was == fns[w].code[i]
    IN  /\ was \in CallsIn(fns[w].code) /\ was.op = "call"
        /\ call.callee = was.callee /\ call.to = was.to /\ call.same = was.same
        /\ call.args = IF was.to = f THEN NewCallOf(w, i).args ELSE was.args

\* The calls in code are those in the function at w.
FromCalls(code, w, f) == \A call \in CallsIn(code) : \E i \in DOMAIN fns[w].code : FromCall(call, w, i, f)

\* LoadStackParamsToCall only changes the arguments of the calls it is for.
LEMMA NewCallsKeep ==
    ASSUME ModuleOK, NEW f, NEW v \in Values, Exists(v), NEW new, new = WithNewCalls(CallersOf(f))[v]
    PROVE  FunctionShape(new) /\ new # Gone /\ new.params = fns[v].params /\ FromCalls(new.code, v, f)
<1>. DEFINE old == fns[v].code
            code == [i \in DOMAIN old |-> IF <<v, i>> \in CallersOf(f) THEN NewCallOf(v, i) ELSE old[i]]
<1>1. FunctionShape(fns[v]) /\ IsCode(old)
  BY DEF ModuleOK, FunctionShape
<1>2. new = [fns[v] EXCEPT !.code = code]
  BY DEF WithNewCalls
<1>3. \A i \in DOMAIN old : <<v, i>> \in CallersOf(f) <=> old[i].op = "call" /\ old[i].to = f
  BY DEF CallersOf
<1>4. \A i \in DOMAIN old : old[i].op = "call" => CallShape(old[i])
  BY <1>1 DEF IsCode, CallsIn
<1>5. ASSUME NEW i \in DOMAIN old, old[i].op = "call"
      PROVE  LET call == NewCallOf(v, i) IN
             CallShape(call) /\ call.callee = old[i].callee /\ call.to = old[i].to /\ call.same = old[i].same
  <2>1. PICK args : NewCallOf(v, i) = [old[i] EXCEPT !.args = args]
    BY DEF NewCallOf, LoadStackParamsToCall
  <2>2. CallShape(old[i])
    BY <1>4, <1>5
  <2>. HIDE DEF old
  <2>. QED
    BY <2>1, <2>2 DEF CallShape
<1>6. /\ code = [i \in DOMAIN old |-> code[i]]
      /\ \A i \in DOMAIN old : code[i] = IF <<v, i>> \in CallersOf(f) THEN NewCallOf(v, i) ELSE old[i]
  OBVIOUS
<1>. HIDE DEF code, old
<1>7. OnlyCallsDiffer(old, code)
  <2>1. ASSUME NEW i \in DOMAIN old PROVE IF old[i].op = "call" THEN CallShape(code[i]) ELSE code[i] = old[i]
    BY <1>3, <1>4, <1>5, <1>6
  <2>. QED
    BY <1>6, <2>1 DEF OnlyCallsDiffer
<1>8. IsCode(code) /\ \A call \in CallsIn(code) : \E i \in DOMAIN old : call = code[i] /\ old[i] \in CallsIn(old)
  BY <1>1, <1>7, CallsRewritten
<1>9. FromCalls(code, v, f)
  <2>. SUFFICES ASSUME NEW call \in CallsIn(code)
                PROVE  \E i \in DOMAIN old : FromCall(call, v, i, f)
    BY DEF FromCalls, old
  <2>1. PICK i \in DOMAIN old : call = code[i] /\ old[i] \in CallsIn(old)
    BY <1>8
  <2>2. old[i].op = "call"
    BY <1>1, <2>1 DEF IsCode, CallShape
  <2>3. /\ call.callee = old[i].callee /\ call.to = old[i].to /\ call.same = old[i].same
        /\ call.args = IF old[i].to = f THEN NewCallOf(v, i).args ELSE old[i].args
    BY <1>3, <1>5, <1>6, <2>1, <2>2
  <2>. QED
    BY <2>1, <2>2, <2>3 DEF FromCall, old
<1>10. LET fn == [fns[v] EXCEPT !.code = code] IN
       FunctionShape(fn) /\ fn # Gone /\ fn.code = code /\ fn.params = fns[v].params
  BY <1>1, <1>8, BodyReplaced
<1>. QED
  BY <1>2, <1>9, <1>10

\* What is in the module after one function has been rewritten.
ClonedTo(s, t, params, v, new) ==
    /\ v # t => (new = Gone <=> ~Exists(v))
    /\ v = t => new # Gone
    /\ new # Gone =>
         /\ FunctionShape(new) /\ new.params = IF v = t THEN params ELSE fns[v].params
         /\ FromCalls(new.code, IF v = t THEN s ELSE v, s)

\* WithClone puts a copy of the old function, with its new calls, at the new value.
LEMMA ClonedFunctions ==
    ASSUME ModuleOK, Source \in Values, Exists(Source), NEW types, NEW v \in Values,
           NEW new, new = WithClone(WithNewCalls(CallersOf(Source)), types)[v]
    PROVE  ClonedTo(Source, Target, NewParams(RegParams(Source), types), v, new)
<1>. DEFINE module == WithNewCalls(CallersOf(Source))
<1>1. DOMAIN module = Values /\ \A u \in Values : ~Exists(u) => module[u] = Gone
  BY DEF WithNewCalls
<1>2. \A u \in Values : Exists(u) =>
        FunctionShape(module[u]) /\ module[u] # Gone /\ module[u].params = fns[u].params
        /\ FromCalls(module[u].code, u, Source)
  BY NewCallsKeep
<1>. DEFINE params == NewParams(RegParams(Source), types)
<1>3. new = [module EXCEPT ![Target] = [module[Source] EXCEPT !.prefix = "stackrec_", !.params = params]][v]
  BY DEF WithClone
<1>. HIDE DEF module, params
<1>4. CASE v # Target
  <2>1. new = module[v]
    BY <1>1, <1>3, <1>4
  <2>2. ClonedTo(Source, Target, params, v, new)
    BY <1>1, <1>2, <1>4, <2>1 DEF ClonedTo
  <2>. QED
    BY <2>2 DEF params
<1>5. CASE v = Target
  <2>. DEFINE old == module[Source]
  <2>1. new = [old EXCEPT !.prefix = "stackrec_", !.params = params]
    BY <1>1, <1>3, <1>5
  <2>2. FunctionShape(old) /\ FromCalls(old.code, Source, Source)
    BY <1>2
  <2>. HIDE DEF old
  <2>3. {"prefix", "params", "ret", "locals", "code"} \subseteq DOMAIN old
    BY <2>2 DEF FunctionShape
  <2>4. DOMAIN new = DOMAIN old /\ new.prefix = "stackrec_" /\ new.code = old.code /\ new.params = params
    BY <2>1, <2>3
  <2>5. new.prefix # None
    BY <2>4 DEF None
  <2>6. FunctionShape(new) /\ new # Gone
    BY <2>2, <2>4, <2>5 DEF FunctionShape, Gone
  <2>7. ClonedTo(Source, Target, params, v, new)
    BY <1>5, <2>2, <2>4, <2>6 DEF ClonedTo
  <2>. QED
    BY <2>7 DEF params
<1>. QED
  BY <1>4, <1>5

\* The calls in the functions that there are, and the second replacements: what Stacking says of one call.
Lands(to) ==
    /\ to \in Values /\ Exists(to)
    /\ \A f \in Funcs : Exists(f + 2 * NumFuncs) => to # f + NumFuncs

\* Stacking is Lands for the callee of every call.
LEMMA StackingLands ==
    Stacking <=> \A v \in Values : Exists(v) => \A call \in CallsIn(fns[v].code) : Lands(call.to)
BY DEF Stacking, Lands

\* A call after RecoverCalls: the one at i in the function at w, a call of the new function if it was one of the old.
MadeFrom(call, w, i, s, t) ==
    LET was == fns[w].code[i]
    IN  /\ was \in CallsIn(fns[w].code) /\ was.op = "call"
        /\ call.to = (IF was.to = s THEN t ELSE was.to) /\ call.same = was.same
        /\ call.args = IF was.to = s THEN NewCallOf(w, i).args ELSE was.args

\* The functions after RecoverCalls.
RecoveredAs(s, t, params, v, new) ==
    /\ new # Gone <=> Exists(v) \/ v = t
    /\ new # Gone =>
         /\ FunctionShape(new) /\ new.params = IF v = t THEN params ELSE fns[v].params
         /\ \E w \in Values : Exists(w) /\ \A call \in CallsIn(new.code) :
              \E i \in DOMAIN fns[w].code : MadeFrom(call, w, i, s, t)

\* RecoverCalls for a function that is rewritten.
LEMMA CallsMade ==
    ASSUME ModuleOK, NEW n \in Funcs, n = k, Exists(Source), NEW types, NEW v \in Values,
           fns' = SetCalledFunction(Source, Target, WithClone(WithNewCalls(CallersOf(Source)), types))
    PROVE  RecoveredAs(n + NumFuncs, n + 2 * NumFuncs, NewParams(RegParams(Source), types), v, fns'[v])
<1>. DEFINE s == n + NumFuncs
            t == n + 2 * NumFuncs
            params == NewParams(RegParams(Source), types)
            mid == WithClone(WithNewCalls(CallersOf(Source)), types)[v]
            w == IF v = t THEN s ELSE v
<1>1. s = Source /\ t = Target /\ s \in Values /\ t \in Values /\ s # t
  BY Numbers DEF Source, Target
<1>2. fns'[v] = Retarget(mid, s, t)
  BY <1>1 DEF SetCalledFunction
<1>3. ClonedTo(s, t, params, v, mid)
  BY <1>1, ClonedFunctions
<1>4. Exists(s)
  BY <1>1
<1>. HIDE DEF s, t, params, mid
<1>5. CASE mid = Gone
  <2>1. fns'[v] = Gone
    BY <1>2, <1>5 DEF Retarget
  <2>2. ~(Exists(v) \/ v = t)
    BY <1>3, <1>5 DEF ClonedTo
  <2>3. RecoveredAs(s, t, params, v, fns'[v])
    BY <2>1, <2>2 DEF RecoveredAs
  <2>. QED
    BY <2>3 DEF s, t, params
<1>6. CASE mid # Gone
  <2>1. FunctionShape(mid) /\ (Exists(v) \/ v = t) /\ FromCalls(mid.code, w, s)
        /\ mid.params = IF v = t THEN params ELSE fns[v].params
    BY <1>3, <1>6 DEF ClonedTo
  <2>2. LET new == Retarget(mid, s, t) IN
        /\ FunctionShape(new) /\ new # Gone /\ new.params = mid.params
        /\ \A call \in CallsIn(new.code) : \E old \in CallsIn(mid.code) :
             /\ call.callee = old.callee /\ call.args = old.args /\ call.same = old.same
             /\ call.to = IF old.to = s THEN t ELSE old.to
    BY <2>1, RetargetKeeps
  <2>3. w \in Values /\ Exists(w)
    BY <1>1, <1>4, <2>1
  <2>4. ASSUME NEW call \in CallsIn(fns'[v].code) PROVE \E i \in DOMAIN fns[w].code : MadeFrom(call, w, i, s, t)
    <3>1. PICK old \in CallsIn(mid.code) :
            call.args = old.args /\ call.same = old.same /\ call.to = IF old.to = s THEN t ELSE old.to
      BY <1>2, <2>2
    <3>2. PICK i \in DOMAIN fns[w].code : FromCall(old, w, i, s)
      BY <2>1 DEF FromCalls
    <3>. HIDE DEF w
    <3>3. MadeFrom(call, w, i, s, t)
      BY <3>1, <3>2 DEF FromCall, MadeFrom
    <3>. QED
      BY <3>3
  <2>5. RecoveredAs(s, t, params, v, fns'[v])
    BY <1>2, <2>1, <2>2, <2>3, <2>4 DEF RecoveredAs
  <2>. QED
    BY <2>5 DEF s, t, params
<1>. QED
  BY <1>5, <1>6

\* Afterwards the old function is not called any more.
LEMMA CallsInv ==
    ASSUME ModuleOK, Stacking, NEW n \in Funcs, n = k, Exists(Source), NEW types,
           fns' = SetCalledFunction(Source, Target, WithClone(WithNewCalls(CallersOf(Source)), types))
    PROVE  /\ DOMAIN fns' = Values /\ \A v \in Values : Exists(v)' => FunctionShape(fns'[v])
           /\ Stacking'
<1>. DEFINE s == n + NumFuncs
            t == n + 2 * NumFuncs
<1>1. s = Source /\ t = Target /\ s \in Values /\ t \in Values /\ s # t
  BY Numbers DEF Source, Target
<1>2. DOMAIN fns' = Values
  BY DEF SetCalledFunction
<1>3. PICK params : \A v \in Values : RecoveredAs(s, t, params, v, fns'[v])
  BY CallsMade
<1>4. /\ \A f \in Funcs : f + NumFuncs # t /\ (f + 2 * NumFuncs = t => f = n) /\ (f + NumFuncs = s => f = n)
      /\ \A f \in Funcs : f + 2 * NumFuncs \in Values
  BY Numbers
<1>. HIDE DEF s, t
<1>6. ASSUME NEW v \in Values
      PROVE  /\ Exists(v)' <=> Exists(v) \/ v = t
             /\ Exists(v)' => FunctionShape(fns'[v])
             /\ Exists(v)' => \E w \in Values : /\ Exists(w)
                                                /\ \A call \in CallsIn(fns'[v].code) : \E was \in CallsIn(fns[w].code) :
                                                      call.to = IF was.to = s THEN t ELSE was.to
  <2>1. RecoveredAs(s, t, params, v, fns'[v]) /\ Exists(v)' = (fns'[v] # Gone)
    BY <1>3 DEF Exists
  <2>. QED
    BY <2>1 DEF RecoveredAs, MadeFrom
<1>7. ASSUME NEW v \in Values, Exists(v)', NEW call \in CallsIn(fns'[v].code)
      PROVE  Lands(call.to)'
  <2>1. PICK w \in Values : Exists(w) /\ \E was \in CallsIn(fns[w].code) : call.to = IF was.to = s THEN t ELSE was.to
    BY <1>6, <1>7
  <2>2. PICK was \in CallsIn(fns[w].code) : call.to = IF was.to = s THEN t ELSE was.to
    BY <2>1
  <2>3. Lands(was.to)
    BY <2>1, StackingLands
  <2>4. CASE was.to = s
    <3>1. call.to = t /\ Exists(t)'
      BY <1>1, <1>6, <2>2, <2>4
    <3>. QED
      BY <1>1, <1>4, <3>1 DEF Lands
  <2>5. CASE was.to # s
    <3>1. call.to = was.to /\ call.to \in Values /\ Exists(call.to)'
      BY <1>6, <2>2, <2>3, <2>5 DEF Lands
    <3>2. ASSUME NEW f \in Funcs, Exists(f + 2 * NumFuncs)' PROVE call.to # f + NumFuncs
      <4>1. Exists(f + 2 * NumFuncs) \/ f = n
        BY <1>4, <1>6, <3>2
      <4>2. f = n => call.to # f + NumFuncs
        BY <2>5, <3>1 DEF s
      <4>. QED
        BY <2>3, <3>1, <4>1, <4>2 DEF Lands
    <3>. QED
      BY <3>1, <3>2 DEF Lands
  <2>. QED
    BY <2>4, <2>5
<1>8. Stacking'
  BY <1>7 DEF Stacking, Lands
<1>. QED
  BY <1>2, <1>6, <1>8

\* The second loop finds the functions that the first one recorded.
LEMMA OldSource ==
    ASSUME OldInv, k \in Funcs, stage = "calls", Source \in old_funcs
    PROVE  Exists(Source)
BY DEF OldInv, Source

\* The last loop finds the functions that the second one has made for them.
LEMMA OldTarget ==
    ASSUME OldInv, k \in Funcs, stage = "names", Source \in old_funcs
    PROVE  Exists(Target)
BY DEF OldInv, Source, Target

\* The second loop of the stack recovery, for one function.
LEMMA RecoverCallsInv ==
    ASSUME PassesInv, OldInv, RecoverCalls
    PROVE  PassesInv'
<1>1. /\ stage = "calls" /\ conv' = conv /\ ModuleOK /\ Stacking /\ k \in Funcs
  BY DEF RecoverCalls, PassesInv, ModuleOK
<1>2. CASE fns' = fns /\ k' = k /\ stage' \in {"fatal", "undefined"}
  <2>1. \A v : Exists(v)' = Exists(v)
    BY <1>2 DEF Exists
  <2>2. ModuleOK'
    BY <1>1, <1>2, <2>1 DEF ModuleOK, Stages
  <2>. QED
    BY <1>2, <2>2 DEF PassesInv
<1>3. CASE fns' = fns /\ Advance("calls", "names")
  <2>1. k' \in Funcs /\ stage' \in {"calls", "names"}
    BY <1>1, <1>3, Advances
  <2>2. \A v : Exists(v)' = Exists(v)
    BY <1>3 DEF Exists
  <2>3. ModuleOK'
    BY <1>1, <1>3, <2>1, <2>2 DEF ModuleOK, Stages
  <2>4. Stacking'
    BY <1>1, <1>3, <2>2 DEF Stacking
  <2>. QED
    BY <2>1, <2>3, <2>4 DEF PassesInv
<1>4. ASSUME Source \in old_funcs, NEW types, Advance("calls", "names"),
             fns' = SetCalledFunction(Source, Target, WithClone(WithNewCalls(CallersOf(Source)), types))
      PROVE  PassesInv'
  <2>1. k' \in Funcs /\ stage' \in {"calls", "names"}
    BY <1>1, <1>4, Advances
  <2>2. Exists(Source)
    BY <1>1, <1>4, OldSource
  <2>3. PICK n \in Funcs : n = k
    BY <1>1
  <2>4. /\ DOMAIN fns' = Values /\ \A v \in Values : Exists(v)' => FunctionShape(fns'[v])
        /\ Stacking'
    BY <1>1, <1>4, <2>2, <2>3, CallsInv
  <2>5. ModuleOK'
    BY <1>1, <2>1, <2>4 DEF ModuleOK, Stages
  <2>. QED
    BY <2>1, <2>4, <2>5 DEF PassesInv
<1>. QED
  BY <1>2, <1>3, <1>4 DEF RecoverCalls

\* TakeNames for a function that has been rewritten: no call changes, since none is of the function that goes.
LEMMA NamesTaken ==
    ASSUME ModuleOK, Stacking, NEW n \in Funcs, n = k, Exists(Target), fns' = TakeNameAndErase(Source, Target, fns),
           NEW v \in Values
    PROVE  /\ Exists(v)' <=> Exists(v) /\ v # n + NumFuncs
           /\ Exists(v)' =>
                /\ FunctionShape(fns'[v]) /\ fns'[v].params = fns[v].params
                /\ \A call \in CallsIn(fns'[v].code) : \E was \in CallsIn(fns[v].code) :
                     call.to = was.to /\ call.args = was.args /\ call.same = was.same
<1>. DEFINE s == n + NumFuncs
            t == n + 2 * NumFuncs
            lost == Retarget(fns[v], s, Undef)
<1>1. s = Source /\ t = Target /\ s \in Values /\ t \in Values /\ s # t
  BY Numbers DEF Source, Target
<1>2. fns' = TakeNameAndErase(s, t, fns) /\ Exists(t)
  BY <1>1
<1>3. Exists(v) => \A call \in CallsIn(fns[v].code) : call.to # s
  BY <1>2 DEF Stacking
<1>4. CASE v = s
  <2>1. fns'[v] = Gone
    BY <1>1, <1>2, <1>4 DEF TakeNameAndErase
  <2>. QED
    BY <1>4, <2>1 DEF Exists
<1>. SUFFICES ASSUME v # s
              PROVE  /\ Exists(v)' <=> Exists(v)
                     /\ Exists(v)' =>
                          /\ FunctionShape(fns'[v]) /\ fns'[v].params = fns[v].params
                          /\ \A call \in CallsIn(fns'[v].code) : \E was \in CallsIn(fns[v].code) :
                               call.to = was.to /\ call.args = was.args /\ call.same = was.same
  BY <1>4
<1>. HIDE DEF s, t
<1>5. CASE ~Exists(v)
  <2>1. v # t /\ lost = Gone
    BY <1>2, <1>5 DEF Exists, Retarget
  <2>2. fns'[v] = lost
    BY <1>2, <2>1 DEF TakeNameAndErase
  <2>. QED
    BY <1>5, <2>1, <2>2 DEF Exists
<1>6. CASE Exists(v)
  <2>1. FunctionShape(fns[v])
    BY <1>6 DEF ModuleOK
  <2>2. /\ FunctionShape(lost) /\ lost # Gone /\ lost.params = fns[v].params
        /\ \A call \in CallsIn(lost.code) : \E old \in CallsIn(fns[v].code) :
             /\ call.callee = old.callee /\ call.args = old.args /\ call.same = old.same
             /\ call.to = IF old.to = s THEN Undef ELSE old.to
    BY <2>1, RetargetKeeps
  <2>3. \A call \in CallsIn(lost.code) : \E was \in CallsIn(fns[v].code) :
          call.to = was.to /\ call.args = was.args /\ call.same = was.same
    BY <1>3, <1>6, <2>2
  <2>4. fns'[v] = IF v = t THEN [lost EXCEPT !.prefix = ""] ELSE lost
    BY <1>1, <1>2, <1>6 DEF TakeNameAndErase
  <2>. HIDE DEF lost
  <2>5. LET new == [lost EXCEPT !.prefix = ""] IN
        FunctionShape(new) /\ new # Gone /\ new.code = lost.code /\ new.params = lost.params
    <3>. DEFINE new == [lost EXCEPT !.prefix = ""]
    <3>1. {"prefix", "params", "ret", "locals", "code"} \subseteq DOMAIN lost
      BY <2>2 DEF FunctionShape
    <3>2. DOMAIN new = DOMAIN lost /\ new.prefix = "" /\ new.code = lost.code /\ new.params = lost.params
      BY <3>1
    <3>. HIDE DEF new
    <3>3. new.prefix # None
      BY <3>2 DEF None
    <3>4. FunctionShape(new)
      BY <2>2, <3>1, <3>2, <3>3 DEF FunctionShape
    <3>5. new # Gone
      BY <3>3 DEF Gone
    <3>. QED
      BY <3>2, <3>4, <3>5 DEF new
  <2>6. FunctionShape(fns'[v]) /\ fns'[v] # Gone /\ fns'[v].code = lost.code /\ fns'[v].params = fns[v].params
    BY <2>2, <2>4, <2>5
  <2>. QED
    BY <1>6, <2>3, <2>6 DEF Exists
<1>. QED
  BY <1>5, <1>6

\* The last loop: the function that goes has no calls left, so that none becomes a call of undef.
LEMMA TakeNamesInv ==
    ASSUME PassesInv, OldInv, TakeNames
    PROVE  PassesInv'
<1>1. /\ stage = "names" /\ conv' = conv /\ ModuleOK /\ Stacking /\ k \in Funcs /\ Advance("names", "done")
      /\ fns' = IF Source \in old_funcs THEN TakeNameAndErase(Source, Target, fns) ELSE fns
  BY DEF TakeNames, PassesInv, ModuleOK
<1>2. k' \in Funcs /\ stage' \in {"names", "done"}
  BY <1>1, Advances
<1>3. CASE Source \notin old_funcs
  <2>1. fns' = fns /\ \A v : Exists(v)' = Exists(v)
    BY <1>1, <1>3 DEF Exists
  <2>2. ModuleOK'
    BY <1>1, <1>2, <2>1 DEF ModuleOK, Stages
  <2>3. Stacking'
    BY <1>1, <2>1 DEF Stacking
  <2>. QED
    BY <1>2, <2>2, <2>3 DEF PassesInv
<1>4. CASE Source \in old_funcs
  <2>0. Exists(Target)
    BY <1>1, <1>4, OldTarget
  <2>1. PICK n \in Funcs : n = k
    BY <1>1
  <2>. DEFINE s == n + NumFuncs
              t == n + 2 * NumFuncs
  <2>2. s = Source /\ t = Target /\ s \in Values /\ t \in Values /\ s # t
    BY <2>1, Numbers DEF Source, Target
  <2>3. fns' = TakeNameAndErase(s, t, fns) /\ Exists(t)
    BY <1>1, <1>4, <2>0, <2>2
  <2>4. ASSUME NEW v \in Values, Exists(v), NEW call \in CallsIn(fns[v].code)
        PROVE  call.to # s
    BY <1>1, <2>3, <2>4 DEF Stacking
  <2>. HIDE DEF s, t
  <2>5. ASSUME NEW v \in Values
        PROVE  /\ Exists(v)' <=> Exists(v) /\ v # s
               /\ Exists(v)' => FunctionShape(fns'[v])
               /\ Exists(v)' => \A call \in CallsIn(fns'[v].code) : \E was \in CallsIn(fns[v].code) : call.to = was.to
    BY <1>1, <1>4, <2>0, <2>1, NamesTaken DEF s
  <2>6. DOMAIN fns' = Values
    BY <2>3 DEF TakeNameAndErase
  <2>7. ModuleOK'
    BY <1>1, <1>2, <2>5, <2>6 DEF ModuleOK, Stages
  <2>8. ASSUME NEW v \in Values, Exists(v)', NEW call \in CallsIn(fns'[v].code)
        PROVE  Lands(call.to)'
    <3>1. PICK was \in CallsIn(fns[v].code) : call.to = was.to
      BY <2>5, <2>8
    <3>2. Exists(v) /\ Lands(was.to) /\ was.to # s
      BY <1>1, <2>4, <2>5, <2>8, StackingLands
    <3>3. \A f \in Funcs : f + 2 * NumFuncs \in Values
      BY Numbers
    <3>. QED
      BY <2>5, <3>1, <3>2, <3>3 DEF Lands
  <2>9. Stacking'
    BY <2>8 DEF Stacking, Lands
  <2>. QED
    BY <1>2, <2>7, <2>9 DEF PassesInv
<1>. QED
  BY <1>3, <1>4

\* No step of either pass breaks the invariant.
LEMMA NextInv ==
    ASSUME PassesInv, OldInv, [Next]_vars
    PROVE  PassesInv'
<1>1. CASE Recover /\ UNCHANGED stack
  BY <1>1, RecoverInv
<1>2. CASE Clone /\ UNCHANGED stack
  BY <1>2, CloneInv
<1>3. CASE Replace /\ UNCHANGED stack
  BY <1>3, ReplaceInv
<1>4. CASE Optimize
  BY <1>4, OptimizeInv
<1>5. CASE PromoteStackObjsToVars
  BY <1>5, PromoteInv
<1>6. CASE RecoverCalls
  BY <1>6, RecoverCallsInv
<1>7. CASE TakeNames
  BY <1>7, TakeNamesInv
<1>8. CASE UNCHANGED vars
  <2>1. conv' = conv /\ merged' = merged /\ fns' = fns /\ stage' = stage /\ k' = k
    BY <1>8 DEF vars
  <2>2. \A v : Exists(v)' = Exists(v)
    BY <2>1 DEF Exists
  <2>3. ModuleOK'
    BY <2>1, <2>2 DEF PassesInv, ModuleOK
  <2>4. Declaring => Declaring'
    BY <2>1, <2>2 DEF Declaring, ReadsCovered
  <2>5. Replacing => Replacing'
    BY <2>1, <2>2 DEF Replacing, Past, Followed, ReadsCovered
  <2>6. Stacking => Stacking'
    BY <2>1, <2>2 DEF Stacking
  <2>. QED
    BY <2>1, <2>3, <2>4, <2>5, <2>6 DEF PassesInv
<1>. QED
  BY <1>1, <1>2, <1>3, <1>4, <1>5, <1>6, <1>7, <1>8 DEF Next, Finished

\* No step takes a recorded function away before the last loop, and the second loop leaves none out.
LEMMA NextOld ==
    ASSUME PassesInv, OldInv, [Next]_vars
    PROVE  OldInv'
<1>0. ModuleOK /\ k \in Funcs
  BY DEF PassesInv, ModuleOK
<1>1. CASE (Recover \/ Clone \/ Replace) /\ UNCHANGED stack
  <2>1. stage \in {"declare", "clone", "replace"} /\ stage' \in {"declare", "clone", "replace", "optimize", "fatal"}
    BY <1>1 DEF Recover, Clone, Replace, Advance
  <2>2. old_funcs' = {}
    BY <1>1, <2>1 DEF stack, OldInv
  <2>. QED
    BY <2>2 DEF OldInv
<1>2. CASE Optimize
  <2>1. stage' = "objects" /\ old_funcs' = {}
    BY <1>2 DEF Optimize, stack, OldInv
  <2>. QED
    BY <2>1 DEF OldInv
<1>3. CASE PromoteStackObjsToVars
  <2>1. /\ stage = "objects" /\ fns' = fns /\ Advance("objects", "calls")
        /\ old_funcs' = IF IsOldFunc(Source) THEN old_funcs \cup {Source} ELSE old_funcs
    BY <1>3 DEF PromoteStackObjsToVars
  <2>2. (stage' = "objects" /\ k' \in Funcs) \/ (stage' = "calls" /\ k' = 1)
    BY <1>0, <2>1, Advances DEF Advance
  <2>3. \A f \in Funcs : f + NumFuncs \in old_funcs' => Exists(f + NumFuncs)
    BY <2>1 DEF OldInv, IsOldFunc, HasStackPointerArg
  <2>4. \A f \in Funcs : ~(f < 1)
    BY Numbers DEF Funcs
  <2>5. \A v : Exists(v)' = Exists(v)
    BY <2>1 DEF Exists
  <2>. QED
    BY <2>2, <2>3, <2>4, <2>5 DEF OldInv
<1>4. CASE RecoverCalls /\ stage' \in {"fatal", "undefined"}
  BY <1>4 DEF OldInv
<1>5. CASE RecoverCalls /\ stage' \notin {"fatal", "undefined"}
  <2>1. stage = "calls" /\ old_funcs' = old_funcs /\ Advance("calls", "names")
    BY <1>5 DEF RecoverCalls, stack
  <2>2. \/ Source \notin old_funcs /\ fns' = fns
        \/ /\ Source \in old_funcs
           /\ \E types : fns' = SetCalledFunction(Source, Target, WithClone(WithNewCalls(CallersOf(Source)), types))
    BY <1>5 DEF RecoverCalls
  <2>3. PICK n \in Funcs : n = k
    BY <1>0
  <2>4. (stage' = "names" /\ n = NumFuncs) \/ (stage' = "calls" /\ k' = n + 1)
    BY <1>0, <2>1, <2>3, Numbers DEF Advance, Funcs
  <2>5. ASSUME NEW v \in Values PROVE Exists(v) => Exists(v)'
    <3>1. CASE fns' = fns
      BY <3>1 DEF Exists
    <3>2. ASSUME Source \in old_funcs, NEW types,
                 fns' = SetCalledFunction(Source, Target, WithClone(WithNewCalls(CallersOf(Source)), types))
          PROVE  Exists(v) => Exists(v)'
      <4>1. Exists(Source)
        BY <1>0, <2>1, <3>2, OldSource
      <4>2. RecoveredAs(n + NumFuncs, n + 2 * NumFuncs, NewParams(RegParams(Source), types), v, fns'[v])
        BY <1>0, <2>3, <3>2, <4>1, CallsMade
      <4>. QED
        BY <4>2 DEF RecoveredAs, Exists
    <3>. QED
      BY <2>2, <3>1, <3>2
  <2>6. ASSUME n + NumFuncs \in old_funcs PROVE Exists(n + 2 * NumFuncs)'
    <3>1. Source = n + NumFuncs /\ Target = n + 2 * NumFuncs /\ n + 2 * NumFuncs \in Values
      BY <2>3, Numbers DEF Source, Target
    <3>2. PICK types : fns' = SetCalledFunction(Source, Target, WithClone(WithNewCalls(CallersOf(Source)), types))
      BY <2>2, <2>6, <3>1
    <3>3. Exists(Source)
      BY <1>0, <2>1, <2>6, <3>1, OldSource
    <3>4. RecoveredAs(n + NumFuncs, n + 2 * NumFuncs, NewParams(RegParams(Source), types), n + 2 * NumFuncs,
                      fns'[n + 2 * NumFuncs])
      BY <1>0, <2>3, <3>1, <3>2, <3>3, CallsMade
    <3>. QED
      BY <3>4 DEF RecoveredAs, Exists
  <2>7. ASSUME NEW f \in Funcs, f + NumFuncs \in old_funcs
        PROVE  /\ Exists(f + NumFuncs)'
               /\ f <= n => Exists(f + 2 * NumFuncs)'
    <3>1. f + NumFuncs \in Values /\ f + 2 * NumFuncs \in Values /\ f \in Nat /\ n \in Nat
      BY Numbers
    <3>2. Exists(f + NumFuncs)'
      BY <2>1, <2>5, <2>7, <3>1 DEF OldInv
    <3>3. CASE f = n
      BY <2>6, <2>7, <3>2, <3>3
    <3>4. CASE f < n
      BY <2>1, <2>3, <2>5, <2>7, <3>1, <3>2, <3>4 DEF OldInv
    <3>5. CASE ~(f <= n)
      BY <3>2, <3>5
    <3>. QED
      BY <3>1, <3>3, <3>4, <3>5
  <2>8. \A f \in Funcs : f <= NumFuncs /\ (f < n + 1 => f <= n)
    BY Numbers DEF Funcs
  <2>. QED
    BY <2>1, <2>4, <2>7, <2>8 DEF OldInv
<1>6. CASE TakeNames
  <2>1. /\ stage = "names" /\ stage' \in {"names", "done"} /\ old_funcs' = old_funcs
        /\ fns' = IF Source \in old_funcs THEN TakeNameAndErase(Source, Target, fns) ELSE fns
    BY <1>6 DEF TakeNames, stack, Advance
  <2>2. PICK n \in Funcs : n = k
    BY <1>0
  <2>3. ASSUME NEW f \in Funcs, f + NumFuncs \in old_funcs PROVE Exists(f + 2 * NumFuncs)'
    <3>1. f + 2 * NumFuncs \in Values /\ f + 2 * NumFuncs # n + NumFuncs
      BY Numbers
    <3>2. Exists(f + 2 * NumFuncs)
      BY <2>1, <2>3 DEF OldInv
    <3>3. CASE Source \notin old_funcs
      BY <2>1, <3>2, <3>3 DEF Exists
    <3>4. CASE Source \in old_funcs
      <4>1. Exists(Target) /\ Stacking
        BY <1>0, <2>1, <3>4, OldTarget DEF PassesInv
      <4>. QED
        BY <1>0, <2>1, <2>2, <3>1, <3>2, <3>4, <4>1, NamesTaken
    <3>. QED
      BY <3>3, <3>4
  <2>. QED
    BY <2>1, <2>3 DEF OldInv
<1>7. CASE UNCHANGED vars
  <2>1. stage' = stage /\ k' = k /\ fns' = fns /\ old_funcs' = old_funcs
    BY <1>7 DEF vars, stack
  <2>2. \A v : Exists(v)' = Exists(v)
    BY <2>1 DEF Exists
  <2>. QED
    BY <2>1, <2>2 DEF OldInv
<1>. QED
  BY <1>1, <1>2, <1>3, <1>4, <1>5, <1>6, <1>7 DEF Next, Finished

\* Both invariants hold together: the loops of the stack recovery go over the functions that were recorded.
LEMMA RecordedInvariance == Spec => [](PassesInv /\ OldInv)
<1>1. InitBoth => PassesInv /\ OldInv
  <2>1. InitBoth => OldInv
    BY DEF InitBoth, Init, OldInv
  <2>. QED
    BY <2>1, InitInv
<1>2. PassesInv /\ OldInv /\ [Next]_vars => (PassesInv /\ OldInv)'
  BY NextInv, NextOld
<1>. QED
  BY <1>1, <1>2, PTL DEF Spec

-----------------------------------------------------------------------------
(***************************************************************************)
(* The theorems                                                            *)
(***************************************************************************)
\* In every state of the two passes (runOnModule of pass_argrec_remill.cpp and of pass_stackrec_remill.cpp) the
\* module is as PassesInv says: which of a function's three versions exist, what they are called, and where the calls
\* in each of them go to.
THEOREM PassesInvariance == Spec => []PassesInv
BY RecordedInvariance, PTL

\* After the second loop of RemillArgumentRecovery every call of a function that has been rewritten is a call of the
\* new function, or of undef if the call is in a function that lost its prefix before (UpdateCalls looks for the
\* prefix); it is never a call of another function.
THEOREM CallsTheorem == Spec => []BackwardCallsFollow
<1>1. PassesInv => BackwardCallsFollow
  <2>. SUFFICES ASSUME PassesInv, stage = "optimize", NEW v \in Recovered, NEW i \in DOMAIN fns[v].code,
                       fns[v].code[i].op = "call"
                PROVE  \/ fns[v].code[i].to = Undef /\ v < fns[v].code[i].callee + NumFuncs
                       \/ fns[v].code[i].to = fns[v].code[i].callee + NumFuncs /\ Exists(fns[v].code[i].to)
                       \/ fns[v].code[i].to = fns[v].code[i].callee /\ Exists(fns[v].code[i].to)
    BY DEF BackwardCallsFollow, ArgsRecovered
  <2>1. PICK f \in Funcs : v = f + NumFuncs
    <3>1. v - NumFuncs \in Funcs /\ v = (v - NumFuncs) + NumFuncs
      BY Numbers DEF Recovered, Funcs
    <3>. QED
      BY <3>1
  <2>2. Exists(v) /\ v \in Values /\ ModuleOK /\ Replacing
    BY <2>1, Numbers DEF Recovered, PassesInv
  <2>3. PICK call \in CallsIn(fns[v].code) : call = fns[v].code[i]
    BY DEF CallsIn
  <2>4. call.callee \in Funcs
    BY <2>2, <2>3 DEF ModuleOK, FunctionShape, IsCode, CallShape
  <2>5. Followed(f, call)
    BY <2>1, <2>2, <2>3 DEF Replacing
  <2>6. PICK c \in Funcs : c = call.callee
    BY <2>4
  <2>7. f < c => v < c + NumFuncs
    BY <2>1, Numbers
  <2>8. Exists(c) <=> ~Exists(c + NumFuncs)
    BY <2>2 DEF Replacing, Past
  <2>9. \/ call.to = Undef /\ f < c
        \/ call.to = c + NumFuncs /\ Exists(c + NumFuncs)
        \/ call.to = c /\ Exists(c)
    BY <2>5, <2>6, <2>8 DEF Followed, Past
  <2>. QED
    BY <2>3, <2>6, <2>7, <2>9
<1>. QED
  BY <1>1, PassesInvariance, PTL

\* Behind the argument recovery each function has a parameter for every register of the convention that it loads
\* before anything else accesses it, and each call between new functions passes exactly the parameters of its callee,
\* although DeclareParametrizedFunc and UpdateCalls run in two loops.
THEOREM ReadsTheorem == Spec => []ReadsArrive
<1>1. PassesInv => ReadsArrive
  <2>. SUFFICES ASSUME PassesInv, stage = "optimize", merged, NEW v \in Recovered
                PROVE  /\ ReadsCovered(fns[v].code, fns[v].params)
                       /\ \A i \in DOMAIN fns[v].code :
                            fns[v].code[i].op = "call" /\ fns[v].code[i].to \in Recovered
                              => fns[v].code[i].args = fns[fns[v].code[i].to].params
    BY DEF ReadsArrive, ArgsRecovered, ReadsCovered
  <2>1. PICK f \in Funcs : v = f + NumFuncs
    <3>1. v - NumFuncs \in Funcs /\ v = (v - NumFuncs) + NumFuncs
      BY Numbers DEF Recovered, Funcs
    <3>. QED
      BY <3>1
  <2>2. Exists(v) /\ v \in Values /\ ModuleOK /\ Replacing
    BY <2>1, Numbers DEF Recovered, PassesInv
  <2>3. ReadsCovered(fns[v].code, fns[v].params)
    BY <2>1, <2>2 DEF Replacing
  <2>4. ASSUME NEW i \in DOMAIN fns[v].code, fns[v].code[i].op = "call", fns[v].code[i].to \in Recovered
        PROVE  fns[v].code[i].args = fns[fns[v].code[i].to].params
    <3>1. PICK call \in CallsIn(fns[v].code) : call = fns[v].code[i]
      BY <2>4 DEF CallsIn
    <3>2. call.callee \in Funcs
      BY <2>2, <3>1 DEF ModuleOK, FunctionShape, IsCode, CallShape
    <3>3. Followed(f, call)
      BY <2>1, <2>2, <3>1 DEF Replacing
    <3>4. Undef \notin Recovered /\ call.callee \notin Recovered
      <4>1. \A c \in Funcs : c \notin (NumFuncs + 1)..(2 * NumFuncs)
        BY Numbers DEF Funcs
      <4>2. Undef \notin (NumFuncs + 1)..(2 * NumFuncs)
        BY Numbers DEF Undef
      <4>. QED
        BY <3>2, <4>1, <4>2 DEF Recovered
    <3>. QED
      BY <2>4, <3>1, <3>3, <3>4 DEF Followed
  <2>. QED
    BY <2>3, <2>4
<1>. QED
  BY <1>1, PassesInvariance, PTL

\* From the optimiser on, through all loops of the stack recovery, every call has a function: none is of undef, and
\* none of a function that a loop has erased.
THEOREM CalleesTheorem == Spec => []CalleesExist
<1>1. PassesInv => CalleesExist
  <2>. SUFFICES ASSUME PassesInv, stage \in {"objects", "calls", "names", "done"}, NEW v \in Values, Exists(v),
                       NEW i \in DOMAIN fns[v].code, fns[v].code[i].op = "call"
                PROVE  fns[v].code[i].to # Undef /\ Exists(fns[v].code[i].to)
    BY DEF CalleesExist
  <2>1. fns[v].code[i] \in CallsIn(fns[v].code)
    BY DEF CallsIn
  <2>. QED
    BY <2>1, Numbers DEF PassesInv, Stacking
<1>. QED
  BY <1>1, PassesInvariance, PTL

-----------------------------------------------------------------------------
(***************************************************************************)
(* The arguments on the stack.                                             *)
(*                                                                         *)
(* The second loop of StackRecovery: the arguments that it adds to calls   *)
(* and the parameters that it gives to functions agree.  The module is as  *)
(* PassesInv says.                                                         *)
(***************************************************************************)
\* The objects of a function are finitely many, at numbers.
ObjsOK ==
    /\ DOMAIN objs = Values
    /\ \A v \in Values : DOMAIN objs[v] \in SUBSET Int /\ IsFiniteSet(DOMAIN objs[v])

\* Arguments and parameters up to j that are on the stack are words.
Words(args, params, j) ==
    \A n \in 1..j : params[n].reg = "stack" => args[n].size = PointerSize /\ params[n].size = PointerSize

\* The arguments of a call are what the function expects.
Covers(args, params) ==
    /\ Len(params) <= Len(args)
    /\ \A j \in DOMAIN params : params[j].reg = args[j].reg /\ ~IsSP(args[j])
    /\ \A j \in DOMAIN args \cap DOMAIN params : Words(args, params, j) => args[j].off = params[j].off

\* What a call passes: the parameters of a function that the loop has not been at, or what its new version expects.
Passes(call) ==
    \A f \in Funcs :
        /\ call.to = f + NumFuncs => call.args = fns[f + NumFuncs].params
        /\ call.to = f + 2 * NumFuncs /\ call.same = {} => Covers(call.args, fns[f + 2 * NumFuncs].params)

\* The functions are rewritten in their order.
InOrder ==
    \A f \in Funcs : Exists(f + 2 * NumFuncs) => stage \in {"names", "done"} \/ (stage = "calls" /\ f < k)

Prototyped ==
    /\ InOrder
    /\ \A f \in Funcs : Exists(f + NumFuncs) => IsRegs(fns[f + NumFuncs].params)
    /\ \A v \in Values : Exists(v) => \A call \in CallsIn(fns[v].code) : Passes(call)

\* The invariant, beside PassesInv.
StackInv == ObjsOK /\ (stage \in {"objects", "calls", "names", "done"} => Prototyped)

-----------------------------------------------------------------------------
(***************************************************************************)
(* Arguments and parameters on the stack                                   *)
(***************************************************************************)
\* Adjacent: the variables up to there are as large as their distances.
LEMMA AdjacentFound ==
    ASSUME NEW v, NEW s, NEW m \in Nat \ {0}, Len(s) = m
    PROVE  /\ Adjacent(v, s) \in 1..m
           /\ \A j \in 2..Adjacent(v, s) : s[j] - s[j - 1] = objs[v][s[j]]
<1>. DEFINE Ends == {n \in 1..m : n = m \/ s[n + 1] - s[n] # objs[v][s[n + 1]]}
<1>1. Ends \in SUBSET Nat /\ m \in Ends
  OBVIOUS
<1>2. PICK n \in Ends : \A x \in Ends : n <= x
  <2>. HIDE DEF Ends
  <2>. QED
    BY <1>1, LeastNumber
<1>3. n \in 1..m /\ (n = m \/ s[n + 1] - s[n] # objs[v][s[n + 1]])
  BY <1>2
<1>4. ASSUME NEW j \in 2..n PROVE s[j] - s[j - 1] = objs[v][s[j]]
  <2>1. j - 1 \in 1..m /\ j - 1 # m /\ ~(n <= j - 1) /\ (j - 1) + 1 = j
    BY <1>3
  <2>2. j - 1 \notin Ends
    BY <1>2, <2>1
  <2>. QED
    BY <2>1, <2>2
<1>5. \E x \in 1..Len(s) :
        /\ \A j \in 2..x : s[j] - s[j - 1] = objs[v][s[j]]
        /\ x = Len(s) \/ s[x + 1] - s[x] # objs[v][s[x + 1]]
  BY <1>3, <1>4
<1>. QED
  BY <1>5 DEF Adjacent

\* Arguments on the stack: the offset of each counts its own size in.
IsStackArgs(args) ==
    /\ args \in Seq(Range(args))
    /\ \A m \in DOMAIN args :
          /\ args[m].reg = "stack" /\ args[m].off \in Int /\ args[m].size \in Int
          /\ args[m].off = (IF m = 1 THEN 0 ELSE args[m - 1].off) + args[m].size

\* FindStackParams finds such arguments above the top of the stack.
LEMMA FoundArgs ==
    ASSUME NEW v, NEW call, NEW found \in SUBSET Int, IsFiniteSet(found), found # {} => call.top \in found
    PROVE  IsStackArgs(FindStackParams(v, call, found))
<1>1. CASE found = {}
  <2>1. FindStackParams(v, call, found) = <<>>
    BY <1>1 DEF FindStackParams
  <2>2. <<>> \in Seq(Range(<<>>)) /\ DOMAIN <<>> = {}
    OBVIOUS
  <2>. QED
    BY <2>1, <2>2 DEF IsStackArgs
<1>2. CASE found # {}
  <2>. DEFINE top == call.top
              S == {idx \in found : idx >= top}
              sorted == Ascending(S)
              n == Cardinality(S)
              a == Adjacent(v, sorted)
              args == StackArgs(v, top, sorted)
  <2>1. FindStackParams(v, call, found) = args
    BY <1>2 DEF FindStackParams
  <2>2. top \in found /\ top \in Int
    BY <1>2
  <2>3. S \in SUBSET Int /\ IsFiniteSet(S) /\ top \in S /\ \A idx \in S : idx >= top
    <3>1. S \subseteq found /\ top >= top
      BY <2>2
    <3>. QED
      BY <2>2, <3>1, FS_Subset
  <2>. HIDE DEF S, top
  <2>4. IsAscending(S, sorted) /\ n \in Nat
    BY <2>3, AscendingOrder
  <2>. HIDE DEF sorted, n
  <2>5. /\ sorted \in [1..n -> S] /\ \E i \in 1..n : sorted[i] = top
        /\ \A i, j \in 1..n : i < j => sorted[i] < sorted[j]
    BY <2>3, <2>4 DEF IsAscending, Range, n
  <2>6. PICK i \in 1..n : sorted[i] = top
    BY <2>5
  <2>7. n \in Nat \ {0} /\ 1 \in 1..n
    BY <2>4, <2>6
  <2>8. \A j \in 1..n : sorted[j] \in Int
    BY <2>3, <2>5
  <2>9. sorted[1] = top
    <3>1. sorted[1] \in S /\ sorted[1] >= top
      BY <2>3, <2>5, <2>7
    <3>2. 1 < i => sorted[1] < top
      BY <2>5, <2>6, <2>7
    <3>. QED
      BY <2>3, <2>6, <2>7, <2>8, <3>1, <3>2
  <2>10. Len(sorted) = n
    BY <2>4, <2>5
  <2>11. a \in 1..n /\ \A j \in 2..a : sorted[j] - sorted[j - 1] = objs[v][sorted[j]]
    BY <2>7, <2>10, AdjacentFound
  <2>12. args = [j \in 1..(a - 1) |-> [reg |-> "stack", off |-> sorted[j + 1] - top, size |-> objs[v][sorted[j + 1]]]]
    BY DEF StackArgs
  <2>. HIDE DEF a, args
  <2>13. a - 1 \in Nat /\ args = [j \in 1..(a - 1) |-> args[j]]
    BY <2>11, <2>12
  <2>14. args \in Seq(Range(args)) /\ DOMAIN args = 1..(a - 1)
    BY <2>13, IsSequence
  <2>15. ASSUME NEW m \in 1..(a - 1)
         PROVE  /\ args[m].reg = "stack" /\ args[m].off \in Int /\ args[m].size \in Int
                /\ args[m].off = (IF m = 1 THEN 0 ELSE args[m - 1].off) + args[m].size
    <3>0. a \in 1..n /\ n \in Nat /\ a \in Nat
      BY <2>7, <2>11
    <3>1. m \in 1..n /\ m + 1 \in 1..n /\ m + 1 \in 2..a /\ (m + 1) - 1 = m
      BY <3>0
    <3>2. args[m].reg = "stack" /\ args[m].off = sorted[m + 1] - top /\ args[m].size = objs[v][sorted[m + 1]]
      BY <2>12
    <3>3. args[m].size = sorted[m + 1] - sorted[m]
      BY <2>11, <3>1, <3>2
    <3>4. (IF m = 1 THEN 0 ELSE args[m - 1].off) = sorted[m] - top
      <4>1. CASE m = 1
        BY <2>2, <2>9, <4>1
      <4>2. CASE m # 1
        <5>1. m - 1 \in 1..(a - 1) /\ (m - 1) + 1 = m
          BY <4>2, <3>0
        <5>2. args[m - 1].off = sorted[(m - 1) + 1] - top
          BY <2>12, <5>1
        <5>. QED
          BY <4>2, <5>1, <5>2
      <4>. QED
        BY <4>1, <4>2
    <3>5. sorted[m] \in Int /\ sorted[m + 1] \in Int /\ top \in Int
      BY <2>2, <2>8, <3>1 DEF top
    <3>. QED
      BY <3>2, <3>3, <3>4, <3>5
  <2>. QED
    BY <2>1, <2>14, <2>15 DEF IsStackArgs
<1>. QED
  BY <1>1, <1>2

\* Prototypes have sizes.
Sized(types) == types \in Seq(Range(types)) /\ \A i \in DOMAIN types : types[i].size \in Int

\* StoreStackParamsToLocals: the first argument on the stack is one word up, and each other one behind the one before it.
LEMMA StackIdxSteps ==
    ASSUME NEW regs, Len(regs) \in Nat, NEW types, Sized(types)
    PROVE  \A i \in DOMAIN types :
             /\ i = Len(regs) + 1 => StackIdx(regs, types, i) = PointerSize
             /\ i > Len(regs) + 1 => StackIdx(regs, types, i) = StackIdx(regs, types, i - 1) + types[i - 1].size
<1>. DEFINE r == Len(regs)
            t == Len(types)
            P == PointerSize
            step == [p \in Nat \X Int |-> IF p[1] + 1 <= r \/ p[1] + 1 \notin 1..t THEN P ELSE p[2] + types[p[1] + 1].size]
            Is(h) == h = [n \in 0..t |-> IF n <= r THEN P ELSE h[n - 1] + types[n].size]
<1>1. r \in Nat /\ t \in Nat /\ DOMAIN types = 1..t /\ P \in Int /\ \A i \in 1..t : types[i].size \in Int
  BY DEF Sized, PointerSize
<1>. HIDE DEF r, t, P
<1>2. step \in [Nat \X Int -> Int]
  BY <1>1
<1>3. PICK g : Upto(Int, P, step, t, g)
  <2>. HIDE DEF step
  <2>. QED
    BY <1>1, <1>2, RecursionUpto
<1>4. Is(g)
  <2>0. \A m \in Nat, x \in Int :
          step[<<m, x>>] = IF m + 1 <= r \/ m + 1 \notin 1..t THEN P ELSE x + types[m + 1].size
    OBVIOUS
  <2>. HIDE DEF step
  <2>1. g \in [0..t -> Int] /\ g[0] = P /\ \A m \in 0..(t - 1) : g[m + 1] = step[<<m, g[m]>>]
    BY <1>3 DEF Upto
  <2>2. ASSUME NEW n \in 0..t PROVE g[n] = IF n <= r THEN P ELSE g[n - 1] + types[n].size
    <3>1. CASE n = 0
      BY <1>1, <2>1, <3>1
    <3>2. CASE n # 0
      <4>1. n - 1 \in 0..(t - 1) /\ n - 1 \in 0..t /\ n - 1 \in Nat /\ (n - 1) + 1 = n /\ n \in 1..t
        BY <1>1, <3>2
      <4>2. g[n - 1] \in Int
        BY <2>1, <4>1
      <4>3. g[n] = step[<<n - 1, g[n - 1]>>]
        BY <2>1, <4>1
      <4>4. step[<<n - 1, g[n - 1]>>] = IF n <= r \/ n \notin 1..t THEN P ELSE g[n - 1] + types[n].size
        BY <2>0, <4>1, <4>2
      <4>. QED
        BY <4>1, <4>3, <4>4
    <3>. QED
      BY <3>1, <3>2
  <2>. HIDE DEF step
  <2>. QED
    BY <2>1, <2>2
<1>. DEFINE idx == CHOOSE h : Is(h)
<1>5. Is(idx)
  BY <1>4
<1>6. \A i : StackIdx(regs, types, i) = idx[i - 1]
  BY DEF StackIdx, r, t, P
<1>. HIDE DEF idx
<1>7. \A n \in 0..t : idx[n] = IF n <= r THEN P ELSE idx[n - 1] + types[n].size
  BY <1>5
<1>. SUFFICES ASSUME NEW i \in 1..t
              PROVE  /\ i = r + 1 => StackIdx(regs, types, i) = P
                     /\ i > r + 1 => StackIdx(regs, types, i) = StackIdx(regs, types, i - 1) + types[i - 1].size
  BY <1>1 DEF r, P
<1>8. i - 1 \in 0..t /\ (i = r + 1 => i - 1 <= r) /\ (i > r + 1 => ~(i - 1 <= r))
  BY <1>1
<1>. QED
  BY <1>6, <1>7, <1>8

\* The new call has the registers of the function, then what its caller stored on the stack; a prototype that is no
\* longer puts its parameters where those arguments are.
LEMMA ArgumentsLand ==
    ASSUME NEW regs, IsRegs(regs), \A i \in DOMAIN regs : ~IsSP(regs[i]), NEW extra, IsStackArgs(extra),
           NEW types, Sized(types), Len(regs) <= Len(types), Len(types) <= Len(regs \o extra)
    PROVE  Covers(regs \o extra, NewParams(regs, types))
<1>. DEFINE r == Len(regs)
            e == Len(extra)
            t == Len(types)
            P == PointerSize
            args == regs \o extra
            params == NewParams(regs, types)
            All == Range(regs) \cup Range(extra)
<1>1. regs \in Seq(All) /\ extra \in Seq(All)
  <2>1. regs \in Seq(Range(regs)) /\ extra \in Seq(Range(extra))
    BY DEF IsRegs, IsStackArgs
  <2>. HIDE DEF All
  <2>2. Range(regs) \subseteq All /\ Range(extra) \subseteq All
    BY DEF All
  <2>. QED
    BY <2>1, <2>2, SequenceOfMore
<1>2. /\ args \in Seq(All) /\ Len(args) = r + e
      /\ \A i \in 1..(r + e) : args[i] = IF i <= r THEN regs[i] ELSE extra[i - r]
  BY <1>1, Concatenated
<1>3. /\ r \in Nat /\ e \in Nat /\ t \in Nat /\ P \in Int /\ r <= t /\ t <= r + e
      /\ DOMAIN regs = 1..r /\ DOMAIN extra = 1..e /\ DOMAIN types = 1..t
  <2>1. r \in Nat /\ e \in Nat /\ DOMAIN regs = 1..r /\ DOMAIN extra = 1..e
    BY <1>1
  <2>2. t \in Nat /\ DOMAIN types = 1..t
    BY DEF Sized
  <2>3. P \in Int
    BY DEF PointerSize
  <2>. QED
    BY <1>2, <2>1, <2>2, <2>3
<1>4. DOMAIN args = 1..(r + e)
  BY <1>2, <1>3
<1>5. params = [i \in 1..t |-> IF i <= r THEN RegArg(regs[i].reg)
                               ELSE [reg |-> "stack", off |-> StackIdx(regs, types, i), size |-> types[i].size]]
  BY <1>3 DEF NewParams
<1>6. Len(params) = t /\ DOMAIN params = 1..t
  <2>1. params = [i \in 1..t |-> params[i]]
    BY <1>5
  <2>. HIDE DEF params
  <2>. QED
    BY <1>3, <2>1, IsSequence
<1>7. \A i \in 1..r : regs[i] = RegArg(regs[i].reg)
  BY <1>3 DEF IsRegs
<1>8. \A i \in 1..t : /\ i <= r => params[i] = args[i] /\ ~IsSP(args[i])
                      /\ i > r => /\ params[i].reg = "stack" /\ params[i].size = types[i].size
                                  /\ params[i].off = StackIdx(regs, types, i)
                                  /\ i - r \in 1..e /\ args[i] = extra[i - r]
  <2>. SUFFICES ASSUME NEW i \in 1..t
                PROVE  /\ i <= r => params[i] = args[i] /\ ~IsSP(args[i])
                       /\ i > r => /\ params[i].reg = "stack" /\ params[i].size = types[i].size
                                   /\ params[i].off = StackIdx(regs, types, i)
                                   /\ i - r \in 1..e /\ args[i] = extra[i - r]
    OBVIOUS
  <2>1. i \in 1..(r + e)
    BY <1>3
  <2>2. CASE i <= r
    <3>1. i \in 1..r
      BY <1>3, <2>2
    <3>2. params[i] = RegArg(regs[i].reg) /\ args[i] = regs[i]
      BY <1>2, <1>5, <2>1, <2>2
    <3>. QED
      BY <1>3, <1>7, <2>2, <3>1, <3>2
  <2>3. CASE i > r
    <3>1. ~(i <= r) /\ i - r \in 1..e
      BY <1>3, <2>3
    <3>2. params[i] = [reg |-> "stack", off |-> StackIdx(regs, types, i), size |-> types[i].size]
      BY <1>5, <3>1
    <3>3. args[i] = extra[i - r]
      BY <1>2, <2>1, <3>1
    <3>. HIDE DEF params, args
    <3>. QED
      BY <3>1, <3>2, <3>3
  <2>. QED
    BY <1>3, <2>2, <2>3
<1>. HIDE DEF params, args
<1>9. \A m \in 1..e : /\ extra[m].reg = "stack" /\ extra[m].off \in Int /\ extra[m].size \in Int
                      /\ extra[m].off = (IF m = 1 THEN 0 ELSE extra[m - 1].off) + extra[m].size
  BY <1>3 DEF IsStackArgs
<1>10. ASSUME NEW j \in DOMAIN params PROVE params[j].reg = args[j].reg /\ ~IsSP(args[j])
  <2>1. j \in 1..t /\ (j <= r \/ j > r)
    BY <1>3, <1>6
  <2>2. "stack" # StackPointerName(conv.arch)
    BY DEF StackPointerName, Fatal
  <2>. QED
    BY <1>8, <1>9, <2>1, <2>2 DEF IsSP
<1>. DEFINE Off == {j \in 1..t : Words(args, params, j) /\ args[j].off # params[j].off}
<1>11. ASSUME Off # {} PROVE FALSE
  <2>1. Off \in SUBSET Nat
    BY <1>3
  <2>2. PICK j \in Off : \A x \in Off : j <= x
    <3>. HIDE DEF Off
    <3>. QED
      BY <1>11, <2>1, LeastNumber
  <2>3. j \in 1..t /\ Words(args, params, j) /\ args[j].off # params[j].off
    BY <2>2
  <2>4. j > r /\ j \in 1..j /\ j \in Nat
    BY <1>3, <1>8, <2>3
  <2>5. /\ params[j].off = StackIdx(regs, types, j)
        /\ args[j] = extra[j - r] /\ j - r \in 1..e /\ args[j].size = P
    BY <1>8, <2>3, <2>4 DEF Words
  <2>6. CASE j = r + 1
    <3>1. params[j].off = P
      BY <1>3, <2>3, <2>5, <2>6, StackIdxSteps
    <3>2. j - r = 1
      BY <1>3, <2>6
    <3>3. args[j].off = P
      BY <1>3, <1>9, <2>5, <3>2
    <3>. QED
      BY <2>3, <3>1, <3>3
  <2>7. CASE j > r + 1
    <3>1. j - 1 \in 1..t /\ j - 1 > r /\ j - 1 \in 1..j /\ ~(j <= j - 1) /\ (j - r) - 1 = (j - 1) - r /\ j - r # 1
      BY <1>3, <2>3, <2>4, <2>7
    <3>2. Words(args, params, j - 1)
      <4>1. \A n \in 1..(j - 1) : n \in 1..j
        BY <2>4
      <4>. QED
        BY <2>3, <4>1 DEF Words
    <3>3. args[j - 1].off = params[j - 1].off
      BY <2>2, <3>1, <3>2
    <3>4. /\ params[j - 1].off = StackIdx(regs, types, j - 1) /\ params[j - 1].size = types[j - 1].size
          /\ params[j - 1].reg = "stack" /\ args[j - 1] = extra[(j - 1) - r] /\ (j - 1) - r \in 1..e
      BY <1>8, <3>1
    <3>5. types[j - 1].size = P
      BY <2>3, <3>1, <3>4 DEF Words
    <3>6. StackIdx(regs, types, j) = StackIdx(regs, types, j - 1) + types[j - 1].size
      BY <1>3, <2>3, <2>7, StackIdxSteps
    <3>7. extra[j - r].off = extra[(j - r) - 1].off + extra[j - r].size
      BY <1>9, <2>5, <3>1
    <3>8. args[j].off = args[j - 1].off + P
      BY <2>5, <3>1, <3>4, <3>7
    <3>9. params[j].off = params[j - 1].off + P
      BY <2>5, <3>4, <3>5, <3>6
    <3>. QED
      BY <2>3, <3>3, <3>8, <3>9
  <2>. QED
    BY <1>3, <2>4, <2>6, <2>7
<1>12. ASSUME NEW j \in DOMAIN args \cap DOMAIN params, Words(args, params, j) PROVE args[j].off = params[j].off
  BY <1>6, <1>11, <1>12
<1>13. Len(params) <= Len(args)
  BY <1>2, <1>3, <1>6
<1>14. Covers(args, params)
  BY <1>10, <1>12, <1>13 DEF Covers
<1>. QED
  BY <1>14 DEF args, params

-----------------------------------------------------------------------------
(***************************************************************************)
(* New calls                                                               *)
(***************************************************************************)
\* Without the stack pointer the parameters are still registers.
LEMMA RegParamsRegs ==
    ASSUME NEW params, IsRegs(params), NEW keep \in SUBSET DOMAIN params
    PROVE  /\ IsRegs(Selected(params, keep))
           /\ \A i \in DOMAIN Selected(params, keep) : \E j \in keep : Selected(params, keep)[i] = params[j]
<1>. DEFINE kept == Selected(params, keep)
<1>1. params \in Seq(Range(params)) /\ \A i \in DOMAIN params : params[i] = RegArg(params[i].reg)
  BY DEF IsRegs
<1>2. kept \in Seq(Range(params)) /\ Range(kept) = {params[i] : i \in keep}
  BY <1>1, SelectedElements
<1>. HIDE DEF kept
<1>3. kept \in Seq(Range(kept))
  <2>1. Len(kept) \in Nat /\ kept = [i \in 1..Len(kept) |-> kept[i]]
    BY <1>2
  <2>. QED
    BY <2>1, IsSequence
<1>4. \A i \in DOMAIN kept : \E j \in keep : kept[i] = params[j]
  <2>1. \A i \in DOMAIN kept : kept[i] \in Range(kept)
    BY DEF Range
  <2>. QED
    BY <1>2, <2>1
<1>5. IsRegs(kept)
  BY <1>1, <1>3, <1>4 DEF IsRegs
<1>. QED
  BY <1>4, <1>5 DEF kept

\* LoadStackParamsToCall: the registers of the function, then what is on the stack.
LEMMA NewArguments ==
    ASSUME ModuleOK, ObjsOK, IsRegs(fns[Source].params), NEW v \in Values, Exists(v), NEW i \in DOMAIN fns[v].code,
           fns[v].code[i].op = "call", fns[v].code[i].args = fns[Source].params, ~TopUnknown(v, i), ~TopNotStored(v, i)
    PROVE  /\ Sized(NewCallOf(v, i).args)
           /\ fns[v].code[i].same = {} => \E extra : IsStackArgs(extra) /\ NewCallOf(v, i).args = RegParams(Source) \o extra
<1>. DEFINE call == fns[v].code[i]
            found == FuncVars(v, i)
            params == fns[Source].params
            keep == {j \in DOMAIN params : ~IsSP(params[j]) /\ params[j].reg \notin call.same}
            kept == Selected(params, keep)
            extra == FindStackParams(v, call, found)
            All == Range(kept) \cup Range(extra)
<1>1. CallShape(call)
  BY DEF ModuleOK, FunctionShape, IsCode, CallsIn
<1>2. found \in SUBSET Int /\ IsFiniteSet(found)
  <2>1. found \subseteq DOMAIN objs[v]
    BY DEF FuncVars
  <2>2. DOMAIN objs[v] \in SUBSET Int /\ IsFiniteSet(DOMAIN objs[v])
    BY DEF ObjsOK
  <2>. HIDE DEF found
  <2>. QED
    BY <2>1, <2>2, FS_Subset
<1>3. found # {} => call.top \in found
  BY DEF TopUnknown, TopNotStored
<1>. HIDE DEF found
<1>4. IsStackArgs(extra)
  <2>. HIDE DEF call
  <2>. QED
    BY <1>2, <1>3, FoundArgs
<1>5. NewCallOf(v, i) = [call EXCEPT !.args = kept \o extra]
  BY DEF NewCallOf, LoadStackParamsToCall, found
<1>. HIDE DEF extra, call
<1>6. NewCallOf(v, i).args = kept \o extra
  <2>. HIDE DEF kept
  <2>. QED
    BY <1>1, <1>5 DEF CallShape
<1>7. keep \in SUBSET DOMAIN params
  OBVIOUS
<1>8. call.same = {} => kept = RegParams(Source)
  BY DEF RegParams
<1>. HIDE DEF params, keep
<1>9. IsRegs(kept)
  BY <1>7, RegParamsRegs DEF params
<1>. HIDE DEF kept
<1>10. Sized(kept \o extra)
  <2>1. kept \in Seq(All) /\ extra \in Seq(All)
    <3>1. kept \in Seq(Range(kept)) /\ extra \in Seq(Range(extra))
      BY <1>4, <1>9 DEF IsRegs, IsStackArgs
    <3>2. Range(kept) \subseteq All /\ Range(extra) \subseteq All
      OBVIOUS
    <3>. HIDE DEF All
    <3>. QED
      BY <3>1, <3>2, SequenceOfMore
  <2>. HIDE DEF All
  <2>2. /\ kept \o extra \in Seq(All) /\ Len(kept \o extra) = Len(kept) + Len(extra)
        /\ \A j \in 1..(Len(kept) + Len(extra)) :
             (kept \o extra)[j] = IF j <= Len(kept) THEN kept[j] ELSE extra[j - Len(kept)]
    BY <2>1, Concatenated
  <2>. DEFINE args == kept \o extra
              r == Len(kept)
              e == Len(extra)
  <2>3. r \in Nat /\ e \in Nat /\ DOMAIN kept = 1..r /\ DOMAIN extra = 1..e /\ DOMAIN args = 1..(r + e)
    BY <2>1, <2>2
  <2>4. args \in Seq(Range(args))
    <3>1. args \in Seq(All)
      BY <2>2
    <3>. HIDE DEF args
    <3>2. Len(args) \in Nat /\ args = [j \in 1..Len(args) |-> args[j]]
      BY <3>1
    <3>. QED
      BY <3>2, IsSequence
  <2>5. \A j \in 1..(r + e) : args[j] = IF j <= r THEN kept[j] ELSE extra[j - r]
    BY <2>2
  <2>6. \A j \in 1..r : kept[j].size = 0
    BY <1>9, <2>3 DEF IsRegs, RegArg
  <2>7. \A j \in 1..e : extra[j].size \in Int
    BY <1>4, <2>3 DEF IsStackArgs
  <2>. HIDE DEF args, r, e
  <2>8. ASSUME NEW j \in 1..(r + e) PROVE args[j].size \in Int
    <3>1. j \in 1..r \/ (~(j <= r) /\ j - r \in 1..e)
      BY <2>3
    <3>2. j \in 1..r => j <= r
      BY <2>3
    <3>. QED
      BY <2>5, <2>6, <2>7, <3>1, <3>2
  <2>9. Sized(args)
    BY <2>3, <2>4, <2>8 DEF Sized
  <2>. QED
    BY <2>9 DEF args
<1>. QED
  BY <1>4, <1>6, <1>8, <1>10 DEF call

-----------------------------------------------------------------------------
(***************************************************************************)
(* The steps                                                               *)
(***************************************************************************)
\* The lifter leaves no objects.
LEMMA InitStack == InitBoth => StackInv
<1>. SUFFICES ASSUME InitBoth PROVE StackInv
  OBVIOUS
<1>1. objs = [v \in Values |-> NoObjects] /\ stage = "declare"
  BY DEF InitBoth, Init
<1>2. DOMAIN NoObjects = {} /\ IsFiniteSet({})
  BY FS_EmptySet DEF NoObjects
<1>. QED
  BY <1>1, <1>2 DEF StackInv, ObjsOK

\* The argument recovery finds no objects either.
LEMMA EarlyStack ==
    ASSUME ModuleOK, StackInv, Recover \/ Clone \/ Replace, objs' = objs
    PROVE  StackInv'
<1>1. stage' \in {"declare", "clone", "replace", "optimize", "fatal"}
  BY DEF Recover, Clone, Replace, Advance
<1>2. ObjsOK'
  BY DEF StackInv, ObjsOK
<1>. QED
  BY <1>1, <1>2 DEF StackInv

\* What a call passes stays right as long as its function keeps its parameters.
LEMMA PassesKept ==
    ASSUME conv' = conv, NEW was, Passes(was), NEW call, call.to = was.to, call.args = was.args, call.same = was.same,
           fns'[was.to].params = fns[was.to].params
    PROVE  Passes(call)'
<1>1. \A args, params : Covers(args, params) = Covers(args, params)'
  BY DEF Covers, Words, IsSP, PointerSize
<1>2. ASSUME NEW f \in Funcs, call.to = f + NumFuncs PROVE call.args = fns'[f + NumFuncs].params
  BY <1>2 DEF Passes
<1>3. ASSUME NEW f \in Funcs, call.to = f + 2 * NumFuncs, call.same = {}
      PROVE  Covers(call.args, fns[f + 2 * NumFuncs].params)'
  <2>1. Covers(was.args, fns[f + 2 * NumFuncs].params)
    BY <1>3 DEF Passes
  <2>2. fns'[f + 2 * NumFuncs].params = fns[f + 2 * NumFuncs].params
    BY <1>3
  <2>3. PICK args, params : args = call.args /\ params = fns[f + 2 * NumFuncs].params
    OBVIOUS
  <2>4. Covers(args, params)'
    BY <1>1, <2>1, <2>3
  <2>. QED
    BY <2>2, <2>3, <2>4
<1>. QED
  BY <1>2, <1>3 DEF Passes

\* The optimiser keeps parameters and arguments.
LEMMA OptimizeStack ==
    ASSUME PassesInv, StackInv, Optimize
    PROVE  StackInv'
<1>1. /\ stage = "optimize" /\ stage' = "objects" /\ conv' = conv /\ objs' = objs /\ ModuleOK /\ Replacing /\ ObjsOK
      /\ fns' = [v \in Values |-> IF v \in Recovered THEN [fns[v] EXCEPT !.code = Promoted(fns[v].code)] ELSE fns[v]]
  BY DEF Optimize, stack, PassesInv, StackInv
<1>2. ObjsOK'
  BY <1>1 DEF ObjsOK
<1>3. ASSUME NEW v \in Values
      PROVE  /\ Exists(v)' => Exists(v) /\ fns'[v].params = fns[v].params
             /\ Exists(v)' => \A call \in CallsIn(fns'[v].code) :
                                call \in CallsIn(fns[v].code) /\ (v \in Recovered => call.to # Undef)
  <2>1. CASE v \in Recovered
    <3>1. Exists(v) /\ FunctionShape(fns[v])
      BY <1>1, <2>1 DEF Recovered, ModuleOK
    <3>2. IsCode(fns[v].code)
      BY <3>1 DEF FunctionShape
    <3>3. /\ IsCode(Promoted(fns[v].code))
          /\ \A call \in CallsIn(Promoted(fns[v].code)) : call \in CallsIn(fns[v].code) /\ call.to # Undef
      BY <3>2, PromotedCode
    <3>4. fns'[v] = [fns[v] EXCEPT !.code = Promoted(fns[v].code)]
      BY <1>1, <2>1
    <3>5. fns'[v].params = fns[v].params /\ fns'[v].code = Promoted(fns[v].code)
      BY <3>1, <3>3, <3>4, BodyReplaced
    <3>. QED
      BY <3>1, <3>3, <3>5
  <2>2. CASE v \notin Recovered
    <3>1. fns'[v] = fns[v]
      BY <1>1, <2>2
    <3>. QED
      BY <2>2, <3>1 DEF Exists
  <2>. QED
    BY <2>1, <2>2
<1>4. ASSUME NEW f \in Funcs
      PROVE  /\ ~Exists(f + 2 * NumFuncs)
             /\ Exists(f) => fns[f].code = <<>>
             /\ Exists(f + NumFuncs) => IsRegs(fns[f + NumFuncs].params) /\ f + NumFuncs \in Recovered
             /\ Exists(f + NumFuncs) => \A call \in CallsIn(fns[f + NumFuncs].code) : Followed(f, call)
  <2>1. f + NumFuncs \in (NumFuncs + 1)..(2 * NumFuncs)
    BY Numbers DEF Funcs
  <2>2. Past(f)
    BY <1>1 DEF Past
  <2>. QED
    BY <1>1, <2>1, <2>2 DEF Replacing, Recovered
<1>5. InOrder'
  <2>1. \A f \in Funcs : f + 2 * NumFuncs \in Values
    BY Numbers
  <2>2. \A f \in Funcs : ~Exists(f + 2 * NumFuncs)'
    BY <1>3, <1>4, <2>1
  <2>. QED
    BY <2>2 DEF InOrder
<1>6. ASSUME NEW f \in Funcs, Exists(f + NumFuncs)' PROVE IsRegs(fns'[f + NumFuncs].params)
  <2>1. f + NumFuncs \in Values
    BY Numbers
  <2>. QED
    BY <1>3, <1>4, <1>6, <2>1
<1>7. ASSUME NEW v \in Values, Exists(v)', NEW call \in CallsIn(fns'[v].code) PROVE Passes(call)'
  <2>1. Exists(v) /\ call \in CallsIn(fns[v].code) /\ (v \in Recovered => call.to # Undef)
    BY <1>3, <1>7
  <2>2. PICK f \in Funcs : v = f \/ v = f + NumFuncs \/ v = f + 2 * NumFuncs
    BY Numbers
  <2>3. v # f + 2 * NumFuncs
    BY <1>4, <2>1
  <2>4. v # f
    <3>1. CallsIn(<<>>) = {}
      BY DEF CallsIn
    <3>. QED
      BY <1>4, <2>1, <3>1
  <2>5. Followed(f, call) /\ call.to # Undef /\ call.callee \in Funcs
    <3>1. v = f + NumFuncs
      BY <2>2, <2>3, <2>4
    <3>2. CallShape(call)
      BY <1>1, <2>1 DEF ModuleOK, FunctionShape, IsCode
    <3>. QED
      BY <1>4, <2>1, <3>1, <3>2 DEF CallShape
  <2>6. PICK g \in Funcs : g = call.callee
    BY <2>5
  <2>7. Past(g)
    BY <1>1 DEF Past
  <2>8. CASE Exists(g + NumFuncs)
    <3>1. call.to = g + NumFuncs /\ call.args = fns[g + NumFuncs].params
      BY <2>5, <2>6, <2>7, <2>8 DEF Followed
    <3>2. g + NumFuncs \in Values /\ \A h \in Funcs : /\ g + NumFuncs # h + 2 * NumFuncs
                                                      /\ g + NumFuncs = h + NumFuncs => h = g
      BY Numbers
    <3>3. fns'[g + NumFuncs].params = fns[g + NumFuncs].params
      <4>1. g + NumFuncs \in Recovered /\ FunctionShape(fns[g + NumFuncs])
        BY <1>1, <1>4, <2>8, <3>2 DEF ModuleOK
      <4>2. IsCode(fns[g + NumFuncs].code)
        BY <4>1 DEF FunctionShape
      <4>3. IsCode(Promoted(fns[g + NumFuncs].code))
        BY <4>2, PromotedCode
      <4>4. fns'[g + NumFuncs] = [fns[g + NumFuncs] EXCEPT !.code = Promoted(fns[g + NumFuncs].code)]
        BY <1>1, <3>2, <4>1
      <4>. QED
        BY <4>1, <4>3, <4>4, BodyReplaced
    <3>. QED
      BY <3>1, <3>2, <3>3 DEF Passes
  <2>9. CASE ~Exists(g + NumFuncs)
    <3>1. call.to = g
      BY <2>5, <2>6, <2>7, <2>9 DEF Followed
    <3>2. \A h \in Funcs : g # h + NumFuncs /\ g # h + 2 * NumFuncs
      BY Numbers
    <3>. QED
      BY <3>1, <3>2 DEF Passes
  <2>. QED
    BY <2>8, <2>9
<1>8. Prototyped'
  BY <1>5, <1>6, <1>7 DEF Prototyped
<1>. QED
  BY <1>2, <1>8 DEF StackInv

\* A body has finitely many objects, at numbers.
LEMMA ObjectsFound ==
    ASSUME NEW code, IsCode(code)
    PROVE  DOMAIN FindStackObjects(code) \in SUBSET Int /\ IsFiniteSet(DOMAIN FindStackObjects(code))
<1>. DEFINE slots == {i \in DOMAIN code : code[i].op = "slot"}
            T == {code[i].idx : i \in slots}
            f == [i \in slots |-> code[i].idx]
<1>1. DOMAIN FindStackObjects(code) = T
  BY DEF FindStackObjects
<1>2. T \in SUBSET Int
  BY DEF IsCode, SlotsOK
<1>3. IsFiniteSet(slots)
  <2>1. Len(code) \in Nat /\ DOMAIN code = 1..Len(code)
    BY DEF IsCode
  <2>2. IsFiniteSet(1..Len(code)) /\ slots \in SUBSET (1..Len(code))
    BY <2>1, FS_Interval
  <2>. HIDE DEF slots
  <2>. QED
    BY <2>2, FS_Subset
<1>4. f \in Surjection(slots, T)
  BY DEF Surjection
<1>5. IsFiniteSet(T)
  <2>. HIDE DEF slots, T, f
  <2>. QED
    BY <1>3, <1>4, FS_Surjection
<1>. QED
  BY <1>1, <1>2, <1>5

\* The functions stay as they are while their objects are looked for.
LEMMA PromoteStack ==
    ASSUME PassesInv, StackInv, PromoteStackObjsToVars
    PROVE  StackInv'
<1>1. /\ stage = "objects" /\ conv' = conv /\ fns' = fns /\ ModuleOK /\ ObjsOK /\ Prototyped /\ Advance("objects", "calls")
      /\ objs' = IF IsOldFunc(Source) THEN [objs EXCEPT ![Source] = FindStackObjects(fns[Source].code)] ELSE objs
  BY DEF PromoteStackObjsToVars, PassesInv, StackInv
<1>2. \A v : Exists(v)' = Exists(v)
  BY <1>1 DEF Exists
<1>3. ObjsOK'
  <2>1. CASE ~IsOldFunc(Source)
    BY <1>1, <2>1 DEF ObjsOK
  <2>2. CASE IsOldFunc(Source)
    <3>1. Source \in Values
      BY <1>1, Numbers DEF Source, ModuleOK
    <3>2. IsCode(fns[Source].code)
      BY <1>1, <2>2, <3>1 DEF IsOldFunc, HasStackPointerArg, ModuleOK, FunctionShape
    <3>3. PICK found : found = FindStackObjects(fns[Source].code) /\ DOMAIN found \in SUBSET Int /\ IsFiniteSet(DOMAIN found)
      BY <3>2, ObjectsFound
    <3>4. objs' = [objs EXCEPT ![Source] = found]
      BY <1>1, <2>2, <3>3
    <3>. QED
      BY <1>1, <3>1, <3>3, <3>4 DEF ObjsOK
  <2>. QED
    BY <2>1, <2>2
<1>4. InOrder'
  BY <1>1, <1>2 DEF Prototyped, InOrder
<1>5. ASSUME NEW v \in Values, Exists(v)', NEW call \in CallsIn(fns'[v].code) PROVE Passes(call)'
  <2>1. Passes(call)
    BY <1>1, <1>2, <1>5 DEF Prototyped
  <2>. QED
    BY <1>1, <2>1, PassesKept
<1>6. Prototyped'
  BY <1>1, <1>2, <1>4, <1>5 DEF Prototyped
<1>. QED
  BY <1>3, <1>6 DEF StackInv

\* The prototype of a function that is called comes from one of its calls, and no new call has fewer arguments.
LEMMA PrototypeFromCall ==
    ASSUME NEW sites, NEW site \in sites, NEW types \in ArgTypes(sites)
    PROVE  /\ \E c \in sites : types = NewCallOf(c[1], c[2]).args
           /\ Len(types) <= Len(NewCallOf(site[1], site[2]).args)
<1>. DEFINE calls == {NewCallOf(c[1], c[2]) : c \in sites}
<1>1. PICK call \in Canonical(calls) : types = call.args
  BY DEF ArgTypes
<1>2. call \in calls /\ \A other \in calls : Len(call.args) <= Len(other.args)
  BY <1>1 DEF Canonical
<1>. QED
  BY <1>1, <1>2

\* One function of the second loop gets a prototype that all its calls cover.
LEMMA RewriteStack ==
    ASSUME PassesInv, StackInv, stage = "calls", conv' = conv, objs' = objs, Exists(Source), Advance("calls", "names"),
           \A site \in CallersOf(Source) : ~TopUnknown(site[1], site[2]) /\ ~TopNotStored(site[1], site[2]),
           NEW types \in ArgTypes(CallersOf(Source)), Len(types) >= Len(RegParams(Source)),
           fns' = SetCalledFunction(Source, Target, WithClone(WithNewCalls(CallersOf(Source)), types))
    PROVE  StackInv'
<1>1. ModuleOK /\ Stacking /\ ObjsOK /\ Prototyped /\ k \in Funcs
  BY DEF PassesInv, StackInv, ModuleOK
<1>2. PICK n \in Funcs : n = k
  BY <1>1
<1>. DEFINE s == n + NumFuncs
            t == n + 2 * NumFuncs
            regs == RegParams(Source)
<1>3. s = Source /\ t = Target /\ s \in Values /\ t \in Values /\ s # t
  BY <1>2, Numbers DEF Source, Target
<1>4. Exists(s) /\ ~Exists(t)
  <2>1. Exists(Source)
    OBVIOUS
  <2>2. Exists(n + 2 * NumFuncs) => n < k
    BY <1>1 DEF Prototyped, InOrder
  <2>3. ~(n < k)
    BY <1>2, Numbers
  <2>. QED
    BY <1>3, <2>1, <2>2, <2>3
<1>5. PICK params : params = NewParams(regs, types)
  OBVIOUS
<1>6. \A v \in Values : RecoveredAs(s, t, params, v, fns'[v])
  BY <1>1, <1>2, <1>3, <1>4, <1>5, CallsMade
<1>7. /\ \A f \in Funcs : f + NumFuncs # t /\ (f + 2 * NumFuncs = t => f = n) /\ (f + NumFuncs = s => f = n)
      /\ \A f \in Funcs : f + 2 * NumFuncs \in Values /\ f + NumFuncs \in Values
  BY Numbers
<1>8. IsRegs(fns[s].params)
  BY <1>1, <1>4 DEF Prototyped
<1>9. IsRegs(regs) /\ \A i \in DOMAIN regs : ~IsSP(regs[i])
  <2>. DEFINE all == fns[Source].params
              keep == {i \in DOMAIN all : ~IsSP(all[i])}
  <2>1. regs = Selected(all, keep) /\ keep \in SUBSET DOMAIN all /\ IsRegs(all)
    BY <1>3, <1>8 DEF RegParams
  <2>2. \A i \in keep : ~IsSP(all[i])
    OBVIOUS
  <2>. HIDE DEF all, keep, regs
  <2>. QED
    BY <2>1, <2>2, RegParamsRegs
<1>. HIDE DEF s, t, regs
<1>10. ObjsOK'
  BY <1>1 DEF ObjsOK
<1>11. ASSUME NEW v \in Values
       PROVE  /\ Exists(v)' <=> Exists(v) \/ v = t
              /\ Exists(v)' => fns'[v].params = IF v = t THEN params ELSE fns[v].params
              /\ Exists(v)' => \E w \in Values : Exists(w) /\ \A call \in CallsIn(fns'[v].code) :
                                 \E i \in DOMAIN fns[w].code : MadeFrom(call, w, i, s, t)
  <2>1. RecoveredAs(s, t, params, v, fns'[v]) /\ Exists(v)' = (fns'[v] # Gone)
    BY <1>6 DEF Exists
  <2>. QED
    BY <2>1 DEF RecoveredAs
<1>12. InOrder'
  <2>. SUFFICES ASSUME NEW f \in Funcs, Exists(f + 2 * NumFuncs)'
                PROVE  stage' = "names" \/ (stage' = "calls" /\ f < k')
    BY DEF InOrder
  <2>1. f < k \/ f = k
    BY <1>1, <1>2, <1>7, <1>11 DEF Prototyped, InOrder
  <2>2. stage' = "names" \/ (stage' = "calls" /\ k' = k + 1)
    BY <1>1, Advances
  <2>3. f \in Nat /\ k \in Nat
    BY <1>1, Numbers
  <2>. QED
    BY <2>1, <2>2, <2>3
<1>13. ASSUME NEW f \in Funcs, Exists(f + NumFuncs)' PROVE IsRegs(fns'[f + NumFuncs].params)
  <2>1. Exists(f + NumFuncs) /\ fns'[f + NumFuncs].params = fns[f + NumFuncs].params
    BY <1>7, <1>11, <1>13
  <2>. QED
    BY <1>1, <2>1 DEF Prototyped
<1>14. ASSUME NEW w \in Values, Exists(w), NEW i \in DOMAIN fns[w].code, fns[w].code[i].op = "call",
              fns[w].code[i] \in CallsIn(fns[w].code), fns[w].code[i].to = s
       PROVE  /\ Sized(NewCallOf(w, i).args)
              /\ fns[w].code[i].same = {} => \E extra : IsStackArgs(extra) /\ NewCallOf(w, i).args = regs \o extra
              /\ <<w, i>> \in CallersOf(Source)
  <2>1. fns[w].code[i].args = fns[Source].params
    <3>1. Passes(fns[w].code[i])
      BY <1>1, <1>14 DEF Prototyped
    <3>. QED
      BY <1>3, <1>14, <3>1 DEF Passes, s
  <2>2. <<w, i>> \in CallersOf(Source)
    BY <1>3, <1>14 DEF CallersOf
  <2>3. ~TopUnknown(w, i) /\ ~TopNotStored(w, i)
    BY <2>2
  <2>4. IsRegs(fns[Source].params)
    BY <1>3, <1>8
  <2>. QED
    BY <1>1, <1>14, <2>1, <2>2, <2>3, <2>4, NewArguments DEF regs
<1>15. ASSUME NEW site \in CallersOf(Source)
       PROVE  Sized(NewCallOf(site[1], site[2]).args)
  <2>1. PICK w, i : /\ w \in Values /\ Exists(w) /\ i \in DOMAIN fns[w].code /\ fns[w].code[i].op = "call"
                     /\ fns[w].code[i].to = Source /\ site = <<w, i>>
    BY DEF CallersOf
  <2>2. fns[w].code[i] \in CallsIn(fns[w].code)
    BY <2>1 DEF CallsIn
  <2>. QED
    BY <1>3, <1>14, <2>1, <2>2
<1>16. ASSUME NEW v \in Values, Exists(v)', NEW call \in CallsIn(fns'[v].code) PROVE Passes(call)'
  <2>1. PICK w \in Values : Exists(w) /\ \E i \in DOMAIN fns[w].code : MadeFrom(call, w, i, s, t)
    BY <1>11, <1>16
  <2>2. PICK i \in DOMAIN fns[w].code : MadeFrom(call, w, i, s, t)
    BY <2>1
  <2>3. PICK was : was = fns[w].code[i]
    OBVIOUS
  <2>4. /\ was \in CallsIn(fns[w].code) /\ was.op = "call"
        /\ call.to = (IF was.to = s THEN t ELSE was.to) /\ call.same = was.same
        /\ call.args = IF was.to = s THEN NewCallOf(w, i).args ELSE was.args
    BY <2>2, <2>3 DEF MadeFrom
  <2>5. Passes(was) /\ was.to \in Values /\ Exists(was.to)
    BY <1>1, <2>1, <2>4 DEF Prototyped, Stacking
  <2>6. CASE was.to = s
    <3>1. call.to = t /\ call.args = NewCallOf(w, i).args
      BY <2>4, <2>6
    <3>2. /\ <<w, i>> \in CallersOf(Source)
          /\ call.same = {} => \E extra : IsStackArgs(extra) /\ call.args = regs \o extra
      BY <1>14, <2>1, <2>3, <2>4, <2>6, <3>1
    <3>3. fns'[t].params = params
      BY <1>3, <1>11
    <3>4. ASSUME call.same = {} PROVE Covers(call.args, params)
      <4>1. PICK extra : IsStackArgs(extra) /\ call.args = regs \o extra
        BY <3>2, <3>4
      <4>2. PICK c \in CallersOf(Source) : types = NewCallOf(c[1], c[2]).args
        BY <3>2, PrototypeFromCall
      <4>3. Sized(types)
        BY <1>15, <4>2
      <4>4. Len(types) <= Len(call.args)
        <5>1. PICK site \in CallersOf(Source) : site = <<w, i>>
          BY <3>2
        <5>2. Len(types) <= Len(NewCallOf(site[1], site[2]).args)
          BY PrototypeFromCall
        <5>. QED
          BY <3>1, <5>1, <5>2
      <4>5. Len(regs) <= Len(types)
        <5>1. Len(regs) \in Nat /\ Len(types) \in Nat
          BY <1>9, <4>3 DEF IsRegs, Sized
        <5>. QED
          BY <5>1 DEF regs
      <4>6. Covers(regs \o extra, NewParams(regs, types))
        BY <1>9, <4>1, <4>3, <4>4, <4>5, ArgumentsLand
      <4>. QED
        BY <1>5, <4>1, <4>6
    <3>5. \A args, ps : Covers(args, ps) = Covers(args, ps)'
      BY DEF Covers, Words, IsSP, PointerSize
    <3>6. ASSUME NEW f \in Funcs, call.to = f + 2 * NumFuncs, call.same = {}
          PROVE  Covers(call.args, fns[f + 2 * NumFuncs].params)'
      <4>1. f + 2 * NumFuncs = t
        BY <3>1, <3>6
      <4>2. fns'[f + 2 * NumFuncs].params = params
        BY <3>3, <4>1
      <4>3. PICK args : args = call.args
        OBVIOUS
      <4>4. Covers(args, params)'
        BY <3>4, <3>5, <3>6, <4>3
      <4>. QED
        BY <4>2, <4>3, <4>4
    <3>7. \A f \in Funcs : call.to # f + NumFuncs
      BY <1>7, <3>1
    <3>. QED
      BY <3>6, <3>7 DEF Passes
  <2>7. CASE was.to # s
    <3>1. was.to # t
      BY <1>4, <2>5
    <3>2. fns'[was.to].params = fns[was.to].params
      BY <1>11, <2>5, <3>1
    <3>3. call.to = was.to /\ call.args = was.args /\ call.same = was.same
      BY <2>4, <2>7
    <3>. QED
      BY <2>5, <3>2, <3>3, PassesKept
  <2>. QED
    BY <2>6, <2>7
<1>17. Prototyped'
  BY <1>12, <1>13, <1>16 DEF Prototyped
<1>. QED
  BY <1>10, <1>17 DEF StackInv

\* Nothing the invariant is about changes.
LEMMA SameStack ==
    ASSUME StackInv, conv' = conv, fns' = fns, objs' = objs,
           stage' \in {"objects", "calls", "names", "done"} => Prototyped /\ InOrder'
    PROVE  StackInv'
<1>1. \A v : Exists(v)' = Exists(v)
  BY DEF Exists
<1>2. ObjsOK'
  BY DEF StackInv, ObjsOK
<1>3. ASSUME Prototyped, InOrder' PROVE Prototyped'
  <2>1. ASSUME NEW v \in Values, Exists(v)', NEW call \in CallsIn(fns'[v].code) PROVE Passes(call)'
    <3>1. Passes(call)
      BY <1>1, <1>3, <2>1 DEF Prototyped
    <3>. QED
      BY <3>1, PassesKept
  <2>. QED
    BY <1>1, <1>3, <2>1 DEF Prototyped
<1>. QED
  BY <1>2, <1>3 DEF StackInv

\* The second loop of the stack recovery, for one function.
LEMMA RecoverCallsStack ==
    ASSUME PassesInv, OldInv, StackInv, RecoverCalls
    PROVE  StackInv'
<1>1. /\ stage = "calls" /\ conv' = conv /\ objs' = objs /\ ModuleOK /\ Prototyped /\ k \in Funcs
  BY DEF RecoverCalls, stack, PassesInv, StackInv, ModuleOK
<1>2. CASE fns' = fns /\ stage' \in {"fatal", "undefined"}
  BY <1>1, <1>2, SameStack
<1>3. CASE fns' = fns /\ Advance("calls", "names")
  <2>1. InOrder'
    <3>1. \A v : Exists(v)' = Exists(v)
      BY <1>3 DEF Exists
    <3>2. stage' = "names" \/ (stage' = "calls" /\ k' = k + 1)
      BY <1>1, <1>3, Advances
    <3>3. k \in Nat /\ \A f \in Funcs : f \in Nat
      BY <1>1, Numbers
    <3>4. \A f \in Funcs : Exists(f + 2 * NumFuncs) => f < k
      BY <1>1 DEF Prototyped, InOrder
    <3>5. \A f \in Funcs : f < k => f < k + 1
      BY <3>3
    <3>. QED
      BY <3>1, <3>2, <3>4, <3>5 DEF InOrder
  <2>. QED
    BY <1>1, <1>3, <2>1, SameStack
<1>4. ASSUME Source \in old_funcs, Advance("calls", "names"),
             \A site \in CallersOf(Source) : ~TopUnknown(site[1], site[2]) /\ ~TopNotStored(site[1], site[2]),
             NEW types \in ArgTypes(CallersOf(Source)), Len(types) >= Len(RegParams(Source)),
             fns' = SetCalledFunction(Source, Target, WithClone(WithNewCalls(CallersOf(Source)), types))
      PROVE  StackInv'
  <2>1. Exists(Source)
    BY <1>1, <1>4, OldSource
  <2>. QED
    BY <1>1, <1>4, <2>1, RewriteStack
<1>. QED
  BY <1>2, <1>3, <1>4 DEF RecoverCalls

\* The last loop: calls and parameters stay.
LEMMA TakeNamesStack ==
    ASSUME PassesInv, OldInv, StackInv, TakeNames
    PROVE  StackInv'
<1>1. /\ stage = "names" /\ conv' = conv /\ objs' = objs /\ ModuleOK /\ Stacking /\ Prototyped /\ ObjsOK
      /\ k \in Funcs /\ Advance("names", "done")
      /\ fns' = IF Source \in old_funcs THEN TakeNameAndErase(Source, Target, fns) ELSE fns
  BY DEF TakeNames, stack, PassesInv, StackInv, ModuleOK
<1>2. stage' \in {"names", "done"} /\ InOrder'
  <2>1. stage' \in {"names", "done"}
    BY <1>1, Advances
  <2>. QED
    BY <2>1 DEF InOrder
<1>3. CASE Source \notin old_funcs
  BY <1>1, <1>2, <1>3, SameStack
<1>4. CASE Source \in old_funcs
  <2>0. Exists(Target)
    BY <1>1, <1>4, OldTarget
  <2>1. PICK n \in Funcs : n = k
    BY <1>1
  <2>. DEFINE s == n + NumFuncs
  <2>2. fns' = TakeNameAndErase(Source, Target, fns)
    BY <1>1, <1>4
  <2>3. \A v \in Values :
          /\ Exists(v)' <=> Exists(v) /\ v # s
          /\ Exists(v)' =>
               /\ fns'[v].params = fns[v].params
               /\ \A call \in CallsIn(fns'[v].code) : \E was \in CallsIn(fns[v].code) :
                    call.to = was.to /\ call.args = was.args /\ call.same = was.same
    BY <1>1, <2>0, <2>1, <2>2, NamesTaken
  <2>4. \A v \in Values : Exists(v) => \A was \in CallsIn(fns[v].code) : was.to \in Values /\ Exists(was.to) /\ was.to # s
    <3>1. Exists(n + 2 * NumFuncs)
      BY <2>0, <2>1 DEF Target
    <3>. QED
      BY <1>1, <3>1 DEF Stacking
  <2>. HIDE DEF s
  <2>5. ObjsOK'
    BY <1>1 DEF ObjsOK
  <2>6. ASSUME NEW v \in Values, Exists(v)', NEW call \in CallsIn(fns'[v].code) PROVE Passes(call)'
    <3>1. PICK was \in CallsIn(fns[v].code) : call.to = was.to /\ call.args = was.args /\ call.same = was.same
      BY <2>3, <2>6
    <3>2. Exists(v) /\ Passes(was)
      BY <1>1, <2>3, <2>6 DEF Prototyped
    <3>3. fns'[was.to].params = fns[was.to].params
      BY <2>3, <2>4, <3>2
    <3>. QED
      BY <1>1, <3>1, <3>2, <3>3, PassesKept
  <2>7. ASSUME NEW f \in Funcs, Exists(f + NumFuncs)' PROVE IsRegs(fns'[f + NumFuncs].params)
    <3>1. f + NumFuncs \in Values
      BY Numbers
    <3>. QED
      BY <1>1, <2>3, <2>7, <3>1 DEF Prototyped
  <2>8. Prototyped'
    BY <1>2, <2>6, <2>7 DEF Prototyped
  <2>. QED
    BY <2>5, <2>8 DEF StackInv
<1>. QED
  BY <1>3, <1>4

\* No step breaks the invariant.
LEMMA NextStack ==
    ASSUME PassesInv, OldInv, StackInv, [Next]_vars
    PROVE  StackInv'
<1>0. ModuleOK
  BY DEF PassesInv
<1>1. CASE (Recover \/ Clone \/ Replace) /\ UNCHANGED stack
  BY <1>0, <1>1, EarlyStack DEF stack
<1>2. CASE Optimize
  BY <1>2, OptimizeStack
<1>3. CASE PromoteStackObjsToVars
  BY <1>3, PromoteStack
<1>4. CASE RecoverCalls
  BY <1>4, RecoverCallsStack
<1>5. CASE TakeNames
  BY <1>5, TakeNamesStack
<1>6. CASE UNCHANGED vars
  <2>1. conv' = conv /\ fns' = fns /\ stage' = stage /\ k' = k /\ objs' = objs
    BY <1>6 DEF vars, stack
  <2>2. InOrder => InOrder'
    BY <2>1 DEF InOrder, Exists
  <2>. QED
    BY <2>1, <2>2, SameStack DEF StackInv, Prototyped
<1>. QED
  BY <1>1, <1>2, <1>3, <1>4, <1>5, <1>6 DEF Next, Finished

-----------------------------------------------------------------------------
(***************************************************************************)
(* The theorems                                                            *)
(***************************************************************************)
\* In every state of the stack recovery (runOnModule of pass_stackrec_remill.cpp) a call passes the registers of a
\* function that has its old prototype, and covers the prototype of one that has a new one.
THEOREM StackInvariance == Spec => []StackInv
<1>1. PassesInv /\ OldInv /\ StackInv /\ [Next]_vars => StackInv'
  BY NextStack
<1>. QED
  BY <1>1, InitStack, RecordedInvariance, PTL DEF Spec

\* The call at i in v is of a rewritten function and passes no copy of the stack pointer.
LEMMA CallCovers ==
    ASSUME PassesInv, StackInv, stage = "done", NEW v \in Values, Exists(v), NEW i \in DOMAIN fns[v].code,
           fns[v].code[i].op = "call", fns[v].code[i].to \in Rewritten, fns[v].code[i].same = {}
    PROVE  Covers(fns[v].code[i].args, fns[fns[v].code[i].to].params)
<1>1. fns[v].code[i] \in CallsIn(fns[v].code)
  BY DEF CallsIn
<1>2. Passes(fns[v].code[i])
  BY <1>1 DEF StackInv, Prototyped
<1>3. PICK f \in Funcs : fns[v].code[i].to = f + 2 * NumFuncs
  <2>1. fns[v].code[i].to \in (2 * NumFuncs + 1)..(3 * NumFuncs)
    BY DEF Rewritten
  <2>2. NumFuncs \in Nat
    BY Numbers
  <2>. DEFINE f == fns[v].code[i].to - 2 * NumFuncs
  <2>3. f \in Funcs /\ fns[v].code[i].to = f + 2 * NumFuncs
    BY <2>1, <2>2 DEF Funcs
  <2>. QED
    BY <2>3
<1>. QED
  BY <1>2, <1>3 DEF Passes

\* When the pass is over, an argument that the caller stored on the stack (FindStackParams) has the offset that the
\* function gives to the parameter (StoreStackParamsToLocals), as long as the arguments up to it are words.
THEOREM StackArgsTheorem == Spec => []StackArgsLand
<1>1. PassesInv /\ StackInv => StackArgsLand
  BY CallCovers DEF StackArgsLand, Covers, Words
<1>. QED
  BY <1>1, PassesInvariance, StackInvariance, PTL

\* When the pass is over, every call of a rewritten function has at least the arguments of its prototype, registers
\* first, and not the stack pointer, although each prototype comes from one of the calls (canonical in runOnModule) and
\* the calls are copied while the functions are rewritten one after the other.
THEOREM PrototypesTheorem == Spec => []CallsCoverPrototypes
<1>1. PassesInv /\ StackInv => CallsCoverPrototypes
  BY CallCovers DEF CallsCoverPrototypes, Covers
<1>. QED
  BY <1>1, PassesInvariance, StackInvariance, PTL

-----------------------------------------------------------------------------
(***************************************************************************)
(* Results                                                                 *)
(***************************************************************************)
\* The instruction at n is the last user of the registers in the block up to i.
IsLast(code, regs, i, n) ==
    /\ n \in 1..i /\ IsUser(code[n], regs)
    /\ \A j \in (n + 1)..i : ~IsUser(code[j], regs)
    /\ \A j \in n..(i - 1) : ~EndsBlock(code[j])

\* The start of the block that the instruction at i is in.
LEMMA StartOfBlock ==
    ASSUME NEW code, NEW i \in Nat \ {0}
    PROVE  /\ BlockStart(code, i) \in 1..i
           /\ BlockStart(code, i) = 1 \/ EndsBlock(code[BlockStart(code, i) - 1])
           /\ \A n \in BlockStart(code, i)..(i - 1) : ~EndsBlock(code[n])
<1>. DEFINE P(j) == (j = 1 \/ code[j - 1].op \in {"br", "ret"}) /\ \A n \in j..(i - 1) : code[n].op \notin {"br", "ret"}
            S == {j \in 1..i : \A n \in j..(i - 1) : code[n].op \notin {"br", "ret"}}
<1>1. i \in S
  OBVIOUS
<1>2. PICK j \in S : \A m \in S : j <= m
  <2>1. S \in SUBSET Nat /\ S # {}
    BY <1>1
  <2>. HIDE DEF S
  <2>. QED
    BY <2>1, LeastNumber
<1>3. j \in 1..i /\ \A n \in j..(i - 1) : code[n].op \notin {"br", "ret"}
  BY <1>2
<1>4. ASSUME j # 1, code[j - 1].op \notin {"br", "ret"} PROVE FALSE
  <2>1. j - 1 \in 1..i /\ ~(j <= j - 1)
    BY <1>3, <1>4
  <2>2. \A n \in (j - 1)..(i - 1) : n = j - 1 \/ n \in j..(i - 1)
    BY <1>3
  <2>3. j - 1 \in S
    BY <1>3, <1>4, <2>1, <2>2
  <2>. HIDE DEF S
  <2>. QED
    BY <1>2, <2>1, <2>3
<1>5. P(j)
  BY <1>3, <1>4
<1>6. BlockStart(code, i) = CHOOSE m \in 1..i : P(m)
  BY DEF BlockStart
<1>. HIDE DEF P
<1>7. BlockStart(code, i) \in 1..i /\ P(BlockStart(code, i))
  BY <1>3, <1>5, <1>6
<1>. QED
  BY <1>7 DEF P, EndsBlock

\* LastUserOfReg finds the last user.
LEMMA LastUser ==
    ASSUME NEW code, NEW regs, NEW i \in Nat \ {0}
    PROVE  /\ LastUserOfReg(code, regs, i) # 0 => IsLast(code, regs, i, LastUserOfReg(code, regs, i))
           /\ \A n : IsLast(code, regs, i, n) => LastUserOfReg(code, regs, i) = n
<1>. DEFINE start == BlockStart(code, i)
            P(n) == IsUser(code[n], regs) /\ \A j \in (n + 1)..i : ~IsUser(code[j], regs)
            Users == {n \in 1..i : IsUser(code[n], regs)}
            last == CHOOSE n \in 1..i : P(n)
<1>1. start \in 1..i /\ (start = 1 \/ EndsBlock(code[start - 1])) /\ \A n \in start..(i - 1) : ~EndsBlock(code[n])
  BY StartOfBlock
<1>2. LastUserOfReg(code, regs, i) = IF \E n \in start..i : IsUser(code[n], regs) THEN last ELSE 0
  BY DEF LastUserOfReg
<1>. HIDE DEF start
<1>3. ASSUME Users # {} PROVE \E n \in 1..i : P(n)
  <2>1. PICK n \in Users : \A m \in Users : m <= n
    <3>1. Users \in SUBSET (0 .. i) /\ i \in Nat
      OBVIOUS
    <3>. HIDE DEF Users
    <3>. QED
      BY <1>3, <3>1, GreatestNumber
  <2>2. n \in 1..i /\ IsUser(code[n], regs)
    BY <2>1
  <2>3. ASSUME NEW j \in (n + 1)..i PROVE ~IsUser(code[j], regs)
    <3>1. j \in 1..i /\ ~(j <= n)
      BY <2>2
    <3>. QED
      BY <2>1, <3>1
  <2>. QED
    BY <2>2, <2>3
<1>4. Users # {} => last \in 1..i /\ P(last)
  <2>. HIDE DEF P
  <2>. QED
    BY <1>3
<1>5. ASSUME NEW m \in 1..i, P(m), NEW n \in 1..i, P(n) PROVE m = n
  <2>1. m < n => n \in (m + 1)..i
    OBVIOUS
  <2>2. n < m => m \in (n + 1)..i
    OBVIOUS
  <2>3. m \in Int /\ n \in Int
    OBVIOUS
  <2>. QED
    BY <1>5, <2>1, <2>2, <2>3
<1>. HIDE DEF last
<1>6. ASSUME NEW m \in start..i, IsUser(code[m], regs) PROVE IsLast(code, regs, i, last)
  <2>1. m \in 1..i
    BY <1>1
  <2>2. last \in 1..i /\ P(last)
    BY <1>4, <1>6, <2>1
  <2>3. m <= last
    <3>1. ~(m <= last) => m \in (last + 1)..i
      BY <2>1, <2>2
    <3>. QED
      BY <1>6, <2>2, <3>1
  <2>4. \A j \in last..(i - 1) : j \in start..(i - 1)
    BY <1>1, <2>1, <2>2, <2>3
  <2>. QED
    BY <1>1, <2>2, <2>4 DEF IsLast
<1>7. ASSUME NEW n, IsLast(code, regs, i, n) PROVE LastUserOfReg(code, regs, i) = n
  <2>1. n \in 1..i /\ P(n)
    BY <1>7 DEF IsLast
  <2>2. n \in start..i
    <3>1. ~(n >= start) => start # 1 /\ start - 1 \in n..(i - 1)
      BY <1>1, <2>1
    <3>2. n >= start
      BY <1>1, <1>7, <3>1 DEF IsLast
    <3>. QED
      BY <1>1, <2>1, <3>2
  <2>3. last \in 1..i /\ P(last)
    BY <1>4, <2>1
  <2>4. last = n
    BY <1>5, <2>1, <2>3
  <2>. QED
    BY <1>2, <2>1, <2>2, <2>4
<1>. QED
  BY <1>2, <1>6, <1>7

\* The stores that give a function its type, one by one.
LEMMA ReturnStore ==
    ASSUME NEW code, code \in Seq(Range(code))
    PROVE  \A n : n \in ReturnStores(code) <=>
               /\ n # 0 /\ code[n].op = "store"
               /\ \E reg \in Range(ReturnRegs(conv.arch, conv.cc)), i \in TerminalBlocksOf(code) :
                     IsLast(code, RegisterAliasSet(reg), i, n)
<1>1. \A i \in TerminalBlocksOf(code) : i \in Nat \ {0}
  BY DEF TerminalBlocksOf
<1>2. \A i \in TerminalBlocksOf(code) : \A regs, n : n # 0 => (n = LastUserOfReg(code, regs, i) <=> IsLast(code, regs, i, n))
  BY <1>1, LastUser
<1>3. \A n : n \in ReturnStores(code) <=>
        /\ n # 0 /\ code[n].op = "store"
        /\ \E reg \in Range(ReturnRegs(conv.arch, conv.cc)), i \in TerminalBlocksOf(code) :
              n = LastUserOfReg(code, RegisterAliasSet(reg), i)
  BY DEF ReturnStores
<1>. QED
  BY <1>2, <1>3

\* A body with the same accesses in the same blocks stores the same results.
LEMMA ReturnsShifted ==
    ASSUME NEW code, code \in Seq(Range(code)), NEW new, new \in Seq(Range(new)),
           NEW shift, SameBlocks(code, new, shift), NEW n \in ReturnStores(new)
    PROVE  \E m \in ReturnStores(code) : new[n] = code[m]
<1>1. DOMAIN code = 1 .. Len(code) /\ Len(code) \in Nat /\ DOMAIN new = 1 .. Len(new) /\ Len(new) \in Nat
  OBVIOUS
<1>2. PICK reg \in Range(ReturnRegs(conv.arch, conv.cc)), ii \in TerminalBlocksOf(new) :
        n # 0 /\ new[n].op = "store" /\ IsLast(new, RegisterAliasSet(reg), ii, n)
  BY ReturnStore
<1>. DEFINE regs == RegisterAliasSet(reg)
<1>. HIDE DEF regs
<1>3. ii \in DOMAIN new /\ new[ii].op = "ret" /\ n \in 1..ii /\ IsUser(new[n], regs)
      /\ (\A j \in (n + 1)..ii : ~IsUser(new[j], regs)) /\ \A j \in n..(ii - 1) : ~EndsBlock(new[j])
  BY <1>2 DEF IsLast, TerminalBlocksOf, regs
<1>4. n \in DOMAIN new
  BY <1>1, <1>3
<1>5. /\ \A i \in DOMAIN code : shift[i] \in DOMAIN new
      /\ \A i, j \in DOMAIN code : i < j => shift[i] < shift[j]
      /\ \A i \in DOMAIN code : Accesses(code[i]) => new[shift[i]] = code[i]
      /\ \A i \in DOMAIN code : EndsBlock(code[i]) => EndsBlock(new[shift[i]])
  BY DEF SameBlocks, SameAccesses
<1>6. PICK m \in DOMAIN code : n = shift[m] /\ new[n] = code[m]
  BY <1>2, <1>4 DEF SameBlocks, SameAccesses, Accesses
<1>7. PICK i \in DOMAIN code : ii = shift[i] /\ code[i].op = "ret"
  BY <1>3 DEF SameBlocks
<1>8. m < i
  <2>1. ~(i < m)
    <3>1. i < m => ii < n
      BY <1>5, <1>6, <1>7
    <3>. QED
      BY <1>1, <1>3, <3>1
  <2>2. m # i
    BY <1>2, <1>6, <1>7
  <2>. QED
    BY <1>1, <2>1, <2>2
<1>9. ASSUME NEW j \in (m + 1)..i, IsUser(code[j], regs) PROVE FALSE
  <2>1. j \in DOMAIN code /\ m < j /\ (j < i \/ j = i)
    BY <1>1
  <2>2. shift[j] \in DOMAIN new /\ n < shift[j] /\ (shift[j] < ii \/ shift[j] = ii)
    BY <1>5, <1>6, <1>7, <2>1
  <2>3. shift[j] \in (n + 1)..ii
    BY <1>1, <1>3, <2>2
  <2>4. new[shift[j]] = code[j]
    BY <1>5, <1>9, <2>1 DEF IsUser, Accesses
  <2>. QED
    BY <1>3, <1>9, <2>3, <2>4
<1>10. ASSUME NEW j \in m..(i - 1), EndsBlock(code[j]) PROVE FALSE
  <2>1. j \in DOMAIN code /\ j < i /\ (m < j \/ m = j)
    BY <1>1
  <2>2. shift[j] \in DOMAIN new /\ shift[j] < ii /\ (n < shift[j] \/ n = shift[j])
    BY <1>5, <1>6, <1>7, <2>1
  <2>3. shift[j] \in n..(ii - 1)
    BY <1>1, <1>3, <2>2
  <2>4. EndsBlock(new[shift[j]])
    BY <1>5, <1>10, <2>1
  <2>. QED
    BY <1>3, <2>3, <2>4
<1>11. m \in 1..i /\ m # 0
  BY <1>1, <1>8
<1>12. IsLast(code, regs, i, m)
  BY <1>3, <1>6, <1>9, <1>10, <1>11 DEF IsLast
<1>13. i \in TerminalBlocksOf(code) /\ code[m].op = "store"
  BY <1>2, <1>6, <1>7 DEF TerminalBlocksOf
<1>14. m \in ReturnStores(code)
  BY <1>11, <1>12, <1>13, ReturnStore DEF regs
<1>. QED
  BY <1>6, <1>14

\* So does one in which only calls are others.
LEMMA ReturnsRewritten ==
    ASSUME NEW code, IsCode(code), NEW new, OnlyCallsDiffer(code, new)
    PROVE  /\ \A n \in ReturnStores(new) : \E m \in ReturnStores(code) : new[n] = code[m]
           /\ \A i \in TerminalBlocksOf(new) : i \in TerminalBlocksOf(code) /\ new[i] = code[i]
<1>. DEFINE shift == [i \in DOMAIN code |-> i]
<1>1. IsCode(new) /\ DOMAIN new = DOMAIN code
  BY CallsRewritten
<1>2. \A i \in DOMAIN code : Accesses(code[i]) \/ EndsBlock(code[i]) => new[i] = code[i]
  BY DEF Accesses, EndsBlock, OnlyCallsDiffer
<1>3. \A i \in DOMAIN code : Accesses(new[i]) \/ EndsBlock(new[i]) => new[i] = code[i]
  BY DEF Accesses, EndsBlock, OnlyCallsDiffer, CallShape
<1>4. SameAccesses(code, new, shift)
  BY <1>1, <1>2, <1>3 DEF SameAccesses
<1>5. SameBlocks(code, new, shift)
  BY <1>1, <1>2, <1>3, <1>4 DEF SameBlocks, EndsBlock
<1>. HIDE DEF shift
<1>6. \A n \in ReturnStores(new) : \E m \in ReturnStores(code) : new[n] = code[m]
  BY <1>1, <1>5, ReturnsShifted DEF IsCode
<1>7. \A i \in TerminalBlocksOf(new) : i \in TerminalBlocksOf(code) /\ new[i] = code[i]
  BY <1>1, <1>3 DEF TerminalBlocksOf, EndsBlock
<1>. QED
  BY <1>6, <1>7

\* A store into a variable that is another name of the register in which a
\* result of the store's type is returned.
Suits(inst) ==
    merged /\ conv.arch # "X86" =>
        inst.ty # "void" /\ ReturnValVar(conv.arch, conv.cc, inst.ty) \in RegisterAliasSet(inst.var)

\* The names in a row of a table.
LEMMA RowRegs ==
    ASSUME NEW regs, regs \in Seq(Range(regs)), NEW kinds
    PROVE  /\ Rows(regs, kinds) \in Seq(Range(Rows(regs, kinds))) /\ DOMAIN Rows(regs, kinds) = DOMAIN regs
           /\ \A i \in DOMAIN regs : Rows(regs, kinds)[i].var_name = regs[i]
<1>. DEFINE t == Rows(regs, kinds)
<1>1. t = [i \in DOMAIN regs |-> t[i]] /\ \A i \in DOMAIN regs : t[i].var_name = regs[i]
  BY DEF Rows
<1>. HIDE DEF t
<1>2. t \in Seq(Range(t)) /\ DOMAIN t = DOMAIN regs
  BY <1>1, Elementwise
<1>. QED
  BY <1>1, <1>2 DEF t

\* ... and in two tables, one after the other.
LEMMA TableRegs ==
    ASSUME NEW s, s \in Seq(Range(s)), NEW t, t \in Seq(Range(t))
    PROVE  /\ s \o t \in Seq(Range(s \o t))
           /\ \A reg \in Range(RegsFromTable(s \o t)) :
                 (\E i \in DOMAIN s : reg = s[i].var_name) \/ \E i \in DOMAIN t : reg = t[i].var_name
<1>. DEFINE S == Range(s) \cup Range(t)
            u == s \o t
<1>1. Range(s) \subseteq S /\ Range(t) \subseteq S
  OBVIOUS
<1>. HIDE DEF S
<1>2. s \in Seq(S) /\ t \in Seq(S)
  BY <1>1, SequenceOfMore
<1>3. /\ u \in Seq(S) /\ Len(u) = Len(s) + Len(t)
      /\ \A i \in 1..(Len(s) + Len(t)) : u[i] = IF i <= Len(s) THEN s[i] ELSE t[i - Len(s)]
  BY <1>2, Concatenated
<1>. HIDE DEF u
<1>4. /\ DOMAIN u = 1..Len(u) /\ Len(u) \in Nat /\ u = [i \in 1..Len(u) |-> u[i]]
      /\ DOMAIN s = 1..Len(s) /\ Len(s) \in Nat /\ DOMAIN t = 1..Len(t) /\ Len(t) \in Nat
  BY <1>2, <1>3
<1>5. u \in Seq(Range(u))
  BY <1>4, IsSequence
<1>6. ASSUME NEW reg \in Range(RegsFromTable(u))
      PROVE  (\E i \in DOMAIN s : reg = s[i].var_name) \/ \E i \in DOMAIN t : reg = t[i].var_name
  <2>1. PICK i \in DOMAIN u : reg = u[i].var_name
    BY DEF Range, RegsFromTable
  <2>2. i \in DOMAIN s \/ (i - Len(s) \in DOMAIN t /\ ~(i <= Len(s)))
    BY <1>3, <1>4, <2>1
  <2>. QED
    BY <1>3, <1>4, <2>1, <2>2
<1>. QED
  BY <1>5, <1>6 DEF u

\* The registers in which the conventions return results.
LEMMA ReturnRegisters ==
    /\ \A arch, cc : cc \in {"X86_64_SysV", "Win64"} => Range(ReturnRegs(arch, cc)) \subseteq {"RAX", "XMM0"}
    /\ Range(ReturnRegs("AArch64", "C")) \subseteq {"X0", "S0", "D0"}
<1>. DEFINE Row(reg, kinds) == Rows(<<reg>>, kinds)
<1>1. ASSUME NEW reg, NEW kinds
      PROVE  /\ Row(reg, kinds) \in Seq(Range(Row(reg, kinds)))
             /\ \A i \in DOMAIN Row(reg, kinds) : Row(reg, kinds)[i].var_name = reg
  <2>. DEFINE regs == <<reg>>
  <2>1. DOMAIN regs = 1..1 /\ regs[1] = reg
    BY 1..1 = {1}
  <2>2. regs = [i \in 1..1 |-> regs[i]]
    BY 1..1 = {1}
  <2>. HIDE DEF regs
  <2>3. regs \in Seq(Range(regs))
    BY <2>2, IsSequence
  <2>4. /\ Rows(regs, kinds) \in Seq(Range(Rows(regs, kinds))) /\ DOMAIN Rows(regs, kinds) = DOMAIN regs
        /\ \A i \in DOMAIN regs : Rows(regs, kinds)[i].var_name = regs[i]
    BY <2>3, RowRegs
  <2>. QED
    BY <2>1, <2>4, 1..1 = {1} DEF regs
<1>2. /\ \A cc, arch : cc \in {"X86_64_SysV", "Win64"} =>
             ReturnTable(arch, cc) = Row("RAX", kIntegralLeast64) \o Row("XMM0", kFloats)
      /\ ReturnTable("AArch64", "C") = Row("X0", kIntegralLeast64) \o Row("S0", {"F32"}) \o Row("D0", kFloats)
  BY DEF ReturnTable
<1>. HIDE DEF Row
<1>3. ASSUME NEW arch, NEW cc \in {"X86_64_SysV", "Win64"}, NEW r \in Range(ReturnRegs(arch, cc))
      PROVE  r \in {"RAX", "XMM0"}
  <2>. DEFINE a == Row("RAX", kIntegralLeast64)
              b == Row("XMM0", kFloats)
  <2>1. ReturnTable(arch, cc) = a \o b
    BY <1>2
  <2>2. /\ a \in Seq(Range(a)) /\ \A i \in DOMAIN a : a[i].var_name = "RAX"
        /\ b \in Seq(Range(b)) /\ \A i \in DOMAIN b : b[i].var_name = "XMM0"
    BY <1>1
  <2>. HIDE DEF a, b
  <2>3. r \in Range(RegsFromTable(a \o b))
    BY <2>1 DEF ReturnRegs
  <2>4. (\E i \in DOMAIN a : r = a[i].var_name) \/ \E i \in DOMAIN b : r = b[i].var_name
    BY <2>2, <2>3, TableRegs
  <2>. QED
    BY <2>2, <2>4
<1>4. ASSUME NEW r \in Range(ReturnRegs("AArch64", "C")) PROVE r \in {"X0", "S0", "D0"}
  <2>. DEFINE a == Row("X0", kIntegralLeast64)
              b == Row("S0", {"F32"})
              c == Row("D0", kFloats)
  <2>1. ReturnTable("AArch64", "C") = a \o b \o c
    BY <1>2
  <2>2. /\ a \in Seq(Range(a)) /\ \A i \in DOMAIN a : a[i].var_name = "X0"
        /\ b \in Seq(Range(b)) /\ \A i \in DOMAIN b : b[i].var_name = "S0"
        /\ c \in Seq(Range(c)) /\ \A i \in DOMAIN c : c[i].var_name = "D0"
    BY <1>1
  <2>. HIDE DEF a, b, c
  <2>. DEFINE ab == a \o b
  <2>3. /\ ab \in Seq(Range(ab))
        /\ \A reg \in Range(RegsFromTable(ab)) :
              (\E i \in DOMAIN a : reg = a[i].var_name) \/ \E i \in DOMAIN b : reg = b[i].var_name
    BY <2>2, TableRegs
  <2>4. r \in Range(RegsFromTable(ab \o c))
    BY <2>1 DEF ReturnRegs
  <2>. HIDE DEF ab
  <2>5. (\E i \in DOMAIN ab : r = ab[i].var_name) \/ \E i \in DOMAIN c : r = c[i].var_name
    BY <2>2, <2>3, <2>4, TableRegs
  <2>6. ASSUME NEW i \in DOMAIN ab PROVE ab[i].var_name \in Range(RegsFromTable(ab))
    BY DEF Range, RegsFromTable
  <2>. QED
    BY <2>2, <2>3, <2>5, <2>6
<1>. QED
  BY <1>3, <1>4

\* RecoverRetType and ReturnValVar agree: what is stored under any name of a return
\* register has a type that is returned in that register.
LEMMA StoredWhereReturned ==
    ASSUME ResultsTyped, conv \in Conventions, NEW reg \in Range(ReturnRegs(conv.arch, conv.cc)),
           NEW inst, inst.var \in RegisterAliasSet(reg), Carries(inst.var, inst.ty)
    PROVE  Suits(inst)
<1>. SUFFICES ASSUME merged, conv.arch # "X86"
              PROVE  inst.ty # "void" /\ ReturnValVar(conv.arch, conv.cc, inst.ty) \in RegisterAliasSet(inst.var)
  BY DEF Suits
<1>. DEFINE arch == conv.arch
            cc == conv.cc
            var == inst.var
            ty == inst.ty
<1>1. \A r : RegisterAliasSet(r) = {r} \cup UNION {s \in Aliases(arch) : r \in s}
  BY DEF RegisterAliasSet
<1>2. reg \in Range(ReturnRegs(arch, cc)) /\ Carries(var, ty)
  OBVIOUS
<1>3. var = reg \/ \E s \in Aliases(arch) : reg \in s /\ var \in s
  BY <1>1
<1>4. \/ arch = "AMD64" /\ cc \in {"X86_64_SysV", "Win64"}
      \/ arch = "AArch64" /\ cc = "C"
  BY DEF ResultsTyped
<1>. HIDE DEF arch, cc, var, ty
<1>5. CASE arch = "AMD64" /\ cc \in {"X86_64_SysV", "Win64"}
  <2>1. reg \in {"RAX", "XMM0"}
    BY <1>2, <1>5, ReturnRegisters
  <2>2. ty \in kIntegralLeast64 => ReturnValVar(arch, cc, ty) = "RAX" /\ ty # "void"
    BY <1>5 DEF ReturnValVar, IntReturnValVar, kIntegralLeast64, kIntegralLeast32, kFloats
  <2>3. ty \in kFloats => ReturnValVar(arch, cc, ty) = "XMM0" /\ ty # "void"
    BY <1>5 DEF ReturnValVar, FloatReturnValVar, kIntegralLeast64, kIntegralLeast32, kFloats
  <2>4. Aliases(arch) = AMD64Aliases
    BY <1>5 DEF Aliases
  <2>5. CASE reg = "RAX"
    <3>. DEFINE family == {"AL", "AH", "AX", "EAX", "RAX"}
    <3>1. family \in AMD64Aliases /\ \A s \in AMD64Aliases : "RAX" \in s => s = family
      BY DEF AMD64Aliases
    <3>2. var \in family
      BY <1>3, <2>4, <2>5, <3>1
    <3>3. "RAX" \in RegisterAliasSet(var)
      BY <1>1, <2>4, <3>1, <3>2
    <3>4. ty \in kIntegralLeast64
      BY <1>2, <3>2 DEF Carries
    <3>. QED
      BY <2>2, <3>3, <3>4 DEF arch, cc, var, ty
  <2>6. CASE reg = "XMM0"
    <3>1. \A s \in AMD64Aliases : "XMM0" \notin s
      BY DEF AMD64Aliases
    <3>2. var = "XMM0"
      BY <1>3, <2>4, <2>6, <3>1
    <3>3. ty \in kFloats /\ "XMM0" \in RegisterAliasSet(var)
      BY <1>1, <1>2, <3>2 DEF Carries
    <3>. QED
      BY <2>3, <3>3 DEF arch, cc, var, ty
  <2>. QED
    BY <2>1, <2>5, <2>6
<1>6. CASE arch = "AArch64" /\ cc = "C"
  <2>1. reg \in {"X0", "S0", "D0"}
    BY <1>2, <1>6, ReturnRegisters
  <2>2. ty \in kIntegralLeast64 => ReturnValVar(arch, cc, ty) = "X0" /\ ty # "void"
    BY <1>6 DEF ReturnValVar, IntReturnValVar, kIntegralLeast64, kIntegralLeast32, kFloats
  <2>3. /\ ty = "F32" => ReturnValVar(arch, cc, ty) = "S0" /\ ty # "void"
        /\ ty = "F64" => ReturnValVar(arch, cc, ty) = "D0" /\ ty # "void"
    BY <1>6 DEF ReturnValVar, FloatReturnValVar, kIntegralLeast64, kIntegralLeast32, kFloats
  <2>4. Aliases(arch) = AArch64Aliases
    BY <1>6 DEF Aliases
  <2>5. CASE reg = "X0"
    <3>. DEFINE family == {"W0", "X0"}
    <3>1. family \in AArch64Aliases /\ \A s \in AArch64Aliases : "X0" \in s => s = family
      BY DEF AArch64Aliases
    <3>2. var \in family
      BY <1>3, <2>4, <2>5, <3>1
    <3>3. "X0" \in RegisterAliasSet(var)
      BY <1>1, <2>4, <3>1, <3>2
    <3>4. ty \in kIntegralLeast64
      BY <1>2, <3>2 DEF Carries
    <3>. QED
      BY <2>2, <3>3, <3>4 DEF arch, cc, var, ty
  <2>6. CASE reg \in {"S0", "D0"}
    <3>1. \A s \in AArch64Aliases : "S0" \notin s /\ "D0" \notin s
      BY DEF AArch64Aliases
    <3>2. var = reg
      BY <1>3, <2>4, <2>6, <3>1
    <3>3. var \in RegisterAliasSet(var)
      BY <1>1
    <3>4. (var = "S0" /\ ty = "F32") \/ (var = "D0" /\ ty = "F64")
      BY <1>2, <2>6, <3>2 DEF Carries
    <3>. QED
      BY <2>3, <3>3, <3>4 DEF arch, cc, var, ty
  <2>. QED
    BY <2>1, <2>5, <2>6
<1>. QED
  BY <1>4, <1>5, <1>6

\* CHECK(found_types.size() < 2): the type of the function is that of each of its stores.
LEMMA OneTypeFound ==
    ASSUME NEW code, code \in Seq(Range(code)), Cardinality(FoundTypes(code)) < 2
    PROVE  \A n \in ReturnStores(code) : code[n].ty = RecoverRetType(FoundTypes(code))
<1>. DEFINE stores == ReturnStores(code)
            types == FoundTypes(code)
            Ty == [n \in stores |-> code[n].ty]
<1>1. DOMAIN code = 1..Len(code) /\ Len(code) \in Nat
  OBVIOUS
<1>2. stores \subseteq 1..Len(code)
  <2>1. ASSUME NEW n \in stores PROVE n \in 1..Len(code)
    <3>1. PICK reg \in Range(ReturnRegs(conv.arch, conv.cc)), i \in TerminalBlocksOf(code) :
            IsLast(code, RegisterAliasSet(reg), i, n)
      BY ReturnStore
    <3>2. i \in 1..Len(code) /\ n \in 1..i
      BY <1>1, <3>1 DEF IsLast, TerminalBlocksOf
    <3>. QED
      BY <1>1, <3>2
  <2>. QED
    BY <2>1
<1>3. types = {Ty[n] : n \in stores} /\ Ty \in [stores -> types]
  BY DEF FoundTypes
<1>. HIDE DEF stores, types, Ty
<1>4. IsFiniteSet(1..Len(code))
  BY <1>1, FS_Interval
<1>5. IsFiniteSet(stores)
  BY <1>2, <1>4, FS_Subset
<1>6. IsFiniteSet(types)
  <2>1. Ty \in Surjection(stores, types)
    BY <1>3 DEF Surjection
  <2>. QED
    BY <1>5, <2>1, FS_Surjection
<1>7. Cardinality(types) \in Nat /\ Cardinality(types) < 2
  BY <1>6, FS_CardinalityType DEF types
<1>8. Cardinality(types) = 0 \/ Cardinality(types) = 1
  BY <1>7
<1>9. types = {} \/ \E ty : types = {ty}
  BY <1>6, <1>8, FS_EmptySet, FS_Singleton
<1>10. ASSUME NEW n \in stores PROVE Ty[n] = RecoverRetType(types)
  <2>1. Ty[n] \in types
    BY <1>3
  <2>2. PICK ty : types = {ty}
    BY <1>9, <2>1
  <2>3. RecoverRetType(types) = ty
    BY <2>2 DEF RecoverRetType
  <2>. QED
    BY <2>1, <2>2, <2>3
<1>. QED
  BY <1>10 DEF stores, types, Ty

-----------------------------------------------------------------------------
(***************************************************************************)
(* The invariant for results                                               *)
(***************************************************************************)
\* Every result of the body is stored where a result of its type is returned, and has type ret.
Suiting(code) == \A n \in ReturnStores(code) : Suits(code[n])
Typed(code, ret) == \A n \in ReturnStores(code) : code[n].ty = ret

\* A new function with its body: what it stores is of its type, and that is what it returns.
Returned(fn) ==
    /\ Suiting(fn.code) /\ Typed(fn.code, fn.ret)
    /\ fn.ret # "void" => \A i \in TerminalBlocksOf(fn.code) : fn.code[i].val = Result(fn.ret)

\* A call of a new function stores the result where a result of the function's type is returned.
Delivered(call) ==
    \A g \in Funcs : Exists(g + NumFuncs) /\ call.to = g + NumFuncs => call.dst = Result(fns[g + NumFuncs].ret)

\* The two loops of runOnModule, as far as results are concerned.
ResultInv ==
    /\ stage \in {"declare", "clone"} => \A f \in Funcs :
         Suiting(fns[f].code) /\ (f < k /\ Exists(f + NumFuncs) => Returned(fns[f + NumFuncs]))
    /\ stage = "clone" => Typed(fns[k].code, fns[k + NumFuncs].ret)
    /\ stage \in {"replace", "optimize"} => \A f \in Funcs : Exists(f + NumFuncs) =>
         Returned(fns[f + NumFuncs]) /\ \A call \in CallsIn(fns[f + NumFuncs].code) : Delivered(call)

\* All of this is about the function alone, for a given target.
LEMMA ResultsKept ==
    ASSUME conv' = conv, merged' = merged
    PROVE  /\ \A v : Returned(fns'[v]) => Returned(fns[v])'
           /\ \A v : Suiting(fns'[v].code) => Suiting(fns[v].code)'
           /\ \A v, w : Typed(fns'[v].code, fns'[w].ret) => Typed(fns[v].code, fns[w].ret)'
<1>1. ASSUME NEW code PROVE ReturnStores(code)' = ReturnStores(code)
  BY DEF ReturnStores, RegisterAliasSet
<1>2. ASSUME NEW inst, Suits(inst) PROVE Suits(inst)'
  BY <1>2 DEF Suits, RegisterAliasSet
<1>3. \A code : Suiting(code) => Suiting(code)'
  BY <1>1, <1>2 DEF Suiting
<1>4. \A code, ret : Typed(code, ret) => Typed(code, ret)'
  BY <1>1 DEF Typed
<1>5. \A fn : Returned(fn) => Returned(fn)'
  BY <1>3, <1>4 DEF Returned, Result
<1>. QED
  BY <1>3, <1>4, <1>5

\* What the lifter leaves.
LEMMA InitResults ==
    ASSUME ResultsTyped, InitBoth
    PROVE  ResultInv
<1>1. conv \in Conventions /\ stage = "declare" /\ k = 1
  BY DEF InitBoth, Init
<1>2. PICK body \in Bodies(conv.arch) :
        fns = [v \in Values |->
                IF v \in Funcs THEN [prefix |-> "", params |-> <<>>, ret |-> "lifted", locals |-> FALSE, code |-> body[v]]
                               ELSE Gone]
  BY DEF InitBoth, Init
<1>3. ASSUME NEW f \in Funcs PROVE Suiting(fns[f].code)
  <2>1. fns[f].code = body[f]
    BY <1>2, Numbers
  <2>2. PassesInv
    BY InitInv
  <2>3. fns[f].code \in Seq(Range(fns[f].code))
    BY <1>1, <2>2, DeclaredBefore, LiftedIsCode DEF IsCode
  <2>. SUFFICES ASSUME NEW n \in ReturnStores(fns[f].code) PROVE Suits(fns[f].code[n])
    BY DEF Suiting
  <2>4. PICK reg \in Range(ReturnRegs(conv.arch, conv.cc)), i \in TerminalBlocksOf(fns[f].code) :
          fns[f].code[n].op = "store" /\ IsLast(fns[f].code, RegisterAliasSet(reg), i, n)
    BY <2>3, ReturnStore
  <2>5. n \in DOMAIN fns[f].code /\ fns[f].code[n].var \in RegisterAliasSet(reg)
    <3>1. i \in DOMAIN fns[f].code /\ n \in 1..i /\ fns[f].code[n].var \in RegisterAliasSet(reg)
      BY <2>4 DEF IsLast, IsUser, TerminalBlocksOf
    <3>. QED
      BY <2>3, <3>1
  <2>6. CASE conv.arch = "X86"
    BY <2>6 DEF Suits
  <2>7. CASE conv.arch # "X86"
    <3>1. Carries(fns[f].code[n].var, fns[f].code[n].ty)
      BY <1>1, <2>1, <2>4, <2>5, <2>7 DEF ResultsTyped
    <3>. QED
      BY <1>1, <2>5, <3>1, StoredWhereReturned
  <2>. QED
    BY <2>6, <2>7
<1>4. \A f \in Funcs : ~(f < k)
  BY <1>1 DEF Funcs
<1>. QED
  BY <1>1, <1>3, <1>4 DEF ResultInv

\* The end of the first loop, for one function.
LEMMA ResultLoop ==
    ASSUME PassesInv, PassesInv', Advance("declare", "replace"),
           \A f \in Funcs : Suiting(fns[f].code)' /\ (f < k \/ f = k => (Exists(f + NumFuncs)' => Returned(fns[f + NumFuncs])'))
    PROVE  ResultInv'
<1>1. \A f \in Funcs : f \in Nat /\ f >= 1 /\ f <= NumFuncs
  BY Numbers DEF Funcs
<1>2. k \in Funcs /\ ModuleOK
  BY DEF PassesInv, ModuleOK
<1>3. CASE k < NumFuncs /\ stage' = "declare" /\ k' = k + 1
  <2>1. \A f \in Funcs : f < k' => f < k \/ f = k
    BY <1>1, <1>2, <1>3
  <2>. QED
    BY <1>3, <2>1 DEF ResultInv
<1>4. CASE k = NumFuncs /\ stage' = "replace" /\ k' = 1
  <2>1. \A f \in Funcs : f < k \/ f = k
    BY <1>1, <1>4, Numbers
  <2>2. ASSUME NEW f \in Funcs, Exists(f + NumFuncs)', NEW call \in CallsIn(fns'[f + NumFuncs].code)
        PROVE  Delivered(call)'
    <3>1. call.callee \in Funcs
      <4>1. FunctionShape(fns[f + NumFuncs])'
        BY <2>2, Numbers DEF PassesInv, ModuleOK
      <4>. QED
        BY <2>2, <4>1 DEF FunctionShape, IsCode, CallShape
    <3>2. ~Past(call.callee)'
      BY <1>1, <1>4, <3>1 DEF Past
    <3>3. Followed(f, call)'
      BY <1>4, <2>2 DEF PassesInv, Replacing
    <3>4. call.to = call.callee
      BY <3>2, <3>3 DEF Followed
    <3>5. \A g \in Funcs : call.to # g + NumFuncs
      BY <3>1, <3>4, Numbers
    <3>. QED
      BY <3>5 DEF Delivered
  <2>. QED
    BY <1>4, <2>1, <2>2 DEF ResultInv
<1>. QED
  BY <1>2, <1>3, <1>4, Advances

\* A new function gets the type of what the old one stores.
LEMMA RecoverResults ==
    ASSUME PassesInv, PassesInv', ResultInv, Recover
    PROVE  ResultInv'
<1>1. stage = "declare" /\ conv' = conv /\ merged' = merged /\ k \in Funcs /\ ModuleOK
  BY DEF Recover, PassesInv, ModuleOK
<1>2. \A f \in Funcs : Suiting(fns[f].code) /\ (f < k /\ Exists(f + NumFuncs) => Returned(fns[f + NumFuncs]))
  BY <1>1 DEF ResultInv
<1>3. ASSUME NEW f \in Funcs
      PROVE  Lifted(fns[f].code) /\ (Exists(f + NumFuncs) <=> fns[f].code # <<>> /\ f < k)
  BY <1>1, DeclaredBefore
<1>4. CASE ~IsLiftedFunction(k) /\ fns' = fns /\ Advance("declare", "replace")
  <2>1. ~Exists(k + NumFuncs)
    BY <1>1, <1>3, Numbers
  <2>2. ASSUME NEW f \in Funcs
        PROVE  Suiting(fns[f].code)' /\ (f < k \/ f = k => (Exists(f + NumFuncs)' => Returned(fns[f + NumFuncs])'))
    <3>1. Exists(f + NumFuncs)' = Exists(f + NumFuncs)
      BY <1>4 DEF Exists
    <3>2. Suiting(fns'[f].code) /\ (Exists(f + NumFuncs) /\ f < k => Returned(fns'[f + NumFuncs]))
      BY <1>2, <1>4
    <3>. QED
      BY <1>1, <2>1, <3>1, <3>2, ResultsKept
  <2>. QED
    BY <1>4, <2>2, ResultLoop
<1>5. CASE stage' = "fatal"
  BY <1>5 DEF ResultInv
<1>6. CASE /\ IsLiftedFunction(k) /\ Cardinality(FoundTypes(fns[k].code)) < 2
           /\ fns' = [fns EXCEPT ![k + NumFuncs] =
                        DeclareParametrizedFunc(UsedRegs(ParamVars(fns[k].code)), FoundTypes(fns[k].code))]
           /\ stage' = "clone" /\ k' = k
  <2>1. DOMAIN fns = Values /\ k \in Values /\ k + NumFuncs \in Values /\ k # k + NumFuncs
    BY <1>1, Numbers DEF ModuleOK
  <2>2. PICK new : /\ new = DeclareParametrizedFunc(UsedRegs(ParamVars(fns[k].code)), FoundTypes(fns[k].code))
                   /\ fns' = [fns EXCEPT ![k + NumFuncs] = new]
    BY <1>6
  <2>3. fns'[k + NumFuncs] = new /\ \A v \in Values : v # k + NumFuncs => fns'[v] = fns[v]
    BY <2>1, <2>2
  <2>4. new.ret = RecoverRetType(FoundTypes(fns[k].code))
    BY <2>2 DEF DeclareParametrizedFunc
  <2>5. fns[k].code \in Seq(Range(fns[k].code))
    BY <1>1, <1>3, LiftedIsCode DEF IsCode
  <2>6. \A n \in ReturnStores(fns[k].code) : fns[k].code[n].ty = RecoverRetType(FoundTypes(fns[k].code))
    BY <1>6, <2>5, OneTypeFound
  <2>7. Typed(fns'[k].code, fns'[k + NumFuncs].ret)
    BY <2>1, <2>3, <2>4, <2>6 DEF Typed
  <2>8. Typed(fns[k].code, fns[k + NumFuncs].ret)'
    BY <1>1, <1>6, <2>7, ResultsKept
  <2>9. ASSUME NEW f \in Funcs
        PROVE  Suiting(fns[f].code)' /\ (f < k' /\ Exists(f + NumFuncs)' => Returned(fns[f + NumFuncs])')
    <3>1. f \in Values /\ f + NumFuncs \in Values /\ f # k + NumFuncs
          /\ (f < k => f + NumFuncs # k + NumFuncs)
      BY <1>1, Numbers
    <3>2. fns'[f] = fns[f] /\ (f < k => fns'[f + NumFuncs] = fns[f + NumFuncs])
      BY <2>3, <3>1
    <3>3. f < k /\ Exists(f + NumFuncs)' => Returned(fns'[f + NumFuncs])
      BY <1>2, <3>2 DEF Exists
    <3>. QED
      BY <1>1, <1>2, <1>6, <3>2, <3>3, ResultsKept
  <2>. QED
    BY <1>6, <2>8, <2>9 DEF ResultInv
<1>. QED
  <2>1. \/ ~IsLiftedFunction(k) /\ fns' = fns /\ Advance("declare", "replace")
        \/ stage' = "fatal"
        \/ /\ IsLiftedFunction(k) /\ Cardinality(FoundTypes(fns[k].code)) < 2
           /\ fns' = [fns EXCEPT ![k + NumFuncs] =
                        DeclareParametrizedFunc(UsedRegs(ParamVars(fns[k].code)), FoundTypes(fns[k].code))]
           /\ stage' = "clone" /\ k' = k
    BY DEF Recover
  <2>. QED
    BY <1>4, <1>5, <1>6, <2>1

\* The new body stores what the old one stored, and returns it.
LEMMA CloneResults ==
    ASSUME PassesInv, PassesInv', ResultInv, Clone
    PROVE  ResultInv'
<1>1. /\ stage = "clone" /\ conv' = conv /\ merged' = merged /\ k \in Funcs /\ ModuleOK
      /\ Advance("declare", "replace") /\ fns[k].code # <<>>
  BY DEF Clone, PassesInv, ModuleOK
<1>2. /\ \A f \in Funcs : Suiting(fns[f].code) /\ (f < k /\ Exists(f + NumFuncs) => Returned(fns[f + NumFuncs]))
      /\ Typed(fns[k].code, fns[k + NumFuncs].ret)
  BY <1>1 DEF ResultInv
<1>3. /\ k \in Values /\ k + NumFuncs \in Values /\ k # k + NumFuncs /\ DOMAIN fns = Values
  BY <1>1, Numbers DEF ModuleOK
<1>4. Exists(k) /\ Exists(k + NumFuncs) /\ Lifted(fns[k].code)
  BY <1>1, DeclaredBefore
<1>5. FunctionShape(fns[k]) /\ FunctionShape(fns[k + NumFuncs])
  BY <1>1, <1>3, <1>4 DEF ModuleOK
<1>6. IsRegs(fns[k + NumFuncs].params)
  BY <1>1, <1>4 DEF PassesInv, Declaring
<1>7. PICK old, code, new :
        /\ old = [fns[k] EXCEPT !.locals = TRUE]
        /\ code = LoadReturnRegToRetInsts(fns[k + NumFuncs].ret, StoreRegArgsToLocals(fns[k + NumFuncs].params, old.code))
        /\ new = [fns[k + NumFuncs] EXCEPT !.locals = old.locals, !.code = code]
        /\ fns' = [fns EXCEPT ![k] = old, ![k + NumFuncs] = new]
  BY DEF Clone, ConvertRemillArgsToLocals
<1>8. old.code = fns[k].code
  BY <1>5, <1>7 DEF FunctionShape
<1>9. new.code = code /\ new.ret = fns[k + NumFuncs].ret
  <2>. DEFINE fn == fns[k + NumFuncs]
              locals == old.locals
  <2>1. new = [fn EXCEPT !.locals = locals, !.code = code] /\ FunctionShape(fn)
    BY <1>5, <1>7
  <2>. HIDE DEF fn, locals
  <2>2. {"ret", "locals", "code"} \subseteq DOMAIN fn
    BY <2>1 DEF FunctionShape
  <2>3. new.code = code /\ new.ret = fn.ret
    BY <2>1, <2>2
  <2>. QED
    BY <2>3 DEF fn
<1>10. /\ IsCode(code)
       /\ \E shift : SameBlocks(fns[k].code, code, shift)
       /\ new.ret # "void" =>
             \A i \in DOMAIN code : code[i].op = "ret" => code[i].val = ReturnValVar(conv.arch, conv.cc, new.ret)
  BY <1>1, <1>4, <1>6, <1>7, <1>8, <1>9, Cloned DEF IsRegs
<1>11. \A n \in ReturnStores(code) : \E m \in ReturnStores(fns[k].code) : code[n] = fns[k].code[m]
  <2>1. fns[k].code \in Seq(Range(fns[k].code)) /\ code \in Seq(Range(code))
    BY <1>5, <1>10 DEF FunctionShape, IsCode
  <2>. QED
    BY <1>10, <2>1, ReturnsShifted
<1>12. Returned(new)
  <2>1. Suiting(new.code) /\ Typed(new.code, new.ret)
    BY <1>1, <1>2, <1>9, <1>11 DEF Suiting, Typed
  <2>2. new.ret # "void" => \A i \in TerminalBlocksOf(new.code) : new.code[i].val = Result(new.ret)
    BY <1>9, <1>10 DEF TerminalBlocksOf, Result
  <2>. QED
    BY <2>1, <2>2 DEF Returned
<1>13. /\ fns'[k] = old /\ fns'[k + NumFuncs] = new
       /\ \A v \in Values : v # k /\ v # k + NumFuncs => fns'[v] = fns[v]
  BY <1>3, <1>7
<1>14. ASSUME NEW f \in Funcs
       PROVE  Suiting(fns[f].code)' /\ (f < k \/ f = k => (Exists(f + NumFuncs)' => Returned(fns[f + NumFuncs])'))
  <2>1. f \in Values /\ f + NumFuncs \in Values /\ f # k + NumFuncs /\ f + NumFuncs # k
        /\ (f # k => f + NumFuncs # k + NumFuncs) /\ (f < k => f # k)
    BY <1>1, Numbers
  <2>2. fns'[f].code = fns[f].code
    BY <1>8, <1>13, <2>1
  <2>3. f # k => fns'[f + NumFuncs] = fns[f + NumFuncs]
    BY <1>13, <2>1
  <2>4. f < k /\ Exists(f + NumFuncs)' => Returned(fns'[f + NumFuncs])
    BY <1>2, <2>1, <2>3 DEF Exists
  <2>5. f = k => Returned(fns'[f + NumFuncs])
    BY <1>12, <1>13
  <2>6. Suiting(fns'[f].code)
    BY <1>2, <2>2
  <2>. QED
    BY <1>1, <2>4, <2>5, <2>6, ResultsKept
<1>. QED
  BY <1>1, <1>14, ResultLoop

\* Rewriting calls leaves what the function returns.
LEMMA ReturnedRewritten ==
    ASSUME NEW fn, IsCode(fn.code), Returned(fn), NEW new, new.ret = fn.ret, OnlyCallsDiffer(fn.code, new.code)
    PROVE  Returned(new)
<1>1. /\ \A n \in ReturnStores(new.code) : \E m \in ReturnStores(fn.code) : new.code[n] = fn.code[m]
      /\ \A i \in TerminalBlocksOf(new.code) : i \in TerminalBlocksOf(fn.code) /\ new.code[i] = fn.code[i]
  BY ReturnsRewritten
<1>2. Suiting(new.code) /\ Typed(new.code, new.ret)
  BY <1>1 DEF Returned, Suiting, Typed
<1>3. new.ret # "void" => \A i \in TerminalBlocksOf(new.code) : new.code[i].val = Result(new.ret)
  BY <1>1 DEF Returned
<1>. QED
  BY <1>2, <1>3 DEF Returned

\* The calls of a function get the register of its type.
LEMMA ReplaceResults ==
    ASSUME PassesInv, ResultInv, Replace
    PROVE  ResultInv'
<1>1. /\ stage = "replace" /\ conv' = conv /\ merged' = merged /\ k \in Funcs /\ ModuleOK
      /\ stage' \in {"replace", "optimize"}
  BY DEF Replace, PassesInv, ModuleOK, Advance
<1>2. PICK n \in Funcs : n = k
  BY <1>1
<1>3. ASSUME NEW f \in Funcs, Exists(f + NumFuncs)
      PROVE  Returned(fns[f + NumFuncs]) /\ \A call \in CallsIn(fns[f + NumFuncs].code) : Delivered(call)
  BY <1>1, <1>3 DEF ResultInv
<1>4. ASSUME NEW f \in Funcs PROVE f + NumFuncs \in Values /\ f + NumFuncs # n /\ f + NumFuncs # Undef
  BY Numbers
<1>5. CASE ~Exists(n + NumFuncs)
  <2>1. fns' = fns
    BY <1>2, <1>5 DEF Replace
  <2>2. ASSUME NEW f \in Funcs, Exists(f + NumFuncs)'
        PROVE  Returned(fns[f + NumFuncs])' /\ \A call \in CallsIn(fns'[f + NumFuncs].code) : Delivered(call)'
    <3>1. Returned(fns'[f + NumFuncs]) /\ \A call \in CallsIn(fns'[f + NumFuncs].code) : Delivered(call)
      BY <1>3, <2>1, <2>2 DEF Exists
    <3>2. \A call : Delivered(call) => Delivered(call)'
      BY <1>1, <2>1 DEF Delivered, Exists, Result
    <3>. QED
      BY <1>1, <3>1, <3>2, ResultsKept
  <2>. QED
    BY <1>1, <2>2 DEF ResultInv
<1>6. CASE Exists(n + NumFuncs)
  <2>1. fns' = TakeNameAndErase(n, n + NumFuncs, UpdateCalls(n))
    BY <1>2, <1>6 DEF Replace
  <2>2. ASSUME NEW f \in Funcs PROVE ReplacedBy(n, f + NumFuncs, fns'[f + NumFuncs])
    <3>1. PICK new : new = fns'[f + NumFuncs]
      OBVIOUS
    <3>2. new = TakeNameAndErase(n, n + NumFuncs, UpdateCalls(n))[f + NumFuncs]
      BY <2>1, <3>1
    <3>3. ReplacedBy(n, f + NumFuncs, new)
      BY <1>1, <1>4, <1>6, <3>2, ReplacedFunctions
    <3>. QED
      BY <3>1, <3>3
  <2>3. ASSUME NEW f \in Funcs
        PROVE  /\ Exists(f + NumFuncs)' <=> Exists(f + NumFuncs)
               /\ Exists(f + NumFuncs) => fns'[f + NumFuncs].ret = fns[f + NumFuncs].ret
    BY <1>4, <2>2 DEF ReplacedBy, Exists
  <2>4. ASSUME NEW f \in Funcs, Exists(f + NumFuncs) PROVE Returned(fns'[f + NumFuncs])
    <3>1. IsCode(fns[f + NumFuncs].code)
      BY <1>1, <1>4, <2>4 DEF ModuleOK, FunctionShape
    <3>2. /\ OnlyCallsDiffer(fns[f + NumFuncs].code, fns'[f + NumFuncs].code)
          /\ fns'[f + NumFuncs].ret = fns[f + NumFuncs].ret
      BY <1>4, <2>2, <2>4 DEF ReplacedBy
    <3>. QED
      BY <1>3, <2>4, <3>1, <3>2, ReturnedRewritten
  <2>5. ASSUME NEW f \in Funcs, Exists(f + NumFuncs), NEW call \in CallsIn(fns'[f + NumFuncs].code)
        PROVE  Delivered(call)'
    <3>. SUFFICES ASSUME NEW g \in Funcs, Exists(g + NumFuncs)', call.to = g + NumFuncs
                  PROVE  call.dst = Result(fns[g + NumFuncs].ret)'
      BY DEF Delivered
    <3>1. PICK old \in CallsIn(fns[f + NumFuncs].code) :
            IF old.to = n
            THEN IF fns[f + NumFuncs].prefix = "argrec_" THEN Replaced(call, n) ELSE call.to = Undef
            ELSE Same(call, old)
      BY <1>4, <2>2, <2>5 DEF ReplacedBy
    <3>2. Exists(g + NumFuncs) /\ fns'[g + NumFuncs].ret = fns[g + NumFuncs].ret
      BY <2>3
    <3>3. call.dst = Result(fns[g + NumFuncs].ret)
      <4>1. CASE old.to = n
        <5>1. Replaced(call, n)
          BY <1>4, <3>1, <4>1
        <5>2. n = g
          BY <5>1, Numbers DEF Replaced
        <5>. QED
          BY <5>1, <5>2 DEF Replaced
      <4>2. CASE old.to # n
        <5>1. Same(call, old) /\ Delivered(old)
          BY <1>3, <2>5, <3>1, <4>2
        <5>. QED
          BY <3>2, <5>1 DEF Same, Delivered
      <4>. QED
        BY <4>1, <4>2
    <3>. QED
      BY <1>1, <3>2, <3>3 DEF Result
  <2>6. ASSUME NEW f \in Funcs, Exists(f + NumFuncs)'
        PROVE  Returned(fns[f + NumFuncs])' /\ \A call \in CallsIn(fns'[f + NumFuncs].code) : Delivered(call)'
    <3>1. Exists(f + NumFuncs)
      BY <2>3, <2>6
    <3>. QED
      BY <1>1, <2>4, <2>5, <3>1, ResultsKept
  <2>. QED
    BY <1>1, <2>6 DEF ResultInv
<1>. QED
  BY <1>5, <1>6

\* The stack recovery comes after all of this.
LEMMA NextResults ==
    ASSUME PassesInv, PassesInv', ResultInv, [Next]_vars
    PROVE  ResultInv'
<1>1. CASE Recover /\ UNCHANGED stack
  BY <1>1, RecoverResults
<1>2. CASE Clone /\ UNCHANGED stack
  BY <1>2, CloneResults
<1>3. CASE Replace /\ UNCHANGED stack
  BY <1>3, ReplaceResults
<1>4. CASE Optimize \/ PromoteStackObjsToVars \/ RecoverCalls \/ TakeNames
  <2>1. stage' \notin {"declare", "clone", "replace", "optimize"}
    BY <1>4 DEF Optimize, PromoteStackObjsToVars, RecoverCalls, TakeNames, Advance
  <2>. QED
    BY <2>1 DEF ResultInv
<1>5. CASE UNCHANGED vars
  <2>1. conv' = conv /\ merged' = merged /\ fns' = fns /\ stage' = stage /\ k' = k
    BY <1>5 DEF vars
  <2>2. \A v : Exists(v)' = Exists(v)
    BY <2>1 DEF Exists
  <2>3. \A call : Delivered(call) => Delivered(call)'
    BY <2>1 DEF Delivered, Exists, Result
  <2>4. /\ \A v : Returned(fns[v]) => Returned(fns[v])'
        /\ \A v : Suiting(fns[v].code) => Suiting(fns[v].code)'
        /\ \A v, w : Typed(fns[v].code, fns[w].ret) => Typed(fns[v].code, fns[w].ret)'
    BY <2>1, ResultsKept
  <2>. QED
    BY <2>1, <2>2, <2>3, <2>4 DEF ResultInv
<1>. QED
  BY <1>1, <1>2, <1>3, <1>4, <1>5 DEF Next, Finished

\* In every state of RemillArgumentRecovery a new function that has its body returns in the register in which results
\* of its type arrive, stores them under a name of that register, and is called by calls that expect them there.
THEOREM ResultInvariance ==
    ASSUME ResultsTyped
    PROVE  Spec => []ResultInv
<1>1. InitBoth => ResultInv
  BY InitResults
<1>2. PassesInv /\ PassesInv' /\ ResultInv /\ [Next]_vars => ResultInv'
  BY NextResults
<1>. QED
  BY <1>1, <1>2, PassesInvariance, PTL DEF Spec

\* Behind the argument recovery the register that a function's return instructions load (LoadReturnRegToRetInsts) and
\* the one into which its callers put the result (UpdateCalls) are both the register that it stores its result into
\* (RecoverRetType), on every target whose tables name the registers, if results are stored with the types of
\* their registers.
THEOREM ResultsTheorem ==
    ASSUME ResultsTyped
    PROVE  Spec => []ResultsArrive
<1>1. PassesInv /\ ResultInv => ResultsArrive
  <2>. SUFFICES ASSUME PassesInv, ResultInv, stage = "optimize", merged, conv.arch # "X86",
                       NEW v \in Recovered, NEW n \in ReturnStores(fns[v].code)
         PROVE  /\ \A i \in TerminalBlocksOf(fns[v].code) :
                      fns[v].code[i].val \in RegisterAliasSet(fns[v].code[n].var)
                /\ \A c \in Recovered : \A j \in DOMAIN fns[c].code :
                      fns[c].code[j].op = "call" /\ fns[c].code[j].to = v
                        => fns[c].code[j].dst \in RegisterAliasSet(fns[v].code[n].var)
    BY DEF ResultsArrive, ArgsRecovered
  <2>1. ASSUME NEW w \in Recovered PROVE \E f \in Funcs : w = f + NumFuncs /\ Exists(w)
    <3>1. w - NumFuncs \in Funcs /\ w = (w - NumFuncs) + NumFuncs
      BY Numbers DEF Recovered, Funcs
    <3>. QED
      BY <3>1 DEF Recovered
  <2>2. PICK f \in Funcs : v = f + NumFuncs /\ Exists(v)
    BY <2>1
  <2>3. Returned(fns[v])
    BY <2>2 DEF ResultInv
  <2>4. /\ fns[v].code[n].ty = fns[v].ret /\ fns[v].ret # "void"
        /\ ReturnValVar(conv.arch, conv.cc, fns[v].ret) \in RegisterAliasSet(fns[v].code[n].var)
    BY <2>3 DEF Returned, Suiting, Typed, Suits
  <2>5. Result(fns[v].ret) \in RegisterAliasSet(fns[v].code[n].var)
    BY <2>4 DEF Result
  <2>6. \A i \in TerminalBlocksOf(fns[v].code) : fns[v].code[i].val = Result(fns[v].ret)
    BY <2>3, <2>4 DEF Returned
  <2>7. ASSUME NEW c \in Recovered, NEW j \in DOMAIN fns[c].code, fns[c].code[j].op = "call", fns[c].code[j].to = v
        PROVE  fns[c].code[j].dst = Result(fns[v].ret)
    <3>1. PICK g \in Funcs : c = g + NumFuncs /\ Exists(c)
      BY <2>1
    <3>2. PICK call \in CallsIn(fns[c].code) : call = fns[c].code[j]
      BY <2>7 DEF CallsIn
    <3>3. Delivered(call)
      BY <3>1, <3>2 DEF ResultInv
    <3>. QED
      BY <2>2, <2>7, <3>2, <3>3 DEF Delivered
  <2>. QED
    BY <2>5, <2>6, <2>7
<1>. QED
  BY <1>1, PassesInvariance, ResultInvariance, PTL

=============================================================================
