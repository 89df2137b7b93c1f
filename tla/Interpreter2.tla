---------------------------- MODULE Interpreter2 ----------------------------
(***************************************************************************)
(* One frame of the bytecode interpreter (src/vm/interpreter2.c) running   *)
(* any verified code.  The value on top of the operand stack is cached in  *)
(* a register, and each instruction has a handler for each kind of cached  *)
(* value; the slot of the top of the stack in memory is stale meanwhile,   *)
(* and only a handler that spills writes it.  The collector reads memory   *)
(* and moves objects: it knows from the code analysis which slots hold     *)
(* references, and updates those alone.                                    *)
(*                                                                         *)
(* words is the operand stack of the JVM specification, two words for a    *)
(* long or a double, with every reference up to date: what m must agree    *)
(* with.  Locals, fields and array elements are the rest of the heap and   *)
(* are not kept: a value read from them is a new value.                    *)
(***************************************************************************)
EXTENDS StackAnalysis

CONSTANTS
  StackLimit,   \* slots of the frame's operand stack
  Insns,        \* the instructions the code may contain
  Shapes,       \* the stacks with which the frame may be entered or resumed
  MaxInsns,     \* instructions executed
  MaxGC         \* collections

ASSUME BoundsAssumption ==
  StackLimit \in Nat \ {0} /\ MaxInsns \in Nat /\ MaxGC \in Nat

\* Only the instructions that name a field or a method have a descriptor, and a field has one type.
ASSUME CodeAssumption ==
  /\ \A i \in Insns :
       /\ i = Insn(i.op, i.args, i.ret)
       /\ i.op \in PlainKinds \union StackKinds \union FieldKinds \union InvokeKinds
       /\ i.args \in Seq(TypeKinds) /\ i.ret \in TypeKinds \union {"V"}
       /\ i.op \in {"getstatic", "getfield"} => i.ret # "V"
       /\ i.op \in {"putstatic", "putfield"} => Len(i.args) = 1
  /\ Shapes \subseteq {shape \in Seq(TypeKinds) : Len(shape) <= StackLimit}

VARIABLES
  types,   \* the analysis of the stack before the current instruction
  words,   \* the stack of the JVM specification
  m,       \* sp, the slots in memory, the register and its kind
  insn,    \* the instruction being executed, NoInsn between two instructions
  phase,   \* what the handler is doing
  ok,      \* every operand read so far was the right one
  lost,    \* the float on top of the stack was passed on as an int: see dup2_impl
  gc,      \* collections so far
  n        \* instructions executed so far

vars == <<types, words, m, insn, phase, ok, lost, gc, n>>

(***************************************************************************)
(* A value: its kind, which value it is, and for a reference the           *)
(* collection that last moved it.  Of an int only its 32 bits count: what  *)
(* the register has in its upper half is left out.                         *)
(***************************************************************************)
Value(t, id, epoch) == [t |-> t, id |-> id, gc |-> IF t = "L" THEN epoch ELSE 0]
Undef == Value("V", 0, 0)
Fresh(t) == Value(t, StackLimit + n + 1, gc)

IsWideValue(v) == is_kind_wide(v.t)
WordsOfValues(s) == Words(s, IsWideValue)

\* The values that begin in a stack of words.
ValuesOf(stack) ==
  LET whole[k \in 0..Len(stack)] ==
        IF k = 0 THEN <<>>
        ELSE IF stack[k][2] = 1 THEN Append(whole[k - 1], stack[k][1]) ELSE whole[k - 1]
  IN  whole[Len(stack)]
Values == ValuesOf(words)

\* The stack as the handlers see it: the register is the top of it.
Logical(mm) ==
  [i \in 1..mm.sp |-> IF i = mm.sp /\ mm.table # "V" THEN mm.tos ELSE mm.mem[i]]

(***************************************************************************)
(* The macros the handlers are made of.  At(mm, k) is *(sp - k).           *)
(***************************************************************************)
At(mm, k) == mm.mem[mm.sp - k + 1]
SPILL(mm) == IF mm.table = "V" THEN mm ELSE [mm EXCEPT !.mem[mm.sp] = mm.tos]
ReloadNothing(mm) == mm
RELOAD(mm) == [mm EXCEPT !.tos = At(mm, 1)]
FORWARD_TO_NULLARY(mm) == [SPILL(mm) EXCEPT !.table = "V", !.tos = Undef]
ADVANCE(mm, table, v) == [mm EXCEPT !.table = table, !.tos = v]
NEXT_of(mm, t, v) == ADVANCE(mm, calculate_tos_type(<<t>>), v)
JMP_VOID(mm) == ADVANCE(mm, "V", Undef)
STACK_POLYMORPHIC(mm, ts) ==
  IF ts = <<>> THEN JMP_VOID(mm) ELSE ADVANCE(mm, calculate_tos_type(ts), At(mm, 1))
Popped(mm, k) == [mm EXCEPT !.sp = @ - k]
PushedTop(mm, t, v) == NEXT_of([mm EXCEPT !.sp = @ + 1], t, v)

(***************************************************************************)
(* The collector relocates the objects of the slots that the analysis      *)
(* calls references, of the first k slots of the frame.                    *)
(***************************************************************************)
Moved(v) == IF v.t = "L" THEN [v EXCEPT !.gc = gc + 1] ELSE v
Relocated(mm, k) ==
  [mm EXCEPT !.mem = [i \in DOMAIN mm.mem |->
                        IF i <= k /\ types[i] = "L" THEN Moved(mm.mem[i]) ELSE mm.mem[i]]]

(***************************************************************************)
(* Executing one instruction: the analysis and the specification advance   *)
(* with it, used are the operands the handler read, bottom first.          *)
(***************************************************************************)
\* REWRITE: the kind as the analysis left it, another one where values are wide.
Rewritten(i) == [i EXCEPT !.kind = analyze_instruction(i, types, StackLimit).kind]

Candidates == {Rewritten(i) : i \in {j \in Insns : Legal(j, types, StackLimit)}}

Current == IF insn = NoInsn THEN Candidates ELSE {insn}

\* The handler of the next instruction is fetched from the table of the cached kind.
Dispatch(i, kinds) ==
  /\ phase = "run" /\ n < MaxInsns
  /\ i.kind \in kinds \intersect bytecode_tables[m.table]

TypesAfter(i) == analyze_instruction(i, types, StackLimit).types

WordsAfter(i, pushed) ==
  IF i.op \in StackKinds THEN WordEffect(i.op, words)
  ELSE WordsOfValues(Drop(Values, Len(Effect(i).pop)) \o pushed)

RightOperands(used) == LET v == Values IN \A k \in 1..Len(used) : Top(used, k) = Top(v, k)

\* dup2_impl_float ends in NEXT_INT.
LosesTable(i) == i.kind = "dup2" /\ m.table = "F"

\* The instruction is done: mm is the machine in front of the next one.
Done(i, used, pushed, mm) ==
  /\ types' = TypesAfter(i)
  /\ words' = WordsAfter(i, pushed)
  /\ ok' = (ok /\ RightOperands(used))
  /\ lost' = (lost \/ LosesTable(i))
  /\ m' = mm
  /\ insn' = NoInsn /\ phase' = "run" /\ n' = n + 1
  /\ UNCHANGED gc

\* The handler calls into the rest of the VM, or raises an exception there.
Enter(i, mm, where) ==
  /\ m' = mm /\ insn' = i /\ phase' = where
  /\ UNCHANGED <<types, words, ok, lost, gc, n>>

\* The same instruction again, with the kind it now has.
Again(kind, mm) ==
  /\ m' = mm /\ insn' = [insn EXCEPT !.kind = kind] /\ phase' = "run"
  /\ UNCHANGED <<types, words, ok, lost, gc, n>>

Raise(i) == Enter(i, SPILL(m), "throw")            \* SPILL(tos) and raise
RaiseVoid(i) == Enter(i, m, "throw_void")          \* SPILL_VOID and raise; NPE_ON_NULL

(***************************************************************************)
(* Handlers that stay in the interpreter.                                  *)
(***************************************************************************)
Result(i) == Effect(i).push[1]

\* A value from elsewhere: sp++, the value in the register.
Load(i, kinds) ==
  /\ Dispatch(i, kinds)
  /\ Done(i, <<>>, <<Fresh(Result(i))>>,
          PushedTop(FORWARD_TO_NULLARY(m), Result(i), Fresh(Result(i))))

const_impl(i) == Load(i, {"aconst_null", "iconst", "lconst", "fconst", "dconst"})
load_impl(i) == Load(i, {"iload", "lload", "fload", "dload", "aload"})
getstatic_X_impl(i) ==
  Load(i, {"getstatic_I", "getstatic_J", "getstatic_F", "getstatic_D", "getstatic_L"})

\* These leave sp and the register alone.
Skip(i, kinds) == Dispatch(i, kinds) /\ Done(i, <<>>, <<>>, m)

nop_impl(i) == Skip(i, {"nop"})
iinc_impl(i) == Skip(i, {"iinc"})
goto_impl(i) == Skip(i, {"goto"})

\* The register is the operand and then the result.
Unary(i, kinds) ==
  /\ Dispatch(i, kinds)
  /\ Done(i, <<m.tos>>, <<Fresh(Result(i))>>, NEXT_of(m, Result(i), Fresh(Result(i))))

INTEGER_UN_OP(i) == Unary(i, {"ineg", "lneg", "i2l", "i2f", "i2d", "l2i", "l2f", "l2d"})
FLOAT_UN_OP(i) == Unary(i, {"fneg", "f2i", "f2l", "f2d", "dneg", "d2i", "d2l", "d2f"})
sqrt_impl(i) == Unary(i, {"sqrt"})

\* The slot below and the register are the operands; sp--, the result r in the register.
BinaryOfStaleSlot(i, r) == Done(i, <<At(m, 1), m.tos>>, <<r>>, NEXT_of(Popped(m, 1), Result(i), r))
Binary(i, r) == Done(i, <<At(m, 2), m.tos>>, <<r>>, NEXT_of(Popped(m, 1), Result(i), r))

INTEGER_BIN_OP(i) == Dispatch(i, {"iadd", "ishr", "ladd", "lshl"}) /\ Binary(i, Fresh(Result(i)))
FLOAT_BIN_OP(i) == Dispatch(i, {"fadd", "fcmpl", "dadd", "dcmpl"}) /\ Binary(i, Fresh(Result(i)))
pow_impl(i) == Dispatch(i, {"pow"}) /\ Binary(i, Fresh(Result(i)))

\* idiv, irem, ldiv and lrem raise an ArithmeticException; lcmp stands among them.
div_impl(i) ==
  /\ Dispatch(i, {"idiv", "ldiv", "lcmp"})
  /\ \/ i.kind # "lcmp" /\ Raise(i)
     \/ Binary(i, Fresh(Result(i)))

\* NPE_ON_NULL of the register, then the value replaces it.
Deref(i, kinds) ==
  /\ Dispatch(i, kinds)
  /\ \/ RaiseVoid(i)
     \/ Done(i, <<m.tos>>, <<Fresh(Result(i))>>, NEXT_of(m, Result(i), Fresh(Result(i))))

arraylength_impl(i) == Deref(i, {"arraylength"})
getfield_X_impl(i) ==
  Deref(i, {"getfield_I", "getfield_J", "getfield_F", "getfield_D", "getfield_L"})

\* Null array or index out of bounds: both raise after SPILL_VOID or with an int on top.
ARRAY_LOAD(i) ==
  /\ Dispatch(i, {"iaload", "laload", "faload", "daload", "aaload"})
  /\ RaiseVoid(i) \/ Binary(i, Fresh(Result(i)))

Consume(i, used) ==
  Done(i, used, <<>>, STACK_POLYMORPHIC(Popped(m, Len(used)), TypesAfter(i)))

ARRAY_STORE(i) ==
  /\ Dispatch(i, {"iastore", "lastore", "fastore", "dastore"})
  /\ RaiseVoid(i) \/ Consume(i, <<At(m, 3), At(m, 2), m.tos>>)

\* An element that is not of the array's type raises after SPILL(tos).
aastore_impl(i) ==
  /\ Dispatch(i, {"aastore"})
  /\ RaiseVoid(i) \/ Raise(i) \/ Consume(i, <<At(m, 3), At(m, 2), m.tos>>)

putfield_X_impl(i) ==
  /\ Dispatch(i, {"putfield_I", "putfield_J", "putfield_F", "putfield_D", "putfield_L"})
  /\ RaiseVoid(i) \/ Consume(i, <<At(m, 2), m.tos>>)

putstatic_X_impl(i) ==
  /\ Dispatch(i, {"putstatic_I", "putstatic_J", "putstatic_F", "putstatic_D", "putstatic_L"})
  /\ Consume(i, <<m.tos>>)

store_impl(i) == Dispatch(i, DOMAIN StoreEffects) /\ Consume(i, <<m.tos>>)

switch_impl(i) == Dispatch(i, {"tableswitch", "lookupswitch"}) /\ Consume(i, <<m.tos>>)
MAKE_INT_BRANCH_AGAINST_0(i) == Dispatch(i, {"ifeq", "ifnull"}) /\ Consume(i, <<m.tos>>)
MAKE_INT_BRANCH(i) == Dispatch(i, {"if_icmpeq"}) /\ Consume(i, <<At(m, 2), m.tos>>)
if_acmp_impl(i) == Dispatch(i, {"if_acmpeq"}) /\ Consume(i, <<At(m, 2), m.tos>>)

\* FUEL_CHECK: out of fuel, the frame spills and is left until the thread runs again.
fuel_check(i) ==
  /\ Dispatch(i, {"goto", "ifeq", "ifnull", "if_icmpeq", "if_acmpeq"})
  /\ Enter(i, SPILL(m), "suspended")

monitorexit_impl(i) ==
  /\ Dispatch(i, {"monitorexit"})
  /\ \/ RaiseVoid(i)
     \/ Consume(i, <<m.tos>>)

return_impl(i) ==
  /\ Dispatch(i, DOMAIN EndEffects \ {"athrow"})
  /\ ok' = (ok /\ RightOperands(IF i.kind = "return" THEN <<>> ELSE <<m.tos>>))
  /\ m' = SPILL(m) /\ insn' = i /\ phase' = "left"
  /\ UNCHANGED <<types, words, lost, gc, n>>

athrow_impl(i) ==
  /\ Dispatch(i, {"athrow"})
  /\ Raise(i)

(***************************************************************************)
(* The stack instructions.  All but dup and dup2 work on memory: the last  *)
(* k values become the sequence s.                                         *)
(***************************************************************************)
TopBecomes(mm, k, s) ==
  [mm EXCEPT !.mem = [j \in DOMAIN mm.mem |->
                        IF j \in (mm.sp - k + 1)..(mm.sp - k + Len(s)) THEN s[j - mm.sp + k] ELSE mm.mem[j]],
             !.sp = mm.sp - k + Len(s)]

dup_impl(i) ==
  /\ Dispatch(i, {"dup"})
  /\ Done(i, <<>>, <<>>, [m EXCEPT !.mem[m.sp] = m.tos, !.sp = @ + 1])

\* Whatever the cached kind, the three handlers of dup2 end in NEXT_INT.
dup2_impl(i) ==
  /\ Dispatch(i, {"dup2"})
  /\ LET cast == IF m.table = "I" THEN m.tos ELSE Value("I", 0, 0)
     IN  Done(i, <<>>, <<>>,
              ADVANCE([m EXCEPT !.mem[m.sp] = m.tos, !.mem[m.sp + 1] = At(m, 2), !.sp = @ + 2],
                      "I", cast))

pop_impl(i) ==
  /\ Dispatch(i, {"pop", "pop2"})
  /\ Done(i, <<>>, <<>>,
          STACK_POLYMORPHIC(Popped(FORWARD_TO_NULLARY(m), IF i.kind = "pop" THEN 1 ELSE 2),
                            TypesAfter(i)))

dup_x_impl(i) ==
  /\ Dispatch(i, {"dup_x1", "dup_x2", "dup2_x1", "dup2_x2", "swap"})
  /\ LET mm == FORWARD_TO_NULLARY(m)
         v(k) == At(mm, k)
         after == CASE i.kind = "dup_x1" -> TopBecomes(mm, 2, <<v(1), v(2), v(1)>>)
                    [] i.kind = "dup_x2" -> TopBecomes(mm, 3, <<v(1), v(3), v(2), v(1)>>)
                    [] i.kind = "dup2_x1" -> TopBecomes(mm, 3, <<v(2), v(1), v(3), v(2), v(1)>>)
                    [] i.kind = "dup2_x2" ->
                         TopBecomes(mm, 4, <<v(2), v(1), v(4), v(3), v(2), v(1)>>)
                    [] i.kind = "swap" -> TopBecomes(mm, 2, <<v(1), v(2)>>)
     IN  Done(i, <<>>, <<>>, STACK_POLYMORPHIC(after, TypesAfter(i)))

(***************************************************************************)
(* Handlers that load classes, allocate, call methods or take a monitor.   *)
(* The first half of each ends in Enter.                                   *)
(***************************************************************************)
resolved_kind(kind, t) ==
  [getstatic |-> [I |-> "getstatic_I", J |-> "getstatic_J", F |-> "getstatic_F",
                  D |-> "getstatic_D", L |-> "getstatic_L"],
   putstatic |-> [I |-> "putstatic_I", J |-> "putstatic_J", F |-> "putstatic_F",
                  D |-> "putstatic_D", L |-> "putstatic_L"],
   getfield |-> [I |-> "getfield_I", J |-> "getfield_J", F |-> "getfield_F",
                 D |-> "getfield_D", L |-> "getfield_L"],
   putfield |-> [I |-> "putfield_I", J |-> "putfield_J", F |-> "putfield_F",
                 D |-> "putfield_D", L |-> "putfield_L"]][kind][t]

\* The register goes to memory first; the call finds its operands there.
ResolveForwarded(i, kinds) == Dispatch(i, kinds) /\ Enter(i, FORWARD_TO_NULLARY(m), "resolve")

\* The receiver is read before the resolution, and its class looked at after it: it stays in a
\* local, which m.tos stands for until the handler is done.
HeldReceiver(i, mm) == At(mm, Len(Effect(i).pop))
ResolveHolding(i, kinds) ==
  /\ Dispatch(i, kinds)
  /\ LET mm == FORWARD_TO_NULLARY(m) IN Enter(i, [mm EXCEPT !.tos = HeldReceiver(i, mm)], "resolve")

getstatic_impl(i) == ResolveForwarded(i, {"getstatic", "putstatic"})
putfield_impl(i) == ResolveForwarded(i, {"putfield"})
new_impl(i) == ResolveForwarded(i, {"new"})
invokestatic_impl(i) == ResolveForwarded(i, {"invokestatic"})
invokevirtual_impl(i) == ResolveHolding(i, {"invokevirtual"})
invokespecial_impl(i) == ResolveForwarded(i, {"invokespecial"})
invokeinterface_impl(i) == ResolveHolding(i, {"invokeinterface"})
invokedynamic_impl(i) == ResolveForwarded(i, {"invokedynamic"})

ResolveUnspilled(i, kinds) == Dispatch(i, kinds) /\ Enter(i, m, "resolve")

\* SPILL(tos), and RELOAD(tos) afterwards.
ResolveSpilled(i, kinds) == Dispatch(i, kinds) /\ Enter(i, SPILL(m), "resolve")

getfield_impl(i) == ResolveSpilled(i, {"getfield"})
checkcast_impl(i) == ResolveSpilled(i, {"checkcast"})
instanceof_impl(i) == ResolveSpilled(i, {"instanceof"})

anewarray_impl(i) ==
  /\ Dispatch(i, {"anewarray"})
  /\ Enter(i, m, "resolve")

checkcast_resolved_impl(i) ==
  /\ Dispatch(i, {"checkcast_resolved"})
  /\ \/ Raise(i)
     \/ Done(i, <<m.tos>>, <<Top(Values, 1)>>, m)

instanceof_resolved_impl(i) ==
  /\ Dispatch(i, {"instanceof_resolved"})
  /\ Done(i, <<m.tos>>, <<Fresh("I")>>, NEXT_of(m, "I", Fresh("I")))

new_resolved_impl(i) ==
  /\ Dispatch(i, {"new_resolved"})
  /\ Enter(i, FORWARD_TO_NULLARY(m), "alloc")

\* A string or a class mirror that is there already is pushed at once.
ldc_impl(i) ==
  /\ Dispatch(i, {"ldc"})
  /\ \/ Enter(i, FORWARD_TO_NULLARY(m), "alloc")
     \/ Done(i, <<>>, <<Fresh("L")>>, PushedTop(FORWARD_TO_NULLARY(m), "L", Fresh("L")))

\* A negative size is raised from there.
newarray_impl(i) == Dispatch(i, {"newarray"}) /\ Enter(i, SPILL(m), "alloc")
multianewarray_impl(i) == Dispatch(i, {"multianewarray"}) /\ Enter(i, SPILL(m), "alloc")

anewarray_resolved_impl(i) ==
  /\ Dispatch(i, {"anewarray_resolved"})
  /\ Enter(i, m, "alloc")

monitorenter_impl(i) ==
  /\ Dispatch(i, {"monitorenter"})
  /\ \/ RaiseVoid(i)
     \/ Enter(i, SPILL(m), "monitor")

\* A null receiver or no implementation of the method is raised from here as well.
Invoke(i, kinds) == Dispatch(i, kinds) /\ Enter(i, FORWARD_TO_NULLARY(m), "call")

invokestatic_resolved_impl(i) == Invoke(i, {"invokestatic_resolved"})
invokespecial_resolved_impl(i) == Invoke(i, {"invokespecial_resolved"})
invokeitable_vtable_monomorphic_impl(i) ==
  Invoke(i, {"invokevtable_monomorphic", "invokeitable_monomorphic"})
invokeitable_polymorphic_impl(i) == Invoke(i, {"invokeitable_polymorphic"})
invokevtable_polymorphic_impl(i) == Invoke(i, {"invokevtable_polymorphic"})
invokesigpoly_impl(i) == Invoke(i, {"invokesigpoly"})
invokecallsite_impl(i) == Invoke(i, {"invokecallsite"})

\* The inline cache of a call site that sees a second class.
make_polymorphic(i) ==
  /\ Dispatch(i, {"invokevtable_monomorphic", "invokeitable_monomorphic"})
  /\ Enter([i EXCEPT !.kind = IF @ = "invokevtable_monomorphic" THEN "invokevtable_polymorphic"
                              ELSE "invokeitable_polymorphic"],
           FORWARD_TO_NULLARY(m), "run")

(***************************************************************************)
(* The other half of each: control is back in the handler.                 *)
(***************************************************************************)
intrinsify == IF insn.args = <<"D">> /\ insn.ret = "D" THEN {"sqrt"}
              ELSE IF insn.args = <<"D", "D">> /\ insn.ret = "D" THEN {"pow"} ELSE {}

\* The kinds a handler may give its instruction.
resolve_getstatic_putstatic ==
  {resolved_kind(insn.kind, IF insn.kind = "getstatic" THEN insn.ret ELSE Last(insn.args))}
resolve_getfield_putfield ==
  {resolved_kind(insn.kind, IF insn.kind = "getfield" THEN insn.ret ELSE Last(insn.args))}
resolve_new_inst == {"new_resolved"}
resolve_invokestatic == {"invokestatic_resolved"}
resolve_invokevirtual ==
  {"invokesigpoly", "invokeinterface", "invokespecial_resolved", "invokevtable_monomorphic"}
resolve_invokeinterface ==
  {"invokevirtual", "invokespecial_resolved", "invokeitable_monomorphic"}
\* The constructor of Object becomes a pop of the receiver.
resolve_invokespecial ==
  {"invokespecial_resolved"} \union (IF insn.args = <<>> /\ insn.ret = "V" THEN {"pop"} ELSE {})

resolve_insn ==
  CASE insn.kind \in {"getstatic", "putstatic"} -> resolve_getstatic_putstatic
    [] insn.kind \in {"getfield", "putfield"} -> resolve_getfield_putfield
    [] insn.kind = "new" -> resolve_new_inst
    [] insn.kind = "invokestatic" -> resolve_invokestatic

ResolvedTo ==
  CASE insn.kind \in FieldKinds \union {"new"} -> resolve_insn
    [] insn.kind = "invokestatic" -> resolve_insn \union intrinsify
    [] insn.kind = "anewarray" -> {"anewarray_resolved"}
    [] insn.kind = "checkcast" -> {"checkcast_resolved"}
    [] insn.kind = "instanceof" -> {"instanceof_resolved"}
    [] insn.kind = "invokedynamic" -> {"invokecallsite"}
    [] insn.kind = "invokevirtual" -> resolve_invokevirtual
    [] insn.kind = "invokeinterface" -> resolve_invokeinterface
    [] insn.kind = "invokespecial" -> resolve_invokespecial

Resolve ==
  /\ phase = "resolve"
  /\ \E kind \in ResolvedTo :
       Again(kind, CASE insn.kind \in {"getfield", "checkcast", "instanceof"} -> RELOAD(m)
                     [] insn.kind = "anewarray" -> m
                     [] insn.kind \in {"putstatic", "putfield"} \/ kind \in {"sqrt", "pow"} ->
                          STACK_POLYMORPHIC(m, types)
                     [] OTHER -> JMP_VOID(m))

\* The resolutions that initialize a class suspend when its initializer does.
ResolveSuspends ==
  /\ phase = "resolve"
  /\ insn.kind \in {"getstatic", "putstatic", "new", "invokestatic"}
  /\ Enter(insn, m, "suspended")

\* sp, and what is cached, are computed from the analysis of the instruction.
Resumed(mm, ts) == STACK_POLYMORPHIC([mm EXCEPT !.sp = Len(ts)], ts)

async_resume_impl ==
  /\ phase = "suspended"
  /\ CASE insn.kind = "monitorenter" -> Done(insn, <<At(m, 1)>>, <<>>, Resumed(m, TypesAfter(insn)))
       [] insn.kind \in {"getstatic", "putstatic", "new", "invokestatic"} ->
            \/ \E kind \in resolve_insn : Again(kind, JMP_VOID([m EXCEPT !.sp = Len(types)]))
            \/ Enter(insn, m, "throw")
       [] OTHER -> Again(insn.kind, Resumed(m, types))

Allocated ==
  /\ phase = "alloc"
  /\ LET v == Fresh("L")
     IN  \/ /\ insn.kind \in {"new_resolved", "ldc"}
            /\ Done(insn, <<>>, <<v>>, PushedTop(m, "L", v))
         \/ /\ insn.kind = "multianewarray"
            /\ Done(insn, <<At(m, 2), At(m, 1)>>, <<v>>,
                    NEXT_of([Popped(m, 1) EXCEPT !.mem[m.sp - 1] = v], "L", v))
         \/ /\ insn.kind \in {"newarray", "anewarray_resolved"}
            /\ Done(insn, <<m.tos>>, <<v>>, NEXT_of(m, "L", v))

Acquired ==
  /\ phase = "monitor"
  /\ \/ Done(insn, <<At(m, 1)>>, <<>>, STACK_POLYMORPHIC(Popped(m, 1), TypesAfter(insn)))
     \/ Enter(insn, m, "suspended")

(***************************************************************************)
(* interpret_2: the callee has returned.  Its result goes where its frame  *)
(* began, on the first argument.                                           *)
(***************************************************************************)
Arguments == Len(Effect(insn).pop)

CalleeReturns ==
  /\ phase = "call"
  /\ LET v == Fresh(insn.ret)
         first == m.sp - Arguments + 1
         mm == IF insn.ret = "V" THEN m ELSE [m EXCEPT !.mem[first] = v]
     IN  Done(insn, <<>>, IF insn.ret = "V" THEN <<>> ELSE <<v>>, Resumed(mm, TypesAfter(insn)))

CanThrow == {"resolve", "alloc", "call", "monitor", "throw", "throw_void"}

\* An exception reaches this frame; a handler starts with the exception alone on the stack.
find_exception_handler ==
  /\ phase \in CanThrow
  /\ LET v == Fresh("L")
     IN  /\ types' = <<"L">> /\ words' = WordsOfValues(<<v>>)
         /\ m' = Resumed([m EXCEPT !.mem[1] = v], <<"L">>)
  /\ insn' = NoInsn /\ phase' = "run" /\ n' = n + 1
  /\ UNCHANGED <<ok, lost, gc>>

NoHandler ==
  /\ phase \in CanThrow
  /\ Enter(insn, m, "left")

Safepoints == CanThrow \union {"suspended"}

\* The slots of the frame that the collector scans: the arguments belong to the callee.
Scanned == IF phase = "call" THEN Len(types) - Arguments ELSE Len(types)

Collect ==
  /\ phase \in Safepoints /\ gc < MaxGC
  /\ m' = Relocated(m, Scanned)
  /\ LET v == Values IN words' = WordsOfValues([i \in DOMAIN v |-> Moved(v[i])])
  /\ gc' = gc + 1
  /\ UNCHANGED <<types, insn, phase, ok, lost, n>>

ExecutePlain(i) ==
  \/ const_impl(i) \/ load_impl(i) \/ getstatic_X_impl(i) \/ nop_impl(i) \/ iinc_impl(i)
  \/ goto_impl(i) \/ INTEGER_UN_OP(i) \/ FLOAT_UN_OP(i) \/ sqrt_impl(i) \/ INTEGER_BIN_OP(i)
  \/ FLOAT_BIN_OP(i) \/ pow_impl(i) \/ div_impl(i) \/ arraylength_impl(i) \/ getfield_X_impl(i)
  \/ ARRAY_LOAD(i) \/ ARRAY_STORE(i) \/ aastore_impl(i) \/ putfield_X_impl(i)
  \/ putstatic_X_impl(i) \/ store_impl(i) \/ switch_impl(i) \/ MAKE_INT_BRANCH_AGAINST_0(i)
  \/ MAKE_INT_BRANCH(i) \/ if_acmp_impl(i) \/ fuel_check(i) \/ monitorexit_impl(i)
  \/ return_impl(i) \/ athrow_impl(i) \/ dup_impl(i) \/ dup2_impl(i) \/ pop_impl(i)
  \/ dup_x_impl(i) \/ checkcast_resolved_impl(i) \/ instanceof_resolved_impl(i)

ExecuteCall(i) ==
  \/ getstatic_impl(i) \/ putfield_impl(i) \/ new_impl(i) \/ invokestatic_impl(i)
  \/ invokevirtual_impl(i) \/ invokespecial_impl(i) \/ invokeinterface_impl(i)
  \/ invokedynamic_impl(i) \/ getfield_impl(i) \/ checkcast_impl(i) \/ instanceof_impl(i)
  \/ anewarray_impl(i) \/ new_resolved_impl(i) \/ ldc_impl(i) \/ newarray_impl(i)
  \/ multianewarray_impl(i) \/ anewarray_resolved_impl(i) \/ monitorenter_impl(i)
  \/ invokestatic_resolved_impl(i) \/ invokespecial_resolved_impl(i)
  \/ invokeitable_vtable_monomorphic_impl(i) \/ invokeitable_polymorphic_impl(i)
  \/ invokevtable_polymorphic_impl(i) \/ invokesigpoly_impl(i) \/ invokecallsite_impl(i)
  \/ make_polymorphic(i)

\* The table has no handler for the kind: a call of a null pointer.
NullHandler(i) ==
  /\ phase = "run" /\ n < MaxInsns
  /\ i.kind \notin bytecode_tables[m.table]
  /\ Enter(i, m, "crashed")

\* The thread has left the frame or crashed, or the bound is reached.
Stopped ==
  /\ phase \in {"left", "crashed"} \/ (phase = "run" /\ n = MaxInsns)
  /\ UNCHANGED vars

(***************************************************************************)
(* The frame is entered or resumed with its stack in memory.  The slots    *)
(* above it are whatever was there: push_plain_frame does not clear them.  *)
(***************************************************************************)
Init ==
  /\ types \in Shapes
  /\ LET s == [i \in DOMAIN types |-> Value(types[i], i, 0)]
         blank == [i \in 1..StackLimit |-> IF i <= Len(types) THEN s[i] ELSE Undef]
     IN  /\ words = WordsOfValues(s)
         /\ m = STACK_POLYMORPHIC([sp |-> Len(types), mem |-> blank, tos |-> Undef, table |-> "V"], types)
  /\ insn = NoInsn /\ phase = "run" /\ ok = TRUE /\ lost = FALSE /\ gc = 0 /\ n = 0

Next ==
  \/ \E i \in Current : ExecutePlain(i) \/ ExecuteCall(i) \/ NullHandler(i)
  \/ Resolve \/ ResolveSuspends \/ async_resume_impl \/ Allocated \/ Acquired \/ CalleeReturns
  \/ find_exception_handler \/ NoHandler \/ Collect
  \/ Stopped

Spec == Init /\ [][Next]_vars

-----------------------------------------------------------------------------
\* The analysis says of the stack what is on it, and accepts what a verified class file may have next.
AnalysisAgrees ==
  /\ LET v == Values IN types = [i \in DOMAIN v |-> v[i].t]
  /\ insn = NoInsn =>
       \A i \in Insns : Legal(i, types, StackLimit) => analyze_instruction(i, types, StackLimit).ok

(***************************************************************************)
(* In front of every instruction the slots in memory and the register make *)
(* up the operand stack of the JVM specification, word for word, whatever  *)
(* the handlers, the rewriting of wide instructions, the collections, the  *)
(* suspensions and the exceptions before did (src/vm/interpreter2.c, the   *)
(* handlers; src/vm/analysis.c:346, the rewriting); and the kinds by which *)
(* the collector finds the references are those of the values on it, for   *)
(* every verified instruction (src/vm/analysis.c:288).  All this ends with *)
(* a dup2 of two floats, as do the properties below: jmp_table_float is    *)
(* "used when the TOS is float" (src/vm/interpreter2.c:292), and           *)
(* dup2_impl_float goes on with jmp_table_int (2455), the float lost.      *)
(***************************************************************************)
StackAgrees ==
  \/ lost
  \/ /\ AnalysisAgrees
     /\ phase = "run" =>
          /\ m.sp = Len(types)
          /\ m.table # "V" => m.table = calculate_tos_type(types)
          /\ m.table = "V" => types = <<>> \/ insn # NoInsn
          /\ WordsOfValues(Logical(m)) = words

(***************************************************************************)
(* Every handler computes from the operands the specification names: the   *)
(* slots it reads below the register, after any number of spills, moves by *)
(* the collector and rewritings, hold them (src/vm/interpreter2.c:1151).   *)
(* The receiver that invokevirtual and invokeinterface keep in a local     *)
(* over the resolution (1820, 1963) is the one the method is called on;    *)
(* nothing relocates that local, so that its address, unlike the operands, *)
(* is not the current one when the resolution has collected.               *)
(***************************************************************************)
SameObject(v, w) == v.t = w.t /\ v.id = w.id
ReceiverHeld ==
  phase = "resolve" /\ insn.kind \in {"invokevirtual", "invokeinterface"} =>
    SameObject(m.tos, Top(Values, Arguments))

OperandsRight == lost \/ (ok /\ ReceiverHeld)

(***************************************************************************)
(* The table of the cached kind has a handler for the next instruction,    *)
(* the kind its resolution has just given it included, except in one case: *)
(* jmp_table_void has none for a putstatic, resolved or not, and a         *)
(* putstatic that was suspended goes on there (src/vm/interpreter2.c:3145, *)
(* the tables; 2872, the JMP_VOID).  In that case, and no other, the call  *)
(* is one of a null pointer.                                               *)
(***************************************************************************)
HandlerExists ==
  phase = "run" =>
    \A i \in Current :
      lost \/ (i.kind \in bytecode_tables[m.table] <=> ~(i.op = "putstatic" /\ m.table = "V"))

SlotsCurrent == LET v == Values IN \A i \in 1..Scanned : types[i] = "L" => m.mem[i] = v[i]

(***************************************************************************)
(* When other code of the VM runs, which may collect, every slot that the  *)
(* collector takes for a reference holds the current one (SPILL and RELOAD,*)
(* src/vm/interpreter2.c:332).  The exception is what a handler raises     *)
(* after SPILL_VOID with a reference in its register.                      *)
(***************************************************************************)
RootsCurrent ==
  LET raw == phase = "throw_void" /\ Last(types) = "L"
  IN  lost \/ (phase \in Safepoints /\ ~raw => SlotsCurrent)

=============================================================================
