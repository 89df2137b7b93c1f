------------------------------ MODULE Opcodes ------------------------------
(***************************************************************************)
(* The instructions of the interpreter and what the code analysis says of  *)
(* each (src/vm/analysis.c), and the four jump tables of the interpreter   *)
(* (src/vm/interpreter2.c).                                                *)
(*                                                                         *)
(* A value on the operand stack has one of five kinds, named here by the   *)
(* letters of their descriptors: I (int and everything narrower), J, F, D  *)
(* and L (a reference); V is "no value".  Where one macro generates the    *)
(* handlers of several instructions, one of them stands for all: iadd for  *)
(* the INTEGER_BIN_OP instructions on ints (ishr, whose result is widened  *)
(* differently, is kept apart), iaload for the loads of the narrow arrays, *)
(* ifeq for the branches that compare an int with 0, and so on.            *)
(***************************************************************************)
EXTENDS Naturals, Sequences, SequencesExt

TypeKinds == {"I", "J", "F", "D", "L"}

is_kind_wide(t) == t \in {"J", "D"}

\* What is cached in the register of the interpreter for a given stack.
calculate_tos_type(types) ==
  IF types = <<>> THEN "V"
  ELSE IF Last(types) \in {"F", "D"} THEN Last(types) ELSE "I"

E(popped, pushed) == [pop |-> popped, push |-> pushed]

\* POP and PUSH of analyze_instruction, bottom of the stack first.
ArrayEffects ==
  [iaload |-> E(<<"L", "I">>, <<"I">>), laload |-> E(<<"L", "I">>, <<"J">>),
   faload |-> E(<<"L", "I">>, <<"F">>), daload |-> E(<<"L", "I">>, <<"D">>),
   aaload |-> E(<<"L", "I">>, <<"L">>),
   iastore |-> E(<<"L", "I", "I">>, <<>>), lastore |-> E(<<"L", "I", "J">>, <<>>),
   fastore |-> E(<<"L", "I", "F">>, <<>>), dastore |-> E(<<"L", "I", "D">>, <<>>),
   aastore |-> E(<<"L", "I", "L">>, <<>>), arraylength |-> E(<<"L">>, <<"I">>)]

ArithmeticEffects ==
  [iadd |-> E(<<"I", "I">>, <<"I">>), ishr |-> E(<<"I", "I">>, <<"I">>),
   idiv |-> E(<<"I", "I">>, <<"I">>), ladd |-> E(<<"J", "J">>, <<"J">>),
   ldiv |-> E(<<"J", "J">>, <<"J">>), lshl |-> E(<<"J", "I">>, <<"J">>),
   fadd |-> E(<<"F", "F">>, <<"F">>), dadd |-> E(<<"D", "D">>, <<"D">>),
   lcmp |-> E(<<"J", "J">>, <<"I">>), fcmpl |-> E(<<"F", "F">>, <<"I">>),
   dcmpl |-> E(<<"D", "D">>, <<"I">>), ineg |-> E(<<"I">>, <<"I">>),
   lneg |-> E(<<"J">>, <<"J">>), fneg |-> E(<<"F">>, <<"F">>),
   dneg |-> E(<<"D">>, <<"D">>)]

ConversionEffects ==
  [i2l |-> E(<<"I">>, <<"J">>), i2f |-> E(<<"I">>, <<"F">>), i2d |-> E(<<"I">>, <<"D">>),
   l2i |-> E(<<"J">>, <<"I">>), l2f |-> E(<<"J">>, <<"F">>), l2d |-> E(<<"J">>, <<"D">>),
   f2i |-> E(<<"F">>, <<"I">>), f2l |-> E(<<"F">>, <<"J">>), f2d |-> E(<<"F">>, <<"D">>),
   d2i |-> E(<<"D">>, <<"I">>), d2l |-> E(<<"D">>, <<"J">>), d2f |-> E(<<"D">>, <<"F">>)]

ObjectEffects ==
  [new |-> E(<<>>, <<"L">>), newarray |-> E(<<"I">>, <<"L">>), anewarray |-> E(<<"I">>, <<"L">>),
   multianewarray |-> E(<<"I", "I">>, <<"L">>), checkcast |-> E(<<"L">>, <<"L">>),
   instanceof |-> E(<<"L">>, <<"I">>), monitorenter |-> E(<<"L">>, <<>>),
   monitorexit |-> E(<<"L">>, <<>>)]

LoadEffects ==
  [aconst_null |-> E(<<>>, <<"L">>), ldc |-> E(<<>>, <<"L">>), iconst |-> E(<<>>, <<"I">>),
   lconst |-> E(<<>>, <<"J">>), fconst |-> E(<<>>, <<"F">>), dconst |-> E(<<>>, <<"D">>),
   iload |-> E(<<>>, <<"I">>), lload |-> E(<<>>, <<"J">>), fload |-> E(<<>>, <<"F">>),
   dload |-> E(<<>>, <<"D">>), aload |-> E(<<>>, <<"L">>)]

StoreEffects ==
  [istore |-> E(<<"I">>, <<>>), lstore |-> E(<<"J">>, <<>>), fstore |-> E(<<"F">>, <<>>),
   dstore |-> E(<<"D">>, <<>>), astore |-> E(<<"L">>, <<>>)]

BranchEffects ==
  [nop |-> E(<<>>, <<>>), iinc |-> E(<<>>, <<>>), goto |-> E(<<>>, <<>>),
   ifeq |-> E(<<"I">>, <<>>), ifnull |-> E(<<"L">>, <<>>), if_icmpeq |-> E(<<"I", "I">>, <<>>),
   if_acmpeq |-> E(<<"L", "L">>, <<>>), tableswitch |-> E(<<"I">>, <<>>),
   lookupswitch |-> E(<<"I">>, <<>>)]

EndEffects ==
  [return |-> E(<<>>, <<>>), ireturn |-> E(<<"I">>, <<>>), lreturn |-> E(<<"J">>, <<>>),
   freturn |-> E(<<"F">>, <<>>), dreturn |-> E(<<"D">>, <<>>), areturn |-> E(<<"L">>, <<>>),
   athrow |-> E(<<"L">>, <<>>)]

PlainKinds ==
  UNION {DOMAIN ArrayEffects, DOMAIN ArithmeticEffects, DOMAIN ConversionEffects, DOMAIN ObjectEffects,
         DOMAIN LoadEffects, DOMAIN StoreEffects, DOMAIN BranchEffects, DOMAIN EndEffects}
PlainEffect(op) ==
  CASE op \in DOMAIN ArrayEffects -> ArrayEffects[op]
    [] op \in DOMAIN ArithmeticEffects -> ArithmeticEffects[op]
    [] op \in DOMAIN ConversionEffects -> ConversionEffects[op]
    [] op \in DOMAIN ObjectEffects -> ObjectEffects[op]
    [] op \in DOMAIN LoadEffects -> LoadEffects[op]
    [] op \in DOMAIN StoreEffects -> StoreEffects[op]
    [] op \in DOMAIN BranchEffects -> BranchEffects[op]
    [] op \in DOMAIN EndEffects -> EndEffects[op]

StackKinds == {"dup", "dup_x1", "dup_x2", "dup2", "dup2_x1", "dup2_x2", "pop", "pop2", "swap"}
FieldKinds == {"getstatic", "putstatic", "getfield", "putfield"}
InvokeKinds == {"invokestatic", "invokevirtual", "invokespecial", "invokeinterface",
                "invokedynamic"}

Receiver(kind) == IF kind \in {"invokestatic", "invokedynamic"} THEN <<>> ELSE <<"L">>

(***************************************************************************)
(* An instruction: its opcode, the kind it has been rewritten to since by  *)
(* the analysis or by its own handler and, where the constant pool gives   *)
(* it one, its descriptor: the types it takes and the type it leaves.      *)
(***************************************************************************)
Insn(op, args, ret) == [op |-> op, kind |-> op, args |-> args, ret |-> ret]
NoInsn == Insn("none", <<>>, "V")

Pushed(t) == IF t = "V" THEN <<>> ELSE <<t>>

\* Field accesses and calls take their effect from the constant pool.
PoolEffect(insn) ==
  CASE insn.op = "getstatic" -> E(<<>>, Pushed(insn.ret))
    [] insn.op = "getfield" -> E(<<"L">>, Pushed(insn.ret))
    [] insn.op = "putstatic" -> E(insn.args, <<>>)
    [] insn.op = "putfield" -> E(<<"L">> \o insn.args, <<>>)
    [] insn.op \in InvokeKinds -> E(Receiver(insn.op) \o insn.args, Pushed(insn.ret))

Effect(insn) ==
  IF insn.op \in FieldKinds \union InvokeKinds THEN PoolEffect(insn)
  ELSE PlainEffect(insn.op)

(***************************************************************************)
(* The jump tables.  A handler that takes nothing from the stack is in all *)
(* of them: FORWARD_TO_NULLARY gives it an adapter for each cached type.   *)
(***************************************************************************)
Nullary ==
  DOMAIN LoadEffects
  \union {"nop", "iinc", "goto", "return", "pop", "getstatic", "new", "invokedynamic",
          "invokevirtual", "invokestatic", "invokeinterface", "new_resolved",
          "invokevtable_monomorphic", "invokevtable_polymorphic", "invokeitable_monomorphic",
          "invokeitable_polymorphic", "invokespecial_resolved", "invokestatic_resolved",
          "invokecallsite", "invokesigpoly", "getstatic_I", "getstatic_J", "getstatic_F",
          "getstatic_D", "getstatic_L"}

ForwardedWithoutSwap == (StackKinds \ {"pop", "swap"}) \union {"putfield", "putstatic", "invokespecial"}
Forwarded == (StackKinds \ {"pop"}) \union {"putfield", "putstatic", "invokespecial"}

jmp_table_void == Nullary

jmp_table_double ==
  Nullary \union Forwarded
  \union {"d2f", "d2i", "d2l", "dadd", "dcmpl", "dneg", "dastore", "dstore", "dreturn",
          "putfield_D", "putstatic_D", "sqrt", "pow"}

jmp_table_float ==
  Nullary \union Forwarded
  \union {"f2d", "f2i", "f2l", "fadd", "fcmpl", "fneg", "fastore", "fstore", "freturn",
          "putfield_F", "putstatic_F", "pow"}

jmp_table_int ==
  Nullary \union Forwarded
  \union {"iaload", "laload", "faload", "daload", "aaload", "iastore", "lastore", "aastore",
          "arraylength"}
  \union {"i2l", "i2f", "i2d", "l2i", "l2f", "l2d", "iadd", "ishr", "idiv", "ineg", "ladd",
          "ldiv", "lshl", "lcmp", "lneg"}
  \union {"ireturn", "lreturn", "areturn", "athrow", "monitorenter", "monitorexit", "anewarray",
          "newarray", "multianewarray", "checkcast", "instanceof", "getfield"}
  \union {"istore", "lstore", "astore", "ifeq", "ifnull", "if_icmpeq", "if_acmpeq",
          "tableswitch", "lookupswitch", "anewarray_resolved", "checkcast_resolved",
          "instanceof_resolved"}
  \union {"getfield_I", "getfield_J", "getfield_F", "getfield_D", "getfield_L",
          "putfield_I", "putfield_J", "putfield_L", "putstatic_I", "putstatic_J", "putstatic_L"}

bytecode_tables ==
  [V |-> jmp_table_void, I |-> jmp_table_int, F |-> jmp_table_float, D |-> jmp_table_double]

=============================================================================
