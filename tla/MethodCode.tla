----------------------------- MODULE MethodCode -----------------------------
(***************************************************************************)
(* The instructions of a Code attribute (src/vm/classfile.c): which bytes  *)
(* an opcode takes, the canonical instruction it becomes, and how branch   *)
(* offsets become indices of instructions.                                 *)
(*                                                                         *)
(* The bytes of a method are a function from the program counters at which *)
(* its instructions begin to what is written there: an opcode and its      *)
(* operand, already read as a number.  A reader that lost its alignment    *)
(* finds no instruction where it looks, and the file is rejected.          *)
(***************************************************************************)
EXTENDS StackAnalysis, Integers

Form(kind, bytes, role) == [kind |-> kind, bytes |-> bytes, role |-> role]

\* iconst_n stands for iconst_m1 to iconst_5, and so on.
ConstantForms ==
  [op \in {"nop", "aconst_null"} |-> Form(op, 0, "none")]
  @@ [iconst_n |-> Form("iconst", 0, "immediate"), lconst_n |-> Form("lconst", 0, "immediate"),
      fconst_n |-> Form("fconst", 0, "immediate"), dconst_n |-> Form("dconst", 0, "immediate"),
      bipush |-> Form("iconst", 1, "immediate"), sipush |-> Form("iconst", 2, "immediate"),
      ldc |-> Form("ldc", 1, "pool"), ldc_w |-> Form("ldc", 2, "pool"),
      ldc2_w |-> Form("ldc", 2, "pool")]

LoadForms ==
  [op \in {"iload", "lload", "fload", "dload", "aload"} |-> Form(op, 1, "local")]
  @@ [iload_n |-> Form("iload", 0, "local"), lload_n |-> Form("lload", 0, "local"),
      fload_n |-> Form("fload", 0, "local"), dload_n |-> Form("dload", 0, "local"),
      aload_n |-> Form("aload", 0, "local")]

StoreForms ==
  [op \in {"istore", "lstore", "fstore", "dstore", "astore"} |-> Form(op, 1, "local")]
  @@ [istore_n |-> Form("istore", 0, "local"), lstore_n |-> Form("lstore", 0, "local"),
      fstore_n |-> Form("fstore", 0, "local"), dstore_n |-> Form("dstore", 0, "local"),
      astore_n |-> Form("astore", 0, "local")]

ArrayForms ==
  [op \in {"iaload", "laload", "faload", "daload", "aaload", "baload", "caload", "saload"}
     |-> Form(op, 0, "none")]

PlainForms ==
  [op \in {"iastore", "lastore", "fastore", "dastore", "aastore", "bastore", "castore", "sastore",
           "pop", "pop2", "dup", "dup_x1", "dup_x2", "dup2", "dup2_x1", "dup2_x2", "swap",
           "iadd", "ladd", "fadd", "dadd", "isub", "lsub", "fsub", "dsub", "imul", "lmul", "fmul",
           "dmul", "idiv", "ldiv", "fdiv", "ddiv", "irem", "lrem", "frem", "drem", "ineg", "lneg",
           "fneg", "dneg", "ishl", "lshl", "ishr", "lshr", "iushr", "lushr", "iand", "land",
           "ior", "lor", "ixor", "lxor"} |-> Form(op, 0, "none")]

ConversionForms ==
  [op \in {"i2l", "i2f", "i2d", "l2i", "l2f", "l2d", "f2i", "f2l", "f2d", "d2i", "d2l", "d2f",
           "i2b", "i2c", "i2s", "lcmp", "fcmpl", "fcmpg", "dcmpl", "dcmpg"} |-> Form(op, 0, "none")]
  @@ [iinc |-> Form("iinc", 2, "local")]

BranchForms ==
  [op \in {"ifeq", "ifne", "iflt", "ifge", "ifgt", "ifle", "if_icmpeq", "if_icmpne", "if_icmplt",
           "if_icmpge", "if_icmpgt", "if_icmple", "if_acmpeq", "if_acmpne", "goto", "jsr"}
     |-> Form(op, 2, "branch")]
  @@ [ret |-> Form("ret", 1, "local"), tableswitch |-> Form("tableswitch", 0, "switch"),
      lookupswitch |-> Form("lookupswitch", 0, "switch")]

ReturnForms ==
  [op \in {"ireturn", "lreturn", "freturn", "dreturn", "areturn", "return"} |-> Form(op, 0, "none")]

PoolForms ==
  [op \in {"getstatic", "putstatic", "getfield", "putfield", "invokevirtual", "invokespecial",
           "invokestatic"} |-> Form(op, 2, "pool")]
  @@ [op \in {"invokeinterface", "invokedynamic"} |-> Form(op, 4, "pool")]

ObjectForms ==
  [op \in {"new", "anewarray", "checkcast", "instanceof"} |-> Form(op, 2, "pool")]
  @@ [op \in {"arraylength", "athrow", "monitorenter", "monitorexit"} |-> Form(op, 0, "none")]
  @@ [newarray |-> Form("newarray", 1, "array")]

\* A widened instruction is written here as one opcode.
WideForms ==
  [wide_iload |-> Form("iload", 3, "local"), wide_lload |-> Form("lload", 3, "local"),
   wide_fload |-> Form("fload", 3, "local"), wide_dload |-> Form("dload", 3, "local"),
   wide_aload |-> Form("aload", 3, "local"), wide_istore |-> Form("istore", 3, "local"),
   wide_lstore |-> Form("lstore", 3, "local"), wide_fstore |-> Form("fstore", 3, "local"),
   wide_dstore |-> Form("dstore", 3, "local"), wide_astore |-> Form("astore", 3, "local"),
   wide_iinc |-> Form("iinc", 5, "local"), wide_ret |-> Form("ret", 3, "local")]

FarForms ==
  [multianewarray |-> Form("multianewarray", 3, "pool"), ifnull |-> Form("ifnull", 2, "branch"),
   ifnonnull |-> Form("ifnonnull", 2, "branch"), goto_w |-> Form("goto", 4, "branch"),
   jsr_w |-> Form("jsr", 4, "branch")]

Forms == ConstantForms @@ LoadForms @@ StoreForms @@ ArrayForms @@ PlainForms @@ ConversionForms
         @@ BranchForms @@ ReturnForms @@ PoolForms @@ ObjectForms @@ WideForms @@ FarForms

FormOf(op) == Forms[op]

\* The kinds of constant pool entry each opcode accepts.
MethodRefs == {"METHOD_REF", "INTERFACE_METHOD_REF"}
ExpectedKinds ==
  [op \in {"ldc", "ldc_w"} |-> {"INTEGER", "FLOAT", "STRING", "CLASS"}]
  @@ [op \in {"getstatic", "putstatic", "getfield", "putfield"} |-> {"FIELD_REF"}]
  @@ [op \in {"invokevirtual", "invokespecial", "invokestatic"} |-> MethodRefs]
  @@ [op \in {"new", "anewarray", "checkcast", "instanceof", "multianewarray"} |-> {"CLASS"}]
  @@ [ldc2_w |-> {"DOUBLE", "LONG"}, invokeinterface |-> {"INTERFACE_METHOD_REF"},
      invokedynamic |-> {"INVOKE_DYNAMIC"}]

\* Whether an index of the pool is in range and of an expected kind.
checked_cp_entry(cp, index, kinds) == index \in DOMAIN cp /\ cp[index].kind \in kinds

\* The entry an ldc names decides the instruction it becomes.
LdcKind(entry) ==
  CASE entry.kind = "INTEGER" -> "iconst"
    [] entry.kind = "FLOAT" -> "fconst"
    [] entry.kind = "LONG" -> "lconst"
    [] entry.kind = "DOUBLE" -> "dconst"
    [] OTHER -> "ldc"

checked_pc(pc, offset, max_pc) == pc + offset \in 0..(max_pc - 1)

PaddingFromPc(pc) == (4 - (pc % 4)) % 4
\* The operands of a switch begin at the next multiple of four after its opcode.
Padding(pc) == 3 - (pc % 4)

\* default, low and high or the number of pairs, and the targets (with their keys).
parse_tableswitch_insn(raw, pc) == Padding(pc) + 12 + 4 * Len(raw.targets)
parse_lookupswitch_insn(raw, pc) == Padding(pc) + 8 + 8 * Len(raw.targets)

OperandBytes(raw, pc) ==
  CASE raw.op = "tableswitch" -> parse_tableswitch_insn(raw, pc)
    [] raw.op = "lookupswitch" -> parse_lookupswitch_insn(raw, pc)
    [] OTHER -> FormOf(raw.op).bytes

\* What is written at a program counter: an opcode, its operand and the targets of a switch.
Raw(op, arg) == [op |-> op, arg |-> arg, targets |-> <<>>]
RawSwitch(op, default, targets) == [op |-> op, arg |-> default, targets |-> targets]

(***************************************************************************)
(* A parsed instruction: index is a local, or the target of a branch, and  *)
(* targets holds the default and the other targets of a switch.            *)
(***************************************************************************)
Parsed(kind, index, targets, pc, args, ret) ==
  Insn(kind, args, ret) @@ [index |-> index, targets |-> targets, pc |-> pc, delta |-> 0]

IsBranch(kind) == kind \in DOMAIN BranchForms \ {"ret", "tableswitch", "lookupswitch"}
                  \/ kind \in {"ifnull", "ifnonnull"}
IsSwitch(kind) == kind \in {"tableswitch", "lookupswitch"}

\* A switch needs at least one target between low and high, a lookup may have none.
SwitchSizeOk(raw) == raw.op = "tableswitch" => Len(raw.targets) > 0

InsnAccepted(raw, pc, cp, max_pc) ==
  LET role == FormOf(raw.op).role
  IN  /\ pc + 1 + OperandBytes(raw, pc) <= max_pc
      /\ role = "pool" => checked_cp_entry(cp, raw.arg, ExpectedKinds[raw.op])
      /\ role = "branch" => checked_pc(pc, raw.arg, max_pc)
      /\ role = "switch" => /\ SwitchSizeOk(raw)
                            /\ checked_pc(pc, raw.arg, max_pc)
                            /\ \A k \in DOMAIN raw.targets : checked_pc(pc, raw.targets[k], max_pc)

parse_insn(raw, pc, cp) ==
  LET form == FormOf(raw.op)
  IN  CASE form.kind = "ldc" -> Parsed(LdcKind(cp[raw.arg]), 0, <<>>, pc, <<>>, "V")
        [] form.role = "pool" /\ form.kind # "ldc" ->
             Parsed(form.kind, 0, <<>>, pc, cp[raw.arg].args, cp[raw.arg].ret)
        [] form.role = "local" -> Parsed(form.kind, raw.arg, <<>>, pc, <<>>, "V")
        [] form.role = "branch" -> Parsed(form.kind, pc + raw.arg, <<>>, pc, <<>>, "V")
        [] form.role = "switch" ->
             Parsed(form.kind, 0,
                    <<pc + raw.arg>> \o [k \in DOMAIN raw.targets |-> pc + raw.targets[k]],
                    pc, <<>>, "V")
        [] OTHER -> Parsed(form.kind, 0, <<>>, pc, <<>>, "V")

TargetsOf(insn) ==
  CASE IsBranch(insn.kind) -> <<insn.index>>
    [] IsSwitch(insn.kind) -> insn.targets
    [] OTHER -> <<>>

\* pc_to_insn is defined where an instruction begins; elsewhere convert_pc_to_insn fails.
convert_pc_to_insn_fails(insns, pc_to_insn) ==
  \E i \in DOMAIN insns : \E k \in DOMAIN TargetsOf(insns[i]) :
    TargetsOf(insns[i])[k] \notin DOMAIN pc_to_insn

convert_pcs_to_insn_indices(insns, pc_to_insn) ==
  [i \in DOMAIN insns |->
     CASE IsBranch(insns[i].kind) -> [insns[i] EXCEPT !.index = pc_to_insn[@]]
       [] IsSwitch(insns[i].kind) ->
            [insns[i] EXCEPT !.targets = [k \in DOMAIN @ |-> pc_to_insn[@[k]]]]
       [] OTHER -> insns[i]]

(***************************************************************************)
(* An exception table entry: start, end and handler are program counters   *)
(* in the file and indices of instructions afterwards.  The end of a range *)
(* that ends the code is the length of the code, past every instruction.   *)
(***************************************************************************)
HandlerAccepted(e, code_length, pc_to_insn, cp) ==
  /\ e.start < code_length /\ e.end <= code_length /\ e.handler < code_length
  /\ e.start < e.end
  /\ e.start \in DOMAIN pc_to_insn /\ e.handler \in DOMAIN pc_to_insn
  /\ e.end = code_length \/ e.end \in DOMAIN pc_to_insn
  /\ e.catch = 0 \/ checked_cp_entry(cp, e.catch, {"CLASS"})

HandlerOf(e, code_length, pc_to_insn) ==
  [start |-> pc_to_insn[e.start],
   end |-> IF e.end = code_length THEN code_length ELSE pc_to_insn[e.end],
   handler |-> pc_to_insn[e.handler]]

=============================================================================
