---------------------------- MODULE CodeAnalysis ----------------------------
(***************************************************************************)
(* The life of a method's code: parse_code_attribute reads its bytes       *)
(* (src/vm/classfile.c), analyze_method_code types every instruction and   *)
(* rewrites it (src/vm/analysis.c), and the interpreter runs the result.   *)
(* Beside it runs the machine of the JVM specification, on the bytes of    *)
(* the file, with longs and doubles in two words: the rewritten code must  *)
(* do what that machine does, and the summaries the collector reads must   *)
(* describe the frame it is running in.                                    *)
(*                                                                         *)
(* A value is its type and the program counter that produced it.           *)
(***************************************************************************)
EXTENDS StackMaps, ControlFlow

CONSTANT Methods,     \* the Code attributes of the class files under test
         MaxSteps     \* instructions executed per run, a bound of the model

VARIABLES
  method,     \* the Code attribute and what its method says of itself
  phase,      \* what is being done with it
  pc,         \* where the reader of the code is
  code,       \* insns, pc_to_insn, handlers
  temp,       \* the reader's temporary allocation (pc_to_insn) is live
  ctx,        \* method_analysis_ctx
  iter,       \* the stack map iterator
  analysis,   \* stack_states, and the slots of the local variable table
  blocks,     \* the basic blocks
  vm,         \* the frame in the interpreter
  jvm         \* the frame in the specification

vars == <<method, phase, pc, code, temp, ctx, iter, analysis, blocks, vm, jvm>>

Reject == phase' = "rejected"
Void(n) == [i \in 1..n |-> "V"]

----------------------------------------------------------------------------
(***************************************************************************)
(* parse_code_attribute.                                                   *)
(***************************************************************************)
NoCode == [insns |-> <<>>, pc_to_insn |-> <<>>, handlers |-> <<>>]

Init ==
  /\ method \in Methods
  /\ phase = "parse"
  /\ pc = 0
  /\ code = NoCode
  /\ temp = TRUE
  /\ ctx = [stack |-> <<>>, locals |-> <<>>, swizzle |-> <<>>]
  /\ iter = <<>>
  /\ analysis = <<>>
  /\ blocks = <<>>
  /\ vm = <<>>
  /\ jvm = <<>>

ReaderUnchanged == UNCHANGED <<method, ctx, iter, analysis, blocks, vm, jvm>>

\* The error path of parse_classfile frees what the reader of the code had allocated.
FormatError == Reject /\ temp' = FALSE /\ UNCHANGED <<pc, code>>

ParseInsn ==
  /\ phase = "parse" /\ pc < method.length
  /\ IF pc \in DOMAIN method.bytes /\ InsnAccepted(method.bytes[pc], pc, method.pool, method.length)
     THEN LET insn == parse_insn(method.bytes[pc], pc, method.pool)
          IN  /\ code' = [code EXCEPT !.insns = Append(@, insn),
                                      !.pc_to_insn = @ @@ (pc :> Len(code.insns))]
              /\ pc' = pc + 1 + OperandBytes(method.bytes[pc], pc)
              /\ UNCHANGED <<phase, temp>>
     ELSE FormatError
  /\ ReaderUnchanged

\* Branches, then the exception table, then the table of program counters is freed.
ParseTables ==
  /\ phase = "parse" /\ pc = method.length
  /\ IF \/ convert_pc_to_insn_fails(code.insns, code.pc_to_insn)
        \/ \E k \in DOMAIN method.exceptions :
             ~HandlerAccepted(method.exceptions[k], method.length, code.pc_to_insn, method.pool)
     THEN FormatError
     ELSE /\ code' = [code EXCEPT
                        !.insns = convert_pcs_to_insn_indices(@, code.pc_to_insn),
                        !.handlers = [k \in DOMAIN method.exceptions |->
                                        HandlerOf(method.exceptions[k], method.length, code.pc_to_insn)]]
          /\ temp' = FALSE
          /\ phase' = "link"
          /\ pc' = pc
  /\ ReaderUnchanged

----------------------------------------------------------------------------
(***************************************************************************)
(* analyze_method_code.  Locals are numbered from 0 as in the code; slots  *)
(* of the frame are the swizzled locals.                                   *)
(***************************************************************************)
Receivers == IF method.static THEN 0 ELSE 1
WordsOfArgs(n) == Receivers + Len(Spread(SubSeq(method.args, 1, n)))

\* The arguments take the first slots in order, whatever their width; the rest follows.
locals_on_method_entry ==
  LET argument == [n \in {WordsOfArgs(k - 1) : k \in DOMAIN method.args} |->
                     Receivers + (CHOOSE k \in DOMAIN method.args : WordsOfArgs(k - 1) = n) - 1]
      mapped == argument @@ (IF method.static THEN <<>> ELSE (0 :> 0))
      free == 0..(method.max_locals - 1) \ DOMAIN mapped
  IN  [n \in 0..(method.max_locals - 1) |->
         IF n \in DOMAIN mapped THEN mapped[n]
         ELSE Receivers + Len(method.args) + Cardinality({k \in free : k < n})]

LocalsFit == WordsOfArgs(Len(method.args)) <= method.max_locals

EntryTypes == (IF method.static THEN <<>> ELSE <<"L">>) \o method.args
EntryLocals == EntryTypes \o Void(method.max_locals - Len(EntryTypes))

\* Null, uninitialized and plain references are references; tops hold nothing.
validation_type_kind_to_representation(t) ==
  CASE t \in {"N", "U", "L", "W"} -> "L"
    [] t \in {"T", "t"} -> "V"
    [] OTHER -> t

\* The frame of the iterator, with its locals in their slots.
use_stack_map_frame(swizzle, it) ==
  [stack |-> [k \in DOMAIN it.stack |-> validation_type_kind_to_representation(it.stack[k])],
   locals |-> [slot \in 1..method.max_locals |->
                 LET n == CHOOSE n \in DOMAIN swizzle : swizzle[n] = slot - 1
                 IN  IF n + 1 <= Len(it.locals)
                     THEN validation_type_kind_to_representation(it.locals[n + 1])
                     ELSE "V"]]

\* Types that disagree become void; a shorter stack wins.
Meet(a, b) == [i \in 1..(IF Len(a) < Len(b) THEN Len(a) ELSE Len(b)) |-> IF a[i] = b[i] THEN a[i] ELSE "V"]
NoState == <<"unknown">>
FirstStateKept(dst, src) == IF dst = NoState THEN src ELSE dst
intersect_analy_stack_state(dst, src) == IF dst = NoState THEN src ELSE Meet(dst, src)

\* Without a table of stack maps, known states are gathered at the targets of branches.
KnownAt(known, targets, state) ==
  [i \in DOMAIN known |-> IF i \in targets THEN intersect_analy_stack_state(known[i], state) ELSE known[i]]

NoKnown == [i \in DOMAIN code.insns |-> NoState]
HandlerInsns(i) == {code.handlers[k].handler + 1 : k \in {k \in DOMAIN code.handlers :
                      code.handlers[k].start < i /\ i <= code.handlers[k].end}}
AllHandlers == {code.handlers[k].handler + 1 : k \in DOMAIN code.handlers}

fill_exception_handlers == KnownAt(NoKnown, AllHandlers, <<"L">>)

AnalysisUnchanged == UNCHANGED <<method, pc, temp, blocks, vm, jvm>>

BeginAnalysis ==
  /\ phase = "link"
  /\ IF LocalsFit /\ \A k \in DOMAIN method.lvt : method.lvt[k] < method.max_locals
     THEN /\ LET swizzle == locals_on_method_entry
             IN  /\ ctx' = [stack |-> <<>>, locals |-> EntryLocals, swizzle |-> swizzle, i |-> 1,
                            known_stacks |-> fill_exception_handlers, known_locals |-> NoKnown,
                            changed |-> method.missing_smt /\ code.handlers # <<>>, finished |-> ~method.missing_smt,
                            terminated |-> TRUE]
                 /\ analysis' = [states |-> <<>>, lvt |-> [k \in DOMAIN method.lvt |-> swizzle[method.lvt[k]]]]
          /\ iter' = stack_map_frame_iterator_init(method)
          /\ phase' = "analyze"
     ELSE Reject /\ UNCHANGED <<ctx, iter, analysis>>
  /\ UNCHANGED code
  /\ AnalysisUnchanged

\* The state before instruction i: from its frame, from what is known of it, or from the one before.
StateBefore(i) ==
  IF code.insns[i].pc = iter.pc THEN use_stack_map_frame(ctx.swizzle, iter)
  ELSE IF method.missing_smt /\ ctx.terminated
  THEN [stack |-> ctx.known_stacks[i], locals |-> ctx.known_locals[i]]
  ELSE [stack |-> ctx.stack, locals |-> ctx.locals]

\* In this mode the known states of i and of its handlers are narrowed, the current one is not.
KnownBefore(i, s) ==
  IF method.missing_smt /\ code.insns[i].pc # iter.pc
  THEN [stacks |-> IF ctx.terminated THEN ctx.known_stacks ELSE KnownAt(ctx.known_stacks, {i}, s.stack),
        locals |-> KnownAt(IF ctx.terminated THEN ctx.known_locals ELSE KnownAt(ctx.known_locals, {i}, s.locals),
                           HandlerInsns(i), s.locals)]
  ELSE [stacks |-> ctx.known_stacks, locals |-> ctx.known_locals]

LocalLoads == {"iload", "lload", "fload", "dload", "aload"}
LocalStores == {"istore", "lstore", "fstore", "dstore", "astore"}
LocalType(kind) == [iload |-> "I", lload |-> "J", fload |-> "F", dload |-> "D", aload |-> "L",
                    istore |-> "I", lstore |-> "J", fstore |-> "F", dstore |-> "D", astore |-> "L"][kind]
UsesLocal(kind) == kind \in LocalLoads \union LocalStores \union {"iinc"}

\* SWIZZLE_LOCAL, CHECK_LOCAL and SET_LOCAL.
LocalOk(insn, locals) ==
  /\ UsesLocal(insn.kind) => insn.index < method.max_locals
  /\ insn.kind \in LocalLoads => locals[ctx.swizzle[insn.index] + 1] = LocalType(insn.kind)

LocalsAfter(insn, locals) ==
  IF insn.kind \in LocalStores
  THEN [locals EXCEPT ![ctx.swizzle[insn.index] + 1] = LocalType(insn.kind)]
  ELSE locals

\* Distances in instructions rather than in bytes.
calculate_branch_delta(insn, i) == insn.index - (i - 1)
calculate_local_modifying_insn_delta(slot) == method.max_locals - slot

\* iinc is swizzled and keeps its index; jsr keeps its target, which no handler reads.
DeltaUnswizzled(insn, kind, i) ==
  CASE insn.kind \in LocalLoads \union LocalStores ->
         [insn EXCEPT !.kind = kind, !.delta = calculate_local_modifying_insn_delta(insn.index)]
    [] insn.kind = "iinc" -> [insn EXCEPT !.index = ctx.swizzle[@]]
    [] IsBranch(insn.kind) /\ insn.kind # "jsr" ->
         [insn EXCEPT !.kind = kind, !.delta = calculate_branch_delta(insn, i)]
    [] OTHER -> [insn EXCEPT !.kind = kind]
RewriteInsn(insn, kind, i) ==
  CASE insn.kind \in LocalLoads \union LocalStores ->
         LET slot == ctx.swizzle[insn.index]
         IN  [insn EXCEPT !.kind = kind, !.index = slot,
                          !.delta = calculate_local_modifying_insn_delta(slot)]
    [] insn.kind = "iinc" -> [insn EXCEPT !.index = ctx.swizzle[@]]
    [] IsBranch(insn.kind) /\ insn.kind # "jsr" ->
         [insn EXCEPT !.kind = kind, !.delta = calculate_branch_delta(insn, i)]
    [] OTHER -> [insn EXCEPT !.kind = kind]

\* The instructions after which the analysis does not go on to the next one.
Terminates(kind) == kind \in {"goto", "athrow", "tableswitch", "lookupswitch"} \union DOMAIN ReturnForms

push_branch_target(known, insn, state) ==
  IF method.missing_smt THEN KnownAt(known, {t + 1 : t \in ToSet(TargetsOf(insn))}, state) ELSE known

NextFrameFails(i) ==
  code.insns[i].pc = iter.pc /\ iter.has_next /\ stack_map_frame_iterator_next_fails(iter, method)

StateIsKnown(i) ==
  (method.missing_smt /\ ctx.terminated /\ code.insns[i].pc # iter.pc) =>
    ctx.known_stacks[i] # NoState /\ ctx.known_locals[i] # NoState

AnalyzeInsn ==
  /\ phase = "analyze" /\ ctx.i <= Len(code.insns)
  /\ LET i == ctx.i
         insn == code.insns[i]
     IN  IF ~StateIsKnown(i) THEN phase' = "aborted" /\ UNCHANGED <<code, ctx, iter, analysis>>
         ELSE IF NextFrameFails(i) THEN Reject /\ UNCHANGED <<code, ctx, iter, analysis>>
         ELSE LET s == StateBefore(i)
                  known == KnownBefore(i, s)
                  r == analyze_instruction(insn, s.stack, method.max_stack + 1)
              IN  IF ~r.ok \/ ~LocalOk(insn, s.locals)
                  THEN Reject /\ UNCHANGED <<code, ctx, iter, analysis>>
                  ELSE LET stacks == push_branch_target(known.stacks, insn, r.types)
                           locals == push_branch_target(known.locals, insn, s.locals)
                       IN  /\ ctx' = [ctx EXCEPT !.i = i + 1, !.stack = r.types,
                                        !.locals = LocalsAfter(insn, s.locals),
                                        !.known_stacks = stacks, !.known_locals = locals,
                                        !.changed = @ \/ stacks # ctx.known_stacks \/ locals # ctx.known_locals,
                                        !.terminated = Terminates(insn.kind)]
                           /\ iter' = IF insn.pc = iter.pc /\ iter.has_next
                                      THEN stack_map_frame_iterator_next(iter) ELSE iter
                           /\ IF ctx.finished
                              THEN /\ code' = [code EXCEPT !.insns[i] = RewriteInsn(@, r.kind, i)]
                                   /\ analysis' = [analysis EXCEPT !.states = Append(@, s)]
                              ELSE UNCHANGED <<code, analysis>>
                           /\ phase' = phase
  /\ AnalysisUnchanged

\* Another pass while something changed, then one that records and rewrites.
AnotherPass ==
  /\ phase = "analyze" /\ ctx.i > Len(code.insns)
  /\ ctx.changed \/ ~ctx.finished
  /\ ctx' = [ctx EXCEPT !.i = 1, !.changed = FALSE, !.terminated = TRUE, !.finished = @ \/ ~ctx.changed]
  /\ iter' = stack_map_frame_iterator_init(method)
  /\ UNCHANGED <<phase, code, analysis>>
  /\ AnalysisUnchanged

LastPassOver == phase = "analyze" /\ ctx.i > Len(code.insns) /\ ~ctx.changed /\ ctx.finished

\* The last pass is over; the JIT asks for the basic blocks and their dominators.
FinishAnalysis ==
  /\ LastPassOver
  /\ LET bs == scan_basic_blocks(code.insns)
         dt == compute_dominator_tree(bs)
     IN  blocks' = [bs |-> bs, dt |-> dt, reduced |-> attempt_reduce_cfg(bs, dt)]
  /\ phase' = "ready"
  /\ UNCHANGED <<method, pc, temp, code, ctx, iter, analysis, vm, jvm>>

\* The edges of a deleted block are given to free, which did not allocate them: undefined, and
\* what happens is this or nothing.
InvalidFree ==
  /\ LastPassOver
  /\ DeletesEdges(code.insns)
  /\ phase' = "crashed"
  /\ UNCHANGED <<method, pc, temp, code, ctx, iter, analysis, blocks, vm, jvm>>

----------------------------------------------------------------------------
(***************************************************************************)
(* The method runs.  The frame of the interpreter has one slot per local   *)
(* and one entry per value; the words of the specification are pairs of a  *)
(* value and which of its words this is.  Slots that nobody wrote hold     *)
(* what was in that memory before.                                         *)
(***************************************************************************)
Val(t, at) == [t |-> t, at |-> at]
Garbage == Val("V", -1)
WideVal(v) == is_kind_wide(v.t)
Argument(k) == Val(EntryTypes[k], -1 - k)
NoWord == <<Garbage, 1>>

EntryWords ==
  LET words == Words([k \in DOMAIN EntryTypes |-> Argument(k)], WideVal)
  IN  [n \in 0..(method.max_locals - 1) |-> IF n < Len(words) THEN words[n + 1] ELSE NoWord]

Call ==
  /\ phase = "ready"
  /\ phase' = "run"
  /\ vm' = [i |-> 0, stack |-> <<>>, missed |-> {}, thrown |-> FALSE, steps |-> 0,
            slots |-> [k \in 1..method.max_locals |->
                         IF k <= Len(EntryTypes) THEN Argument(k) ELSE Garbage]]
  /\ jvm' = [pc |-> 0, stack |-> <<>>, words |-> EntryWords]
  /\ UNCHANGED <<method, pc, code, temp, ctx, iter, analysis, blocks>>

RunUnchanged == UNCHANGED <<method, pc, code, temp, ctx, iter, analysis, blocks>>

Current == code.insns[vm.i + 1]
Written == method.bytes[jvm.pc]
CanThrow(kind) == kind \in {"athrow", "invokestatic", "new", "ldc"}

\* The slot a load or store addresses: delta counts back from the frame header.
SlotOf(insn) == method.max_locals - insn.delta + 1

\* Slots whose reference the collector would neither follow nor update at this instruction.
UnfollowedAtNext ==
  LET state == analysis.states[IF vm.i + 2 <= Len(analysis.states) THEN vm.i + 2 ELSE vm.i + 1]
  IN  {k \in DOMAIN vm.slots : vm.slots[k].t = "L" /\ state.locals[k] # "L"}
Unfollowed ==
  LET state == analysis.states[vm.i + 1]
  IN  {k \in DOMAIN vm.slots : vm.slots[k].t = "L" /\ state.locals[k] # "L"}

\* What a run of instruction i does to the frame; choice 0 falls through, k takes target k.
Pops(insn) == CASE insn.kind = "pop" -> 1 [] insn.kind = "pop2" -> 2 [] OTHER -> Len(Effect(insn).pop)
Results(insn) ==
  CASE insn.kind \in LocalLoads -> <<vm.slots[SlotOf(insn)]>>
    [] insn.kind \in {"pop", "pop2"} -> <<>>
    [] OTHER -> [k \in DOMAIN Effect(insn).push |-> Val(Effect(insn).push[k], insn.pc)]

NextInsn(insn, choice) ==
  CASE choice = 0 -> vm.i + 1
    [] choice > 0 /\ IsBranch(insn.kind) -> vm.i + insn.delta
    [] choice > 0 /\ IsSwitch(insn.kind) -> insn.targets[choice]

RunInsn(insn, choice) ==
  vm' = [vm EXCEPT !.i = NextInsn(insn, choice), !.steps = @ + 1,
                   !.stack = Drop(@, Pops(insn)) \o Results(insn),
                   !.missed = (@ \union Unfollowed)
                              \ (IF insn.kind \in LocalStores THEN {SlotOf(insn)} ELSE {}),
                   !.slots = IF insn.kind \in LocalStores THEN [@ EXCEPT ![SlotOf(insn)] = Last(vm.stack)]
                                                          ELSE @]

(***************************************************************************)
(* The same instruction in the specification, read from the bytes.         *)
(***************************************************************************)
WrittenKind == LET form == FormOf(Written.op)
               IN  IF form.kind = "ldc" THEN LdcKind(method.pool[Written.arg]) ELSE form.kind
WrittenInsn == IF FormOf(Written.op).role = "pool" /\ FormOf(Written.op).kind # "ldc"
               THEN Insn(WrittenKind, method.pool[Written.arg].args, method.pool[Written.arg].ret)
               ELSE Insn(WrittenKind, <<>>, "V")
WordCount(types) == Len(Spread(types))
WordPops == CASE WrittenKind = "pop" -> 1 [] WrittenKind = "pop2" -> 2
              [] OTHER -> WordCount(Effect(WrittenInsn).pop)
WordResults ==
  CASE WrittenKind \in LocalLoads ->
         [k \in 1..WordCount(<<LocalType(WrittenKind)>>) |-> jvm.words[Written.arg + k - 1]]
    [] WrittenKind \in {"pop", "pop2"} -> <<>>
    [] OTHER -> Words([k \in DOMAIN Effect(WrittenInsn).push |->
                         Val(Effect(WrittenInsn).push[k], jvm.pc)], WideVal)

\* A store overwrites the value whose other word it destroys.
Broken(words, n, width) ==
  (IF words[n][2] = 2 THEN {n - 1} ELSE {})
  \union (IF n + width \in DOMAIN words /\ words[n + width][2] = 2 THEN {n + width} ELSE {})
StoreWords(words, n, width, new) ==
  [m \in DOMAIN words |-> IF m \in n..(n + width - 1) THEN new[m - n + 1]
                          ELSE IF m \in Broken(words, n, width) THEN NoWord ELSE words[m]]

NextPc(choice) ==
  CASE choice = 0 -> Min({q \in DOMAIN method.bytes : q > jvm.pc} \union {method.length})
    [] choice = 1 -> jvm.pc + Written.arg
    [] choice > 1 -> jvm.pc + Written.targets[choice - 1]

RunWritten(choice) ==
  jvm' = [pc |-> NextPc(choice),
          stack |-> Drop(jvm.stack, WordPops) \o WordResults,
          words |-> IF WrittenKind \in LocalStores
                    THEN StoreWords(jvm.words, Written.arg, WordPops,
                                    SubSeq(jvm.stack, Len(jvm.stack) - WordPops + 1, Len(jvm.stack)))
                    ELSE jvm.words]

\* The choices the specification has at this instruction.
Options == CASE IsSwitch(WrittenKind) -> 1..(1 + Len(Written.targets))
             [] WrittenKind = "goto" -> {1}
             [] IsBranch(WrittenKind) /\ WrittenKind # "goto" -> {0, 1}
             [] OTHER -> {0}

Leaves(kind) == kind \in DOMAIN ReturnForms \union {"athrow"}

Step ==
  /\ phase = "run" /\ vm.steps < MaxSteps
  /\ ~Leaves(Current.kind)
  /\ \E choice \in Options : RunInsn(Current, choice) /\ RunWritten(choice)
  /\ phase' = phase
  /\ RunUnchanged

Return ==
  /\ phase = "run" /\ Current.kind \in DOMAIN ReturnForms
  /\ phase' = "done"
  /\ UNCHANGED <<vm, jvm>>
  /\ RunUnchanged

(***************************************************************************)
(* An exception: the first entry whose range holds the instruction and     *)
(* whose class the exception has, if any.                                  *)
(***************************************************************************)
find_exception_handler(i, caught) ==
  {k \in DOMAIN code.handlers :
     code.handlers[k].start <= i /\ i < code.handlers[k].end /\ k \in caught}
HandlersOfSpecification(at, caught) ==
  {k \in DOMAIN method.exceptions :
     method.exceptions[k].start <= at /\ at < method.exceptions[k].end /\ k \in caught}

Exception == Val("L", -1)

Throw ==
  /\ phase = "run" /\ vm.steps < MaxSteps
  /\ CanThrow(Current.kind)
  /\ \E caught \in SUBSET DOMAIN method.exceptions :
       /\ \A k \in DOMAIN method.exceptions : method.exceptions[k].catch = 0 => k \in caught
       /\ LET found == find_exception_handler(vm.i, caught)
              expected == HandlersOfSpecification(jvm.pc, caught)
          IN  IF found = {} \/ expected = {}
              THEN /\ phase' = IF found = expected THEN "done" ELSE "escaped"
                   /\ UNCHANGED <<vm, jvm>>
              ELSE /\ vm' = [vm EXCEPT !.i = code.handlers[Min(found)].handler, !.stack = <<Exception>>,
                                       !.missed = @ \union Unfollowed, !.thrown = TRUE, !.steps = @ + 1]
                   /\ jvm' = [jvm EXCEPT !.pc = method.exceptions[Min(expected)].handler,
                                         !.stack = <<<<Exception, 1>>>>]
                   /\ phase' = phase
  /\ RunUnchanged

Next == \/ ParseInsn \/ ParseTables \/ BeginAnalysis \/ AnalyzeInsn \/ AnotherPass \/ FinishAnalysis
        \/ InvalidFree \/ Call \/ Step \/ Return \/ Throw

Spec == Init /\ [][Next]_vars

----------------------------------------------------------------------------
\* The table begins with a frame for the first instruction that is not a same_frame, which moves the
\* iterator nowhere, or has no frame, where the iterator expects one (stackmaptable.c:73, 83).
EntryFrameMisread ==
  /\ method.has_smt
  /\ \/ method.smt = <<>>
     \/ LET first == DecodeFrame(Iterator(0, <<>>, init_locals(method), method.smt, TRUE, TRUE))
        IN  Head(method.smt) # 0 /\ first.ok /\ first.delta = 0

\* Without a table of stack maps: behind a jump or a return stands an instruction that none before
\* it branches to and that handles no exception of those before it, the first one apart.
UnknownBehindJump ==
  \E i \in DOMAIN code.insns \ {1} :
    /\ Terminates(code.insns[i - 1].kind)
    /\ \A j \in 1..(i - 1) : i - 1 \notin ToSet(TargetsOf(code.insns[j]))
    /\ \A j \in 2..(i - 1) : i \notin HandlerInsns(j)

\* A legal method is accepted, and one with a defect is not run: format errors of
\* parse_code_attribute, and the checks of analyze_instruction and of the frames.  Two kinds of legal
\* methods are not: some whose table says something of the first instruction, and, without a table,
\* exactly those in which a CHECK finds no state for the code behind a jump, although it "should be
\* able to recover" (analysis.c:1063).
VerdictRight ==
  /\ phase = "rejected" => ~method.legal \/ EntryFrameMisread
  /\ phase = "aborted" => method.missing_smt /\ UnknownBehindJump
  /\ phase \in {"ready", "run", "done"} => method.legal /\ ~(method.missing_smt /\ UnknownBehindJump)

\* After parsing, rewriting and swizzling, the interpreter is where the specification is, with
\* the same operands and with every defined local in the slot its instructions address; and an
\* exception escapes only where the class file has no handler for it.
RunsAsWritten ==
  /\ phase # "escaped"
  /\ phase = "run" =>
    /\ vm.i + 1 \in DOMAIN code.insns /\ Current.pc = jvm.pc
    /\ Words(vm.stack, WideVal) = jvm.stack
    /\ \A n \in DOMAIN jvm.words :
         (jvm.words[n][2] = 1 /\ jvm.words[n] # NoWord) => vm.slots[ctx.swizzle[n] + 1] = jvm.words[n][1]

\* Without a table of stack maps the locals that reach an instruction are narrowed where they are
\* stored, and the analysis goes on with those of the instruction before ("Intersect the current stack
\* state with the known state", analysis.c:1069): of slot k some merge was forgotten.
MergeForgotten(k) ==
  method.missing_smt /\ \E i \in DOMAIN analysis.states :
    ctx.known_locals[i] # NoState /\ ctx.known_locals[i][k] # analysis.states[i].locals[k]

\* The stack_summary of an instruction describes every frame that is at that instruction: what it
\* calls a reference is one, so that the collector never follows a number; of the locals, those of
\* which no merge was forgotten.
SummaryHolds ==
  phase = "run" =>
    LET s == analysis.states[vm.i + 1]
    IN  /\ s.stack = [k \in DOMAIN vm.stack |-> vm.stack[k].t]
        /\ \A k \in DOMAIN s.locals :
             s.locals[k] # "V" => vm.slots[k].t = s.locals[k] \/ MergeForgotten(k)

\* A reference that aload reads was in the summary of every instruction since it was stored, so
\* that any collection in between has kept and updated it.
NoReferenceMissed ==
  (phase = "run" /\ Current.kind = "aload") => SlotOf(Current) \notin vm.missed

BlockOf(i) == {b \in DOMAIN blocks.bs : i \in blocks.bs[b].start..(blocks.bs[b].start + blocks.bs[b].count - 1)}

\* An unconditional jump with code behind it that nothing branches to, as a handler behind the try
\* block: the block goes on there, and has the edges of its last instruction (analysis.c:1177, 1209).
JumpsFromWithin(i) ==
  /\ ~FallsThrough(code.insns[i + 1].kind)
  /\ \A b \in BlockOf(i) : i + 1 < blocks.bs[b].start + blocks.bs[b].count

\* As long as nothing is thrown, execution stays in the blocks kept for the JIT and moves between
\* them along their edges.  Only a jump out of the middle of a block has no edge; the code it leads
\* to may be deleted, which "is not accessible without throwing an exception" (analysis.c:1163).
StepsFollowEdges ==
  [][(phase = "run" /\ phase' = "run" /\ ~vm'.thrown
      /\ BlockOf(vm.i) # {} /\ ~JumpsFromWithin(vm.i)) =>
       \E b \in BlockOf(vm.i), c \in BlockOf(vm'.i) :
         (b = c /\ vm'.i = vm.i + 1) \/ (vm'.i = blocks.bs[c].start /\ c \in ToSet(blocks.bs[b].next))]_vars

\* Without block d, block b cannot be reached.
Dominates(bs, d, b) ==
  d = b \/ LET reach[k \in 0..Cardinality(DOMAIN bs)] ==
                 IF k = 0 THEN {0} \ {d}
                 ELSE LET r == reach[k - 1] IN (r \union UNION {ToSet(bs[x].next) : x \in r}) \ {d}
           IN  b \notin reach[Cardinality(DOMAIN bs)]

DominatorsFound ==
  \A d, b \in DOMAIN blocks.bs : Dominates(blocks.bs, d, b) => query_dominance(blocks.dt, d, b)

LoopsHaveHeaders ==
  \A b \in DOMAIN blocks.bs \ blocks.reduced.headers :
    LET n == Cardinality(DOMAIN blocks.bs)
        after(S) == UNION {ToSet(blocks.bs[x].next) : x \in S} \ blocks.reduced.headers
        reach[k \in 1..n] == IF k = 1 THEN after({b}) ELSE LET r == reach[k - 1] IN r \union after(r)
    IN  b \notin reach[n]

\* The tree may claim too many dominators, against "true iff dominator dominates dominated"
\* (analysis.h:112): the walk for the relative dominator compares the wrong numbers (1353).  They are
\* on the path to the block in the depth-first tree all the same.
ClaimedOnPath ==
  LET tree == get_dfs_tree(blocks.bs)
  IN  \A d, b \in DOMAIN blocks.bs :
        query_dominance(blocks.dt, d, b) => d \in {b} \union PathUp(tree, b, LAMBDA x : FALSE)

\* What the compiler is told of the graph (analysis.c:1291, 1410).  Every dominator is found, and
\* nothing is taken for one that is not above the block in the depth-first tree.  Where
\* attempt_reduce_cfg reports a reducible graph, every cycle of it passes through a loop header, and
\* so does every path round a loop that the JIT would open there.
GraphSound ==
  phase = "ready" => /\ DominatorsFound /\ ClaimedOnPath
                     /\ blocks.reduced.reducible => LoopsHaveHeaders

=============================================================================
