--------------------------- MODULE MCCodeAnalysis ---------------------------
(***************************************************************************)
(* CodeAnalysis for TLC: every method of a few statements over a small     *)
(* alphabet, compiled as the Java compiler would.  A statement stores to   *)
(* or uses a local, evaluates a conditional expression, branches, calls,   *)
(* returns or throws; a handler follows the last return or stands where    *)
(* javac puts it, behind the jump over it.                                 *)
(* Methods without statements that cannot be reached are kept, their types *)
(* are inferred, and the frames at branch targets and handlers are encoded *)
(* in each of the ways a class file may use.                               *)
(***************************************************************************)
EXTENDS CodeAnalysis

\* The same sequence, evaluated once by TLC.
Row(f) == f \o <<>>

S(kind, t, n) == [s |-> kind, t |-> t, n |-> n]
Set(t, n) == S("set", t, n)
Use(t, n) == S("use", t, n)
Cond(n) == S("cond", "L", n)
Catch(n) == S("catch", "L", n)
If(to) == S("if", "V", to)
Goto(to) == S("goto", "V", to)
Switch(to) == S("switch", "V", to)
Lookup(to) == S("lookup", "V", to)
CallIt == S("call", "V", 0)
Ret == S("ret", "V", 0)
ThrowIt == S("throw", "V", 0)

Locals == 4    \* max_locals of every method

----------------------------------------------------------------------------
\* The types of the locals in words, "j" for the second word of a long.
EntryOf(d) ==
  LET w == FlattenSeq([k \in DOMAIN d.args |-> IF d.args[k] = "J" THEN <<"J", "j">> ELSE <<d.args[k]>>])
      all == (IF d.static THEN <<>> ELSE <<"L">>) \o w
  IN  Row([k \in 1..Locals |-> IF k <= Len(all) THEN all[k] ELSE "T"])

StoreType(w, t, n) ==
  LET last == IF t = "J" THEN n + 2 ELSE n + 1
  IN  Row([k \in 1..Locals |-> CASE k = n + 1 -> t
                                 [] k = n + 2 /\ t = "J" -> "j"
                                 [] k = n /\ w[k] = "J" -> "T"
                                 [] k = last + 1 /\ w[k] = "j" -> "T"
                                 [] OTHER -> w[k]])

After(st, w) == IF st.s \in {"set", "cond", "catch"} THEN StoreType(w, st.t, st.n) ELSE w
FallsOn(st) == st.s \notin {"goto", "ret", "throw"}
Jumps(st) == IF st.s \in {"if", "goto", "switch", "lookup"} THEN {st.n} ELSE {}

Unreached == <<>>
Merge(a, b) == IF a = Unreached THEN b ELSE IF b = Unreached THEN a
               ELSE Row([k \in 1..Locals |-> IF a[k] = b[k] THEN a[k] ELSE "T"])
\* A merge that lost one word of a long has lost the other.
Whole(w) == IF w = Unreached THEN w
            ELSE Row([k \in 1..Locals |-> IF (w[k] = "j" /\ w[k - 1] # "J")
                                            \/ (w[k] = "J" /\ (k = Locals \/ w[k + 1] # "j")) THEN "T" ELSE w[k]])

(***************************************************************************)
(* The types before every statement.  tries is a set of ranges of          *)
(* statements covered by the handler.                                      *)
(***************************************************************************)
Incoming(stmts, d, range, handler, types, s) ==
  LET from == {p \in DOMAIN stmts : types[p] # Unreached /\ (s \in Jumps(stmts[p]) \/ (p + 1 = s /\ FallsOn(stmts[p])))}
      outs == {After(stmts[p], types[p]) : p \in from}
              \union (IF s = handler THEN {types[p] : p \in range} \ {Unreached} ELSE {})
              \union (IF s = 1 THEN {EntryOf(d)} ELSE {})
  IN  Whole(FoldSet(Merge, Unreached, outs))

TypesBefore(stmts, d, range, handler) ==
  LET rounds[k \in 0..(2 * Len(stmts))] ==
        IF k = 0 THEN Row([s \in DOMAIN stmts |-> Unreached])
        ELSE LET before == rounds[k - 1]
             IN  Row([s \in DOMAIN stmts |-> Incoming(stmts, d, range, handler, before, s)])
  IN  rounds[2 * Len(stmts)]

\* Arguments keep their types where a loop returns to the first instruction.
WellTyped(stmts, types, d) ==
  /\ types[1] = EntryOf(d)
  /\ \A s \in DOMAIN stmts : /\ types[s] # Unreached
                             /\ stmts[s].s = "use" => types[s][stmts[s].n + 1] = stmts[s].t

----------------------------------------------------------------------------
(***************************************************************************)
(* Instructions with labels: to lists the statements or, as negative       *)
(* numbers, the instructions further down, that they branch to.            *)
(***************************************************************************)
F(op, arg, to) == [op |-> op, arg |-> arg, to |-> to]

Compile(st, s) ==
  CASE st.s = "set" /\ st.t = "I" -> <<F("iconst_n", 1, <<>>), F("istore_n", st.n, <<>>)>>
    [] st.s = "set" /\ st.t = "J" -> <<F("ldc2_w", 3, <<>>), F("lstore", st.n, <<>>)>>
    [] st.s = "set" /\ st.t = "L" -> <<F("aconst_null", 0, <<>>), F("astore_n", st.n, <<>>)>>
    [] st.s = "use" /\ st.t = "I" -> <<F("iload", st.n, <<>>), F("pop", 0, <<>>)>>
    [] st.s = "use" /\ st.t = "J" -> <<F("lload_n", st.n, <<>>), F("pop2", 0, <<>>)>>
    [] st.s = "use" /\ st.t = "L" -> <<F("wide_aload", st.n, <<>>), F("pop", 0, <<>>)>>
    [] st.s = "cond" -> <<F("sipush", 1, <<>>), F("ifeq", 0, <<-3>>), F("ldc", 1, <<>>), F("goto", 0, <<-2>>),
                          F("aconst_null", 0, <<>>), F("astore", st.n, <<>>)>>
    [] st.s = "catch" -> <<F("astore", st.n, <<>>)>>
    [] st.s = "if" -> <<F("iconst_n", 1, <<>>), F("ifeq", 0, <<st.n>>)>>
    [] st.s = "goto" -> <<F(IF st.n < s THEN "goto_w" ELSE "goto", 0, <<st.n>>)>>
    [] st.s = "switch" -> <<F("bipush", 1, <<>>), F("tableswitch", 0, <<st.n, s + 1, st.n>>)>>
    [] st.s = "lookup" -> <<F("bipush", 1, <<>>), F("lookupswitch", 0, <<s + 1, st.n>>)>>
    [] st.s = "call" -> <<F("invokestatic", 2, <<>>)>>
    [] st.s = "ret" -> <<F("return", 0, <<>>)>>
    [] st.s = "throw" -> <<F("aconst_null", 0, <<>>), F("athrow", 0, <<>>)>>

\* The lengths the specification gives these instructions.
FixedLength ==
  [op \in {"iconst_n", "istore_n", "astore_n", "lload_n", "aconst_null", "pop", "pop2", "return", "athrow"} |-> 1]
  @@ [op \in {"bipush", "ldc", "iload", "lstore", "astore"} |-> 2]
  @@ [op \in {"sipush", "ldc2_w", "ifeq", "goto", "invokestatic"} |-> 3]
  @@ [wide_aload |-> 4, goto_w |-> 5]
AlignedAfter(pc0) == CHOOSE q \in (pc0 + 1)..(pc0 + 4) : q % 4 = 0
LengthAt(f, pc0) ==
  CASE f.op = "tableswitch" -> AlignedAfter(pc0) - pc0 + 12 + 4 * (Len(f.to) - 1)
    [] f.op = "lookupswitch" -> AlignedAfter(pc0) - pc0 + 8 + 8 * (Len(f.to) - 1)
    [] OTHER -> FixedLength[f.op]

Flat(stmts) == FlattenSeq([s \in DOMAIN stmts |-> Compile(stmts[s], s)])
\* The number of the first instruction of every statement.
Firsts(stmts) ==
  FoldLeft(LAMBDA acc, k : Append(acc, Last(acc) + Len(Compile(stmts[k], k))), <<1>>, Row([k \in DOMAIN stmts |-> k]))

\* The program counter of every instruction, and of the end of the code.
Layout(flat) ==
  FoldLeft(LAMBDA pcs, f : Append(pcs, Last(pcs) + LengthAt(f, Last(pcs))), <<0>>, flat)

ResolveTo(first, pcs, k, to) == pcs[IF to < 0 THEN k - to ELSE first[to]] - pcs[k]
Emit(first, flat, pcs, k) ==
  LET f == flat[k]
      offsets == Row([j \in DOMAIN f.to |-> ResolveTo(first, pcs, k, f.to[j])])
  IN  IF f.to = <<>> THEN Raw(f.op, f.arg)
      ELSE RawSwitch(f.op, Head(offsets), Tail(offsets))
BytesOf(first, flat, pcs) ==
  [q \in {pcs[k] : k \in DOMAIN flat} |-> Emit(first, flat, pcs, CHOOSE k \in DOMAIN flat : pcs[k] = q)]

----------------------------------------------------------------------------
(***************************************************************************)
(* Frames: where the file must say what the types are, in which order, and *)
(* the bytes each may be given.                                            *)
(***************************************************************************)
RECURSIVE Trim(_)
Trim(s) == IF s # <<>> /\ Last(s) = "T" THEN Trim(Front(s)) ELSE s
FrameLocals(w) == Trim(SelectSeq(w, LAMBDA t : t # "j"))

NeedsFrame(stmts, handler, s) ==
  \/ \E p \in DOMAIN stmts : s \in Jumps(stmts[p]) \/ (p + 1 = s /\ (~FallsOn(stmts[p]) \/ stmts[p].s \in {"switch", "lookup"}))
  \/ s = handler

FramesOf(stmts, types, handler, first, pcs) ==
  LET at(s) == pcs[first[s]]
      mine(s) == IF NeedsFrame(stmts, handler, s)
                 THEN <<[pc |-> at(s), locals |-> FrameLocals(types[s]),
                         stack |-> IF s = handler THEN <<"L">> ELSE <<>>]>>
                 ELSE <<>>
      inner(s) == IF stmts[s].s = "cond"
                  THEN <<[pc |-> pcs[first[s] + 4], locals |-> FrameLocals(types[s]), stack |-> <<>>],
                         [pc |-> pcs[first[s] + 5], locals |-> FrameLocals(types[s]), stack |-> <<"L">>]>>
                  ELSE <<>>
  IN  FlattenSeq([s \in DOMAIN stmts |-> mine(s) \o inner(s)])

Items(types) == FlattenSeq([k \in DOMAIN types |-> IF types[k] = "L" THEN <<"L", 7>> ELSE <<types[k]>>])

IsFrontOf(a, b) == Len(a) <= Len(b) /\ SubSeq(b, 1, Len(a)) = a
EncodeFrame(before, f, delta, style) ==
  LET gone == Len(before) - Len(f.locals)
      full == <<255, delta, Len(f.locals)>> \o Items(f.locals) \o <<Len(f.stack)>> \o Items(f.stack)
  IN  CASE f.pc = 0 -> <<0>>
        [] f.pc > 0 /\ style = "full" -> full
        [] f.pc > 0 /\ style # "full" /\ f.locals = before ->
             IF f.stack = <<>> THEN (IF style = "extended" THEN <<251, delta>> ELSE <<delta>>)
             ELSE (IF style = "extended" THEN <<247, delta>> ELSE <<64 + delta>>) \o Items(f.stack)
        [] f.pc > 0 /\ style # "full" /\ gone \in 1..3 /\ IsFrontOf(f.locals, before) /\ f.stack = <<>> ->
             <<251 - gone, delta>>
        [] f.pc > 0 /\ style # "full" /\ gone \in -3..-1 /\ IsFrontOf(before, f.locals) /\ f.stack = <<>> ->
             <<251 - gone, delta>> \o Items(SubSeq(f.locals, Len(before) + 1, Len(f.locals)))
        [] OTHER -> full

EncodeFrames(frames, entry, style) ==
  FoldLeft(LAMBDA acc, f :
             [items |-> acc.items \o EncodeFrame(acc.locals, f, IF acc.items = <<>> THEN f.pc ELSE f.pc - acc.pc - 1, style),
              locals |-> f.locals, pc |-> f.pc],
           [items |-> <<>>, locals |-> entry, pc |-> 0], frames).items

----------------------------------------------------------------------------
Pool == <<[kind |-> "STRING", args |-> <<>>, ret |-> "V"], [kind |-> "METHOD_REF", args |-> <<>>, ret |-> "V"],
          [kind |-> "LONG", args |-> <<>>, ret |-> "V"], [kind |-> "INVALID", args |-> <<>>, ret |-> "V"],
          [kind |-> "CLASS", args |-> <<>>, ret |-> "V"]>>

\* The statements of range are covered by the handler, which is statement number handler or 0.
Source(stmts, d, range, handler, style) ==
  [stmts |-> stmts, d |-> d, range |-> range, handler |-> handler, style |-> style]
Compiled(x) ==
  LET stmts == x.stmts  d == x.d  range == x.range  handler == x.handler  style == x.style
      types == TypesBefore(stmts, d, range, handler)
      flat == Flat(stmts)
      first == Firsts(stmts)
      pcs == Layout(flat)
      ok == /\ \A s \in DOMAIN stmts : Jumps(stmts[s]) \subseteq DOMAIN stmts \ {handler}
            /\ WellTyped(stmts, types, d)
      frames == IF style = "none" \/ ~ok THEN <<>> ELSE FramesOf(stmts, types, handler, first, pcs)
  IN  [usable |-> ok, static |-> d.static, is_ctor |-> d.is_ctor, args |-> d.args, max_locals |-> Locals,
       max_stack |-> 2, length |-> Last(pcs), bytes |-> BytesOf(first, flat, pcs), pool |-> Pool,
       exceptions |-> IF range = {} THEN <<>>
                      ELSE <<[start |-> pcs[first[Min(range)]],
                              end |-> pcs[first[Max(range) + 1]],
                              handler |-> pcs[first[handler]], catch |-> 0]>>,
       smt |-> EncodeFrames(frames, FrameLocals(EntryOf(d)), style), has_smt |-> frames # <<>>,
       missing_smt |-> style = "none", lvt |-> <<0, Locals - 1>>, legal |-> TRUE]

\* A body and a return, and behind them the handler, if there is one.
SourceOf(body, d, range, style) ==
  IF range = {} THEN Source(Append(body, Ret), d, {}, 0, style)
  ELSE Source(Append(body, Ret) \o <<Catch(3), Ret>>, d, range, Len(body) + 2, style)
MethodOf(body, d, range, style) == Compiled(SourceOf(body, d, range, style))

----------------------------------------------------------------------------
D(static, is_ctor, args) == [static |-> static, is_ctor |-> is_ctor, args |-> args]
Twice == D(TRUE, FALSE, <<"J", "L">>)
Plain == D(FALSE, FALSE, <<"L">>)
Ctor == D(FALSE, TRUE, <<"J">>)

Straight == {Set("I", 1), Set("L", 1), Set("J", 1), Set("L", 3), Use("L", 2), Use("L", 3), Cond(3)}
Jumping == {If(1), If(2), If(3), If(4), Goto(4), Switch(4), CallIt}
Trying == {Set("I", 1), Set("J", 2), Use("J", 1), Use("L", 1), Lookup(4), If(4), CallIt, ThrowIt}

Bodies == [1..3 -> Straight \union Jumping]
TryBodies == [1..3 -> Trying]
\* Branches over code that has other locals, nested loops, a switch into a loop.
Longer == {<<If(4), Set("L", 3), Goto(5), Ret, Use("L", 3)>>,
           <<Cond(3), Set("I", 1), If(4), Use("L", 3), If(2), If(1)>>,
           <<Switch(3), Set("L", 1), CallIt, If(2), Lookup(3), Use("L", 2)>>}
Sources ==
  {[b |-> b, d |-> Twice, range |-> {}, style |-> "compact"] : b \in Bodies}
  \union [b : Longer, d : {Twice}, range : {{}, {3}, {2, 3, 4}}, style : {"compact", "full"}]
  \union [b : TryBodies, d : {Plain}, range : {{1}, {2, 3}}, style : {"compact"}]
  \union [b : [1..2 -> Trying \union {Cond(3), Goto(2), Goto(3)}], d : {Plain, Ctor, Twice}, range : {{}, {1}, {2}, {1, 2}},
         style : {"extended", "full", "none"}]

\* try { a } catch (Throwable t) { b } c, as javac emits it: the try block jumps over the handler.
InnerHandlers(As, Bs, Cs, styles) ==
  {Source(<<a, Goto(5), Catch(3), b, c, Ret>>, Plain, {1}, 3, style) :
     a \in As, b \in Bs, c \in Cs, style \in styles}
Handlers == InnerHandlers({CallIt, Cond(3), Set("I", 1)}, {Goto(5), Goto(6), If(5), If(6), Ret, ThrowIt},
                          {CallIt, Use("L", 0), If(5)}, {"compact", "full"})

(***************************************************************************)
(* Methods with one defect each, from one that has none.                   *)
(***************************************************************************)
Sound == MethodOf(<<Set("J", 2), If(4), CallIt>>, Plain, {3}, "compact")
IfAt == CHOOSE q \in DOMAIN Sound.bytes : Sound.bytes[q].op = "ifeq"
CallAt == CHOOSE q \in DOMAIN Sound.bytes : Sound.bytes[q].op = "invokestatic"
StoreAt == CHOOSE q \in DOMAIN Sound.bytes : Sound.bytes[q].op = "lstore"

Defective ==
  {[m EXCEPT !.legal = FALSE] : m \in
    {[Sound EXCEPT !.bytes[IfAt].arg = 4],                \* into the middle of an instruction
     [Sound EXCEPT !.bytes[IfAt].arg = Sound.length],     \* out of the code
     [Sound EXCEPT !.bytes[CallAt].arg = 1],                  \* a string called
     [Sound EXCEPT !.bytes[CallAt].arg = 6],                  \* an entry that is not there
     [Sound EXCEPT !.bytes[StoreAt].arg = 4],                 \* a local that is not there
     [Sound EXCEPT !.bytes[StoreAt] = Raw("istore", 2)],      \* an int out of a long
     [Sound EXCEPT !.bytes[0] = Raw("sipush", 1), !.bytes[3] = Raw("bipush", 1), !.max_stack = 1],  \* a third value
     [Sound EXCEPT !.length = @ + 1],                         \* nothing written at the end
     [Sound EXCEPT !.exceptions[1].end = Sound.exceptions[1].start],
     [Sound EXCEPT !.exceptions[1].end = Sound.length + 1],
     [Sound EXCEPT !.exceptions[1].handler = Sound.length],
     [Sound EXCEPT !.exceptions[1].catch = 1],                \* the class to catch is a string
     [Sound EXCEPT !.smt = Front(@)],
     [Sound EXCEPT !.smt = <<248, 0>>],                       \* more chopped than there is
     [Sound EXCEPT !.smt = @ \o <<130>>],
     [Sound EXCEPT !.smt = @ \o <<64, "X">>],
     [Sound EXCEPT !.smt = <<254, 9, "J", "J", "J">>],         \* more locals than fit
     [Sound EXCEPT !.args = <<"L", "J", "J">>],
     [Sound EXCEPT !.lvt = <<4>>]}}

----------------------------------------------------------------------------
(***************************************************************************)
(* Legal methods that the code does not treat as its comments say.         *)
(***************************************************************************)
\* Code of old compilers: a loop entered at its condition, code that cannot be reached, and a handler
\* for the first instruction.
OldMethods ==
  {MethodOf(<<Goto(3), CallIt, If(2)>>, Plain, {}, "none"),
   MethodOf(<<CallIt, CallIt>>, Plain, {1}, "none"),
   [MethodOf(<<CallIt, CallIt>>, Plain, {}, "none") EXCEPT !.bytes[0] = Raw("goto", 6)]}

\* A loop to the first instruction, whose frame is a full one, and code that starts from a frame;
\* and a table without frames.
Looping == MethodOf(<<If(1), If(5), Set("I", 1), Ret, Use("L", 1)>>, Plain, {}, "full")
EntryFrames ==
  {[Looping EXCEPT !.smt = <<255, 0, 2, "L", 7, "L", 7, 0>> \o Tail(@)],
   [MethodOf(<<CallIt, CallIt>>, Plain, {}, "compact") EXCEPT !.has_smt = TRUE]}

\* A branch over a store that changes the type of a local.
FramelessMerges == {MethodOf(<<If(3), Set(t, 1)>>, Plain, {}, "none") : t \in {"I", "J"}}

\* Two ways into the second block and two into the last.
Crossing == Compiled(Source(<<If(4), Goto(5), Goto(2), If(3), Ret>>, Plain, {}, 0, "compact"))

MCMethods ==
  {m \in {Compiled(x) : x \in {SourceOf(y.b, y.d, y.range, y.style) : y \in Sources} \union Handlers} : m.usable}
  \union Defective
  \union OldMethods \union EntryFrames \union FramelessMerges \union {Crossing}

=============================================================================
