---------------------------- MODULE StackAnalysis ----------------------------
(***************************************************************************)
(* analyze_instruction of src/vm/analysis.c: the operand stack after one   *)
(* instruction, with longs and doubles one entry wide, and the kind the    *)
(* instruction is rewritten to where it worked on two words of one value.  *)
(* The reference is the JVM specification's stack of words, on which the   *)
(* dup and pop instructions are defined: WordEffect.                       *)
(***************************************************************************)
EXTENDS Opcodes, FiniteSets

\* The k-th entry from the top.
Top(s, k) == s[Len(s) - k + 1]

\* The top n entries once more, x entries further down.
Insert(s, n, x) ==
  SubSeq(s, 1, Len(s) - n - x) \o SubSeq(s, Len(s) - n + 1, Len(s)) \o SubSeq(s, Len(s) - n - x + 1, Len(s))

Drop(s, n) == SubSeq(s, 1, Len(s) - n)

DupOf(kind, n, x) == [kind |-> kind, take |-> n, below |-> x]
Rejected == [kind |-> "none", take |-> 0, below |-> 0]

(***************************************************************************)
(* The cases of the dup family: the kind after REWRITE, how many entries   *)
(* are duplicated and below how many others they are inserted.             *)
(***************************************************************************)
DupCase(kind, types) ==
  LET W(k) == k <= Len(types) /\ is_kind_wide(Top(types, k))
      Has(k) == Len(types) >= k
  IN  CASE kind = "dup" /\ Has(1) -> DupOf("dup", 1, 0)
        [] kind = "dup_x1" /\ Has(2) /\ ~W(1) /\ ~W(2) -> DupOf("dup_x1", 1, 1)
        [] kind = "dup_x2" /\ Has(2) /\ ~W(1) /\ W(2) -> DupOf("dup_x1", 1, 1)
        [] kind = "dup_x2" /\ Has(3) /\ ~W(1) /\ ~W(2) -> DupOf("dup_x2", 1, 2)
        [] kind = "dup2" /\ Has(1) /\ W(1) -> DupOf("dup", 1, 0)
        [] kind = "dup2" /\ Has(2) /\ ~W(1) /\ ~W(2) -> DupOf("dup2", 2, 0)
        [] kind = "dup2_x1" /\ Has(2) /\ W(1) -> DupOf("dup_x1", 1, 1)
        [] kind = "dup2_x1" /\ Has(3) /\ ~W(1) /\ ~W(3) -> DupOf("dup2_x1", 2, 1)
        [] kind = "dup2_x2" /\ Has(2) /\ W(1) /\ W(2) -> DupOf("dup_x1", 1, 1)
        [] kind = "dup2_x2" /\ Has(3) /\ W(1) /\ ~W(2) /\ ~W(3) -> DupOf("dup_x2", 1, 2)
        [] kind = "dup2_x2" /\ Has(3) /\ ~W(1) /\ W(3) -> DupOf("dup2_x1", 2, 1)
        [] kind = "dup2_x2" /\ Has(4) /\ ~W(1) /\ ~W(3) /\ ~W(4) -> DupOf("dup2_x2", 2, 2)
        [] OTHER -> Rejected

Analyzed(ok, kind, types) == [ok |-> ok, kind |-> kind, types |-> types]

AnalyzeDup(kind, types) ==
  LET c == DupCase(kind, types)
  IN  IF c = Rejected THEN Analyzed(FALSE, kind, types)
      ELSE Analyzed(TRUE, c.kind, Insert(types, c.take, c.below))

AnalyzePop(kind, types) ==
  LET n == Len(types)
  IN  CASE n >= 1 /\ kind = "pop" /\ ~is_kind_wide(Top(types, 1)) ->
             Analyzed(TRUE, "pop", Drop(types, 1))
        [] n >= 1 /\ kind = "pop2" /\ is_kind_wide(Top(types, 1)) ->
             Analyzed(TRUE, "pop", Drop(types, 1))
        [] n >= 2 /\ kind = "pop2" /\ ~is_kind_wide(Top(types, 1)) /\ ~is_kind_wide(Top(types, 2)) ->
             Analyzed(TRUE, "pop2", Drop(types, 2))
        [] OTHER -> Analyzed(FALSE, kind, types)

SwapUnchanged(types) == Analyzed(Len(types) >= 2, "swap", types)
AnalyzeSwap(types) ==
  IF Len(types) >= 2 /\ ~is_kind_wide(Top(types, 1)) /\ ~is_kind_wide(Top(types, 2))
  THEN Analyzed(TRUE, "swap", Drop(types, 2) \o <<Top(types, 1), Top(types, 2)>>)
  ELSE Analyzed(FALSE, "swap", types)

\* putfield and putstatic pop one value of any kind ("TODO check that the field matches").
PopsWhatItWants(insn, types) ==
  LET pop == Effect(insn).pop
      n == Len(pop)
  IN  /\ Len(types) >= n
      /\ \A k \in 1..n :
           Top(types, k) = Top(pop, k) \/ (k = 1 /\ insn.op \in {"putfield", "putstatic"})

\* StackLimit is the max_stack of the method: PUSH_ENTRY fails on a full stack.
analyze_instruction(insn, types, StackLimit) ==
  LET r == CASE insn.op \in StackKinds \ {"pop", "pop2", "swap"} -> AnalyzeDup(insn.op, types)
             [] insn.op \in {"pop", "pop2"} -> AnalyzePop(insn.op, types)
             [] insn.op = "swap" -> AnalyzeSwap(types)
             [] OTHER -> Analyzed(PopsWhatItWants(insn, types), insn.op,
                                  Drop(types, Len(Effect(insn).pop)) \o Effect(insn).push)
  IN  [r EXCEPT !.ok = @ /\ Len(r.types) <= StackLimit]

(***************************************************************************)
(* The specification of the stack instructions on words.  Words(s) lists   *)
(* the words of the values s, IsWide telling which values have two.        *)
(***************************************************************************)
Words(s, IsWide(_)) == FlattenSeq([i \in DOMAIN s |-> IF IsWide(s[i]) THEN <<<<s[i], 1>>, <<s[i], 2>>>>
                                                                      ELSE <<<<s[i], 1>>>>])

WordsOf(kind) ==
  [dup |-> <<1, 0>>, dup_x1 |-> <<1, 1>>, dup_x2 |-> <<1, 2>>, dup2 |-> <<2, 0>>,
   dup2_x1 |-> <<2, 1>>, dup2_x2 |-> <<2, 2>>, pop |-> <<1, 0>>, pop2 |-> <<2, 0>>,
   swap |-> <<1, 1>>][kind]

WordEffect(kind, w) ==
  LET n == WordsOf(kind)[1]
      x == WordsOf(kind)[2]
  IN  CASE kind \in {"pop", "pop2"} -> Drop(w, n)
        [] kind = "swap" -> Drop(w, 2) \o <<Top(w, 1), Top(w, 2)>>
        [] OTHER -> Insert(w, n, x)

\* The word depths at which a value of the stack begins.
Boundaries(types) ==
  {k + Cardinality({i \in 1..k : is_kind_wide(Top(types, i))}) : k \in 0..Len(types)}

\* A stack instruction of a verified class file does not split a value.
KeepsValuesWhole(kind, types) ==
  {WordsOf(kind)[1], WordsOf(kind)[1] + WordsOf(kind)[2]} \subseteq Boundaries(types)

\* What a verified class file may contain at a point where the stack holds these types.
Legal(insn, types, StackLimit) ==
  IF insn.op \in StackKinds
  THEN KeepsValuesWhole(insn.op, types)
       /\ (insn.op \notin {"pop", "pop2", "swap"} =>
             Len(types) + WordsOf(insn.op)[1] <= StackLimit)
  ELSE LET e == Effect(insn)
       IN  /\ Len(e.pop) <= Len(types)
           /\ SubSeq(types, Len(types) - Len(e.pop) + 1, Len(types)) = e.pop
           /\ Len(types) - Len(e.pop) + Len(e.push) <= StackLimit

=============================================================================
