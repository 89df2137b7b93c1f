----------------------------- MODULE Descriptors -----------------------------
(***************************************************************************)
(* The parsers of field and method descriptors (src/vm/classfile.c).  A    *)
(* text is a sequence of characters, or of longer tokens where what is     *)
(* inside them does not matter.  A parser returns whether it succeeded,    *)
(* what it parsed, and the position it stopped at.                         *)
(***************************************************************************)
EXTENDS Integers, Sequences, SequencesExt, FiniteSetsExt

CONSTANT MaxDimensions    \* 255: the deepest array type a descriptor may name
ASSUME DimensionsAssumption == MaxDimensions \in Nat

\* What read_type_kind_char knows, with "L" for a reference.
Primitives == {"Z", "C", "F", "D", "B", "S", "I", "J", "V"}

\* Values narrower than an int are kept as ints.
kind_to_representable_kind(kind) == IF kind \in {"Z", "C", "B", "S", "I"} THEN "I" ELSE kind

NoType == [dims |-> 0, base |-> "V", repr |-> "V", class |-> <<>>]
FieldResult(ok, next, type) == [ok |-> ok, next |-> next, type |-> type]
FieldError(at) == FieldResult(FALSE, at, NoType)

\* The first position from `from' on that satisfies P, or the one after the end.
FirstAt(t, from, P(_)) == Min({k \in from..Len(t) : P(t[k])} \union {Len(t) + 1})

TypeOf(dims, c, name) ==
  [dims |-> dims, base |-> c, class |-> name,
   repr |-> IF dims > 0 THEN "L" ELSE kind_to_representable_kind(c)]

NameWithSemicolon(t, at, dims) ==
  LET end == FirstAt(t, at + 1, LAMBDA c : c = ";")
  IN  IF end > Len(t) \/ end = at + 1 THEN FieldError(end)
      ELSE FieldResult(TRUE, end + 1, TypeOf(dims, "L", SubSeq(t, at + 1, end)))
ClassType(t, at, dims) ==
  LET end == FirstAt(t, at + 1, LAMBDA c : c = ";")
  IN  IF end > Len(t) \/ end = at + 1 THEN FieldError(end)
      ELSE FieldResult(TRUE, end + 1, TypeOf(dims, "L", SubSeq(t, at + 1, end - 1)))

\* Void is a field descriptor to this parser; its callers decide whether to accept it.
parse_field_descriptor(t, from) ==
  LET at == FirstAt(t, from, LAMBDA c : c # "[")
      dims == at - from
  IN  IF at > Len(t) \/ dims > MaxDimensions THEN FieldError(at)
      ELSE CASE t[at] = "L" -> ClassType(t, at, dims)
             [] t[at] \in Primitives ->
                  FieldResult(t[at] = "V" => dims = 0, at + 1, TypeOf(dims, t[at], <<>>))
             [] OTHER -> FieldError(at)

TrailingIgnored(t) == parse_field_descriptor(t, 1)
parse_complete_field_descriptor(t) ==
  LET r == parse_field_descriptor(t, 1) IN [r EXCEPT !.ok = @ /\ r.next = Len(t) + 1]

(***************************************************************************)
(* One round of the loop over the parameters.  The loop ends at the closing*)
(* parenthesis, at the end of the text or at the first error.              *)
(***************************************************************************)
OneParameter(t, acc) ==
  LET r == parse_field_descriptor(t, acc.next)
  IN  IF ~r.ok \/ r.type.base = "V" THEN [acc EXCEPT !.ok = FALSE]
      ELSE [acc EXCEPT !.next = r.next, !.args = Append(@, r.type)]

Parameters(t) ==
  FoldLeft(LAMBDA acc, k : IF ~acc.ok \/ acc.next > Len(t) \/ t[acc.next] = ")" THEN acc
                           ELSE OneParameter(t, acc),
           [ok |-> TRUE, next |-> 2, args |-> <<>>], [k \in DOMAIN t |-> k])

(***************************************************************************)
(* badFree: an error in a parameter after the first hands the array of the *)
(* earlier ones to free although it was made by arrput, whose pointer is   *)
(* not the start of an allocation.  What follows is up to the allocator.   *)
(* Characters after the return type are not looked at.                     *)
(***************************************************************************)
MethodResult(ok, badFree, args, ret) == [ok |-> ok, badFree |-> badFree, args |-> args, ret |-> ret]

parse_method_descriptor(t) ==
  IF t = <<>> \/ t[1] # "(" THEN MethodResult(FALSE, FALSE, <<>>, NoType)
  ELSE LET p == Parameters(t)
           r == parse_field_descriptor(t, p.next + 1)
       IN  CASE ~p.ok -> MethodResult(FALSE, p.args # <<>>, <<>>, NoType)
             [] p.ok /\ p.next > Len(t) -> MethodResult(FALSE, FALSE, p.args, NoType)
             [] OTHER -> MethodResult(r.ok, FALSE, p.args, r.type)

=============================================================================
