------------------------------ MODULE StackMaps ------------------------------
(***************************************************************************)
(* The StackMapTable iterator (src/vm/stackmaptable.c).  A table is a      *)
(* sequence of what its readers take: a byte or a 16-bit number is one     *)
(* item, a verification type is its letter (I, F, D, J, N for null, U for  *)
(* uninitializedThis, L, W for an uninitialized object, T for top), and    *)
(* the class index or offset that follows L and W one more item.           *)
(*                                                                         *)
(* An iterator holds the current frame, with locals in words: the word     *)
(* after a long or double is an implicit top, t, which is not the explicit *)
(* T a frame may contain.                                                  *)
(***************************************************************************)
EXTENDS MethodCode

\* One word for every local, an implicit top after every wide one.
Spread(types) == FlattenSeq([i \in DOMAIN types |-> IF is_kind_wide(types[i]) THEN <<types[i], "t">>
                                                                              ELSE <<types[i]>>])

init_locals(method) ==
  (IF method.static THEN <<>> ELSE <<IF method.is_ctor THEN "U" ELSE "L">>) \o Spread(method.args)

Iterator(pc, stack, locals, data, has_next, is_first) ==
  [pc |-> pc, stack |-> stack, locals |-> locals, data |-> data, has_next |-> has_next,
   is_first |-> is_first]

(***************************************************************************)
(* What a reader returns: the value, the rest of the table and whether it  *)
(* was there at all.                                                       *)
(***************************************************************************)
ReadFailed(data) == [ok |-> FALSE, value |-> 0, rest |-> data]
ReadItem(data) ==
  IF data = <<>> THEN ReadFailed(data) ELSE [ok |-> TRUE, value |-> Head(data), rest |-> Tail(data)]

VerificationTypes == {"T", "I", "F", "D", "J", "N", "U", "L", "W"}

read_verification_type(data) ==
  IF data = <<>> \/ Head(data) \notin VerificationTypes THEN ReadFailed(data)
  ELSE IF Head(data) \notin {"L", "W"} THEN [ok |-> TRUE, value |-> Head(data), rest |-> Tail(data)]
  ELSE IF Len(data) < 2 THEN ReadFailed(data)
  ELSE [ok |-> TRUE, value |-> Head(data), rest |-> SubSeq(data, 3, Len(data))]

\* n verification types, one after the other.
ReadTypes(data, n) ==
  LET read[k \in 0..n] ==
        IF k = 0 THEN [ok |-> TRUE, types |-> <<>>, rest |-> data]
        ELSE LET before == read[k - 1]
                 t == read_verification_type(before.rest)
             IN  IF before.ok /\ t.ok
                 THEN [ok |-> TRUE, types |-> Append(before.types, t.value), rest |-> t.rest]
                 ELSE [ok |-> FALSE, types |-> <<>>, rest |-> before.rest]
  IN  read[n]

is_implicit_top(local) == local = "t"

\* A chop_frame counts a long or double as one local.
ChopLocals(locals, count) ==
  LET chop[k \in 0..count] ==
        IF k = 0 THEN locals
        ELSE LET l == chop[k - 1]
             IN  IF is_implicit_top(Last(l)) THEN SubSeq(l, 1, Len(l) - 2) ELSE Front(l)
  IN  chop[count]

\* The number of locals a chop_frame could remove.
LocalsCount(locals) == Cardinality({i \in DOMAIN locals : ~is_implicit_top(locals[i])})

Decoded(ok, delta, stack, locals, rest) ==
  [ok |-> ok, delta |-> delta, stack |-> stack, locals |-> locals, rest |-> rest]
Undecoded == Decoded(FALSE, 0, <<>>, <<>>, <<>>)

same_frame(iter, offset, rest) == Decoded(TRUE, offset, <<>>, iter.locals, rest)

same_locals_1_stack_item_frame(iter, offset, rest) ==
  LET t == read_verification_type(rest)
  IN  IF t.ok THEN Decoded(TRUE, offset, <<t.value>>, iter.locals, t.rest) ELSE Undecoded

chop_frame(iter, count, rest) ==
  LET offset == ReadItem(rest)
  IN  IF count <= LocalsCount(iter.locals) /\ offset.ok
      THEN Decoded(TRUE, offset.value, <<>>, ChopLocals(iter.locals, count), offset.rest)
      ELSE Undecoded

append_frame(iter, count, rest) ==
  LET offset == ReadItem(rest)
      added == ReadTypes(offset.rest, count)
  IN  IF offset.ok /\ added.ok
      THEN Decoded(TRUE, offset.value, <<>>, iter.locals \o Spread(added.types), added.rest)
      ELSE Undecoded

full_frame(rest) ==
  LET offset == ReadItem(rest)
      num_locals == ReadItem(offset.rest)
      locals == ReadTypes(num_locals.rest, num_locals.value)
      num_stack == ReadItem(locals.rest)
      stack == ReadTypes(num_stack.rest, num_stack.value)
  IN  IF offset.ok /\ num_locals.ok /\ locals.ok /\ num_stack.ok /\ stack.ok
      THEN Decoded(TRUE, offset.value, stack.types, Spread(locals.types), stack.rest)
      ELSE Undecoded

DecodeFrame(iter) ==
  LET kind == ReadItem(iter.data)
      rest == kind.rest
      extended == ReadItem(rest)
  IN  CASE ~kind.ok -> Undecoded
        [] kind.ok /\ kind.value \in 0..63 -> same_frame(iter, kind.value, rest)
        [] kind.ok /\ kind.value \in 64..127 ->
             same_locals_1_stack_item_frame(iter, kind.value - 64, rest)
        [] kind.ok /\ kind.value \in 128..246 -> Undecoded
        [] kind.ok /\ kind.value = 247 ->
             IF extended.ok
             THEN same_locals_1_stack_item_frame(iter, extended.value, extended.rest)
             ELSE Undecoded
        [] kind.ok /\ kind.value \in 248..250 -> chop_frame(iter, 251 - kind.value, rest)
        [] kind.ok /\ kind.value = 251 ->
             IF extended.ok THEN same_frame(iter, extended.value, extended.rest) ELSE Undecoded
        [] kind.ok /\ kind.value \in 252..254 -> append_frame(iter, kind.value - 251, rest)
        [] kind.ok /\ kind.value = 255 -> full_frame(rest)

\* The first frame is offset_delta away from 0, every other offset_delta + 1 from the one before.
increment_pc(iter, offset_delta) ==
  IF iter.is_first THEN offset_delta ELSE iter.pc + offset_delta + 1

FrameFits(frame, method) ==
  Len(frame.stack) <= method.max_stack /\ Len(frame.locals) <= method.max_locals

stack_map_frame_iterator_next_fails(iter, method) ==
  LET frame == DecodeFrame(iter) IN ~frame.ok \/ ~FrameFits(frame, method)

stack_map_frame_iterator_next(iter) ==
  LET frame == DecodeFrame(iter)
  IN  Iterator(increment_pc(iter, frame.delta), frame.stack, frame.locals, frame.rest,
               frame.rest # <<>>, FALSE)

\* A same_frame at offset 0 describes the entry of the method once more and is skipped.  A table
\* that is there is taken to have a frame, even when it is empty.
stack_map_frame_iterator_init(method) ==
  LET iter == Iterator(0, <<>>, init_locals(method), method.smt, method.has_smt, TRUE)
  IN  IF method.smt # <<>> /\ Head(method.smt) = 0 THEN stack_map_frame_iterator_next(iter) ELSE iter

=============================================================================
