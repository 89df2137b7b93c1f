--------------------------- MODULE MCInterpreter2 ---------------------------
(***************************************************************************)
(* Interpreter2 for TLC: every instruction, fields of every kind, a few    *)
(* descriptors, and stacks of up to four values.                           *)
(***************************************************************************)
EXTENDS Interpreter2

MCInsns ==
  {Insn(k, <<>>, "V") : k \in PlainKinds \union StackKinds}
  \union {Insn("getstatic", <<>>, t) : t \in TypeKinds}
  \union {Insn("getfield", <<>>, t) : t \in TypeKinds}
  \union {Insn("putstatic", <<t>>, "V") : t \in TypeKinds}
  \union {Insn("putfield", <<t>>, "V") : t \in TypeKinds}
  \union {Insn("invokestatic", <<>>, "V"), Insn("invokestatic", <<"D">>, "D"),
          Insn("invokestatic", <<"D", "D">>, "D"), Insn("invokestatic", <<"L">>, "F"),
          Insn("invokevirtual", <<"I">>, "L"), Insn("invokevirtual", <<>>, "V"),
          Insn("invokespecial", <<>>, "V"), Insn("invokeinterface", <<>>, "J"),
          Insn("invokedynamic", <<"L">>, "L")}

\* Every stack of up to two values, and deeper ones of narrow and wide values.
MCShapes ==
  UNION {[1..k -> TypeKinds] : k \in 0..2} \union UNION {[1..k -> {"I", "J"}] : k \in 3..4}
  \union {<<"L", "I", "F">>, <<"L", "I", "D">>, <<"L", "I", "L">>}

=============================================================================
