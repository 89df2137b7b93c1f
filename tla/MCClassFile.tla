----------------------------- MODULE MCClassFile -----------------------------
(***************************************************************************)
(* ClassFile for TLC: a class file with every kind of constant, in which   *)
(* every reference in turn leads to every index, in two orders of the      *)
(* pool; small ones with every short descriptor; one with every attribute  *)
(* around every constant; and the file cut short or too long.              *)
(***************************************************************************)
EXTENDS ClassFile

\* A constant: the names of the constants it refers to, and its text.
C(kind, refs) == [kind |-> kind, refs |-> refs, text |-> <<>>, bsm |-> 0]
U(text) == [kind |-> "UTF8", refs |-> <<>>, text |-> text, bsm |-> 0]

Small == [uThis |-> U(<<"C">>), cThis |-> C("CLASS", <<"uThis">>),
          uSuper |-> U(<<"java/lang/Object">>), cSuper |-> C("CLASS", <<"uSuper">>),
          uName |-> U(<<"m">>), uField |-> U(<<"[", "I">>), uMethod |-> U(<<"(", "I", ")", "V">>)]
Linked == [ntField |-> C("NAME_AND_TYPE", <<"uName", "uField">>),
           ntMethod |-> C("NAME_AND_TYPE", <<"uName", "uMethod">>),
           field |-> C("FIELD_REF", <<"cThis", "ntField">>),
           method |-> C("METHOD_REF", <<"cThis", "ntMethod">>),
           imethod |-> C("INTERFACE_METHOD_REF", <<"cSuper", "ntMethod">>),
           handle |-> C("METHOD_HANDLE", <<"method">>), mtype |-> C("METHOD_TYPE", <<"uMethod">>),
           indy |-> C("INVOKE_DYNAMIC", <<"ntMethod">>), string |-> C("STRING", <<"uName">>),
           long |-> C("LONG", <<>>), uCode |-> U(<<"Code">>), uBoot |-> U(<<"BootstrapMethods">>),
           uMap |-> U(<<"StackMapTable">>)]
Others == [dynamic |-> C("DYNAMIC_CONSTANT", <<"ntMethod">>), module |-> C("MODULE", <<"uName">>),
           package |-> C("PACKAGE", <<"uName">>), int |-> C("INTEGER", <<>>),
           double |-> C("DOUBLE", <<>>), bad |-> C("TAG_2", <<>>), uPath |-> U(<<"a", "/", "b">>),
           uInit |-> U(<<"<init>">>), uEmpty |-> U(<<>>)]
Named == Small @@ Linked @@ Others

SmallOrder == <<"uThis", "cThis", "uSuper", "cSuper", "uName", "uField", "uMethod">>
FullOrder == SmallOrder \o <<"ntField", "ntMethod", "field", "method", "long", "imethod", "handle",
                             "mtype", "indy", "string", "uCode", "uBoot", "uMap">>

\* The index of a constant in a pool laid out in an order, 0 for none.
Ix(order, name) ==
  IF \E n \in DOMAIN order : order[n] = name
  THEN LET n == CHOOSE m \in DOMAIN order : order[m] = name
       IN  n + Cardinality({m \in 1..(n - 1) : Wide(Named[order[m]].kind)})
  ELSE 0
Count(order) == 1 + Len(order) + Cardinality({m \in DOMAIN order : Wide(Named[order[m]].kind)})
PoolOf(order) ==
  [n \in DOMAIN order |->
     LET c == Named[order[n]] IN [c EXCEPT !.refs = [k \in DOMAIN c.refs |-> Ix(order, c.refs[k])] \o <<>>]] \o <<>>

Attr(name, rows) == [name |-> name, rows |-> rows, short |-> FALSE, insns |-> <<>>, catches |-> <<>>, attrs |-> <<>>]
Member(access, name, desc, attrs) == [access |-> access, name |-> name, desc |-> desc, attrs |-> attrs]
Op(op, arg) == [op |-> op, arg |-> arg]

Base(order, fields, methods, attrs) ==
  [magic |-> TRUE, major |-> 49, count |-> Count(order), pool |-> PoolOf(order), access |-> {"SUPER"},
   self |-> Ix(order, "cThis"), super |-> Ix(order, "cSuper"), interfaces |-> <<>>,
   fields |-> fields, methods |-> methods, attrs |-> attrs, extra |-> 0]

CodeAttr(o, insns) == [Attr(Ix(o, "uCode"), <<>>) EXCEPT !.insns = insns, !.catches = <<0, Ix(o, "cSuper")>>,
                                                       !.attrs = <<Attr(Ix(o, "uMap"), <<>>)>>]
Full(o) ==
  Base(o, <<Member({}, Ix(o, "uName"), Ix(o, "uField"), <<>>)>>,
       <<Member({"NATIVE"}, Ix(o, "uName"), Ix(o, "uMethod"), <<>>),
         Member({}, Ix(o, "uName"), Ix(o, "uMethod"),
                <<CodeAttr(o, <<Op("invokedynamic", Ix(o, "indy")), Op("return", 0),
                                Op("invokedynamic", Ix(o, "indy"))>>)>>)>>,
       <<Attr(Ix(o, "uBoot"), <<<<Ix(o, "handle"), Ix(o, "string")>>>>)>>)

Reversed == Reverse(FullOrder) \o <<>>
Indices(o) == 0..(Count(o) + 1)

\* One reference of one constant leads elsewhere.
Redirected(o) ==
  LET f == Full(o)
  IN  UNION {{[f EXCEPT !.pool[n].refs[k] = i] : k \in DOMAIN f.pool[n].refs, i \in Indices(o)} :
               n \in DOMAIN f.pool}

\* One reference of the class or of its members leads elsewhere.
Misplaced(o) ==
  LET f == Full(o)
  IN  UNION {{[f EXCEPT !.self = i], [f EXCEPT !.super = i], [f EXCEPT !.interfaces = <<i>>],
              [f EXCEPT !.fields[1].name = i], [f EXCEPT !.fields[1].desc = i],
              [f EXCEPT !.methods[2].name = i], [f EXCEPT !.methods[2].desc = i],
              [f EXCEPT !.methods[2].attrs[1].name = i],
              [f EXCEPT !.methods[2].attrs[1].insns[1].arg = i],
              [f EXCEPT !.methods[2].attrs[1].catches[1] = i],
              [f EXCEPT !.methods[2].attrs[1].attrs[1].name = i],
              [f EXCEPT !.attrs[1].name = i], [f EXCEPT !.attrs[1].rows[1][1] = i],
              [f EXCEPT !.attrs[1].rows[1][2] = i]} : i \in Indices(o)}

\* Code attributes with invokedynamic in every place an attribute may be, each with every fault.
Stray(o) ==
  LET f == Full(o)
      call == Op("invokedynamic", Ix(o, "indy"))
      nested == [CodeAttr(o, <<call>>) EXCEPT !.attrs = <<CodeAttr(o, <<call, call>>)>>]
      codes == {CodeAttr(o, <<call>>), CodeAttr(o, <<Op("return", 0)>>), nested,
                [CodeAttr(o, <<call>>) EXCEPT !.short = TRUE], [nested EXCEPT !.attrs[1].short = TRUE],
                [nested EXCEPT !.attrs[1].insns[2].arg = 0], [nested EXCEPT !.attrs[1].attrs[1].short = TRUE]}
  IN  UNION {{[f EXCEPT !.fields[1].attrs = <<c>>], [f EXCEPT !.attrs = Append(@, c)],
              [f EXCEPT !.methods[1].attrs = <<c>>], [f EXCEPT !.methods[2].attrs = Append(@, c)],
              [f EXCEPT !.methods[2].attrs[1].attrs = Append(@, c)]} : c \in codes}

\* Single faults and variations of the rest.
Varied(o) ==
  LET f == Full(o)
  IN  {[f EXCEPT !.extra = x] : x \in (-Items(f))..1}
      \union {[f EXCEPT !.magic = FALSE], [f EXCEPT !.major = 52], [f EXCEPT !.attrs = <<>>],
              [f EXCEPT !.attrs[1].rows = <<>>], [f EXCEPT !.attrs[1].short = TRUE],
              [f EXCEPT !.methods[2].attrs[1].short = TRUE],
              [f EXCEPT !.methods[2].attrs[1].attrs[1].short = TRUE],
              [f EXCEPT !.access = {"MODULE", "SUPER"}, !.super = 0],
              [f EXCEPT !.pool[1].text = <<"java/lang/Object">>, !.super = 0],
              [f EXCEPT !.pool[1].text = <<"java/lang/invoke/VarHandle">>],
              [f EXCEPT !.pool[5].text = <<"<clinit>">>]}
      \union {[f EXCEPT !.pool[n].bsm = 1] : n \in {m \in DOMAIN f.pool : f.pool[m].kind = "INVOKE_DYNAMIC"}}

\* Every kind of constant, and a wide one whose second half the file does not count.
EveryKind == FullOrder \o <<"dynamic", "module", "package", "int", "double", "uPath", "uInit", "uEmpty">>
Odd == {Full(EveryKind), Full(EveryKind \o <<"bad">>),
        [Full(FullOrder \o <<"double">>) EXCEPT !.count = @ - 1]}

\* Every attribute around every constant, in each place an attribute may be.
AttributeNames == {<<"ConstantValue">>, <<"InnerClasses">>, <<"EnclosingMethod">>, <<"SourceFile">>,
                   <<"PermittedSubclasses">>, <<"LineNumberTable">>, <<"MethodParameters">>, <<"Signature">>,
                   <<"NestHost">>, <<"LocalVariableTable">>, <<"BootstrapMethods">>, <<"AnnotationDefault">>,
                   <<"Deprecated">>}
AttrOrder == <<"uThis", "cThis", "uSuper", "cSuper", "uName", "uField", "uMethod", "ntField", "field",
               "string", "int", "double", "uPath", "uInit", "uEmpty", "method", "ntMethod", "handle", "uBoot">>
RowsOf(name, i) ==
  CASE name = <<"LineNumberTable">> -> <<>>
    [] name \in {<<"EnclosingMethod">>, <<"LocalVariableTable">>} -> <<<<i, Ix(AttrOrder, "ntField")>>, <<Ix(AttrOrder, "uName"), i>>>>
    [] OTHER -> <<<<i>>>>
Attributed ==
  LET f == Base(AttrOrder, <<Member({}, Ix(AttrOrder, "uName"), Ix(AttrOrder, "uField"), <<>>)>>, <<>>, <<>>)
      at(name, i) == Attr(Ix(AttrOrder, "uBoot"), RowsOf(name, i))
      g(name) == [f EXCEPT !.pool[19].text = name]
  IN  UNION {{[g(name) EXCEPT !.attrs = <<at(name, i)>>] : i \in Indices(AttrOrder)} : name \in AttributeNames}
      \union UNION {{[g(name) EXCEPT !.fields[1].attrs = <<[at(name, 5) EXCEPT !.short = TRUE], at(name, i)>>] :
                       i \in {5, 18}} : name \in AttributeNames}

\* Every short descriptor of a field, of a method and of a method type.
Chars == {"I", "V", "[", "L", ";", "x"}
FieldTexts == SeqOf(Chars, 3) \union {<<"[", "L", "x", ";">>, <<"[", "[", "[", "I">>, <<"L", "x", "I", ";">>, <<"[", "[", "B">>, <<"B">>}
MethodTexts == SeqOf(Chars \union {"("}, 1)
               \union {<<"(">> \o t : t \in SeqOf(Chars \union {")"}, 3)}
               \union {<<"(", "I", "L", "x", ";", ")", "[", "I">>, <<"(", "[", "I", "I", ")", "V">>,
                       <<"(", "I", "I", ")", "[", "V">>, <<"(", "I", "[", "V", ")", "V">>,
                       <<"(", "L", ")", ";", ")", "V", "x">>}
Described ==
  LET o == SmallOrder \o <<"mtype">>
      p == SmallOrder
      typed == Base(o, <<>>, <<>>, <<>>)
      f == Base(p, <<Member({}, 5, 6, <<>>)>>, <<>>, <<>>)
      m == Base(p, <<>>, <<Member({}, 5, 7, <<>>)>>, <<>>)
  IN  {[f EXCEPT !.pool[6].text = t] : t \in FieldTexts}
      \union {[m EXCEPT !.pool[7].text = t] : t \in MethodTexts}
      \union {[typed EXCEPT !.pool[7].text = t] : t \in MethodTexts}

MCFiles == Redirected(FullOrder) \union Redirected(Reversed) \union Misplaced(FullOrder)
           \union Varied(FullOrder) \union Stray(FullOrder) \union Odd \union Attributed \union Described

=============================================================================
