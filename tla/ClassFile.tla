------------------------------ MODULE ClassFile ------------------------------
(***************************************************************************)
(* parse_classfile (src/vm/classfile.c): from the bytes of a class file to *)
(* a class descriptor in state LOADED, or to one in state LINKAGE_ERROR    *)
(* that owns nothing.                                                      *)
(*                                                                         *)
(* A file is a record of what its bytes say.  The reader is the number of  *)
(* items left: one for the header, for each constant, for the class, for   *)
(* each member and for each attribute of the class.  A file that is        *)
(* shorter than its contents ends early, a longer one has trailing bytes.  *)
(* What a Code attribute contains is the subject of CodeAnalysis; here its *)
(* instructions are pool references of which some are invokedynamic.       *)
(***************************************************************************)
EXTENDS Descriptors, FiniteSets, Functions, TLC

CONSTANTS Files     \* the class files a behaviour may begin with
VARIABLES file,     \* the bytes
          phase,    \* the part of parse_classfile that runs next
          pass,     \* READ or LINK, the passes over the constant pool
          read,     \* constants read in this pass, or members read of this kind
          cp_i,     \* the index in the pool the next constant goes to
          left,     \* reader.len, in items
          pool,     \* cf->pool->entries
          cls,      \* the parsed class
          indy,     \* ctx.indy_insns_count
          arena,    \* is the arena initialised
          temp,     \* is ctx.temp_allocation allocated
          state     \* result->state

vars == <<file, phase, pass, read, cp_i, left, pool, cls, indy, arena, temp, state>>
reader == <<left, read, cp_i, pass>>
memory == <<arena, temp>>

----------------------------------------------------------------------------
\* The constant pool.  A constant refers to others by index, which linking turns into
\* copies of texts or pointers to entries.
Invalid == [kind |-> "INVALID", texts |-> <<>>, to |-> <<>>, bsm |-> 0, parsed |-> <<>>]

Members == {"FIELD_REF", "METHOD_REF", "INTERFACE_METHOD_REF"}
Numbers == {"INTEGER", "FLOAT", "LONG", "DOUBLE"}
Wide(kind) == kind \in {"LONG", "DOUBLE"}

\* The kinds of the entries a constant refers to, in order.
RefKinds(kind) ==
  CASE kind \in {"CLASS", "MODULE", "PACKAGE", "STRING", "METHOD_TYPE"} -> <<{"UTF8"}>>
    [] kind \in Members -> <<{"CLASS"}, {"NAME_AND_TYPE"}>>
    [] kind = "NAME_AND_TYPE" -> <<{"UTF8"}, {"UTF8"}>>
    [] kind = "METHOD_HANDLE" -> <<Members>>
    [] kind \in {"DYNAMIC_CONSTANT", "INVOKE_DYNAMIC"} -> <<{"NAME_AND_TYPE"}>>
    [] OTHER -> <<>>

Kinds == {"UTF8", "CLASS", "MODULE", "PACKAGE", "STRING", "METHOD_TYPE", "NAME_AND_TYPE",
          "METHOD_HANDLE", "DYNAMIC_CONSTANT", "INVOKE_DYNAMIC"} \union Members \union Numbers

check_cp_entry(entry, kinds) == entry.kind \in kinds
checked_cp_entry(cp, index, kinds) == index \in DOMAIN cp /\ check_cp_entry(cp[index], kinds)
checked_get_utf8(cp, index) == checked_cp_entry(cp, index, {"UTF8"})

LinksOk(cp, e) ==
  \A k \in DOMAIN RefKinds(e.kind) : checked_cp_entry(cp, e.refs[k], RefKinds(e.kind)[k])

LinkLosesStrings(cp, e) ==
  IF e.kind \in {"CLASS", "NAME_AND_TYPE", "MODULE", "PACKAGE", "METHOD_TYPE"}
  THEN [Invalid EXCEPT !.kind = e.kind,
                       !.texts = [k \in DOMAIN e.refs |-> cp[e.refs[k]].texts[1]]]
  ELSE [Invalid EXCEPT !.kind = e.kind, !.bsm = e.bsm,
                       !.to = IF e.kind = "STRING" THEN <<>> ELSE e.refs]
\* Texts are copied when the entry refers to UTF8 entries only; other entries keep pointers.
Link(cp, e) ==
  IF RefKinds(e.kind) # <<>> /\ RefKinds(e.kind)[1] = {"UTF8"}
  THEN [Invalid EXCEPT !.kind = e.kind,
                       !.texts = [k \in DOMAIN e.refs |-> cp[e.refs[k]].texts[1]]]
  ELSE [Invalid EXCEPT !.kind = e.kind, !.to = e.refs, !.bsm = e.bsm]

\* In the first pass only UTF8 entries get their contents.
parse_constant_pool_entry(cp, e, p) ==
  CASE p = "READ" /\ e.kind = "UTF8" -> [Invalid EXCEPT !.kind = "UTF8", !.texts = <<e.text>>]
    [] p = "READ" /\ e.kind # "UTF8" -> [Invalid EXCEPT !.kind = e.kind]
    [] OTHER -> Link(cp, e)

\* One entry more than the file counts, for the second half of a wide constant at the end.
init_constant_pool(count) == [i \in 0..count |-> Invalid]

\* The entry is stored, except that a UTF8 entry survives the second pass.
Stored(cp, i, e, p) ==
  (IF e.kind # "UTF8" \/ p = "READ" THEN i :> parse_constant_pool_entry(cp, e, p) ELSE <<>>)
  @@ (IF Wide(e.kind) THEN (i + 1) :> Invalid ELSE <<>>) @@ cp

DescriptorOf(cp, entry) == cp[Last(entry.to)].texts[2]

FinishError(cp, entry) ==
  CASE entry.kind = "FIELD_REF" -> ~parse_complete_field_descriptor(DescriptorOf(cp, entry)).ok
    [] entry.kind \in {"METHOD_REF", "INTERFACE_METHOD_REF", "INVOKE_DYNAMIC"} ->
         ~parse_method_descriptor(DescriptorOf(cp, entry)).ok
    [] entry.kind = "METHOD_TYPE" -> ~parse_method_descriptor(entry.texts[1]).ok
    [] OTHER -> FALSE

FinishBadFree(cp, entry) ==
  CASE entry.kind \in {"METHOD_REF", "INTERFACE_METHOD_REF", "INVOKE_DYNAMIC"} ->
         parse_method_descriptor(DescriptorOf(cp, entry)).badFree
    [] entry.kind = "METHOD_TYPE" -> parse_method_descriptor(entry.texts[1]).badFree
    [] OTHER -> FALSE

MethodSpelling(t) == LET d == parse_method_descriptor(t) IN Append(d.args, d.ret)

finish_constant_pool_entry(cp, entry) ==
  CASE entry.kind = "FIELD_REF" ->
         [entry EXCEPT !.parsed = <<parse_complete_field_descriptor(DescriptorOf(cp, entry)).type>>]
    [] entry.kind \in {"METHOD_REF", "INTERFACE_METHOD_REF", "INVOKE_DYNAMIC"} ->
         [entry EXCEPT !.parsed = MethodSpelling(DescriptorOf(cp, entry))]
    [] entry.kind = "METHOD_TYPE" -> [entry EXCEPT !.parsed = MethodSpelling(entry.texts[1])]
    [] OTHER -> entry

----------------------------------------------------------------------------
(***************************************************************************)
(* Attributes.  rows are the constant pool indices in the attribute, one   *)
(* row per element of its table; short says that the attribute is shorter  *)
(* than its table.  A Code attribute has instructions, catch types and     *)
(* attributes of its own.                                                  *)
(***************************************************************************)
Constants == {"STRING"} \union Numbers
BootstrapArgs == Constants \union {"METHOD_HANDLE", "METHOD_TYPE", "CLASS", "DYNAMIC_CONSTANT"}

\* The kinds of the k-th index of a row, and whether it may be zero.
KindsAt(name, k) ==
  CASE name = <<"ConstantValue">> -> Constants
    [] name = <<"BootstrapMethods">> -> IF k = 1 THEN {"METHOD_HANDLE"} ELSE BootstrapArgs
    [] name \in {<<"InnerClasses">>, <<"PermittedSubclasses">>, <<"NestHost">>} -> {"CLASS"}
    [] name = <<"EnclosingMethod">> -> IF k = 1 THEN {"CLASS"} ELSE {"NAME_AND_TYPE"}
    [] OTHER -> {"UTF8"}
MayBeZero(name) == name \in {<<"EnclosingMethod">>, <<"MethodParameters">>}

\* Attributes whose contents are read; the others are kept as bytes or ignored.
WithTable == {<<"ConstantValue">>, <<"BootstrapMethods">>, <<"InnerClasses">>, <<"NestHost">>,
              <<"PermittedSubclasses">>, <<"EnclosingMethod">>, <<"SourceFile">>, <<"Signature">>,
              <<"LineNumberTable">>, <<"MethodParameters">>, <<"LocalVariableTable">>,
              <<"StackMapTable">>, <<"Code">>}

check_unqualified_name(name, is_method) ==
  /\ name # <<>>
  /\ \/ name \in {<<"<init>">>, <<"<clinit>">>}
     \/ \A k \in DOMAIN name :
          name[k] \notin {".", ";", "[", "/"} \union (IF is_method THEN {"<", ">"} ELSE {})

RowOk(cp, name, row) ==
  \A k \in DOMAIN row :
    \/ MayBeZero(name) /\ row[k] = 0
    \/ /\ checked_cp_entry(cp, row[k], KindsAt(name, k))
       /\ name = <<"MethodParameters">> => check_unqualified_name(cp[row[k]].texts[1], FALSE)

NameOf(cp, attr) == cp[attr.name].texts[1]

\* Any attribute but Code.
TableAccepted(cp, attr) ==
  /\ checked_get_utf8(cp, attr.name)
  /\ NameOf(cp, attr) \in WithTable =>
       ~attr.short /\ \A k \in DOMAIN attr.rows : RowOk(cp, NameOf(cp, attr), attr.rows[k])

IsCode(cp, attr) == checked_get_utf8(cp, attr.name) /\ NameOf(cp, attr) = <<"Code">>

\* The instructions and the exception table, read while pc_to_insn is allocated.
BodyAccepted(cp, attr) ==
  /\ ~attr.short
  /\ \A k \in DOMAIN attr.insns : attr.insns[k].op = "invokedynamic"
                                    => checked_cp_entry(cp, attr.insns[k].arg, {"INVOKE_DYNAMIC"})
  /\ \A k \in DOMAIN attr.catches : attr.catches[k] = 0
                                    \/ checked_cp_entry(cp, attr.catches[k], {"CLASS"})

\* A Code attribute is parsed wherever it is met, in another one too.
RECURSIVE parse_attribute(_, _)
parse_code_attribute(cp, attr) ==
  BodyAccepted(cp, attr) /\ \A k \in DOMAIN attr.attrs : parse_attribute(cp, attr.attrs[k])

parse_attribute(cp, attr) ==
  IF IsCode(cp, attr) THEN parse_code_attribute(cp, attr) ELSE TableAccepted(cp, attr)

Failing(cp, attrs) == {k \in DOMAIN attrs : ~parse_attribute(cp, attrs[k])}
\* The first attribute that fails decides whether pc_to_insn is allocated at the error.
RECURSIVE FailsInBody(_, _)
FailsInBody(cp, attrs) ==
  LET bad == attrs[Min(Failing(cp, attrs))]
  IN  IsCode(cp, bad) /\ (BodyAccepted(cp, bad) => FailsInBody(cp, bad.attrs))

IndysOf(attr) == SelectSeq(attr.insns, LAMBDA i : i.op = "invokedynamic")
CountedOnce(cp, attrs) == Cardinality({k \in DOMAIN attrs : IsCode(cp, attrs[k]) /\ IndysOf(attrs[k]) # <<>>})
\* indy_insns_count counts in every Code attribute that is parsed.
RECURSIVE IndysIn(_, _)
IndysIn(cp, attrs) ==
  FoldLeft(LAMBDA n, a : n + IF IsCode(cp, a) THEN Len(IndysOf(a)) + IndysIn(cp, a.attrs) ELSE 0, 0, attrs)

HasAttribute(cp, attrs, name) == \E k \in DOMAIN attrs : NameOf(cp, attrs[k]) = name
no_smt_found(cp, code) == ~HasAttribute(cp, code.attrs, <<"StackMapTable">>)

\* The first attribute of the class with a name.
find_attribute_by_kind(cp, attrs, name) ==
  attrs[Min({k \in DOMAIN attrs : NameOf(cp, attrs[k]) = name})]

----------------------------------------------------------------------------
\* The reader and format_error: longjmp out of whatever was being parsed.
Items(f) == 2 + Len(f.pool) + Len(f.fields) + Len(f.methods) + Len(f.attrs)

reader_advance == left > 0
Consume == left' = left - 1

format_error(allocated) ==
  /\ phase' = "failed" /\ temp' = allocated
  /\ UNCHANGED <<file, pool, cls, indy, arena, state>> /\ UNCHANGED reader

\* What follows an invalid free is up to the allocator; here it ends the process.
InvalidFree ==
  /\ phase' = "crashed" /\ UNCHANGED <<file, pool, cls, indy, state>>
  /\ UNCHANGED reader /\ UNCHANGED memory

Truncated ==
  /\ phase \in {"magic", "pool", "class", "fields", "methods", "attrs"} /\ ~reader_advance
  /\ CASE phase = "pool" -> cp_i < file.count
       [] phase = "fields" -> read < Len(file.fields)
       [] phase = "methods" -> read < Len(file.methods)
       [] phase = "attrs" -> read < Len(file.attrs)
       [] OTHER -> TRUE
  /\ format_error(FALSE)

----------------------------------------------------------------------------
\* magic and version, then an empty pool.
ParseHeader ==
  /\ phase = "magic" /\ reader_advance
  /\ \/ /\ file.magic
        /\ phase' = "pool" /\ pool' = init_constant_pool(file.count) /\ Consume
        /\ UNCHANGED <<file, pass, read, cp_i, cls, indy, state>> /\ UNCHANGED memory
     \/ ~file.magic /\ format_error(FALSE)

Next2(kind) == IF Wide(kind) THEN 2 ELSE 1
\* A constant is read, or linked: a wide one takes two indices.
ParsePoolEntry ==
  /\ phase = "pool" /\ cp_i < file.count /\ reader_advance
  /\ LET e == file.pool[read + 1]
         accepted == e.kind \in Kinds /\ (pass = "LINK" => LinksOk(pool, e))
     IN  \/ /\ accepted
            /\ pool' = Stored(pool, cp_i, e, pass)
            /\ cp_i' = cp_i + Next2(e.kind) /\ read' = read + 1 /\ Consume
            /\ UNCHANGED <<file, phase, pass, cls, indy, state>> /\ UNCHANGED memory
         \/ ~accepted /\ format_error(FALSE)

\* The first pass is over: the reader goes back to the first constant.
RewindPool ==
  /\ phase = "pool" /\ cp_i >= file.count /\ pass = "READ"
  /\ pass' = "LINK" /\ left' = left + read /\ read' = 0 /\ cp_i' = 1
  /\ UNCHANGED <<file, phase, pool, cls, indy, state>> /\ UNCHANGED memory

EndPool ==
  /\ phase = "pool" /\ cp_i >= file.count /\ pass = "LINK"
  /\ phase' = "finish" /\ cp_i' = 1
  /\ UNCHANGED <<file, pass, read, left, pool, cls, indy, state>> /\ UNCHANGED memory

FinishPoolEntry ==
  /\ phase = "finish" /\ cp_i < file.count
  /\ \/ /\ ~FinishError(pool, pool[cp_i])
        /\ pool' = [pool EXCEPT ![cp_i] = finish_constant_pool_entry(pool, @)]
        /\ cp_i' = cp_i + 1
        /\ UNCHANGED <<file, phase, pass, read, left, cls, indy, state>> /\ UNCHANGED memory
     \/ FinishError(pool, pool[cp_i]) /\ format_error(FALSE)
     \/ FinishBadFree(pool, pool[cp_i]) /\ InvalidFree

EndFinish ==
  /\ phase = "finish" /\ cp_i >= file.count
  /\ phase' = "class" /\ read' = 0
  /\ UNCHANGED <<file, pass, cp_i, left, pool, cls, indy, state>> /\ UNCHANGED memory

----------------------------------------------------------------------------
ClassName(cp, i) == cp[i].texts[1]
\* java/lang/Object and modules have no superclass, whatever the file says.
WithoutSuper(cp, f) == "MODULE" \in f.access \/ ClassName(cp, f.self) = <<"java/lang/Object">>

ClassAccepted(cp, f) ==
  /\ checked_cp_entry(cp, f.self, {"CLASS"})
  /\ WithoutSuper(cp, f) \/ checked_cp_entry(cp, f.super, {"CLASS"})
  /\ \A k \in DOMAIN f.interfaces : checked_cp_entry(cp, f.interfaces[k], {"CLASS"})

ParseClassInfo ==
  /\ phase = "class" /\ reader_advance
  /\ \/ /\ ClassAccepted(pool, file)
        /\ cls' = [cls EXCEPT !.access = file.access \ {"SUPER"}, !.name = ClassName(pool, file.self),
                              !.super = IF WithoutSuper(pool, file) THEN <<>>
                                        ELSE ClassName(pool, file.super),
                              !.interfaces = [k \in DOMAIN file.interfaces |->
                                                ClassName(pool, file.interfaces[k])]]
        /\ phase' = "fields" /\ Consume
        /\ UNCHANGED <<file, pass, read, cp_i, pool, indy, state>> /\ UNCHANGED memory
     \/ ~ClassAccepted(pool, file) /\ format_error(FALSE)

\* A field or a method: its name, its descriptor and its attributes.
HeadAccepted(cp, m) == checked_get_utf8(cp, m.name) /\ checked_get_utf8(cp, m.desc)
Text(cp, i) == cp[i].texts[1]

\* The attributes come before the descriptor.
FieldAccepted(cp, f) ==
  /\ HeadAccepted(cp, f) /\ Failing(cp, f.attrs) = {}
  /\ parse_complete_field_descriptor(Text(cp, f.desc)).ok

ParseField ==
  /\ phase = "fields" /\ read < Len(file.fields) /\ reader_advance
  /\ LET f == file.fields[read + 1]
     IN  \/ /\ FieldAccepted(pool, f)
            /\ cls' = [cls EXCEPT !.fields = Append(@,
                         [name |-> Text(pool, f.name),
                          type |-> parse_complete_field_descriptor(Text(pool, f.desc)).type])]
            /\ indy' = indy + IndysIn(pool, f.attrs)
            /\ read' = read + 1 /\ Consume
            /\ UNCHANGED <<file, phase, pass, cp_i, pool, state>> /\ UNCHANGED memory
         \/ ~FieldAccepted(pool, f)
            /\ format_error(HeadAccepted(pool, f) /\ Failing(pool, f.attrs) # {}
                            /\ FailsInBody(pool, f.attrs))

\* The last Code attribute of a method is its code.
CodeOf(cp, attrs) == Last(SelectSeq(attrs, LAMBDA a : IsCode(cp, a)))
InMethodHandle(name) == name \in {<<"java/lang/invoke/MethodHandle">>, <<"java/lang/invoke/VarHandle">>}

Method(cp, c, f, m) ==
  LET coded == \E k \in DOMAIN m.attrs : IsCode(cp, m.attrs[k])
  IN  [name |-> Text(cp, m.name), type |-> MethodSpelling(Text(cp, m.desc)),
       is_ctor |-> Text(cp, m.name) = <<"<init>">>, is_clinit |-> Text(cp, m.name) = <<"<clinit>">>,
       code |-> IF coded THEN CodeOf(cp, m.attrs).insns ELSE <<>>,
       missing_smt |-> f.major < 50 /\ coded /\ no_smt_found(cp, CodeOf(cp, m.attrs)),
       sigpoly |-> InMethodHandle(c.name) /\ "NATIVE" \in m.access]

\* The descriptor comes before the attributes.
DescriptorError(cp, m) == HeadAccepted(cp, m) /\ ~parse_method_descriptor(Text(cp, m.desc)).ok
parse_method(cp, m) == HeadAccepted(cp, m) /\ ~DescriptorError(cp, m) /\ Failing(cp, m.attrs) = {}

ParseMethod ==
  /\ phase = "methods" /\ read < Len(file.methods) /\ reader_advance
  /\ LET m == file.methods[read + 1]
     IN  \/ /\ parse_method(pool, m)
            /\ cls' = [cls EXCEPT !.methods = Append(@, Method(pool, cls, file, m))]
            /\ indy' = indy + IndysIn(pool, m.attrs)
            /\ read' = read + 1 /\ Consume
            /\ UNCHANGED <<file, phase, pass, cp_i, pool, state>> /\ UNCHANGED memory
         \/ ~parse_method(pool, m)
            /\ format_error(HeadAccepted(pool, m) /\ ~DescriptorError(pool, m)
                            /\ FailsInBody(pool, m.attrs))
         \/ DescriptorError(pool, m) /\ parse_method_descriptor(Text(pool, m.desc)).badFree
            /\ InvalidFree

\* The fields, the methods or the attributes of the class are all read.
NextPart ==
  /\ \/ phase = "fields" /\ read = Len(file.fields) /\ phase' = "methods"
     \/ phase = "methods" /\ read = Len(file.methods) /\ phase' = "attrs"
     \/ phase = "attrs" /\ read = Len(file.attrs) /\ phase' = "complete"
  /\ read' = 0
  /\ UNCHANGED <<file, pass, cp_i, left, pool, cls, indy, state>> /\ UNCHANGED memory

ParseClassAttribute ==
  /\ phase = "attrs" /\ read < Len(file.attrs) /\ reader_advance
  /\ LET a == file.attrs[read + 1]
     IN  \/ /\ parse_attribute(pool, a)
            /\ LET name == NameOf(pool, a)
               IN  cls' = CASE name = <<"SourceFile">> ->
                                 [cls EXCEPT !.source_file = Text(pool, a.rows[1][1])]
                            [] name = <<"NestHost">> ->
                                 [cls EXCEPT !.nest_host = ClassName(pool, a.rows[1][1])]
                            [] name = <<"InnerClasses">> ->
                                 [cls EXCEPT !.inner = [k \in DOMAIN a.rows |->
                                                          ClassName(pool, a.rows[k][1])]]
                            [] OTHER -> cls
            /\ indy' = indy + IndysIn(pool, <<a>>)
            /\ read' = read + 1 /\ Consume
            /\ UNCHANGED <<file, phase, pass, cp_i, pool, state>> /\ UNCHANGED memory
         \/ ~parse_attribute(pool, a) /\ format_error(FailsInBody(pool, <<a>>))

----------------------------------------------------------------------------
\* Every invokedynamic constant names a method of the first BootstrapMethods attribute.
Indys(cp) == {i \in DOMAIN cp \ {0} : cp[i].kind = "INVOKE_DYNAMIC"}
link_bootstrap_methods(cp, attrs) ==
  \A i \in Indys(cp) :
    /\ HasAttribute(cp, attrs, <<"BootstrapMethods">>)
    /\ cp[i].bsm < Len(find_attribute_by_kind(cp, attrs, <<"BootstrapMethods">>).rows)

\* The invokedynamic instructions, as <<method, instruction>>: roots of the collector.
IndyPointers(methods) ==
  FlattenSeq([i \in DOMAIN methods |->
    FoldLeft(LAMBDA s, j : IF methods[i].code[j].op = "invokedynamic" THEN Append(s, <<i, j>>) ELSE s,
             <<>>, [j \in DOMAIN methods[i].code |-> j])])

Complete ==
  /\ phase = "complete"
  /\ \/ /\ left = 0 /\ link_bootstrap_methods(pool, file.attrs)
        /\ phase' = "done" /\ state' = "LOADED"
        /\ cls' = [cls EXCEPT !.indy_insns = IndyPointers(cls.methods)]
        /\ UNCHANGED <<file, pool, indy>> /\ UNCHANGED reader /\ UNCHANGED memory
     \/ ~(left = 0 /\ link_bootstrap_methods(pool, file.attrs)) /\ format_error(FALSE)

ErrorKeepsTable ==
  /\ phase = "failed"
  /\ phase' = "done" /\ state' = "LINKAGE_ERROR" /\ arena' = FALSE
  /\ UNCHANGED <<file, pool, cls, indy, temp>> /\ UNCHANGED reader
\* The second return of setjmp.
FormatError ==
  /\ phase = "failed"
  /\ phase' = "done" /\ state' = "LINKAGE_ERROR" /\ arena' = FALSE /\ temp' = FALSE
  /\ UNCHANGED <<file, pool, cls, indy>> /\ UNCHANGED reader

NoClass == [access |-> {}, name |-> <<>>, super |-> <<>>, interfaces |-> <<>>, fields |-> <<>>,
            methods |-> <<>>, source_file |-> <<>>, nest_host |-> <<>>, inner |-> <<>>,
            indy_insns |-> <<>>]

Init ==
  /\ file \in Files
  /\ phase = "magic" /\ pass = "READ" /\ read = 0 /\ cp_i = 1
  /\ left = Items(file) + file.extra
  /\ pool = <<>> /\ cls = NoClass /\ indy = 0 /\ arena = TRUE /\ temp = FALSE /\ state = "NONE"

Next == \/ Truncated \/ ParseHeader \/ ParsePoolEntry \/ RewindPool \/ EndPool
        \/ FinishPoolEntry \/ EndFinish \/ ParseClassInfo \/ ParseField \/ ParseMethod
        \/ NextPart \/ ParseClassAttribute \/ Complete \/ FormatError

Spec == Init /\ [][Next]_vars

----------------------------------------------------------------------------
(***************************************************************************)
(* What the class file format says, independently of the order in which    *)
(* the parser looks at things.                                             *)
(***************************************************************************)
IndexOf(f, n) == n + Cardinality({m \in 1..(n - 1) : Wide(f.pool[m].kind)})
At(f, i) == {n \in DOMAIN f.pool : IndexOf(f, n) = i}
Leads(f, i, kinds) == \E n \in At(f, i) : f.pool[n].kind \in kinds
\* The text of the constant at an index and the index it refers to, nothing if there is none.
TextAt(f, i) == LET t == {f.pool[n].text : n \in At(f, i)} IN IF t = {} THEN <<>> ELSE CHOOSE x \in t : TRUE
RefersTo(f, i, k) == Max({0} \union {f.pool[n].refs[k] : n \in {m \in At(f, i) : k \in DOMAIN f.pool[m].refs}})

\* A field descriptor: brackets, then a primitive type or a class name.
LegalField(t) ==
  \E d \in 0..MaxDimensions :
    /\ Len(t) > d /\ \A k \in 1..d : t[k] = "["
    /\ LET base == SubSeq(t, d + 1, Len(t))
       IN  \/ Len(base) = 1 /\ base[1] \in {"Z", "C", "F", "D", "B", "S", "I", "J"}
          \/ /\ Len(base) > 2 /\ base[1] = "L" /\ Last(base) = ";"
             /\ \A k \in 2..(Len(base) - 1) : base[k] # ";"

\* Parameters between parentheses: cut, the set of positions at which one ends.
LegalParameters(t) ==
  \E cut \in SUBSET DOMAIN t :
    /\ t = <<>> \/ Len(t) \in cut
    /\ \A e \in cut : LET s == Max({0} \union {c \in cut : c < e}) IN LegalField(SubSeq(t, s + 1, e))

\* The parser takes void for a field type and does not look behind a return type.
FieldText(t) == LegalField(t) \/ t = <<"V">>
MethodText(t) ==
  \E p, q \in DOMAIN t : /\ t[1] = "(" /\ 1 < p /\ p < q /\ t[p] = ")"
                         /\ LegalParameters(SubSeq(t, 2, p - 1)) /\ FieldText(SubSeq(t, p + 1, q))

RefTable ==
  [c \in {"CLASS", "MODULE", "PACKAGE", "STRING", "METHOD_TYPE", "NAME_AND_TYPE"} |->
     <<{"UTF8"}, {"UTF8"}>>]
  @@ [c \in Members |-> <<{"CLASS"}, {"NAME_AND_TYPE"}>>]
  @@ [c \in {"DYNAMIC_CONSTANT", "INVOKE_DYNAMIC"} |-> <<{"NAME_AND_TYPE"}>>]
  @@ [METHOD_HANDLE |-> <<Members>>]

WellFormedConstant(f, n) ==
  LET e == f.pool[n]
      desc(k) == TextAt(f, RefersTo(f, e.refs[k], 2))
  IN  /\ e.kind \in Kinds
      /\ \A k \in DOMAIN e.refs : Leads(f, e.refs[k], RefTable[e.kind][k])
      /\ e.kind = "FIELD_REF" => FieldText(desc(2))
      /\ e.kind \in {"METHOD_REF", "INTERFACE_METHOD_REF"} => MethodText(desc(2))
      /\ e.kind = "INVOKE_DYNAMIC" =>
           /\ MethodText(desc(1))
           /\ \E k \in DOMAIN f.attrs : TextAt(f, f.attrs[k].name) = <<"BootstrapMethods">>
                                          /\ e.bsm < Len(f.attrs[k].rows)
      /\ e.kind = "METHOD_TYPE" => MethodText(TextAt(f, e.refs[1]))

\* An attribute by its name: the kinds of its references, and those that may be missing.
AttributeTable ==
  <<"ConstantValue">> :> {"STRING", "INTEGER", "FLOAT", "LONG", "DOUBLE"}
  @@ <<"SourceFile">> :> {"UTF8"} @@ <<"Signature">> :> {"UTF8"}
  @@ <<"LocalVariableTable">> :> {"UTF8"} @@ <<"MethodParameters">> :> {"UTF8"}
  @@ <<"InnerClasses">> :> {"CLASS"} @@ <<"NestHost">> :> {"CLASS"} @@ <<"PermittedSubclasses">> :> {"CLASS"}
  @@ <<"EnclosingMethod">> :> {"CLASS", "NAME_AND_TYPE"}
  @@ <<"BootstrapMethods">> :> {"METHOD_HANDLE", "STRING", "INTEGER", "FLOAT", "LONG", "DOUBLE",
                                "METHOD_TYPE", "CLASS", "DYNAMIC_CONSTANT"}

WellFormedTable(f, a) ==
  /\ Leads(f, a.name, {"UTF8"})
  /\ LET name == TextAt(f, a.name)
     IN  /\ name \in WithTable => ~a.short
         /\ name \in DOMAIN AttributeTable =>
              \A r \in DOMAIN a.rows : \A k \in DOMAIN a.rows[r] :
                \/ a.rows[r][k] = 0 /\ name \in {<<"EnclosingMethod">>, <<"MethodParameters">>}
                \/ /\ Leads(f, a.rows[r][k], AttributeTable[name])
                   /\ name = <<"EnclosingMethod">> =>
                        Leads(f, a.rows[r][k], {IF k = 1 THEN "CLASS" ELSE "NAME_AND_TYPE"})
                   /\ name = <<"BootstrapMethods">> /\ k = 1 => Leads(f, a.rows[r][1], {"METHOD_HANDLE"})
                   /\ name = <<"MethodParameters">> =>
                        LET t == TextAt(f, a.rows[r][k])
                        IN  t # <<>> /\ Range(t) \intersect {".", ";", "[", "/"} = {}

RECURSIVE WellFormedAttribute(_, _)
WellFormedAttribute(f, a) ==
  /\ WellFormedTable(f, a)
  /\ TextAt(f, a.name) = <<"Code">> =>
       /\ \A k \in DOMAIN a.insns :
            a.insns[k].op = "invokedynamic" => Leads(f, a.insns[k].arg, {"INVOKE_DYNAMIC"})
       /\ \A k \in DOMAIN a.catches : a.catches[k] = 0 \/ Leads(f, a.catches[k], {"CLASS"})
       /\ \A k \in DOMAIN a.attrs : WellFormedAttribute(f, a.attrs[k])

WellFormedMember(f, m) ==
  /\ Leads(f, m.name, {"UTF8"}) /\ Leads(f, m.desc, {"UTF8"})
  /\ \A k \in DOMAIN m.attrs : WellFormedAttribute(f, m.attrs[k])

WellFormed(f) ==
  /\ f.magic /\ f.extra = 0
  /\ \A n \in DOMAIN f.pool : WellFormedConstant(f, n)
  /\ Leads(f, f.self, {"CLASS"})
  /\ "MODULE" \notin f.access /\ TextAt(f, RefersTo(f, f.self, 1)) # <<"java/lang/Object">>
       => Leads(f, f.super, {"CLASS"})
  /\ \A k \in DOMAIN f.interfaces : Leads(f, f.interfaces[k], {"CLASS"})
  /\ \A k \in DOMAIN f.fields : WellFormedMember(f, f.fields[k]) /\ FieldText(TextAt(f, f.fields[k].desc))
  /\ \A k \in DOMAIN f.methods : WellFormedMember(f, f.methods[k]) /\ MethodText(TextAt(f, f.methods[k].desc))
  /\ \A k \in DOMAIN f.attrs : WellFormedAttribute(f, f.attrs[k])

----------------------------------------------------------------------------
\* parse_classfile accepts exactly the files in which every reference leads to a constant of
\* the kind its place requires, forward or backward, every descriptor can be read, and
\* nothing is missing or left over.
AcceptsWellFormed == phase = "done" => (state = "LOADED" <=> WellFormed(file))

\* A type as it is spelled in a descriptor.
Spelled(type) ==
  [k \in 1..type.dims |-> "["] \o (IF type.base = "L" THEN <<"L">> \o type.class \o <<";">> ELSE <<type.base>>)
SpelledMethod(types) ==
  <<"(">> \o FlattenSeq([k \in 1..(Len(types) - 1) |-> Spelled(types[k])]) \o <<")">> \o Spelled(Last(types))

\* A parsed descriptor spells the text it was parsed from, up to the characters behind a return type.
DescriptorsAsWritten ==
  /\ \A k \in DOMAIN cls.fields : Spelled(cls.fields[k].type) = TextAt(file, file.fields[k].desc)
  /\ \A k \in DOMAIN cls.methods : IsPrefix(SpelledMethod(cls.methods[k].type), TextAt(file, file.methods[k].desc))
  /\ \A n \in DOMAIN file.pool :
       LET e == pool[IndexOf(file, n)]
       IN  /\ e.kind = "FIELD_REF" => Spelled(e.parsed[1]) = pool[e.to[2]].texts[2]
           /\ e.kind \in {"METHOD_REF", "INTERFACE_METHOD_REF", "INVOKE_DYNAMIC"} =>
                IsPrefix(SpelledMethod(e.parsed), pool[Last(e.to)].texts[2])
           /\ e.kind = "METHOD_TYPE" => IsPrefix(SpelledMethod(e.parsed), e.texts[1])

\* In a loaded class every constant has what the file says, at the index the file uses for it,
\* and its pointers lead to finished entries (the two passes of parse_constant_pool).  The pool
\* never grows past its allocation, not even for a wide constant at the last index.  Parsed
\* descriptors are the ones in the file (parse_field_descriptor, parse_method_descriptor).
PoolAsWritten ==
  /\ pool # <<>> => DOMAIN pool = DOMAIN init_constant_pool(file.count)
  /\ phase = "done" /\ state = "LOADED" =>
       /\ \A n \in DOMAIN file.pool :
            LET e == file.pool[n]
                entry == pool[IndexOf(file, n)]
            IN  /\ entry.kind = e.kind
                /\ e.kind = "UTF8" => entry.texts = <<e.text>>
                /\ \A k \in DOMAIN e.refs :
                     \/ entry.to # <<>> /\ entry.to[k] = e.refs[k]
                     \/ entry.texts # <<>> /\ entry.texts[k] = TextAt(file, e.refs[k])
       /\ DescriptorsAsWritten

Codes(f, attrs) == {k \in DOMAIN attrs : TextAt(f, attrs[k].name) = <<"Code">>}
\* The invokedynamic instructions that can be executed: those of the last Code attribute of a method.
CallSites(f) ==
  {<<i, j>> \in (DOMAIN f.methods) \X (1..Max({0} \union {Len(a.insns) : a \in
                                                     UNION {Range(m.attrs) : m \in Range(f.methods)}})) :
     LET attrs == f.methods[i].attrs
     IN  Codes(f, attrs) # {} /\ LET insns == attrs[Max(Codes(f, attrs))].insns
                                IN  j \in DOMAIN insns /\ insns[j].op = "invokedynamic"}
\* There is an invokedynamic that cannot be: in the Code of a field or of the class, in one before
\* the last of a method, or in a Code attribute within the last.
RECURSIVE HoldsCalls(_, _)
HoldsCalls(f, attrs) ==
  \E k \in Codes(f, attrs) : (\E i \in Range(attrs[k].insns) : i.op = "invokedynamic") \/ HoldsCalls(f, attrs[k].attrs)
StrayCalls(f) ==
  \/ HoldsCalls(f, f.attrs) \/ \E m \in Range(f.fields) : HoldsCalls(f, m.attrs)
  \/ \E m \in Range(f.methods) :
       LET codes == Codes(f, m.attrs)
       IN  codes # {} /\ \/ HoldsCalls(f, SubSeq(m.attrs, 1, Max(codes) - 1))
                         \/ HoldsCalls(f, m.attrs[Max(codes)].attrs)

\* The collector finds every call site ("used to get GC roots to CallSites", classfile.h:874):
\* indy_insns has exactly one entry for each invokedynamic instruction that can be executed, and its
\* allocation, counted while Code attributes are parsed (classfile.c:1206), holds them all.  It has
\* empty entries at the end, whose ic the collector takes for roots all the same (gc.c:94), in those
\* files only that have invokedynamic in the Code of no method, and in all of them.
CallSitesListed ==
  phase = "done" /\ state = "LOADED" =>
    /\ Range(cls.indy_insns) = CallSites(file)
    /\ Len(cls.indy_insns) = Cardinality(CallSites(file))
    /\ Len(cls.indy_insns) <= indy
    /\ Len(cls.indy_insns) < indy <=> StrayCalls(file)

\* A rejected class owns no memory and is in state LINKAGE_ERROR, wherever the error was
\* found: format_error leaves through longjmp past every frame.
NothingLeft ==
  phase = "done" /\ state # "LOADED" => state = "LINKAGE_ERROR" /\ ~arena /\ ~temp

=============================================================================
