-------------------------------- MODULE Linkage --------------------------------
(***************************************************************************)
(* link_class (src/vm/linkage.c), array classes (src/vm/arrays.c) and the  *)
(* call sites that use what linking builds (the invoke handlers of         *)
(* src/vm/interpreter2.c, resolve_methodref and instanceof of bjvm.c).     *)
(*                                                                         *)
(* link_class recurses through superclass, superinterfaces and, for an     *)
(* array, the base component: todo is its C stack, a frame being the class *)
(* and the place the call returns to.  A world (FunctionTables) also has   *)
(*   w.comp       by array class, its component                            *)
(*   w.fields     by class, its fields: a kind and static or not           *)
(*   w.bad        the classes a method of which fails analysis             *)
(*   w.padding    by class with a native layout, bytes before its fields   *)
(*   w.pointer    the size of a pointer in this build                      *)
(*   w.start      the classes linked when the VM started                   *)
(*   w.requests   the classes the program asks to link                     *)
(*   w.receivers  the classes of the objects that reach the call site      *)
(*   w.site       the call site: opcode, class and key of the method       *)
(*                reference, the class and kind of the method it is in     *)
(***************************************************************************)
EXTENDS FunctionTables, Functions

CONSTANT Worlds    \* the class hierarchies a behaviour may begin with

\* The superclass and the superinterfaces a class names.
Above(w, c) == ({w.super[c]} \ {NoClass}) \union Range(w.ifaces[c])

(***************************************************************************)
(* No class is above itself: define_class sees to it.  Arrays have at most *)
(* two dimensions, nothing extends one, and what they extend (Object,      *)
(* Cloneable and Serializable) was linked when the VM started, when it     *)
(* made the first of them, with everything above it.                       *)
(***************************************************************************)
ASSUME HierarchyAssumption ==
  \A w \in Worlds :
    /\ NoClass \notin DOMAIN w.super
    /\ w.super \in [DOMAIN w.super -> DOMAIN w.super \union {NoClass}]
    /\ w.ifaces \in [DOMAIN w.super -> Seq(DOMAIN w.super)]
    /\ \A S \in SUBSET DOMAIN w.super : S # {} => \E c \in S : Above(w, c) \intersect S = {}
    /\ DOMAIN w.comp \subseteq DOMAIN w.super /\ w.comp \in [DOMAIN w.comp -> DOMAIN w.super]
    /\ \A a \in DOMAIN w.comp : w.comp[a] \in DOMAIN w.comp => w.comp[w.comp[a]] \notin DOMAIN w.comp
    /\ \A c \in DOMAIN w.super : Above(w, c) \intersect DOMAIN w.comp = {}
    /\ w.start \in Seq(DOMAIN w.super \ DOMAIN w.comp)
    /\ \A c \in DOMAIN w.comp \union Range(w.start) : Above(w, c) \subseteq Range(w.start)

VARIABLES world,
          made,    \* the class descriptors that exist
          state,   \* by class: its state
          hier,    \* by class: hierarchy, from the root to the class
          tables,  \* by class: v-table and i-tables
          layout,  \* by class: field offsets and reference slots
          todo,    \* the calls of link_class in progress, innermost first
          status,  \* the value the last call of link_class returned
          asked,   \* the class of the outermost call
          crashed, \* a null pointer was dereferenced
          site,    \* the call site: insn->kind, methodref.resolved, insn->ic, insn->ic2
          recv,    \* the class of the receiver the call site is executing with
          last     \* the receiver and the target of the last call that completed

classes == <<made, state, hier, tables, layout>>
linking == <<todo, status, asked, crashed>>
calls == <<site, recv, last>>
vars == <<world, classes, linking, calls>>

----------------------------------------------------------------------------
\* Layout of the fields.
Align(n, to) == ((n + to - 1) \div to) * to
sizeof_type_kind(w, kind) ==
  CASE kind \in {"Z", "B"} -> 1 [] kind \in {"C", "S"} -> 2 [] kind \in {"I", "F"} -> 4
    [] kind \in {"J", "D"} -> 8 [] kind = "L" -> w.pointer

\* The offset a field of this kind gets when the next free one is current.
allocate_field(w, current, kind) == Align(current, sizeof_type_kind(w, kind))

\* Bigger fields first, fields of a size in the order of the class.
reorder_fields_for_compactness(w, fields) ==
  FlattenSeq([i \in 1..4 |->
    SelectSeq([k \in DOMAIN fields |-> k], LAMBDA k : sizeof_type_kind(w, fields[k].kind) = <<8, 4, 2, 1>>[i])])

AllocationOrder(w, c) ==
  IF c \in DOMAIN w.padding THEN [k \in DOMAIN w.fields[c] |-> k]
  ELSE reorder_fields_for_compactness(w, w.fields[c])

NoLayout == [bytes |-> 0, offsets |-> <<>>, refs |-> <<>>, srefs |-> <<>>]
HeaderBytes(w) == 8 + w.pointer

\* static_offset and nonstatic_offset, and the offsets given so far.
Placed(w, c, start) ==
  FoldLeft(LAMBDA acc, k :
             LET f == w.fields[c][k]
                 at == allocate_field(w, IF f.static THEN acc.sbytes ELSE acc.bytes, f.kind)
                 next == at + sizeof_type_kind(w, f.kind)
             IN  [sbytes |-> IF f.static THEN next ELSE acc.sbytes,
                  bytes |-> IF f.static THEN acc.bytes ELSE next,
                  offsets |-> (k :> at) @@ acc.offsets],
           [sbytes |-> 0, bytes |-> start, offsets |-> <<>>], AllocationOrder(w, c))

OwnReferences(w, c, offsets, static) ==
  LET is == SelectSeq([k \in DOMAIN w.fields[c] |-> k],
                      LAMBDA k : w.fields[c][k].kind = "L" /\ w.fields[c][k].static = static)
  IN  [i \in DOMAIN is |-> offsets[is[i]] \div w.pointer] \o <<>>

OwnReferencesOnly(w, L, c) ==
  LET super == IF w.super[c] = NoClass THEN [NoLayout EXCEPT !.bytes = HeaderBytes(w)] ELSE L[w.super[c]]
      p == Placed(w, c, super.bytes)
  IN  [bytes |-> p.bytes, offsets |-> p.offsets,
       refs |-> OwnReferences(w, c, p.offsets, FALSE), srefs |-> OwnReferences(w, c, p.offsets, TRUE)]
\* Where the fields go, behind those of the superclass, and which words hold references.
LayoutOf(w, L, c) ==
  LET super == IF w.super[c] = NoClass THEN [NoLayout EXCEPT !.bytes = HeaderBytes(w)] ELSE L[w.super[c]]
      padding == IF c \in DOMAIN w.padding THEN w.padding[c] ELSE 0
      p == Placed(w, c, super.bytes + padding)
  IN  [bytes |-> p.bytes, offsets |-> p.offsets,
       refs |-> super.refs \o OwnReferences(w, c, p.offsets, FALSE),
       srefs |-> OwnReferences(w, c, p.offsets, TRUE)]

----------------------------------------------------------------------------
\* Linking.
IsArray(w, c) == c \in DOMAIN w.comp
\* The array classes over a class: its array_type, that one's array_type and so on.
ArraysOver(w, c) == {a \in DOMAIN w.comp : w.comp[a] = c \/ (IsArray(w, w.comp[a]) /\ w.comp[w.comp[a]] = c)}
base_component(w, a) == IF IsArray(w, w.comp[a]) THEN w.comp[w.comp[a]] ELSE w.comp[a]
array_type(w, c) == {a \in made : IsArray(w, a) /\ w.comp[a] = c}

setup_super_hierarchy(w, H, c) == IF w.super[c] = NoClass THEN <<c>> ELSE Append(H[w.super[c]], c)

Top == Head(todo)
Enter(c) == [c |-> c, at |-> "enter", k |-> 0]
GoTo(at) == [todo EXCEPT ![1].at = at]
Return(s) == /\ status' = s
             /\ todo' = Tail(todo)

\* The states of the array classes over c that exist become st.
ArraysBecome(st, c) == [a \in DOMAIN state |-> IF a \in ArraysOver(world, c) \intersect made THEN st ELSE state[a]]

link_class(c) ==
  /\ todo = <<>> /\ recv = NoClass /\ ~crashed
  /\ c \in made \intersect world.requests /\ state[c] = "LOADED"
  /\ todo' = <<Enter(c)>> /\ status' = 0 /\ asked' = c
  /\ UNCHANGED <<world, classes, crashed, calls>>

\* A class that is not LOADED is taken to be linked, one in LINKAGE_ERROR too.
LinkSuper ==
  /\ todo # <<>> /\ Top.at = "enter"
  /\ \/ /\ state[Top.c] # "LOADED"
        /\ Return(0)
     \/ /\ state[Top.c] = "LOADED"
        /\ todo' = (IF world.super[Top.c] = NoClass THEN <<>> ELSE <<Enter(world.super[Top.c])>>) \o GoTo("super")
        /\ status' = 0
  /\ UNCHANGED <<world, classes, asked, crashed, calls>>

FailKeepsState ==
  /\ status # 0
  /\ Return(status)
  /\ UNCHANGED <<world, classes, asked, crashed, calls>>
\* A superclass or a superinterface failed.
Fail ==
  /\ status # 0
  /\ state' = [state EXCEPT ![Top.c] = "LINKAGE_ERROR"]
  /\ Return(status)
  /\ UNCHANGED <<world, made, hier, tables, layout, asked, crashed, calls>>

LinkSuperDone ==
  /\ todo # <<>> /\ Top.at = "super"
  /\ \/ Fail
     \/ /\ status = 0
        /\ hier' = [hier EXCEPT ![Top.c] = setup_super_hierarchy(world, hier, Top.c)]
        /\ todo' = GoTo("interfaces")
        /\ UNCHANGED <<world, made, state, tables, layout, status, asked, crashed, calls>>

LinkInterface ==
  /\ todo # <<>> /\ Top.at = "interfaces" /\ Top.k < Len(world.ifaces[Top.c])
  /\ status = 0
  /\ todo' = <<Enter(world.ifaces[Top.c][Top.k + 1])>> \o [todo EXCEPT ![1].k = Top.k + 1]
  /\ UNCHANGED <<world, classes, status, asked, crashed, calls>>

InterfaceFailed == todo # <<>> /\ Top.at = "interfaces" /\ Fail

\* link_array_class of the array type of c, which becomes linked with all array classes over c;
\* the array type alone gets a hierarchy and tables.
WithArrays(c) ==
  LET arrays == {a \in array_type(world, c) : state[a] # "LINKED"}
  IN  [state |-> [IF arrays = {} THEN state ELSE ArraysBecome("LINKED", c) EXCEPT ![c] = "LINKED"],
       hier |-> [a \in DOMAIN hier |-> IF a \in arrays THEN setup_super_hierarchy(world, hier, a) ELSE hier[a]],
       tables |-> [a \in DOMAIN tables |->
                     IF a \in arrays THEN set_up_function_tables(world, tables, a) ELSE tables[a]]]

LinkOrdinary ==
  /\ todo # <<>> /\ Top.at = "interfaces" /\ Top.k = Len(world.ifaces[Top.c]) /\ status = 0
  /\ ~IsArray(world, Top.c)
  /\ LET c == Top.c
         linked == WithArrays(c)
     IN  /\ hier' = linked.hier
         /\ \/ /\ c \in world.bad                                \* a method fails analysis
               /\ state' = [linked.state EXCEPT ![c] = "LINKAGE_ERROR"]
               /\ tables' = linked.tables
               /\ Return(1)
               /\ UNCHANGED <<layout, crashed>>
            \/ /\ c \notin world.bad /\ world.super[c] # NoClass /\ layout[world.super[c]] = NoLayout
               /\ crashed' = TRUE                                \* super->instance_references is null
               /\ todo' = <<>>
               /\ UNCHANGED <<state, tables, layout, status>>
            \/ /\ c \notin world.bad /\ (world.super[c] = NoClass \/ layout[world.super[c]] # NoLayout)
               /\ state' = linked.state
               /\ layout' = [layout EXCEPT ![c] = LayoutOf(world, layout, c)]
               /\ tables' = [linked.tables EXCEPT ![c] = set_up_function_tables(world, linked.tables, c)]
               /\ Return(0)
               /\ UNCHANGED crashed
  /\ UNCHANGED <<world, made, asked, calls>>

\* link_array_class, before and after it links the base component.
LinkBase ==
  /\ todo # <<>> /\ Top.at = "interfaces" /\ Top.k = Len(world.ifaces[Top.c]) /\ status = 0
  /\ IsArray(world, Top.c)
  /\ state' = [state EXCEPT ![Top.c] = "LINKED"]
  /\ todo' = <<Enter(base_component(world, Top.c))>> \o GoTo("array")
  /\ UNCHANGED <<world, made, hier, tables, layout, status, asked, crashed, calls>>

LinkArray ==
  /\ todo # <<>> /\ Top.at = "array"
  /\ LET a == Top.c
     IN  /\ state' = ArraysBecome(IF status = 0 THEN "LINKED" ELSE "LINKAGE_ERROR", base_component(world, a))
         /\ hier' = [hier EXCEPT ![a] = setup_super_hierarchy(world, hier, a)]
         /\ tables' = [tables EXCEPT ![a] = set_up_function_tables(world, tables, a)]
  /\ Return(status)
  /\ UNCHANGED <<world, made, layout, asked, crashed, calls>>

\* get_or_create_array_classdesc: linked at once over a linked component, and then in the same
\* state as the component.
CreateArray(a) ==
  /\ todo = <<>> /\ recv = NoClass /\ ~crashed
  /\ IsArray(world, a) /\ a \notin made /\ world.comp[a] \in made
  /\ made' = made \union {a}
  /\ state' = [state EXCEPT ![a] = state[world.comp[a]]]
  /\ IF state[world.comp[a]] = "LINKED"
     THEN /\ hier' = [hier EXCEPT ![a] = setup_super_hierarchy(world, hier, a)]
          /\ tables' = [tables EXCEPT ![a] = set_up_function_tables(world, tables, a)]
     ELSE UNCHANGED <<hier, tables>>
  /\ UNCHANGED <<world, layout, linking, calls>>

----------------------------------------------------------------------------
\* instanceof.
instanceof_interface(o, target) ==
  o = target \/ \E k \in DOMAIN tables[o].itables : tables[o].itables[k].interface = target
instanceof_super(o, target) ==
  Len(hier[target]) <= Len(hier[o]) /\ hier[o][Len(hier[target])] = target
Dimensions(w, c) == IF ~IsArray(w, c) THEN 0 ELSE IF IsArray(w, w.comp[c]) THEN 2 ELSE 1
Component(w, c, dims) ==
  CASE dims = 0 -> c [] dims = 1 -> w.comp[c] [] dims = 2 -> w.comp[w.comp[c]]

DimensionsEqual(o, target) ==
  LET dims == Dimensions(world, target)
      below == Component(world, o, dims)
      to == Component(world, target, dims)
  IN  \/ o = target
      \/ /\ Dimensions(world, o) = dims
         /\ IF to \in world.interface THEN instanceof_interface(below, to) ELSE instanceof_super(below, to)
\* The dimensions of an array target come off both, and what is left is compared.
instanceof(o, target) ==
  LET dims == Dimensions(world, target)
      below == Component(world, o, dims)
      to == Component(world, target, dims)
  IN  \/ o = target
      \/ /\ Dimensions(world, o) >= dims
         /\ IF to \in world.interface THEN instanceof_interface(below, to) ELSE instanceof_super(below, to)

----------------------------------------------------------------------------
\* The call site.
resolve_methodref ==
  IF site.resolved # NoMethod THEN site.resolved ELSE method_lookup(world, world.site.class, world.site.key, TRUE, TRUE)

\* An instruction becomes another one and is executed again, with the same receiver.
Rewrite(kind, resolved, ic, ic2) ==
  /\ site' = [kind |-> kind, resolved |-> resolved, ic |-> ic, ic2 |-> ic2]
  /\ UNCHANGED <<recv, last>>
\* A frame of the target is pushed, or an error raised (NoMethod).
Complete(target) == last' = [recv |-> recv, target |-> target] /\ recv' = NoClass
Throw(resolved) == Complete(NoMethod) /\ site' = [site EXCEPT !.resolved = resolved]
Invoke(target) == Complete(target) /\ UNCHANGED site

Executes(kind) == recv # NoClass /\ site.kind = kind /\ UNCHANGED <<world, classes, linking>>

\* The classes the reference names and the receiver has are initialized, hence linked.
Reach(r) ==
  /\ todo = <<>> /\ recv = NoClass /\ ~crashed
  /\ r \in world.receivers /\ state[r] = "LINKED"
  /\ state[world.site.class] = "LINKED" /\ state[world.site.caller] = "LINKED"
  /\ recv' = r
  /\ UNCHANGED <<world, classes, linking, site, last>>

invokevirtual_impl ==
  /\ Executes("invokevirtual")
  /\ LET m == resolve_methodref
     IN  \/ m = NoMethod /\ Throw(m)
         \/ m # NoMethod /\ m[1] \in world.interface /\ Rewrite("invokeinterface", m, NoMethod, NoClass)
         \/ /\ m # NoMethod /\ m[1] \notin world.interface /\ Get(world, m).final
            /\ Rewrite("invokespecial_resolved", m, m, NoClass)
         \/ /\ m # NoMethod /\ m[1] \notin world.interface /\ ~Get(world, m).final
            /\ Rewrite("invokevtable_monomorphic", m, vtable_lookup(tables, recv, vtable_index(tables, m)), recv)

invokeinterface_impl ==
  /\ Executes("invokeinterface")
  /\ LET m == resolve_methodref
         target == itable_lookup(tables, recv, m[1], itable_index(world, tables, m))
     IN  \/ m = NoMethod /\ Throw(m)
         \/ m # NoMethod /\ m[1] \notin world.interface /\ Rewrite("invokevirtual", m, NoMethod, NoClass)
         \/ /\ m # NoMethod /\ m[1] \in world.interface
            /\ \/ target = NoMethod /\ Throw(m)
               \/ target # NoMethod /\ Get(world, m).final /\ Rewrite("invokespecial_resolved", m, m, NoClass)
               \/ target # NoMethod /\ ~Get(world, m).final /\ Rewrite("invokeitable_monomorphic", m, target, recv)

\* The class invokespecial searches: the caller's direct superclass when the method is found in
\* a proper superclass of the caller and the caller is no constructor.
lookup_on(m) ==
  IF ~world.site.in_ctor /\ m[1] \notin world.interface /\ world.site.caller # m[1] /\ instanceof(world.site.caller, m[1])
  THEN world.super[world.site.caller] ELSE m[1]

SpecialCandidate(m) ==
  LET found == method_lookup(world, lookup_on(m), Get(world, m).key, TRUE, FALSE)
  IN  CASE found # NoMethod -> IF Get(world, found).abstract THEN NoMethod ELSE found
        [] found = NoMethod /\ m[1] \in world.interface ->
             itable_lookup(tables, lookup_on(m), m[1], itable_index(world, tables, m))
        [] OTHER -> NoMethod

invokespecial_impl ==
  /\ Executes("invokespecial")
  /\ LET m == resolve_methodref
         candidate == SpecialCandidate(m)
     IN  \/ m = NoMethod /\ Throw(m)
         \/ /\ m # NoMethod
            /\ \/ candidate = NoMethod /\ Throw(m)
               \/ /\ candidate # NoMethod /\ world.super[candidate[1]] = NoClass /\ Get(world, candidate).init
                  /\ Rewrite("pop", m, candidate, NoClass)
               \/ /\ candidate # NoMethod /\ ~(world.super[candidate[1]] = NoClass /\ Get(world, candidate).init)
                  /\ Rewrite("invokespecial_resolved", m, candidate, NoClass)

invokespecial_resolved_impl == (Executes("invokespecial_resolved") \/ Executes("pop")) /\ Invoke(site.ic)

\* The first receiver of another class makes the site polymorphic for good.
invokevtable_monomorphic_impl ==
  /\ Executes("invokevtable_monomorphic")
  /\ \/ recv = site.ic2 /\ Invoke(site.ic)
     \/ /\ recv # site.ic2
        /\ Rewrite("invokevtable_polymorphic", site.resolved, site.ic, vtable_index(tables, site.ic))

invokeitable_monomorphic_impl ==
  /\ Executes("invokeitable_monomorphic")
  /\ \/ recv = site.ic2 /\ Invoke(site.ic)
     \/ /\ recv # site.ic2
        /\ Rewrite("invokeitable_polymorphic", site.resolved, site.resolved[1], itable_index(world, tables, site.resolved))

invokevtable_polymorphic_impl ==
  Executes("invokevtable_polymorphic") /\ Invoke(vtable_lookup(tables, recv, site.ic2))

invokeitable_polymorphic_impl ==
  Executes("invokeitable_polymorphic") /\ Invoke(itable_lookup(tables, recv, site.ic, site.ic2))

----------------------------------------------------------------------------
\* The classes of w.start were linked in this order, each by what the ones before it have.
InTurn(w, none, Linked(_, _)) ==
  LET after[n \in 0..Len(w.start)] ==
        IF n = 0 THEN [c \in DOMAIN w.super |-> none]
        ELSE [after[n - 1] EXCEPT ![w.start[n]] = Linked(after[n - 1], w.start[n])]
  IN  after[Len(w.start)]

StartTables(w) == InTurn(w, NoTables, LAMBDA T, c : set_up_function_tables(w, T, c))
StartHier(w) == InTurn(w, <<>>, LAMBDA H, c : setup_super_hierarchy(w, H, c))
StartLayout(w) == InTurn(w, NoLayout, LAMBDA L, c : LayoutOf(w, L, c))

Init ==
  /\ world \in Worlds
  /\ made = DOMAIN world.super \ DOMAIN world.comp
  /\ state = [c \in DOMAIN world.super |-> IF c \in Range(world.start) THEN "LINKED" ELSE "LOADED"]
  /\ hier = StartHier(world) /\ tables = StartTables(world) /\ layout = StartLayout(world)
  /\ todo = <<>> /\ status = 0 /\ asked = NoClass /\ crashed = FALSE
  /\ site = [kind |-> world.site.op, resolved |-> NoMethod, ic |-> NoMethod, ic2 |-> NoClass]
  /\ recv = NoClass /\ last = [recv |-> NoClass, target |-> NoMethod]

Linking ==
  \/ \E c \in DOMAIN world.super : link_class(c) \/ CreateArray(c)
  \/ LinkSuper \/ LinkSuperDone \/ LinkInterface \/ LinkOrdinary \/ InterfaceFailed \/ LinkBase \/ LinkArray
Calling ==
  \/ \E r \in DOMAIN world.super : Reach(r)
  \/ invokevirtual_impl \/ invokeinterface_impl \/ invokespecial_impl \/ invokespecial_resolved_impl
  \/ invokevtable_monomorphic_impl \/ invokeitable_monomorphic_impl
  \/ invokevtable_polymorphic_impl \/ invokeitable_polymorphic_impl
Next == Linking \/ Calling
Spec == Init /\ [][Next]_vars

----------------------------------------------------------------------------
\* What the declarations of the world say, without the tables.
Supertypes(w, c) ==
  LET up[d \in DOMAIN w.super] ==
        {d} \union (IF w.super[d] = NoClass THEN {} ELSE up[w.super[d]])
            \union UNION {up[w.ifaces[d][i]] : i \in DOMAIN w.ifaces[d]}
  IN  up[c]

\* An array is a subtype of the arrays of its component's supertypes.
IsSubtype(w, o, t) ==
  \/ t \in Supertypes(w, o)
  \/ /\ IsArray(w, t) /\ Dimensions(w, o) >= Dimensions(w, t)
     /\ Component(w, t, Dimensions(w, t)) \in Supertypes(w, Component(w, o, Dimensions(w, t)))

\* JVMS 5.4.5: a method overrides a public one, and a package-private one of its package; directly,
\* or through a class in between.  The code has also the public methods of other packages override
\* a package-private one: it asks for the access of the overriding method (vtable.c:26), where the
\* specification its comment refers to (vtable.c:21) asks for that of the overridden one.
OverridesDirectly(w, a, b) ==
  \/ Get(w, b).access = "public" \/ (Get(w, b).access = "package" /\ w.pkg[a[1]] = w.pkg[b[1]])
  \/ Get(w, a).access = "public"
Overrides(w, a, b) ==
  \/ a = b \/ b[1] \in w.interface \/ OverridesDirectly(w, a, b)
  \/ \E c \in Range(Chain(w, a[1])) : LET m == Declared(w, c, Get(w, b).key)
                                     IN  m # NoMethod /\ OverridesDirectly(w, a, m) /\ OverridesDirectly(w, m, b)

InterfaceMethods(w, c, key) ==
  {Declared(w, i, key) : i \in Supertypes(w, c) \intersect w.interface} \ {NoMethod}
MaximallySpecific(w, c, key) ==
  LET all == InterfaceMethods(w, c, key)
  IN  {p \in all : \A q \in all : q = p \/ p[1] \notin Supertypes(w, q[1])}
Concrete(w, methods) == {p \in methods : ~Get(w, p).abstract}

\* The methods a class and its superclasses offer for a resolved method, the lowest first.
ClassChoice(w, c, m) ==
  SelectSeq([i \in DOMAIN Chain(w, c) |-> Declared(w, Chain(w, c)[i], Get(w, m).key)],
            LAMBDA p : p # NoMethod /\ Overrides(w, p, m))

\* The declarations that the paths upward from an interface or a class meet first.
Nearest(w, c, key) ==
  LET near[d \in DOMAIN w.super] ==
        IF Declared(w, d, key) # NoMethod THEN {Declared(w, d, key)} ELSE UNION {near[e] : e \in Above(w, d)}
  IN  near[c]

\* setup_itables counts every declaration of a key it meets below different superinterfaces
\* (vtable.c:142), one that overrides the other or is abstract among them: this is more often than
\* vtable.h:34 says, "there are multiple methods with the same name and signature which would be
\* selected".
CountedAmbiguous(w, c, key) == Cardinality(Nearest(w, c, key)) > 1

\* JVMS 5.4.6: the method that is selected when m is called on an object of class c: the lowest one
\* of the classes that overrides m, else the only concrete one of the most specific ones of the
\* interfaces, which is refused where the code counts the key as ambiguous.
Selected(w, c, m) ==
  LET own == ClassChoice(w, c, m)
      key == Get(w, m).key
      best == Concrete(w, MaximallySpecific(w, c, key))
  IN  CASE m[1] \notin Supertypes(w, c) -> NoMethod
        [] m[1] \in Supertypes(w, c) /\ own # <<>> -> own[1]
        [] OTHER -> IF Cardinality(best) = 1 /\ ~CountedAmbiguous(w, c, key)
                    THEN CHOOSE p \in best : TRUE ELSE NoMethod

\* JVMS 6.5, invokespecial: a constructor is called as named, another method of a superclass is
\* selected in the direct superclass.
SpecialSelected(w, m) ==
  LET named == w.site.class
      above == named \notin w.interface /\ named # w.site.caller /\ named \in Supertypes(w, w.site.caller)
      p == Selected(w, IF above THEN w.super[w.site.caller] ELSE named, m)
  IN  CASE Get(w, m).init -> m
        [] ~Get(w, m).init /\ p # NoMethod /\ Get(w, p).abstract -> NoMethod
        [] OTHER -> p

\* The methods p overrides that override none themselves, each of which has a slot, the lowest first.
Introducing(w, p) ==
  SelectSeq(ClassChoice(w, p[1], p) \o
              SelectSeq([i \in DOMAIN Chain(w, p[1]) |-> Declared(w, Chain(w, p[1])[i], Get(w, p).key)],
                        LAMBDA q : q # NoMethod /\ q # p /\ Overrides(w, p, q)),
            LAMBDA q : \A d \in Range(Tail(Chain(w, q[1]))) :
                         LET r == Declared(w, d, Get(w, p).key) IN r = NoMethod \/ ~Overrides(w, q, r))

\* vtable.h:20 has a call "resolved by simply looking at a constant offset into this table".  A site
\* that has seen two classes of receivers uses the offset of the method in its cache
\* (interpreter2.c:2016), the lowest one if that method has several: it goes on as a call of the
\* method that introduced that slot.
CalledAs ==
  IF site.kind = "invokevtable_polymorphic" THEN Introducing(world, site.ic)[1] ELSE site.resolved

AtRest == todo = <<>> /\ ~crashed
\* Linked, and so is everything above it.
LinkedAbove(c) ==
  /\ c \in made /\ \A d \in Supertypes(world, c) : state[d] = "LINKED"
  /\ IsArray(world, c) => state[base_component(world, c)] = "LINKED"
\* A class of which this holds once keeps it.
WellLinked(c) == LinkedAbove(c) /\ hier[c] # <<>>

\* invokevirtual, invokeinterface and invokespecial through inline caches, v-tables and i-tables:
\* whatever receivers a site has seen before, the call runs the method that the declarations select,
\* and is refused exactly if they select none or count it as ambiguous; a site that has become
\* polymorphic on a method with several slots runs what the declarations select for CalledAs.
SelectionRight ==
  recv = NoClass /\ last.recv # NoClass =>
    last.target = CASE site.resolved = NoMethod -> NoMethod
                    [] site.resolved # NoMethod /\ world.site.op = "invokespecial" -> SpecialSelected(world, site.resolved)
                    [] OTHER -> Selected(world, last.recv, CalledAs)

\* set_up_function_tables: a class keeps its superclass's slots, has a slot for the method that
\* is found in it and its superclasses, and has a table, with the interface's own keys in order,
\* for exactly its superinterfaces.
TablesConsistent ==
  AtRest => \A c \in DOMAIN world.super : WellLinked(c) =>
    LET vt == tables[c].vtable
        it == tables[c].itables
        above == IF world.super[c] = NoClass THEN <<>> ELSE tables[world.super[c]].vtable
    IN  /\ Len(vt) >= Len(above)
        /\ \A i \in DOMAIN above : Get(world, vt[i]).key = Get(world, above[i]).key
        /\ \A i \in DOMAIN vt : LET m == InClasses(world, c, Get(world, vt[i]).key)
                                IN  m \in Range(vt) /\ vt[vtable_index(tables, m)] = m
        /\ {it[k].interface : k \in DOMAIN it} = Supertypes(world, c) \intersect world.interface
        /\ \A k, l \in DOMAIN it : it[k].interface = it[l].interface => k = l
        /\ \A k \in DOMAIN it :
             LET own == OwnTable(world, it[k].interface)[1].methods
             IN  /\ Len(own) = Len(it[k].methods)
                 /\ \A i \in DOMAIN own : Get(world, own[i].m).key = Get(world, it[k].methods[i].m).key

\* instanceof, by hierarchy and i-tables, is the subtype relation of the declarations, for arrays
\* too.  linkage.c:90 says "Link all higher dimensional components", but an array of arrays made
\* before its base component is linked only gets the state of a linked class (linkage.c:91-94): it
\* is an instance of array types alone, and not of Object.
InstanceofRight ==
  AtRest => \A o, t \in made : LinkedAbove(o) /\ WellLinked(t) =>
    /\ instanceof(o, t) <=> IsSubtype(world, o, t) /\ (hier[o] = <<>> => IsArray(world, t))
    /\ hier[o] = <<>> => Dimensions(world, o) > 1

Own(c, static) == {k \in DOMAIN world.fields[c] : world.fields[c][k].static = static}
Bytes(c, k) == layout[c].offsets[k] .. layout[c].offsets[k] + sizeof_type_kind(world, world.fields[c][k].kind) - 1
\* The instance fields of a class and its superclasses, and the words its references are in.
AllFields(c) == UNION {{<<d, k>> : k \in Own(d, FALSE)} : d \in Range(Chain(world, c))}
ReferenceWords(fields) ==
  {layout[f[1]].offsets[f[2]] \div world.pointer : f \in {f \in fields : world.fields[f[1]][f[2]].kind = "L"}}

\* link_class, fields: the fields of an object do not overlap each other or the header, each is
\* aligned, and the words the collector visits are exactly those of the reference fields.
LayoutSound ==
  AtRest => \A c \in DOMAIN world.super : WellLinked(c) /\ ~IsArray(world, c) =>
    LET all == AllFields(c)
        static == {<<c, k>> : k \in Own(c, TRUE)}
        apart(fields) == \A f, g \in fields : f = g \/ Bytes(f[1], f[2]) \intersect Bytes(g[1], g[2]) = {}
        aligned(f) == layout[f[1]].offsets[f[2]] % sizeof_type_kind(world, world.fields[f[1]][f[2]].kind) = 0
    IN  /\ apart(all) /\ apart(static) /\ \A f \in all \union static : aligned(f)
        /\ \A f \in all : Bytes(f[1], f[2]) \subseteq HeaderBytes(world)..layout[c].bytes - 1
        /\ Range(layout[c].refs) = ReferenceWords(all) /\ IsInjective(layout[c].refs)
        /\ Range(layout[c].srefs) = ReferenceWords(static) /\ IsInjective(layout[c].srefs)

\* The class whose supertypes a call of link_class for c may analyse.
Analysed(w, c) == IF IsArray(w, c) THEN base_component(w, c) ELSE c

\* link_class: a call that reports success has linked the class.  One that reports failure leaves
\* it in LINKAGE_ERROR, without a layout, because of a class above it that failed analysis; and no
\* class in between is linked over that one, unless across another that had failed before.
FailureReported ==
  AtRest /\ asked # NoClass =>
    /\ status = 0 => state[asked] = "LINKED" /\ hier[asked] # <<>>
    /\ status # 0 =>
         /\ state[asked] = "LINKAGE_ERROR" /\ layout[asked] = NoLayout
         /\ \E b \in world.bad \intersect Supertypes(world, Analysed(world, asked)) :
              /\ state[b] = "LINKAGE_ERROR"
              /\ \A d \in Supertypes(world, Analysed(world, asked)) :
                   state[d] = "LINKED" /\ b \in Supertypes(world, d) =>
                     \E e \in Supertypes(world, d) \ {b} : state[e] = "LINKAGE_ERROR" /\ b \in Supertypes(world, e)

\* interpreter2.c:1904: "The resolved method is not an instance initialization method": a
\* constructor is not looked up in the caller's superclass, the one that runs is of the class of
\* the new object or above it.
ConstructorAsNamed ==
  last.recv # NoClass /\ last.target # NoMethod /\ Get(world, last.target).init =>
    last.target[1] \in Supertypes(world, last.recv)

=============================================================================
