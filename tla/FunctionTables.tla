---------------------------- MODULE FunctionTables ----------------------------
(***************************************************************************)
(* Method lookup, v-tables and i-tables (src/vm/vtable.c, and              *)
(* method_lookup of src/vm/bjvm.c) over a world of loaded classes w:       *)
(*   w.super      by class, its superclass or NoClass                      *)
(*   w.ifaces     by class, its direct superinterfaces in order            *)
(*   w.interface  the classes that are interfaces                          *)
(*   w.pkg        by class, its run-time package                           *)
(*   w.methods    by class, its methods in the order of the class file     *)
(* A method is a record of its key (name and descriptor) and its flags; a  *)
(* pointer to one is <<class, index>>.                                     *)
(***************************************************************************)
EXTENDS Integers, Sequences, SequencesExt, FiniteSetsExt, TLC

CONSTANT ScratchBytes    \* 1024: the buffer identify writes into
ASSUME ScratchAssumption == ScratchBytes \in Nat

NoClass == "no class"
NoMethod == <<NoClass, 0>>
Get(w, p) == w.methods[p[1]][p[2]]

\* The superclasses of a class, itself first.
Chain(w, c) ==
  LET up[d \in DOMAIN w.super] == IF w.super[d] = NoClass THEN <<d>> ELSE <<d>> \o up[w.super[d]]
  IN  up[c]

method_candidate_matches(m, key) == m.key = key

\* The first match among the methods a class declares.
Declared(w, c, key) ==
  LET at == {i \in DOMAIN w.methods[c] : method_candidate_matches(w.methods[c][i], key)}
  IN  IF at = {} THEN NoMethod ELSE <<c, Min(at)>>

FirstOf(ms) ==
  LET found == SelectSeq(ms, LAMBDA m : m # NoMethod) IN IF found = <<>> THEN NoMethod ELSE found[1]

InClasses(w, c, key) ==
  LET chain == Chain(w, c) IN FirstOf([i \in DOMAIN chain |-> Declared(w, chain[i], key)])

\* A class or an interface and then its superinterfaces, depth first.
InInterfaces(w, c, key) ==
  LET look[d \in DOMAIN w.super] ==
        LET own == Declared(w, d, key)
        IN  IF own # NoMethod THEN own
            ELSE FirstOf([i \in DOMAIN w.ifaces[d] |-> look[w.ifaces[d][i]]])
  IN  look[c]

\* Classes first, then the superinterfaces of the class, of its superclass and so on.
method_lookup(w, c, key, search_superclasses, search_superinterfaces) ==
  LET own == IF search_superclasses THEN InClasses(w, c, key) ELSE Declared(w, c, key)
      chain == IF search_superclasses THEN Chain(w, c) ELSE <<c>>
      above == FlattenSeq([k \in DOMAIN chain |->
                 [i \in DOMAIN w.ifaces[chain[k]] |-> InInterfaces(w, w.ifaces[chain[k]][i], key)]])
  IN  IF own # NoMethod \/ ~search_superinterfaces THEN own ELSE FirstOf(above)

same_runtime_package(w, a, b) == w.pkg[a] = w.pkg[b]

\* Decided by the flags of the overriding method.
method_overrides(w, overrides, overridden) ==
  /\ overrides # NoMethod
  /\ LET access == Get(w, overrides).access
     IN  CASE access = "private" -> FALSE
           [] access = "package" -> same_runtime_package(w, overrides[1], overridden[1])
           [] OTHER -> TRUE

----------------------------------------------------------------------------
\* An entry of an i-table: a method and two bits in its pointer.
make(w, m) == [m |-> m, invalid |-> Get(w, m).abstract, ambiguous |-> FALSE]
mark_ambiguous(e) == [e EXCEPT !.invalid = TRUE, !.ambiguous = TRUE]

Smaller(a, b) == IF a < b THEN a ELSE b
(***************************************************************************)
(* The name and the descriptor with a colon between them, written into a   *)
(* scratch string of len characters.  The string is then as long as what   *)
(* was written, and the next one has to fit in that.                       *)
(***************************************************************************)
identify(len, key) ==
  LET n == Smaller(Len(key.name), len)
  IN  SubSeq(key.name, 1, n) \o <<":">> \o SubSeq(key.desc, 1, Smaller(Len(key.desc), len - n))

\* The tables of the superinterfaces and of the superclass, in the order they are scanned.
ParentTables(w, T, c) ==
  FlattenSeq([k \in DOMAIN w.ifaces[c] |-> T[w.ifaces[c][k]].itables]) \o T[w.super[c]].itables

\* One entry of a parent's table: seen before under its name as another method, or not.
Discover(w, acc, e) ==
  LET id == identify(acc.len, Get(w, e.m).key)
      seen == IF id \in DOMAIN acc.discovered THEN acc.discovered[id] ELSE NoMethod
  IN  IF e.m[1] \notin w.interface THEN acc
      ELSE [len |-> Len(id),
            ambiguous |-> IF (seen # NoMethod /\ seen # e.m) \/ e.ambiguous
                          THEN acc.ambiguous \union {id} ELSE acc.ambiguous,
            discovered |-> IF seen = NoMethod /\ ~e.ambiguous THEN (id :> e.m) @@ acc.discovered
                           ELSE acc.discovered]

Ambiguous(w, T, c) ==
  LET tables == ParentTables(w, T, c)
  IN  FoldLeft(LAMBDA acc, e : Discover(w, acc, e),
               [len |-> ScratchBytes, ambiguous |-> {}, discovered |-> <<>>],
               FlattenSeq([k \in DOMAIN tables |-> tables[k].methods])).ambiguous

MergeKeepsDefault(w, c, poisoned, id, d, s) ==
  LET kept == IF Get(w, d.m).abstract \/ d = s THEN s ELSE d
  IN  IF id \in poisoned THEN mark_ambiguous(kept) ELSE kept
\* One slot of two tables of an interface: a concrete method before an abstract one, and the
\* method of the class or of a superclass before both.
MergeEntry(w, c, poisoned, id, d, s) ==
  LET kept == IF Get(w, d.m).abstract \/ d = s THEN s ELSE d
      over == method_lookup(w, c, Get(w, d.m).key, TRUE, FALSE)
  IN  CASE method_overrides(w, over, d.m) -> make(w, over)
        [] ~method_overrides(w, over, d.m) /\ id \in poisoned -> mark_ambiguous(kept)
        [] OTHER -> kept

merge_itable(w, c, poisoned, dst, src) ==
  FoldLeft(LAMBDA acc, i :
             LET id == identify(acc.len, Get(w, dst[i].m).key)
             IN  [len |-> Len(id), methods |-> Append(acc.methods, MergeEntry(w, c, poisoned, id, dst[i], src[i]))],
           [len |-> ScratchBytes, methods |-> <<>>], [i \in DOMAIN src |-> i]).methods

AlwaysAnotherTable(w, c, poisoned, tables, t) ==
  Append(tables, [t EXCEPT !.methods = merge_itable(w, c, poisoned, t.methods, t.methods)])
\* An interface the class already has is merged, another one is copied and then merged with itself.
AddTable(w, c, poisoned, tables, t) ==
  LET at == {k \in DOMAIN tables : tables[k].interface = t.interface}
      dst == IF at = {} THEN t.methods ELSE tables[Min(at)].methods
      merged == [t EXCEPT !.methods = merge_itable(w, c, poisoned, dst, t.methods)]
  IN  IF at = {} THEN Append(tables, merged) ELSE [tables EXCEPT ![Min(at)] = merged]

setup_itables(w, T, c) ==
  LET poisoned == Ambiguous(w, T, c)
  IN  FoldLeft(LAMBDA tables, t : AddTable(w, c, poisoned, tables, t), <<>>, ParentTables(w, T, c))

itable_include(m) == ~m.init /\ ~m.static
OwnTable(w, c) ==
  LET included == SelectSeq([i \in DOMAIN w.methods[c] |-> <<c, i>>], LAMBDA p : itable_include(Get(w, p)))
  IN  IF c \notin w.interface THEN <<>>
      ELSE <<[interface |-> c, methods |-> [i \in DOMAIN included |-> make(w, included[i])] \o <<>>]>>

----------------------------------------------------------------------------
\* The superclass's v-table with the overridden methods replaced, then the new methods.
Replaced(w, c, m) ==
  LET r == method_lookup(w, c, Get(w, m).key, FALSE, FALSE)
  IN  IF method_overrides(w, r, m) THEN r ELSE m

vtable_include(m, overrides) == ~m.init /\ ~m.static /\ ~overrides

Inherited(w, T, c) == [i \in DOMAIN T[w.super[c]].vtable |-> Replaced(w, c, T[w.super[c]].vtable[i])] \o <<>>

NewMethods(w, c, inherited) ==
  SelectSeq([i \in DOMAIN w.methods[c] |-> <<c, i>>] \o <<>>,
            LAMBDA p : vtable_include(Get(w, p), p \in Range(inherited)))

NoTables == [vtable |-> <<>>, itables |-> <<>>]
set_up_function_tables(w, T, c) ==
  LET inherited == IF w.super[c] = NoClass THEN <<>> ELSE Inherited(w, T, c)
      itables == IF w.super[c] = NoClass THEN <<>> ELSE setup_itables(w, T, c)
  IN  [vtable |-> inherited \o NewMethods(w, c, inherited), itables |-> itables \o OwnTable(w, c)]

\* vtable_index: the last slot in which a class's table got the method, itable_index: its place
\* in the table of the interface that declares it.
vtable_index(T, m) == Max({i \in DOMAIN T[m[1]].vtable : T[m[1]].vtable[i] = m})
itable_index(w, T, m) ==
  LET own == Last(T[m[1]].itables).methods IN Min({i \in DOMAIN own : own[i].m = m})

vtable_lookup(T, c, index) == T[c].vtable[index]
itable_lookup(T, c, iface, index) ==
  LET at == {k \in DOMAIN T[c].itables : T[c].itables[k].interface = iface}
      e == T[c].itables[Min(at)].methods[index]
  IN  IF at = {} \/ e.invalid THEN NoMethod ELSE e.m

=============================================================================
