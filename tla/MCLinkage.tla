------------------------------ MODULE MCLinkage ------------------------------
(***************************************************************************)
(* The worlds Linkage is checked on.                                       *)
(*                                                                         *)
(* Dispatch: interfaces I and J (J may extend I) and classes A and B       *)
(* extends A that may implement them in turn; m is absent, abstract or a   *)
(* default method in an interface, absent or concrete in a class; one call *)
(* site of each kind.  All keys have the same length, so that identify     *)
(* keeps them whole.                                                       *)
(* Packages: A, B, C in two packages with package-private methods.         *)
(* SeveralSlots: D below them overrides both, and is in two slots.         *)
(* Redeclared: A implements J and the interface J extends, and m of both.  *)
(* Objects: fields of every size, static or not, in two builds.            *)
(* Failures: classes that fail analysis, and arrays made at any time.      *)
(* TwoFail: two interfaces that fail, and a class that meets both.         *)
(***************************************************************************)
EXTENDS Linkage

Key(name) == [name |-> <<name>>, desc |-> <<"()">>]
M(name, access, abstract) ==
  [key |-> Key(name), access |-> access, abstract |-> abstract, static |-> FALSE, final |-> FALSE, init |-> FALSE]
Ctor == [M("<init>", "public", FALSE) EXCEPT !.init = TRUE]
Public(name) == M(name, "public", FALSE)
Abstract(name) == M(name, "public", TRUE)

NoSite == [op |-> "none", class |-> NoClass, key |-> Key("m"), caller |-> NoClass, in_ctor |-> FALSE]
Base == [super |-> "O" :> NoClass, ifaces |-> "O" :> <<>>, interface |-> {}, pkg |-> "O" :> "p",
         methods |-> "O" :> <<Ctor, Public("h")>>, fields |-> "O" :> <<>>, comp |-> <<>>, bad |-> {},
         padding |-> <<>>, pointer |-> 8, start |-> <<"O">>, requests |-> {}, receivers |-> {}, site |-> NoSite]

\* One more class.
With(w, c, super, ifaces, methods) ==
  [w EXCEPT !.super = (c :> super) @@ @, !.ifaces = (c :> ifaces) @@ @, !.pkg = (c :> "p") @@ @,
            !.methods = (c :> methods) @@ @, !.fields = (c :> <<>>) @@ @]
WithInterface(w, c, ifaces, methods) ==
  [With(w, c, "O", ifaces, methods) EXCEPT !.interface = @ \union {c}]

Site(op, class, name, caller) == [op |-> op, class |-> class, key |-> Key(name), caller |-> caller, in_ctor |-> FALSE]
Sites ==
  {Site("invokevirtual", "A", "m", "A"), Site("invokevirtual", "B", "m", "A"), Site("invokeinterface", "I", "m", "A"),
   Site("invokeinterface", "J", "m", "A"), Site("invokespecial", "A", "m", "B")}

InInterface == {<<>>, <<Abstract("m")>>, <<Public("m")>>}
InClass == {<<>>, <<Public("m")>>}

Hierarchy(ji, ai, bi, im, jm, am, bm) ==
  LET i == WithInterface(Base, "I", <<>>, <<Abstract("n")>> \o im)
      j == WithInterface(i, "J", ji, jm)
      a == With(j, "A", "O", ai, <<Ctor, Public("n")>> \o am)
  IN  With(a, "B", "A", bi, bm \o <<Public("h")>>)

Dispatch ==
  {[Hierarchy(ji, ai, bi, im, jm, am, bm) EXCEPT !.requests = {"A", "B", "I", "J"}, !.receivers = {"A", "B"}, !.site = s] :
     ji \in {<<>>, <<"I">>}, ai \in {<<>>, <<"I">>, <<"J">>}, bi \in {<<>>, <<"I">>, <<"J", "I">>},
     im \in InInterface, jm \in InInterface, am \in InClass, bm \in InClass, s \in Sites}
\* A receiver of a class that does not have the method's class is not possible for invokevirtual.
Possible(w) ==
  CASE w.site.op = "invokevirtual" -> [w EXCEPT !.receivers = {r \in @ : w.site.class \in Supertypes(w, r)}]
    [] w.site.op = "invokespecial" -> [w EXCEPT !.receivers = {"B"}]
    [] OTHER -> w

\* Calls of Object's methods through a class and an interface, of final methods, of constructors.
Final(w) == [w EXCEPT !.methods["A"] = <<Ctor, [Public("m") EXCEPT !.final = TRUE]>>]
Others ==
  LET w == [Hierarchy(<<>>, <<"I">>, <<>>, <<>>, <<>>, <<>>, <<>>) EXCEPT !.requests = {"B"}, !.receivers = {"A", "B"}]
      ctor(c) == [Site("invokespecial", c, "<init>", c) EXCEPT !.in_ctor = TRUE]
  IN  {[w EXCEPT !.site = Site("invokevirtual", "A", "h", "A")], [w EXCEPT !.site = Site("invokeinterface", "I", "h", "A")],
       [Final(w) EXCEPT !.site = Site("invokevirtual", "A", "m", "A")],
       [w EXCEPT !.methods["I"] = <<[Public("m") EXCEPT !.final = TRUE]>>, !.site = Site("invokeinterface", "I", "m", "A")],
       [w EXCEPT !.site = [ctor("O") EXCEPT !.caller = "A"], !.receivers = {"A"}],
       [w EXCEPT !.site = [ctor("A") EXCEPT !.caller = "B"], !.receivers = {"B"}],
       [w EXCEPT !.site = Site("invokespecial", "J", "q", "B"), !.requests = {"B", "J"}]}

Packages ==
  {LET m == M("m", "package", FALSE)
       a == With(Base, "A", "O", <<>>, <<m, Public("n")>>)
       b == With(a, "B", "A", <<>>, <<m>>)
       c == With(b, "C", "B", <<>>, cm)
   IN  [c EXCEPT !.pkg = ("A" :> "p") @@ ("B" :> p) @@ ("C" :> q) @@ @, !.requests = {"C"},
                 !.site = Site("invokevirtual", s, "m", s), !.receivers = IF s = "A" THEN {"A", "B", "C"} ELSE {"B", "C"}] :
     p \in {"p", "q"}, q \in {"p", "q"}, cm \in {<<>>, <<M("m", "package", FALSE)>>}, s \in {"A", "B"}}

\* A.m and B.m, package-private in two packages, are both overridden by D.m, C.m overrides B.m.
\* A site may call A.m or B.m, and see a D or another class first.
SeveralSlots ==
  LET m == M("m", "package", FALSE)
      a == With(Base, "A", "O", <<>>, <<m>>)
      b == With(a, "B", "A", <<>>, <<m>>)
      c == With(b, "C", "B", <<>>, <<Public("m")>>)
      d == With(c, "D", "C", <<>>, <<Public("m")>>)
  IN  {[d EXCEPT !.pkg = ("B" :> "q") @@ ("C" :> "q") @@ @, !.requests = {"D"},
                 !.site = Site("invokevirtual", of, "m", of), !.receivers = {"B", "C", "D"}] : of \in {"A", "B"}}

\* J extends I and declares I's m again, default or abstract, and A implements both.
Redeclared ==
  {[Hierarchy(<<"I">>, <<"I", "J">>, <<>>, im, jm, am, <<>>) EXCEPT
      !.requests = {"A", "B"}, !.receivers = {"A", "B"}, !.site = Site("invokeinterface", i, "m", "A")] :
     im \in {<<Abstract("m")>>, <<Public("m")>>}, jm \in {<<Abstract("m")>>, <<Public("m")>>}, am \in InClass,
     i \in {"I", "J"}}

Field(kind, static) == [kind |-> kind, static |-> static]
SomeFields == UNION {[1..n -> {Field(k, FALSE) : k \in {"B", "S", "I", "J", "L"}}] : n \in 0..3}
              \union [1..2 -> {Field(k, s) : k \in {"B", "I", "L"}, s \in BOOLEAN}]
MoreFields == {<<>>, <<Field("L", FALSE)>>, <<Field("B", FALSE), Field("L", TRUE), Field("J", FALSE)>>}
Objects ==
  {LET a == With(Base, "A", "O", <<>>, <<>>)
       b == With(a, "B", "A", <<>>, <<>>)
   IN  [b EXCEPT !.fields["A"] = fs, !.fields["B"] = gs, !.pointer = p, !.requests = {"B"},
                 !.padding = IF pad THEN "A" :> p ELSE <<>>] :
     fs \in SomeFields, gs \in MoreFields, p \in {4, 8}, pad \in BOOLEAN}

WithArray(w, a, component) == [With(w, a, "O", <<"S">>, <<>>) EXCEPT !.comp = (a :> component) @@ @]
Failures ==
  {LET s == WithInterface(Base, "S", <<>>, <<>>)
       i == WithInterface(s, "I", <<>>, <<Public("m")>>)
       a == With(i, "A", "O", <<"I">>, <<Public("n")>>)
       b == With(a, "B", "A", <<>>, <<Public("n")>>)
       one == WithArray(WithArray(b, "A[]", "A"), "B[]", "B")
       two == WithArray(one, "A[][]", "A[]")
   IN  [two EXCEPT !.start = <<"O", "S">>, !.requests = DOMAIN two.super, !.bad = bad] :
     bad \in {{}, {"I"}, {"A"}, {"B"}}}

\* K extends two interfaces that fail, I and J; A implements K, and B extends A implements J.
TwoFail ==
  LET i == WithInterface(Base, "I", <<>>, <<Public("m")>>)
      j == WithInterface(i, "J", <<>>, <<Public("n")>>)
      k == WithInterface(j, "K", <<"I", "J">>, <<>>)
      a == With(k, "A", "O", <<"K">>, <<>>)
      b == With(a, "B", "A", <<"J">>, <<>>)
  IN  {[b EXCEPT !.requests = DOMAIN b.super, !.bad = {"I", "J"}]}

MCWorlds == {Possible(w) : w \in Dispatch} \union Others \union Packages
            \union SeveralSlots \union Redeclared \union Objects \union Failures \union TwoFail

\* A method of C, two classes below A, creates an A.
Factories ==
  {LET a == With(Base, "A", "O", <<>>, <<Ctor>>)
       b == With(a, "B", "A", <<>>, <<Ctor>>)
       c == With(b, "C", "B", <<>>, <<Ctor, Public("make")>>)
   IN  [c EXCEPT !.requests = {"A", "C"}, !.receivers = {"A"}, !.site = Site("invokespecial", "A", "<init>", "C")]}

=============================================================================
