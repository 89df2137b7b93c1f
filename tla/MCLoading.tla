------------------------------ MODULE MCLoading ------------------------------
(***************************************************************************)
(* Loading for TLC: the bootstrap loader, the application's loader below   *)
(* it and a loader below that; two names.  Every way to place the two      *)
(* classes with every choice of supertypes, cycles included; and classes   *)
(* that do not parse or are sealed.                                        *)
(***************************************************************************)
EXTENDS Loading

MCParent == [app |-> "boot", child |-> "app"]

Source(supers) == [supers |-> supers, parses |-> TRUE, permits |-> Names]
R(kind, l, n, dims) == [kind |-> kind, cl |-> l, name |-> n, dims |-> dims]

\* A file at each of these places.  A may extend B, and B may extend A or itself.
Places == SUBSET ({"boot", "app"} \X {"A", "B"})
Extends(n) == IF n = "A" THEN {<<>>, <<"B">>} ELSE {<<>>, <<"A">>, <<"B">>}
Hierarchies(places) ==
  {f \in [places -> {Source(s) : s \in Extends("A") \union Extends("B")}] : \A c \in places : f[c].supers \in Extends(c[2])}

\* The program defines only classes that the parents of the loader do not have.
Requests(files, l) ==
  {R("descriptor", l, "A", 1), R("resolve", l, "B", 0)}
  \union {R("define", "app", c[2], 0) : c \in {d \in DOMAIN files : d[1] = "app" /\ <<"boot", d[2]>> \notin DOMAIN files}}
  \union (IF l = "child" THEN {R("forName", l, "A", 0), R("forName", "boot", "B", 0)} ELSE {})

World(files, l) == [files |-> files, requests |-> Requests(files, l)]

\* A supertype that is missing is reported as if the class itself were, and the next loader
\* then defines its own class of that name, if it has one: not in these worlds.
Missing(w) == \E c \in DOMAIN w.files : NoClass \in SupersOf(w, c)
Hidden(w) == \E n \in Names : {<<"boot", n>>, <<"app", n>>} \subseteq DOMAIN w.files

InTwo == {w \in UNION {{World(f, "app") : f \in Hierarchies(p)} : p \in Places} : ~(Missing(w) /\ Hidden(w))}

Sealed == [Source(<<>>) EXCEPT !.permits = {"C"}]
Malformed == [Source(<<>>) EXCEPT !.parses = FALSE]
InThree ==
  {World(f, "child") : f \in
    {(<<la, "A">> :> Source(<<"B">>)) @@ (<<lb, "B">> :> b) : la \in {"app", "child"}, lb \in {"boot", "app", "child"},
                                                             b \in {Source(<<>>), Source(<<"A">>), Sealed, Malformed}}}

MCWorlds == InTwo \union InThree

=============================================================================
