------------------------------ MODULE JavaHeap ------------------------------
(***************************************************************************)
(* What a Java program may assume of its heap: a graph of objects with     *)
(* identities, in which nothing has an address.  A collection is one step, *)
(* which the program notices only by weak references that were cleared and *)
(* are now, each once, on the pending list.                                *)
(***************************************************************************)
EXTENDS Integers, Sequences, FiniteSets, SequencesExt, Functions

CONSTANTS
  Ids,          \* identities of objects; 0 is null
  Classes, Reference, NRefs, Hashes,
  Roots, Handler, Args

VARIABLE graph  \* [at: location -> id, pending: id, object: id -> object]

Locations == Roots \cup Args \cup {Handler}
Object(c, h, f) == [cls |-> c, hash |-> h, refs |-> f]

(* The identities that can be reached in g through the slots from `first' on *)
(* of a Reference and all slots of other objects.                            *)
Closure(g, first) ==
  LET next(i) == {g.object[i].refs[k] : k \in {k \in DOMAIN g.object[i].refs :
                                                 k >= first \/ g.object[i].cls # Reference}} \ {0}
      objects == Cardinality(DOMAIN g.object)
      round[n \in 0 .. objects] ==
        IF n = 0 THEN (Range(g.at) \cup {g.pending}) \ {0}
        ELSE UNION {{i} \cup next(i) : i \in round[n - 1]}
  IN round[objects]

(* Garbage is not part of the graph. *)
Trim(g) == [g EXCEPT !.object = Restrict(g.object, Closure(g, 1))]
At(r) == graph.object[graph.at[r]]
NonNull(r) == graph.at[r] # 0

Set(r, i) == graph'.at[r] = i /\ graph' = Trim([graph EXCEPT !.at[r] = i])
SetRef(i, k, j) == graph'.at = graph.at /\ graph' = Trim([graph EXCEPT !.object[i].refs[k] = j])

(* The new object gets an identity of its own. *)
New(c, r, s) ==
  LET i == graph'.at[r]
      refs == [k \in 1 .. NRefs[c] |-> IF c = Reference /\ k = 1 THEN graph.at[s] ELSE 0]
  IN /\ i \in Ids \ DOMAIN graph.object
     /\ graph' = Trim([graph EXCEPT !.at[r] = i, !.object = [j \in DOMAIN @ \cup {i} |->
                                      IF j = i THEN Object(c, 0, refs) ELSE @[j]]])

HashCode(r, h) ==
  NonNull(r) /\ At(r).hash = 0 /\ graph' = [graph EXCEPT !.object[graph.at[r]].hash = h]

Assign(r, s) == Set(r, graph.at[s])
Drop(r) == Set(r, 0)
Read(r, s, k) == NonNull(s) /\ k \in DOMAIN At(s).refs /\ Set(r, At(s).refs[k])
Write(r, k, s) ==
  /\ NonNull(r) /\ k \in DOMAIN At(r).refs
  /\ At(r).cls = Reference => k > 2
  /\ SetRef(graph.at[r], k, graph.at[s])

TakePending ==
  /\ graph.at[Handler] = 0
  /\ graph' = [graph EXCEPT !.at[Handler] = graph.pending, !.pending = 0]
ProcessPending ==
  /\ NonNull(Handler)
  /\ graph' = Trim([graph EXCEPT !.at[Handler] = At(Handler).refs[2],
                                 !.object[graph.at[Handler]].refs[2] = 0])

(* The References whose referent is not strongly reachable any more. *)
Cleared ==
  LET strong == Closure(graph, 2)
  IN {i \in strong : /\ graph.object[i].cls = Reference
                     /\ graph.object[i].refs[1] \notin strong \cup {0}}

(* Their referents are cleared and they are put on the pending list, in some *)
(* order, before those that are on it already.                               *)
Collect ==
  LET cleared == Cleared
      weakened(list) ==
        [i \in DOMAIN graph.object |->
           LET n == CHOOSE n \in DOMAIN list : list[n] = i
               link == IF n = Len(list) THEN graph.pending ELSE list[n + 1]
           IN IF i \notin cleared THEN graph.object[i]
              ELSE [graph.object[i] EXCEPT !.refs[1] = 0, !.refs[2] = link]]
  IN \E list \in SetToSeqs(cleared) :
       graph' = Trim([graph EXCEPT !.pending = IF list = <<>> THEN @ ELSE list[1],
                                   !.object = weakened(list)])

Init == graph = [at |-> [r \in Locations |-> 0], pending |-> 0, object |-> <<>>]

Next ==
  /\ graph' # graph
  /\ \/ \E c \in Classes, r, s \in Roots : New(c, r, s)
     \/ \E r \in Roots, h \in Hashes : HashCode(r, h)
     \/ \E r, s \in Roots \cup Args : Assign(r, s)
     \/ \E r \in Roots \cup Args : Drop(r)
     \/ \E r, s \in Roots, k \in UNION {1 .. NRefs[c] : c \in Classes} : Read(r, s, k) \/ Write(r, k, s)
     \/ TakePending \/ ProcessPending \/ Collect

Spec == Init /\ [][Next]_graph
=============================================================================
