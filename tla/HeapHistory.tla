---------------------------- MODULE HeapHistory ----------------------------
(***************************************************************************)
(* Collector with a history variable: the graph of objects the program saw *)
(* when it last ran.  It changes in the step in which a collection ends.   *)
(***************************************************************************)
EXTENDS Collector

VARIABLE graph

Id(p) == IF p = Null THEN 0 ELSE mem[p].id

(* The object graph the heap represents. *)
Graph ==
  LET seen == Visible
      at(i) == CHOOSE a \in seen : mem[a].id = i
      object(a) == [cls |-> mem[a].cls, hash |-> Hash(a),
                    refs |-> [k \in 1 .. NRefs[mem[a].cls] |-> Id(mem[a + k].ref)]]
  IN [at |-> [r \in DOMAIN roots |-> Id(roots[r])],
      pending |-> Id(pending),
      object |-> [i \in {mem[a].id : a \in seen} |-> object(at(i))]]

HInit == Init /\ graph = Graph
HNext == Next /\ graph' = (IF Stable' THEN Graph' ELSE graph)
HSpec == HInit /\ [][HNext]_<<vars, graph>>

Heap == INSTANCE JavaHeap WITH Ids <- 1 .. Cap + 1

(* Allocation and collection implement the heap of Java: nothing reachable  *)
(* is lost, merged or changed by being moved, identity hash codes survive   *)
(* the inflation of a monitor and its moves, and weak references are        *)
(* cleared and reported exactly when they must be.                          *)
ImplementsJavaHeap == Heap!Spec
=============================================================================
