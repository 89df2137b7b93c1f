----------------------------- MODULE MCCollector -----------------------------
(* Instances of Collector: nodes with one reference or none, and References. *)
EXTENDS Collector, TLC

CONSTANTS Node, r1, r2, arg

Nodes == (Node :> 1) @@ (Reference :> 2)
Leaves == (Node :> 0) @@ (Reference :> 2)
RootSymmetry == Permutations(Roots)
=============================================================================
