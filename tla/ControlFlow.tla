----------------------------- MODULE ControlFlow -----------------------------
(***************************************************************************)
(* Basic blocks and dominators (src/vm/analysis.c).  Instructions are      *)
(* numbered from 0 here, as the targets of branches are; blocks are        *)
(* numbered from 0 in the order of their first instructions.               *)
(***************************************************************************)
EXTENDS MethodCode

RECURSIVE Visit(_, _, _), DfsFrom(_, _, _), DfsList(_, _, _), IdomFrom(_, _, _), IdomList(_, _, _),
          FindsCycle(_, _, _), CycleList(_, _, _)

At(insns, i) == insns[i + 1]
FallsThrough(kind) == kind # "goto" /\ ~IsSwitch(kind)

\* The instructions that begin a block: the entry, targets, and what follows a conditional branch.
Leaders(insns) ==
  {0} \union UNION {ToSet(TargetsOf(insns[i])) : i \in DOMAIN insns}
      \union {i \in DOMAIN insns : IsBranch(insns[i].kind) /\ insns[i].kind # "goto"}

\* The numbers of S in order.
Sorted(S) == [k \in 1..Cardinality(S) |-> CHOOSE x \in S : Cardinality({y \in S : y < x}) = k - 1]

\* Sorted and without duplicates.
BlockStarts(insns) == Sorted(Leaders(insns))

BlockIndexAt(starts, i) == CHOOSE k \in DOMAIN starts : starts[k] = i

BranchesTaken(starts, insns, k) ==
  LET last == At(insns, (IF k < Len(starts) THEN starts[k + 1] ELSE Len(insns)) - 1)
      taken == [t \in DOMAIN TargetsOf(last) |-> BlockIndexAt(starts, TargetsOf(last)[t])]
  IN  IF taken = <<>> /\ k < Len(starts) THEN <<k + 1>> ELSE taken
Branches(starts, insns, k) ==
  LET last == At(insns, (IF k < Len(starts) THEN starts[k + 1] ELSE Len(insns)) - 1)
      taken == [t \in DOMAIN TargetsOf(last) |-> BlockIndexAt(starts, TargetsOf(last)[t])]
  IN  IF FallsThrough(last.kind) /\ k < Len(starts) THEN Append(taken, k + 1) ELSE taken

\* The blocks reached from block b without an exception.
Visit(next, b, seen) ==
  IF b \in seen THEN seen
  ELSE FoldLeft(LAMBDA s, t : Visit(next, t, s), seen \union {b}, next[b])
dfs_nothrow_accessible(next) == Visit(next, 1, {})

(***************************************************************************)
(* Blocks that only an exception reaches are deleted and the rest          *)
(* renumbered, edges included.                                             *)
(***************************************************************************)
EdgesOf(insns) ==
  LET starts == BlockStarts(insns) IN [k \in DOMAIN starts |-> Branches(starts, insns, k)]

scan_basic_blocks(insns) ==
  LET starts == BlockStarts(insns)
      next == EdgesOf(insns)
      kept == dfs_nothrow_accessible(next)
      number == [k \in kept |-> Cardinality({j \in kept : j < k})]
      old == [n \in {number[k] : k \in kept} |-> CHOOSE k \in kept : number[k] = n]
  IN  [n \in DOMAIN old |->
         [start |-> starts[old[n]],
          count |-> (IF old[n] < Len(starts) THEN starts[old[n] + 1] ELSE Len(insns)) - starts[old[n]],
          next |-> [t \in DOMAIN next[old[n]] |-> number[next[old[n]][t]]]]]

\* Some deleted block has edges, an array of stb_ds that the code hands to free.
DeletesEdges(insns) ==
  LET next == EdgesOf(insns) IN \E k \in DOMAIN next \ dfs_nothrow_accessible(next) : next[k] # <<>>

Prev(bs, b) == {p \in DOMAIN bs : b \in ToSet(bs[p].next)}

----------------------------------------------------------------------------
(***************************************************************************)
(* compute_dominator_tree.  pre lists the blocks in preorder; Number is    *)
(* the position of a block in it.                                          *)
(***************************************************************************)
DfsList(bs, targets, st) ==
  IF targets = <<>> THEN st
  ELSE LET t == Head(targets)
           b == st.at
           after == IF t \in ToSet(st.pre) THEN st
                    ELSE [DfsFrom(bs, t, [st EXCEPT !.parent = @ @@ (t :> b)]) EXCEPT !.at = b]
       IN  DfsList(bs, Tail(targets), after)
DfsFrom(bs, b, st) == DfsList(bs, bs[b].next, [st EXCEPT !.pre = Append(@, b), !.at = b])

get_dfs_tree(bs) == DfsFrom(bs, 0, [pre |-> <<>>, parent |-> <<>>, at |-> 0])

Number(tree, b) == CHOOSE k \in DOMAIN tree.pre : tree.pre[k] = b

\* The blocks from b up to, but without, the first at which the walk stops.
PathUp(tree, b, stop(_)) ==
  LET up[k \in 0..Len(tree.pre)] ==
        IF k = 0 THEN {b}
        ELSE LET s == up[k - 1]
             IN  s \union {tree.parent[x] : x \in {y \in s : ~stop(y) /\ y \in DOMAIN tree.parent}}
  IN  {x \in up[Len(tree.pre)] : ~stop(x)}

LeastBlock(tree, S) == CHOOSE b \in S : \A c \in S : Number(tree, b) <= Number(tree, c)

(***************************************************************************)
(* The semidominator of every block, in reverse preorder: the least of its *)
(* earlier predecessors and of the semidominators on the way up from the   *)
(* later ones.  The forest F of the code ends that way at the first block  *)
(* that has not been treated yet.                                          *)
(***************************************************************************)
Semidominators(bs, tree) ==
  LET n == Len(tree.pre)
      semi[k \in 2..(n + 1)] ==
        IF k = n + 1 THEN <<>>
        ELSE LET later == semi[k + 1]
                 i == tree.pre[k]
                 before == {p \in Prev(bs, i) : Number(tree, p) < k}
                 after == {p \in Prev(bs, i) : Number(tree, p) > k}
                 Untreated(x) == Number(tree, x) <= k
             IN  later @@ (i :> LeastBlock(tree, before \union UNION
                    {{later[x] : x \in PathUp(tree, p, Untreated)} : p \in after}))
  IN  semi[2]

\* The block of the walk from w to its semidominator that comes first in preorder.
RelativeDominator(tree, semi, w) ==
  IF semi[w] = 0 THEN 0
  ELSE LeastBlock(tree, PathUp(tree, w, LAMBDA x : x = semi[w]))

\* The immediate dominators, in preorder.
ImmediateDominators(bs, tree, semi) ==
  LET n == Len(tree.pre)
      idom[k \in 1..n] ==
        IF k = 1 THEN (0 :> 0)
        ELSE LET known == idom[k - 1]
                 i == tree.pre[k]
                 rel == RelativeDominator(tree, semi, i)
             IN  known @@ (i :> IF i = rel THEN semi[i] ELSE known[rel])
  IN  idom[n]

\* Pre- and postorder of the dominator tree, on one clock.
IdomList(children, list, st) ==
  IF list = <<>> THEN st
  ELSE IdomList(children, Tail(list), IdomFrom(children, Head(list), st))
PostBeforeChildren(children, b, st) ==
  LET entered == [st EXCEPT !.pre = @ @@ (b :> st.clock), !.post = @ @@ (b :> st.clock + 1), !.clock = @ + 2]
  IN  IdomList(children, children[b], entered)
IdomFrom(children, b, st) ==
  LET entered == [st EXCEPT !.pre = @ @@ (b :> st.clock), !.clock = @ + 1]
      inside == IdomList(children, children[b], entered)
  IN  [inside EXCEPT !.post = @ @@ (b :> inside.clock), !.clock = @ + 1]

idom_dfs(bs, idom) ==
  LET children == [b \in DOMAIN bs |->
                     Sorted({c \in DOMAIN bs \ {0} : idom[c] = b})]
  IN  IdomFrom(children, 0, [pre |-> <<>>, post |-> <<>>, clock |-> 1])

compute_dominator_tree(bs) ==
  LET tree == get_dfs_tree(bs)
      semi == Semidominators(bs, tree)
      idom == ImmediateDominators(bs, tree, semi)
  IN  [semidom |-> semi, idom |-> idom, order |-> idom_dfs(bs, idom)]

query_dominance(dt, dominator, dominated) ==
  dt.order.pre[dominator] <= dt.order.pre[dominated] /\ dt.order.post[dominator] >= dt.order.post[dominated]

----------------------------------------------------------------------------
(***************************************************************************)
(* attempt_reduce_cfg: edges to a dominator are back edges; without them   *)
(* the graph must have no cycle.                                           *)
(***************************************************************************)
IsBackedge(dt, b, next) == query_dominance(dt, next, b)
LoopHeaders(bs, dt) == {h \in DOMAIN bs : \E b \in Prev(bs, h) : IsBackedge(dt, b, h)}

CycleList(g, list, st) ==
  IF list = <<>> \/ st.found THEN st ELSE CycleList(g, Tail(list), FindsCycle(g, Head(list), st))
FindsCycle(g, b, st) ==
  IF b \in st.open THEN [st EXCEPT !.found = TRUE]
  ELSE IF b \in st.closed THEN st
  ELSE LET inside == CycleList(g, g[b], [st EXCEPT !.open = @ \union {b}])
       IN  [inside EXCEPT !.open = @ \ {b}, !.closed = @ \union {b}]

NeverACycle(bs, dt) == FALSE
forward_edges_form_a_cycle(bs, dt) ==
  LET forward == [b \in DOMAIN bs |-> SelectSeq(bs[b].next, LAMBDA t : ~IsBackedge(dt, b, t))]
  IN  FindsCycle(forward, 0, [open |-> {}, closed |-> {}, found |-> FALSE]).found

attempt_reduce_cfg(bs, dt) == [reducible |-> ~forward_edges_form_a_cycle(bs, dt), headers |-> LoopHeaders(bs, dt)]

=============================================================================
