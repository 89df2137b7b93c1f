---------------------------- MODULE LinkageProofs ----------------------------
(***************************************************************************)
(* Proofs about link_class in Linkage, for every set of class hierarchies  *)
(* and every order in which classes are linked and arrays are made.        *)
(***************************************************************************)
EXTENDS Linkage, SequenceTheorems, WellFoundedInduction, TLAPS

Classes == DOMAIN world.super
Ordinary == Classes \ DOMAIN world.comp
Over(c) == Supertypes(world, c)
States == {"LOADED", "LINKED", "LINKAGE_ERROR"}
Frames == [c : Classes, at : {"enter", "super", "interfaces", "array"}, k : Nat]

TypeOK ==
  /\ world \in Worlds
  /\ Ordinary \subseteq made /\ made \subseteq Classes
  /\ state \in [Classes -> States]
  /\ hier \in [Classes -> Seq(Classes)]
  /\ layout = [c \in Classes |-> layout[c]]
  /\ todo \in Seq(Frames)
  /\ status \in {0, 1} /\ asked \in Classes \union {NoClass} /\ crashed \in BOOLEAN

(* What is LINKED is LINKED for good; what arrays extend is; and what is *)
(* directly above a class that is linked has been tried.                 *)
LinkedSound(st, lay) ==
  /\ \A c \in Range(world.start) : st[c] = "LINKED"
  /\ \A c \in Ordinary : st[c] = "LINKED" => \A s \in Above(world, c) : st[s] # "LOADED"
  /\ \A c \in Classes : lay[c] # NoLayout => c \in Ordinary /\ st[c] = "LINKED"

(* The class that a call in progress is waiting for. *)
Callee(f) ==
  CASE f.at = "super" -> world.super[f.c]
    [] f.at = "interfaces" -> world.ifaces[f.c][f.k]
    [] f.at = "array" -> base_component(world, f.c)
    [] OTHER -> NoClass

(* The superclass has been linked or has failed, and so have the first k   *)
(* superinterfaces, but for the one that is being called.                  *)
SuperPassed(st, f) == world.super[f.c] # NoClass => st[world.super[f.c]] # "LOADED"
Passed(st, hi, f, top) ==
  /\ f.at = "super" /\ top => SuperPassed(st, f)
  /\ f.at = "interfaces" =>
       /\ hi[f.c] # <<>> /\ SuperPassed(st, f) /\ f.k <= Len(world.ifaces[f.c])
       /\ \A j \in 1..f.k : j < f.k \/ top => st[world.ifaces[f.c][j]] # "LOADED"

(* An array is the class of the outermost call only, and the two calls it  *)
(* makes before that of its base component are for classes linked already. *)
FrameSound(st, hi, s, f, top, bottom) ==
  /\ f.at = "enter" => top /\ f.k = 0 /\ s = 0 /\ (bottom => st[f.c] = "LOADED")
  /\ f.at = "super" => f.k = 0
  /\ f.at \in {"super", "interfaces"} => st[f.c] = "LOADED" /\ (top /\ s # 0 => ~IsArray(world, f.c))
  /\ f.at = "array" => IsArray(world, f.c)
  /\ ~bottom => ~IsArray(world, f.c)
  /\ Passed(st, hi, f, top)

(* Every class on the stack is one above the class the outermost call is   *)
(* for, or above its base component.                                       *)
Reached(f, b, bottom) ==
  /\ ~IsArray(world, b.c) => f.c \in Over(b.c)
  /\ IsArray(world, b.c) /\ b.at = "array" /\ ~bottom => f.c \in Over(base_component(world, b.c))

StackSound(st, hi, s, td) ==
  /\ \A i \in 1..Len(td) : FrameSound(st, hi, s, td[i], i = 1, i = Len(td))
  /\ \A i \in 1..Len(td) : i # 1 => td[i - 1].c = Callee(td[i]) /\ (td[i].at = "interfaces" => td[i].k > 0)
  /\ \A i \in 1..Len(td) : Reached(td[i], td[Len(td)], i = Len(td))
  /\ \A i, j \in 1..Len(td) : i < j => td[j].c \notin Over(td[i].c)

(* b failed analysis, and no class is linked over it but across another    *)
(* failure.                                                                *)
Blamed(st, b) ==
  /\ b \in world.bad /\ st[b] = "LINKAGE_ERROR"
  /\ \A d \in Ordinary : st[d] = "LINKED" /\ b \in Over(d) =>
       \E e \in Over(d) \ {b} : st[e] = "LINKAGE_ERROR" /\ b \in Over(e)

(* What the outermost call will answer, and why. *)
Outcome(st, hi, s, td, a, cr, mk) ==
  /\ a # NoClass => a \in mk
  /\ td # <<>> => a = td[Len(td)].c /\ ~cr
  /\ s # 0 /\ a # NoClass /\ ~cr => \E b \in Over(Analysed(world, a)) : Blamed(st, b)
  /\ td = <<>> /\ ~cr /\ a # NoClass =>
       /\ s = 0 => st[a] = "LINKED" /\ hi[a] # <<>>
       /\ s # 0 => st[a] = "LINKAGE_ERROR"

(* The inductive invariant. *)
IInv ==
  /\ TypeOK
  /\ LinkedSound(state, layout)
  /\ StackSound(state, hier, status, todo)
  /\ Outcome(state, hier, status, todo, asked, crashed, made)

-----------------------------------------------------------------------------
(***************************************************************************)
(* A hierarchy: what is above a class.                                     *)
(***************************************************************************)
Up(w, f) ==
  f = [d \in DOMAIN w.super |->
        {d} \union (IF w.super[d] = NoClass THEN {} ELSE f[w.super[d]])
            \union UNION {f[w.ifaces[d][i]] : i \in DOMAIN w.ifaces[d]}]

(* The recursive function of Supertypes is the least sets closed upwards. *)
LEMMA AboveIs ==
  ASSUME NEW w \in Worlds, NEW d \in DOMAIN w.super
  PROVE  /\ Above(w, d) \subseteq DOMAIN w.super
         /\ w.super[d] # NoClass => w.super[d] \in Above(w, d)
         /\ \A i \in DOMAIN w.ifaces[d] : w.ifaces[d][i] \in Above(w, d)
         /\ \A s \in Above(w, d) : (s = w.super[d] /\ s # NoClass) \/ \E i \in DOMAIN w.ifaces[d] : s = w.ifaces[d][i]
<1>1. w.super[d] \in DOMAIN w.super \union {NoClass} /\ w.ifaces[d] \in Seq(DOMAIN w.super)
  <2>1. /\ w.super \in [DOMAIN w.super -> DOMAIN w.super \union {NoClass}]
        /\ w.ifaces \in [DOMAIN w.super -> Seq(DOMAIN w.super)]
    BY Zenon, HierarchyAssumption
  <2> QED  BY <2>1
<1>2. \A i \in DOMAIN w.ifaces[d] : w.ifaces[d][i] \in DOMAIN w.super
  BY <1>1
<1> QED  BY <1>1, <1>2 DEF Above, Range

LEMMA UpExists == ASSUME NEW w \in Worlds  PROVE \E f : Up(w, f)
<1> DEFINE C == DOMAIN w.super
           Closed(S) == \A c \in S : Above(w, c) \subseteq S
           Least(d) == {c \in C : \A S \in SUBSET C : d \in S /\ Closed(S) => c \in S}
           g == [d \in C |-> Least(d)]
           Here(d) == {d} \union (IF w.super[d] = NoClass THEN {} ELSE g[w.super[d]])
                          \union UNION {g[w.ifaces[d][i]] : i \in DOMAIN w.ifaces[d]}
<1>1. ASSUME NEW d \in C  PROVE d \in Least(d) /\ Closed(Least(d)) /\ Least(d) \subseteq C
  <2>1. d \in Least(d)
    OBVIOUS
  <2>2. ASSUME NEW c \in Least(d), NEW s \in Above(w, c)  PROVE s \in Least(d)
    <3>1. s \in C
      BY AboveIs
    <3>2. \A S \in SUBSET C : d \in S /\ Closed(S) => s \in S
      OBVIOUS
    <3> QED  BY <3>1, <3>2
  <2> QED  BY <2>1, <2>2
<1>2. ASSUME NEW d \in C, NEW s \in Above(w, d)  PROVE s \in C /\ g[s] = Least(s) /\ g[s] \subseteq Least(d)
  <2>1. s \in C
    BY AboveIs
  <2>2. \A S \in SUBSET C : d \in S /\ Closed(S) => s \in S
    OBVIOUS
  <2> QED  BY <2>1, <2>2
<1>3. ASSUME NEW d \in C  PROVE Here(d) = {d} \union UNION {g[s] : s \in Above(w, d)}
  <2>1. w.super[d] # NoClass => w.super[d] \in Above(w, d)
    BY AboveIs
  <2>2. \A i \in DOMAIN w.ifaces[d] : w.ifaces[d][i] \in Above(w, d)
    BY AboveIs
  <2>3. \A s \in Above(w, d) : (s = w.super[d] /\ s # NoClass) \/ \E i \in DOMAIN w.ifaces[d] : s = w.ifaces[d][i]
    BY AboveIs
  <2> HIDE DEF g
  <2>4. Here(d) \subseteq {d} \union UNION {g[s] : s \in Above(w, d)}
    BY <2>1, <2>2
  <2>5. {d} \union UNION {g[s] : s \in Above(w, d)} \subseteq Here(d)
    BY <2>3
  <2> HIDE DEF Here
  <2> QED  BY <2>4, <2>5
<1>4. ASSUME NEW d \in C  PROVE g[d] = Here(d)
  <2> DEFINE S == {d} \union UNION {g[s] : s \in Above(w, d)}
  <2>1. S \subseteq Least(d)
    <3> HIDE DEF g
    <3> QED  BY <1>1, <1>2
  <2>2. d \in S /\ S \subseteq C
    <3> HIDE DEF g
    <3>1. \A s \in Above(w, d) : g[s] \subseteq C
      BY <1>1, <1>2
    <3> QED  BY <3>1
  <2>3. \A s \in Above(w, d) : s \in g[s] /\ Closed(g[s])
    <3> HIDE DEF Least, g
    <3> QED  BY <1>1, <1>2
  <2>4. ASSUME NEW c \in S  PROVE Above(w, c) \subseteq S
    <3> HIDE DEF g
    <3>1. CASE c = d
      BY <2>3, <3>1
    <3>2. CASE c # d
      <4>1. PICK s \in Above(w, d) : c \in g[s]
        BY <3>2
      <4>2. Above(w, c) \subseteq g[s]
        BY <2>3, <4>1
      <4> QED  BY <4>2
    <3> QED  BY <3>1, <3>2
  <2>5. Closed(S)
    BY <2>4
  <2>6. Least(d) \subseteq S
    <3> HIDE DEF S
    <3> QED  BY <2>2, <2>5
  <2>7. g[d] = Least(d)
    OBVIOUS
  <2> HIDE DEF g, Least
  <2>8. Here(d) = S
    BY <1>3
  <2> HIDE DEF S, Here
  <2> QED  BY <2>1, <2>6, <2>7, <2>8
<1>5. g = [d \in C |-> Here(d)]
  <2> HIDE DEF Least
  <2>1. g = [d \in C |-> g[d]]
    OBVIOUS
  <2> HIDE DEF g, Here
  <2> QED  BY <1>4, <2>1
<1> HIDE DEF g
<1> QED  BY <1>5 DEF Up

(* A class, what it extends, and what that extends. *)
LEMMA SupertypesAre ==
  ASSUME NEW w \in Worlds, NEW d \in DOMAIN w.super
  PROVE  Supertypes(w, d) = {d} \union UNION {Supertypes(w, s) : s \in Above(w, d)}
<1> DEFINE f == CHOOSE g : Up(w, g)
<1>1. Up(w, f)
  BY UpExists
<1>2. \A c : Supertypes(w, c) = f[c]
  BY DEF Supertypes, Up
<1> HIDE DEF f
<1>3. f[d] = {d} \union (IF w.super[d] = NoClass THEN {} ELSE f[w.super[d]])
                \union UNION {f[w.ifaces[d][i]] : i \in DOMAIN w.ifaces[d]}
  BY <1>1 DEF Up
<1>4. f[d] = {d} \union UNION {f[s] : s \in Above(w, d)}
  <2>1. f[d] \subseteq {d} \union UNION {f[s] : s \in Above(w, d)}
    BY <1>3, AboveIs
  <2>2. {d} \union UNION {f[s] : s \in Above(w, d)} \subseteq f[d]
    <3>1. ASSUME NEW s \in Above(w, d)  PROVE f[s] \subseteq f[d]
      BY <1>3, AboveIs
    <3>2. d \in f[d]
      BY <1>3
    <3> QED  BY <3>1, <3>2
  <2> QED  BY <2>1, <2>2
<1> QED  BY <1>2, <1>4

LEMMA OverIs ==
  ASSUME TypeOK, NEW d \in Classes
  PROVE  /\ d \in Over(d)
         /\ \A s \in Above(world, d) : s \in Classes /\ s \in Over(s) /\ Over(s) \subseteq Over(d)
         /\ \A b \in Over(d) : b # d => \E s \in Above(world, d) : b \in Over(s)
<1>1. world \in Worlds
  BY DEF TypeOK
<1>2. Above(world, d) \subseteq DOMAIN world.super
  BY <1>1, AboveIs DEF Classes
<1> QED  BY <1>1, <1>2, SupertypesAre DEF Classes, Over

(* Induction from the top of a hierarchy. *)
LEMMA FromTheTop ==
  ASSUME TypeOK, NEW P,
         \A c \in Classes : (\A s \in Above(world, c) : s \in P) => c \in P
  PROVE  Classes \subseteq P
<1> DEFINE S == {c \in Classes : c \notin P}
<1> SUFFICES ASSUME S # {}  PROVE FALSE
  OBVIOUS
<1>1. world \in Worlds
  BY DEF TypeOK
<1>2. \E c \in S : Above(world, c) \intersect S = {}
  <2>1. \A T \in SUBSET DOMAIN world.super : T # {} => \E c \in T : Above(world, c) \intersect T = {}
    BY Zenon, <1>1, HierarchyAssumption
  <2>2. S \in SUBSET DOMAIN world.super
    BY DEF Classes
  <2> HIDE DEF S
  <2> QED  BY <2>1, <2>2
<1>3. PICK c \in S : Above(world, c) \intersect S = {}
  BY <1>2
<1>4. Above(world, c) \subseteq Classes
  BY <1>1, AboveIs DEF Classes
<1> QED  BY <1>3, <1>4

(* What is over a class is closed, and has no array in it if the class is none. *)
LEMMA OverClosed ==
  ASSUME TypeOK, NEW d \in Classes
  PROVE  /\ Over(d) \subseteq Classes
         /\ \A c \in Over(d) : Above(world, c) \subseteq Over(d)
         /\ d \in Ordinary => Over(d) \subseteq Ordinary
<1> DEFINE P == {c \in Classes : /\ Over(c) \subseteq Classes
                                 /\ \A x \in Over(c) : Above(world, x) \subseteq Over(c)
                                 /\ c \in Ordinary => Over(c) \subseteq Ordinary}
<1>1. ASSUME NEW c \in Classes, \A s \in Above(world, c) : s \in P  PROVE c \in P
  <2>1. \A s \in Above(world, c) : s \in Classes /\ s \in Over(s) /\ Over(s) \subseteq Over(c)
    BY OverIs
  <2>2. \A b \in Over(c) : b # c => \E s \in Above(world, c) : b \in Over(s)
    BY OverIs
  <2>3. \A s \in Above(world, c) : s \in Ordinary
    <3>1. world \in Worlds
      BY DEF TypeOK
    <3>2. Above(world, c) \intersect DOMAIN world.comp = {}
      BY <3>1, HierarchyAssumption DEF Classes
    <3> QED  BY <2>1, <3>2 DEF Ordinary
  <2>4. Over(c) \subseteq Classes
    BY <1>1, <2>2
  <2>5. ASSUME NEW x \in Over(c)  PROVE Above(world, x) \subseteq Over(c)
    BY <1>1, <2>1, <2>2
  <2>6. c \in Ordinary => Over(c) \subseteq Ordinary
    BY <1>1, <2>2, <2>3
  <2> QED  BY <2>4, <2>5, <2>6
<1> HIDE DEF P
<1>2. Classes \subseteq P
  BY <1>1, FromTheTop
<1>3. d \in P
  BY <1>2
<1> QED  BY <1>3 DEF P

(* The base component of an array is no array. *)
LEMMA BaseIs ==
  ASSUME TypeOK, NEW a \in Classes, IsArray(world, a)
  PROVE  /\ base_component(world, a) \in Ordinary
         /\ a \in ArraysOver(world, base_component(world, a))
<1>1. world \in Worlds
  BY DEF TypeOK
<1>2. /\ world.comp \in [DOMAIN world.comp -> DOMAIN world.super]
      /\ \A x \in DOMAIN world.comp : world.comp[x] \in DOMAIN world.comp => world.comp[world.comp[x]] \notin DOMAIN world.comp
  BY <1>1, HierarchyAssumption
<1> QED  BY <1>2 DEF IsArray, base_component, ArraysOver, Ordinary, Classes

(* Nothing a class extends is an array; what an array extends is linked from the start. *)
LEMMA AboveOrdinary ==
  ASSUME TypeOK, NEW c \in Classes
  PROVE  /\ Above(world, c) \subseteq Ordinary
         /\ IsArray(world, c) \/ c \in Range(world.start) => Above(world, c) \subseteq Range(world.start)
         /\ Range(world.start) \subseteq Ordinary
<1>1. world \in Worlds
  BY DEF TypeOK
<1>2. Above(world, c) \subseteq Classes
  BY <1>1, AboveIs DEF Classes
<1>3. /\ Above(world, c) \intersect DOMAIN world.comp = {}
      /\ \A x \in DOMAIN world.comp \union Range(world.start) : Above(world, x) \subseteq Range(world.start)
      /\ world.start \in Seq(Classes \ DOMAIN world.comp)
  BY Zenon, <1>1, HierarchyAssumption DEF Classes
<1> QED  BY <1>2, <1>3 DEF Ordinary, Classes, Range, IsArray

-----------------------------------------------------------------------------
(***************************************************************************)
(* What the classes linked at the start have.                              *)
(***************************************************************************)
LEMMA NatIn ==
  ASSUME NEW P, 0 \in P, \A k \in Nat : k \in P => k + 1 \in P
  PROVE  Nat \subseteq P
<1> DEFINE S == {k \in Nat : k \notin P}
           R == {ss \in Nat \X Nat : ss[1] < ss[2]}
<1> SUFFICES ASSUME S # {}  PROVE FALSE
  OBVIOUS
<1>1. IsWellFoundedOn(R, Nat)
  BY NatLessThanWellFounded DEF OpToRel
<1>2. PICK x \in S : \A k \in S : ~(<<k, x>> \in R)
  BY <1>1, WFMin
<1>3. x \in Nat /\ x # 0
  BY <1>2
<1>4. x - 1 \in Nat /\ x - 1 < x /\ (x - 1) + 1 = x
  BY <1>3
<1>5. <<x - 1, x>> \in R
  BY <1>3, <1>4
<1>6. x - 1 \in P
  BY <1>2, <1>4, <1>5
<1> QED  BY <1>2, <1>4, <1>6

HierarchyAfter(w, f, n) ==
  f = [k \in 0..n |->
        IF k = 0 THEN [c \in DOMAIN w.super |-> <<>>]
        ELSE [f[k - 1] EXCEPT ![w.start[k]] = setup_super_hierarchy(w, f[k - 1], w.start[k])]]
LayoutAfter(w, f, n) ==
  f = [k \in 0..n |->
        IF k = 0 THEN [c \in DOMAIN w.super |-> NoLayout]
        ELSE [f[k - 1] EXCEPT ![w.start[k]] = LayoutOf(w, f[k - 1], w.start[k])]]

LEMMA HierarchyExists == ASSUME NEW w, NEW n \in Nat  PROVE \E f : HierarchyAfter(w, f, n)
<1> DEFINE None == [c \in DOMAIN w.super |-> <<>>]
           Then(h, k) == [h EXCEPT ![w.start[k]] = setup_super_hierarchy(w, h, w.start[k])]
           P == {k \in Nat : \E f : HierarchyAfter(w, f, k)}
<1>1. 0 \in P
  <2> DEFINE g == [k \in 0..0 |-> None]
  <2>1. g = [k \in 0..0 |-> IF k = 0 THEN None ELSE Then(g[k - 1], k)]
    <3> HIDE DEF None, Then
    <3> QED  OBVIOUS
  <2>2. HierarchyAfter(w, g, 0)
    BY <2>1 DEF HierarchyAfter
  <2> HIDE DEF g
  <2> QED  BY <2>2
<1>2. ASSUME NEW k \in Nat, k \in P  PROVE k + 1 \in P
  <2>1. PICK f : HierarchyAfter(w, f, k)
    BY <1>2
  <2> DEFINE g == [i \in 0..k + 1 |-> IF i \in 0..k THEN f[i] ELSE Then(f[k], i)]
  <2>2. f = [i \in 0..k |-> IF i = 0 THEN None ELSE Then(f[i - 1], i)]
    BY <2>1 DEF HierarchyAfter
  <2>3. g = [i \in 0..k + 1 |-> IF i = 0 THEN None ELSE Then(g[i - 1], i)]
    <3> HIDE DEF None, Then
    <3>1. ASSUME NEW i \in 0..k + 1  PROVE g[i] = IF i = 0 THEN None ELSE Then(g[i - 1], i)
      <4>1. CASE i = 0
        BY <2>2, <4>1
      <4>2. CASE i # 0 /\ i # k + 1
        <5>1. i \in 0..k /\ i - 1 \in 0..k /\ i - 1 \in 0..k + 1
          BY <4>2
        <5>2. g[i] = f[i] /\ g[i - 1] = f[i - 1]
          BY <5>1
        <5> QED  BY <2>2, <4>2, <5>1, <5>2
      <4>3. CASE i = k + 1
        <5>1. i # 0 /\ i \notin 0..k /\ i - 1 = k /\ k \in 0..k /\ k \in 0..k + 1
          BY <4>3
        <5>2. g[k] = f[k]
          BY <5>1
        <5> QED  BY <5>1, <5>2
      <4> QED  BY <4>1, <4>2, <4>3
    <3>2. g = [i \in 0..k + 1 |-> g[i]]
      OBVIOUS
    <3> HIDE DEF g
    <3> QED  BY <3>1, <3>2
  <2> HIDE DEF g
  <2>4. HierarchyAfter(w, g, k + 1)
    BY <2>3 DEF HierarchyAfter
  <2> QED  BY <2>4
<1> HIDE DEF P
<1>3. Nat \subseteq P
  BY <1>1, <1>2, NatIn
<1> QED  BY <1>3 DEF P

LEMMA StartHierIs ==
  ASSUME NEW w \in Worlds
  PROVE  StartHier(w) \in [DOMAIN w.super -> Seq(DOMAIN w.super)]
<1> DEFINE C == DOMAIN w.super
           N == Len(w.start)
           f == CHOOSE g : HierarchyAfter(w, g, N)
<1>1. /\ w.start \in Seq(C)
      /\ w.super \in [C -> C \union {NoClass}]
  <2>1. /\ w.start \in Seq(C \ DOMAIN w.comp)
        /\ w.super \in [C -> C \union {NoClass}]
    BY Zenon, HierarchyAssumption
  <2> QED  BY <2>1
<1>2. N \in Nat
  BY <1>1
<1>3. HierarchyAfter(w, f, N)
  BY <1>2, HierarchyExists
<1>4. StartHier(w) = f[N]
  BY DEF StartHier, InTurn, HierarchyAfter
<1> HIDE DEF f
<1> DEFINE P == {k \in Nat : k <= N => f[k] \in [C -> Seq(C)]}
<1>5. 0 \in P
  BY <1>2, <1>3 DEF HierarchyAfter
<1>6. ASSUME NEW k \in Nat, k \in P  PROVE k + 1 \in P
  <2> SUFFICES ASSUME k + 1 <= N  PROVE f[k + 1] \in [C -> Seq(C)]
    OBVIOUS
  <2>1. k + 1 \in 0..N /\ k + 1 # 0 /\ (k + 1) - 1 = k /\ k <= N
    BY <1>2
  <2>2. f[k] \in [C -> Seq(C)] /\ w.start[k + 1] \in C
    BY <1>1, <1>6, <2>1
  <2>3. f[k + 1] = [f[k] EXCEPT ![w.start[k + 1]] = setup_super_hierarchy(w, f[k], w.start[k + 1])]
    BY <1>3, <2>1 DEF HierarchyAfter
  <2> HIDE DEF N
  <2>4. setup_super_hierarchy(w, f[k], w.start[k + 1]) \in Seq(C)
    <3>1. CASE w.super[w.start[k + 1]] = NoClass
      <4>1. setup_super_hierarchy(w, f[k], w.start[k + 1]) = <<w.start[k + 1]>>
        BY <3>1 DEF setup_super_hierarchy
      <4>2. ASSUME NEW c \in C  PROVE <<c>> \in Seq(C)
        OBVIOUS
      <4> QED  BY <2>2, <4>1, <4>2
    <3>2. CASE w.super[w.start[k + 1]] # NoClass
      <4>1. w.super[w.start[k + 1]] \in C
        BY <1>1, <2>2, <3>2
      <4>2. f[k][w.super[w.start[k + 1]]] \in Seq(C)
        BY <2>2, <4>1
      <4> QED  BY <2>2, <3>2, <4>2, AppendProperties DEF setup_super_hierarchy
    <3> QED  BY <3>1, <3>2
  <2> QED  BY <2>2, <2>3, <2>4
<1> HIDE DEF P, N
<1>7. Nat \subseteq P
  BY <1>5, <1>6, NatIn
<1>8. N \in P
  BY <1>2, <1>7
<1> QED  BY <1>2, <1>4, <1>8 DEF P

LEMMA LayoutExists == ASSUME NEW w, NEW n \in Nat  PROVE \E f : LayoutAfter(w, f, n)
<1> DEFINE None == [c \in DOMAIN w.super |-> NoLayout]
           Then(h, k) == [h EXCEPT ![w.start[k]] = LayoutOf(w, h, w.start[k])]
           P == {k \in Nat : \E f : LayoutAfter(w, f, k)}
<1>1. 0 \in P
  <2> DEFINE g == [k \in 0..0 |-> None]
  <2>1. g = [k \in 0..0 |-> IF k = 0 THEN None ELSE Then(g[k - 1], k)]
    <3> HIDE DEF None, Then
    <3> QED  OBVIOUS
  <2>2. LayoutAfter(w, g, 0)
    BY <2>1 DEF LayoutAfter
  <2> HIDE DEF g
  <2> QED  BY <2>2
<1>2. ASSUME NEW k \in Nat, k \in P  PROVE k + 1 \in P
  <2>1. PICK f : LayoutAfter(w, f, k)
    BY <1>2
  <2> DEFINE g == [i \in 0..k + 1 |-> IF i \in 0..k THEN f[i] ELSE Then(f[k], i)]
  <2>2. f = [i \in 0..k |-> IF i = 0 THEN None ELSE Then(f[i - 1], i)]
    BY <2>1 DEF LayoutAfter
  <2>3. g = [i \in 0..k + 1 |-> IF i = 0 THEN None ELSE Then(g[i - 1], i)]
    <3> HIDE DEF None, Then
    <3>1. ASSUME NEW i \in 0..k + 1  PROVE g[i] = IF i = 0 THEN None ELSE Then(g[i - 1], i)
      <4>1. CASE i = 0
        BY <2>2, <4>1
      <4>2. CASE i # 0 /\ i # k + 1
        <5>1. i \in 0..k /\ i - 1 \in 0..k /\ i - 1 \in 0..k + 1
          BY <4>2
        <5>2. g[i] = f[i] /\ g[i - 1] = f[i - 1]
          BY <5>1
        <5> QED  BY <2>2, <4>2, <5>1, <5>2
      <4>3. CASE i = k + 1
        <5>1. i # 0 /\ i \notin 0..k /\ i - 1 = k /\ k \in 0..k /\ k \in 0..k + 1
          BY <4>3
        <5>2. g[k] = f[k]
          BY <5>1
        <5> QED  BY <5>1, <5>2
      <4> QED  BY <4>1, <4>2, <4>3
    <3>2. g = [i \in 0..k + 1 |-> g[i]]
      OBVIOUS
    <3> HIDE DEF g
    <3> QED  BY <3>1, <3>2
  <2> HIDE DEF g
  <2>4. LayoutAfter(w, g, k + 1)
    BY <2>3 DEF LayoutAfter
  <2> QED  BY <2>4
<1> HIDE DEF P
<1>3. Nat \subseteq P
  BY <1>1, <1>2, NatIn
<1> QED  BY <1>3 DEF P

LEMMA StartLayoutIs ==
  ASSUME NEW w \in Worlds
  PROVE  /\ StartLayout(w) = [c \in DOMAIN w.super |-> StartLayout(w)[c]]
         /\ \A c \in DOMAIN w.super : StartLayout(w)[c] # NoLayout => c \in Range(w.start)
<1> DEFINE C == DOMAIN w.super
           N == Len(w.start)
           f == CHOOSE g : LayoutAfter(w, g, N)
           Good(l) == l = [c \in C |-> l[c]] /\ \A c \in C : l[c] # NoLayout => c \in Range(w.start)
<1>1. w.start \in Seq(C)
  <2>1. w.start \in Seq(C \ DOMAIN w.comp)
    BY Zenon, HierarchyAssumption
  <2> QED  BY <2>1
<1>2. N \in Nat
  BY <1>1
<1>3. LayoutAfter(w, f, N)
  BY <1>2, LayoutExists
<1>4. StartLayout(w) = f[N]
  BY DEF StartLayout, InTurn, LayoutAfter
<1> HIDE DEF f
<1> DEFINE P == {k \in Nat : k <= N => Good(f[k])}
<1>5. 0 \in P
  BY <1>2, <1>3 DEF LayoutAfter
<1>6. ASSUME NEW k \in Nat, k \in P  PROVE k + 1 \in P
  <2> SUFFICES ASSUME k + 1 <= N  PROVE Good(f[k + 1])
    OBVIOUS
  <2>1. k + 1 \in 0..N /\ k + 1 # 0 /\ (k + 1) - 1 = k /\ k <= N
    BY <1>2
  <2>2. Good(f[k])
    BY <1>6, <2>1
  <2>3. w.start[k + 1] \in Range(w.start)
    BY <1>1, <2>1 DEF Range
  <2>4. f[k + 1] = [f[k] EXCEPT ![w.start[k + 1]] = LayoutOf(w, f[k], w.start[k + 1])]
    BY <1>3, <2>1 DEF LayoutAfter
  <2> HIDE DEF N
  <2> QED  BY <2>2, <2>3, <2>4
<1> HIDE DEF P, N, Good
<1>7. Nat \subseteq P
  BY <1>5, <1>6, NatIn
<1>8. N \in P
  BY <1>2, <1>7
<1>9. Good(f[N])
  BY <1>2, <1>8 DEF P
<1> QED  BY <1>4, <1>9 DEF Good

LEMMA InitIInv == Init => IInv
<1> SUFFICES ASSUME Init  PROVE IInv
  OBVIOUS
<1>1. world \in Worlds
  BY DEF Init
<1>2. /\ NoClass \notin Classes
      /\ DOMAIN world.comp \subseteq Classes
      /\ world.start \in Seq(Classes \ DOMAIN world.comp)
      /\ \A c \in DOMAIN world.comp \union Range(world.start) : Above(world, c) \subseteq Range(world.start)
  BY Zenon, <1>1, HierarchyAssumption DEF Classes
<1>3. TypeOK
  <2>1. hier \in [Classes -> Seq(Classes)]
    BY <1>1, StartHierIs DEF Init, Classes
  <2>2. layout = [c \in Classes |-> layout[c]]
    BY <1>1, StartLayoutIs DEF Init, Classes
  <2>3. state \in [Classes -> States] /\ todo \in Seq(Frames)
    BY DEF Init, Classes, States
  <2> QED  BY <1>1, <2>1, <2>2, <2>3 DEF Init, TypeOK, Ordinary, Classes
<1>4. LinkedSound(state, layout)
  <2>1. Range(world.start) \subseteq Ordinary
    BY <1>2 DEF Ordinary, Range
  <2>2. \A c \in Classes : state[c] = IF c \in Range(world.start) THEN "LINKED" ELSE "LOADED"
    BY DEF Init, Classes
  <2>3. \A c \in Classes : layout[c] # NoLayout => c \in Range(world.start)
    BY <1>1, StartLayoutIs DEF Init, Classes
  <2> QED  BY <1>2, <2>1, <2>2, <2>3 DEF LinkedSound, Ordinary
<1>5. StackSound(state, hier, status, todo)
  BY DEF Init, StackSound
<1>6. Outcome(state, hier, status, todo, asked, crashed, made)
  BY DEF Init, Outcome
<1> QED  BY <1>3, <1>4, <1>5, <1>6 DEF IInv


-----------------------------------------------------------------------------
(***************************************************************************)
(* States, and who is to blame for a failure.                              *)
(***************************************************************************)
(* No class is above what is above it. *)
LEMMA NotOverItself ==
  ASSUME TypeOK, NEW t \in Classes, NEW c \in Above(world, t)
  PROVE  t \notin Over(c)
<1> SUFFICES ASSUME t \in Over(c)  PROVE FALSE
  OBVIOUS
<1> DEFINE P == {x \in Classes : ~(x \in Over(t) /\ t \in Over(x))}
<1>1. c \in Classes /\ c \in Over(t)
  BY OverIs
<1>2. t \in Over(t)
  BY OverIs
<1>3. ASSUME NEW x \in Classes, \A s \in Above(world, x) : s \in P, x \in Over(t), t \in Over(x)  PROVE FALSE
  <2>1. \A s \in Above(world, x) : s \in Over(t)
    BY <1>3, OverClosed
  <2>2. CASE x = t
    BY <1>1, <1>3, <2>2
  <2>3. CASE x # t
    <3>1. PICK s \in Above(world, x) : t \in Over(s)
      BY <1>3, <2>3, OverIs
    <3> QED  BY <1>3, <2>1, <3>1
  <2> QED  BY <2>2, <2>3
<1>4. \A x \in Classes : (\A s \in Above(world, x) : s \in P) => x \in P
  BY <1>3
<1> HIDE DEF P
<1>5. Classes \subseteq P
  BY <1>4, FromTheTop
<1> QED  BY <1>1, <1>2, <1>5 DEF P

(* The state of a class that is no array changes once. *)
Later(st, st2) == \A c \in Ordinary : st[c] # "LOADED" => st2[c] = st[c]

LEMMA LinkedStep ==
  ASSUME TypeOK, NEW st, NEW st2, NEW lay, NEW lay2, LinkedSound(st, lay), Later(st, st2),
         \A c \in Ordinary : st2[c] = "LINKED" /\ st[c] = "LOADED" => \A s \in Above(world, c) : st[s] # "LOADED",
         \A c \in Classes : lay2[c] = lay[c] \/ (c \in Ordinary /\ st2[c] = "LINKED")
  PROVE  LinkedSound(st2, lay2)
<1>1. \A c \in Classes : Above(world, c) \subseteq Ordinary /\ Range(world.start) \subseteq Ordinary
  BY AboveOrdinary
<1>2. \A c \in Range(world.start) : st2[c] = "LINKED"
  <2> SUFFICES ASSUME NEW c \in Range(world.start)  PROVE st2[c] = "LINKED"
    OBVIOUS
  <2>1. c \in Ordinary
    <3>1. world \in Worlds
      BY DEF TypeOK
    <3>2. world.start \in Seq(DOMAIN world.super \ DOMAIN world.comp)
      BY Zenon, <3>1, HierarchyAssumption
    <3> QED  BY <3>2 DEF Range, Ordinary, Classes
  <2> QED  BY <2>1 DEF LinkedSound, Later
<1>3. ASSUME NEW c \in Ordinary, st2[c] = "LINKED", NEW s \in Above(world, c)  PROVE st2[s] # "LOADED"
  <2>1. s \in Ordinary
    BY <1>1 DEF Ordinary
  <2>2. st[s] # "LOADED"
    <3>1. CASE st[c] = "LOADED"
      BY <1>3, <3>1
    <3>2. CASE st[c] # "LOADED"
      BY <1>3, <3>2 DEF Later, LinkedSound
    <3> QED  BY <3>1, <3>2
  <2> QED  BY <2>1, <2>2 DEF Later
<1>4. ASSUME NEW c \in Classes, lay2[c] # NoLayout  PROVE c \in Ordinary /\ st2[c] = "LINKED"
  BY <1>4 DEF LinkedSound, Later
<1> QED  BY <1>2, <1>3, <1>4 DEF LinkedSound

(* A class that fails now: who was linked over it was linked over a class  *)
(* that had failed before.                                                 *)
LEMMA BlameFails ==
  ASSUME TypeOK, NEW st, NEW st2, NEW lay, LinkedSound(st, lay), st \in [Classes -> States],
         NEW c \in Ordinary \intersect world.bad, st[c] = "LOADED", st2[c] = "LINKAGE_ERROR",
         \A d \in Ordinary \ {c} : st2[d] = st[d]
  PROVE  Blamed(st2, c)
<1> DEFINE P == {d \in Classes : d \in Ordinary /\ st[d] = "LINKED" /\ c \in Over(d) =>
                                   \E e \in Over(d) \ {c} : st[e] = "LINKAGE_ERROR" /\ c \in Over(e)}
<1>1. ASSUME NEW d \in Classes, \A s \in Above(world, d) : s \in P, d \in Ordinary, st[d] = "LINKED", c \in Over(d)
      PROVE  \E e \in Over(d) \ {c} : st[e] = "LINKAGE_ERROR" /\ c \in Over(e)
  <2>1. PICK s \in Above(world, d) : c \in Over(s)
    BY <1>1, OverIs
  <2>2. s \in Ordinary /\ s \in Classes /\ s \in Over(s) /\ Over(s) \subseteq Over(d)
    BY OverIs, AboveOrdinary
  <2>3. st[s] # "LOADED"
    BY <1>1 DEF LinkedSound
  <2>4. CASE st[s] = "LINKAGE_ERROR"
    BY <2>1, <2>2, <2>4
  <2>5. CASE st[s] = "LINKED"
    <3>1. PICK e \in Over(s) \ {c} : st[e] = "LINKAGE_ERROR" /\ c \in Over(e)
      BY <1>1, <2>1, <2>2, <2>5
    <3> QED  BY <2>2, <3>1
  <2> QED  BY <2>2, <2>3, <2>4, <2>5 DEF States
<1>2. \A d \in Classes : (\A s \in Above(world, d) : s \in P) => d \in P
  BY <1>1
<1> HIDE DEF P
<1>3. Classes \subseteq P
  BY <1>2, FromTheTop
<1>4. ASSUME NEW d \in Ordinary, st2[d] = "LINKED", c \in Over(d)
      PROVE  \E e \in Over(d) \ {c} : st2[e] = "LINKAGE_ERROR" /\ c \in Over(e)
  <2>1. d \in Classes /\ d # c /\ st[d] = "LINKED"
    BY <1>4 DEF Ordinary
  <2>2. PICK e \in Over(d) \ {c} : st[e] = "LINKAGE_ERROR" /\ c \in Over(e)
    BY <1>3, <1>4, <2>1 DEF P
  <2>3. e \in Ordinary
    BY <2>1, <2>2, OverClosed
  <2> QED  BY <2>2, <2>3
<1> QED  BY <1>4 DEF Blamed

LEMMA BlameStays ==
  ASSUME TypeOK, NEW st, NEW st2, Later(st, st2), NEW b \in Ordinary, Blamed(st, b),
         \A c \in Ordinary : st2[c] = "LINKED" => st[c] = "LINKED"
  PROVE  Blamed(st2, b)
<1>1. ASSUME NEW d \in Ordinary, st2[d] = "LINKED", b \in Over(d)
      PROVE  \E e \in Over(d) \ {b} : st2[e] = "LINKAGE_ERROR" /\ b \in Over(e)
  <2>1. PICK e \in Over(d) \ {b} : st[e] = "LINKAGE_ERROR" /\ b \in Over(e)
    BY <1>1 DEF Blamed
  <2>2. e \in Ordinary
    BY <2>1, OverClosed DEF Ordinary
  <2> QED  BY <2>1, <2>2 DEF Later
<1> QED  BY <1>1 DEF Blamed, Later

(* The class a failure is about, and what is above it. *)
LEMMA AnalysedIs ==
  ASSUME TypeOK, NEW a \in Classes
  PROVE  Analysed(world, a) \in Ordinary /\ Over(Analysed(world, a)) \subseteq Ordinary
<1>1. Analysed(world, a) \in Ordinary
  BY BaseIs DEF Analysed, Ordinary, IsArray
<1> QED  BY <1>1, OverClosed DEF Ordinary

LEMMA OutcomeStep ==
  ASSUME TypeOK, NEW st, NEW st2, NEW a \in Classes, Later(st, st2),
         \A c \in Ordinary : st2[c] = "LINKED" => st[c] = "LINKED",
         \E b \in Over(Analysed(world, a)) : Blamed(st, b)
  PROVE  \E b \in Over(Analysed(world, a)) : Blamed(st2, b)
<1>1. PICK b \in Over(Analysed(world, a)) : Blamed(st, b)
  OBVIOUS
<1>2. b \in Ordinary
  BY AnalysedIs
<1> QED  BY <1>1, <1>2, BlameStays


-----------------------------------------------------------------------------
(***************************************************************************)
(* The C stack of link_class.                                              *)
(***************************************************************************)
LEMMA TopIs ==
  ASSUME TypeOK, todo # <<>>
  PROVE  /\ Len(todo) \in Nat /\ 1 \in 1..Len(todo) /\ Len(todo) \in 1..Len(todo)
         /\ Top = todo[1] /\ Top \in Frames /\ Top.c \in Classes
         /\ \A i \in 1..Len(todo) : todo[i] \in Frames
         /\ Tail(todo) \in Seq(Frames) /\ Len(Tail(todo)) = Len(todo) - 1
         /\ \A i \in 1..Len(todo) - 1 : Tail(todo)[i] = todo[i + 1]
<1>1. todo \in Seq(Frames)
  BY DEF TypeOK
<1>2. Len(todo) \in Nat /\ Len(todo) # 0
  BY <1>1, EmptySeq
<1>3. \A i \in 1..Len(todo) : todo[i] \in Frames
  BY <1>1
<1> QED  BY <1>1, <1>2, <1>3, HeadTailProperties DEF Top, Frames

LEMMA ConsIs ==
  ASSUME NEW S, NEW e \in S, NEW s \in Seq(S)
  PROVE  /\ <<e>> \o s \in Seq(S) /\ Len(<<e>> \o s) = Len(s) + 1
         /\ (<<e>> \o s)[1] = e /\ \A i \in 1..Len(s) : (<<e>> \o s)[i + 1] = s[i]
<1>1. <<e>> \in Seq(S) /\ Len(<<e>>) = 1 /\ <<e>>[1] = e /\ Len(s) \in Nat
  OBVIOUS
<1>2. /\ <<e>> \o s \in Seq(S) /\ Len(<<e>> \o s) = Len(<<e>>) + Len(s)
      /\ \A i \in 1..Len(<<e>>) + Len(s) : (<<e>> \o s)[i] = IF i <= Len(<<e>>) THEN <<e>>[i] ELSE s[i - Len(<<e>>)]
  BY <1>1, ConcatProperties
<1> QED  BY <1>1, <1>2

(* The frames under the top one survive a step that changes no class of theirs. *)
OthersKept(st2) == \A i \in 2..Len(todo) : todo[i].at \in {"super", "interfaces"} => st2[todo[i].c] = "LOADED"

LEMMA BelowKept ==
  ASSUME TypeOK, todo # <<>>, StackSound(state, hier, status, todo),
         NEW st2, NEW hi2, NEW s2, Later(state, st2), OthersKept(st2),
         \A c \in Classes : hier[c] # <<>> => hi2[c] # <<>>,
         NEW i \in 2..Len(todo)
  PROVE  FrameSound(st2, hi2, s2, todo[i], FALSE, i = Len(todo))
<1> DEFINE f == todo[i]
<1>1. i \in 1..Len(todo) /\ i # 1 /\ f \in Frames
  BY TopIs
<1>2. FrameSound(state, hier, status, f, FALSE, i = Len(todo))
  BY <1>1 DEF StackSound
<1>3. f.c \in Classes /\ f.k \in Nat
  BY <1>1 DEF Frames
<1>4. f.at \in {"super", "interfaces"} => st2[f.c] = "LOADED"
  BY DEF OthersKept
<1> HIDE DEF f
<1>5. \A s \in Above(world, f.c) : state[s] # "LOADED" => st2[s] # "LOADED"
  BY <1>3, AboveOrdinary DEF Later
<1>6. world \in Worlds
  BY DEF TypeOK
<1>7. /\ world.super[f.c] # NoClass => world.super[f.c] \in Above(world, f.c)
      /\ \A j \in DOMAIN world.ifaces[f.c] : world.ifaces[f.c][j] \in Above(world, f.c)
      /\ world.ifaces[f.c] \in Seq(Classes)
  <2>1. world.ifaces \in [Classes -> Seq(Classes)]
    BY Zenon, <1>6, HierarchyAssumption DEF Classes
  <2> QED  BY <1>3, <1>6, <2>1, AboveIs DEF Classes
<1>8. Passed(st2, hi2, f, FALSE)
  <2> SUFFICES ASSUME f.at = "interfaces"
               PROVE  /\ hi2[f.c] # <<>> /\ SuperPassed(st2, f) /\ f.k <= Len(world.ifaces[f.c])
                      /\ \A j \in 1..f.k : j < f.k => st2[world.ifaces[f.c][j]] # "LOADED"
    BY DEF Passed
  <2>1. /\ hier[f.c] # <<>> /\ SuperPassed(state, f) /\ f.k <= Len(world.ifaces[f.c])
        /\ \A j \in 1..f.k : j < f.k => state[world.ifaces[f.c][j]] # "LOADED"
    BY <1>2 DEF FrameSound, Passed
  <2>2. SuperPassed(st2, f)
    BY <1>5, <1>7, <2>1 DEF SuperPassed
  <2>3. ASSUME NEW j \in 1..f.k, j < f.k  PROVE st2[world.ifaces[f.c][j]] # "LOADED"
    <3>1. j \in DOMAIN world.ifaces[f.c]
      BY <1>3, <1>7, <2>1
    <3> QED  BY <1>5, <1>7, <2>1, <2>3, <3>1
  <2> QED  BY <1>3, <2>1, <2>2, <2>3
<1> QED  BY <1>2, <1>4, <1>8 DEF FrameSound, f

(* Only the outermost call is for an array, and before it is at its base   *)
(* component its callees return at once.                                   *)
LEMMA ArrayBelow ==
  ASSUME IInv, todo # <<>>, NEW i \in 2..Len(todo), IsArray(world, todo[i].c), todo[i].at # "array"
  PROVE  i = 2 /\ Len(todo) = 2 /\ Top.at = "enter" /\ state[Top.c] = "LINKED"
<1> USE DEF IInv
<1>1. /\ i \in 1..Len(todo) /\ i # 1 /\ i - 1 \in 1..Len(todo) /\ i - 1 # Len(todo)
      /\ todo[i] \in Frames /\ todo[i - 1] \in Frames /\ Len(todo) \in Nat
  BY TopIs
<1>2. i = Len(todo) /\ todo[i].at \in {"super", "interfaces"}
  BY <1>1 DEF StackSound, FrameSound, Frames
<1>3. todo[i - 1].c = Callee(todo[i]) /\ todo[i - 1].c \in Classes
  BY <1>1 DEF StackSound, Frames
<1>4. todo[i - 1].c \in Above(world, todo[i].c)
  <2>1. world \in Worlds /\ todo[i].c \in Classes
    BY <1>1 DEF TypeOK, Frames
  <2>2. NoClass \notin Classes
    BY Zenon, <2>1, HierarchyAssumption DEF Classes
  <2>3. CASE todo[i].at = "super"
    BY <1>3, <2>1, <2>2, <2>3, AboveIs DEF Callee, Classes
  <2>4. CASE todo[i].at = "interfaces"
    <3>1. world.ifaces \in [Classes -> Seq(Classes)]
      BY Zenon, <2>1, HierarchyAssumption DEF Classes
    <3>2. todo[i].k > 0 /\ todo[i].k <= Len(world.ifaces[todo[i].c]) /\ todo[i].k \in Nat
      BY <1>1, <2>4 DEF StackSound, FrameSound, Passed, Frames
    <3>3. todo[i].k \in DOMAIN world.ifaces[todo[i].c]
      BY <2>1, <3>1, <3>2
    <3>4. todo[i - 1].c = world.ifaces[todo[i].c][todo[i].k]
      BY <1>3, <2>4 DEF Callee
    <3> QED  BY <2>1, <3>3, <3>4, AboveIs DEF Classes
  <2> QED  BY <1>2, <2>3, <2>4
<1>5. todo[i].c \in Classes
  BY <1>1 DEF Frames
<1>6. todo[i - 1].c \in Range(world.start) /\ todo[i - 1].c \in Ordinary
  BY <1>4, <1>5, AboveOrdinary
<1>7. state[todo[i - 1].c] = "LINKED"
  BY <1>6 DEF LinkedSound
<1>8. todo[i - 1].at = "enter"
  <2>1. FrameSound(state, hier, status, todo[i - 1], i - 1 = 1, i - 1 = Len(todo))
    BY <1>1 DEF StackSound
  <2>2. todo[i - 1].at # "array"
    BY <1>6, <2>1 DEF FrameSound, IsArray, Ordinary
  <2> QED  BY <1>1, <1>7, <2>1, <2>2 DEF FrameSound, Frames
<1>9. i - 1 = 1
  BY <1>1, <1>8 DEF StackSound, FrameSound
<1> QED  BY <1>1, <1>2, <1>7, <1>8, <1>9, TopIs

(* What the outermost call is for includes the class on top that is being linked. *)
LEMMA TopReached ==
  ASSUME IInv, todo # <<>>, Top.at \in {"super", "interfaces"}, ~IsArray(world, Top.c)
  PROVE  asked \in Classes /\ Top.c \in Over(Analysed(world, asked)) /\ asked = todo[Len(todo)].c /\ ~crashed
<1> USE DEF IInv
<1>1. asked = todo[Len(todo)].c /\ asked \in Classes /\ ~crashed
  BY TopIs DEF Outcome, Frames
<1>2. Reached(Top, todo[Len(todo)], 1 = Len(todo))
  BY TopIs DEF StackSound
<1>3. CASE ~IsArray(world, asked)
  BY <1>1, <1>2, <1>3 DEF Reached, Analysed
<1>4. CASE IsArray(world, asked)
  <2>1. Len(todo) # 1 /\ Len(todo) \in 2..Len(todo)
    BY <1>1, <1>4, TopIs
  <2>2. todo[Len(todo)].at = "array"
    BY <1>1, <1>4, <2>1, ArrayBelow
  <2> QED  BY <1>1, <1>2, <1>4, <2>1, <2>2 DEF Reached, Analysed
<1> QED  BY <1>1, <1>3, <1>4


(* The three things a step does to the stack: it changes the top frame, ... *)
Changed(g) == [todo EXCEPT ![1] = g]

LEMMA ChangeTop ==
  ASSUME TypeOK, todo # <<>>, StackSound(state, hier, status, todo),
         NEW st2, NEW hi2, NEW s2, Later(state, st2), OthersKept(st2),
         \A c \in Classes : hier[c] # <<>> => hi2[c] # <<>>,
         NEW g \in Frames, g.c = Top.c, Top.at # "array", g.at # "array",
         FrameSound(st2, hi2, s2, g, TRUE, 1 = Len(todo)),
         NEW td2, td2 = Changed(g)
  PROVE  td2 \in Seq(Frames) /\ td2 # <<>> /\ StackSound(st2, hi2, s2, td2) /\ td2[Len(td2)].c = todo[Len(todo)].c
<1>1. td2 \in Seq(Frames) /\ Len(td2) = Len(todo) /\ td2[1] = g /\ \A i \in 2..Len(todo) : td2[i] = todo[i]
  BY TopIs DEF TypeOK, Changed
<1>2. Len(todo) \in Nat /\ 1 \in 1..Len(todo) /\ Top = todo[1] /\ Len(todo) # 0 /\ Len(todo) \in 1..Len(todo)
  BY TopIs
<1>3. \A i \in 1..Len(td2) : td2[i].c = todo[i].c /\ (i = 1 \/ (i \in 2..Len(todo) /\ td2[i] = todo[i]))
  BY <1>1, <1>2
<1>4. ASSUME NEW i \in 1..Len(td2)  PROVE FrameSound(st2, hi2, s2, td2[i], i = 1, i = Len(td2))
  <2>1. CASE i = 1
    BY <1>1, <2>1
  <2>2. CASE i # 1
    <3>1. i \in 2..Len(todo) /\ td2[i] = todo[i]
      BY <1>3, <2>2
    <3>2. FrameSound(st2, hi2, s2, todo[i], FALSE, i = Len(todo))
      BY <3>1, BelowKept
    <3> QED  BY <1>1, <2>2, <3>1, <3>2
  <2> QED  BY <2>1, <2>2
<1>5. ASSUME NEW i \in 1..Len(td2), i # 1
      PROVE  td2[i - 1].c = Callee(td2[i]) /\ (td2[i].at = "interfaces" => td2[i].k > 0)
  <2>1. i \in 1..Len(todo) /\ i - 1 \in 1..Len(td2) /\ td2[i] = todo[i]
    BY <1>1, <1>2, <1>5
  <2> QED  BY <1>3, <1>5, <2>1 DEF StackSound
<1>6. ASSUME NEW i \in 1..Len(td2)  PROVE Reached(td2[i], td2[Len(td2)], i = Len(td2))
  <2>1. Reached(todo[i], todo[Len(todo)], i = Len(todo))
    BY <1>1 DEF StackSound
  <2>2. td2[i].c = todo[i].c /\ td2[Len(td2)].c = todo[Len(todo)].c
    BY <1>1, <1>2, <1>3
  <2>3. td2[Len(td2)].at = "array" => todo[Len(todo)].at = "array"
    BY <1>1, <1>2, <1>3
  <2> QED  BY <1>1, <2>1, <2>2, <2>3 DEF Reached
<1>7. \A i, j \in 1..Len(td2) : i < j => td2[j].c \notin Over(td2[i].c)
  BY <1>1, <1>3 DEF StackSound
<1>8. td2 # <<>> /\ td2[Len(td2)].c = todo[Len(todo)].c
  BY <1>1, <1>2, <1>3
<1> QED  BY <1>1, <1>4, <1>5, <1>6, <1>7, <1>8 DEF StackSound

(* ... or calls link_class for a class above that of the top frame, ...   *)
Called(c, g) == <<Enter(c)>> \o Changed(g)
LEMMA PushCall ==
  ASSUME TypeOK, todo # <<>>, StackSound(state, hier, status, todo),
         NEW st2, NEW hi2, Later(state, st2), OthersKept(st2),
         \A c \in Classes : hier[c] # <<>> => hi2[c] # <<>>,
         NEW g \in Frames, g.c = Top.c, Top.at # "array",
         FrameSound(st2, hi2, 0, g, FALSE, 1 = Len(todo)),
         NEW c \in Ordinary, c = Callee(g), g.at = "interfaces" => g.k > 0,
         \/ c \in Above(world, g.c) /\ g.at # "array"
         \/ IsArray(world, g.c) /\ c = base_component(world, g.c),
         NEW td2, td2 = Called(c, g)
  PROVE  td2 \in Seq(Frames) /\ td2 # <<>> /\ StackSound(st2, hi2, 0, td2) /\ td2[Len(td2)].c = todo[Len(todo)].c
<1> DEFINE td == Changed(g)
           n == Len(todo)
<1>1. /\ n \in Nat /\ n # 0 /\ 1 \in 1..n /\ n \in 1..n /\ Top = todo[1]
      /\ \A i \in 1..n : todo[i] \in Frames
  BY TopIs
<1>2. td \in Seq(Frames) /\ Len(td) = n /\ td[1] = g /\ \A i \in 2..n : td[i] = todo[i]
  BY <1>1 DEF TypeOK, Changed
<1>3. Enter(c) \in Frames /\ Enter(c).c = c /\ Enter(c).at = "enter" /\ Enter(c).k = 0 /\ c \in Classes
  BY DEF Enter, Frames, Ordinary
<1> HIDE DEF td
<1>4. /\ td2 \in Seq(Frames) /\ Len(td2) = n + 1 /\ td2[1] = Enter(c)
      /\ \A i \in 2..n + 1 : td2[i] = td[i - 1]
  <2>1. td2 = <<Enter(c)>> \o td
    BY DEF td, Called
  <2> HIDE DEF n
  <2>2. td2 \in Seq(Frames) /\ Len(td2) = n + 1 /\ td2[1] = Enter(c) /\ \A i \in 1..n : td2[i + 1] = td[i]
    BY <1>2, <1>3, <2>1, ConsIs
  <2>3. ASSUME NEW i \in 2..n + 1  PROVE td2[i] = td[i - 1]
    <3>1. i - 1 \in 1..n /\ (i - 1) + 1 = i
      BY <1>1
    <3> QED  BY <2>2, <3>1
  <2> QED  BY <2>2, <2>3
<1>5. td2[2] = g /\ \A i \in 3..n + 1 : td2[i] = todo[i - 1] /\ i - 1 \in 2..n
  BY <1>1, <1>2, <1>4
<1>6. \A i \in 2..n + 1 : td2[i].c = todo[i - 1].c /\ i - 1 \in 1..n
  BY <1>1, <1>2, <1>4, <1>5
<1>7. ASSUME NEW i \in 1..n + 1  PROVE FrameSound(st2, hi2, 0, td2[i], i = 1, i = n + 1)
  <2>1. CASE i = 1
    <3>1. ~IsArray(world, c)
      BY DEF IsArray, Ordinary
    <3> QED  BY <1>1, <1>3, <1>4, <2>1, <3>1 DEF FrameSound, Passed
  <2>2. CASE i = 2
    <3>1. td2[i] = g
      BY <1>5, <2>2
    <3>2. i # 1 /\ (i = n + 1 <=> 1 = n)
      <4> HIDE DEF n
      <4> QED  BY <1>1, <2>2
    <3> QED  BY <3>1, <3>2 DEF FrameSound, Passed
  <2>3. CASE i \in 3..n + 1
    <3>1. FrameSound(st2, hi2, 0, todo[i - 1], FALSE, i - 1 = n)
      BY <1>5, <2>3, BelowKept
    <3>2. td2[i] = todo[i - 1] /\ i # 1 /\ (i = n + 1 <=> i - 1 = n)
      BY <1>1, <1>5, <2>3
    <3> QED  BY <3>1, <3>2 DEF FrameSound, Passed
  <2> QED  BY <1>1, <2>1, <2>2, <2>3
<1>8. ASSUME NEW i \in 1..n + 1, i # 1
      PROVE  td2[i - 1].c = Callee(td2[i]) /\ (td2[i].at = "interfaces" => td2[i].k > 0)
  <2>1. CASE i = 2
    <3>1. td2[i] = g /\ i - 1 = 1
      BY <1>1, <1>5, <2>1
    <3>2. td2[i - 1].c = Callee(g)
      BY <1>3, <1>4, <3>1
    <3> QED  BY <3>1, <3>2
  <2>2. CASE i \in 3..n + 1
    <3>1. i - 1 \in 1..n /\ i - 1 # 1 /\ i - 1 \in 2..n + 1 /\ td2[i] = todo[i - 1]
      BY <1>1, <1>5, <2>2
    <3>2. td2[i - 1].c = todo[(i - 1) - 1].c
      BY <1>6, <3>1
    <3> QED  BY <3>1, <3>2 DEF StackSound
  <2> QED  BY <1>1, <1>8, <2>1, <2>2
<1>9. td2[n + 1].c = todo[n].c /\ (n # 1 => td2[n + 1] = todo[n]) /\ (n = 1 => td2[n + 1] = g)
  <2> HIDE DEF n
  <2> QED  BY <1>1, <1>5, <1>6
<1>10. c \in Over(c) /\ g.c \in Over(g.c) /\ g.c \in Classes /\ (c \in Above(world, g.c) => c \in Over(g.c) /\ Over(c) \subseteq Over(g.c))
  BY <1>3, OverIs DEF Frames
<1>11. ASSUME NEW i \in 1..n + 1  PROVE Reached(td2[i], td2[n + 1], i = n + 1)
  <2>1. todo[n].c \in Classes /\ todo[n] \in Frames
    BY <1>1 DEF Frames
  <2>2. Reached(todo[1], todo[n], 1 = n)
    BY <1>1 DEF StackSound
  <2>3. n # 1 => ~IsArray(world, g.c)
    BY <1>1 DEF StackSound, FrameSound
  <2>4. CASE i = 1
    <3>1. CASE n = 1
      BY <1>3, <1>4, <1>9, <1>10, <2>4, <3>1 DEF Reached
    <3>2. CASE n # 1
      <4>1. c \in Above(world, g.c)
        BY <2>3, <3>2
      <4>2. ASSUME NEW d \in Classes, g.c \in Over(d)  PROVE c \in Over(d)
        BY <4>1, <4>2, OverClosed
      <4>3. IsArray(world, todo[n].c) => base_component(world, todo[n].c) \in Classes
        BY <2>1, BaseIs DEF Ordinary
      <4> QED  BY <1>1, <1>3, <1>4, <1>9, <2>1, <2>2, <2>4, <3>2, <4>2, <4>3 DEF Reached
    <3> QED  BY <3>1, <3>2
  <2>5. CASE i # 1
    <3>1. i - 1 \in 1..n /\ td2[i].c = todo[i - 1].c
      BY <1>1, <1>6, <2>5
    <3>2. Reached(todo[i - 1], todo[n], i - 1 = n)
      BY <3>1 DEF StackSound
    <3>3. CASE n = 1
      BY <1>1, <1>9, <1>10, <2>5, <3>3 DEF Reached
    <3>4. CASE n # 1
      BY <1>1, <1>9, <2>5, <3>1, <3>2, <3>4 DEF Reached
    <3> QED  BY <3>3, <3>4
  <2> QED  BY <2>4, <2>5
<1>12. ASSUME NEW i \in 1..n + 1, NEW j \in 1..n + 1, i < j  PROVE td2[j].c \notin Over(td2[i].c)
  <2>1. td2[j].c = todo[j - 1].c /\ j - 1 \in 1..n
    BY <1>1, <1>6, <1>12
  <2>2. CASE i # 1
    <3>1. td2[i].c = todo[i - 1].c /\ i - 1 \in 1..n /\ i - 1 < j - 1
      BY <1>1, <1>6, <1>12, <2>1, <2>2
    <3> QED  BY <2>1, <3>1 DEF StackSound
  <2>3. CASE i = 1
    <3>1. CASE j = 2
      <4>1. g.c \notin Over(c)
        <5>1. CASE c \in Above(world, g.c)
          BY <1>10, <5>1, NotOverItself
        <5>2. CASE IsArray(world, g.c)
          <6>1. Over(c) \subseteq Ordinary
            BY <1>3, OverClosed
          <6> QED  BY <5>2, <6>1 DEF IsArray, Ordinary
        <5> QED  BY <5>1, <5>2
      <4> QED  BY <1>3, <1>4, <1>5, <2>3, <3>1, <4>1
    <3>2. CASE j # 2
      <4>1. j - 1 \in 1..n /\ 1 < j - 1 /\ n # 1
        BY <1>1, <1>12, <2>3, <3>2
      <4>2. todo[j - 1].c \notin Over(g.c)
        BY <1>1, <4>1 DEF StackSound
      <4>3. ~IsArray(world, g.c)
        BY <1>1, <4>1 DEF StackSound, FrameSound
      <4> QED  BY <1>3, <1>4, <1>10, <2>1, <2>3, <4>2, <4>3
    <3> QED  BY <3>1, <3>2
  <2> QED  BY <2>2, <2>3
<1>13. td2 # <<>>
  BY <1>1, <1>4
<1> QED  BY <1>4, <1>7, <1>8, <1>9, <1>11, <1>12, <1>13 DEF StackSound

(* ... or returns to the frame below, for which the class of the top one   *)
(* has been tried.                                                         *)
LEMMA PopFrame ==
  ASSUME TypeOK, todo # <<>>, StackSound(state, hier, status, todo),
         NEW st2, NEW hi2, NEW s2, Later(state, st2), OthersKept(st2),
         \A c \in Classes : hier[c] # <<>> => hi2[c] # <<>>,
         Top.c \in Ordinary => st2[Top.c] # "LOADED",
         s2 # 0 => \A i \in 2..Len(todo) : todo[i].at # "array" => ~IsArray(world, todo[i].c)
  PROVE  StackSound(st2, hi2, s2, Tail(todo))
<1> DEFINE td2 == Tail(todo)
           n == Len(todo)
<1>1. /\ n \in Nat /\ n # 0 /\ 1 \in 1..n /\ Top = todo[1]
      /\ Len(td2) = n - 1 /\ \A i \in 1..n - 1 : td2[i] = todo[i + 1]
      /\ \A i \in 1..n : todo[i] \in Frames
  BY TopIs
<1> HIDE DEF td2
<1>2. \A i \in 1..n - 1 : i + 1 \in 2..n /\ i + 1 \in 1..n /\ i + 1 # 1 /\ (i = n - 1 <=> i + 1 = n)
  BY <1>1
<1>3. ASSUME NEW i \in 1..n - 1  PROVE FrameSound(st2, hi2, s2, td2[i], i = 1, i = n - 1)
  <2> DEFINE f == todo[i + 1]
  <2>1. FrameSound(st2, hi2, s2, f, FALSE, i = n - 1)
    <3>1. FrameSound(st2, hi2, s2, f, FALSE, i + 1 = n)
      BY <1>2, BelowKept
    <3> QED  BY <1>2, <3>1
  <2>2. td2[i] = f /\ f \in Frames
    BY <1>1, <1>2
  <2>3. CASE i # 1
    BY <2>1, <2>2, <2>3
  <2>4. CASE i = 1
    <3>1. f = todo[2] /\ Top.c = Callee(f) /\ (f.at = "interfaces" => f.k > 0)
      <4>1. i + 1 \in 1..n /\ i + 1 # 1 /\ (i + 1) - 1 = 1
        BY <1>2, <2>4
      <4> QED  BY <1>1, <2>4, <4>1 DEF StackSound
    <3>2. f.at # "enter"
      BY <2>1 DEF FrameSound
    <3>3. s2 # 0 /\ f.at # "array" => ~IsArray(world, f.c)
      BY <1>2
    <3>4. f.at = "super" => SuperPassed(st2, f)
      <4> SUFFICES ASSUME f.at = "super", world.super[f.c] # NoClass  PROVE st2[world.super[f.c]] # "LOADED"
        BY DEF SuperPassed
      <4>1. Top.c = world.super[f.c]
        BY <3>1 DEF Callee
      <4>2. world \in Worlds /\ f.c \in DOMAIN world.super
        BY <2>2 DEF TypeOK, Frames, Classes
      <4>3. Top.c \in Ordinary
        BY <4>1, <4>2, AboveIs, AboveOrdinary DEF Classes
      <4> QED  BY <4>1, <4>3
    <3>5. ASSUME f.at = "interfaces", NEW j \in 1..f.k  PROVE st2[world.ifaces[f.c][j]] # "LOADED"
      <4>1. CASE j < f.k
        BY <2>1, <3>5, <4>1 DEF FrameSound, Passed
      <4>2. CASE j = f.k
        <5>1. Top.c = world.ifaces[f.c][j]
          BY <3>1, <3>5, <4>2 DEF Callee
        <5>2. world \in Worlds /\ f.c \in DOMAIN world.super
          BY <2>2 DEF TypeOK, Frames, Classes
        <5>3. world.ifaces \in [Classes -> Seq(Classes)]
          BY Zenon, <5>2, HierarchyAssumption DEF Classes
        <5>4. f.k <= Len(world.ifaces[f.c])
          BY <2>1, <3>5 DEF FrameSound, Passed
        <5>5. j \in DOMAIN world.ifaces[f.c]
          BY <2>2, <4>2, <5>2, <5>3, <5>4 DEF Frames, Classes
        <5>6. Top.c \in Ordinary
          BY <5>1, <5>2, <5>5, AboveIs, AboveOrdinary DEF Classes
        <5> QED  BY <5>1, <5>6
      <4> QED  BY <2>2, <4>1, <4>2 DEF Frames
    <3> HIDE DEF f
    <3>6. FrameSound(st2, hi2, s2, f, TRUE, i = n - 1)
      <4>1. Passed(st2, hi2, f, TRUE)
        BY <2>1, <3>4, <3>5 DEF FrameSound, Passed
      <4> QED  BY <2>1, <3>2, <3>3, <4>1 DEF FrameSound
    <3> QED  BY <2>2, <2>4, <3>6
  <2> QED  BY <2>3, <2>4
<1>4. ASSUME NEW i \in 1..n - 1, i # 1
      PROVE  td2[i - 1].c = Callee(td2[i]) /\ (td2[i].at = "interfaces" => td2[i].k > 0)
  <2>1. i + 1 \in 1..n /\ i + 1 # 1 /\ i - 1 \in 1..n - 1 /\ (i + 1) - 1 = (i - 1) + 1
    BY <1>1, <1>4
  <2>2. td2[i] = todo[i + 1] /\ td2[i - 1] = todo[(i + 1) - 1]
    BY <1>1, <2>1
  <2> QED  BY <2>1, <2>2 DEF StackSound
<1>5. ASSUME NEW i \in 1..n - 1  PROVE Reached(td2[i], td2[n - 1], i = n - 1)
  <2>1. td2[i] = todo[i + 1] /\ td2[n - 1] = todo[n]
    <3>1. n - 1 \in 1..n - 1 /\ (n - 1) + 1 = n
      BY <1>1
    <3> QED  BY <1>1, <3>1
  <2>2. Reached(todo[i + 1], todo[n], i + 1 = n)
    BY <1>2 DEF StackSound
  <2> QED  BY <1>2, <2>1, <2>2
<1>6. ASSUME NEW i \in 1..n - 1, NEW j \in 1..n - 1, i < j  PROVE td2[j].c \notin Over(td2[i].c)
  <2>1. i + 1 < j + 1
    BY <1>1, <1>6
  <2> QED  BY <1>1, <1>2, <2>1 DEF StackSound
<1>7. StackSound(st2, hi2, s2, td2)
  BY <1>1, <1>3, <1>4, <1>5, <1>6 DEF StackSound
<1> QED  BY <1>7 DEF td2


-----------------------------------------------------------------------------
(***************************************************************************)
(* The steps.                                                              *)
(***************************************************************************)
(* The world stays, so the next state may be described with this one's classes. *)
LEMMA Primed ==
  ASSUME TypeOK, world' = world,
         Ordinary \subseteq made', made' \subseteq Classes, state' \in [Classes -> States],
         hier' \in [Classes -> Seq(Classes)], layout' = [c \in Classes |-> layout'[c]], todo' \in Seq(Frames),
         status' \in {0, 1}, asked' \in Classes \union {NoClass}, crashed' \in BOOLEAN,
         LinkedSound(state', layout'), StackSound(state', hier', status', todo'),
         Outcome(state', hier', status', todo', asked', crashed', made')
  PROVE  IInv'
<1>1. TypeOK'
  BY DEF TypeOK, Classes, Ordinary, Frames
<1>2. LinkedSound(state, layout)'
  BY DEF LinkedSound, Classes, Ordinary
<1>3. StackSound(state, hier, status, todo)'
  BY DEF StackSound, FrameSound, Passed, SuperPassed, Callee, Reached, Over
<1>4. Outcome(state, hier, status, todo, asked, crashed, made)'
  BY DEF Outcome, Blamed, Over, Ordinary, Classes
<1> QED  BY <1>1, <1>2, <1>3, <1>4 DEF IInv

(* The calls of link_class keep what they do not mention. *)
LEMMA TailOf ==
  ASSUME TypeOK, todo # <<>>
  PROVE  /\ Tail(todo) # <<>> => Len(todo) # 1 /\ Tail(todo)[Len(Tail(todo))] = todo[Len(todo)]
         /\ Tail(todo) = <<>> => Len(todo) = 1 /\ Top = todo[Len(todo)]
<1>1. /\ Len(todo) \in Nat /\ Len(todo) # 0 /\ Top = todo[1]
      /\ Tail(todo) \in Seq(Frames) /\ Len(Tail(todo)) = Len(todo) - 1
      /\ \A i \in 1..Len(todo) - 1 : Tail(todo)[i] = todo[i + 1]
  BY TopIs
<1>2. CASE Len(todo) = 1
  <2>1. Len(Tail(todo)) = 0
    BY <1>1, <1>2
  <2>2. Tail(todo) = <<>>
    BY <1>1, <2>1, EmptySeq
  <2> QED  BY <1>1, <1>2, <2>2
<1>3. CASE Len(todo) # 1
  <2>1. Len(todo) - 1 \in 1..Len(todo) - 1 /\ (Len(todo) - 1) + 1 = Len(todo) /\ Len(todo) - 1 # 0
    BY <1>1, <1>3
  <2>2. Tail(todo) # <<>>
    BY <1>1, <2>1
  <2> QED  BY <1>1, <1>3, <2>1, <2>2
<1> QED  BY <1>2, <1>3

LEMMA link_classStep ==
  ASSUME IInv, NEW c \in Classes, link_class(c)
  PROVE  IInv'
<1> USE DEF IInv
<1>1. /\ c \in made /\ state[c] = "LOADED" /\ todo' = <<Enter(c)>> /\ status' = 0 /\ asked' = c
      /\ UNCHANGED <<world, made, state, hier, layout, crashed>> /\ ~crashed
  BY DEF link_class, classes
<1>2. Enter(c) \in Frames /\ Enter(c).c = c /\ Enter(c).at = "enter" /\ Enter(c).k = 0
  BY DEF Enter, Frames
<1>3. todo' \in Seq(Frames) /\ Len(todo') = 1 /\ todo'[1] = Enter(c) /\ todo' # <<>>
  BY <1>1, <1>2
<1>4. StackSound(state', hier', status', todo')
  <2>1. FrameSound(state, hier, 0, Enter(c), TRUE, TRUE)
    BY <1>1, <1>2 DEF FrameSound, Passed
  <2>2. Reached(Enter(c), Enter(c), TRUE)
    BY <1>2, OverIs DEF Reached
  <2>3. \A i \in 1..Len(todo') : i = 1 /\ todo'[i] = Enter(c) /\ (i = Len(todo')) = TRUE /\ (i = 1) = TRUE
    BY <1>3
  <2>4. /\ todo'[Len(todo')] = Enter(c) /\ status' = 0 /\ state' = state /\ hier' = hier
    BY <1>1, <1>3
  <2>5. \A i \in 1..Len(todo') : FrameSound(state', hier', status', todo'[i], i = 1, i = Len(todo'))
    BY <2>1, <2>3, <2>4
  <2>6. \A i \in 1..Len(todo') : Reached(todo'[i], todo'[Len(todo')], i = Len(todo'))
    BY <2>2, <2>3, <2>4
  <2> QED  BY <1>3, <2>3, <2>5, <2>6 DEF StackSound
<1>5. Outcome(state', hier', status', todo', asked', crashed', made')
  BY <1>1, <1>2, <1>3 DEF Outcome
<1>6. LinkedSound(state', layout')
  BY <1>1
<1> QED  BY <1>1, <1>3, <1>4, <1>5, <1>6, Primed DEF TypeOK

(* What setup_super_hierarchy makes is no empty hierarchy. *)
LEMMA HierarchyIs ==
  ASSUME TypeOK, NEW H \in [Classes -> Seq(Classes)], NEW c \in Classes
  PROVE  setup_super_hierarchy(world, H, c) \in Seq(Classes) /\ setup_super_hierarchy(world, H, c) # <<>>
<1>1. world.super[c] \in Classes \union {NoClass}
  <2>1. world.super \in [Classes -> Classes \union {NoClass}]
    BY Zenon, HierarchyAssumption DEF TypeOK, Classes
  <2> QED  BY <2>1
<1>2. CASE world.super[c] = NoClass
  <2>1. setup_super_hierarchy(world, H, c) = <<c>>
    BY <1>2 DEF setup_super_hierarchy
  <2> QED  BY <2>1
<1>3. CASE world.super[c] # NoClass
  <2>1. setup_super_hierarchy(world, H, c) = Append(H[world.super[c]], c) /\ H[world.super[c]] \in Seq(Classes)
    BY <1>1, <1>3 DEF setup_super_hierarchy
  <2> QED  BY <2>1, AppendProperties
<1> QED  BY <1>2, <1>3

LEMMA CreateArrayStep ==
  ASSUME IInv, NEW a \in Classes, CreateArray(a)
  PROVE  IInv'
<1> USE DEF IInv
<1>1. /\ todo = <<>> /\ IsArray(world, a) /\ a \notin made /\ world.comp[a] \in made
      /\ made' = made \union {a} /\ state' = [state EXCEPT ![a] = state[world.comp[a]]]
      /\ UNCHANGED <<world, layout, todo, status, asked, crashed>>
      /\ hier' = [hier EXCEPT ![a] = setup_super_hierarchy(world, hier, a)] \/ hier' = hier
  BY DEF CreateArray, linking
<1>2. a \notin Ordinary
  BY <1>1 DEF IsArray, Ordinary
<1>3. state' \in [Classes -> States] /\ \A c \in Classes \ {a} : state'[c] = state[c]
  BY <1>1 DEF TypeOK
<1>4. hier' \in [Classes -> Seq(Classes)] /\ \A c \in Classes \ {a} : hier'[c] = hier[c]
  <2>1. setup_super_hierarchy(world, hier, a) \in Seq(Classes)
    BY HierarchyIs DEF TypeOK
  <2> HIDE DEF IInv
  <2>2. hier \in [Classes -> Seq(Classes)]
    BY DEF IInv, TypeOK
  <2> QED  BY <1>1, <2>1, <2>2
<1>5. Later(state, state') /\ \A c \in Ordinary : state'[c] = state[c]
  BY <1>2, <1>3 DEF Later, Ordinary
<1>6. LinkedSound(state', layout')
  <2>1. \A c \in Classes : layout'[c] = layout[c] \/ (c \in Ordinary /\ state'[c] = "LINKED")
    BY <1>1
  <2> QED  BY <1>5, <2>1, LinkedStep
<1>7. StackSound(state', hier', status', todo')
  BY <1>1 DEF StackSound
<1>8. Outcome(state', hier', status', todo', asked', crashed', made')
  <2>1. asked # NoClass => asked \in Classes /\ asked \in made /\ asked # a
    BY <1>1 DEF TypeOK, Outcome
  <2>2. status # 0 /\ asked # NoClass /\ ~crashed => \E b \in Over(Analysed(world, asked)) : Blamed(state', b)
    <3> SUFFICES ASSUME status # 0, asked # NoClass, ~crashed
                 PROVE  \E b \in Over(Analysed(world, asked)) : Blamed(state', b)
      OBVIOUS
    <3>1. \E b \in Over(Analysed(world, asked)) : Blamed(state, b)
      BY DEF Outcome
    <3> QED  BY <1>5, <2>1, <3>1, OutcomeStep
  <2>3. asked # NoClass => state'[asked] = state[asked] /\ hier'[asked] = hier[asked]
    BY <1>3, <1>4, <2>1
  <2> QED  BY <1>1, <2>1, <2>2, <2>3 DEF Outcome
<1>9. made' \subseteq Classes /\ Ordinary \subseteq made'
  BY <1>1 DEF TypeOK
<1> HIDE DEF IInv
<1>10. TypeOK /\ layout' = [c \in Classes |-> layout'[c]]
  BY <1>1 DEF IInv, TypeOK
<1> QED  BY <1>1, <1>3, <1>4, <1>6, <1>7, <1>8, <1>9, <1>10, Primed DEF TypeOK


(* Where the outermost call is after a return. *)
LEMMA ReturnIs ==
  ASSUME IInv, todo # <<>>, NEW td2, td2 = Tail(todo)
  PROVE  /\ td2 \in Seq(Frames) /\ asked \in Classes /\ asked \in made /\ ~crashed
         /\ td2 # <<>> => asked = td2[Len(td2)].c
         /\ td2 = <<>> => Len(todo) = 1 /\ asked = Top.c
<1>1. TypeOK /\ Outcome(state, hier, status, todo, asked, crashed, made)
  BY DEF IInv
<1>2. asked = todo[Len(todo)].c /\ todo[Len(todo)].c \in Classes /\ ~crashed
  BY <1>1, TopIs DEF Outcome, Frames
<1>3. NoClass \notin Classes
  BY Zenon, <1>1, HierarchyAssumption DEF TypeOK, Classes
<1> QED  BY <1>1, <1>2, <1>3, TopIs, TailOf DEF Outcome

(* The frame on top. *)
LEMMA TopSound ==
  ASSUME IInv, todo # <<>>
  PROVE  /\ FrameSound(state, hier, status, Top, TRUE, 1 = Len(todo))
         /\ Top \in Frames /\ Top.c \in Classes /\ Top.k \in Nat
         /\ \A i \in 2..Len(todo) : todo[i].c # Top.c /\ todo[i].c \in Classes /\ todo[i] \in Frames
<1>1. TypeOK /\ StackSound(state, hier, status, todo)
  BY DEF IInv
<1>2. /\ Len(todo) \in Nat /\ 1 \in 1..Len(todo) /\ Top = todo[1] /\ Top \in Frames
      /\ \A i \in 1..Len(todo) : todo[i] \in Frames
  BY <1>1, TopIs
<1>3. FrameSound(state, hier, status, Top, TRUE, 1 = Len(todo))
  <2>1. FrameSound(state, hier, status, todo[1], 1 = 1, 1 = Len(todo))
    BY <1>1, <1>2 DEF StackSound
  <2> QED  BY <1>2, <2>1
<1>4. ASSUME NEW i \in 2..Len(todo)  PROVE todo[i].c # Top.c /\ todo[i].c \in Classes /\ todo[i] \in Frames
  <2>1. i \in 1..Len(todo) /\ 1 < i
    BY <1>2
  <2>2. todo[i].c \notin Over(Top.c)
    BY <1>1, <1>2, <2>1 DEF StackSound
  <2> QED  BY <1>1, <1>2, <2>1, <2>2, OverIs DEF Frames
<1> QED  BY <1>2, <1>3, <1>4 DEF Frames

LEMMA LinkSuperStep ==
  ASSUME IInv, LinkSuper
  PROVE  IInv'
<1>1. /\ todo # <<>> /\ Top.at = "enter"
      /\ UNCHANGED <<world, made, state, hier, layout, asked, crashed>>
  BY DEF LinkSuper, classes
<1>2. /\ TypeOK /\ LinkedSound(state, layout) /\ StackSound(state, hier, status, todo)
      /\ Outcome(state, hier, status, todo, asked, crashed, made)
  BY DEF IInv
<1>3. /\ FrameSound(state, hier, status, Top, TRUE, 1 = Len(todo))
      /\ Top \in Frames /\ Top.c \in Classes /\ Top.k = 0
  BY <1>1, TopSound DEF FrameSound
<1>4. Later(state, state) /\ OthersKept(state)
  <2>1. ASSUME NEW i \in 2..Len(todo), todo[i].at \in {"super", "interfaces"}  PROVE state[todo[i].c] = "LOADED"
    <3>1. i \in 1..Len(todo)
      BY <1>1, <1>2, TopIs
    <3> QED  BY <1>2, <2>1, <3>1 DEF StackSound, FrameSound
  <2> QED  BY <2>1 DEF Later, OthersKept
<1>5. CASE state[Top.c] # "LOADED"
  <2>1. todo' = Tail(todo) /\ status' = 0
    BY <1>5 DEF LinkSuper, Return
  <2>2. StackSound(state, hier, 0, Tail(todo))
    BY <1>1, <1>2, <1>4, <1>5, PopFrame
  <2>3. Len(todo) # 1
    BY <1>1, <1>3, <1>5 DEF FrameSound
  <2>4. /\ todo' \in Seq(Frames) /\ asked \in made /\ ~crashed /\ todo' # <<>>
        /\ asked = todo'[Len(todo')].c
    BY <1>1, <2>1, <2>3, ReturnIs
  <2>5. Outcome(state', hier', status', todo', asked', crashed', made')
    BY <1>1, <2>1, <2>4 DEF Outcome
  <2>6. StackSound(state', hier', status', todo')
    BY <1>1, <2>1, <2>2
  <2> QED  BY <1>1, <1>2, <2>1, <2>4, <2>5, <2>6, Primed DEF TypeOK
<1>6. CASE state[Top.c] = "LOADED"
  <2> DEFINE g == [Top EXCEPT !.at = "super"]
  <2>1. /\ todo' = (IF world.super[Top.c] = NoClass THEN <<>> ELSE <<Enter(world.super[Top.c])>>) \o GoTo("super")
        /\ status' = 0
    BY <1>6 DEF LinkSuper
  <2>2. GoTo("super") = Changed(g)
    BY <1>1, <1>2, TopIs DEF GoTo, TypeOK, Changed
  <2>3. g \in Frames /\ g.c = Top.c /\ g.k = 0 /\ g.at = "super"
    BY <1>3 DEF Frames
  <2>4. asked = todo[Len(todo)].c /\ asked \in made /\ ~crashed
    BY <1>1, ReturnIs, TailOf DEF IInv, Outcome
  <2> HIDE DEF g
  <2>5. todo' \in Seq(Frames) /\ todo' # <<>> /\ StackSound(state, hier, 0, todo') /\ todo'[Len(todo')].c = asked
    <3>1. CASE world.super[Top.c] = NoClass
      <4>1. FrameSound(state, hier, 0, g, TRUE, 1 = Len(todo))
        BY <1>1, <1>3, <1>6, <2>3, <3>1 DEF FrameSound, Passed, SuperPassed
      <4>2. todo' = Changed(g)
        <5>1. Changed(g) \in Seq(Frames)
          BY <1>1, <1>2, <2>3, TopIs DEF TypeOK, Changed
        <5> QED  BY <2>1, <2>2, <3>1, <5>1, ConcatEmptySeq
      <4> QED  BY <1>1, <1>2, <1>4, <2>3, <2>4, <4>1, <4>2, ChangeTop
    <3>2. CASE world.super[Top.c] # NoClass
      <4> DEFINE c == world.super[Top.c]
      <4>1. c \in Above(world, Top.c) /\ c \in Ordinary
        BY <1>2, <1>3, <3>2, AboveIs, AboveOrdinary DEF TypeOK, Classes
      <4>2. c = Callee(g)
        BY <2>3 DEF Callee
      <4>3. FrameSound(state, hier, 0, g, FALSE, 1 = Len(todo))
        BY <1>1, <1>3, <1>6, <2>3 DEF FrameSound, Passed
      <4>4. todo' = Called(c, g)
        BY <2>1, <2>2, <3>2 DEF Called
      <4> HIDE DEF c
      <4> QED  BY <1>1, <1>2, <1>4, <2>3, <2>4, <4>1, <4>2, <4>3, <4>4, PushCall
    <3> QED  BY <3>1, <3>2
  <2>6. Outcome(state', hier', status', todo', asked', crashed', made')
    BY <1>1, <2>1, <2>4, <2>5 DEF Outcome
  <2>7. StackSound(state', hier', status', todo')
    BY <1>1, <2>1, <2>5
  <2> QED  BY <1>1, <1>2, <2>1, <2>5, <2>6, <2>7, Primed DEF TypeOK
<1> QED  BY <1>5, <1>6

(* Nothing under the top frame changes with the class on top. *)
LEMMA OnlyTop ==
  ASSUME IInv, todo # <<>>, NEW st2, \A c \in Classes : c # Top.c => st2[c] = state[c]
  PROVE  OthersKept(st2)
<1>1. ASSUME NEW i \in 2..Len(todo), todo[i].at \in {"super", "interfaces"}  PROVE st2[todo[i].c] = "LOADED"
  <2>1. i \in 1..Len(todo)
    BY TopIs DEF IInv
  <2>2. state[todo[i].c] = "LOADED"
    BY <1>1, <2>1 DEF IInv, StackSound, FrameSound
  <2>3. todo[i].c # Top.c /\ todo[i].c \in Classes
    BY TopSound
  <2> QED  BY <2>2, <2>3
<1> QED  BY <1>1 DEF OthersKept

LEMMA FailStep ==
  ASSUME IInv, todo # <<>>, Top.at \in {"super", "interfaces"}, Fail
  PROVE  IInv'
<1>1. /\ status # 0 /\ status' = status /\ todo' = Tail(todo)
      /\ state' = [state EXCEPT ![Top.c] = "LINKAGE_ERROR"]
      /\ UNCHANGED <<world, made, hier, layout, asked, crashed>>
  BY DEF Fail, Return
<1>2. /\ TypeOK /\ LinkedSound(state, layout) /\ StackSound(state, hier, status, todo)
      /\ Outcome(state, hier, status, todo, asked, crashed, made)
  BY DEF IInv
<1>3. /\ Top \in Frames /\ Top.c \in Ordinary /\ Top.c \in Classes /\ state[Top.c] = "LOADED"
  BY <1>1, TopSound DEF FrameSound, Ordinary, IsArray
<1>4. /\ state' \in [Classes -> States] /\ state'[Top.c] = "LINKAGE_ERROR"
      /\ \A c \in Classes : c # Top.c => state'[c] = state[c]
  BY <1>1, <1>2, <1>3 DEF TypeOK, States
<1>5. Later(state, state') /\ OthersKept(state')
  BY <1>3, <1>4, OnlyTop DEF Later, Ordinary
<1>6. \A i \in 2..Len(todo) : todo[i].at # "array" => ~IsArray(world, todo[i].c)
  BY ArrayBelow
<1>7. StackSound(state', hier', status', todo')
  BY <1>1, <1>2, <1>4, <1>5, <1>6, PopFrame
<1>8. \A c \in Ordinary : state'[c] = "LINKED" => state[c] = "LINKED"
  BY <1>4 DEF Ordinary
<1>9. LinkedSound(state', layout')
  <2>1. \A c \in Classes : layout'[c] = layout[c] \/ (c \in Ordinary /\ state'[c] = "LINKED")
    BY <1>1
  <2>2. \A c \in Ordinary : state'[c] = "LINKED" /\ state[c] = "LOADED" => \A s \in Above(world, c) : state[s] # "LOADED"
    BY <1>8
  <2> QED  BY <1>2, <1>5, <2>1, <2>2, LinkedStep
<1>10. /\ todo' \in Seq(Frames) /\ asked \in Classes /\ asked \in made /\ ~crashed
       /\ todo' # <<>> => asked = todo'[Len(todo')].c
       /\ todo' = <<>> => asked = Top.c
  BY <1>1, ReturnIs
<1>11. NoClass \notin Classes
  BY Zenon, <1>2, HierarchyAssumption DEF TypeOK, Classes
<1>12. Outcome(state', hier', status', todo', asked', crashed', made')
  <2>1. \E b \in Over(Analysed(world, asked)) : Blamed(state, b)
    BY <1>1, <1>2, <1>10, <1>11 DEF Outcome
  <2>2. \E b \in Over(Analysed(world, asked)) : Blamed(state', b)
    BY <1>2, <1>5, <1>8, <1>10, <2>1, OutcomeStep
  <2> QED  BY <1>1, <1>4, <1>10, <2>2 DEF Outcome
<1> QED  BY <1>1, <1>2, <1>4, <1>7, <1>9, <1>10, <1>12, Primed DEF TypeOK


LEMMA StaysKept ==
  ASSUME IInv, todo # <<>>
  PROVE  Later(state, state) /\ OthersKept(state)
BY OnlyTop DEF Later

LEMMA LinkSuperDoneStep ==
  ASSUME IInv, LinkSuperDone
  PROVE  IInv'
<1>1. todo # <<>> /\ Top.at = "super"
  BY DEF LinkSuperDone
<1>2. CASE Fail
  BY <1>1, <1>2, FailStep
<1>3. CASE ~Fail
  <2>1. /\ status = 0 /\ status' = 0 /\ todo' = GoTo("interfaces")
        /\ hier' = [hier EXCEPT ![Top.c] = setup_super_hierarchy(world, hier, Top.c)]
        /\ UNCHANGED <<world, made, state, layout, asked, crashed>>
    BY <1>3 DEF LinkSuperDone
  <2>2. /\ TypeOK /\ LinkedSound(state, layout) /\ StackSound(state, hier, status, todo)
        /\ Outcome(state, hier, status, todo, asked, crashed, made)
    BY DEF IInv
  <2>3. /\ FrameSound(state, hier, status, Top, TRUE, 1 = Len(todo))
        /\ Top \in Frames /\ Top.c \in Classes /\ Top.k = 0
    BY <1>1, TopSound DEF FrameSound
  <2>4. /\ hier' \in [Classes -> Seq(Classes)] /\ hier'[Top.c] # <<>>
        /\ \A c \in Classes : hier[c] # <<>> => hier'[c] # <<>>
    <3>1. /\ setup_super_hierarchy(world, hier, Top.c) \in Seq(Classes)
          /\ setup_super_hierarchy(world, hier, Top.c) # <<>>
          /\ hier \in [Classes -> Seq(Classes)]
      BY <2>2, <2>3, HierarchyIs DEF TypeOK
    <3> QED  BY <2>1, <2>3, <3>1
  <2> DEFINE g == [Top EXCEPT !.at = "interfaces"]
  <2>5. GoTo("interfaces") = Changed(g)
    BY <1>1, <2>2, TopIs DEF GoTo, TypeOK, Changed
  <2>6. g \in Frames /\ g.c = Top.c /\ g.k = 0 /\ g.at = "interfaces"
    BY <2>3 DEF Frames
  <2> HIDE DEF g
  <2>7. asked = todo[Len(todo)].c /\ asked \in made /\ ~crashed
    BY <1>1, ReturnIs, TailOf DEF IInv, Outcome
  <2>8. FrameSound(state, hier', 0, g, TRUE, 1 = Len(todo))
    <3>1. world.ifaces[g.c] \in Seq(Classes)
      <4>1. world.ifaces \in [Classes -> Seq(Classes)]
        BY Zenon, <2>2, HierarchyAssumption DEF TypeOK, Classes
      <4> QED  BY <2>3, <2>6, <4>1
    <3>2. SuperPassed(state, g)
      BY <1>1, <2>3, <2>6 DEF FrameSound, Passed, SuperPassed
    <3>3. Passed(state, hier', g, TRUE)
      BY <2>4, <2>6, <3>1, <3>2 DEF Passed
    <3> QED  BY <1>1, <2>3, <2>6, <3>3 DEF FrameSound
  <2>9. todo' \in Seq(Frames) /\ todo' # <<>> /\ StackSound(state, hier', 0, todo') /\ todo'[Len(todo')].c = asked
    <3>1. todo' = Changed(g)
      BY <2>1, <2>5
    <3>2. Later(state, state) /\ OthersKept(state)
      BY <1>1, StaysKept
    <3> QED  BY <1>1, <2>2, <2>4, <2>6, <2>7, <2>8, <3>1, <3>2, ChangeTop
  <2>10. Outcome(state', hier', status', todo', asked', crashed', made')
    BY <2>1, <2>7, <2>9 DEF Outcome
  <2>11. StackSound(state', hier', status', todo') /\ LinkedSound(state', layout')
    BY <2>1, <2>2, <2>9
  <2> QED  BY <2>1, <2>2, <2>4, <2>9, <2>10, <2>11, Primed DEF TypeOK
<1> QED  BY <1>2, <1>3

LEMMA LinkInterfaceStep ==
  ASSUME IInv, LinkInterface
  PROVE  IInv'
<1>1. /\ todo # <<>> /\ Top.at = "interfaces" /\ Top.k < Len(world.ifaces[Top.c])
      /\ status = 0 /\ status' = 0
      /\ todo' = <<Enter(world.ifaces[Top.c][Top.k + 1])>> \o [todo EXCEPT ![1].k = Top.k + 1]
      /\ UNCHANGED <<world, made, state, hier, layout, asked, crashed>>
  BY DEF LinkInterface, classes
<1>2. /\ TypeOK /\ LinkedSound(state, layout) /\ StackSound(state, hier, status, todo)
      /\ Outcome(state, hier, status, todo, asked, crashed, made)
  BY DEF IInv
<1>3. /\ FrameSound(state, hier, status, Top, TRUE, 1 = Len(todo))
      /\ Top \in Frames /\ Top.c \in Classes /\ Top.k \in Nat
  BY <1>1, TopSound
<1> DEFINE g == [Top EXCEPT !.k = Top.k + 1]
           c == world.ifaces[Top.c][Top.k + 1]
<1>4. [todo EXCEPT ![1].k = Top.k + 1] = Changed(g)
  BY <1>1, <1>2, TopIs DEF TypeOK, Changed
<1>5. g \in Frames /\ g.c = Top.c /\ g.k = Top.k + 1 /\ g.k > 0 /\ g.at = "interfaces"
  BY <1>1, <1>3 DEF Frames
<1>6. todo' = Called(c, g)
  BY <1>1, <1>4 DEF Called
<1> HIDE DEF g
<1>7. asked = todo[Len(todo)].c /\ asked \in made /\ ~crashed
  BY <1>1, ReturnIs, TailOf DEF IInv, Outcome
<1>8. world.ifaces[Top.c] \in Seq(Classes)
  <2>1. world.ifaces \in [Classes -> Seq(Classes)]
    BY Zenon, <1>2, HierarchyAssumption DEF TypeOK, Classes
  <2> QED  BY <1>3, <2>1
<1>9. c \in Above(world, g.c) /\ c \in Ordinary
  <2>1. Top.k + 1 \in DOMAIN world.ifaces[Top.c]
    BY <1>1, <1>3, <1>8
  <2> QED  BY <1>2, <1>3, <1>5, <2>1, AboveIs, AboveOrdinary DEF TypeOK, Classes
<1>10. c = Callee(g)
  BY <1>5 DEF Callee
<1>11. FrameSound(state, hier, 0, g, FALSE, 1 = Len(todo))
  <2>1. /\ hier[g.c] # <<>> /\ SuperPassed(state, Top)
        /\ \A j \in 1..Top.k : state[world.ifaces[g.c][j]] # "LOADED"
    BY <1>1, <1>3, <1>5 DEF FrameSound, Passed
  <2>2. SuperPassed(state, g)
    BY <1>5, <2>1 DEF SuperPassed
  <2>3. g.k <= Len(world.ifaces[g.c])
    BY <1>1, <1>3, <1>5, <1>8
  <2>4. \A j \in 1..g.k : j < g.k => j \in 1..Top.k
    BY <1>3, <1>5
  <2>5. Passed(state, hier, g, FALSE)
    BY <1>5, <2>1, <2>2, <2>3, <2>4 DEF Passed
  <2> QED  BY <1>1, <1>3, <1>5, <2>5 DEF FrameSound
<1> HIDE DEF c
<1>12. todo' \in Seq(Frames) /\ todo' # <<>> /\ StackSound(state, hier, 0, todo') /\ todo'[Len(todo')].c = asked
  <2>1. Later(state, state) /\ OthersKept(state)
    BY <1>1, StaysKept
  <2> QED  BY <1>1, <1>2, <1>5, <1>6, <1>7, <1>9, <1>10, <1>11, <2>1, PushCall
<1>13. Outcome(state', hier', status', todo', asked', crashed', made')
  BY <1>1, <1>7, <1>12 DEF Outcome
<1>14. StackSound(state', hier', status', todo') /\ LinkedSound(state', layout')
  BY <1>1, <1>2, <1>12
<1> QED  BY <1>1, <1>2, <1>12, <1>13, <1>14, Primed DEF TypeOK

LEMMA InterfaceFailedStep ==
  ASSUME IInv, InterfaceFailed
  PROVE  IInv'
BY FailStep DEF InterfaceFailed

(* What linking the arrays over a class does not touch. *)
LEMMA WithArraysIs ==
  ASSUME TypeOK, NEW c \in Ordinary
  PROVE  /\ WithArrays(c).state \in [Classes -> States] /\ WithArrays(c).state[c] = "LINKED"
         /\ \A d \in Ordinary : d # c => WithArrays(c).state[d] = state[d]
         /\ WithArrays(c).hier \in [Classes -> Seq(Classes)]
         /\ \A d \in Classes : hier[d] # <<>> => WithArrays(c).hier[d] # <<>>
<1> DEFINE arrays == {a \in array_type(world, c) : state[a] # "LINKED"}
           st == IF arrays = {} THEN state ELSE ArraysBecome("LINKED", c)
           hi == [a \in DOMAIN hier |-> IF a \in arrays THEN setup_super_hierarchy(world, hier, a) ELSE hier[a]]
<1>1. state \in [Classes -> States] /\ hier \in [Classes -> Seq(Classes)] /\ made \subseteq Classes
  BY DEF TypeOK
<1>2. ArraysBecome("LINKED", c) \in [Classes -> States] /\ \A d \in Ordinary : ArraysBecome("LINKED", c)[d] = state[d]
  BY <1>1 DEF ArraysBecome, ArraysOver, States, Ordinary
<1>3. st \in [Classes -> States] /\ \A d \in Ordinary : st[d] = state[d]
  BY <1>1, <1>2
<1>4. WithArrays(c).state = [st EXCEPT ![c] = "LINKED"]
  BY DEF WithArrays
<1>5. WithArrays(c).hier = hi
  BY DEF WithArrays
<1>6. arrays \subseteq Classes
  BY <1>1 DEF array_type
<1>7. \A a \in arrays : setup_super_hierarchy(world, hier, a) \in Seq(Classes) /\ setup_super_hierarchy(world, hier, a) # <<>>
  BY <1>1, <1>6, HierarchyIs
<1> HIDE DEF st, arrays
<1>8. hi \in [Classes -> Seq(Classes)] /\ \A d \in Classes : hier[d] # <<>> => hi[d] # <<>>
  BY <1>1, <1>7
<1> HIDE DEF hi
<1> QED  BY <1>3, <1>4, <1>5, <1>8 DEF Ordinary, States

LEMMA LinkOrdinaryStep ==
  ASSUME IInv, LinkOrdinary
  PROVE  IInv'
<1> DEFINE c == Top.c
           linked == WithArrays(c)
<1>1. /\ todo # <<>> /\ Top.at = "interfaces" /\ Top.k = Len(world.ifaces[c]) /\ status = 0 /\ ~IsArray(world, c)
      /\ hier' = linked.hier
      /\ UNCHANGED <<world, made, asked>>
  BY DEF LinkOrdinary
<1>2. /\ TypeOK /\ LinkedSound(state, layout) /\ StackSound(state, hier, status, todo)
      /\ Outcome(state, hier, status, todo, asked, crashed, made)
  BY DEF IInv
<1>3. /\ FrameSound(state, hier, status, Top, TRUE, 1 = Len(todo))
      /\ Top \in Frames /\ c \in Classes /\ c \in Ordinary /\ Top.k \in Nat
  BY <1>1, TopSound DEF IsArray, Ordinary
<1>4. /\ linked.state \in [Classes -> States] /\ linked.state[c] = "LINKED"
      /\ \A d \in Ordinary : d # c => linked.state[d] = state[d]
      /\ hier' \in [Classes -> Seq(Classes)]
      /\ \A d \in Classes : hier[d] # <<>> => hier'[d] # <<>>
  BY <1>1, <1>2, <1>3, WithArraysIs
<1>5. state[c] = "LOADED" /\ hier[c] # <<>>
  BY <1>1, <1>3 DEF FrameSound, Passed
<1>6. \A s \in Above(world, c) : state[s] # "LOADED"
  <2>1. SuperPassed(state, Top) /\ \A j \in 1..Top.k : state[world.ifaces[c][j]] # "LOADED"
    BY <1>1, <1>3 DEF FrameSound, Passed
  <2>2. world.ifaces[c] \in Seq(Classes)
    <3>1. world.ifaces \in [Classes -> Seq(Classes)]
      BY Zenon, <1>2, HierarchyAssumption DEF TypeOK, Classes
    <3> QED  BY <1>3, <3>1
  <2>3. \A s \in Above(world, c) : (s = world.super[c] /\ s # NoClass) \/ \E i \in DOMAIN world.ifaces[c] : s = world.ifaces[c][i]
    BY <1>2, <1>3, AboveIs DEF TypeOK, Classes
  <2>4. \A i \in DOMAIN world.ifaces[c] : i \in 1..Top.k
    BY <1>1, <2>2
  <2> QED  BY <2>1, <2>3, <2>4 DEF SuperPassed
<1>7. asked = todo[Len(todo)].c /\ asked \in Classes /\ asked \in made /\ ~crashed /\ c \in Over(Analysed(world, asked))
  BY <1>1, TopReached, ReturnIs
<1>8. ASSUME NEW st2, \A d \in Ordinary : d # c => st2[d] = state[d]
      PROVE  Later(state, st2) /\ OthersKept(st2)
  <2>1. Later(state, st2)
    BY <1>5, <1>8 DEF Later
  <2>2. ASSUME NEW i \in 2..Len(todo), todo[i].at \in {"super", "interfaces"}  PROVE st2[todo[i].c] = "LOADED"
    <3>1. i \in 1..Len(todo)
      BY <1>1, <1>2, TopIs
    <3>2. state[todo[i].c] = "LOADED"
      BY <1>2, <2>2, <3>1 DEF StackSound, FrameSound
    <3>3. todo[i].c # c /\ todo[i].c \in Classes
      BY <1>1, TopSound
    <3>4. ~IsArray(world, todo[i].c)
      BY <1>1, <2>2, ArrayBelow
    <3> QED  BY <1>8, <3>2, <3>3, <3>4 DEF IsArray, Ordinary
  <2> QED  BY <2>1, <2>2 DEF OthersKept
<1>9. \A i \in 2..Len(todo) : todo[i].at # "array" => ~IsArray(world, todo[i].c)
  BY <1>1, ArrayBelow
<1>10. /\ Tail(todo) \in Seq(Frames)
       /\ Tail(todo) # <<>> => asked = Tail(todo)[Len(Tail(todo))].c
       /\ Tail(todo) = <<>> => asked = c
  BY <1>1, ReturnIs
<1> HIDE DEF c, linked
<1>11. CASE c \in world.bad
  <2>1. /\ state' = [linked.state EXCEPT ![c] = "LINKAGE_ERROR"] /\ status' = 1 /\ todo' = Tail(todo)
        /\ layout' = layout /\ crashed' = crashed
    BY <1>11 DEF LinkOrdinary, Return, c, linked
  <2>2. /\ state' \in [Classes -> States] /\ state'[c] = "LINKAGE_ERROR"
        /\ \A d \in Ordinary : d # c => state'[d] = state[d]
    BY <1>3, <1>4, <2>1 DEF States, Ordinary
  <2>3. Later(state, state') /\ OthersKept(state')
    BY <1>8, <2>2
  <2>4. StackSound(state', hier', status', todo')
    BY <1>1, <1>2, <1>4, <1>9, <2>1, <2>2, <2>3, PopFrame DEF c
  <2>5. Blamed(state', c)
    BY <1>2, <1>3, <1>5, <1>11, <2>2, BlameFails DEF TypeOK
  <2>6. LinkedSound(state', layout')
    <3>1. \A d \in Classes : layout'[d] = layout[d] \/ (d \in Ordinary /\ state'[d] = "LINKED")
      BY <2>1
    <3>2. \A d \in Ordinary : state'[d] = "LINKED" /\ state[d] = "LOADED" => \A s \in Above(world, d) : state[s] # "LOADED"
      BY <2>2
    <3> QED  BY <1>2, <2>3, <3>1, <3>2, LinkedStep
  <2>7. Outcome(state', hier', status', todo', asked', crashed', made')
    BY <1>1, <1>7, <1>10, <2>1, <2>2, <2>5 DEF Outcome
  <2> QED  BY <1>1, <1>2, <1>4, <1>10, <2>1, <2>2, <2>4, <2>6, <2>7, Primed DEF TypeOK
<1>12. CASE c \notin world.bad /\ world.super[c] # NoClass /\ layout[world.super[c]] = NoLayout
  <2>1. crashed' = TRUE /\ todo' = <<>> /\ state' = state /\ layout' = layout /\ status' = status
    BY <1>12 DEF LinkOrdinary, c, linked
  <2>2. StackSound(state', hier', status', todo')
    BY <2>1 DEF StackSound
  <2>3. Outcome(state', hier', status', todo', asked', crashed', made')
    BY <1>1, <1>7, <2>1 DEF Outcome
  <2> QED  BY <1>1, <1>2, <1>4, <2>1, <2>2, <2>3, Primed DEF TypeOK
<1>13. CASE c \notin world.bad /\ ~(world.super[c] # NoClass /\ layout[world.super[c]] = NoLayout)
  <2>1. /\ state' = linked.state /\ layout' = [layout EXCEPT ![c] = LayoutOf(world, layout, c)]
        /\ status' = 0 /\ todo' = Tail(todo) /\ crashed' = crashed
    BY <1>13 DEF LinkOrdinary, Return, c, linked
  <2>2. Later(state, state') /\ OthersKept(state')
    BY <1>4, <1>8, <2>1
  <2>3. StackSound(state', hier', status', todo')
    BY <1>1, <1>2, <1>4, <2>1, <2>2, PopFrame DEF c
  <2>4. /\ layout' = [d \in Classes |-> layout'[d]]
        /\ \A d \in Classes : d # c => layout'[d] = layout[d]
    <3> DEFINE l == LayoutOf(world, layout, c)
    <3>1. layout = [d \in Classes |-> layout[d]] /\ layout' = [layout EXCEPT ![c] = l]
      BY <1>2, <2>1 DEF TypeOK
    <3> HIDE DEF l
    <3> QED  BY <1>3, <3>1 DEF c
  <2>5. LinkedSound(state', layout')
    <3>1. \A d \in Classes : layout'[d] = layout[d] \/ (d \in Ordinary /\ state'[d] = "LINKED")
      BY <1>3, <1>4, <2>1, <2>4
    <3>2. \A d \in Ordinary : state'[d] = "LINKED" /\ state[d] = "LOADED" => \A s \in Above(world, d) : state[s] # "LOADED"
      BY <1>4, <1>6, <2>1
    <3> QED  BY <1>2, <2>2, <3>1, <3>2, LinkedStep
  <2>6. Outcome(state', hier', status', todo', asked', crashed', made')
    BY <1>1, <1>3, <1>4, <1>5, <1>7, <1>10, <2>1 DEF Outcome
  <2> QED  BY <1>1, <1>2, <1>4, <1>10, <2>1, <2>3, <2>4, <2>5, <2>6, Primed DEF TypeOK
<1> QED  BY <1>11, <1>12, <1>13


LEMMA LinkBaseStep ==
  ASSUME IInv, LinkBase
  PROVE  IInv'
<1>1. /\ todo # <<>> /\ Top.at = "interfaces" /\ status = 0 /\ status' = 0 /\ IsArray(world, Top.c)
      /\ state' = [state EXCEPT ![Top.c] = "LINKED"]
      /\ todo' = <<Enter(base_component(world, Top.c))>> \o GoTo("array")
      /\ UNCHANGED <<world, made, hier, layout, asked, crashed>>
  BY DEF LinkBase
<1>2. /\ TypeOK /\ LinkedSound(state, layout) /\ StackSound(state, hier, status, todo)
      /\ Outcome(state, hier, status, todo, asked, crashed, made)
  BY DEF IInv
<1>3. /\ FrameSound(state, hier, status, Top, TRUE, 1 = Len(todo))
      /\ Top \in Frames /\ Top.c \in Classes /\ Top.k \in Nat /\ Top.c \notin Ordinary
  BY <1>1, TopSound DEF IsArray, Ordinary
<1> DEFINE g == [Top EXCEPT !.at = "array"]
           c == base_component(world, Top.c)
<1>4. GoTo("array") = Changed(g)
  BY <1>1, <1>2, TopIs DEF TypeOK, Changed, GoTo
<1>5. g \in Frames /\ g.c = Top.c /\ g.at = "array"
  BY <1>1, <1>3 DEF Frames
<1>6. todo' = Called(c, g)
  BY <1>1, <1>4 DEF Called
<1> HIDE DEF g
<1>7. asked = todo[Len(todo)].c /\ asked \in made /\ ~crashed
  BY <1>1, ReturnIs, TailOf DEF IInv, Outcome
<1>8. c \in Ordinary
  BY <1>1, <1>2, <1>3, BaseIs
<1>9. c = Callee(g)
  BY <1>5 DEF Callee
<1>10. /\ state' \in [Classes -> States]
       /\ \A d \in Classes : d # Top.c => state'[d] = state[d]
  BY <1>1, <1>2 DEF TypeOK, States
<1>11. Later(state, state') /\ OthersKept(state') /\ \A d \in Ordinary : state'[d] = state[d]
  <2>1. \A d \in Ordinary : state'[d] = state[d]
    BY <1>3, <1>10 DEF Ordinary
  <2>2. OthersKept(state')
    BY <1>1, <1>10, OnlyTop
  <2> QED  BY <2>1, <2>2 DEF Later
<1>12. FrameSound(state', hier, 0, g, FALSE, 1 = Len(todo))
  BY <1>1, <1>3, <1>5 DEF FrameSound, Passed
<1>13. IsArray(world, g.c) /\ c = base_component(world, g.c)
  BY <1>1, <1>5
<1> HIDE DEF c
<1>14. todo' \in Seq(Frames) /\ todo' # <<>> /\ StackSound(state', hier, 0, todo') /\ todo'[Len(todo')].c = asked
  <2>1. todo # <<>> /\ StackSound(state, hier, status, todo) /\ TypeOK
    BY <1>1, <1>2
  <2>2. g \in Frames /\ g.c = Top.c /\ Top.at # "array" /\ (g.at = "interfaces" => g.k > 0)
    BY <1>1, <1>5
  <2>3. todo' \in Seq(Frames) /\ todo' # <<>> /\ StackSound(state', hier, 0, todo') /\ todo'[Len(todo')].c = todo[Len(todo)].c
    BY <1>6, <1>8, <1>9, <1>11, <1>12, <1>13, <2>1, <2>2, PushCall
  <2> QED  BY <1>7, <2>3
<1>15. Outcome(state', hier', status', todo', asked', crashed', made')
  BY <1>1, <1>7, <1>14 DEF Outcome
<1>16. LinkedSound(state', layout')
  <2>1. \A d \in Classes : layout'[d] = layout[d] \/ (d \in Ordinary /\ state'[d] = "LINKED")
    BY <1>1
  <2> QED  BY <1>2, <1>11, <2>1, LinkedStep
<1>17. StackSound(state', hier', status', todo')
  BY <1>1, <1>14
<1> QED  BY <1>1, <1>2, <1>10, <1>14, <1>15, <1>16, <1>17, Primed DEF TypeOK

LEMMA LinkArrayStep ==
  ASSUME IInv, LinkArray
  PROVE  IInv'
<1> DEFINE a == Top.c
           st == IF status = 0 THEN "LINKED" ELSE "LINKAGE_ERROR"
<1>1. /\ todo # <<>> /\ Top.at = "array" /\ status' = status /\ todo' = Tail(todo)
      /\ state' = ArraysBecome(st, base_component(world, a))
      /\ hier' = [hier EXCEPT ![a] = setup_super_hierarchy(world, hier, a)]
      /\ UNCHANGED <<world, made, layout, asked, crashed>>
  BY DEF LinkArray, Return
<1>2. /\ TypeOK /\ LinkedSound(state, layout) /\ StackSound(state, hier, status, todo)
      /\ Outcome(state, hier, status, todo, asked, crashed, made)
  BY DEF IInv
<1>3. Top \in Frames /\ a \in Classes /\ IsArray(world, a) /\ Len(todo) = 1
  BY <1>1, TopSound DEF FrameSound
<1>4. todo' = <<>> /\ asked = a /\ asked \in made /\ ~crashed
  <2>1. Tail(todo) = <<>>
    BY <1>1, <1>2, <1>3, TailOf
  <2> QED  BY <1>1, <2>1, ReturnIs
<1>5. state' \in [Classes -> States] /\ state'[a] = st /\ \A d \in Ordinary : state'[d] = state[d]
  <2>1. state \in [Classes -> States] /\ st \in States
    BY <1>2 DEF TypeOK, States
  <2>2. a \in ArraysOver(world, base_component(world, a)) \intersect made
    BY <1>2, <1>3, <1>4, BaseIs
  <2>3. \A d \in Ordinary : d \notin ArraysOver(world, base_component(world, a))
    BY DEF ArraysOver, Ordinary
  <2> HIDE DEF st, a
  <2> QED  BY <1>1, <1>3, <2>1, <2>2, <2>3 DEF ArraysBecome, Ordinary
<1>6. hier' \in [Classes -> Seq(Classes)] /\ hier'[a] # <<>>
  <2>1. /\ setup_super_hierarchy(world, hier, a) \in Seq(Classes) /\ setup_super_hierarchy(world, hier, a) # <<>>
        /\ hier \in [Classes -> Seq(Classes)]
    BY <1>2, <1>3, HierarchyIs DEF TypeOK
  <2> HIDE DEF a
  <2> QED  BY <1>1, <1>3, <2>1
<1>7. Later(state, state')
  BY <1>5 DEF Later
<1>8. LinkedSound(state', layout')
  <2>1. \A d \in Classes : layout'[d] = layout[d] \/ (d \in Ordinary /\ state'[d] = "LINKED")
    BY <1>1
  <2> QED  BY <1>2, <1>5, <1>7, <2>1, LinkedStep
<1>9. StackSound(state', hier', status', todo')
  BY <1>4 DEF StackSound
<1>10. Outcome(state', hier', status', todo', asked', crashed', made')
  <2>1. asked # NoClass
    <3>1. NoClass \notin Classes
      BY Zenon, <1>2, HierarchyAssumption DEF TypeOK, Classes
    <3> QED  BY <1>3, <1>4, <3>1
  <2>2. status # 0 => \E b \in Over(Analysed(world, asked)) : Blamed(state', b)
    <3> SUFFICES ASSUME status # 0  PROVE \E b \in Over(Analysed(world, asked)) : Blamed(state', b)
      OBVIOUS
    <3>1. \E b \in Over(Analysed(world, asked)) : Blamed(state, b)
      BY <1>2, <1>4, <2>1 DEF Outcome
    <3> HIDE DEF a
    <3> QED  BY <1>2, <1>3, <1>4, <1>5, <1>7, <3>1, OutcomeStep
  <2> QED  BY <1>1, <1>4, <1>5, <1>6, <2>2 DEF Outcome
<1>11. todo' \in Seq(Frames)
  BY <1>4
<1> QED  BY <1>1, <1>2, <1>5, <1>6, <1>8, <1>9, <1>10, <1>11, Primed DEF TypeOK

LEMMA SameIInv ==
  ASSUME IInv, UNCHANGED <<world, classes, linking>>
  PROVE  IInv'
<1>1. UNCHANGED <<world, made, state, hier, layout, todo, status, asked, crashed>>
  BY DEF classes, linking
<1> QED  BY <1>1, Primed DEF IInv, TypeOK

LEMMA StepIInv == IInv /\ [Next]_vars => IInv'
<1> SUFFICES ASSUME IInv, [Next]_vars  PROVE IInv'
  OBVIOUS
<1>1. CASE Linking
  BY <1>1, link_classStep, CreateArrayStep, LinkSuperStep, LinkSuperDoneStep, LinkInterfaceStep, LinkOrdinaryStep,
     InterfaceFailedStep, LinkBaseStep, LinkArrayStep DEF Linking, Classes
<1>2. CASE Calling
  <2>1. UNCHANGED <<world, classes, linking>>
    BY <1>2 DEF Calling, Reach, Executes, invokevirtual_impl, invokeinterface_impl, invokespecial_impl,
       invokespecial_resolved_impl, invokevtable_monomorphic_impl, invokeitable_monomorphic_impl,
       invokevtable_polymorphic_impl, invokeitable_polymorphic_impl
  <2> QED  BY <2>1, SameIInv
<1>3. CASE UNCHANGED vars
  BY <1>3, SameIInv DEF vars
<1> QED  BY <1>1, <1>2, <1>3 DEF Next

LEMMA FailureReportedHolds == IInv => FailureReported
<1> SUFFICES ASSUME IInv, AtRest, asked # NoClass
             PROVE  /\ status = 0 => state[asked] = "LINKED" /\ hier[asked] # <<>>
                    /\ status # 0 =>
                         /\ state[asked] = "LINKAGE_ERROR" /\ layout[asked] = NoLayout
                         /\ \E b \in world.bad \intersect Supertypes(world, Analysed(world, asked)) :
                              /\ state[b] = "LINKAGE_ERROR"
                              /\ \A d \in Supertypes(world, Analysed(world, asked)) :
                                   state[d] = "LINKED" /\ b \in Supertypes(world, d) =>
                                     \E e \in Supertypes(world, d) \ {b} :
                                        state[e] = "LINKAGE_ERROR" /\ b \in Supertypes(world, e)
  BY DEF FailureReported
<1>1. /\ TypeOK /\ LinkedSound(state, layout)
      /\ Outcome(state, hier, status, todo, asked, crashed, made)
  BY DEF IInv
<1>2. asked \in Classes
  BY <1>1 DEF TypeOK
<1>3. /\ status = 0 => state[asked] = "LINKED" /\ hier[asked] # <<>>
      /\ status # 0 => state[asked] = "LINKAGE_ERROR" /\ \E b \in Over(Analysed(world, asked)) : Blamed(state, b)
  BY <1>1 DEF Outcome, AtRest
<1>4. state[asked] = "LINKAGE_ERROR" => layout[asked] = NoLayout
  BY <1>1, <1>2 DEF LinkedSound
<1>5. Over(Analysed(world, asked)) \subseteq Ordinary
  BY <1>1, <1>2, AnalysedIs
<1>6. ASSUME NEW b \in Over(Analysed(world, asked)), Blamed(state, b)
      PROVE  /\ b \in world.bad \intersect Supertypes(world, Analysed(world, asked)) /\ state[b] = "LINKAGE_ERROR"
             /\ \A d \in Supertypes(world, Analysed(world, asked)) :
                  state[d] = "LINKED" /\ b \in Supertypes(world, d) =>
                    \E e \in Supertypes(world, d) \ {b} : state[e] = "LINKAGE_ERROR" /\ b \in Supertypes(world, e)
  BY <1>5, <1>6 DEF Blamed, Over
<1> QED  BY <1>3, <1>4, <1>6

(***************************************************************************)
(* link_class (src/vm/linkage.c): for every set of hierarchies, every      *)
(* choice of classes that fail analysis and every order in which classes   *)
(* are linked and arrays made, success means that the class is linked, and *)
(* failure that a class above it failed analysis and that nothing was      *)
(* linked over that one but across an earlier failure.                     *)
(***************************************************************************)
THEOREM FailuresReported == Spec => []FailureReported
<1>1. Init => IInv
  BY InitIInv
<1>2. IInv /\ [Next]_vars => IInv'
  BY StepIInv
<1>3. IInv => FailureReported
  BY FailureReportedHolds
<1> QED  BY <1>1, <1>2, <1>3, PTL DEF Spec


=============================================================================
