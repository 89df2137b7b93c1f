--------------------------- MODULE ClassInitProofs ---------------------------
(***************************************************************************)
(* Proofs about class initialization, for every class hierarchy, every     *)
(* number of threads and every program.                                    *)
(***************************************************************************)
EXTENDS ClassInit, SequenceTheorems, TLAPS

Depth == CHOOSE depth \in [Classes -> 0 .. Cardinality(Classes)] : AreDepths(depth)

(* The inductive invariant is about values rather than variables, so that    *)
(* the lemmas can speak of a stack before and after a step: st, b, r and s   *)
(* are state, by, result[t] and stack[t].                                    *)

AsGoodAs(st, b, t, p) ==
  \/ st[p] \in {"INITIALIZED", "LINKAGE_ERROR"}
  \/ st[p] = "INITIALIZING" /\ b[p] = t

Initializing == {"parents", "clinit"}

(* How far an activation has come. *)
Counted(f) ==
  /\ f.i <= Len(Parents[f.cls])
  /\ f.at \in {"enter", "linking", "waiting"} => f.i = 0
  /\ f.at = "clinit" => f.i = Len(Parents[f.cls])

(* What the state of the classes has to be for an activation. *)
Backed(st, b, t, f) ==
  /\ f.at = "waiting" => st[f.cls] \in {"INITIALIZING", "INITIALIZED", "LINKAGE_ERROR"}
  /\ f.at = "link" /\ f.i > 0 => st[f.cls] = "LOADED"
  /\ f.at \in Initializing => st[f.cls] = "INITIALIZING" /\ b[f.cls] = t
  /\ f.at \in Initializing => \A k \in 1 .. f.i - 1 : AsGoodAs(st, b, t, Parents[f.cls][k])
  /\ f.at = "clinit" => \A k \in 1 .. f.i : AsGoodAs(st, b, t, Parents[f.cls][k])

(* g is an activation that f waits for. *)
Calls(f, g) ==
  /\ f.at \notin {"enter", "waiting"}
  /\ f.at = "linking" => g.at = "link" /\ g.cls = f.cls
  /\ f.at \in {"link", "parents"} => /\ f.i > 0
                                     /\ g.cls = Parents[f.cls][f.i]
                                     /\ g.at = "link" <=> f.at = "link"

(* Two activations of a stack, f further out than g: link_class calls        *)
(* nothing but itself, on ever lower depths, and no class is initialized     *)
(* twice.                                                                    *)
Apart(f, g) ==
  /\ f.at = "link" => g.at = "link" /\ Depth[g.cls] < Depth[f.cls]
  /\ f.at \in Initializing /\ g.at \in Initializing => f.cls # g.cls

(* What the last call has left to the activation that made it. *)
Returned(st, b, r, t, f) ==
  /\ f.at = "parents" /\ f.i > 0 => AsGoodAs(st, b, t, Parents[f.cls][f.i])
  /\ f.at = "linking" /\ r = 1 => st[f.cls] = "LINKAGE_ERROR"

FramesSound(st, b, t, s) ==
  /\ \A n \in 1 .. Len(s) : Counted(s[n]) /\ Backed(st, b, t, s[n])
  /\ \A n \in 1 .. Len(s) - 1 : Calls(s[n], s[n + 1])
  /\ \A m, n \in 1 .. Len(s) : m < n => Apart(s[m], s[n])

StackSound(st, b, r, t, s) ==
  /\ FramesSound(st, b, t, s)
  /\ s # <<>> => Returned(st, b, r, t, s[Len(s)])

(* Only an executing <clinit> and the busy wait lose the interpreter. *)
Suspended ==
  \A t \in Threads : t # running /\ stack[t] # <<>> => Top(t).at \in {"clinit", "waiting"}

IInv ==
  /\ TypeOK
  /\ \A t \in Threads : StackSound(state, by, result[t], t, stack[t])
  /\ Suspended

-----------------------------------------------------------------------------
LEMMA DepthsExist ==
  /\ \A c \in Classes : Depth[c] \in Int
  /\ \A c \in Classes : \A i \in 1 .. Len(Parents[c]) : Depth[Parents[c][i]] < Depth[c]
<1>1. Depth \in [Classes -> 0 .. Cardinality(Classes)] /\ AreDepths(Depth)
  BY HierarchyAssumption DEF Depth
<1> QED  BY <1>1 DEF AreDepths

(* How classes may change in a step. *)
Evolution(st, b, st2, b2) ==
  \A c \in Classes :
    /\ st2[c] # st[c] =>
         <<st[c], st2[c]>> \in {<<"LOADED", "LINKED">>, <<"LOADED", "LINKAGE_ERROR">>,
           <<"LINKED", "INITIALIZING">>, <<"INITIALIZING", "INITIALIZED">>,
           <<"INITIALIZING", "LINKAGE_ERROR">>}
    /\ st[c] \notin {"LOADED", "LINKED"} => b2[c] = b[c]

LEMMA NoEvolution ==
  ASSUME NEW st, NEW b  PROVE Evolution(st, b, st, b)
BY DEF Evolution

(* What is as good as initialized stays so. *)
LEMMA AsGoodAsStays ==
  ASSUME NEW st, NEW b, NEW st2, NEW b2, Evolution(st, b, st2, b2),
         NEW t, NEW p \in Classes, AsGoodAs(st, b, t, p)
  PROVE  AsGoodAs(st2, b2, t, p)
BY DEF Evolution, AsGoodAs

LEMMA ParentIsClass ==
  ASSUME NEW c \in Classes, NEW k \in 1 .. Len(Parents[c])
  PROVE  Parents[c][k] \in Classes
BY ClassesAssumption

(* An activation whose class does not change, unless that does not matter to *)
(* it, keeps what it needs.                                                  *)
LEMMA BackedStays ==
  ASSUME NEW st, NEW b, NEW st2, NEW b2, Evolution(st, b, st2, b2),
         NEW t, NEW f \in Activations, Counted(f), Backed(st, b, t, f),
         f.at \in Initializing \cup {"link"} => st2[f.cls] = st[f.cls]
  PROVE  Backed(st2, b2, t, f)
<1>1. f.cls \in Classes /\ f.i \in Nat /\ f.i <= Len(Parents[f.cls]) /\ Len(Parents[f.cls]) \in Nat
  BY ClassesAssumption DEF Activations, Counted
<1>2. \A k \in 1 .. f.i : AsGoodAs(st, b, t, Parents[f.cls][k]) => AsGoodAs(st2, b2, t, Parents[f.cls][k])
  <2> TAKE k \in 1 .. f.i
  <2>1. Parents[f.cls][k] \in Classes
    BY <1>1, ParentIsClass
  <2> QED  BY <2>1, AsGoodAsStays
<1>3. f.at = "waiting" => st2[f.cls] \in {"INITIALIZING", "INITIALIZED", "LINKAGE_ERROR"}
  BY <1>1 DEF Backed, Evolution
<1>4. f.at \in Initializing => st2[f.cls] = "INITIALIZING" /\ b2[f.cls] = t
  BY <1>1 DEF Backed, Evolution
<1>5. f.at = "link" /\ f.i > 0 => st2[f.cls] = "LOADED"
  BY DEF Backed
<1>6. f.at \in Initializing => \A k \in 1 .. f.i - 1 : AsGoodAs(st2, b2, t, Parents[f.cls][k])
  <2>1. \A k \in 1 .. f.i - 1 : k \in 1 .. f.i
    BY <1>1
  <2> QED  BY <1>2, <2>1 DEF Backed
<1>7. f.at = "clinit" => \A k \in 1 .. f.i : AsGoodAs(st2, b2, t, Parents[f.cls][k])
  BY <1>2 DEF Backed
<1> QED  BY <1>3, <1>4, <1>5, <1>6, <1>7 DEF Backed

(* Activations that differ in the C local only. *)
Alike(f, g) == f.cls = g.cls /\ f.at = g.at /\ f.i = g.i

(* The outermost K activations of a stack stay right when the classes        *)
(* evolve without touching those that matter to them.                        *)
LEMMA FramesStay ==
  ASSUME NEW st, NEW b, NEW st2, NEW b2, Evolution(st, b, st2, b2),
         NEW t, NEW s \in Seq(Activations), NEW s2 \in Seq(Activations), FramesSound(st, b, t, s),
         NEW K \in Nat, K <= Len(s), K = Len(s2), \A n \in 1 .. K : Alike(s2[n], s[n]),
         \A n \in 1 .. K : s[n].at \in Initializing \cup {"link"} => st2[s[n].cls] = st[s[n].cls]
  PROVE  FramesSound(st2, b2, t, s2)
<1>1. \A n \in 1 .. K : n \in 1 .. Len(s) /\ s[n] \in Activations /\ s2[n] \in Activations
  OBVIOUS
<1>2. ASSUME NEW n \in 1 .. K  PROVE Counted(s2[n]) /\ Backed(st2, b2, t, s2[n])
  <2>1. Counted(s[n]) /\ Backed(st, b, t, s[n])
    BY <1>1 DEF FramesSound
  <2>2. Counted(s2[n]) /\ Backed(st, b, t, s2[n])
    BY <2>1 DEF Alike, Counted, Backed
  <2>3. s2[n].at \in Initializing \cup {"link"} => st2[s2[n].cls] = st[s2[n].cls]
    BY DEF Alike
  <2> QED  BY <1>1, <2>2, <2>3, BackedStays
<1>3. ASSUME NEW n \in 1 .. K - 1  PROVE Calls(s2[n], s2[n + 1])
  <2>1. n \in 1 .. Len(s) - 1 /\ n \in 1 .. K /\ n + 1 \in 1 .. K
    OBVIOUS
  <2>2. Calls(s[n], s[n + 1])
    BY <2>1 DEF FramesSound
  <2> QED  BY <2>1, <2>2 DEF Alike, Calls
<1>4. ASSUME NEW m \in 1 .. K, NEW n \in 1 .. K, m < n  PROVE Apart(s2[m], s2[n])
  <2>1. Apart(s[m], s[n])
    BY <1>1, <1>4 DEF FramesSound
  <2> QED  BY <2>1 DEF Alike, Apart
<1> QED  BY <1>2, <1>3, <1>4 DEF FramesSound

-----------------------------------------------------------------------------
LEMMA FrontIs ==
  ASSUME NEW S, NEW s \in Seq(S), s # <<>>
  PROVE  /\ Front(s) \in Seq(S) /\ Len(Front(s)) = Len(s) - 1 /\ Len(s) \in Nat \ {0}
         /\ \A n \in 1 .. Len(s) - 1 : Front(s)[n] = s[n]
         /\ s[Len(s)] \in S
<1>1. Len(s) \in Nat \ {0} /\ Len(s) \in 1 .. Len(s) /\ s[Len(s)] \in S
  BY EmptySeq
<1>2. \A i \in 1 .. Len(s) - 1 : s[i] \in S
  BY <1>1, LenProperties
<1> DEFINE k == Len(s) - 1
<1>3. 1 \in Int /\ k \in Int /\ k \in Nat
  BY <1>1
<1>4. \A i \in 1 .. k : s[i] \in S
  BY <1>2
<1> HIDE DEF k
<1>5. /\ SubSeq(s, 1, k) \in Seq(S) /\ Len(SubSeq(s, 1, k)) = k
      /\ \A i \in 1 .. k : SubSeq(s, 1, k)[i] = s[i]
  BY <1>3, <1>4
<1> QED  BY <1>1, <1>5 DEF Front, k

LEMMA ReplaceIs ==
  ASSUME NEW S, NEW s \in Seq(S), s # <<>>, NEW a \in S
  PROVE  /\ ReplaceAt(s, Len(s), a) \in Seq(S) /\ Len(ReplaceAt(s, Len(s), a)) = Len(s)
         /\ Len(s) \in Nat \ {0} /\ ReplaceAt(s, Len(s), a) # <<>>
         /\ \A n \in 1 .. Len(s) : ReplaceAt(s, Len(s), a)[n] = IF n = Len(s) THEN a ELSE s[n]
         /\ s[Len(s)] \in S
<1>1. Len(s) \in Nat \ {0} /\ Len(s) \in 1 .. Len(s) /\ s[Len(s)] \in S
  BY EmptySeq
<1> QED  BY <1>1, ExceptSeq DEF ReplaceAt

LEMMA LastReplaced ==
  ASSUME NEW S, NEW s \in Seq(S), s # <<>>, NEW a \in S
  PROVE  ReplaceAt(s, Len(s), a)[Len(ReplaceAt(s, Len(s), a))] = a
<1>1. Len(ReplaceAt(s, Len(s), a)) = Len(s) /\ Len(s) \in Nat \ {0}
  BY ReplaceIs
<1>2. Len(s) \in 1 .. Len(s)
  BY <1>1
<1>3. \A n \in 1 .. Len(s) : ReplaceAt(s, Len(s), a)[n] = IF n = Len(s) THEN a ELSE s[n]
  BY ReplaceIs
<1> QED  BY <1>1, <1>2, <1>3

LEMMA AppendIs ==
  ASSUME NEW S, NEW s \in Seq(S), NEW a \in S
  PROVE  /\ Append(s, a) \in Seq(S) /\ Len(Append(s, a)) = Len(s) + 1 /\ Len(s) \in Nat
         /\ Append(s, a) # <<>>
         /\ \A n \in 1 .. Len(s) + 1 : Append(s, a)[n] = IF n = Len(s) + 1 THEN a ELSE s[n]
OBVIOUS

(* The class of the innermost activation may change when that is linking it, *)
(* initializing it, or about to.                                             *)
LEMMA OuterUntouched ==
  ASSUME NEW st, NEW b, NEW t, NEW s \in Seq(Activations), s # <<>>, FramesSound(st, b, t, s),
         NEW st2, \A c \in Classes : c # s[Len(s)].cls => st2[c] = st[c],
         st2 # st => /\ s[Len(s)].at = "link" => st[s[Len(s)].cls] = "LOADED"
                     /\ st[s[Len(s)].cls] = "INITIALIZING" => s[Len(s)].at \in Initializing
  PROVE  \A n \in 1 .. Len(s) - 1 :
           s[n].at \in Initializing \cup {"link"} => st2[s[n].cls] = st[s[n].cls]
<1> SUFFICES ASSUME NEW n \in 1 .. Len(s) - 1, s[n].at \in Initializing \cup {"link"},
                    st2[s[n].cls] # st[s[n].cls]
             PROVE  FALSE
  OBVIOUS
<1>1. n \in 1 .. Len(s) /\ Len(s) \in 1 .. Len(s) /\ n < Len(s)
  BY EmptySeq
<1>2. s[n].cls \in Classes /\ s[n].cls = s[Len(s)].cls /\ st2 # st
  <2>1. s[n] \in Activations
    BY <1>1
  <2> QED  BY <2>1 DEF Activations
<1>3. Apart(s[n], s[Len(s)]) /\ Backed(st, b, t, s[n])
  BY <1>1 DEF FramesSound
<1>4. CASE s[n].at = "link"
  <2>1. Depth[s[Len(s)].cls] < Depth[s[n].cls]
    BY <1>3, <1>4 DEF Apart
  <2> QED  BY <1>2, <2>1, DepthsExist
<1>5. CASE s[n].at \in Initializing
  BY <1>2, <1>3, <1>5 DEF Apart, Backed, Initializing
<1> QED  BY <1>4, <1>5

(* An activation ends: what it leaves behind is what its caller needs. *)
LEMMA StackPop ==
  ASSUME NEW st, NEW b, NEW st2, NEW b2, Evolution(st, b, st2, b2),
         NEW t, NEW s \in Seq(Activations), s # <<>>, FramesSound(st, b, t, s),
         \A c \in Classes : c # s[Len(s)].cls => st2[c] = st[c],
         st2 # st => /\ s[Len(s)].at = "link" => st[s[Len(s)].cls] = "LOADED"
                     /\ st[s[Len(s)].cls] = "INITIALIZING" => s[Len(s)].at \in Initializing,
         NEW r, s[Len(s)].at = "link" /\ r = 1 => st2[s[Len(s)].cls] = "LINKAGE_ERROR",
         s[Len(s)].at # "link" => AsGoodAs(st2, b2, t, s[Len(s)].cls)
  PROVE  Front(s) \in Seq(Activations) /\ StackSound(st2, b2, r, t, Front(s))
<1> DEFINE s2 == Front(s)
           K == Len(s) - 1
<1>1. /\ s2 \in Seq(Activations) /\ Len(s2) = K /\ Len(s) \in Nat \ {0}
      /\ \A n \in 1 .. K : s2[n] = s[n]
  BY FrontIs
<1>2. \A n \in 1 .. K : s[n].at \in Initializing \cup {"link"} => st2[s[n].cls] = st[s[n].cls]
  BY OuterUntouched
<1>3. K \in Nat /\ K <= Len(s)
  BY <1>1
<1> HIDE DEF s2
<1>4. FramesSound(st2, b2, t, s2)
  BY <1>1, <1>2, <1>3, FramesStay DEF Alike
<1>5. ASSUME s2 # <<>>  PROVE Returned(st2, b2, r, t, s2[Len(s2)])
  <2>1. K \in 1 .. Len(s) - 1 /\ s2[Len(s2)] = s[K] /\ K + 1 = Len(s)
    BY <1>1, <1>3, <1>5, EmptySeq
  <2>2. Calls(s[K], s[Len(s)])
    BY <2>1 DEF FramesSound
  <2> QED  BY <2>1, <2>2 DEF Returned, Calls
<1> QED  BY <1>1, <1>4, <1>5 DEF StackSound, s2

(* An activation moves on. *)
LEMMA FramesReplace ==
  ASSUME NEW st, NEW b, NEW st2, NEW b2, Evolution(st, b, st2, b2),
         NEW t, NEW s \in Seq(Activations), s # <<>>, FramesSound(st, b, t, s),
         \A c \in Classes : c # s[Len(s)].cls => st2[c] = st[c],
         st2 # st => s[Len(s)].at # "link" /\ st[s[Len(s)].cls] # "INITIALIZING",
         NEW a \in Activations, a.cls = s[Len(s)].cls, a.at = "link" <=> s[Len(s)].at = "link",
         Counted(a), Backed(st2, b2, t, a),
         a.at \in Initializing => s[Len(s)].at \in Initializing \/ st[a.cls] # "INITIALIZING"
  PROVE  /\ ReplaceAt(s, Len(s), a) \in Seq(Activations)
         /\ FramesSound(st2, b2, t, ReplaceAt(s, Len(s), a))
<1> DEFINE s2 == ReplaceAt(s, Len(s), a)
           L == Len(s)
           s1 == Front(s)
           K == Len(s) - 1
<1>1. /\ s2 \in Seq(Activations) /\ Len(s2) = L /\ L \in Nat \ {0}
      /\ \A n \in 1 .. L : s2[n] = IF n = L THEN a ELSE s[n]
  BY ReplaceIs
<1>2. /\ s1 \in Seq(Activations) /\ Len(s1) = K /\ K \in Nat /\ K <= Len(s)
      /\ \A n \in 1 .. K : s1[n] = s[n]
  BY FrontIs
<1>3. FramesSound(st2, b2, t, s1)
  <2>1. \A n \in 1 .. K : s[n].at \in Initializing \cup {"link"} => st2[s[n].cls] = st[s[n].cls]
    BY OuterUntouched
  <2> HIDE DEF s1
  <2> QED  BY <1>2, <2>1, FramesStay DEF Alike
<1>4. \A n \in 1 .. K : n \in 1 .. L /\ s2[n] = s1[n] /\ s2[n] = s[n] /\ s[n] \in Activations
  BY <1>1, <1>2
<1>5. s2[L] = a /\ L \in 1 .. L /\ L = K + 1
  BY <1>1
<1> HIDE DEF s2, s1, K
<1>6. ASSUME NEW n \in 1 .. L  PROVE Counted(s2[n]) /\ Backed(st2, b2, t, s2[n])
  <2>1. CASE n = L
    BY <1>5, <2>1
  <2>2. CASE n # L
    <3>1. n \in 1 .. K
      BY <1>2, <1>5, <2>2
    <3> QED  BY <1>2, <1>3, <1>4, <3>1 DEF FramesSound
  <2> QED  BY <2>1, <2>2
<1>7. ASSUME NEW n \in 1 .. L - 1  PROVE Calls(s2[n], s2[n + 1])
  <2>1. n \in 1 .. K /\ n \in 1 .. Len(s) - 1
    BY <1>2, <1>5
  <2>2. Calls(s[n], s[n + 1])
    BY <2>1 DEF FramesSound
  <2>3. CASE n = K
    BY <1>4, <1>5, <2>1, <2>2, <2>3 DEF Calls
  <2>4. CASE n # K
    <3>1. n + 1 \in 1 .. K
      BY <1>2, <2>1, <2>4
    <3> QED  BY <1>4, <2>1, <2>2, <3>1
  <2> QED  BY <2>3, <2>4
<1>8. ASSUME NEW m \in 1 .. L, NEW n \in 1 .. L, m < n  PROVE Apart(s2[m], s2[n])
  <2>1. m \in 1 .. K /\ m \in 1 .. Len(s) /\ n \in 1 .. Len(s)
    BY <1>2, <1>5, <1>8
  <2>2. Apart(s[m], s[n]) /\ Backed(st, b, t, s[m])
    BY <1>8, <2>1 DEF FramesSound
  <2>3. CASE n = L
    <3>1. s2[m] = s[m] /\ s2[n] = a /\ a.cls = s[n].cls
      BY <1>4, <1>5, <2>1, <2>3
    <3>2. s[m].at \in Initializing => st[s[m].cls] = "INITIALIZING"
      BY <2>2 DEF Backed
    <3> QED  BY <2>2, <2>3, <3>1, <3>2 DEF Apart
  <2>4. CASE n # L
    <3>1. n \in 1 .. K
      BY <1>2, <1>5, <2>4
    <3> QED  BY <1>4, <2>1, <2>2, <3>1
  <2> QED  BY <2>3, <2>4
<1> QED  BY <1>1, <1>6, <1>7, <1>8 DEF FramesSound, s2

(* A call. *)
LEMMA FramesPush ==
  ASSUME NEW st, NEW b, NEW t, NEW s \in Seq(Activations), FramesSound(st, b, t, s),
         NEW a \in Activations, a.i = 0, a.at \in {"enter", "link"},
         s # <<>> => Calls(s[Len(s)], a) /\ (s[Len(s)].at = "link" => s[Len(s)].i <= Len(Parents[s[Len(s)].cls]))
  PROVE  Append(s, a) \in Seq(Activations) /\ FramesSound(st, b, t, Append(s, a))
<1> DEFINE s2 == Append(s, a)
           K == Len(s)
<1>1. /\ s2 \in Seq(Activations) /\ Len(s2) = K + 1 /\ K \in Nat
      /\ \A n \in 1 .. K + 1 : s2[n] = IF n = K + 1 THEN a ELSE s[n]
  BY AppendIs
<1>2. \A n \in 1 .. K : n \in 1 .. K + 1 /\ s2[n] = s[n] /\ s[n] \in Activations
  BY <1>1
<1>3. s2[K + 1] = a /\ K + 1 \in 1 .. K + 1
  BY <1>1
<1> HIDE DEF s2
<1>4. Counted(a) /\ Backed(st, b, t, a)
  <2>1. a.cls \in Classes
    BY DEF Activations
  <2>2. Len(Parents[a.cls]) \in Nat
    BY <2>1, ClassesAssumption
  <2> QED  BY <2>2 DEF Counted, Backed, Initializing
<1>5. ASSUME NEW n \in 1 .. K + 1  PROVE Counted(s2[n]) /\ Backed(st, b, t, s2[n])
  <2>1. CASE n = K + 1
    BY <1>3, <1>4, <2>1
  <2>2. CASE n # K + 1
    <3>1. n \in 1 .. K
      BY <1>1, <2>2
    <3> QED  BY <1>2, <3>1 DEF FramesSound
  <2> QED  BY <2>1, <2>2
<1>6. ASSUME NEW n \in 1 .. K  PROVE Calls(s2[n], s2[n + 1])
  <2>1. CASE n = K
    BY <1>1, <1>2, <1>3, <2>1
  <2>2. CASE n # K
    <3>1. n + 1 \in 1 .. K /\ n \in 1 .. K - 1
      BY <1>1, <2>2
    <3> QED  BY <1>2, <3>1 DEF FramesSound
  <2> QED  BY <2>1, <2>2
<1>7. ASSUME NEW m \in 1 .. K + 1, NEW n \in 1 .. K + 1, m < n  PROVE Apart(s2[m], s2[n])
  <2>1. m \in 1 .. K
    BY <1>1, <1>7
  <2>2. CASE n # K + 1
    <3>1. n \in 1 .. K
      BY <1>1, <2>2
    <3> QED  BY <1>2, <1>7, <2>1, <3>1 DEF FramesSound
  <2>3. CASE n = K + 1
    <3>1. s2[m] = s[m] /\ s2[n] = a /\ s # <<>> /\ K \in 1 .. K /\ s[K] \in Activations
      BY <1>1, <1>2, <1>3, <2>1, <2>3
    <3>2. Calls(s[K], a)
      BY <3>1
    <3>3. ASSUME s[K].at = "link"  PROVE a.at = "link" /\ Depth[a.cls] < Depth[s[K].cls]
      <4>1. /\ a.at = "link" /\ s[K].i > 0 /\ s[K].i <= Len(Parents[s[K].cls])
            /\ a.cls = Parents[s[K].cls][s[K].i]
        BY <3>1, <3>2, <3>3 DEF Calls
      <4>2. s[K].cls \in Classes /\ s[K].i \in Nat
        BY <3>1 DEF Activations
      <4>3. s[K].i \in 1 .. Len(Parents[s[K].cls])
        BY <4>1, <4>2, ClassesAssumption
      <4> QED  BY <4>1, <4>2, <4>3, DepthsExist
    <3>4. ASSUME s[m].at = "link"  PROVE a.at = "link" /\ Depth[a.cls] < Depth[s[m].cls]
      <4>1. CASE m = K
        BY <3>3, <3>4, <4>1
      <4>2. CASE m # K
        <5>1. m < K
          BY <1>1, <2>1, <4>2
        <5>2. Apart(s[m], s[K])
          BY <2>1, <3>1, <5>1 DEF FramesSound
        <5>3. s[K].at = "link" /\ Depth[s[K].cls] < Depth[s[m].cls]
          BY <3>4, <5>2 DEF Apart
        <5>4. a.cls \in Classes /\ s[K].cls \in Classes /\ s[m].cls \in Classes
          BY <1>2, <2>1, <3>1 DEF Activations
        <5> QED  BY <3>3, <5>3, <5>4, DepthsExist
      <4> QED  BY <4>1, <4>2
    <3> QED  BY <3>1, <3>4 DEF Apart, Initializing
  <2> QED  BY <2>2, <2>3
<1> QED  BY <1>1, <1>5, <1>6, <1>7 DEF FramesSound, s2

-----------------------------------------------------------------------------
(* What is known of the activation that executes. *)
LEMMA TopFacts ==
  ASSUME IInv, NEW t \in Threads, stack[t] # <<>>
  PROVE  /\ stack[t] \in Seq(Activations) /\ Len(stack[t]) \in 1 .. Len(stack[t])
         /\ Top(t) = stack[t][Len(stack[t])]
         /\ Top(t) \in Activations
         /\ Top(t).cls \in Classes /\ Top(t).i \in Nat
         /\ Parents[Top(t).cls] \in Seq(Classes) /\ Len(Parents[Top(t).cls]) \in Nat
         /\ FramesSound(state, by, t, stack[t])
         /\ Counted(Top(t)) /\ Backed(state, by, t, Top(t))
         /\ Returned(state, by, result[t], t, Top(t))
<1>1. stack[t] \in Seq(Activations)
  BY DEF IInv, TypeOK
<1>2. Len(stack[t]) \in 1 .. Len(stack[t]) /\ Top(t) \in Activations
  BY <1>1, EmptySeq DEF Top
<1>3. FramesSound(state, by, t, stack[t]) /\ Returned(state, by, result[t], t, Top(t))
  BY DEF IInv, StackSound, Top
<1>4. Counted(Top(t)) /\ Backed(state, by, t, Top(t))
  BY <1>2, <1>3 DEF FramesSound, Top
<1>5. Top(t).cls \in Classes /\ Top(t).i \in Nat
  BY <1>2 DEF Activations
<1>6. Parents[Top(t).cls] \in Seq(Classes) /\ Len(Parents[Top(t).cls]) \in Nat
  BY <1>5, ClassesAssumption
<1> QED  BY <1>1, <1>2, <1>3, <1>4, <1>5, <1>6 DEF Top

(* A suspended thread has no activation of link_class, and those that        *)
(* initialize a class are not disturbed by what another thread does to its   *)
(* own.                                                                      *)
LEMMA OthersStay ==
  ASSUME IInv, Evolution(state, by, state', by'),
         NEW u \in Threads, u # running, NEW s2 \in Seq(Activations),
         Len(s2) = Len(stack[u]), \A n \in 1 .. Len(s2) : Alike(s2[n], stack[u][n]),
         \A c \in Classes : state[c] = "INITIALIZING" /\ by[c] = u => state'[c] = state[c],
         NEW r
  PROVE  StackSound(state', by', r, u, s2)
<1> DEFINE s == stack[u]
<1>1. s \in Seq(Activations) /\ FramesSound(state, by, u, s) /\ Len(s) \in Nat
  BY DEF IInv, TypeOK, StackSound
<1>2. CASE s = <<>>
  <2>1. Len(s2) = 0 /\ s2 = <<>>
    BY <1>2, EmptySeq
  <2> QED  BY <2>1 DEF StackSound, FramesSound
<1>3. CASE s # <<>>
  <2>1. s[Len(s)].at \in {"clinit", "waiting"} /\ Len(s) \in 1 .. Len(s)
    BY <1>3, TopFacts DEF IInv, Suspended, Top
  <2>2. ASSUME NEW n \in 1 .. Len(s), s[n].at \in Initializing \cup {"link"}
        PROVE  state'[s[n].cls] = state[s[n].cls]
    <3>1. s[n].at # "link"
      <4>1. CASE n = Len(s)
        BY <2>1, <4>1
      <4>2. CASE n # Len(s)
        <5>1. Apart(s[n], s[Len(s)])
          BY <1>1, <2>1, <4>2 DEF FramesSound
        <5> QED  BY <2>1, <5>1 DEF Apart
      <4> QED  BY <4>1, <4>2
    <3>2. Backed(state, by, u, s[n]) /\ s[n] \in Activations
      BY <1>1 DEF FramesSound
    <3>3. s[n].cls \in Classes
      BY <3>2 DEF Activations
    <3> QED  BY <2>2, <3>1, <3>2, <3>3 DEF Backed
  <2> HIDE DEF s
  <2>3. FramesSound(state', by', u, s2)
    BY <1>1, <2>2, FramesStay DEF s
  <2>4. s2[Len(s2)].at \in {"clinit", "waiting"}
    BY <2>1 DEF Alike, s
  <2> QED  BY <2>3, <2>4 DEF StackSound, Returned
<1> QED  BY <1>2, <1>3

(* What a step of the running thread t has to show. *)
LEMMA OwnStep ==
  ASSUME IInv, NEW t \in Threads, running = t, running' = running,
         state' \in [Classes -> States], by' \in [Classes -> Threads],
         exc' \in [Threads -> Pending], result' \in [Threads -> {0, 1}],
         Evolution(state, by, state', by'),
         \A c \in Classes : state[c] = "INITIALIZING" /\ state'[c] # state[c] => by[c] = t,
         \A u \in Threads \ {t} : result'[u] = result[u],
         NEW s2 \in Seq(Activations), stack' = [stack EXCEPT ![t] = s2],
         StackSound(state', by', result'[t], t, s2)
  PROVE  IInv'
<1>1. stack \in [Threads -> Seq(Activations)] /\ running \in Threads
  BY DEF IInv, TypeOK
<1>2. \A u \in Threads : stack'[u] = IF u = t THEN s2 ELSE stack[u]
  BY <1>1
<1>3. TypeOK'
  BY <1>1 DEF TypeOK
<1>4. ASSUME NEW u \in Threads  PROVE StackSound(state', by', result'[u], u, stack'[u])
  <2>1. CASE u = t
    BY <1>2, <2>1
  <2>2. CASE u # t
    <3>1. stack'[u] = stack[u] /\ stack[u] \in Seq(Activations)
      BY <1>1, <1>2, <2>2
    <3> QED  BY <2>2, <3>1, OthersStay DEF Alike
  <2> QED  BY <2>1, <2>2
<1>5. Suspended'
  BY <1>2 DEF IInv, Suspended, Top
<1> QED  BY <1>3, <1>4, <1>5 DEF IInv

(* A step that leaves the classes alone. *)
LEMMA OwnStackStep ==
  ASSUME IInv, NEW t \in Threads, running = t, UNCHANGED <<state, by, running>>,
         exc' \in [Threads -> Pending], result' \in [Threads -> {0, 1}],
         \A u \in Threads \ {t} : result'[u] = result[u],
         NEW s2 \in Seq(Activations), stack' = [stack EXCEPT ![t] = s2],
         StackSound(state, by, result'[t], t, s2)
  PROVE  IInv' /\ Evolution(state, by, state', by')
<1>1. Evolution(state, by, state', by')
  BY NoEvolution
<1>2. state' \in [Classes -> States] /\ by' \in [Classes -> Threads]
  BY DEF IInv, TypeOK
<1>3. StackSound(state', by', result'[t], t, s2)
  OBVIOUS
<1> QED  BY <1>1, <1>2, <1>3, OwnStep

(* The running activation returns; the class may have changed. *)
LEMMA AnswerStep ==
  ASSUME IInv, NEW t \in Threads, Active(t), running' = running,
         state' \in [Classes -> States], by' \in [Classes -> Threads], exc' \in [Threads -> Pending],
         Evolution(state, by, state', by'),
         \A c \in Classes : c # Top(t).cls => state'[c] = state[c],
         state' # state => /\ Top(t).at = "link" => state[Top(t).cls] = "LOADED"
                           /\ state[Top(t).cls] = "INITIALIZING" => Top(t).at \in Initializing,
         NEW error \in {0, 1}, Answer(t, error),
         Top(t).at = "link" /\ error = 1 => state'[Top(t).cls] = "LINKAGE_ERROR",
         Top(t).at # "link" => AsGoodAs(state', by', t, Top(t).cls)
  PROVE  IInv'
<1>1. /\ stack[t] # <<>> /\ running = t
      /\ stack' = [stack EXCEPT ![t] = Front(stack[t])]
      /\ result' = [result EXCEPT ![t] = error]
  BY DEF Active, Answer
<1>2. result \in [Threads -> {0, 1}]
  BY DEF IInv, TypeOK
<1>3. /\ result' \in [Threads -> {0, 1}] /\ result'[t] = error
      /\ \A u \in Threads \ {t} : result'[u] = result[u]
  BY <1>1, <1>2
<1>4. /\ stack[t] \in Seq(Activations) /\ Top(t) = stack[t][Len(stack[t])]
      /\ FramesSound(state, by, t, stack[t]) /\ Backed(state, by, t, Top(t))
  BY <1>1, TopFacts
<1>5. Front(stack[t]) \in Seq(Activations) /\ StackSound(state', by', error, t, Front(stack[t]))
  <2> DEFINE s == stack[t]
  <2>1. /\ s \in Seq(Activations) /\ s # <<>> /\ FramesSound(state, by, t, s)
        /\ \A c \in Classes : c # s[Len(s)].cls => state'[c] = state[c]
        /\ state' # state => /\ s[Len(s)].at = "link" => state[s[Len(s)].cls] = "LOADED"
                             /\ state[s[Len(s)].cls] = "INITIALIZING" => s[Len(s)].at \in Initializing
        /\ s[Len(s)].at = "link" /\ error = 1 => state'[s[Len(s)].cls] = "LINKAGE_ERROR"
        /\ s[Len(s)].at # "link" => AsGoodAs(state', by', t, s[Len(s)].cls)
    BY <1>1, <1>4
  <2> HIDE DEF s
  <2>2. Front(s) \in Seq(Activations) /\ StackSound(state', by', error, t, Front(s))
    BY <2>1, StackPop
  <2> QED  BY <2>2 DEF s
<1>6. \A c \in Classes : state[c] = "INITIALIZING" /\ state'[c] # state[c] => by[c] = t
  BY <1>4 DEF Backed
<1> QED  BY <1>1, <1>3, <1>5, <1>6, OwnStep

(* The running activation returns without having changed anything. *)
LEMMA PlainAnswerStep ==
  ASSUME IInv, NEW t \in Threads, Active(t), UNCHANGED <<state, by, running>>,
         exc' \in [Threads -> Pending],
         NEW error \in {0, 1}, Answer(t, error),
         Top(t).at = "link" => error = 0,
         Top(t).at # "link" => AsGoodAs(state, by, t, Top(t).cls)
  PROVE  IInv' /\ Evolution(state, by, state', by')
<1>1. Evolution(state, by, state', by')
  BY NoEvolution
<1>2. state' \in [Classes -> States] /\ by' \in [Classes -> Threads]
  BY DEF IInv, TypeOK
<1> QED  BY <1>1, <1>2, AnswerStep

(* The running activation moves on. *)
LEMMA MoveStep ==
  ASSUME IInv, NEW t \in Threads, Active(t), UNCHANGED <<running, result>>,
         state' \in [Classes -> States], by' \in [Classes -> Threads], exc' \in [Threads -> Pending],
         Evolution(state, by, state', by'),
         \A c \in Classes : c # Top(t).cls => state'[c] = state[c],
         state' # state => Top(t).at # "link" /\ state[Top(t).cls] # "INITIALIZING",
         NEW a \in Activations, a.cls = Top(t).cls, a.at = "link" <=> Top(t).at = "link",
         Counted(a), Backed(state', by', t, a), Returned(state', by', result[t], t, a),
         a.at \in Initializing => Top(t).at \in Initializing \/ state[a.cls] # "INITIALIZING",
         SetTop(t, a)
  PROVE  IInv'
<1>1. /\ stack[t] # <<>> /\ running = t
      /\ stack' = [stack EXCEPT ![t] = ReplaceAt(stack[t], Len(stack[t]), a)]
  BY DEF Active, SetTop
<1>2. result' \in [Threads -> {0, 1}] /\ \A u \in Threads \ {t} : result'[u] = result[u]
  BY DEF IInv, TypeOK
<1>3. /\ stack[t] \in Seq(Activations) /\ Top(t) = stack[t][Len(stack[t])]
      /\ FramesSound(state, by, t, stack[t])
  BY <1>1, TopFacts
<1> DEFINE s2 == ReplaceAt(stack[t], Len(stack[t]), a)
<1>4. s2 \in Seq(Activations) /\ FramesSound(state', by', t, s2)
  BY <1>1, <1>3, FramesReplace
<1>5. s2[Len(s2)] = a
  BY <1>1, <1>3, LastReplaced
<1>6. StackSound(state', by', result'[t], t, s2)
  BY <1>4, <1>5 DEF StackSound
<1>7. \A c \in Classes : state[c] = "INITIALIZING" /\ state'[c] # state[c] => by[c] = t
  OBVIOUS
<1> HIDE DEF s2
<1> QED  BY <1>1, <1>2, <1>4, <1>6, <1>7, OwnStep DEF s2

(* The running activation, become top, calls a. *)
LEMMA CallStep ==
  ASSUME IInv, NEW t \in Threads, Active(t), UNCHANGED <<state, by, running, exc, result>>,
         NEW top \in Activations, top.cls = Top(t).cls, top.at = "link" <=> Top(t).at = "link",
         Counted(top), Backed(state, by, t, top),
         top.at \in Initializing => Top(t).at \in Initializing,
         NEW a \in Activations, a.i = 0, a.at \in {"enter", "link"}, Calls(top, a),
         CallFrom(t, top, a)
  PROVE  IInv' /\ Evolution(state, by, state', by')
<1> DEFINE s1 == ReplaceAt(stack[t], Len(stack[t]), top)
<1>1. stack[t] # <<>> /\ running = t /\ stack' = [stack EXCEPT ![t] = Append(s1, a)]
  BY DEF Active, CallFrom
<1>2. exc' \in [Threads -> Pending] /\ result' \in [Threads -> {0, 1}]
      /\ \A u \in Threads \ {t} : result'[u] = result[u]
  BY DEF IInv, TypeOK
<1>3. /\ stack[t] \in Seq(Activations) /\ Top(t) = stack[t][Len(stack[t])]
      /\ FramesSound(state, by, t, stack[t])
  BY <1>1, TopFacts
<1>4. s1 \in Seq(Activations) /\ FramesSound(state, by, t, s1)
  BY <1>1, <1>3, NoEvolution, FramesReplace
<1>5. s1[Len(s1)] = top
  BY <1>1, <1>3, LastReplaced
<1>6. top.i <= Len(Parents[top.cls])
  BY DEF Counted
<1> HIDE DEF s1
<1>7. Append(s1, a) \in Seq(Activations) /\ FramesSound(state, by, t, Append(s1, a))
  BY <1>4, <1>5, <1>6, FramesPush
<1>8. StackSound(state, by, result'[t], t, Append(s1, a))
  <2>1. Append(s1, a)[Len(Append(s1, a))] = a
    BY <1>4, AppendIs
  <2> QED  BY <1>7, <2>1 DEF StackSound, Returned
<1> QED  BY <1>1, <1>2, <1>7, <1>8, OwnStackStep

(* Bytecode calls a. *)
LEMMA UseStep ==
  ASSUME IInv, NEW t \in Threads, Executes(t), UNCHANGED <<state, by, running, result>>,
         exc' \in [Threads -> Pending],
         NEW a \in Activations, a.i = 0, a.at \in {"enter", "link"}, Call(t, a)
  PROVE  IInv' /\ Evolution(state, by, state', by')
<1>1. running = t /\ stack' = [stack EXCEPT ![t] = Append(stack[t], a)]
  BY DEF Executes, Call
<1>2. result' \in [Threads -> {0, 1}] /\ \A u \in Threads \ {t} : result'[u] = result[u]
  BY DEF IInv, TypeOK
<1>3. stack[t] \in Seq(Activations) /\ FramesSound(state, by, t, stack[t])
  BY DEF IInv, TypeOK, StackSound
<1>4. stack[t] # <<>> => /\ Calls(stack[t][Len(stack[t])], a)
                         /\ stack[t][Len(stack[t])].at # "link"
  BY DEF Executes, Top, Calls
<1>5. Append(stack[t], a) \in Seq(Activations) /\ FramesSound(state, by, t, Append(stack[t], a))
  BY <1>3, <1>4, FramesPush
<1>6. StackSound(state, by, result'[t], t, Append(stack[t], a))
  <2>1. Append(stack[t], a)[Len(Append(stack[t], a))] = a
    BY <1>3, AppendIs
  <2> QED  BY <1>5, <2>1 DEF StackSound, Returned
<1> QED  BY <1>1, <1>2, <1>5, <1>6, OwnStackStep

-----------------------------------------------------------------------------
LEMMA ActivationMoved ==
  ASSUME NEW f \in Activations, NEW place \in Places
  PROVE  LET a == [f EXCEPT !.at = place]
         IN a \in Activations /\ a.cls = f.cls /\ a.at = place /\ a.i = f.i
BY DEF Activations

LEMMA ActivationCounts ==
  ASSUME NEW f \in Activations
  PROVE  LET a == [f EXCEPT !.i = @ + 1]
         IN a \in Activations /\ a.cls = f.cls /\ a.at = f.at /\ a.i = f.i + 1
BY DEF Activations

LEMMA ActivationStarts ==
  ASSUME NEW c \in Classes
  PROVE  /\ Activation(c) \in Activations /\ Activation(c).cls = c
         /\ Activation(c).at = "enter" /\ Activation(c).i = 0
         /\ Linking(c) \in Activations /\ Linking(c).cls = c
         /\ Linking(c).at = "link" /\ Linking(c).i = 0
BY DEF Activation, Linking, Activations, Places

(* Every step of link_class keeps the invariant. *)
LEMMA LinkStep ==
  ASSUME IInv, NEW t \in Threads, link_class(t)
  PROVE  IInv' /\ Evolution(state, by, state', by')
<1> DEFINE f == Top(t)
           c == Top(t).cls
<1>1. /\ Active(t) /\ running = t /\ stack[t] # <<>> /\ f.at = "link"
  BY DEF link_class, LinkReturnAtOnce, LinkParent, LinkGiveUp, LinkMethods, InLink, At, Active
<1>2. /\ f \in Activations /\ c \in Classes /\ f.i \in Nat /\ Len(Parents[c]) \in Nat
      /\ Counted(f) /\ Backed(state, by, t, f)
  BY <1>1, TopFacts
<1>3. /\ state \in [Classes -> States] /\ by \in [Classes -> Threads] /\ exc \in [Threads -> Pending]
  BY DEF IInv, TypeOK
<1>4. InLink(t) => state[c] = "LOADED"
  BY <1>1, <1>2 DEF InLink, Backed
<1> HIDE DEF f, c
<1>5. CASE LinkReturnAtOnce(t)
  <2>1. Answer(t, 0) /\ UNCHANGED <<state, by, exc, running>>
    BY <1>5 DEF LinkReturnAtOnce
  <2> QED  BY <1>1, <1>3, <2>1, PlainAnswerStep DEF f
<1>6. CASE LinkParent(t)
  <2> DEFINE a == AtNextParent(t)
             p == NextParent(t)
  <2>1. /\ CallFrom(t, a, Linking(p)) /\ f.i < Len(Parents[c]) /\ state[c] = "LOADED"
        /\ UNCHANGED <<state, by, exc, result, running>>
    BY <1>4, <1>6 DEF LinkParent, ParentsLeft, f, c
  <2>2. a \in Activations /\ a.cls = c /\ a.at = "link" /\ a.i = f.i + 1
    BY <1>1, <1>2, ActivationCounts DEF AtNextParent, f, c
  <2>3. p = Parents[c][f.i + 1] /\ f.i + 1 \in 1 .. Len(Parents[c])
    BY <1>2, <2>1 DEF NextParent, f, c
  <2>4. p \in Classes
    BY <1>2, <2>3, ParentIsClass
  <2> HIDE DEF a, p
  <2>5. Counted(a) /\ Backed(state, by, t, a)
    BY <1>2, <2>1, <2>2 DEF Counted, Backed, Initializing
  <2>6. /\ Linking(p) \in Activations /\ Linking(p).i = 0 /\ Linking(p).at = "link" /\ Linking(p).cls = p
    BY <2>4, ActivationStarts
  <2>7. Calls(a, Linking(p))
    BY <1>2, <2>2, <2>3, <2>6 DEF Calls
  <2>8. a.at = "link" /\ a.at \notin Initializing
    BY <2>2 DEF Initializing
  <2> QED  BY <1>1, <2>1, <2>2, <2>5, <2>6, <2>7, <2>8, CallStep DEF f, c
<1>7. ASSUME state[c] = "LOADED", NEW x \in {"LINKED", "LINKAGE_ERROR"}, NEW error \in {0, 1},
             error = 1 => x = "LINKAGE_ERROR",
             state' = [state EXCEPT ![c] = x], Answer(t, error), UNCHANGED <<by, running>>,
             exc' \in [Threads -> Pending]
      PROVE  IInv' /\ Evolution(state, by, state', by')
  <2>1. /\ state' \in [Classes -> States] /\ state'[c] = x
        /\ \A d \in Classes : d # c => state'[d] = state[d]
    BY <1>2, <1>3, <1>7 DEF States
  <2>2. Evolution(state, by, state', by')
    BY <1>7, <2>1 DEF Evolution
  <2>3. IInv'
    BY <1>1, <1>3, <1>7, <2>1, <2>2, AnswerStep DEF f, c
  <2> QED  BY <2>2, <2>3
<1>8. CASE LinkGiveUp(t)
  <2>1. /\ InLink(t) /\ state' = [state EXCEPT ![c] = "LINKAGE_ERROR"] /\ Answer(t, 1)
        /\ UNCHANGED <<by, exc, running>>
    BY <1>8 DEF LinkGiveUp, c
  <2> QED  BY <1>3, <1>4, <1>7, <2>1
<1>9. CASE LinkMethods(t)
  <2>1. CASE c \in Defective
    <3>1. /\ InLink(t) /\ state' = [state EXCEPT ![c] = "LINKAGE_ERROR"] /\ Answer(t, 1)
          /\ UNCHANGED <<by, running>> /\ exc' = [exc EXCEPT ![t] = "error"]
      BY <1>9, <2>1 DEF LinkMethods, c
    <3>2. exc' \in [Threads -> Pending]
      BY <1>3, <3>1 DEF Pending
    <3> QED  BY <1>4, <1>7, <3>1, <3>2
  <2>2. CASE c \notin Defective
    <3>1. /\ InLink(t) /\ state' = [state EXCEPT ![c] = "LINKED"] /\ Answer(t, 0)
          /\ UNCHANGED <<by, exc, running>>
      BY <1>9, <2>2 DEF LinkMethods, c
    <3> QED  BY <1>3, <1>4, <1>7, <3>1
  <2> QED  BY <2>1, <2>2
<1> QED  BY <1>5, <1>6, <1>8, <1>9 DEF link_class

(* The end of initialize_class, of a class it was initializing. *)
LEMMA DoneStep ==
  ASSUME IInv, NEW t \in Threads, Active(t), Top(t).at \in Initializing,
         NEW error \in {0, 1}, Done(t, error), UNCHANGED <<by, running>>, exc' \in [Threads -> Pending]
  PROVE  IInv' /\ Evolution(state, by, state', by')
<1> DEFINE c == Top(t).cls
           x == StateAfter(c, error)
<1>1. stack[t] # <<>> /\ Top(t).at # "link"
  BY DEF Active, Initializing
<1>2. c \in Classes /\ state[c] = "INITIALIZING"
  BY <1>1, TopFacts DEF Backed
<1>3. state \in [Classes -> States] /\ by \in [Classes -> Threads]
  BY DEF IInv, TypeOK
<1>4. state' = [state EXCEPT ![c] = x] /\ Answer(t, error) /\ x \in {"INITIALIZED", "LINKAGE_ERROR"}
  BY DEF Done, StateAfter
<1> HIDE DEF c, x
<1>5. /\ state' \in [Classes -> States] /\ state'[c] = x
      /\ \A d \in Classes : d # c => state'[d] = state[d]
  BY <1>2, <1>3, <1>4 DEF States
<1>6. Evolution(state, by, state', by')
  BY <1>2, <1>4, <1>5 DEF Evolution
<1>7. AsGoodAs(state', by', t, c)
  BY <1>4, <1>5 DEF AsGoodAs
<1>8. IInv'
  BY <1>1, <1>3, <1>4, <1>5, <1>6, <1>7, AnswerStep DEF c
<1> QED  BY <1>6, <1>8

(* Every step of initialize_class keeps the invariant. *)
LEMMA InitializeStep ==
  ASSUME IInv, NEW t \in Threads, initialize_class(t) \/ EndClinit(t)
  PROVE  IInv' /\ Evolution(state, by, state', by')
<1> DEFINE f == Top(t)
           c == Top(t).cls
<1>1. Active(t) /\ running = t /\ stack[t] # <<>>
  BY DEF initialize_class, Link, Linked, ReturnAtOnce, StartWaiting, EndWaiting, Begin, InitParent,
         GiveUp, RunClinit, EndClinit, At, Active
<1>2. /\ f \in Activations /\ c \in Classes /\ f.i \in Nat /\ Len(Parents[c]) \in Nat
      /\ Counted(f) /\ Backed(state, by, t, f) /\ Returned(state, by, result[t], t, f)
  BY <1>1, TopFacts
<1>3. /\ state \in [Classes -> States] /\ by \in [Classes -> Threads] /\ exc \in [Threads -> Pending]
      /\ result \in [Threads -> {0, 1}]
  BY DEF IInv, TypeOK
<1>4. c = f.cls
  OBVIOUS
<1> HIDE DEF f, c
<1>5. ASSUME UNCHANGED <<state, by, exc, running>>, Answer(t, 0), f.at # "link", AsGoodAs(state, by, t, c)
      PROVE  IInv' /\ Evolution(state, by, state', by')
  BY <1>1, <1>3, <1>5, PlainAnswerStep DEF f, c
<1>6. ASSUME NEW a \in Activations, a.cls = c, a.at # "link", f.at # "link", Counted(a),
             Backed(state, by, t, a), Returned(state, by, result[t], t, a),
             a.at \in Initializing => f.at \in Initializing,
             SetTop(t, a), UNCHANGED <<state, by, running, result>>, exc' \in [Threads -> Pending]
      PROVE  IInv' /\ Evolution(state, by, state', by')
  <2>1. Evolution(state, by, state', by')
    BY <1>6, NoEvolution
  <2>2. IInv'
    BY <1>1, <1>3, <1>6, <2>1, MoveStep DEF f, c
  <2> QED  BY <2>1, <2>2
<1>7. CASE Link(t)
  <2> DEFINE a == [f EXCEPT !.at = "linking"]
  <2>1. /\ CallFrom(t, a, Linking(c)) /\ f.at = "enter" /\ UNCHANGED <<state, by, exc, result, running>>
    BY <1>7 DEF Link, At, f, c
  <2>2. a \in Activations /\ a.cls = c /\ a.at = "linking" /\ a.i = f.i
    BY <1>2, <1>4, ActivationMoved DEF Places
  <2> HIDE DEF a
  <2>3. Counted(a) /\ Backed(state, by, t, a)
    BY <1>2, <1>4, <2>1, <2>2 DEF Counted, Backed, Initializing
  <2>4. /\ Linking(c) \in Activations /\ Linking(c).i = 0 /\ Linking(c).at = "link" /\ Linking(c).cls = c
    BY <1>2, ActivationStarts
  <2>5. Calls(a, Linking(c)) /\ a.at \notin Initializing
    BY <2>2, <2>4 DEF Calls, Initializing
  <2>6. f.at # "link" /\ a.at # "link"
    BY <2>1, <2>2
  <2> QED  BY <1>1, <2>1, <2>2, <2>3, <2>4, <2>5, <2>6, CallStep DEF f, c
<1>8. CASE Linked(t)
  <2>1. f.at = "linking" /\ UNCHANGED <<state, by, exc, running>>
    BY <1>8 DEF Linked, At, f
  <2>2. CASE result[t] = 0
    <3> DEFINE a == [f EXCEPT !.at = "enter"]
    <3>1. SetTop(t, a) /\ UNCHANGED result
      BY <1>8, <2>2 DEF Linked, f
    <3>2. a \in Activations /\ a.cls = c /\ a.at = "enter" /\ a.i = f.i
      BY <1>2, <1>4, ActivationMoved DEF Places
    <3> HIDE DEF a
    <3>3. /\ Counted(a) /\ Backed(state, by, t, a) /\ Returned(state, by, result[t], t, a)
          /\ a.at \notin Initializing
      BY <1>2, <1>4, <2>1, <3>2 DEF Counted, Backed, Returned, Initializing
    <3> QED  BY <1>3, <1>6, <2>1, <3>1, <3>2, <3>3
  <2>3. CASE result[t] # 0
    <3>1. Answer(t, 0)
      BY <1>8, <2>3 DEF Linked
    <3>2. result[t] = 1
      BY <1>3, <2>3
    <3>3. AsGoodAs(state, by, t, c)
      BY <1>2, <1>4, <2>1, <3>2 DEF Returned, AsGoodAs
    <3> QED  BY <1>5, <2>1, <3>1, <3>3
  <2> QED  BY <2>2, <2>3
<1>9. CASE ReturnAtOnce(t)
  <2>1. f.at = "enter" /\ Answer(t, 0) /\ UNCHANGED <<state, by, exc, running>> /\ AsGoodAs(state, by, t, c)
    BY <1>9 DEF ReturnAtOnce, At, AsGoodAs, f, c
  <2> QED  BY <1>5, <2>1
<1>10. CASE StartWaiting(t)
  <2> DEFINE a == [f EXCEPT !.at = "waiting"]
  <2>1. /\ f.at = "enter" /\ state[c] = "INITIALIZING" /\ SetTop(t, a)
        /\ UNCHANGED <<state, by, exc, result, running>>
    BY <1>10 DEF StartWaiting, InitializedByOther, At, f, c
  <2>2. a \in Activations /\ a.cls = c /\ a.at = "waiting" /\ a.i = f.i
    BY <1>2, <1>4, ActivationMoved DEF Places
  <2> HIDE DEF a
  <2>3. /\ Counted(a) /\ Backed(state, by, t, a) /\ Returned(state, by, result[t], t, a)
        /\ a.at \notin Initializing
    BY <1>2, <1>4, <2>1, <2>2 DEF Counted, Backed, Returned, Initializing
  <2> QED  BY <1>3, <1>6, <2>1, <2>2, <2>3
<1>11. CASE EndWaiting(t)
  <2>1. /\ f.at = "waiting" /\ state[c] # "INITIALIZING" /\ Answer(t, 0)
        /\ UNCHANGED <<state, by, exc, running>>
    BY <1>11 DEF EndWaiting, WaitIsOver, At, f, c
  <2>2. AsGoodAs(state, by, t, c)
    BY <1>2, <1>4, <2>1 DEF Backed, AsGoodAs
  <2> QED  BY <1>5, <2>1, <2>2
<1>12. CASE Begin(t)
  <2>1. /\ f.at = "enter" /\ state[c] = "LINKED" /\ UNCHANGED running
        /\ state' = [state EXCEPT ![c] = "INITIALIZING"] /\ by' = [by EXCEPT ![c] = t]
    BY <1>12 DEF Begin, InitializedByOther, At, f, c
  <2>2. /\ state' \in [Classes -> States] /\ by' \in [Classes -> Threads]
        /\ state'[c] = "INITIALIZING" /\ by'[c] = t
        /\ \A d \in Classes : d # c => state'[d] = state[d] /\ by'[d] = by[d]
    BY <1>2, <1>3, <2>1 DEF States
  <2>3. Evolution(state, by, state', by')
    BY <2>1, <2>2 DEF Evolution
  <2>4. CASE SetTop(t, [f EXCEPT !.at = "parents"]) /\ UNCHANGED <<exc, result>>
    <3> DEFINE a == [f EXCEPT !.at = "parents"]
    <3>1. a \in Activations /\ a.cls = c /\ a.at = "parents" /\ a.i = 0
      BY <1>2, <1>4, <2>1, ActivationMoved DEF Places, Counted
    <3>2. SetTop(t, a)
      BY <2>4
    <3> HIDE DEF a
    <3>3. Counted(a) /\ Backed(state', by', t, a) /\ Returned(state', by', result[t], t, a)
      BY <1>2, <2>2, <3>1 DEF Counted, Backed, Returned, Initializing
    <3>4. f.at # "link" /\ state[c] # "INITIALIZING" /\ a.at # "link"
      BY <2>1, <3>1
    <3>5. IInv'
      BY <1>1, <1>3, <2>1, <2>2, <2>3, <2>4, <3>1, <3>2, <3>3, <3>4, MoveStep DEF f, c
    <3> QED  BY <2>3, <3>5
  <2>5. CASE Answer(t, 1) /\ exc' = [exc EXCEPT ![t] = "error"]
    <3>1. exc' \in [Threads -> Pending]
      BY <1>3, <2>5 DEF Pending
    <3>2. AsGoodAs(state', by', t, c)
      BY <2>2 DEF AsGoodAs
    <3>3. IInv'
      BY <1>1, <2>1, <2>2, <2>3, <2>5, <3>1, <3>2, AnswerStep DEF f, c
    <3> QED  BY <2>3, <3>3
  <2> QED  BY <1>12, <2>4, <2>5 DEF Begin, f
<1>13. CASE InitParent(t)
  <2> DEFINE a == AtNextParent(t)
             p == NextParent(t)
  <2>1. /\ CallFrom(t, a, Activation(p)) /\ f.i < Len(Parents[c]) /\ f.at = "parents"
        /\ UNCHANGED <<state, by, exc, result, running>>
    BY <1>13 DEF InitParent, ParentsLeft, At, f, c
  <2>2. a \in Activations /\ a.cls = c /\ a.at = "parents" /\ a.i = f.i + 1
    BY <1>2, <1>4, <2>1, ActivationCounts DEF AtNextParent, f
  <2>3. p = Parents[c][f.i + 1] /\ f.i + 1 \in 1 .. Len(Parents[c])
    BY <1>2, <2>1 DEF NextParent, f, c
  <2>4. p \in Classes
    BY <1>2, <2>3, ParentIsClass
  <2> HIDE DEF a, p
  <2>5. \A k \in 1 .. f.i : AsGoodAs(state, by, t, Parents[c][k])
    <3> TAKE k \in 1 .. f.i
    <3>1. CASE k = f.i
      BY <1>2, <1>4, <2>1, <3>1 DEF Returned
    <3>2. CASE k # f.i
      <4>1. k \in 1 .. f.i - 1
        BY <1>2, <3>2
      <4> QED  BY <1>2, <1>4, <2>1, <4>1 DEF Backed, Initializing
    <3> QED  BY <3>1, <3>2
  <2>6. Counted(a)
    BY <1>2, <2>1, <2>2 DEF Counted
  <2>7. Backed(state, by, t, a)
    <3>1. state[c] = "INITIALIZING" /\ by[c] = t
      BY <1>2, <1>4, <2>1 DEF Backed, Initializing
    <3>2. a.i - 1 = f.i
      BY <1>2, <2>2
    <3> QED  BY <2>2, <2>5, <3>1, <3>2 DEF Backed, Initializing
  <2>8. /\ Activation(p) \in Activations /\ Activation(p).i = 0 /\ Activation(p).at = "enter"
        /\ Activation(p).cls = p
    BY <2>4, ActivationStarts
  <2>9. Calls(a, Activation(p))
    BY <1>2, <2>2, <2>3, <2>8 DEF Calls
  <2>10. f.at \in Initializing /\ f.at # "link" /\ a.at # "link"
    BY <2>1, <2>2 DEF Initializing
  <2> QED  BY <1>1, <2>1, <2>2, <2>6, <2>7, <2>8, <2>9, <2>10, CallStep DEF f, c
<1>14. CASE GiveUp(t)
  <2>1. f.at \in Initializing /\ Done(t, 1) /\ UNCHANGED <<by, exc, running>>
    BY <1>14 DEF GiveUp, At, Initializing, f
  <2> QED  BY <1>1, <1>3, <2>1, DoneStep DEF f
<1>15. CASE RunClinit(t)
  <2>1. f.at = "parents" /\ f.at \in Initializing /\ ~(f.i < Len(Parents[c])) /\ UNCHANGED <<by, running>>
    BY <1>15 DEF RunClinit, ParentsLeft, At, Initializing, f, c
  <2>2. CASE Done(t, 0) /\ UNCHANGED exc
    BY <1>1, <1>3, <2>1, <2>2, DoneStep DEF f
  <2>3. CASE Done(t, 1) /\ exc' = [exc EXCEPT ![t] = "error"]
    <3>1. exc' \in [Threads -> Pending]
      BY <1>3, <2>3 DEF Pending
    <3> QED  BY <1>1, <2>1, <2>3, <3>1, DoneStep DEF f
  <2>4. CASE /\ SetTop(t, [f EXCEPT !.at = "clinit"])
             /\ exc' = [exc EXCEPT ![t] = IF @ = "none" THEN @ ELSE "inherited"]
             /\ UNCHANGED <<state, result>>
    <3> DEFINE a == [f EXCEPT !.at = "clinit"]
    <3>1. a \in Activations /\ a.cls = c /\ a.at = "clinit" /\ a.i = f.i
      BY <1>2, <1>4, ActivationMoved DEF Places
    <3>2. SetTop(t, a)
      BY <2>4
    <3> HIDE DEF a
    <3>3. exc' \in [Threads -> Pending]
      BY <1>3, <2>4 DEF Pending
    <3>4. Counted(a) /\ f.i = Len(Parents[c])
      BY <1>2, <1>4, <2>1, <3>1 DEF Counted
    <3>5. \A k \in 1 .. f.i : AsGoodAs(state, by, t, Parents[c][k])
      <4> TAKE k \in 1 .. f.i
      <4>1. CASE k = f.i
        BY <1>2, <1>4, <2>1, <4>1 DEF Returned
      <4>2. CASE k # f.i
        <5>1. k \in 1 .. f.i - 1
          BY <1>2, <4>2
        <5> QED  BY <1>2, <1>4, <2>1, <5>1 DEF Backed
      <4> QED  BY <4>1, <4>2
    <3>6. Backed(state, by, t, a)
      <4>1. state[c] = "INITIALIZING" /\ by[c] = t
        BY <1>2, <1>4, <2>1 DEF Backed
      <4>2. \A k \in 1 .. f.i - 1 : k \in 1 .. f.i
        BY <1>2
      <4> QED  BY <3>1, <3>5, <4>1, <4>2 DEF Backed
    <3>7. Returned(state, by, result[t], t, a)
      BY <3>1 DEF Returned
    <3> QED  BY <1>6, <2>1, <2>4, <3>1, <3>2, <3>3, <3>4, <3>6, <3>7
  <2> QED  BY <1>15, <2>2, <2>3, <2>4 DEF RunClinit, f
<1>16. CASE EndClinit(t)
  <2>1. /\ f.at \in Initializing /\ UNCHANGED <<by, running>>
        /\ exc' = [exc EXCEPT ![t] = IF @ = "none" THEN @ ELSE "error"]
    BY <1>16 DEF EndClinit, At, Initializing, f
  <2>2. \E error \in {0, 1} : Done(t, error)
    BY <1>16 DEF EndClinit
  <2>3. exc' \in [Threads -> Pending]
    BY <1>3, <2>1 DEF Pending
  <2> QED  BY <1>1, <2>1, <2>2, <2>3, DoneStep DEF f
<1> QED  BY <1>7, <1>8, <1>9, <1>10, <1>11, <1>12, <1>13, <1>14, <1>15, <1>16 DEF initialize_class

-----------------------------------------------------------------------------
(* The bytecodes keep the invariant. *)
LEMMA BytecodeStep ==
  ASSUME IInv, NEW t \in Threads, Use(t) \/ Throw(t) \/ Catch(t)
  PROVE  IInv' /\ Evolution(state, by, state', by')
<1>1. /\ state \in [Classes -> States] /\ by \in [Classes -> Threads] /\ exc \in [Threads -> Pending]
      /\ result \in [Threads -> {0, 1}] /\ stack \in [Threads -> Seq(Activations)]
  BY DEF IInv, TypeOK
<1>2. CASE Use(t)
  <2>1. PICK c \in IF stack[t] = <<>> THEN Classes ELSE Uses[Top(t).cls] :
               Call(t, Activation(c)) \/ Call(t, Linking(c))
    BY <1>2 DEF Use
  <2>2. c \in Classes
    <3>1. CASE stack[t] = <<>>
      BY <2>1, <3>1
    <3>2. CASE stack[t] # <<>>
      <4>1. Top(t).cls \in Classes
        BY <3>2, TopFacts
      <4> QED  BY <2>1, <3>2, <4>1, ClassesAssumption
    <3> QED  BY <3>1, <3>2
  <2>3. /\ Executes(t) /\ UNCHANGED <<state, by, result, running>>
        /\ exc' = [exc EXCEPT ![t] = IF @ = "none" THEN @ ELSE "error"]
    BY <1>2 DEF Use
  <2>4. exc' \in [Threads -> Pending]
    BY <1>1, <2>3 DEF Pending
  <2>5. CASE Call(t, Activation(c))
    BY <2>2, <2>3, <2>4, <2>5, ActivationStarts, UseStep
  <2>6. CASE Call(t, Linking(c))
    BY <2>2, <2>3, <2>4, <2>6, ActivationStarts, UseStep
  <2> QED  BY <2>1, <2>5, <2>6
<1>3. CASE Throw(t) \/ Catch(t)
  <2>1. UNCHANGED <<state, by, stack, result, running>> /\ running = t
    BY <1>3 DEF Throw, Catch, Executes, At, Active
  <2>2. exc' \in [Threads -> Pending]
    BY <1>1, <1>3 DEF Throw, Catch, Pending
  <2>3. stack' = [stack EXCEPT ![t] = stack[t]] /\ stack[t] \in Seq(Activations)
    BY <1>1, <2>1
  <2>4. StackSound(state, by, result'[t], t, stack[t])
    BY <2>1 DEF IInv
  <2>5. result' \in [Threads -> {0, 1}] /\ \A u \in Threads \ {t} : result'[u] = result[u]
    BY <1>1, <2>1
  <2> QED  BY <2>1, <2>2, <2>3, <2>4, <2>5, OwnStackStep
<1> QED  BY <1>2, <1>3

(* The C locals of a stack are lost. *)
Unkept(s) == [n \in DOMAIN s |-> [s[n] EXCEPT !.kept = FALSE]]

LEMMA UnkeptIs ==
  ASSUME NEW s \in Seq(Activations)
  PROVE  /\ Unkept(s) \in Seq(Activations) /\ Len(Unkept(s)) = Len(s)
         /\ \A n \in 1 .. Len(s) : Alike(Unkept(s)[n], s[n])
<1>1. DOMAIN s = 1 .. Len(s) /\ Len(s) \in Nat
  OBVIOUS
<1>2. ASSUME NEW n \in 1 .. Len(s)
      PROVE  [s[n] EXCEPT !.kept = FALSE] \in Activations /\ Alike([s[n] EXCEPT !.kept = FALSE], s[n])
  <2>1. s[n] \in Activations
    OBVIOUS
  <2> QED  BY <2>1 DEF Activations, Alike
<1>3. Unkept(s) \in [1 .. Len(s) -> Activations] /\ \A n \in 1 .. Len(s) : Alike(Unkept(s)[n], s[n])
  BY <1>1, <1>2 DEF Unkept
<1>4. Unkept(s) \in Seq(Activations) /\ DOMAIN Unkept(s) = 1 .. Len(s)
  BY <1>1, <1>3, SeqDef
<1> QED  BY <1>1, <1>3, <1>4, LenProperties

(* So does a change of threads. *)
LEMMA SwitchStep ==
  ASSUME IInv, NEW u \in Threads, Switch(u)
  PROVE  IInv' /\ Evolution(state, by, state', by')
<1> DEFINE t == running
           s == stack[t]
<1>1. /\ stack \in [Threads -> Seq(Activations)] /\ t \in Threads
  BY DEF IInv, TypeOK
<1>2. /\ running' = u /\ UNCHANGED <<state, by, exc, result>>
      /\ stack' = [stack EXCEPT ![t] = Unkept(s)]
  BY DEF Switch, Unkept
<1>3. s # <<>> => Top(t).at \in {"clinit", "waiting"}
  BY DEF Switch, Executes, At
<1>4. /\ s \in Seq(Activations) /\ Unkept(s) \in Seq(Activations) /\ Len(Unkept(s)) = Len(s)
      /\ \A n \in 1 .. Len(s) : Alike(Unkept(s)[n], s[n])
  BY <1>1, UnkeptIs
<1>5. Evolution(state, by, state', by')
  BY <1>2, NoEvolution
<1>6. TypeOK'
  BY <1>1, <1>2, <1>4 DEF IInv, TypeOK
<1>7. \A v \in Threads : stack'[v] = IF v = t THEN Unkept(s) ELSE stack[v]
  BY <1>1, <1>2
<1>8. FramesSound(state, by, t, s)
  BY <1>1 DEF IInv, StackSound
<1>9. s # <<>> => Unkept(s)[Len(Unkept(s))].at \in {"clinit", "waiting"}
  <2>1. s # <<>> => Len(s) \in 1 .. Len(s)
    BY <1>4, EmptySeq
  <2> QED  BY <1>3, <1>4, <2>1 DEF Alike, Top
<1>10. Unkept(s) # <<>> => s # <<>>
  BY <1>4, EmptySeq
<1> HIDE DEF t, s
<1>11. FramesSound(state, by, t, Unkept(s))
  <2>1. Len(s) \in Nat /\ Len(s) <= Len(s)
    BY <1>4
  <2>2. \A n \in 1 .. Len(s) : s[n].at \in Initializing \cup {"link"} => state[s[n].cls] = state[s[n].cls]
    OBVIOUS
  <2> QED  BY <1>4, <1>8, <2>1, <2>2, NoEvolution, FramesStay
<1>12. ASSUME NEW v \in Threads  PROVE StackSound(state', by', result'[v], v, stack'[v])
  <2>1. CASE v = t
    <3>1. StackSound(state, by, result[v], v, Unkept(s))
      BY <1>9, <1>10, <1>11, <2>1 DEF StackSound, Returned
    <3> QED  BY <1>2, <1>7, <2>1, <3>1
  <2>2. CASE v # t
    BY <1>2, <1>7, <2>2 DEF IInv
  <2> QED  BY <2>1, <2>2
<1>13. Suspended'
  <2> SUFFICES ASSUME NEW v \in Threads, v # u, stack'[v] # <<>>
               PROVE  stack'[v][Len(stack'[v])].at \in {"clinit", "waiting"}
    BY <1>2 DEF Suspended, Top
  <2>1. CASE v = t
    BY <1>7, <1>9, <1>10, <2>1
  <2>2. CASE v # t
    BY <1>7, <2>2 DEF IInv, Suspended, Top, t
  <2> QED  BY <2>1, <2>2
<1> QED  BY <1>5, <1>6, <1>12, <1>13 DEF IInv

LEMMA StutterStep ==
  ASSUME IInv, UNCHANGED vars
  PROVE  IInv' /\ Evolution(state, by, state', by')
<1>1. UNCHANGED <<state, by, stack, exc, result, running>>
  BY DEF vars
<1>2. Evolution(state, by, state', by')
  BY <1>1, NoEvolution
<1>3. TypeOK' /\ Suspended'
  BY <1>1 DEF IInv, TypeOK, Suspended, Top
<1>4. \A t \in Threads : StackSound(state', by', result'[t], t, stack'[t])
  BY <1>1 DEF IInv
<1> QED  BY <1>2, <1>3, <1>4 DEF IInv

LEMMA InvariantStep ==
  ASSUME IInv, [Next]_vars
  PROVE  IInv' /\ Evolution(state, by, state', by')
<1>1. CASE UNCHANGED vars
  BY <1>1, StutterStep
<1>2. ASSUME NEW t \in Threads, \/ initialize_class(t) \/ link_class(t) \/ EndClinit(t)
                                \/ Use(t) \/ Throw(t) \/ Catch(t) \/ Switch(t)
      PROVE  IInv' /\ Evolution(state, by, state', by')
  BY <1>2, InitializeStep, LinkStep, BytecodeStep, SwitchStep
<1> QED  BY <1>1, <1>2 DEF Next

LEMMA InvariantInit ==
  ASSUME Init  PROVE IInv
<1>1. TypeOK
  <2>1. \E t \in Threads : by = [c \in Classes |-> t]
    BY DEF Init
  <2>2. by \in [Classes -> Threads]
    BY <2>1
  <2> QED  BY <2>2 DEF Init, TypeOK, States, Pending
<1>2. \A t \in Threads : stack[t] = <<>>
  BY DEF Init
<1>3. \A t \in Threads : StackSound(state, by, result[t], t, <<>>)
  BY DEF StackSound, FramesSound
<1> QED  BY <1>1, <1>2, <1>3 DEF IInv, Suspended

LEMMA Invariant == Spec => []IInv
<1>1. Init => IInv
  BY InvariantInit
<1>2. IInv /\ [Next]_vars => IInv'
  BY InvariantStep
<1> QED  BY <1>1, <1>2, PTL DEF Spec

-----------------------------------------------------------------------------
LEMMA OneInitializerHolds ==
  ASSUME IInv  PROVE OneInitializer
<1> SUFFICES ASSUME NEW c \in Classes, NEW t \in Threads, NEW n \in DOMAIN stack[t], Initializes(t, n, c)
             PROVE  /\ state[c] = "INITIALIZING" /\ by[c] = t
                    /\ \A m \in DOMAIN stack[t] : Initializes(t, m, c) => m = n
  BY DEF OneInitializer
<1>1. /\ stack[t] \in Seq(Activations) /\ FramesSound(state, by, t, stack[t])
      /\ DOMAIN stack[t] = 1 .. Len(stack[t]) /\ Len(stack[t]) \in Nat
  BY DEF IInv, TypeOK, StackSound
<1>2. Backed(state, by, t, stack[t][n])
  BY <1>1 DEF FramesSound
<1>3. ASSUME NEW m \in DOMAIN stack[t], Initializes(t, m, c), m # n  PROVE FALSE
  <2>1. Apart(stack[t][m], stack[t][n]) \/ Apart(stack[t][n], stack[t][m])
    BY <1>1, <1>3 DEF FramesSound
  <2> QED  BY <1>3, <2>1 DEF Apart, Initializes, Initializing
<1> QED  BY <1>2, <1>3 DEF Backed, Initializes, Initializing

LEMMA ParentsFirstHolds ==
  ASSUME IInv  PROVE ParentsFirst
<1> SUFFICES ASSUME NEW t \in Threads, NEW n \in DOMAIN stack[t], stack[t][n].at = "clinit",
                    NEW p \in Range(Parents[stack[t][n].cls])
             PROVE  Settled(t, p)
  BY DEF ParentsFirst
<1> DEFINE f == stack[t][n]
<1>1. /\ stack[t] \in Seq(Activations) /\ FramesSound(state, by, t, stack[t])
      /\ DOMAIN stack[t] = 1 .. Len(stack[t])
  BY DEF IInv, TypeOK, StackSound
<1>2. f \in Activations /\ Counted(f) /\ Backed(state, by, t, f)
  BY <1>1 DEF FramesSound
<1>3. f.cls \in Classes
  BY <1>2 DEF Activations
<1>4. Parents[f.cls] \in Seq(Classes) /\ DOMAIN Parents[f.cls] = 1 .. Len(Parents[f.cls])
  BY <1>3, ClassesAssumption
<1>5. PICK k \in 1 .. Len(Parents[f.cls]) : p = Parents[f.cls][k]
  BY <1>4 DEF Range
<1>6. AsGoodAs(state, by, t, Parents[f.cls][k])
  BY <1>2, <1>5 DEF Counted, Backed
<1> QED  BY <1>5, <1>6 DEF AsGoodAs, Settled

(* initialize_class never runs for a class twice: a class that one of its    *)
(* activations initializes is INITIALIZING in the name of its thread, and no *)
(* other activation, on this thread or another, initializes it.  It holds    *)
(* even if calloc fails.                                                     *)
THEOREM NeverInitializedTwice == Spec => []OneInitializer
BY Invariant, OneInitializerHolds, PTL

(* No <clinit> is entered by initialize_class before the superclass and the  *)
(* interfaces of its class are initialized, have failed, or are being        *)
(* initialized further out on the same thread.                               *)
THEOREM ParentsInitializedFirst == Spec => []ParentsFirst
BY Invariant, ParentsFirstHolds, PTL

(* The states that link_class and initialize_class give to a class only      *)
(* advance; INITIALIZED and LINKAGE_ERROR are final.                         *)
THEOREM StatesAdvance == Spec => Advances
<1> DEFINE A == \A c \in Classes : state'[c] # state[c] =>
      <<state[c], state'[c]>> \in {<<"LOADED", "LINKED">>, <<"LOADED", "LINKAGE_ERROR">>,
        <<"LINKED", "INITIALIZING">>, <<"INITIALIZING", "INITIALIZED">>,
        <<"INITIALIZING", "LINKAGE_ERROR">>}
<1>1. IInv /\ [Next]_vars => [A]_vars
  <2>1. ASSUME IInv, [Next]_vars  PROVE A
    BY <2>1, InvariantStep DEF Evolution
  <2> QED  BY <2>1
<1>2. Advances <=> [][A]_vars
  BY DEF Advances
<1> HIDE DEF A
<1> QED  BY <1>1, <1>2, Invariant, PTL DEF Spec

-----------------------------------------------------------------------------
(* No class is left INITIALIZING by an activation that has ended. *)
Claimed ==
  \A c \in Classes : state[c] = "INITIALIZING" =>
    \E n \in DOMAIN stack[by[c]] : Initializes(by[c], n, c)

(* A step that changes the stack of t only: its initializing activations go  *)
(* on, unless their class is done, and a class it begins is on it.           *)
LEMMA ClaimsKept ==
  ASSUME IInv, Claimed, Evolution(state, by, state', by'), NEW t \in Threads,
         NEW s2 \in Seq(Activations), stack' = [stack EXCEPT ![t] = s2],
         \A n \in 1 .. Len(stack[t]) :
           stack[t][n].at \in Initializing /\ state'[stack[t][n].cls] = "INITIALIZING" =>
             n \in 1 .. Len(s2) /\ s2[n].cls = stack[t][n].cls /\ s2[n].at \in Initializing,
         \A c \in Classes : state'[c] = "INITIALIZING" /\ state[c] # "INITIALIZING" =>
           by'[c] = t /\ \E n \in 1 .. Len(s2) : s2[n].cls = c /\ s2[n].at \in Initializing
  PROVE  Claimed'
<1>1. /\ stack \in [Threads -> Seq(Activations)] /\ by \in [Classes -> Threads]
  BY DEF IInv, TypeOK
<1>2. \A u \in Threads : stack'[u] = IF u = t THEN s2 ELSE stack[u]
  BY <1>1
<1>3. DOMAIN s2 = 1 .. Len(s2) /\ DOMAIN stack[t] = 1 .. Len(stack[t])
  BY <1>1
<1> SUFFICES ASSUME NEW c \in Classes, state'[c] = "INITIALIZING"
             PROVE  \E n \in DOMAIN stack'[by'[c]] :
                      stack'[by'[c]][n].cls = c /\ stack'[by'[c]][n].at \in Initializing
  BY DEF Claimed, Initializes, Initializing
<1>4. CASE state[c] # "INITIALIZING"
  BY <1>2, <1>3, <1>4
<1>5. CASE state[c] = "INITIALIZING"
  <2>1. by'[c] = by[c]
    BY <1>5 DEF Evolution
  <2>2. PICK n \in DOMAIN stack[by[c]] : stack[by[c]][n].cls = c /\ stack[by[c]][n].at \in Initializing
    BY <1>5 DEF Claimed, Initializes, Initializing
  <2>3. CASE by[c] = t
    BY <1>2, <1>3, <2>1, <2>2, <2>3
  <2>4. CASE by[c] # t
    BY <1>1, <1>2, <2>1, <2>2, <2>4
  <2> QED  BY <2>3, <2>4
<1> QED  BY <1>4, <1>5

LEMMA ClaimsKeptByAnswer ==
  ASSUME IInv, Claimed, Evolution(state, by, state', by'), NEW t \in Threads, Active(t),
         NEW error, Answer(t, error),
         Top(t).at \in Initializing => state'[Top(t).cls] # "INITIALIZING",
         \A c \in Classes : state'[c] = "INITIALIZING" => state[c] = "INITIALIZING"
  PROVE  Claimed'
<1> DEFINE s == stack[t]
           s2 == Front(s)
<1>1. s # <<>> /\ stack' = [stack EXCEPT ![t] = s2]
  BY DEF Active, Answer
<1>2. s \in Seq(Activations) /\ Top(t) = s[Len(s)]
  BY <1>1, TopFacts
<1>3. s2 \in Seq(Activations) /\ Len(s2) = Len(s) - 1 /\ Len(s) \in Nat
      /\ \A n \in 1 .. Len(s) - 1 : s2[n] = s[n]
  BY <1>1, <1>2, FrontIs
<1> HIDE DEF s2
<1>4. ASSUME NEW n \in 1 .. Len(s), s[n].at \in Initializing, state'[s[n].cls] = "INITIALIZING"
      PROVE  n \in 1 .. Len(s2) /\ s2[n].cls = s[n].cls /\ s2[n].at \in Initializing
  <2>1. n # Len(s)
    BY <1>2, <1>4
  <2>2. n \in 1 .. Len(s) - 1
    BY <1>3, <2>1
  <2> QED  BY <1>3, <1>4, <2>2
<1> QED  BY <1>1, <1>3, <1>4, ClaimsKept

LEMMA TopReplaced ==
  ASSUME IInv, NEW t \in Threads, stack[t] # <<>>, NEW a \in Activations
  PROVE  LET s == stack[t]
             s2 == ReplaceAt(s, Len(s), a)
         IN /\ s2 \in Seq(Activations) /\ Len(s2) = Len(s) /\ Len(s) \in Nat \ {0}
            /\ \A n \in 1 .. Len(s) : s2[n] = IF n = Len(s) THEN a ELSE s[n]
<1> DEFINE s == stack[t]
           s2 == ReplaceAt(s, Len(s), a)
<1>1. s \in Seq(Activations) /\ Len(s) \in 1 .. Len(s) /\ Len(s) \in Nat \ {0}
  BY TopFacts, EmptySeq
<1>2. s2 = [s EXCEPT ![Len(s)] = a]
  BY DEF ReplaceAt
<1> HIDE DEF s, s2
<1>3. s2 \in Seq(Activations) /\ Len(s2) = Len(s)
  BY <1>1, <1>2, ExceptSeq
<1>4. ASSUME NEW n \in 1 .. Len(s)  PROVE s2[n] = IF n = Len(s) THEN a ELSE s[n]
  BY <1>1, <1>2
<1> QED  BY <1>1, <1>3, <1>4 DEF s, s2

LEMMA ClaimsKeptByMove ==
  ASSUME IInv, Claimed, Evolution(state, by, state', by'), NEW t \in Threads, Active(t),
         NEW a \in Activations, SetTop(t, a),
         Top(t).at \in Initializing => a.cls = Top(t).cls /\ a.at \in Initializing,
         \A c \in Classes : state'[c] = "INITIALIZING" /\ state[c] # "INITIALIZING" =>
           by'[c] = t /\ a.cls = c /\ a.at \in Initializing
  PROVE  Claimed'
<1> DEFINE s == stack[t]
           s2 == ReplaceAt(s, Len(s), a)
<1>1. s # <<>> /\ stack' = [stack EXCEPT ![t] = s2]
  BY DEF Active, SetTop
<1>2. s \in Seq(Activations) /\ Top(t) = s[Len(s)]
  BY <1>1, TopFacts
<1>3. s2 \in Seq(Activations) /\ Len(s2) = Len(s) /\ Len(s) \in Nat \ {0}
      /\ \A n \in 1 .. Len(s) : s2[n] = IF n = Len(s) THEN a ELSE s[n]
  BY <1>1, TopReplaced
<1> HIDE DEF s2
<1>4. ASSUME NEW n \in 1 .. Len(s), s[n].at \in Initializing, state'[s[n].cls] = "INITIALIZING"
      PROVE  n \in 1 .. Len(s2) /\ s2[n].cls = s[n].cls /\ s2[n].at \in Initializing
  BY <1>2, <1>3, <1>4
<1>5. ASSUME NEW c \in Classes, state'[c] = "INITIALIZING", state[c] # "INITIALIZING"
      PROVE  by'[c] = t /\ \E n \in 1 .. Len(s2) : s2[n].cls = c /\ s2[n].at \in Initializing
  <2>1. Len(s) \in 1 .. Len(s2) /\ s2[Len(s)] = a
    BY <1>3
  <2> QED  BY <1>5, <2>1
<1>6. /\ \A n \in 1 .. Len(stack[t]) :
           stack[t][n].at \in Initializing /\ state'[stack[t][n].cls] = "INITIALIZING" =>
             n \in 1 .. Len(s2) /\ s2[n].cls = stack[t][n].cls /\ s2[n].at \in Initializing
      /\ \A c \in Classes : state'[c] = "INITIALIZING" /\ state[c] # "INITIALIZING" =>
           by'[c] = t /\ \E n \in 1 .. Len(s2) : s2[n].cls = c /\ s2[n].at \in Initializing
  BY <1>4, <1>5
<1> QED  BY <1>1, <1>3, <1>6, ClaimsKept

LEMMA ClaimsKeptByCall ==
  ASSUME IInv, Claimed, UNCHANGED <<state, by>>, NEW t \in Threads, Active(t),
         NEW top \in Activations, NEW a \in Activations, CallFrom(t, top, a),
         Top(t).at \in Initializing => top.cls = Top(t).cls /\ top.at \in Initializing
  PROVE  Claimed'
<1> DEFINE s == stack[t]
           s1 == ReplaceAt(s, Len(s), top)
           s2 == Append(s1, a)
<1>1. s # <<>> /\ stack' = [stack EXCEPT ![t] = s2]
  BY DEF Active, CallFrom
<1>2. s \in Seq(Activations) /\ Top(t) = s[Len(s)]
  BY <1>1, TopFacts
<1>3. s1 \in Seq(Activations) /\ Len(s1) = Len(s) /\ Len(s) \in Nat \ {0}
      /\ \A n \in 1 .. Len(s) : s1[n] = IF n = Len(s) THEN top ELSE s[n]
  BY <1>1, TopReplaced
<1> HIDE DEF s1
<1>4. s2 \in Seq(Activations) /\ Len(s2) = Len(s) + 1 /\ \A n \in 1 .. Len(s) : s2[n] = s1[n]
  BY <1>3, AppendIs
<1> HIDE DEF s2
<1>5. ASSUME NEW n \in 1 .. Len(s), s[n].at \in Initializing, state'[s[n].cls] = "INITIALIZING"
      PROVE  n \in 1 .. Len(s2) /\ s2[n].cls = s[n].cls /\ s2[n].at \in Initializing
  <2>1. n \in 1 .. Len(s2)
    BY <1>3, <1>4
  <2> QED  BY <1>2, <1>3, <1>4, <1>5, <2>1
<1>6. Evolution(state, by, state', by')
  BY NoEvolution
<1> QED  BY <1>1, <1>4, <1>5, <1>6, ClaimsKept

LEMMA ClaimsKeptByUse ==
  ASSUME IInv, Claimed, UNCHANGED <<state, by>>, NEW t \in Threads, NEW a \in Activations, Call(t, a)
  PROVE  Claimed'
<1> DEFINE s == stack[t]
           s2 == Append(s, a)
<1>1. s \in Seq(Activations) /\ stack' = [stack EXCEPT ![t] = s2]
  BY DEF Call, IInv, TypeOK
<1>2. /\ s2 \in Seq(Activations) /\ Len(s2) = Len(s) + 1 /\ Len(s) \in Nat
      /\ \A n \in 1 .. Len(s) : n \in 1 .. Len(s2) /\ s2[n] = s[n]
  BY <1>1, AppendIs
<1>3. Evolution(state, by, state', by')
  BY NoEvolution
<1> HIDE DEF s2
<1> QED  BY <1>1, <1>2, <1>3, ClaimsKept

LEMMA ClaimsKeptBySwitch ==
  ASSUME IInv, Claimed, NEW u \in Threads, Switch(u)
  PROVE  Claimed'
<1> DEFINE t == running
           s2 == Unkept(stack[running])
<1>1. t \in Threads /\ stack[t] \in Seq(Activations)
  BY DEF IInv, TypeOK
<1>2. stack' = [stack EXCEPT ![t] = s2] /\ UNCHANGED <<state, by>>
  BY DEF Switch, Unkept
<1>3. /\ s2 \in Seq(Activations) /\ Len(s2) = Len(stack[t])
      /\ \A n \in 1 .. Len(stack[t]) : Alike(s2[n], stack[t][n])
  BY <1>1, UnkeptIs
<1>4. Evolution(state, by, state', by')
  BY <1>2, NoEvolution
<1> HIDE DEF s2, t
<1> QED  BY <1>1, <1>2, <1>3, <1>4, ClaimsKept DEF Alike

LEMMA ClaimsKeptByLink ==
  ASSUME IInv, Claimed, NEW t \in Threads, link_class(t)
  PROVE  Claimed'
<1>1. /\ Active(t) /\ stack[t] # <<>> /\ Top(t).at \notin Initializing
  BY DEF link_class, LinkReturnAtOnce, LinkParent, LinkGiveUp, LinkMethods, InLink, At, Active, Initializing
<1>2. Top(t).cls \in Classes /\ Top(t) \in Activations /\ state \in [Classes -> States]
      /\ Len(Parents[Top(t).cls]) \in Nat /\ Top(t).i \in Nat
  BY <1>1, TopFacts DEF IInv, TypeOK
<1>3. Evolution(state, by, state', by')
  BY LinkStep
<1>4. CASE LinkReturnAtOnce(t)
  BY <1>1, <1>3, <1>4, ClaimsKeptByAnswer DEF LinkReturnAtOnce
<1>5. CASE LinkParent(t)
  <2>1. AtNextParent(t) \in Activations
    BY <1>2, ActivationCounts DEF AtNextParent
  <2>2. NextParent(t) \in Classes
    <3>1. Top(t).i + 1 \in 1 .. Len(Parents[Top(t).cls])
      BY <1>2, <1>5 DEF LinkParent, ParentsLeft
    <3> QED  BY <1>2, <3>1, ParentIsClass DEF NextParent
  <2> QED  BY <1>1, <1>5, <2>1, <2>2, ActivationStarts, ClaimsKeptByCall DEF LinkParent
<1>6. CASE LinkGiveUp(t) \/ LinkMethods(t)
  <2>1. \E x \in {"LINKED", "LINKAGE_ERROR"}, error \in {0, 1} :
          state' = [state EXCEPT ![Top(t).cls] = x] /\ Answer(t, error)
    BY <1>6 DEF LinkGiveUp, LinkMethods
  <2>2. \A c \in Classes : state'[c] = "INITIALIZING" => state[c] = "INITIALIZING"
    BY <1>2, <2>1
  <2> QED  BY <1>1, <1>3, <2>1, <2>2, ClaimsKeptByAnswer
<1> QED  BY <1>4, <1>5, <1>6 DEF link_class

LEMMA ClaimsKeptByInitialize ==
  ASSUME ~CallocFails, IInv, Claimed, NEW t \in Threads, initialize_class(t) \/ EndClinit(t)
  PROVE  Claimed'
<1> DEFINE f == Top(t)
           c == Top(t).cls
<1>1. Active(t) /\ stack[t] # <<>>
  BY DEF initialize_class, Link, Linked, ReturnAtOnce, StartWaiting, EndWaiting, Begin, InitParent,
         GiveUp, RunClinit, EndClinit, At, Active
<1>2. f \in Activations /\ c \in Classes /\ f.i \in Nat /\ Len(Parents[c]) \in Nat
  BY <1>1, TopFacts
<1>3. Evolution(state, by, state', by')
  BY InitializeStep
<1>4. state \in [Classes -> States] /\ by \in [Classes -> Threads]
  BY DEF IInv, TypeOK
<1>5. ASSUME NEW error, Done(t, error)  PROVE Claimed'
  <2>1. state' = [state EXCEPT ![c] = StateAfter(c, error)] /\ Answer(t, error)
    BY <1>5 DEF Done
  <2>2. StateAfter(c, error) # "INITIALIZING"
    BY DEF StateAfter
  <2>3. state'[c] # "INITIALIZING" /\ \A d \in Classes : state'[d] = "INITIALIZING" => state[d] = "INITIALIZING"
    BY <1>2, <1>4, <2>1, <2>2
  <2> QED  BY <1>1, <1>3, <2>1, <2>3, ClaimsKeptByAnswer
<1>6. CASE Link(t)
  <2>1. [f EXCEPT !.at = "linking"] \in Activations /\ Linking(c) \in Activations
    BY <1>2, ActivationMoved, ActivationStarts DEF Places
  <2> QED  BY <1>1, <1>6, <2>1, ClaimsKeptByCall DEF Link, At, Initializing
<1>7. CASE Linked(t)
  <2>1. f.at \notin Initializing /\ UNCHANGED <<state, by>>
    BY <1>7 DEF Linked, At, Initializing
  <2>2. CASE SetTop(t, [f EXCEPT !.at = "enter"])
    <3>1. [f EXCEPT !.at = "enter"] \in Activations
      BY <1>2, ActivationMoved DEF Places
    <3> QED  BY <1>1, <1>3, <2>1, <2>2, <3>1, ClaimsKeptByMove
  <2>3. CASE Answer(t, 0)
    BY <1>1, <1>3, <2>1, <2>3, ClaimsKeptByAnswer
  <2> QED  BY <1>7, <2>2, <2>3 DEF Linked
<1>8. CASE ReturnAtOnce(t) \/ EndWaiting(t)
  <2>1. f.at \notin Initializing /\ UNCHANGED <<state, by>> /\ Answer(t, 0)
    BY <1>8 DEF ReturnAtOnce, EndWaiting, At, Initializing
  <2> QED  BY <1>1, <1>3, <2>1, ClaimsKeptByAnswer
<1>9. CASE StartWaiting(t)
  <2>1. f.at \notin Initializing /\ UNCHANGED <<state, by>> /\ SetTop(t, [f EXCEPT !.at = "waiting"])
    BY <1>9 DEF StartWaiting, At, Initializing
  <2>2. [f EXCEPT !.at = "waiting"] \in Activations
    BY <1>2, ActivationMoved DEF Places
  <2> QED  BY <1>1, <1>3, <2>1, <2>2, ClaimsKeptByMove
<1>10. CASE Begin(t)
  <2> DEFINE a == [f EXCEPT !.at = "parents"]
  <2>1. /\ f.at \notin Initializing /\ SetTop(t, a)
        /\ state' = [state EXCEPT ![c] = "INITIALIZING"] /\ by' = [by EXCEPT ![c] = t]
    BY <1>10 DEF Begin, At, Initializing
  <2>2. a \in Activations /\ a.cls = c /\ a.at \in Initializing
    BY <1>2, ActivationMoved DEF Places, Initializing
  <2>3. \A d \in Classes : state'[d] = "INITIALIZING" /\ state[d] # "INITIALIZING" =>
          by'[d] = t /\ a.cls = d /\ a.at \in Initializing
    BY <1>2, <1>4, <2>1, <2>2
  <2> HIDE DEF a
  <2> QED  BY <1>1, <1>3, <2>1, <2>2, <2>3, ClaimsKeptByMove
<1>11. CASE InitParent(t)
  <2>1. AtNextParent(t) \in Activations /\ AtNextParent(t).cls = c /\ AtNextParent(t).at = f.at
    BY <1>2, ActivationCounts DEF AtNextParent
  <2>2. NextParent(t) \in Classes
    <3>1. f.i + 1 \in 1 .. Len(Parents[c])
      BY <1>2, <1>11 DEF InitParent, ParentsLeft
    <3> QED  BY <1>2, <3>1, ParentIsClass DEF NextParent
  <2> QED  BY <1>1, <1>11, <2>1, <2>2, ActivationStarts, ClaimsKeptByCall DEF InitParent
<1>12. CASE GiveUp(t)
  BY <1>5, <1>12 DEF GiveUp
<1>13. CASE RunClinit(t)
  <2>1. CASE SetTop(t, [f EXCEPT !.at = "clinit"]) /\ UNCHANGED state
    <3> DEFINE a == [f EXCEPT !.at = "clinit"]
    <3>1. a \in Activations /\ a.cls = c /\ a.at \in Initializing
      BY <1>2, ActivationMoved DEF Places, Initializing
    <3>2. SetTop(t, a)
      BY <2>1
    <3> HIDE DEF a
    <3> QED  BY <1>1, <1>3, <2>1, <3>1, <3>2, ClaimsKeptByMove
  <2> QED  BY <1>5, <1>13, <2>1 DEF RunClinit
<1>14. CASE EndClinit(t)
  BY <1>5, <1>14 DEF EndClinit
<1> QED  BY <1>6, <1>7, <1>8, <1>9, <1>10, <1>11, <1>12, <1>13, <1>14 DEF initialize_class

LEMMA ClaimsStep ==
  ASSUME ~CallocFails, IInv, Claimed, [Next]_vars
  PROVE  Claimed'
<1>1. ASSUME UNCHANGED <<state, by, stack>>  PROVE Claimed'
  BY <1>1 DEF Claimed, Initializes
<1>2. CASE UNCHANGED vars
  BY <1>1, <1>2 DEF vars
<1>3. ASSUME NEW t \in Threads, Use(t)  PROVE Claimed'
  <2>1. PICK c \in IF stack[t] = <<>> THEN Classes ELSE Uses[Top(t).cls] :
               Call(t, Activation(c)) \/ Call(t, Linking(c))
    BY <1>3 DEF Use
  <2>2. c \in Classes
    <3>1. CASE stack[t] = <<>>
      BY <2>1, <3>1
    <3>2. CASE stack[t] # <<>>
      <4>1. Top(t).cls \in Classes
        BY <3>2, TopFacts
      <4> QED  BY <2>1, <3>2, <4>1, ClassesAssumption
    <3> QED  BY <3>1, <3>2
  <2> QED  BY <1>3, <2>1, <2>2, ActivationStarts, ClaimsKeptByUse DEF Use
<1>4. ASSUME NEW t \in Threads, Throw(t) \/ Catch(t)  PROVE Claimed'
  BY <1>1, <1>4 DEF Throw, Catch
<1>5. ASSUME NEW t \in Threads, initialize_class(t) \/ link_class(t) \/ EndClinit(t) \/ Switch(t)
      PROVE  Claimed'
  BY <1>5, ClaimsKeptByInitialize, ClaimsKeptByLink, ClaimsKeptBySwitch
<1> QED  BY <1>2, <1>3, <1>4, <1>5 DEF Next

(* Unless calloc fails for the context of initialize_class, a class is       *)
(* INITIALIZING exactly while one activation initializes it, on the thread   *)
(* it names: none is forgotten half-way, and a thread that waits for a class *)
(* waits for an activation that exists.                                      *)
THEOREM InitializingIsOwned ==
  ASSUME ~CallocFails
  PROVE  Spec => []Owned
<1>1. Init => Claimed
  BY DEF Init, Claimed
<1>2. IInv /\ Claimed /\ [Next]_vars => Claimed'
  BY ClaimsStep
<1>3. IInv /\ Claimed => Owned
  BY OneInitializerHolds DEF Claimed, Owned
<1> QED  BY <1>1, <1>2, <1>3, Invariant, PTL DEF Spec
=============================================================================
