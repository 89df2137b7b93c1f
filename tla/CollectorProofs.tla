--------------------------- MODULE CollectorProofs ---------------------------
(***************************************************************************)
(* Proofs about the heap and its collector, for every heap size, every set *)
(* of classes with any number of slots, every number of roots and every    *)
(* program.                                                                *)
(***************************************************************************)
EXTENDS Collector, FiniteSetTheorems, WellFoundedInduction, TLAPS

(* The invariant is about values rather than variables, so that the lemmas  *)
(* can speak of a heap before and after a step: m, u, ro, pe, ob, mv and wp *)
(* are mem, heap_used, roots, pending, objs, moved and write_ptr.           *)

Cell == [tag : {"free", "obj", "ref", "mon"}, cls : Classes, id : Nat, mon : 0 .. Cap,
         reach : BOOLEAN, hash : Nat, ref : 0 .. Cap]

Locations == Variables \cup {Handler}

Requests == [what : {"none", "object", "monitor"}, cls : Classes, root : Locations, referent : Locations]

(* An allocation that can be granted. *)
Grantable(q, ro) ==
  /\ q.what \in {"object", "monitor"}
  /\ q.root \in Roots
  /\ q.what = "monitor" => ro[q.root] # Null

TypeOK ==
  /\ mem \in [Addrs -> Cell]
  /\ heap_used \in 0 .. Cap
  /\ roots \in [Locations -> 0 .. Cap]
  /\ pending \in 0 .. Cap
  /\ phase \in {"run", "start", "mark", "copy", "fields", "retry"}
  /\ request \in Requests
  /\ worklist \subseteq Addrs
  /\ objs \subseteq Addrs
  /\ fixed \subseteq Addrs
  /\ write_ptr \in 1 .. Cap + 1

-----------------------------------------------------------------------------
(* A heap no collection is moving around: m up to u. *)
IsObj(m, u, p) == p \in 1 .. u /\ m[p].tag = "obj"
IsRef(m, u, p) == p = Null \/ IsObj(m, u, p)
IsListed(m, u, p) == p = Null \/ (IsObj(m, u, p) /\ m[p].cls = Reference)

ObjectSound(m, u, a) ==
  /\ a + NRefs[m[a].cls] <= u
  /\ \A k \in 1 .. NRefs[m[a].cls] : m[a + k].tag = "ref" /\ IsRef(m, u, m[a + k].ref)
  /\ m[a].cls = Reference => IsListed(m, u, m[a + 2].ref)
  /\ m[a].mon # Null => m[a].mon \in a + 1 .. u /\ m[m[a].mon].tag = "mon"

HeapSound(m, u) ==
  /\ \A a \in 1 .. u : m[a].tag = "obj" => ObjectSound(m, u, a)
  /\ \A a \in 1 .. u : m[a].tag = "mon" => m[a].mon = Null
  /\ \A a, b \in 1 .. u : m[a].tag = "obj" /\ m[b].tag = "obj" /\ m[a].mon = m[b].mon /\ m[a].mon # Null
                            => a = b

RootsSound(m, u, ro, pe) ==
  /\ \A r \in Locations : IsRef(m, u, ro[r])
  /\ IsListed(m, u, ro[Handler])
  /\ IsListed(m, u, pe)

Sound(m, u, ro, pe) == HeapSound(m, u) /\ RootsSound(m, u, ro, pe)

Unmarked(m, u) == \A a \in 1 .. u : ~m[a].reach

-----------------------------------------------------------------------------
(* The mark phase: w is the worklist. *)
MarkWord(m, a) == IF m[a].mon # Null THEN m[a].mon ELSE a
FirstStrong(m, a) == IF m[a].cls = Reference THEN 2 ELSE 1

MarkSound(m, u, ro, pe, w, ob) ==
  /\ \A o \in w : IsObj(m, u, o)
  /\ \A o \in ob : o \in 1 .. u /\ m[o].tag \in {"obj", "mon"}
  /\ \A c \in 1 .. u : m[c].reach => \E o \in w \cup ob : m[o].tag = "obj" /\ c = MarkWord(m, o)
  /\ \A o \in ob : m[o].tag = "obj" =>
       /\ \A k \in FirstStrong(m, o) .. NRefs[m[o].cls] : m[o + k].ref \in w \cup ob \cup {Null}
       /\ m[o].mon \in ob \cup {Null}
  /\ \A r \in Locations : ro[r] \in w \cup ob \cup {Null}
  /\ pe \in w \cup ob \cup {Null}

-----------------------------------------------------------------------------
(* While objects slide, the object that was at p is at q[p]. *)
Place(ob, mv) == [p \in ob |-> IF p \in DOMAIN mv THEN mv[p] ELSE p]
SizeAt(m, a) == IF m[a].tag = "mon" THEN 1 ELSE 1 + NRefs[m[a].cls]

(* The objects keep their order and do not overlap; those that were copied  *)
(* lie below wp and nothing else does, the others above.                    *)
Layout(m, u, q, ob, mv, wp) ==
  /\ DOMAIN mv \subseteq ob
  /\ \A p \in DOMAIN mv, r \in ob \ DOMAIN mv : p < r
  /\ \A p \in ob \ DOMAIN mv : wp <= p
  /\ \A p \in ob : q[p] \in Addrs
  /\ \A p \in DOMAIN mv : q[p] + SizeAt(m, q[p]) <= wp
  /\ \A p \in ob \ DOMAIN mv : q[p] + SizeAt(m, q[p]) <= u + 1
  /\ \A p, r \in ob : p < r => q[p] + SizeAt(m, q[p]) <= q[r]
  /\ \A c \in 1 .. wp - 1 : m[c].tag \in {"obj", "mon"} => \E p \in DOMAIN mv : c = q[p]

(* An old address of an object. *)
OldObj(m, q, ob, x) == x \in ob /\ m[q[x]].tag = "obj"

(* An object whose fields are old addresses.  Only a referent may have been *)
(* left behind.                                                             *)
BeforeFixing(m, q, ob, p) ==
  LET c == m[q[p]].cls
  IN /\ \A k \in 1 .. NRefs[c] : /\ m[q[p] + k].tag = "ref"
                                 /\ \/ m[q[p] + k].ref = Null
                                    \/ OldObj(m, q, ob, m[q[p] + k].ref)
                                    \/ c = Reference /\ k = 1 /\ m[q[p] + k].ref \notin ob
     /\ c = Reference /\ m[q[p] + 2].ref # Null => m[q[m[q[p] + 2].ref]].cls = Reference
     /\ m[q[p]].mon # Null => /\ m[q[p]].mon \in ob /\ p < m[q[p]].mon
                              /\ m[q[m[q[p]].mon]].tag = "mon"

Headers(m, q, ob) ==
  \A p \in ob : /\ m[q[p]].tag \in {"obj", "mon"}
                /\ m[q[p]].tag = "mon" => m[q[p]].mon = Null

Contents(m, ro, pe, q, ob) ==
  /\ Headers(m, q, ob)
  /\ \A p \in ob : m[q[p]].tag = "obj" => BeforeFixing(m, q, ob, p)
  /\ \A p, r \in ob : m[q[p]].tag = "obj" /\ m[q[r]].tag = "obj" /\ m[q[p]].mon # Null
                        /\ m[q[p]].mon = m[q[r]].mon => p = r
  /\ \A r \in Locations : ro[r] = Null \/ OldObj(m, q, ob, ro[r])
  /\ ro[Handler] # Null => m[q[ro[Handler]]].cls = Reference
  /\ pe # Null => OldObj(m, q, ob, pe) /\ m[q[pe]].cls = Reference

CopySound(m, u, ro, pe, q, ob, mv, wp) == Layout(m, u, q, ob, mv, wp) /\ Contents(m, ro, pe, q, ob)

(* No mark is left below wp, and each above it is that of an object that is *)
(* still to be copied.                                                      *)
FlagsSound(m, ob, mv, wp) ==
  /\ Unmarked(m, wp - 1)
  /\ \A p \in ob \ DOMAIN mv : \A k \in 0 .. SizeAt(m, p) - 1 :
       m[p + k].reach => \E o \in ob \ DOMAIN mv : m[o].tag = "obj" /\ p + k = MarkWord(m, o)

-----------------------------------------------------------------------------
(* While fields are relocated, fx are done. *)
NewObj(m, q, ob, x) == \E p \in ob : x = q[p] /\ m[x].tag = "obj"
NewRef(m, q, ob, x) == x = Null \/ NewObj(m, q, ob, x)
NewListed(m, q, ob, x) == x = Null \/ (NewObj(m, q, ob, x) /\ m[x].cls = Reference)

AfterFixing(m, q, ob, p) ==
  LET c == m[q[p]].cls
  IN /\ \A k \in 1 .. NRefs[c] : m[q[p] + k].tag = "ref" /\ NewRef(m, q, ob, m[q[p] + k].ref)
     /\ c = Reference => NewListed(m, q, ob, m[q[p] + 2].ref)
     /\ m[q[p]].mon # Null => \E r \in ob : /\ m[q[p]].mon = q[r] /\ p < r
                                            /\ m[q[r]].tag = "mon"

(* The monitor an object has, or will have. *)
NewMon(m, q, ob, fx, p) == IF p \in fx \/ m[q[p]].mon \notin ob THEN m[q[p]].mon ELSE q[m[q[p]].mon]

FieldsSound(m, u, ro, pe, q, ob, mv, fx, wp) ==
  /\ Layout(m, u, q, ob, mv, wp)
  /\ DOMAIN mv = ob
  /\ Headers(m, q, ob)
  /\ Unmarked(m, wp - 1)
  /\ \A p \in ob : m[q[p]].tag = "obj" => IF p \in fx THEN AfterFixing(m, q, ob, p) ELSE BeforeFixing(m, q, ob, p)
  /\ \A p, r \in ob : m[q[p]].tag = "obj" /\ m[q[r]].tag = "obj" /\ NewMon(m, q, ob, fx, p) # Null
                        /\ NewMon(m, q, ob, fx, p) = NewMon(m, q, ob, fx, r) => p = r
  /\ \A r \in Locations : NewRef(m, q, ob, ro[r])
  /\ NewListed(m, q, ob, ro[Handler])
  /\ NewListed(m, q, ob, pe)

IInv ==
  /\ TypeOK
  /\ phase # "run" => Grantable(request, roots)
  /\ phase \in {"run", "start", "retry", "mark"} => Sound(mem, heap_used, roots, pending)
  /\ phase \in {"run", "start", "retry"} => Unmarked(mem, heap_used)
  /\ phase = "mark" => MarkSound(mem, heap_used, roots, pending, worklist, objs)
  /\ phase = "copy" => /\ CopySound(mem, heap_used, roots, pending, Place(objs, moved), objs, moved, write_ptr)
                       /\ FlagsSound(mem, objs, moved, write_ptr)
  /\ phase = "fields" => FieldsSound(mem, heap_used, roots, pending, Place(objs, moved), objs, moved, fixed, write_ptr)

-----------------------------------------------------------------------------
(* Min takes the least element: NextToCopy and the loop over NotFixed. *)
LEMMA LeastIs ==
  ASSUME NEW S \in SUBSET Nat, S # {}
  PROVE  Min(S) \in S /\ \A n \in S : Min(S) <= n
<1> DEFINE R == {ss \in Nat \X Nat : ss[1] < ss[2]}
<1>1. IsWellFoundedOn(R, Nat)
  BY NatLessThanWellFounded DEF OpToRel
<1>2. PICK x \in S : \A n \in S : ~(<<n, x>> \in R)
  BY <1>1, WFMin
<1>3. ASSUME NEW n \in S  PROVE x <= n
  <2>1. <<n, x>> \in Nat \X Nat /\ <<n, x>>[1] = n /\ <<n, x>>[2] = x
    OBVIOUS
  <2>2. n < x => <<n, x>> \in R
    BY <2>1
  <2> QED  BY <1>2, <2>2
<1> QED  BY <1>3 DEF Min

(* The constants. *)
LEMMA CapIs == Cap \in Nat /\ Addrs = 1 .. Cap
BY HeapAssumption DEF Addrs

LEMMA NRefsIs == \A c \in Classes : NRefs[c] \in Nat
BY HeapAssumption

LEMMA ReferenceIs == Reference \in Classes /\ NRefs[Reference] >= 2
BY HeapAssumption

(* What the cells that are written look like. *)
LEMMA CellsAre ==
  /\ Free \in Cell
  /\ \A c \in Classes, i \in Nat : /\ Header(c, i) \in Cell /\ Header(c, i).tag = "obj" /\ Header(c, i).cls = c
                                   /\ Header(c, i).mon = Null /\ ~Header(c, i).reach
  /\ \A p \in 0 .. Cap : /\ Slot(p) \in Cell /\ Slot(p).tag = "ref" /\ Slot(p).ref = p /\ ~Slot(p).reach
  /\ \A h \in Nat : /\ Monitor(h) \in Cell /\ Monitor(h).tag = "mon" /\ Monitor(h).mon = Null
                    /\ ~Monitor(h).reach
<1>1. Free \in Cell /\ ~Free.reach /\ Free.mon = Null
  BY ReferenceIs, CapIs DEF Free, Cell, Null
<1>2. ASSUME NEW c \in Classes, NEW i \in Nat
      PROVE  /\ Header(c, i) \in Cell /\ Header(c, i).tag = "obj" /\ Header(c, i).cls = c
             /\ Header(c, i).mon = Null /\ ~Header(c, i).reach
  BY <1>1 DEF Header, Cell, Free, Null
<1>3. ASSUME NEW p \in 0 .. Cap
      PROVE  Slot(p) \in Cell /\ Slot(p).tag = "ref" /\ Slot(p).ref = p /\ ~Slot(p).reach
  BY <1>1 DEF Slot, Cell, Free, Null
<1>4. ASSUME NEW h \in Nat
      PROVE  Monitor(h) \in Cell /\ Monitor(h).tag = "mon" /\ Monitor(h).mon = Null /\ ~Monitor(h).reach
  BY <1>1 DEF Monitor, Cell, Free, Null
<1> QED  BY <1>1, <1>2, <1>3, <1>4

(* There is always another payload. *)
LEMMA FreshIdIs ==
  ASSUME TypeOK  PROVE FreshId \in Nat
<1> DEFINE T == {mem[a].id : a \in 1 .. heap_used}
           I == 1 .. Cap + 1
<1>1. heap_used \in Nat /\ heap_used <= Cap /\ Cap \in Nat
  BY CapIs DEF TypeOK
<1>2. IsFiniteSet(1 .. heap_used) /\ Cardinality(1 .. heap_used) <= Cap
  <2>1. 1 \in Int /\ heap_used \in Int
    BY <1>1
  <2>2. /\ IsFiniteSet(1 .. heap_used)
        /\ Cardinality(1 .. heap_used) = IF 1 > heap_used THEN 0 ELSE heap_used - 1 + 1
    BY <2>1, FS_Interval
  <2> QED  BY <1>1, <2>2
<1>3. IsFiniteSet(T) /\ Cardinality(T) <= Cardinality(1 .. heap_used)
  <2> DEFINE f == [a \in 1 .. heap_used |-> mem[a].id]
  <2>1. f \in Surjection(1 .. heap_used, T)
    BY DEF Surjection
  <2> HIDE DEF f, T
  <2> QED  BY <1>2, <2>1, FS_Surjection
<1>4. IsFiniteSet(I) /\ Cardinality(I) = Cap + 1
  BY <1>1, FS_Interval
<1>5. Cardinality(T) \in Nat /\ Cardinality(1 .. heap_used) \in Nat
  BY <1>2, <1>3, FS_CardinalityType
<1>6. I \ T # {}
  <2> SUFFICES ASSUME I \ T = {}  PROVE FALSE
    OBVIOUS
  <2>1. I \in SUBSET T
    OBVIOUS
  <2> HIDE DEF T, I
  <2>2. Cardinality(I) <= Cardinality(T)
    BY <1>3, <2>1, FS_Subset
  <2> QED  BY <1>1, <1>2, <1>3, <1>4, <1>5, <2>2
<1>7. I \ T \in SUBSET Nat
  BY <1>1
<1> HIDE DEF T, I
<1>8. Min(I \ T) \in I \ T
  BY <1>6, <1>7, LeastIs
<1> QED  BY <1>7, <1>8 DEF FreshId, T, I

-----------------------------------------------------------------------------
(* Cells that differ in their mark words and payloads only. *)
Same(x, y) == x.tag = y.tag /\ x.cls = y.cls /\ x.mon = y.mon /\ x.ref = y.ref

(* A heap sound up to u stays so when only mark words change. *)
LEMMA SoundSame ==
  ASSUME NEW m \in [Addrs -> Cell], NEW m2 \in [Addrs -> Cell], NEW u \in 0 .. Cap,
         \A a \in 1 .. u : Same(m2[a], m[a]), NEW ro, NEW pe, Sound(m, u, ro, pe)
  PROVE  Sound(m2, u, ro, pe)
<1>1. Cap \in Nat /\ \A a \in 1 .. u : m[a] \in Cell /\ m[a].cls \in Classes
  BY CapIs DEF Cell
<1>2. \A p : (IsObj(m, u, p) => IsObj(m2, u, p)) /\ (IsRef(m, u, p) => IsRef(m2, u, p))
             /\ (IsListed(m, u, p) => IsListed(m2, u, p))
  BY DEF IsObj, IsRef, IsListed, Same
<1>3. ASSUME NEW a \in 1 .. u, m2[a].tag = "obj"  PROVE ObjectSound(m2, u, a)
  <2>1. ObjectSound(m, u, a) /\ m2[a].cls = m[a].cls /\ m2[a].mon = m[a].mon /\ NRefs[m[a].cls] \in Nat
    BY <1>1, <1>3, NRefsIs DEF Sound, HeapSound, Same
  <2>2. \A k \in 1 .. NRefs[m[a].cls] : a + k \in 1 .. u
    BY <1>1, <2>1 DEF ObjectSound
  <2>3. \A k \in 1 .. NRefs[m[a].cls] : m2[a + k].tag = "ref" /\ IsRef(m2, u, m2[a + k].ref)
    BY <1>2, <2>1, <2>2 DEF ObjectSound, Same
  <2>4. m[a].cls = Reference => IsListed(m2, u, m2[a + 2].ref)
    <3> SUFFICES ASSUME m[a].cls = Reference PROVE IsListed(m2, u, m2[a + 2].ref)
      OBVIOUS
    <3>1. a + 2 \in 1 .. u
      BY <2>1, <2>2, ReferenceIs
    <3> QED  BY <1>2, <2>1, <3>1 DEF ObjectSound, Same
  <2>5. m[a].mon # Null => m[a].mon \in a + 1 .. u /\ m2[m[a].mon].tag = "mon"
    BY <2>1 DEF ObjectSound, Same
  <2> QED  BY <2>1, <2>3, <2>4, <2>5 DEF ObjectSound
<1>4. HeapSound(m2, u)
  BY <1>3 DEF Sound, HeapSound, Same
<1> QED  BY <1>2, <1>4 DEF Sound, RootsSound

(* Objects do not overlap. *)
LEMMA Disjoint ==
  ASSUME NEW m \in [Addrs -> Cell], NEW u \in 0 .. Cap, HeapSound(m, u),
         NEW a \in 1 .. u, NEW b \in 1 .. u, m[a].tag \in {"obj", "mon"}, m[b].tag \in {"obj", "mon"}, a < b
  PROVE  a + SizeAt(m, a) <= b
<1>1. Cap \in Nat /\ m[a] \in Cell /\ m[a].cls \in Classes
  BY CapIs DEF Cell
<1>2. NRefs[m[a].cls] \in Nat
  BY <1>1, NRefsIs
<1>3. CASE m[a].tag = "mon"
  BY <1>3 DEF SizeAt
<1>4. CASE m[a].tag = "obj"
  <2>1. \A k \in 1 .. NRefs[m[a].cls] : m[a + k].tag = "ref"
    BY <1>4 DEF HeapSound, ObjectSound
  <2>2. CASE b <= a + NRefs[m[a].cls]
    <3>1. b - a \in 1 .. NRefs[m[a].cls] /\ a + (b - a) = b
      BY <1>1, <1>2, <2>2
    <3> QED  BY <2>1, <3>1
  <2> QED  BY <1>1, <1>2, <1>4, <2>2 DEF SizeAt
<1> QED  BY <1>3, <1>4

(* Every object has a mark word of its own. *)
LEMMA MarkWordUnique ==
  ASSUME NEW m \in [Addrs -> Cell], NEW u \in 0 .. Cap, HeapSound(m, u),
         NEW a, IsObj(m, u, a), NEW b, IsObj(m, u, b), MarkWord(m, a) = MarkWord(m, b)
  PROVE  a = b
<1>1. ObjectSound(m, u, a) /\ ObjectSound(m, u, b)
  BY DEF HeapSound, IsObj
<1> QED  BY <1>1 DEF HeapSound, ObjectSound, MarkWord, IsObj

(* It lies in the heap, at the object or above it. *)
LEMMA MarkWordIs ==
  ASSUME NEW m \in [Addrs -> Cell], NEW u \in 0 .. Cap, HeapSound(m, u), NEW a, IsObj(m, u, a)
  PROVE  MarkWord(m, a) \in 1 .. u /\ MarkWord(m, a) \in Addrs /\ MarkWord(m, a) >= a
<1>1. ObjectSound(m, u, a) /\ Cap \in Nat
  BY CapIs DEF HeapSound, IsObj
<1> QED  BY <1>1, CapIs DEF ObjectSound, MarkWord, IsObj
-----------------------------------------------------------------------------
(* Allocation: what was sound stays so in a longer heap. *)
LEMMA SoundGrows ==
  ASSUME NEW m \in [Addrs -> Cell], NEW m2 \in [Addrs -> Cell], NEW u \in 0 .. Cap, NEW u2 \in u .. Cap,
         \A a \in 1 .. u : Same(m2[a], m[a]), NEW ro, NEW pe, Sound(m, u, ro, pe)
  PROVE  /\ \A a \in 1 .. u : m2[a].tag = "obj" => ObjectSound(m2, u2, a)
         /\ \A p : IsRef(m, u, p) => IsRef(m2, u2, p)
         /\ RootsSound(m2, u2, ro, pe)
         /\ HeapSound(m2, u)
<1>1. Sound(m2, u, ro, pe)
  BY SoundSame
<1>2. Cap \in Nat /\ \A a \in 1 .. u : a \in 1 .. u2
  BY CapIs
<1>3. \A p : (IsRef(m2, u, p) => IsRef(m2, u2, p)) /\ (IsListed(m2, u, p) => IsListed(m2, u2, p))
  BY <1>2 DEF IsObj, IsRef, IsListed
<1>4. \A p : IsRef(m, u, p) => IsRef(m2, u, p)
  BY DEF IsObj, IsRef, Same
<1>5. ASSUME NEW a \in 1 .. u, m2[a].tag = "obj"  PROVE ObjectSound(m2, u2, a)
  <2>1. ObjectSound(m2, u, a)
    BY <1>1, <1>5 DEF Sound, HeapSound
  <2>2. m2[a].cls \in Classes /\ NRefs[m2[a].cls] \in Nat
    <3>1. m2[a] \in Cell
      BY <1>2, CapIs
    <3> QED  BY <3>1, NRefsIs DEF Cell
  <2> QED  BY <1>2, <1>3, <2>1, <2>2 DEF ObjectSound
<1> QED  BY <1>1, <1>3, <1>4, <1>5 DEF Sound, RootsSound

(* The heap with a new object of class c at its end, with payload id and,   *)
(* if it is a Reference, the referent p.                                    *)
WithObject(m, u, c, id, p) ==
  [b \in Addrs |-> IF b = u + 1 THEN Header(c, id)
                   ELSE IF b = u + 1 + 1 /\ c = Reference THEN Slot(p)
                   ELSE IF b \in Cells(u + 1, Size(c)) THEN Slot(Null) ELSE m[b]]

(* AllocateObject, with the constructor of Reference. *)
LEMMA ObjectGranted ==
  ASSUME NEW m \in [Addrs -> Cell], NEW u \in 0 .. Cap, NEW ro \in [Locations -> 0 .. Cap], NEW pe,
         Sound(m, u, ro, pe), Unmarked(m, u),
         NEW c \in Classes, u + Size(c) <= Cap, NEW id \in Nat, NEW r \in Roots,
         NEW p \in 0 .. Cap, IsRef(m, u, p), NEW m2, m2 = WithObject(m, u, c, id, p)
  PROVE  /\ m2 \in [Addrs -> Cell] /\ u + Size(c) \in 0 .. Cap
         /\ [ro EXCEPT ![r] = u + 1] \in [Locations -> 0 .. Cap]
         /\ Sound(m2, u + Size(c), [ro EXCEPT ![r] = u + 1], pe) /\ Unmarked(m2, u + Size(c))
<1> DEFINE u2 == u + Size(c)
           ro2 == [ro EXCEPT ![r] = u + 1]
<1>1. Cap \in Nat /\ Addrs = 1 .. Cap /\ NRefs[c] \in Nat /\ u2 = u + 1 + NRefs[c] /\ u \in Nat
      /\ Null = 0 /\ Null \in 0 .. Cap
  <2>1. Cap \in Nat /\ Addrs = 1 .. Cap /\ NRefs[c] \in Nat /\ u \in Nat /\ Null = 0
    BY CapIs, NRefsIs DEF Null
  <2> QED  BY <2>1 DEF Size
<1>2. /\ Header(c, id) \in Cell /\ Header(c, id).tag = "obj" /\ Header(c, id).cls = c
      /\ Header(c, id).mon = Null /\ ~Header(c, id).reach
  BY CellsAre
<1>3. \A x \in 0 .. Cap : Slot(x) \in Cell /\ Slot(x).tag = "ref" /\ Slot(x).ref = x /\ ~Slot(x).reach
  BY CellsAre
<1>4. \A b \in Cells(u + 1, Size(c)) : b \in u + 1 .. u2
  BY <1>1 DEF Cells, Size
<1>5. m2 \in [Addrs -> Cell] /\ u2 \in u .. Cap /\ u2 \in 0 .. Cap /\ u + 1 \in Addrs
  <2>1. \A b \in Addrs : m2[b] \in Cell
    BY <1>1, <1>2, <1>3 DEF WithObject
  <2>2. m2 \in [Addrs -> Cell]
    BY <2>1 DEF WithObject
  <2>3. u2 <= Cap
    OBVIOUS
  <2> HIDE DEF u2
  <2>4. u2 \in u .. Cap /\ u2 \in 0 .. Cap /\ u + 1 \in Addrs
    BY <1>1, <2>3
  <2> QED  BY <2>2, <2>4
<1>6. \A a \in 1 .. u : m2[a] = m[a] /\ a \in Addrs
  BY <1>1, <1>4 DEF WithObject
<1>7. m2[u + 1] = Header(c, id)
  BY <1>5 DEF WithObject
<1>8. \A k \in 1 .. NRefs[c] : m2[u + 1 + k] = IF k = 1 /\ c = Reference THEN Slot(p) ELSE Slot(Null)
  <2> TAKE k \in 1 .. NRefs[c]
  <2>1. u + 1 + k \in Cells(u + 1, Size(c)) /\ u + 1 + k \in Addrs /\ u + 1 + k # u + 1
        /\ (u + 1 + k = u + 1 + 1 <=> k = 1)
    BY <1>1 DEF Cells, Size
  <2> QED  BY <2>1 DEF WithObject
<1>9. ro2 \in [Locations -> 0 .. Cap] /\ r \in Locations /\ r # Handler
      /\ \A x \in Locations : ro2[x] = IF x = r THEN u + 1 ELSE ro[x]
  BY <1>1, <1>5, HeapAssumption DEF Locations, Variables
<1> HIDE DEF u2, ro2
<1>10. /\ \A a \in 1 .. u : m2[a].tag = "obj" => ObjectSound(m2, u2, a)
       /\ \A x : IsRef(m, u, x) => IsRef(m2, u2, x)
       /\ RootsSound(m2, u2, ro, pe) /\ HeapSound(m2, u)
  BY <1>5, <1>6, SoundGrows DEF Same
<1>11. ObjectSound(m2, u2, u + 1)
  <2>1. \A k \in 1 .. NRefs[c] : m2[u + 1 + k].tag = "ref" /\ IsRef(m2, u2, m2[u + 1 + k].ref)
    BY <1>1, <1>3, <1>8, <1>10 DEF IsRef
  <2>2. c = Reference => IsListed(m2, u2, m2[u + 1 + 2].ref)
    <3> SUFFICES ASSUME c = Reference  PROVE IsListed(m2, u2, m2[u + 1 + 2].ref)
      OBVIOUS
    <3>1. 2 \in 1 .. NRefs[c]
      BY <1>1, ReferenceIs
    <3>2. m2[u + 1 + 2] = Slot(Null)
      BY <1>8, <3>1
    <3> QED  BY <1>1, <1>3, <3>2 DEF IsListed
  <2>3. u + 1 + NRefs[c] <= u2
    BY <1>1
  <2>4. m2[u + 1].cls = c /\ m2[u + 1].mon = Null
    BY <1>2, <1>7
  <2> QED  BY <2>1, <2>2, <2>3, <2>4 DEF ObjectSound
<1>12. \A a \in 1 .. u2 : a \in 1 .. u \/ a = u + 1 \/ (a - (u + 1) \in 1 .. NRefs[c] /\ a = u + 1 + (a - (u + 1)))
  BY <1>1
<1>13. \A a \in 1 .. u2 : a \notin 1 .. u /\ a # u + 1 => m2[a].tag = "ref" /\ ~m2[a].reach
  <2> SUFFICES ASSUME NEW a \in 1 .. u2, a \notin 1 .. u, a # u + 1  PROVE m2[a].tag = "ref" /\ ~m2[a].reach
    OBVIOUS
  <2>1. PICK k \in 1 .. NRefs[c] : a = u + 1 + k
    BY <1>12
  <2>2. m2[a] = Slot(p) \/ m2[a] = Slot(Null)
    BY <1>8, <2>1
  <2> QED  BY <1>1, <1>3, <2>2
<1>14. HeapSound(m2, u2)
  <2>1. \A a \in 1 .. u2 : m2[a].tag = "obj" => ObjectSound(m2, u2, a)
    BY <1>10, <1>11, <1>13
  <2>2. \A a \in 1 .. u2 : m2[a].tag = "mon" => m2[a].mon = Null
    BY <1>2, <1>7, <1>10, <1>13 DEF HeapSound
  <2>3. ASSUME NEW a \in 1 .. u2, NEW b \in 1 .. u2, m2[a].tag = "obj", m2[b].tag = "obj",
               m2[a].mon = m2[b].mon, m2[a].mon # Null
        PROVE  a = b
    <3>1. a \in 1 .. u /\ b \in 1 .. u
      BY <1>2, <1>7, <1>13, <2>3
    <3> QED  BY <1>10, <2>3, <3>1 DEF HeapSound
  <2> QED  BY <2>1, <2>2, <2>3 DEF HeapSound
<1>15. RootsSound(m2, u2, ro2, pe)
  <2>1. IsRef(m2, u2, u + 1)
    BY <1>1, <1>2, <1>5, <1>7, <1>12 DEF IsRef, IsObj, u2
  <2> QED  BY <1>9, <1>10, <2>1 DEF RootsSound, Locations
<1>16. Unmarked(m2, u2)
  BY <1>2, <1>6, <1>7, <1>13 DEF Unmarked
<1> QED  BY <1>5, <1>9, <1>14, <1>15, <1>16 DEF Sound, u2, ro2

(* The inflation of a monitor. *)
LEMMA MonitorGranted ==
  ASSUME NEW m \in [Addrs -> Cell], NEW u \in 0 .. Cap, NEW ro, NEW pe,
         Sound(m, u, ro, pe), Unmarked(m, u),
         u + 1 <= Cap, NEW o, IsObj(m, u, o), NEW h \in Nat, NEW m2,
         m2 = [m EXCEPT ![u + 1] = Monitor(h), ![o] = [@ EXCEPT !.mon = u + 1, !.hash = 0]]
  PROVE  /\ m2 \in [Addrs -> Cell] /\ u + 1 \in 0 .. Cap
         /\ Sound(m2, u + 1, ro, pe) /\ Unmarked(m2, u + 1)
<1> DEFINE u2 == u + 1
           x == [m[o] EXCEPT !.mon = u + 1, !.hash = 0]
<1>1. Cap \in Nat /\ Addrs = 1 .. Cap /\ u \in Nat /\ Null = 0 /\ o \in 1 .. u /\ o \in Addrs
  BY CapIs DEF Null, IsObj
<1>2. /\ Monitor(h) \in Cell /\ Monitor(h).tag = "mon" /\ Monitor(h).mon = Null /\ ~Monitor(h).reach
  BY CellsAre
<1>3. m[o] \in Cell /\ u2 \in Addrs /\ u2 # o /\ u2 \in 0 .. Cap
  BY <1>1
<1>4. x \in Cell /\ x.tag = m[o].tag /\ x.cls = m[o].cls /\ x.mon = u2 /\ x.ref = m[o].ref /\ x.reach = m[o].reach
  BY <1>3 DEF Cell
<1>5. m2[u2] = Monitor(h) /\ m2[o] = x /\ \A a \in Addrs \ {u2, o} : m2[a] = m[a]
  BY <1>1, <1>3
<1>6. m2 \in [Addrs -> Cell]
  BY <1>2, <1>3, <1>4
<1> HIDE DEF x, u2
<1>7. ASSUME NEW p, IsObj(m, u, p)  PROVE IsObj(m2, u2, p) /\ m2[p].cls = m[p].cls
  BY <1>1, <1>4, <1>5, <1>7 DEF IsObj, u2
<1>8. \A p : (IsRef(m, u, p) => IsRef(m2, u2, p)) /\ (IsListed(m, u, p) => IsListed(m2, u2, p))
  BY <1>7 DEF IsRef, IsListed
<1>9. \A a \in 1 .. u : a \in Addrs /\ a # u2 /\ m2[a].tag = m[a].tag /\ m2[a].cls = m[a].cls
                        /\ m2[a].ref = m[a].ref /\ (m2[a].reach <=> m[a].reach)
                        /\ m2[a].mon = IF a = o THEN u2 ELSE m[a].mon
  BY <1>1, <1>4, <1>5 DEF u2
<1>10. ASSUME NEW a \in 1 .. u, m[a].tag = "obj"  PROVE ObjectSound(m2, u2, a)
  <2>1. ObjectSound(m, u, a)
    BY <1>10 DEF Sound, HeapSound
  <2>2. m[a] \in Cell
    BY <1>9
  <2>3. NRefs[m[a].cls] \in Nat
    BY <2>2, NRefsIs DEF Cell
  <2>4. \A k \in 1 .. NRefs[m[a].cls] : a + k \in 1 .. u
    BY <2>1, <2>3 DEF ObjectSound
  <2>5. \A k \in 1 .. NRefs[m[a].cls] : m2[a + k].tag = "ref" /\ IsRef(m2, u2, m2[a + k].ref)
    BY <1>8, <1>9, <2>1, <2>4 DEF ObjectSound
  <2>6. m[a].cls = Reference => IsListed(m2, u2, m2[a + 2].ref)
    <3> SUFFICES ASSUME m[a].cls = Reference PROVE IsListed(m2, u2, m2[a + 2].ref)
      OBVIOUS
    <3>1. a + 2 \in 1 .. u
      BY <2>3, <2>4, ReferenceIs
    <3> QED  BY <1>8, <1>9, <2>1, <3>1 DEF ObjectSound
  <2>7. m2[a].mon # Null => m2[a].mon \in a + 1 .. u2 /\ m2[m2[a].mon].tag = "mon"
    BY <1>1, <1>2, <1>5, <1>9, <2>1 DEF ObjectSound, u2
  <2>8. a + NRefs[m2[a].cls] <= u2
    BY <1>1, <1>9, <2>1, <2>3 DEF ObjectSound, u2
  <2> QED  BY <1>9, <2>5, <2>6, <2>7, <2>8 DEF ObjectSound
<1>11. \A a \in 1 .. u2 : a \in 1 .. u \/ a = u2
  BY <1>1 DEF u2
<1>12. HeapSound(m2, u2)
  <2>1. \A a \in 1 .. u2 : m2[a].tag = "obj" => ObjectSound(m2, u2, a)
    BY <1>2, <1>5, <1>9, <1>10, <1>11
  <2>2. \A a \in 1 .. u2 : m2[a].tag = "mon" => m2[a].mon = Null
    BY <1>2, <1>5, <1>9, <1>11 DEF Sound, HeapSound, IsObj
  <2>3. ASSUME NEW a \in 1 .. u2, NEW b \in 1 .. u2, m2[a].tag = "obj", m2[b].tag = "obj",
               m2[a].mon = m2[b].mon, m2[a].mon # Null
        PROVE  a = b
    <3>1. a \in 1 .. u /\ b \in 1 .. u /\ m[a].tag = "obj" /\ m[b].tag = "obj"
      BY <1>2, <1>5, <1>9, <1>11, <2>3
    <3>2. ASSUME NEW y \in 1 .. u, m[y].tag = "obj"  PROVE m[y].mon # u2
      <4>1. ObjectSound(m, u, y)
        BY <3>2 DEF Sound, HeapSound
      <4> QED  BY <1>1, <4>1 DEF ObjectSound, u2
    <3> QED  BY <1>9, <2>3, <3>1, <3>2 DEF Sound, HeapSound
  <2> QED  BY <2>1, <2>2, <2>3 DEF HeapSound
<1>13. Unmarked(m2, u2)
  <2> SUFFICES ASSUME NEW a \in 1 .. u2  PROVE ~m2[a].reach
    BY DEF Unmarked
  <2>1. CASE a = u2
    BY <1>2, <1>5, <2>1
  <2>2. CASE a \in 1 .. u
    <3>1. ~m[a].reach
      BY <2>2 DEF Unmarked
    <3>2. m2[a].reach <=> m[a].reach
      BY <1>9, <2>2
    <3> QED  BY <3>1, <3>2
  <2> QED  BY <1>11, <2>1, <2>2
<1>14. RootsSound(m2, u2, ro, pe)
  BY <1>8 DEF Sound, RootsSound
<1> QED  BY <1>3, <1>6, <1>12, <1>13, <1>14 DEF Sound, u2

(* An allocation that fits leaves a sound heap. *)
LEMMA Granted ==
  ASSUME TypeOK, Sound(mem, heap_used, roots, pending), Unmarked(mem, heap_used),
         NEW q \in Requests, Grantable(q, roots), Fits(q), Grant(q), UNCHANGED pending
  PROVE  /\ mem' \in [Addrs -> Cell] /\ heap_used' \in 0 .. Cap /\ roots' \in [Locations -> 0 .. Cap]
         /\ Sound(mem', heap_used', roots', pending') /\ Unmarked(mem', heap_used')
<1>1. q.cls \in Classes /\ q.root \in Roots /\ q.root \in Locations /\ q.referent \in Locations
  BY DEF Requests, Grantable, Locations, Variables
<1>2. mem \in [Addrs -> Cell] /\ heap_used \in 0 .. Cap /\ roots \in [Locations -> 0 .. Cap] /\ FreshId \in Nat
  BY FreshIdIs DEF TypeOK
<1>3. CASE q.what = "object"
  <2> DEFINE m2 == WithObject(mem, heap_used, q.cls, FreshId, roots[q.referent])
             ro2 == [roots EXCEPT ![q.root] = heap_used + 1]
  <2>1. heap_used' = heap_used + Size(q.cls) /\ mem' = m2 /\ roots' = ro2
    BY <1>3 DEF Grant, Requested, WithObject
  <2>2. roots[q.referent] \in 0 .. Cap /\ IsRef(mem, heap_used, roots[q.referent])
    BY <1>1, <1>2 DEF Sound, RootsSound
  <2>3. heap_used + Size(q.cls) <= Cap
    BY <1>3 DEF Fits, Requested
  <2>4. /\ m2 \in [Addrs -> Cell] /\ heap_used + Size(q.cls) \in 0 .. Cap /\ ro2 \in [Locations -> 0 .. Cap]
        /\ Sound(m2, heap_used + Size(q.cls), ro2, pending) /\ Unmarked(m2, heap_used + Size(q.cls))
    BY <1>1, <1>2, <2>2, <2>3, ObjectGranted
  <2> HIDE DEF m2, ro2
  <2> QED  BY <2>1, <2>4
<1>4. CASE q.what = "monitor"
  <2> DEFINE o == roots[q.root]
             m2 == [mem EXCEPT ![heap_used + 1] = Monitor(Hash(o)),
                               ![o] = [@ EXCEPT !.mon = heap_used + 1, !.hash = 0]]
  <2>1. heap_used' = heap_used + 1 /\ mem' = m2 /\ roots' = roots
    BY <1>4 DEF Grant, Requested, NewMarkWord
  <2>2. IsObj(mem, heap_used, o)
    BY <1>1, <1>4 DEF Grantable, Sound, RootsSound, IsRef
  <2>3. Hash(o) \in Nat
    <3>1. MarkWord(mem, o) \in Addrs
      BY <1>2, <2>2, MarkWordIs DEF Sound
    <3>2. mem[MarkWord(mem, o)] \in Cell
      BY <1>2, <3>1
    <3> QED  BY <3>2 DEF Cell, Hash, get_mark_word, MarkWord
  <2>4. heap_used + 1 <= Cap
    BY <1>4 DEF Fits, Requested
  <2> HIDE DEF o
  <2>5. /\ m2 \in [Addrs -> Cell] /\ heap_used + 1 \in 0 .. Cap
        /\ Sound(m2, heap_used + 1, roots, pending) /\ Unmarked(m2, heap_used + 1)
    BY <1>2, <2>2, <2>3, <2>4, MonitorGranted
  <2> HIDE DEF m2
  <2> QED  BY <1>2, <2>1, <2>5
<1> QED  BY <1>3, <1>4 DEF Grantable

-----------------------------------------------------------------------------
(* What the program does between collections. *)
(* A variable is set. *)
LEMMA RootSet ==
  ASSUME NEW m, NEW u, NEW ro \in [Locations -> 0 .. Cap], NEW pe, Sound(m, u, ro, pe),
         NEW r \in Variables, NEW p \in 0 .. Cap, IsRef(m, u, p)
  PROVE  /\ [ro EXCEPT ![r] = p] \in [Locations -> 0 .. Cap]
         /\ Sound(m, u, [ro EXCEPT ![r] = p], pe)
<1>1. r \in Locations /\ r # Handler /\ Handler \in Locations
  BY HeapAssumption DEF Locations, Variables
<1> QED  BY <1>1 DEF Sound, RootsSound

(* A field is set. *)
LEMMA SlotSet ==
  ASSUME NEW m \in [Addrs -> Cell], NEW u \in 0 .. Cap, NEW ro, NEW pe, Sound(m, u, ro, pe), Unmarked(m, u),
         NEW a, IsObj(m, u, a), NEW k \in 1 .. NRefs[m[a].cls], NEW p \in 0 .. Cap, IsRef(m, u, p),
         m[a].cls = Reference /\ k = 2 => IsListed(m, u, p)
  PROVE  /\ [m EXCEPT ![a + k] = Slot(p)] \in [Addrs -> Cell]
         /\ Sound([m EXCEPT ![a + k] = Slot(p)], u, ro, pe)
         /\ Unmarked([m EXCEPT ![a + k] = Slot(p)], u)
<1> DEFINE m2 == [m EXCEPT ![a + k] = Slot(p)]
<1>1. Cap \in Nat /\ Addrs = 1 .. Cap /\ a \in 1 .. u /\ m[a].tag = "obj" /\ ObjectSound(m, u, a)
  BY CapIs DEF Sound, HeapSound, IsObj
<1>2. \A x \in 1 .. u : m[x] \in Cell /\ m[x].cls \in Classes /\ NRefs[m[x].cls] \in Nat
  <2>1. \A x \in 1 .. u : m[x] \in Cell
    BY <1>1
  <2> QED  BY <2>1, NRefsIs DEF Cell
<1>3. a + k \in 1 .. u /\ a + k \in Addrs /\ m[a + k].tag = "ref"
  BY <1>1, <1>2 DEF ObjectSound
<1>4. Slot(p) \in Cell /\ Slot(p).tag = "ref" /\ Slot(p).ref = p /\ ~Slot(p).reach
  BY CellsAre
<1>5. m2 \in [Addrs -> Cell] /\ m2[a + k] = Slot(p) /\ \A x \in Addrs \ {a + k} : m2[x] = m[x]
  BY <1>3, <1>4
<1> HIDE DEF m2
<1>6. \A x \in 1 .. u : x \in Addrs /\ m2[x].tag = m[x].tag /\ (m[x].tag # "ref" => m2[x] = m[x])
  BY <1>1, <1>3, <1>4, <1>5
<1>7. \A x : (IsObj(m, u, x) => IsObj(m2, u, x)) /\ (IsRef(m, u, x) => IsRef(m2, u, x))
             /\ (IsListed(m, u, x) => IsListed(m2, u, x))
  BY <1>6 DEF IsObj, IsRef, IsListed
<1>8. ASSUME NEW b \in 1 .. u, m2[b].tag = "obj"  PROVE ObjectSound(m2, u, b)
  <2>1. m2[b] = m[b] /\ ObjectSound(m, u, b) /\ NRefs[m[b].cls] \in Nat
    BY <1>2, <1>6, <1>8 DEF Sound, HeapSound
  <2>2. \A j \in 1 .. NRefs[m[b].cls] : b + j \in 1 .. u /\ b + j \in Addrs
    BY <1>1, <2>1 DEF ObjectSound
  <2>3. \A j \in 1 .. NRefs[m[b].cls] : m2[b + j].tag = "ref" /\ IsRef(m2, u, m2[b + j].ref)
    BY <1>4, <1>5, <1>7, <2>1, <2>2 DEF ObjectSound
  <2>4. ASSUME m[b].cls = Reference  PROVE IsListed(m2, u, m2[b + 2].ref)
    <3>1. 2 \in 1 .. NRefs[m[b].cls] /\ b + 2 \in Addrs
      BY <2>1, <2>2, <2>4, ReferenceIs
    <3>2. CASE b + 2 # a + k
      BY <1>5, <1>7, <2>1, <2>4, <3>1, <3>2 DEF ObjectSound
    <3>3. CASE b + 2 = a + k
      <4>1. b = a
        <5>1. HeapSound(m, u) /\ m[a].tag \in {"obj", "mon"} /\ m[b].tag \in {"obj", "mon"}
              /\ SizeAt(m, a) = 1 + NRefs[m[a].cls] /\ SizeAt(m, b) = 1 + NRefs[m[b].cls]
          BY <1>1, <1>6, <1>8 DEF Sound, SizeAt
        <5>2. a < b => a + SizeAt(m, a) <= b
          BY <1>1, <5>1, Disjoint
        <5>3. b < a => b + SizeAt(m, b) <= a
          BY <1>1, <5>1, Disjoint
        <5> QED  BY <1>1, <1>2, <3>1, <3>3, <5>1, <5>2, <5>3
      <4>2. k = 2
        BY <1>1, <3>3, <4>1, <1>2
      <4> QED  BY <1>4, <1>5, <1>7, <2>4, <3>3, <4>1, <4>2
    <3> QED  BY <3>2, <3>3
  <2>5. m[b].mon # Null => m[b].mon \in b + 1 .. u /\ m2[m[b].mon].tag = "mon"
    BY <1>6, <2>1 DEF ObjectSound
  <2> QED  BY <2>1, <2>3, <2>4, <2>5 DEF ObjectSound
<1>9. HeapSound(m2, u)
  <2>1. \A x \in 1 .. u : m2[x].tag = "mon" => m2[x].mon = Null
    BY <1>6 DEF Sound, HeapSound
  <2>2. \A x, y \in 1 .. u : m2[x].tag = "obj" /\ m2[y].tag = "obj" /\ m2[x].mon = m2[y].mon /\ m2[x].mon # Null
                                => x = y
    BY <1>6 DEF Sound, HeapSound
  <2> QED  BY <1>8, <2>1, <2>2 DEF HeapSound
<1>10. RootsSound(m2, u, ro, pe)
  BY <1>7 DEF Sound, RootsSound
<1>11. Unmarked(m2, u)
  <2> SUFFICES ASSUME NEW x \in 1 .. u  PROVE ~m2[x].reach
    BY DEF Unmarked
  <2>1. x \in Addrs /\ ~m[x].reach
    BY <1>6 DEF Unmarked
  <2> QED  BY <1>4, <1>5, <2>1
<1> QED  BY <1>5, <1>9, <1>10, <1>11 DEF Sound, m2

(* An identity hash code is stored. *)
LEMMA HashSet ==
  ASSUME NEW m \in [Addrs -> Cell], NEW u \in 0 .. Cap, NEW ro, NEW pe, Sound(m, u, ro, pe), Unmarked(m, u),
         NEW a \in Addrs, NEW h \in Nat
  PROVE  /\ [m EXCEPT ![a].hash = h] \in [Addrs -> Cell]
         /\ Sound([m EXCEPT ![a].hash = h], u, ro, pe) /\ Unmarked([m EXCEPT ![a].hash = h], u)
<1> DEFINE x == [m[a] EXCEPT !.hash = h]
           m2 == [m EXCEPT ![a].hash = h]
<1>1. m[a] \in Cell /\ \A b \in 1 .. u : b \in Addrs
  BY CapIs
<1>2. x \in Cell /\ Same(x, m[a]) /\ x.reach = m[a].reach
  BY <1>1 DEF Cell, Same
<1>3. m2[a] = x /\ \A b \in Addrs \ {a} : m2[b] = m[b]
  OBVIOUS
<1>4. m2 \in [Addrs -> Cell]
  BY <1>2
<1> HIDE DEF x, m2
<1>5. \A b \in 1 .. u : Same(m2[b], m[b]) /\ m2[b].reach = m[b].reach
  BY <1>1, <1>2, <1>3 DEF Same
<1>6. Sound(m2, u, ro, pe)
  BY <1>4, <1>5, SoundSame
<1>7. Unmarked(m2, u)
  BY <1>5, Zenon DEF Unmarked
<1> QED  BY <1>4, <1>6, <1>7 DEF m2

(* The steps of the program keep the invariant, *)
LEMMA MutatorKeeps ==
  ASSUME IInv, Mutator  PROVE IInv'
<1>1. phase = "run"
  BY DEF Mutator, New, Inflate, get_object_hash_code, Assign, Drop, getfield, putfield,
         getAndClearReferencePendingList, processPendingReferences, bump_allocate
<1>2. TypeOK /\ Sound(mem, heap_used, roots, pending) /\ Unmarked(mem, heap_used)
  BY <1>1 DEF IInv
<1>3. /\ mem \in [Addrs -> Cell] /\ heap_used \in 0 .. Cap /\ roots \in [Locations -> 0 .. Cap]
      /\ pending \in 0 .. Cap
  BY <1>2 DEF TypeOK
<1>4. Roots \subseteq Variables /\ Variables \subseteq Locations /\ Handler \in Locations /\ Cap \in Nat
      /\ Null \in 0 .. Cap /\ Addrs = 1 .. Cap
  BY CapIs DEF Locations, Variables, Null
<1>5. \A r \in Locations : IsRef(mem, heap_used, roots[r]) /\ roots[r] \in 0 .. Cap
  BY <1>2, <1>3 DEF Sound, RootsSound
<1>6. \A r \in Locations : roots[r] # Null => IsObj(mem, heap_used, roots[r])
  BY <1>5 DEF IsRef
<1>7. ASSUME mem' \in [Addrs -> Cell], roots' \in [Locations -> 0 .. Cap], pending' \in 0 .. Cap, Unchanged,
             Sound(mem', heap_used, roots', pending'), Unmarked(mem', heap_used)
      PROVE  IInv'
  BY <1>1, <1>2, <1>7 DEF IInv, TypeOK, Unchanged, gcVars
<1>8. ASSUME NEW q \in Requests, Grantable(q, roots), bump_allocate(q)  PROVE IInv'
  <2>1. CASE Fits(q)
    <3>1. Grant(q) /\ UNCHANGED <<phase, request, pending, gcVars>>
      BY <1>8, <2>1 DEF bump_allocate
    <3>2. /\ mem' \in [Addrs -> Cell] /\ heap_used' \in 0 .. Cap /\ roots' \in [Locations -> 0 .. Cap]
          /\ Sound(mem', heap_used', roots', pending') /\ Unmarked(mem', heap_used')
      BY <1>2, <1>8, <2>1, <3>1, Granted
    <3> QED  BY <1>1, <1>2, <3>1, <3>2 DEF IInv, TypeOK, gcVars
  <2>2. CASE ~Fits(q)
    BY <1>2, <1>8, <2>2 DEF IInv, TypeOK, bump_allocate, gcVars
  <2> QED  BY <2>1, <2>2
<1>9. ASSUME NEW o, IsObj(mem, heap_used, o), NEW k \in 1 .. NRefs[mem[o].cls]
      PROVE  IsRef(mem, heap_used, mem[o + k].ref) /\ mem[o + k].ref \in 0 .. Cap
  <2>1. ObjectSound(mem, heap_used, o) /\ o \in 1 .. heap_used /\ mem[o] \in Cell
    BY <1>2, <1>3, <1>4, <1>9 DEF Sound, HeapSound, IsObj
  <2>2. NRefs[mem[o].cls] \in Nat
    BY <2>1, NRefsIs DEF Cell
  <2>3. o + k \in Addrs
    BY <1>3, <1>4, <2>1, <2>2 DEF ObjectSound
  <2>4. mem[o + k] \in Cell
    BY <1>3, <2>3
  <2>5. mem[o + k].ref \in 0 .. Cap
    BY <2>4 DEF Cell
  <2> QED  BY <2>1, <2>5 DEF ObjectSound
<1>10. CASE New
  <2>1. PICK c \in Classes, r \in Roots, s \in Roots : bump_allocate(NewObject(c, r, s))
    BY <1>10 DEF New
  <2>2. NewObject(c, r, s) \in Requests /\ Grantable(NewObject(c, r, s), roots)
    BY <1>4 DEF NewObject, Request, Requests, Grantable
  <2> QED  BY <1>8, <2>1, <2>2
<1>11. CASE Inflate
  <2>1. PICK r \in Roots : roots[r] # Null /\ bump_allocate(NewMonitor(r))
    BY <1>11 DEF Inflate
  <2>2. NewMonitor(r) \in Requests /\ Grantable(NewMonitor(r), roots)
    BY <1>4, <2>1, ReferenceIs DEF NewMonitor, Request, Requests, Grantable
  <2> QED  BY <1>8, <2>1, <2>2
<1>12. CASE get_object_hash_code
  <2>1. PICK r \in Roots, h \in Hashes : roots[r] # Null /\ mem' = [mem EXCEPT ![get_mark_word(roots[r])].hash = h]
    BY <1>12 DEF get_object_hash_code
  <2>2. h \in Nat /\ get_mark_word(roots[r]) \in Addrs /\ UNCHANGED <<roots, pending>> /\ Unchanged
    <3>1. get_mark_word(roots[r]) = MarkWord(mem, roots[r])
      BY DEF get_mark_word, MarkWord
    <3>2. IsObj(mem, heap_used, roots[r])
      BY <1>4, <1>6, <2>1
    <3>3. MarkWord(mem, roots[r]) \in Addrs
      BY <1>2, <1>3, <3>2, MarkWordIs DEF Sound
    <3>4. h \in Nat
      BY HeapAssumption
    <3> QED  BY <1>12, <3>1, <3>3, <3>4 DEF get_object_hash_code
  <2>3. mem' \in [Addrs -> Cell] /\ Sound(mem', heap_used, roots, pending) /\ Unmarked(mem', heap_used)
    BY <1>2, <1>3, <2>1, <2>2, HashSet
  <2> QED  BY <1>3, <1>7, <2>2, <2>3
<1>13. CASE Assign
  <2>1. PICK r \in Variables, s \in Variables : roots' = [roots EXCEPT ![r] = roots[s]]
    BY <1>13 DEF Assign
  <2>2. roots' \in [Locations -> 0 .. Cap] /\ Sound(mem, heap_used, roots', pending)
    BY <1>2, <1>3, <1>4, <1>5, <2>1, RootSet
  <2> QED  BY <1>2, <1>3, <1>7, <1>13, <2>2 DEF Assign
<1>14. CASE Drop
  <2>1. PICK r \in Variables : roots' = [roots EXCEPT ![r] = Null]
    BY <1>14 DEF Drop
  <2>2. roots' \in [Locations -> 0 .. Cap] /\ Sound(mem, heap_used, roots', pending)
    <3>1. IsRef(mem, heap_used, Null)
      BY DEF IsRef
    <3> QED  BY <1>2, <1>3, <1>4, <2>1, <3>1, RootSet
  <2> QED  BY <1>2, <1>3, <1>7, <1>14, <2>2 DEF Drop
<1>15. CASE getfield
  <2>1. PICK r \in Roots, s \in Roots :
          /\ roots[s] # Null
          /\ \E k \in ProgramSlots(roots[s]) \cup (IF mem[roots[s]].cls = Reference THEN {1} ELSE {}) :
               roots' = [roots EXCEPT ![r] = mem[roots[s] + k].ref]
    BY <1>15 DEF getfield
  <2>2. PICK k \in 1 .. NRefs[mem[roots[s]].cls] : roots' = [roots EXCEPT ![r] = mem[roots[s] + k].ref]
    <3>1. 1 \in 1 .. NRefs[Reference]
      BY NRefsIs, ReferenceIs
    <3> QED  BY <2>1, <3>1 DEF ProgramSlots
  <2>3. IsRef(mem, heap_used, mem[roots[s] + k].ref) /\ mem[roots[s] + k].ref \in 0 .. Cap /\ r \in Variables
    BY <1>4, <1>6, <1>9, <2>1
  <2>4. roots' \in [Locations -> 0 .. Cap] /\ Sound(mem, heap_used, roots', pending)
    BY <1>2, <1>3, <2>2, <2>3, RootSet
  <2> QED  BY <1>2, <1>3, <1>7, <1>15, <2>4 DEF getfield
<1>16. CASE putfield
  <2>1. PICK r \in Roots, s \in Roots :
          /\ roots[r] # Null
          /\ \E k \in ProgramSlots(roots[r]) : mem' = [mem EXCEPT ![roots[r] + k] = Slot(roots[s])]
    BY <1>16 DEF putfield
  <2>2. PICK k \in 1 .. NRefs[mem[roots[r]].cls] :
          /\ mem' = [mem EXCEPT ![roots[r] + k] = Slot(roots[s])]
          /\ mem[roots[r]].cls = Reference => k > 2
    BY <2>1 DEF ProgramSlots
  <2>3. IsObj(mem, heap_used, roots[r]) /\ roots[s] \in 0 .. Cap /\ IsRef(mem, heap_used, roots[s])
    BY <1>4, <1>5, <1>6, <2>1
  <2>5. (mem[roots[r]].cls = Reference /\ k = 2) => IsListed(mem, heap_used, roots[s])
    <3>1. ~(2 > 2)
      OBVIOUS
    <3> QED  BY <2>2, <3>1
  <2>4. mem' \in [Addrs -> Cell] /\ Sound(mem', heap_used, roots, pending) /\ Unmarked(mem', heap_used)
    <3> DEFINE o == roots[r]
               p == roots[s]
    <3>1. /\ mem' = [mem EXCEPT ![o + k] = Slot(p)] /\ k \in 1 .. NRefs[mem[o].cls]
          /\ IsObj(mem, heap_used, o) /\ p \in 0 .. Cap /\ IsRef(mem, heap_used, p)
      BY <2>2, <2>3
    <3>2. (mem[o].cls = Reference /\ k = 2) => IsListed(mem, heap_used, p)
      BY <2>5
    <3> HIDE DEF o, p
    <3> QED  BY <1>2, <1>3, <3>1, <3>2, SlotSet
  <2> QED  BY <1>3, <1>7, <1>16, <2>4 DEF putfield
<1>17. CASE getAndClearReferencePendingList
  <2>1. /\ roots' = [roots EXCEPT ![Handler] = pending] /\ pending' = Null /\ UNCHANGED mem /\ Unchanged
    BY <1>17 DEF getAndClearReferencePendingList
  <2>2. IsListed(mem, heap_used, pending) /\ IsRef(mem, heap_used, pending) /\ IsListed(mem, heap_used, Null)
    BY <1>2 DEF Sound, RootsSound, IsListed, IsRef
  <2>3. roots' \in [Locations -> 0 .. Cap] /\ \A r \in Locations : roots'[r] = IF r = Handler THEN pending ELSE roots[r]
    BY <1>3, <1>4, <2>1
  <2>4. Sound(mem, heap_used, roots', pending')
    BY <1>2, <1>4, <2>1, <2>2, <2>3 DEF Sound, RootsSound
  <2> QED  BY <1>2, <1>3, <1>4, <1>7, <2>1, <2>3, <2>4
<1>18. CASE processPendingReferences
  <2> DEFINE h == roots[Handler]
             p == mem[h + 2].ref
  <2>1. /\ h # Null /\ mem' = [mem EXCEPT ![h + 2] = Slot(Null)]
        /\ roots' = [roots EXCEPT ![Handler] = p] /\ UNCHANGED pending /\ Unchanged
    BY <1>18 DEF processPendingReferences
  <2>2. IsObj(mem, heap_used, h) /\ mem[h].cls = Reference /\ ObjectSound(mem, heap_used, h)
    BY <1>2, <2>1 DEF Sound, RootsSound, HeapSound, IsListed, IsObj
  <2>3. 2 \in 1 .. NRefs[mem[h].cls]
    BY <2>2, ReferenceIs, NRefsIs
  <2>4. IsRef(mem, heap_used, p) /\ p \in 0 .. Cap /\ IsListed(mem, heap_used, p)
    BY <1>9, <2>2, <2>3 DEF ObjectSound
  <2> HIDE DEF p
  <2>5. Sound(mem, heap_used, roots', pending) /\ roots' \in [Locations -> 0 .. Cap]
    <3>1. roots' \in [Locations -> 0 .. Cap] /\ \A r \in Locations : roots'[r] = IF r = Handler THEN p ELSE roots[r]
      BY <1>3, <1>4, <2>1, <2>4
    <3> QED  BY <1>2, <1>4, <2>4, <3>1 DEF Sound, RootsSound
  <2>6. IsRef(mem, heap_used, Null) /\ IsListed(mem, heap_used, Null)
    BY DEF IsRef, IsListed
  <2> HIDE DEF h
  <2>7. mem' \in [Addrs -> Cell] /\ Sound(mem', heap_used, roots', pending) /\ Unmarked(mem', heap_used)
    BY <1>2, <1>3, <1>4, <2>1, <2>2, <2>3, <2>5, <2>6, SlotSet
  <2> QED  BY <1>3, <1>7, <2>1, <2>5, <2>7
<1> QED  BY <1>10, <1>11, <1>12, <1>13, <1>14, <1>15, <1>16, <1>17, <1>18 DEF Mutator

(* and so does the second try of bump_allocate. *)
LEMMA RetryKeeps ==
  ASSUME IInv, Retry  PROVE IInv'
<1>1. TypeOK /\ Sound(mem, heap_used, roots, pending) /\ Unmarked(mem, heap_used) /\ request \in Requests
      /\ Grantable(request, roots)
  BY DEF IInv, Retry, TypeOK
<1>2. phase' = "run" /\ request' \in Requests /\ UNCHANGED <<pending, gcVars>>
  BY ReferenceIs DEF Retry, NoRequest, Request, Requests, Locations
<1>3. CASE Fits(request)
  <2>1. /\ mem' \in [Addrs -> Cell] /\ heap_used' \in 0 .. Cap /\ roots' \in [Locations -> 0 .. Cap]
        /\ Sound(mem', heap_used', roots', pending') /\ Unmarked(mem', heap_used')
    BY <1>1, <1>2, <1>3, Granted DEF Retry
  <2> QED  BY <1>1, <1>2, <2>1 DEF IInv, TypeOK, gcVars
<1>4. CASE ~Fits(request)
  BY <1>1, <1>2, <1>4 DEF IInv, TypeOK, Retry, gcVars
<1> QED  BY <1>3, <1>4

-----------------------------------------------------------------------------
(* The mark phase. *)
(* What SetReached changes, *)
LEMMA MarksAre ==
  ASSUME mem \in [Addrs -> Cell], NEW S, NEW flag \in BOOLEAN, NEW m2, m2 = SetReached(S, flag)
  PROVE  /\ m2 \in [Addrs -> Cell]
         /\ \A a \in Addrs : Same(m2[a], mem[a])
         /\ \A a \in Addrs : (\E o \in S : a = MarkWord(mem, o)) \/ m2[a] = mem[a]
<1>1. \A o : get_mark_word(o) = MarkWord(mem, o)
  BY DEF get_mark_word, MarkWord
<1>2. ASSUME NEW a \in Addrs
      PROVE  /\ m2[a] = IF \E o \in S : a = MarkWord(mem, o) THEN [mem[a] EXCEPT !.reach = flag] ELSE mem[a]
             /\ [mem[a] EXCEPT !.reach = flag] \in Cell /\ ([mem[a] EXCEPT !.reach = flag].reach <=> flag)
             /\ Same([mem[a] EXCEPT !.reach = flag], mem[a]) /\ mem[a] \in Cell
  <2>1. mem[a] \in Cell
    OBVIOUS
  <2>2. m2[a] = IF \E o \in S : a = MarkWord(mem, o) THEN [mem[a] EXCEPT !.reach = flag] ELSE mem[a]
    BY <1>1 DEF SetReached
  <2>3. /\ [mem[a] EXCEPT !.reach = flag] \in Cell /\ ([mem[a] EXCEPT !.reach = flag].reach <=> flag)
        /\ Same([mem[a] EXCEPT !.reach = flag], mem[a])
    BY <2>1 DEF Cell, Same
  <2> QED  BY <2>1, <2>2, <2>3
<1>3. m2 = [a \in Addrs |-> m2[a]]
  BY DEF SetReached
<1>4. ASSUME NEW a \in Addrs  PROVE Same(m2[a], mem[a]) /\ m2[a] \in Cell
  <2>1. CASE \E o \in S : a = MarkWord(mem, o)
    <3>1. m2[a] = [mem[a] EXCEPT !.reach = flag]
      BY <1>2, <2>1
    <3> QED  BY <1>2, <3>1
  <2>2. CASE ~\E o \in S : a = MarkWord(mem, o)
    <3>1. m2[a] = mem[a]
      BY <1>2, <2>2
    <3> QED  BY <3>1 DEF Same
  <2> QED  BY <2>1, <2>2
<1> QED  BY <1>2, <1>3, <1>4

(* and that it clears the mark of an object in the word that holds it. *)
LEMMA MarkCleared ==
  ASSUME mem \in [Addrs -> Cell], NEW o, MarkWord(mem, o) \in Addrs
  PROVE  ~SetReached({o}, FALSE)[MarkWord(mem, o)].reach
<1> DEFINE a == MarkWord(mem, o)
<1>1. mem[a] \in Cell /\ a = get_mark_word(o)
  BY DEF MarkWord, get_mark_word
<1>2. SetReached({o}, FALSE)[a] = [mem[a] EXCEPT !.reach = FALSE]
  BY <1>1 DEF SetReached
<1>3. ~[mem[a] EXCEPT !.reach = FALSE].reach
  BY <1>1 DEF Cell
<1> HIDE DEF a
<1>4. ~SetReached({o}, FALSE)[a].reach
  BY <1>2, <1>3
<1> QED  BY <1>4 DEF a

(* Setting marks moves neither objects nor mark words. *)
LEMMA SameObjects ==
  ASSUME NEW m, NEW m2, NEW u \in 0 .. Cap, \A a \in Addrs : Same(m2[a], m[a])
  PROVE  \A p : IsObj(m, u, p) => /\ IsObj(m2, u, p) /\ MarkWord(m2, p) = MarkWord(m, p)
                                  /\ FirstStrong(m2, p) = FirstStrong(m, p)
<1>1. \A p \in 1 .. u : p \in Addrs
  BY CapIs
<1> QED  BY <1>1 DEF IsObj, MarkWord, FirstStrong, Same

(* The root loop: before it nothing is marked. *)
LEMMA MarkRootsKeeps ==
  ASSUME RootsFit, IInv, MarkRoots  PROVE IInv'
<1> DEFINE new == {o \in RootObjects : ~Reached(o)}
<1>1. /\ TypeOK /\ Sound(mem, heap_used, roots, pending) /\ Unmarked(mem, heap_used)
      /\ Grantable(request, roots)
      /\ mem' = SetReached(new, TRUE) /\ worklist' = new /\ objs' = {} /\ phase' = "mark"
      /\ UNCHANGED <<heap_used, roots, pending, request, moved, fixed, write_ptr>>
  BY DEF IInv, MarkRoots
<1>2. mem \in [Addrs -> Cell] /\ heap_used \in 0 .. Cap
  BY <1>1 DEF TypeOK
<1>3. \A o \in RootObjects : IsObj(mem, heap_used, o) /\ ~Reached(o)
  <2> SUFFICES ASSUME NEW o \in RootObjects  PROVE IsObj(mem, heap_used, o) /\ ~Reached(o)
    OBVIOUS
  <2>1. IsObj(mem, heap_used, o)
    BY <1>1 DEF RootObjects, RootLocations, Locations, Variables, Sound, RootsSound, IsRef, IsListed
  <2>2. MarkWord(mem, o) \in 1 .. heap_used
    BY <1>1, <1>2, <2>1, MarkWordIs DEF Sound
  <2> QED  BY <1>1, <2>1, <2>2 DEF Unmarked, Reached, get_mark_word, MarkWord
<1>4. new = RootObjects
  BY <1>3
<1>5. /\ \A r \in Locations : roots[r] \in RootObjects \cup {Null}
      /\ pending \in RootObjects \cup {Null}
  BY DEF RootObjects, RootLocations, Locations, Variables
<1> HIDE DEF new
<1>6. /\ mem' \in [Addrs -> Cell] /\ \A a \in Addrs : Same(mem'[a], mem[a])
      /\ \A a \in Addrs : (\E o \in new : a = MarkWord(mem, o)) \/ mem'[a] = mem[a]
  BY <1>1, <1>2, MarksAre
<1>7. \A a \in 1 .. heap_used : a \in Addrs
  BY <1>2, CapIs
<1>8. Sound(mem', heap_used', roots', pending')
  <2>1. Sound(mem', heap_used, roots, pending)
    BY <1>1, <1>2, <1>6, <1>7, SoundSame
  <2> QED  BY <1>1, <2>1
<1>9. \A o \in new : IsObj(mem', heap_used, o) /\ MarkWord(mem', o) = MarkWord(mem, o)
  BY <1>2, <1>3, <1>4, <1>6, SameObjects
<1>10. ASSUME NEW c \in 1 .. heap_used, mem'[c].reach
       PROVE  \E o \in new : mem'[o].tag = "obj" /\ c = MarkWord(mem', o)
  <2>1. ~mem[c].reach
    BY <1>1 DEF Unmarked
  <2>2. PICK o \in new : c = MarkWord(mem, o)
    BY <1>6, <1>7, <1>10, <2>1
  <2> QED  BY <1>9, <2>2 DEF IsObj
<1>11. MarkSound(mem', heap_used', roots', pending', worklist', objs')
  <2>1. worklist' = new /\ objs' = {} /\ worklist' \cup objs' = new
    BY <1>1
  <2>2. /\ \A r \in Locations : roots'[r] \in new \cup {} \cup {Null}
        /\ pending' \in new \cup {} \cup {Null}
    BY <1>1, <1>4, <1>5
  <2>3. \A c \in 1 .. heap_used' : mem'[c].reach =>
          \E o \in worklist' \cup objs' : mem'[o].tag = "obj" /\ c = MarkWord(mem', o)
    BY <1>1, <1>10, <2>1
  <2>4. \A o \in worklist' : IsObj(mem', heap_used', o)
    BY <1>1, <1>9
  <2> QED  BY <2>1, <2>2, <2>3, <2>4, Zenon DEF MarkSound
<1>12. new \subseteq Addrs
  BY <1>7, <1>9 DEF IsObj
<1>13. TypeOK'
  BY <1>1, <1>6, <1>12 DEF TypeOK
<1> QED  BY <1>1, <1>8, <1>11, <1>13 DEF IInv

(* mark_reachable.  A target that was marked before is in the worklist or  *)
(* in objs: its mark word is that of no other object.                       *)
LEMMA MarkKeeps ==
  ASSUME IInv, Mark  PROVE IInv'
<1>1. /\ TypeOK /\ Sound(mem, heap_used, roots, pending) /\ Grantable(request, roots) /\ phase' = "mark"
      /\ MarkSound(mem, heap_used, roots, pending, worklist, objs)
      /\ UNCHANGED <<heap_used, roots, pending, phase, request, moved, fixed, write_ptr>>
  BY DEF IInv, Mark
<1>2. PICK a \in worklist : mark_reachable(a)
  BY DEF Mark
<1> DEFINE new == {t \in StrongTargets(a) : ~Reached(t)}
           u == heap_used
<1>3. /\ objs' = objs \cup {a} \cup ({mem[a].mon} \ {Null})
      /\ mem' = SetReached(new, TRUE) /\ worklist' = (worklist \ {a}) \cup new
  BY <1>2 DEF mark_reachable
<1>4. mem \in [Addrs -> Cell] /\ u \in 0 .. Cap /\ worklist \subseteq Addrs /\ objs \subseteq Addrs
  BY <1>1 DEF TypeOK
<1>5. IsObj(mem, u, a) /\ ObjectSound(mem, u, a) /\ a \in Addrs /\ mem[a] \in Cell
  BY <1>1, <1>4, <1>2 DEF MarkSound, Sound, HeapSound, IsObj
<1>6. NRefs[mem[a].cls] \in Nat /\ FirstStrong(mem, a) \in {1, 2}
  BY <1>5, NRefsIs DEF Cell, FirstStrong
<1>7. StrongTargets(a) = {mem[a + k].ref : k \in FirstStrong(mem, a) .. NRefs[mem[a].cls]} \ {Null}
  BY DEF StrongTargets, Targets, FirstStrong
<1>8. \A k \in FirstStrong(mem, a) .. NRefs[mem[a].cls] : IsRef(mem, u, mem[a + k].ref)
  BY <1>5, <1>6 DEF ObjectSound
<1>9. \A t \in StrongTargets(a) : IsObj(mem, u, t)
  BY <1>7, <1>8 DEF IsRef
<1>10. \A c \in 1 .. u : c \in Addrs
  BY <1>4, CapIs
(* Every target is, or becomes, an entry of the worklist or of objs. *)
<1>11. ASSUME NEW t \in StrongTargets(a)  PROVE t \in new \cup worklist \cup objs
  <2> SUFFICES ASSUME Reached(t)  PROVE t \in worklist \cup objs
    OBVIOUS
  <2>1. MarkWord(mem, t) \in 1 .. u /\ IsObj(mem, u, t)
    BY <1>1, <1>4, <1>9, MarkWordIs DEF Sound
  <2>2. mem[MarkWord(mem, t)].reach
    BY DEF Reached, get_mark_word, MarkWord
  <2>3. PICK o \in worklist \cup objs : mem[o].tag = "obj" /\ MarkWord(mem, t) = MarkWord(mem, o)
    BY <1>1, <2>1, <2>2 DEF MarkSound
  <2>4. IsObj(mem, u, o)
    BY <1>1, <2>3 DEF MarkSound, IsObj
  <2>5. t = o
    BY <1>1, <1>4, <2>1, <2>3, <2>4, MarkWordUnique DEF Sound
  <2> QED  BY <2>5
<1>12. \A t \in new : t \in StrongTargets(a)
  OBVIOUS
<1> HIDE DEF new
<1>13. /\ mem' \in [Addrs -> Cell] /\ \A c \in Addrs : Same(mem'[c], mem[c])
       /\ \A c \in Addrs : (\E o \in new : c = MarkWord(mem, o)) \/ mem'[c] = mem[c]
  BY <1>3, <1>4, MarksAre
<1>14. \A o : IsObj(mem, u, o) => /\ IsObj(mem', u, o) /\ MarkWord(mem', o) = MarkWord(mem, o)
                                  /\ FirstStrong(mem', o) = FirstStrong(mem, o)
  BY <1>4, <1>13, SameObjects
<1>15. Sound(mem', heap_used', roots', pending')
  <2>1. Sound(mem', u, roots, pending)
    BY <1>1, <1>4, <1>10, <1>13, SoundSame
  <2> QED  BY <1>1, <2>1
<1>16. mem[a].mon # Null => mem[a].mon \in 1 .. u /\ mem[mem[a].mon].tag = "mon"
  BY <1>4, <1>5 DEF ObjectSound, IsObj
<1>17. worklist \cup objs \subseteq worklist' \cup objs' /\ new \subseteq worklist'
  BY <1>3
<1>18. \A o \in worklist' : IsObj(mem', heap_used', o)
  BY <1>1, <1>3, <1>9, <1>12, <1>14 DEF MarkSound
<1>19. \A o \in objs' : o \in 1 .. u /\ mem[o].tag \in {"obj", "mon"} /\ mem'[o].tag = mem[o].tag
                        /\ mem'[o].mon = mem[o].mon /\ mem'[o].cls = mem[o].cls
  BY <1>1, <1>3, <1>5, <1>10, <1>13, <1>16 DEF MarkSound, IsObj, Same
<1>20. ASSUME NEW c \in 1 .. u, mem'[c].reach
       PROVE  \E o \in worklist' \cup objs' : mem'[o].tag = "obj" /\ c = MarkWord(mem', o)
  <2>1. CASE \E o \in new : c = MarkWord(mem, o)
    BY <1>9, <1>12, <1>14, <1>17, <2>1 DEF IsObj
  <2>2. CASE ~\E o \in new : c = MarkWord(mem, o)
    <3>1. mem[c].reach
      BY <1>10, <1>13, <1>20, <2>2
    <3>2. PICK o \in worklist \cup objs : mem[o].tag = "obj" /\ c = MarkWord(mem, o)
      BY <1>1, <3>1 DEF MarkSound
    <3>3. IsObj(mem, u, o)
      BY <1>1, <3>2 DEF MarkSound, IsObj
    <3> QED  BY <1>14, <1>17, <3>2, <3>3 DEF IsObj
  <2> QED  BY <2>1, <2>2
<1>21. ASSUME NEW o \in objs', mem'[o].tag = "obj"
       PROVE  /\ \A k \in FirstStrong(mem', o) .. NRefs[mem'[o].cls] : mem'[o + k].ref \in worklist' \cup objs' \cup {Null}
              /\ mem'[o].mon \in objs' \cup {Null}
  <2>1. IsObj(mem, u, o) /\ ObjectSound(mem, u, o)
    BY <1>1, <1>19, <1>21 DEF IsObj, Sound, HeapSound
  <2>2. mem[o] \in Cell
    BY <1>4, <1>10, <1>19
  <2>3. NRefs[mem[o].cls] \in Nat /\ FirstStrong(mem, o) \in {1, 2}
    BY <2>2, NRefsIs DEF Cell, FirstStrong
  <2>4. \A k \in FirstStrong(mem, o) .. NRefs[mem[o].cls] : o + k \in Addrs
    BY <1>4, <1>10, <2>1, <2>3 DEF ObjectSound, IsObj
  <2>5. \A k \in FirstStrong(mem, o) .. NRefs[mem[o].cls] : mem'[o + k].ref = mem[o + k].ref
    BY <1>13, <2>4 DEF Same
  <2>6. \A k \in FirstStrong(mem, o) .. NRefs[mem[o].cls] : mem[o + k].ref \in worklist' \cup objs' \cup {Null}
    <3>1. CASE o = a
      BY <1>7, <1>11, <1>17, <3>1
    <3>2. CASE o \in objs
      BY <1>1, <1>17, <2>1, <3>2 DEF MarkSound, IsObj
    <3>3. o = a \/ o \in objs
      BY <1>3, <1>16, <2>1 DEF IsObj
    <3> QED  BY <3>1, <3>2, <3>3
  <2>7. mem[o].mon \in objs' \cup {Null}
    <3>1. o = a \/ o \in objs
      BY <1>3, <1>16, <2>1 DEF IsObj
    <3> QED  BY <1>1, <1>3, <2>1, <3>1 DEF MarkSound, IsObj
  <2> QED  BY <1>14, <1>19, <2>1, <2>5, <2>6, <2>7
<1>22. /\ \A r \in Locations : roots[r] \in worklist' \cup objs' \cup {Null}
       /\ pending \in worklist' \cup objs' \cup {Null}
  BY <1>1, <1>17 DEF MarkSound
<1>23. MarkSound(mem', heap_used', roots', pending', worklist', objs')
  BY <1>1, <1>18, <1>19, <1>20, <1>21, <1>22 DEF MarkSound
<1>24. worklist' \subseteq Addrs /\ objs' \subseteq Addrs
  BY <1>1, <1>10, <1>18, <1>19 DEF IsObj
<1>25. TypeOK'
  BY <1>1, <1>13, <1>24 DEF TypeOK
<1> QED  BY <1>1, <1>15, <1>23, <1>25 DEF IInv

-----------------------------------------------------------------------------
(* The copy phase. *)
(* Sizes are natural numbers. *)
LEMMA SizesAre ==
  ASSUME NEW m \in [Addrs -> Cell], NEW a \in Addrs
  PROVE  /\ m[a].cls \in Classes /\ NRefs[m[a].cls] \in Nat /\ SizeAt(m, a) \in Nat /\ SizeAt(m, a) >= 1
         /\ m[a].tag = "mon" => SizeAt(m, a) = 1
         /\ m[a].tag = "obj" => SizeAt(m, a) = 1 + NRefs[m[a].cls]
<1>1. m[a] \in Cell
  OBVIOUS
<1>2. m[a].cls \in Classes /\ NRefs[m[a].cls] \in Nat
  BY <1>1, NRefsIs DEF Cell
<1> QED  BY <1>2 DEF SizeAt

(* When the worklist is empty, objs is closed under strong references: only *)
(* a referent may be left behind.                                           *)
LEMMA StartCopyKeeps ==
  ASSUME IInv, StartCopy  PROVE IInv'
<1> DEFINE u == heap_used
           q == Place(objs, <<>>)
<1>1. /\ TypeOK /\ Sound(mem, u, roots, pending) /\ Grantable(request, roots) /\ phase' = "copy"
      /\ MarkSound(mem, u, roots, pending, {}, objs) /\ moved' = <<>> /\ write_ptr' = 1
      /\ UNCHANGED <<mem, heap_used, roots, pending, request, worklist, objs, fixed>>
  BY DEF IInv, StartCopy
<1>2. mem \in [Addrs -> Cell] /\ u \in 0 .. Cap /\ objs \subseteq Addrs /\ Cap \in Nat /\ Addrs = 1 .. Cap
  BY <1>1, CapIs DEF TypeOK
<1>3. DOMAIN <<>> = {} /\ \A p \in objs : q[p] = p
  BY DEF Place
<1> HIDE DEF q
<1>4. \A p \in objs : p \in 1 .. u /\ p \in Addrs /\ mem[p].tag \in {"obj", "mon"}
  BY <1>1, <1>2 DEF MarkSound
<1>5. \A p \in objs : /\ mem[p].cls \in Classes /\ NRefs[mem[p].cls] \in Nat /\ SizeAt(mem, p) \in Nat
                      /\ mem[p].tag = "mon" => SizeAt(mem, p) = 1
                      /\ mem[p].tag = "obj" => SizeAt(mem, p) = 1 + NRefs[mem[p].cls]
  BY <1>2, <1>4, SizesAre
<1>6. \A p \in objs : mem[p].tag = "obj" => ObjectSound(mem, u, p)
  BY <1>1, <1>4 DEF Sound, HeapSound
<1>13. ASSUME NEW p \in objs  PROVE p + SizeAt(mem, p) <= u + 1
  <2>1. CASE mem[p].tag = "mon"
    BY <1>2, <1>4, <1>5, <2>1
  <2>2. CASE mem[p].tag = "obj"
    <3>1. p + NRefs[mem[p].cls] <= u /\ SizeAt(mem, p) = 1 + NRefs[mem[p].cls]
      BY <1>5, <1>6, <2>2 DEF ObjectSound
    <3> QED  BY <1>2, <1>4, <1>5, <3>1
  <2> QED  BY <1>4, <2>1, <2>2
<1>7. Layout(mem, u, q, objs, <<>>, 1)
  <2>1. \A p \in objs : p + SizeAt(mem, p) <= u + 1
    BY <1>13
  <2>2. \A p, r \in objs : p < r => p + SizeAt(mem, p) <= r
    BY <1>1, <1>2, <1>4, Disjoint DEF Sound
  <2>3. \A p \in objs : 1 <= p
    BY <1>2, <1>4
  <2>4. 1 .. (1 - 1) = {}
    OBVIOUS
  <2> QED  BY <1>3, <1>4, <2>1, <2>2, <2>3, <2>4 DEF Layout
<1>8. \A x : x \in objs \cup {Null} /\ IsRef(mem, u, x) => x = Null \/ OldObj(mem, q, objs, x)
  BY <1>3 DEF IsRef, IsObj, OldObj
<1>9. ASSUME NEW p \in objs, mem[p].tag = "obj"  PROVE BeforeFixing(mem, q, objs, p)
  <2>1. /\ ObjectSound(mem, u, p) /\ q[p] = p /\ NRefs[mem[p].cls] \in Nat
        /\ \A k \in FirstStrong(mem, p) .. NRefs[mem[p].cls] : mem[p + k].ref \in objs \cup {Null}
        /\ mem[p].mon \in objs \cup {Null}
    <3>1. ObjectSound(mem, u, p) /\ q[p] = p /\ NRefs[mem[p].cls] \in Nat
      BY <1>3, <1>5, <1>6, <1>9
    <3>2. /\ \A k \in FirstStrong(mem, p) .. NRefs[mem[p].cls] : mem[p + k].ref \in {} \cup objs \cup {Null}
          /\ mem[p].mon \in objs \cup {Null}
      BY <1>1, <1>9 DEF MarkSound
    <3> QED  BY <3>1, <3>2
  <2>2. ASSUME NEW k \in 1 .. NRefs[mem[p].cls]
        PROVE  /\ mem[p + k].tag = "ref"
               /\ \/ mem[p + k].ref = Null
                  \/ OldObj(mem, q, objs, mem[p + k].ref)
                  \/ mem[p].cls = Reference /\ k = 1 /\ mem[p + k].ref \notin objs
    <3>1. mem[p + k].tag = "ref" /\ IsRef(mem, u, mem[p + k].ref)
      BY <2>1 DEF ObjectSound
    <3>2. CASE mem[p].cls = Reference /\ k = 1
      BY <1>8, <3>1, <3>2
    <3>3. CASE ~(mem[p].cls = Reference /\ k = 1)
      <4>1. k \in FirstStrong(mem, p) .. NRefs[mem[p].cls]
        BY <2>1, <3>3 DEF FirstStrong
      <4> QED  BY <1>8, <2>1, <3>1, <4>1
    <3> QED  BY <3>2, <3>3
  <2>3. ASSUME mem[p].cls = Reference, mem[p + 2].ref # Null  PROVE mem[q[mem[p + 2].ref]].cls = Reference
    <3>1. 2 \in FirstStrong(mem, p) .. NRefs[mem[p].cls]
      BY <2>1, <2>3, ReferenceIs DEF FirstStrong
    <3>2. mem[p + 2].ref \in objs
      BY <2>1, <2>3, <3>1
    <3> QED  BY <1>3, <2>1, <2>3, <3>2 DEF ObjectSound, IsListed
  <2>4. ASSUME mem[p].mon # Null
        PROVE  mem[p].mon \in objs /\ p < mem[p].mon /\ mem[q[mem[p].mon]].tag = "mon"
    <3>1. mem[p].mon \in objs
      BY <2>1, <2>4
    <3>2. mem[p].mon \in p + 1 .. u /\ mem[mem[p].mon].tag = "mon"
      BY <2>1, <2>4 DEF ObjectSound
    <3>3. p < mem[p].mon
      BY <1>2, <1>4, <3>2
    <3> QED  BY <1>3, <3>1, <3>2, <3>3
  <2> QED  BY <2>1, <2>2, <2>3, <2>4 DEF BeforeFixing
<1>10. Contents(mem, roots, pending, q, objs)
  <2>1. Headers(mem, q, objs)
    BY <1>1, <1>3, <1>4 DEF Headers, Sound, HeapSound
  <2>2. \A p \in objs : mem[q[p]].tag = "obj" => BeforeFixing(mem, q, objs, p)
    BY <1>3, <1>9
  <2>3. \A p, r \in objs : mem[q[p]].tag = "obj" /\ mem[q[r]].tag = "obj" /\ mem[q[p]].mon # Null
                             /\ mem[q[p]].mon = mem[q[r]].mon => p = r
    BY <1>1, <1>3, <1>4 DEF Sound, HeapSound
  <2>4. \A r \in Locations : roots[r] = Null \/ OldObj(mem, q, objs, roots[r])
    BY <1>1, <1>8 DEF Sound, RootsSound, MarkSound
  <2>5. roots[Handler] # Null => mem[q[roots[Handler]]].cls = Reference
    <3>1. IsListed(mem, u, roots[Handler]) /\ roots[Handler] \in objs \cup {Null}
      BY <1>1 DEF Sound, RootsSound, MarkSound, Locations
    <3> QED  BY <1>3, <3>1 DEF IsListed
  <2>6. pending # Null => OldObj(mem, q, objs, pending) /\ mem[q[pending]].cls = Reference
    <3>1. IsListed(mem, u, pending) /\ pending \in objs \cup {Null}
      BY <1>1 DEF Sound, RootsSound, MarkSound
    <3> QED  BY <1>3, <1>8, <3>1 DEF IsListed, IsRef
  <2> QED  BY <2>1, <2>2, <2>3, <2>4, <2>5, <2>6 DEF Contents
<1>11. FlagsSound(mem, objs, <<>>, 1)
  <2>1. Unmarked(mem, 1 - 1)
    BY DEF Unmarked
  <2>2. ASSUME NEW p \in objs, NEW k \in 0 .. SizeAt(mem, p) - 1, mem[p + k].reach
        PROVE  \E o \in objs : mem[o].tag = "obj" /\ p + k = MarkWord(mem, o)
    <3>1. p + k \in 1 .. u
      BY <1>2, <1>4, <1>5, <1>13, <2>2
    <3> QED  BY <1>1, <2>2, <3>1 DEF MarkSound
  <2> QED  BY <1>3, <2>1, <2>2 DEF FlagsSound
<1>12. TypeOK'
  BY <1>1, <1>2 DEF TypeOK
<1> QED  BY <1>1, <1>7, <1>10, <1>11, <1>12 DEF IInv, CopySound, q

(* Moving the objects from q to q2, with all they hold, keeps Contents. *)
LEMMA ContentsSame ==
  ASSUME NEW m, NEW m2, NEW q, NEW q2, NEW ob, NEW ro, NEW pe, Contents(m, ro, pe, q, ob),
         \A p \in ob : NRefs[m[q[p]].cls] \in Nat,
         \A p \in ob : Same(m2[q2[p]], m[q[p]]),
         \A p \in ob : m[q[p]].tag = "obj" =>
           \A k \in 1 .. NRefs[m[q[p]].cls] : Same(m2[q2[p] + k], m[q[p] + k])
  PROVE  Contents(m2, ro, pe, q2, ob)
<1>1. \A p \in ob : /\ m2[q2[p]].tag = m[q[p]].tag /\ m2[q2[p]].cls = m[q[p]].cls
                    /\ m2[q2[p]].mon = m[q[p]].mon
  BY DEF Same
<1>2. \A x : OldObj(m, q, ob, x) => OldObj(m2, q2, ob, x)
  BY <1>1 DEF OldObj
<1>3. Headers(m2, q2, ob)
  BY <1>1 DEF Contents, Headers
<1>4. ASSUME NEW p \in ob, m2[q2[p]].tag = "obj"  PROVE BeforeFixing(m2, q2, ob, p)
  <2>1. BeforeFixing(m, q, ob, p) /\ m[q[p]].tag = "obj"
    BY <1>1, <1>4 DEF Contents
  <2>2. \A k \in 1 .. NRefs[m[q[p]].cls] : /\ m2[q2[p] + k].tag = m[q[p] + k].tag
                                           /\ m2[q2[p] + k].ref = m[q[p] + k].ref
    BY <2>1 DEF Same
  <2>3. m2[q2[p]].cls = m[q[p]].cls /\ m2[q2[p]].mon = m[q[p]].mon
    BY <1>1
  <2>4. \A k \in 1 .. NRefs[m[q[p]].cls] :
          /\ m2[q2[p] + k].tag = "ref"
          /\ \/ m2[q2[p] + k].ref = Null
             \/ OldObj(m2, q2, ob, m2[q2[p] + k].ref)
             \/ m[q[p]].cls = Reference /\ k = 1 /\ m2[q2[p] + k].ref \notin ob
    BY <1>2, <2>1, <2>2 DEF BeforeFixing
  <2>5. ASSUME m[q[p]].cls = Reference, m2[q2[p] + 2].ref # Null
        PROVE  m2[q2[m2[q2[p] + 2].ref]].cls = Reference
    <3>1. 2 \in 1 .. NRefs[m[q[p]].cls]
      BY <2>5, ReferenceIs, NRefsIs
    <3>2. m2[q2[p] + 2].ref = m[q[p] + 2].ref
      BY <2>2, <3>1
    <3>3. OldObj(m, q, ob, m[q[p] + 2].ref) /\ m[q[m[q[p] + 2].ref]].cls = Reference
      <4>1. \A k \in 1 .. NRefs[m[q[p]].cls] : k # 1 => m[q[p] + k].ref = Null \/ OldObj(m, q, ob, m[q[p] + k].ref)
        BY <2>1 DEF BeforeFixing
      <4>2. m[q[p] + 2].ref # Null
        BY <2>5, <3>2
      <4>3. 2 # 1
        OBVIOUS
      <4> QED  BY <2>1, <2>5, <3>1, <4>1, <4>2, <4>3 DEF BeforeFixing
    <3> QED  BY <1>1, <3>2, <3>3 DEF OldObj
  <2>6. ASSUME m[q[p]].mon # Null
        PROVE  m[q[p]].mon \in ob /\ p < m[q[p]].mon /\ m2[q2[m[q[p]].mon]].tag = "mon"
    BY <1>1, <2>1, <2>6 DEF BeforeFixing
  <2> QED  BY <2>3, <2>4, <2>5, <2>6 DEF BeforeFixing
<1>5. \A p, r \in ob : m2[q2[p]].tag = "obj" /\ m2[q2[r]].tag = "obj" /\ m2[q2[p]].mon # Null
                         /\ m2[q2[p]].mon = m2[q2[r]].mon => p = r
  BY <1>1 DEF Contents
<1>6. \A r \in Locations : ro[r] = Null \/ OldObj(m2, q2, ob, ro[r])
  BY <1>2 DEF Contents
<1>7. ro[Handler] # Null => m2[q2[ro[Handler]]].cls = Reference
  BY <1>1 DEF Contents, OldObj, Locations
<1>8. pe # Null => OldObj(m2, q2, ob, pe) /\ m2[q2[pe]].cls = Reference
  BY <1>1, <1>2 DEF Contents, OldObj
<1> QED  BY <1>3, <1>4, <1>5, <1>6, <1>7, <1>8 DEF Contents

(* What an iteration of the copy loop, on the object or monitor a, does to    *)
(* those that are at q before it and at q2 after it.                          *)
Slid(a, q, q2) ==
  /\ a \in objs \ DOMAIN moved
  /\ DOMAIN moved' = DOMAIN moved \cup {a}
  /\ \A p \in objs : q2[p] = IF p = a THEN write_ptr ELSE q[p]
  /\ write_ptr' = write_ptr + SizeAt(mem, q[a])
  /\ \A p \in objs : Same(mem'[q2[p]], mem[q[p]])
  /\ \A p \in objs : mem[q[p]].tag = "obj" =>
       \A k \in 1 .. NRefs[mem[q[p]].cls] : Same(mem'[q2[p] + k], mem[q[p] + k])
  /\ UNCHANGED <<heap_used, roots, pending, phase, request, worklist, objs, fixed>>

(* One iteration of the copy loop. *)
LEMMA CopyKeeps ==
  ASSUME IInv, Copy  PROVE IInv' /\ Slid(NextToCopy, Place(objs, moved), Place(objs, moved'))
<1> DEFINE u == heap_used
           wp == write_ptr
           q == Place(objs, moved)
           a == NextToCopy
           n == SizeAt(mem, a)
           cl == ClearMark(a)
           q2 == Place(objs, moved')
           NM == objs \ DOMAIN moved
<1>1. /\ TypeOK /\ Grantable(request, roots) /\ phase = "copy" /\ phase' = "copy"
      /\ Layout(mem, u, q, objs, moved, wp) /\ Contents(mem, roots, pending, q, objs)
      /\ FlagsSound(mem, objs, moved, wp) /\ NM # {}
      /\ UNCHANGED <<heap_used, roots, pending, phase, request, worklist, objs, fixed>>
  BY DEF IInv, Copy, CopySound, NotMoved
<1>2. /\ mem' = [b \in Addrs |-> IF b \in Cells(wp, n) THEN cl[a + (b - wp)] ELSE cl[b]]
      /\ moved' = [b \in DOMAIN moved \cup {a} |-> IF b = a THEN wp ELSE moved[b]]
      /\ write_ptr' = wp + n
  <2>1. size_of_object(a) = n
    BY DEF size_of_object, SizeAt, Size
  <2> QED  BY <2>1 DEF Copy
<1>3. /\ mem \in [Addrs -> Cell] /\ u \in 0 .. Cap /\ objs \subseteq Addrs /\ wp \in 1 .. Cap + 1
      /\ Cap \in Nat /\ Addrs = 1 .. Cap /\ objs \subseteq Nat
  BY <1>1, CapIs DEF TypeOK
<1>4. a \in NM /\ \A p \in NM : a <= p
  BY <1>1, <1>3, LeastIs DEF NextToCopy, NotMoved
<1>5. /\ DOMAIN moved' = DOMAIN moved \cup {a}
      /\ \A p \in objs : q2[p] = IF p = a THEN wp ELSE q[p]
      /\ \A p \in NM : q[p] = p
  BY <1>2, <1>4 DEF Place
<1>6. /\ DOMAIN moved \subseteq objs
      /\ \A p \in DOMAIN moved, r \in NM : p < r
      /\ \A p \in NM : wp <= p
      /\ \A p \in objs : q[p] \in Addrs
      /\ \A p \in DOMAIN moved : q[p] + SizeAt(mem, q[p]) <= wp
      /\ \A p \in NM : p + SizeAt(mem, p) <= u + 1
      /\ \A p, r \in objs : p < r => q[p] + SizeAt(mem, q[p]) <= q[r]
      /\ \A c \in 1 .. wp - 1 : mem[c].tag \in {"obj", "mon"} => \E p \in DOMAIN moved : c = q[p]
  BY <1>1, <1>5, Zenon DEF Layout
<1>7. cl \in [Addrs -> Cell] /\ \A c \in Addrs : Same(cl[c], mem[c])
  <2>1. CASE mem[a].tag = "mon"
    BY <1>3, <2>1 DEF ClearMark, Same
  <2>2. CASE mem[a].tag # "mon"
    <3>1. cl = SetReached({a}, FALSE)
      BY <2>2 DEF ClearMark
    <3> HIDE DEF cl
    <3> QED  BY <1>3, <3>1, MarksAre
  <2> QED  BY <2>1, <2>2
<1>8. \A p \in objs : /\ NRefs[mem[q[p]].cls] \in Nat /\ SizeAt(mem, q[p]) \in Nat /\ SizeAt(mem, q[p]) >= 1
                      /\ mem[q[p]].tag = "mon" => SizeAt(mem, q[p]) = 1
                      /\ mem[q[p]].tag = "obj" => SizeAt(mem, q[p]) = 1 + NRefs[mem[q[p]].cls]
                      /\ q[p] \in Nat
  BY <1>3, <1>6, SizesAre
<1>9. a \in objs /\ a \in Nat /\ n \in Nat /\ n >= 1 /\ q[a] = a /\ wp \in Nat /\ wp <= a /\ a + n <= u + 1
      /\ a \notin DOMAIN moved
  BY <1>3, <1>4, <1>5, <1>6, <1>8
<1> HIDE DEF q, q2, a, n, cl, NM
<1>10. \A p \in NM \ {a} : a + n <= p
  BY <1>3, <1>4, <1>5, <1>6, <1>9 DEF NM, n
<1>11. \A c \in Addrs : mem'[c] = IF c \in wp .. wp + n - 1 THEN cl[a + (c - wp)] ELSE cl[c]
  BY <1>2 DEF Cells
<1>12. \A k \in 0 .. n - 1 : wp + k \in Addrs /\ a + k \in Addrs /\ mem'[wp + k] = cl[a + k]
  <2> SUFFICES ASSUME NEW k \in 0 .. n - 1  PROVE wp + k \in Addrs /\ a + k \in Addrs /\ mem'[wp + k] = cl[a + k]
    OBVIOUS
  <2>1. wp + k \in Addrs /\ a + k \in Addrs /\ wp + k \in wp .. wp + n - 1 /\ a + ((wp + k) - wp) = a + k
    BY <1>3, <1>9
  <2> QED  BY <1>11, <2>1
(* The cells of every object, before and after. *)
<1>13. ASSUME NEW p \in objs, NEW k \in 0 .. SizeAt(mem, q[p]) - 1
       PROVE  q[p] + k \in Addrs /\ q2[p] + k \in Addrs /\ mem'[q2[p] + k] = cl[q[p] + k]
  <2>1. CASE p = a
    BY <1>5, <1>9, <1>12, <2>1 DEF n
  <2>2. CASE p \in DOMAIN moved
    <3>1. q[p] + SizeAt(mem, q[p]) <= wp /\ q2[p] = q[p] /\ q[p] \in Addrs
      BY <1>5, <1>6, <1>9, <2>2
    <3>2. q[p] + k \in Addrs /\ q[p] + k \notin wp .. wp + n - 1
      BY <1>3, <1>8, <1>9, <3>1
    <3> QED  BY <1>11, <3>1, <3>2
  <2>3. CASE p \in NM \ {a}
    <3>1. a + n <= p /\ q2[p] = q[p] /\ q[p] = p /\ p + SizeAt(mem, p) <= u + 1
      BY <1>5, <1>6, <1>10, <2>3 DEF NM
    <3>2. q[p] + k \in Addrs /\ q[p] + k \notin wp .. wp + n - 1
      BY <1>3, <1>8, <1>9, <3>1
    <3> QED  BY <1>11, <3>1, <3>2
  <2> QED  BY <2>1, <2>2, <2>3 DEF NM
<1>14. \A p \in objs : \A k \in 0 .. SizeAt(mem, q[p]) - 1 : Same(mem'[q2[p] + k], mem[q[p] + k])
  BY <1>7, <1>13
<1>15. /\ \A p \in objs : Same(mem'[q2[p]], mem[q[p]])
       /\ \A p \in objs : mem[q[p]].tag = "obj" =>
            \A k \in 1 .. NRefs[mem[q[p]].cls] : Same(mem'[q2[p] + k], mem[q[p] + k])
  <2>1. ASSUME NEW p \in objs  PROVE Same(mem'[q2[p]], mem[q[p]])
    <3>1. 0 \in 0 .. SizeAt(mem, q[p]) - 1 /\ q[p] + 0 = q[p]
      BY <1>8
    <3>2. q2[p] + 0 = q2[p]
      <4>1. q2[p] = wp \/ q2[p] = q[p]
        BY <1>5
      <4>2. q[p] \in Nat /\ wp \in Nat
        BY <1>8, <1>9
      <4>3. q2[p] \in Nat
        BY <4>1, <4>2
      <4> QED  BY <4>3
    <3> QED  BY <1>14, <3>1, <3>2
  <2>2. ASSUME NEW p \in objs, mem[q[p]].tag = "obj", NEW k \in 1 .. NRefs[mem[q[p]].cls]
        PROVE  Same(mem'[q2[p] + k], mem[q[p] + k])
    <3>1. k \in 0 .. SizeAt(mem, q[p]) - 1
      BY <1>8, <2>2
    <3> QED  BY <1>14, <3>1
  <2> QED  BY <2>1, <2>2
<1>16. Contents(mem', roots', pending', q2, objs')
  <2>1. Contents(mem', roots, pending, q2, objs)
    BY <1>1, <1>8, <1>15, ContentsSame
  <2> QED  BY <1>1, <2>1
<1>17. \A p \in objs : /\ mem'[q2[p]].tag = mem[q[p]].tag /\ mem'[q2[p]].mon = mem[q[p]].mon
                       /\ SizeAt(mem', q2[p]) = SizeAt(mem, q[p])
  BY <1>15 DEF Same, SizeAt
<1>18. \A p \in objs : p < a => p \in DOMAIN moved
  BY <1>3, <1>4, <1>9 DEF NM
<1>19. Layout(mem', u, q2, objs, moved', wp + n)
  <2>1. DOMAIN moved' \subseteq objs
    BY <1>5, <1>6, <1>9
  <2>2. \A p \in DOMAIN moved', r \in objs \ DOMAIN moved' : p < r
    <3>1. \A r \in NM \ {a} : a < r
      BY <1>3, <1>9, <1>10 DEF NM
    <3> QED  BY <1>5, <1>6, <3>1 DEF NM
  <2>3. \A p \in objs \ DOMAIN moved' : wp + n <= p
    <3>1. \A p \in NM \ {a} : wp + n <= p
      BY <1>3, <1>9, <1>10 DEF NM
    <3> QED  BY <1>5, <3>1 DEF NM
  <2>4. ASSUME NEW p \in DOMAIN moved'  PROVE q2[p] + SizeAt(mem', q2[p]) <= wp + n /\ q2[p] \in Addrs
    <3>1. CASE p = a
      <4>1. q2[p] = wp /\ SizeAt(mem', q2[p]) = n /\ wp \in Addrs
        BY <1>3, <1>5, <1>9, <1>17, <3>1 DEF n
      <4> QED  BY <1>9, <4>1
    <3>2. CASE p \in DOMAIN moved
      <4>1. p \in objs /\ q2[p] = q[p] /\ q[p] + SizeAt(mem', q2[p]) <= wp /\ q[p] \in Addrs
        BY <1>5, <1>6, <1>9, <1>17, <3>2
      <4>2. SizeAt(mem', q2[p]) \in Nat /\ q[p] \in Nat
        BY <1>8, <1>17, <4>1
      <4> QED  BY <1>9, <4>1, <4>2
    <3> QED  BY <1>5, <3>1, <3>2
  <2>7. ASSUME NEW p \in objs \ DOMAIN moved'  PROVE q2[p] + SizeAt(mem', q2[p]) <= u + 1 /\ q2[p] \in Addrs
    BY <1>5, <1>6, <1>17 DEF NM
  <2>5. ASSUME NEW p \in objs, NEW r \in objs, p < r  PROVE q2[p] + SizeAt(mem', q2[p]) <= q2[r]
    <3>1. CASE p = a
      <4>1. r \in NM \ {a} /\ q2[r] = r
        BY <1>3, <1>5, <1>6, <1>9, <2>5, <3>1 DEF NM
      <4>2. q2[p] = wp /\ SizeAt(mem', q2[p]) = n
        BY <1>5, <1>9, <1>17, <3>1 DEF n
      <4> QED  BY <1>3, <1>9, <1>10, <4>1, <4>2
    <3>2. CASE r = a
      <4>1. p \in DOMAIN moved /\ q2[p] = q[p] /\ q2[r] = wp
        BY <1>5, <1>9, <1>18, <2>5, <3>2
      <4> QED  BY <1>6, <1>17, <4>1
    <3>3. CASE p # a /\ r # a
      BY <1>5, <1>6, <1>17, <2>5, <3>3
    <3> QED  BY <3>1, <3>2, <3>3
  <2>6. ASSUME NEW c \in 1 .. (wp + n) - 1, mem'[c].tag \in {"obj", "mon"}  PROVE \E p \in DOMAIN moved' : c = q2[p]
    <3>1. CASE c < wp
      <4>1. c \in Addrs /\ c \in 1 .. wp - 1 /\ c \notin wp .. wp + n - 1
        BY <1>3, <1>9, <3>1
      <4>2. mem[c].tag \in {"obj", "mon"}
        BY <1>7, <1>11, <2>6, <4>1 DEF Same
      <4>3. PICK p \in DOMAIN moved : c = q[p]
        BY <1>6, <4>1, <4>2
      <4> QED  BY <1>5, <1>6, <1>9, <4>3
    <3>2. CASE c >= wp
      <4>1. PICK k \in 0 .. n - 1 : c = wp + k
        <5>1. c - wp \in 0 .. n - 1 /\ c = wp + (c - wp)
          BY <1>9, <3>2
        <5> QED  BY <5>1
      <4>2. mem[a + k].tag \in {"obj", "mon"}
        BY <1>7, <1>12, <2>6, <4>1 DEF Same
      <4>3. k = 0
        <5> SUFFICES ASSUME k # 0  PROVE FALSE
          OBVIOUS
        <5>1. mem[a].tag = "obj" /\ BeforeFixing(mem, q, objs, a)
          BY <1>1, <1>8, <1>9 DEF Contents, Headers, n
        <5>2. k \in 1 .. NRefs[mem[a].cls]
          BY <1>8, <1>9, <5>1 DEF n
        <5>3. mem[a + k].tag = "ref"
          BY <1>9, <5>1, <5>2 DEF BeforeFixing
        <5> QED  BY <4>2, <5>3
      <4> QED  BY <1>5, <1>9, <4>1, <4>3
    <3> QED  BY <1>9, <3>1, <3>2
  <2> QED  BY <2>1, <2>2, <2>3, <2>4, <2>5, <2>6, <2>7, Zenon DEF Layout
(* A mark in the cells of a is its own, and goes. *)
<1>20. ASSUME NEW c \in Addrs, cl[c].reach
       PROVE  mem[c].reach /\ (mem[a].tag = "obj" => c # MarkWord(mem, a))
  <2>1. CASE mem[a].tag = "mon"
    BY <1>20, <2>1 DEF cl, ClearMark
  <2>2. CASE mem[a].tag # "mon"
    <3>1. cl = SetReached({a}, FALSE)
      BY <2>2 DEF cl, ClearMark
    <3>2. /\ \A x \in Addrs : (\E o \in {a} : x = MarkWord(mem, o)) \/ cl[x] = mem[x]
          /\ \A o \in {a} : MarkWord(mem, o) \in Addrs => ~cl[MarkWord(mem, o)].reach
      <4>1. MarkWord(mem, a) \in Addrs => ~cl[MarkWord(mem, a)].reach
        BY <1>3, <3>1, MarkCleared
      <4>2. \A x \in Addrs : (\E o \in {a} : x = MarkWord(mem, o)) \/ cl[x] = mem[x]
        <5> DEFINE S == {a}
        <5>1. cl = SetReached(S, FALSE)
          BY <3>1
        <5> HIDE DEF S
        <5>2. \A x \in Addrs : (\E o \in S : x = MarkWord(mem, o)) \/ cl[x] = mem[x]
          BY <1>3, <5>1, MarksAre
        <5> QED  BY <5>2 DEF S
      <4> QED  BY <4>1, <4>2
    <3>3. c # MarkWord(mem, a)
      BY <1>20, <3>2
    <3> QED  BY <1>20, <3>2, <3>3
  <2> QED  BY <2>1, <2>2
<1>21. \A o \in NM : mem[o].tag = "obj" => MarkWord(mem, o) \in NM
  <2> SUFFICES ASSUME NEW o \in NM, mem[o].tag = "obj", mem[o].mon # Null  PROVE mem[o].mon \in NM
    BY DEF MarkWord
  <2>1. o \in objs /\ q[o] = o /\ BeforeFixing(mem, q, objs, o)
    BY <1>1, <1>5 DEF Contents, NM
  <2>2. mem[o].mon \in objs /\ o < mem[o].mon
    BY <2>1 DEF BeforeFixing
  <2>3. mem[o].mon \notin DOMAIN moved
    <3>1. mem[o].mon \in DOMAIN moved => mem[o].mon < o
      BY <1>6
    <3>2. o \in Nat /\ mem[o].mon \in Nat
      BY <1>3, <2>1, <2>2
    <3> QED  BY <2>2, <3>1, <3>2
  <2> QED  BY <2>2, <2>3 DEF NM
<1>22. Unmarked(mem', (wp + n) - 1)
  <2> SUFFICES ASSUME NEW c \in 1 .. (wp + n) - 1, mem'[c].reach  PROVE FALSE
    BY DEF Unmarked
  <2>1. CASE c < wp
    <3>1. c \in Addrs /\ c \in 1 .. wp - 1 /\ c \notin wp .. wp + n - 1
      BY <1>3, <1>9, <2>1
    <3>2. mem[c].reach
      BY <1>11, <1>20, <3>1
    <3> QED  BY <1>1, <3>1, <3>2 DEF FlagsSound, Unmarked
  <2>2. CASE c >= wp
    <3>1. PICK k \in 0 .. n - 1 : c = wp + k
      <4>1. c - wp \in 0 .. n - 1 /\ c = wp + (c - wp)
        BY <1>9, <2>2
      <4> QED  BY <4>1
    <3>2. a + k \in Addrs /\ cl[a + k].reach
      BY <1>12, <3>1
    <3>3. mem[a + k].reach /\ (mem[a].tag = "obj" => a + k # MarkWord(mem, a))
      BY <1>20, <3>2
    <3>4. PICK o \in NM : mem[o].tag = "obj" /\ a + k = MarkWord(mem, o)
      BY <1>1, <1>4, <3>1, <3>3 DEF FlagsSound, NM, n
    <3>5. a + k \in NM
      BY <1>21, <3>4
    <3>6. k = 0
      BY <1>9, <1>10, <3>1, <3>5
    <3>7. MarkWord(mem, o) = a
      BY <1>9, <3>4, <3>6
    <3>8. o = a
      <4> SUFFICES ASSUME mem[o].mon # Null  PROVE FALSE
        BY <3>7 DEF MarkWord
      <4>1. mem[o].mon = a
        BY <3>7 DEF MarkWord
      <4>2. o \in objs /\ q[o] = o /\ BeforeFixing(mem, q, objs, o)
        BY <1>1, <1>5, <3>4 DEF Contents, NM
      <4>3. o < a
        BY <4>1, <4>2 DEF BeforeFixing
      <4> QED  BY <1>3, <1>4, <1>9, <4>2, <4>3
    <3> QED  BY <1>9, <3>3, <3>4, <3>6, <3>7, <3>8
  <2> QED  BY <1>9, <2>1, <2>2
<1>23. ASSUME NEW p \in objs \ DOMAIN moved', NEW k \in 0 .. SizeAt(mem', p) - 1, mem'[p + k].reach
       PROVE  \E o \in objs \ DOMAIN moved' : mem'[o].tag = "obj" /\ p + k = MarkWord(mem', o)
  <2>1. p \in NM \ {a} /\ q[p] = p /\ q2[p] = p /\ SizeAt(mem', p) = SizeAt(mem, p)
    BY <1>5, <1>17 DEF NM
  <2>2. p + k \in Addrs /\ mem'[p + k] = cl[p + k]
    BY <1>13, <2>1
  <2>3. mem[p + k].reach /\ (mem[a].tag = "obj" => p + k # MarkWord(mem, a))
    BY <1>20, <1>23, <2>2
  <2>4. PICK o \in NM : mem[o].tag = "obj" /\ p + k = MarkWord(mem, o)
    BY <1>1, <2>1, <2>3 DEF FlagsSound, NM
  <2>5. o # a
    BY <2>3, <2>4
  <2>6. o \in objs \ DOMAIN moved' /\ q2[o] = o /\ q[o] = o
    BY <1>5, <2>4, <2>5 DEF NM
  <2>7. mem'[o].tag = "obj" /\ MarkWord(mem', o) = MarkWord(mem, o)
    BY <1>17, <2>4, <2>6 DEF MarkWord
  <2> QED  BY <2>4, <2>6, <2>7
<1>24. FlagsSound(mem', objs, moved', wp + n)
  BY <1>22, <1>23, Zenon DEF FlagsSound
<1>25. mem' \in [Addrs -> Cell] /\ wp + n \in 1 .. Cap + 1
  <2>1. \A c \in Addrs : mem'[c] \in Cell
    <3> SUFFICES ASSUME NEW c \in Addrs  PROVE mem'[c] \in Cell
      OBVIOUS
    <3>1. CASE c \in wp .. wp + n - 1
      <4>1. a + (c - wp) \in Addrs
        BY <1>3, <1>9, <3>1
      <4> QED  BY <1>7, <1>11, <3>1, <4>1
    <3>2. CASE c \notin wp .. wp + n - 1
      BY <1>7, <1>11, <3>2
    <3> QED  BY <3>1, <3>2
  <2>2. mem' = [c \in Addrs |-> mem'[c]]
    BY <1>2
  <2> QED  BY <1>3, <1>9, <2>1, <2>2
<1>26. TypeOK'
  BY <1>1, <1>2, <1>25 DEF TypeOK
<1>27. /\ CopySound(mem', heap_used', roots', pending', Place(objs', moved'), objs', moved', write_ptr')
       /\ FlagsSound(mem', objs', moved', write_ptr')
  BY <1>1, <1>2, <1>16, <1>19, <1>24 DEF CopySound, q2
<1>28. Slid(a, q, q2)
  BY <1>1, <1>2, <1>4, <1>5, <1>9, <1>15 DEF Slid, NM, n
<1> QED  BY <1>1, <1>26, <1>27, <1>28 DEF IInv, a, q, q2

-----------------------------------------------------------------------------
(* The relocation of roots and fields. *)

(* Objects have places of their own. *)
LEMMA PlacesDiffer ==
  ASSUME NEW m \in [Addrs -> Cell], NEW u, NEW q, NEW ob \in SUBSET Addrs, NEW mv, NEW wp, Layout(m, u, q, ob, mv, wp),
         NEW p \in ob, NEW r \in ob, q[p] = q[r]
  PROVE  p = r
<1>1. p \in Nat /\ r \in Nat /\ q[p] \in Nat /\ q[p] \in Addrs
  BY CapIs DEF Layout
<1>2. SizeAt(m, q[p]) \in Nat /\ SizeAt(m, q[p]) >= 1
  BY <1>1, SizesAre
<1>3. p < r => q[p] + SizeAt(m, q[p]) <= q[r]
  BY DEF Layout
<1>4. r < p => q[r] + SizeAt(m, q[r]) <= q[p]
  BY DEF Layout
<1> QED  BY <1>1, <1>2, <1>3, <1>4

(* The root loop after it. *)
LEMMA RelocateRootsKeeps ==
  ASSUME RootsFit, IInv, RelocateRoots  PROVE IInv'
<1> DEFINE q == Place(objs, moved)
<1>1. /\ TypeOK /\ Grantable(request, roots) /\ phase' = "fields" /\ objs \subseteq DOMAIN moved
      /\ Layout(mem, heap_used, q, objs, moved, write_ptr) /\ Contents(mem, roots, pending, q, objs)
      /\ FlagsSound(mem, objs, moved, write_ptr) /\ fixed' = {}
      /\ UNCHANGED <<mem, heap_used, request, worklist, objs, moved, write_ptr>>
  BY DEF IInv, RelocateRoots, CopySound, NotMoved
<1>2. /\ mem \in [Addrs -> Cell] /\ objs \subseteq Addrs /\ roots \in [Locations -> 0 .. Cap] /\ pending \in 0 .. Cap
      /\ Cap \in Nat /\ Addrs = 1 .. Cap /\ Null \notin objs /\ Null = 0 /\ objs \in SUBSET Addrs
  BY <1>1, CapIs DEF TypeOK, Null
<1>3. /\ DOMAIN moved = objs
      /\ \A p \in objs : q[p] = moved[p] /\ q[p] \in Addrs /\ q[p] # Null
  <2>1. DOMAIN moved = objs
    BY <1>1 DEF Layout
  <2>2. \A p \in objs : q[p] = moved[p]
    BY <2>1 DEF Place
  <2>3. \A p \in objs : q[p] \in Addrs
    BY <1>1 DEF Layout
  <2> QED  BY <1>2, <2>1, <2>2, <2>3
<1> HIDE DEF q
<1>4. \A x : relocate_object(x) = IF x \in objs THEN q[x] ELSE x
  BY <1>3 DEF relocate_object
<1>5. /\ \A r \in Locations : roots'[r] = relocate_object(roots[r])
      /\ roots' = [r \in Locations |-> roots'[r]]
      /\ pending' = relocate_object(pending)
  BY <1>2 DEF RelocateRoots, RootLocations, Locations, Variables
<1>6. roots' \in [Locations -> 0 .. Cap] /\ pending' \in 0 .. Cap
  <2>1. \A x \in 0 .. Cap : relocate_object(x) \in 0 .. Cap
    BY <1>2, <1>3, <1>4
  <2>2. \A r \in Locations : roots'[r] \in 0 .. Cap
    BY <1>2, <1>5, <2>1
  <2> QED  BY <1>2, <1>5, <2>1, <2>2
<1>7. TypeOK'
  BY <1>1, <1>6 DEF TypeOK
<1>8. \A x : x = Null \/ OldObj(mem, q, objs, x)
             => /\ NewRef(mem, q, objs, relocate_object(x))
                /\ x # Null => relocate_object(x) # Null /\ relocate_object(x) = q[x]
  BY <1>2, <1>3, <1>4 DEF OldObj, NewRef, NewObj
<1>9. \A r \in Locations : /\ NewRef(mem, q, objs, roots'[r])
                           /\ roots[r] # Null => roots'[r] # Null /\ roots'[r] = q[roots[r]]
  BY <1>1, <1>5, <1>8 DEF Contents
<1>10. NewListed(mem, q, objs, roots'[Handler])
  <2>1. Handler \in Locations
    BY DEF Locations
  <2>2. roots[Handler] = Null => roots'[Handler] = Null
    BY <1>2, <1>4, <1>5, <2>1
  <2> QED  BY <1>1, <1>9, <2>1, <2>2 DEF Contents, NewListed, NewRef
<1>11. NewListed(mem, q, objs, pending')
  <2>1. CASE pending = Null
    BY <1>2, <1>4, <1>5, <2>1 DEF NewListed
  <2>2. CASE pending # Null
    BY <1>1, <1>5, <1>8, <2>2 DEF Contents, NewListed, NewRef
  <2> QED  BY <2>1, <2>2
<1>12. \A p \in objs : mem[q[p]].tag = "obj" => BeforeFixing(mem, q, objs, p)
  BY <1>1 DEF Contents
<1>13. ASSUME NEW p \in objs, NEW r \in objs, mem[q[p]].tag = "obj", mem[q[r]].tag = "obj",
              NewMon(mem, q, objs, {}, p) # Null, NewMon(mem, q, objs, {}, p) = NewMon(mem, q, objs, {}, r)
       PROVE  p = r
  <2>1. ASSUME NEW x \in objs, mem[q[x]].tag = "obj"
        PROVE  /\ mem[q[x]].mon = Null => NewMon(mem, q, objs, {}, x) = Null
               /\ mem[q[x]].mon # Null => mem[q[x]].mon \in objs /\ NewMon(mem, q, objs, {}, x) = q[mem[q[x]].mon]
    BY <1>2, <1>12, <2>1 DEF NewMon, BeforeFixing
  <2>2. /\ mem[q[p]].mon # Null /\ mem[q[r]].mon # Null /\ mem[q[p]].mon \in objs /\ mem[q[r]].mon \in objs
        /\ q[mem[q[p]].mon] = q[mem[q[r]].mon]
    BY <1>13, <2>1
  <2>3. mem[q[p]].mon = mem[q[r]].mon
    <3>1. \A x, y \in objs : q[x] = q[y] => x = y
      BY <1>1, <1>2, PlacesDiffer
    <3> QED  BY <2>2, <3>1
  <2> QED  BY <1>1, <1>13, <2>2, <2>3 DEF Contents
<1>14. FieldsSound(mem, heap_used, roots', pending', q, objs, moved, {}, write_ptr)
  <2>1. Headers(mem, q, objs) /\ Unmarked(mem, write_ptr - 1)
    BY <1>1 DEF Contents, FlagsSound
  <2>2. \A p \in objs : mem[q[p]].tag = "obj"
          => IF p \in {} THEN AfterFixing(mem, q, objs, p) ELSE BeforeFixing(mem, q, objs, p)
    BY <1>12
  <2>3. \A p, r \in objs : mem[q[p]].tag = "obj" /\ mem[q[r]].tag = "obj" /\ NewMon(mem, q, objs, {}, p) # Null
                             /\ NewMon(mem, q, objs, {}, p) = NewMon(mem, q, objs, {}, r) => p = r
    BY <1>13
  <2> QED  BY <1>1, <1>3, <1>9, <1>10, <1>11, <2>1, <2>2, <2>3 DEF FieldsSound
<1>15. Grantable(request', roots')
  <2>1. request.root \in Locations
    BY <1>1 DEF Grantable, Locations, Variables
  <2> QED  BY <1>1, <1>9, <2>1 DEF Grantable
<1>16. FieldsSound(mem', heap_used', roots', pending', Place(objs', moved'), objs', moved', fixed', write_ptr')
  BY <1>1, <1>14 DEF q
<1> QED  BY <1>1, <1>7, <1>15, <1>16 DEF IInv

(* The heads below write_ptr are those of objs, each relocated by now. *)
LEMMA FinishGCKeeps ==
  ASSUME IInv, FinishGC  PROVE IInv'
<1> DEFINE q == Place(objs, moved)
           m2 == mem'
           v == write_ptr - 1
<1>1. /\ TypeOK /\ Grantable(request, roots) /\ phase' = "retry" /\ objs \subseteq fixed
      /\ FieldsSound(mem, heap_used, roots, pending, q, objs, moved, fixed, write_ptr)
      /\ heap_used' = v /\ mem' = [a \in Addrs |-> IF a < write_ptr THEN mem[a] ELSE Free]
      /\ objs' = {} /\ moved' = <<>> /\ fixed' = {} /\ write_ptr' = 1
      /\ UNCHANGED <<roots, pending, request, worklist>>
  BY DEF IInv, FinishGC, NotFixed, CellsInUse
<1>2. /\ mem \in [Addrs -> Cell] /\ objs \subseteq Addrs /\ write_ptr \in 1 .. Cap + 1 /\ v \in 0 .. Cap
      /\ Cap \in Nat /\ Addrs = 1 .. Cap /\ v \in Nat
  BY <1>1, CapIs DEF TypeOK
<1> HIDE DEF q
<1>3. \A c \in 1 .. v : c \in Addrs /\ m2[c] = mem[c]
  BY <1>1, <1>2
<1>4. m2 \in [Addrs -> Cell]
  BY <1>1, <1>2, CellsAre
<1>5. /\ \A p \in objs : q[p] \in Addrs /\ q[p] + SizeAt(mem, q[p]) <= write_ptr
      /\ \A p, r \in objs : p < r => q[p] + SizeAt(mem, q[p]) <= q[r]
      /\ \A c \in 1 .. v : mem[c].tag \in {"obj", "mon"} => \E p \in objs : c = q[p]
      /\ Headers(mem, q, objs) /\ Unmarked(mem, v)
  BY <1>1 DEF FieldsSound, Layout
<1>6. \A p \in objs : /\ NRefs[mem[q[p]].cls] \in Nat /\ SizeAt(mem, q[p]) \in Nat /\ SizeAt(mem, q[p]) >= 1
                      /\ mem[q[p]].tag = "obj" => SizeAt(mem, q[p]) = 1 + NRefs[mem[q[p]].cls]
  BY <1>2, <1>5, SizesAre
<1>7. \A p \in objs : q[p] \in 1 .. v
  BY <1>2, <1>5, <1>6
<1>8. \A x : /\ NewObj(mem, q, objs, x) => IsObj(m2, v, x) /\ m2[x] = mem[x]
             /\ NewRef(mem, q, objs, x) => IsRef(m2, v, x)
             /\ NewListed(mem, q, objs, x) => IsListed(m2, v, x)
  BY <1>3, <1>7 DEF NewObj, NewRef, NewListed, IsObj, IsRef, IsListed
<1> HIDE DEF m2, v
<1>9. \A p \in objs : mem[q[p]].tag = "obj" => AfterFixing(mem, q, objs, p)
  BY <1>1 DEF FieldsSound
<1>10. ASSUME NEW c \in 1 .. v, m2[c].tag = "obj"  PROVE ObjectSound(m2, v, c)
  <2>1. PICK p \in objs : c = q[p]
    BY <1>3, <1>5, <1>10
  <2>2. /\ m2[c] = mem[q[p]] /\ mem[q[p]].tag = "obj" /\ AfterFixing(mem, q, objs, p)
        /\ NRefs[m2[c].cls] \in Nat /\ c + (1 + NRefs[m2[c].cls]) <= write_ptr
    BY <1>3, <1>5, <1>6, <1>9, <1>10, <2>1
  <2>3. c + NRefs[m2[c].cls] <= v
    BY <1>2, <2>2 DEF v
  <2>4. \A k \in 1 .. NRefs[m2[c].cls] : c + k \in 1 .. v
    BY <1>2, <2>2, <2>3
  <2>5. \A k \in 1 .. NRefs[m2[c].cls] : m2[c + k].tag = "ref" /\ IsRef(m2, v, m2[c + k].ref)
    BY <1>3, <1>8, <2>1, <2>2, <2>4 DEF AfterFixing
  <2>6. ASSUME m2[c].cls = Reference  PROVE IsListed(m2, v, m2[c + 2].ref)
    <3>1. c + 2 \in 1 .. v
      BY <2>2, <2>4, <2>6, ReferenceIs
    <3> QED  BY <1>3, <1>8, <2>1, <2>2, <2>6, <3>1 DEF AfterFixing
  <2>7. ASSUME m2[c].mon # Null  PROVE m2[c].mon \in c + 1 .. v /\ m2[m2[c].mon].tag = "mon"
    <3>1. PICK r \in objs : mem[q[p]].mon = q[r] /\ p < r /\ mem[q[r]].tag = "mon"
      BY <2>2, <2>7 DEF AfterFixing
    <3>2. q[p] + SizeAt(mem, q[p]) <= q[r] /\ q[r] \in 1 .. v /\ SizeAt(mem, q[p]) \in Nat /\ SizeAt(mem, q[p]) >= 1
      BY <1>5, <1>6, <1>7, <3>1
    <3>3. q[r] \in c + 1 .. v
      BY <1>2, <2>1, <3>2
    <3> QED  BY <1>3, <2>2, <3>1, <3>2, <3>3
  <2> QED  BY <2>3, <2>5, <2>6, <2>7 DEF ObjectSound
<1>11. HeapSound(m2, v)
  <2>1. \A c \in 1 .. v : m2[c].tag = "mon" => m2[c].mon = Null
    BY <1>3, <1>5 DEF Headers
  <2>2. ASSUME NEW c \in 1 .. v, NEW d \in 1 .. v, m2[c].tag = "obj", m2[d].tag = "obj",
               m2[c].mon = m2[d].mon, m2[c].mon # Null
        PROVE  c = d
    <3>1. PICK p \in objs : c = q[p] /\ mem[q[p]] = m2[c]
      BY <1>3, <1>5, <2>2
    <3>2. PICK r \in objs : d = q[r] /\ mem[q[r]] = m2[d]
      BY <1>3, <1>5, <2>2
    <3>3. NewMon(mem, q, objs, fixed, p) = m2[c].mon /\ NewMon(mem, q, objs, fixed, r) = m2[d].mon
      BY <1>1, <3>1, <3>2 DEF NewMon
    <3> QED  BY <1>1, <2>2, <3>1, <3>2, <3>3 DEF FieldsSound
  <2> QED  BY <1>10, <2>1, <2>2 DEF HeapSound
<1>12. RootsSound(m2, v, roots, pending)
  BY <1>1, <1>8 DEF FieldsSound, RootsSound
<1>13. Unmarked(m2, v)
  BY <1>3, <1>5 DEF Unmarked
<1>14. TypeOK'
  <2>1. heap_used' \in 0 .. Cap /\ write_ptr' \in 1 .. Cap + 1 /\ mem' \in [Addrs -> Cell]
    BY <1>1, <1>2, <1>4 DEF m2, v
  <2> QED  BY <1>1, <2>1 DEF TypeOK
<1>15. Sound(mem', heap_used', roots', pending') /\ Unmarked(mem', heap_used')
  BY <1>1, <1>11, <1>12, <1>13 DEF Sound, m2, v
<1> QED  BY <1>1, <1>14, <1>15 DEF IInv

(* What relocate_instance_fields leaves in the cells of an object at b. *)
LEMMA RelocateIs ==
  ASSUME TypeOK, NEW q, \A x : relocate_object(x) = IF x \in objs THEN q[x] ELSE x, \A p \in objs : q[p] \in Addrs,
         NEW b \in Addrs, b + NRefs[mem[b].cls] <= Cap, Relocate(b),
         \A k \in 1 .. NRefs[mem[b].cls] : mem[b + k].tag = "ref"
  PROVE  /\ mem' \in [Addrs -> Cell]
         /\ mem'[b].tag = mem[b].tag /\ mem'[b].cls = mem[b].cls /\ (mem'[b].reach <=> mem[b].reach)
         /\ mem'[b].mon = relocate_object(mem[b].mon)
         /\ \A k \in 1 .. NRefs[mem[b].cls] :
              /\ mem'[b + k].tag = "ref" /\ ~mem'[b + k].reach
              /\ mem'[b + k].ref = IF k = 2 /\ BecomesPending(b) THEN pending
                                   ELSE IF mem[b].cls = Reference /\ k = 1 /\ mem[b + k].ref \notin objs THEN Null
                                   ELSE relocate_object(mem[b + k].ref)
         /\ \A c \in Addrs \ (b .. b + NRefs[mem[b].cls]) : mem'[c] = mem[c]
         /\ pending' = IF BecomesPending(b) THEN b ELSE pending
<1> DEFINE N == NRefs[mem[b].cls]
           hd == [mem[b] EXCEPT !.mon = relocate_object(@)]
<1>1. /\ mem \in [Addrs -> Cell] /\ Cap \in Nat /\ Addrs = 1 .. Cap /\ pending \in 0 .. Cap /\ objs \subseteq Addrs
      /\ Null = 0 /\ Null \in 0 .. Cap /\ mem[b] \in Cell
  BY CapIs DEF TypeOK, Null
<1>2. N \in Nat /\ (BecomesPending(b) => N >= 2)
  <2>1. mem[b].cls \in Classes
    BY <1>1 DEF Cell
  <2> QED  BY <2>1, NRefsIs, ReferenceIs DEF BecomesPending
<1>3. \A x \in 0 .. Cap : relocate_object(x) \in 0 .. Cap
  BY <1>1
<1>4. hd \in Cell /\ hd.tag = mem[b].tag /\ hd.cls = mem[b].cls /\ (hd.reach <=> mem[b].reach)
      /\ hd.mon = relocate_object(mem[b].mon)
  <2>1. mem[b].mon \in 0 .. Cap
    BY <1>1 DEF Cell
  <2>2. relocate_object(mem[b].mon) \in 0 .. Cap
    BY <1>3, <2>1
  <2> QED  BY <1>1, <2>2 DEF Cell
<1>5. /\ mem' = [c \in Addrs |-> IF c = b THEN hd
                                 ELSE IF c = b + 2 /\ BecomesPending(b) THEN Slot(pending)
                                 ELSE IF c \in Cells(b + 1, N) THEN RelocatedSlot(b, c - b) ELSE mem[c]]
      /\ pending' = IF BecomesPending(b) THEN b ELSE pending
  BY DEF Relocate
<1> HIDE DEF hd, N
<1>6. \A c \in Addrs : c \in Cells(b + 1, N) <=> c \in b + 1 .. b + N
  BY <1>1, <1>2 DEF Cells
<1>7. \A x \in 0 .. Cap : Slot(x) \in Cell /\ Slot(x).tag = "ref" /\ Slot(x).ref = x /\ ~Slot(x).reach
  BY CellsAre
<1>8. ASSUME NEW k \in 1 .. N
      PROVE  \E x \in 0 .. Cap :
               /\ b + k \in Addrs
               /\ mem'[b + k] = Slot(x)
               /\ x = IF k = 2 /\ BecomesPending(b) THEN pending
                      ELSE IF mem[b].cls = Reference /\ k = 1 /\ mem[b + k].ref \notin objs THEN Null
                      ELSE relocate_object(mem[b + k].ref)
  <2>1. b + k \in Addrs /\ b + k # b /\ (b + k = b + 2 <=> k = 2) /\ b + k \in b + 1 .. b + N /\ (b + k) - b = k
    BY <1>1, <1>2 DEF N
  <2>2. mem[b + k] \in Cell
    BY <1>1, <2>1
  <2>3. relocate_object(mem[b + k].ref) \in 0 .. Cap
    BY <1>3, <2>2 DEF Cell
  <2>4. mem'[b + k] = IF k = 2 /\ BecomesPending(b) THEN Slot(pending) ELSE RelocatedSlot(b, k)
    BY <1>5, <1>6, <2>1
  <2>5. RelocatedSlot(b, k) = IF mem[b].cls = Reference /\ k = 1 /\ mem[b + k].ref \notin objs
                              THEN Slot(Null) ELSE Slot(relocate_object(mem[b + k].ref))
    BY DEF RelocatedSlot
  <2>6. CASE k = 2 /\ BecomesPending(b)
    BY <1>1, <2>1, <2>4, <2>6
  <2>7. CASE ~(k = 2 /\ BecomesPending(b)) /\ mem[b].cls = Reference /\ k = 1 /\ mem[b + k].ref \notin objs
    BY <1>1, <2>1, <2>4, <2>5, <2>7
  <2>8. CASE ~(k = 2 /\ BecomesPending(b)) /\ ~(mem[b].cls = Reference /\ k = 1 /\ mem[b + k].ref \notin objs)
    BY <2>1, <2>3, <2>4, <2>5, <2>8
  <2> QED  BY <2>6, <2>7, <2>8
<1>9. mem'[b] = hd
  BY <1>5
<1>10. \A c \in Addrs \ (b .. b + N) : mem'[c] = mem[c]
  <2> SUFFICES ASSUME NEW c \in Addrs, c \notin b .. b + N  PROVE mem'[c] = mem[c]
    OBVIOUS
  <2>1. c # b /\ c \notin b + 1 .. b + N /\ ~(c = b + 2 /\ BecomesPending(b))
    BY <1>1, <1>2
  <2> QED  BY <1>5, <1>6, <2>1
<1>11. \A c \in Addrs : mem'[c] \in Cell
  <2> SUFFICES ASSUME NEW c \in Addrs  PROVE mem'[c] \in Cell
    OBVIOUS
  <2>1. CASE c = b
    BY <1>4, <1>9, <2>1
  <2>2. CASE c \in b + 1 .. b + N
    <3>1. c - b \in 1 .. N /\ b + (c - b) = c
      BY <1>1, <1>2, <2>2
    <3>2. PICK x \in 0 .. Cap : mem'[c] = Slot(x)
      BY <1>8, <3>1
    <3> QED  BY <1>7, <3>2
  <2>3. CASE c \notin b .. b + N
    BY <1>1, <1>10, <2>3
  <2>4. c = b \/ c \in b + 1 .. b + N \/ c \notin b .. b + N
    BY <1>1, <1>2
  <2> QED  BY <2>1, <2>2, <2>3, <2>4
<1>12. mem' \in [Addrs -> Cell]
  <2>1. mem' = [c \in Addrs |-> mem'[c]]
    BY <1>5
  <2> QED  BY <1>11, <2>1
<1>13. \A k \in 1 .. N : /\ mem'[b + k].tag = "ref" /\ ~mem'[b + k].reach
                         /\ mem'[b + k].ref = IF k = 2 /\ BecomesPending(b) THEN pending
                              ELSE IF mem[b].cls = Reference /\ k = 1 /\ mem[b + k].ref \notin objs THEN Null
                              ELSE relocate_object(mem[b + k].ref)
  <2> TAKE k \in 1 .. N
  <2>1. PICK x \in 0 .. Cap :
               /\ mem'[b + k] = Slot(x)
               /\ x = IF k = 2 /\ BecomesPending(b) THEN pending
                      ELSE IF mem[b].cls = Reference /\ k = 1 /\ mem[b + k].ref \notin objs THEN Null
                      ELSE relocate_object(mem[b + k].ref)
    BY <1>8
  <2>2. mem'[b + k].tag = "ref" /\ ~mem'[b + k].reach /\ mem'[b + k].ref = x
    BY <1>7, <2>1
  <2> QED  BY <2>1, <2>2
<1> QED  BY <1>4, <1>5, <1>9, <1>10, <1>12, <1>13 DEF N

(* What an iteration of the loop over objs, on the object or monitor a, does  *)
(* to those at q.                                                             *)
Relocated(a, q) ==
  /\ a \in objs \ fixed
  /\ fixed' = fixed \cup {a}
  /\ \A p \in objs : mem'[q[p]].tag = mem[q[p]].tag /\ mem'[q[p]].cls = mem[q[p]].cls
  /\ \A p \in objs \ {a} : /\ mem'[q[p]].mon = mem[q[p]].mon
                           /\ mem[q[p]].tag = "obj" =>
                                \A k \in 1 .. NRefs[mem[q[p]].cls] : mem'[q[p] + k].ref = mem[q[p] + k].ref
  /\ mem[q[a]].tag = "mon" => UNCHANGED pending
  /\ mem[q[a]].tag = "obj" =>
       /\ mem'[q[a]].mon = relocate_object(mem[q[a]].mon)
       /\ \A k \in 1 .. NRefs[mem[q[a]].cls] :
            mem'[q[a] + k].ref = IF k = 2 /\ BecomesPending(q[a]) THEN pending
                                 ELSE IF mem[q[a]].cls = Reference /\ k = 1 /\ mem[q[a] + k].ref \notin objs THEN Null
                                 ELSE relocate_object(mem[q[a] + k].ref)
       /\ pending' = IF BecomesPending(q[a]) THEN q[a] ELSE pending
  /\ UNCHANGED <<heap_used, roots, phase, request, worklist, objs, moved, write_ptr>>

(* One iteration of relocate_instance_fields. *)
LEMMA RelocateFieldsKeeps ==
  ASSUME IInv, RelocateFields  PROVE IInv' /\ Relocated(Min(NotFixed), Place(objs, moved))
<1> DEFINE q == Place(objs, moved)
           a == Min(NotFixed)
           b == moved[a]
           fx == fixed \cup {a}
<1>1. /\ TypeOK /\ Grantable(request, roots) /\ phase = "fields" /\ phase' = "fields" /\ objs \ fixed # {}
      /\ FieldsSound(mem, heap_used, roots, pending, q, objs, moved, fixed, write_ptr)
      /\ fixed' = fx
      /\ IF mem[b].tag = "mon" THEN UNCHANGED <<mem, pending>> ELSE Relocate(b)
      /\ UNCHANGED <<heap_used, roots, phase, request, worklist, objs, moved, write_ptr>>
  BY DEF IInv, RelocateFields, NotFixed
<1>2. /\ mem \in [Addrs -> Cell] /\ objs \subseteq Addrs /\ write_ptr \in 1 .. Cap + 1 /\ fixed \subseteq Addrs
      /\ pending \in 0 .. Cap /\ Cap \in Nat /\ Addrs = 1 .. Cap /\ objs \subseteq Nat /\ Null \notin objs /\ Null = 0
  BY <1>1, CapIs DEF TypeOK, Null
<1>3. a \in objs /\ a \notin fixed
  <2>1. NotFixed \in SUBSET Nat /\ NotFixed # {}
    BY <1>1, <1>2 DEF NotFixed
  <2>2. a \in NotFixed
    BY <2>1, LeastIs
  <2> QED  BY <2>2 DEF NotFixed
<1>4. DOMAIN moved = objs /\ \A p \in objs : q[p] = moved[p]
  BY <1>1 DEF FieldsSound, Place
<1>5. b = q[a]
  BY <1>3, <1>4
<1> HIDE DEF q, a, b, fx
<1>6. /\ \A p \in objs : q[p] \in Addrs /\ q[p] + SizeAt(mem, q[p]) <= write_ptr
      /\ \A p, r \in objs : p < r => q[p] + SizeAt(mem, q[p]) <= q[r]
      /\ \A c \in 1 .. write_ptr - 1 : mem[c].tag \in {"obj", "mon"} => \E p \in objs : c = q[p]
      /\ Headers(mem, q, objs) /\ Unmarked(mem, write_ptr - 1)
      /\ Layout(mem, heap_used, q, objs, moved, write_ptr)
  BY <1>1 DEF FieldsSound, Layout
<1>7. \A p \in objs : /\ NRefs[mem[q[p]].cls] \in Nat /\ SizeAt(mem, q[p]) \in Nat /\ SizeAt(mem, q[p]) >= 1
                      /\ mem[q[p]].tag = "mon" => SizeAt(mem, q[p]) = 1
                      /\ mem[q[p]].tag = "obj" => SizeAt(mem, q[p]) = 1 + NRefs[mem[q[p]].cls]
                      /\ mem[q[p]].tag \in {"obj", "mon"}
                      /\ q[p] \in Nat
  <2>1. \A p \in objs : mem[q[p]].tag \in {"obj", "mon"}
    BY <1>6 DEF Headers
  <2>2. \A p \in objs : /\ NRefs[mem[q[p]].cls] \in Nat /\ SizeAt(mem, q[p]) \in Nat /\ SizeAt(mem, q[p]) >= 1
                        /\ mem[q[p]].tag = "mon" => SizeAt(mem, q[p]) = 1
                        /\ mem[q[p]].tag = "obj" => SizeAt(mem, q[p]) = 1 + NRefs[mem[q[p]].cls]
    BY <1>2, <1>6, SizesAre
  <2>3. \A p \in objs : q[p] \in Nat
    BY <1>2, <1>6
  <2> QED  BY <2>1, <2>2, <2>3
<1>8. TypeOK'
  <2>1. fixed' \subseteq Addrs
    BY <1>1, <1>2, <1>3 DEF fx
  <2>2. CASE mem[b].tag = "mon"
    BY <1>1, <2>1, <2>2 DEF TypeOK
  <2>3. CASE mem[b].tag # "mon" /\ mem' \in [Addrs -> Cell] /\ pending' \in 0 .. Cap
    BY <1>1, <2>1, <2>3 DEF TypeOK
  <2>4. ASSUME mem[b].tag # "mon"  PROVE mem' \in [Addrs -> Cell] /\ pending' \in 0 .. Cap
    <3>1. mem[b].tag = "obj" /\ b \in Addrs /\ b + NRefs[mem[b].cls] <= Cap
          /\ BeforeFixing(mem, q, objs, a)
      <4>1. /\ mem[b].tag = "obj" /\ b \in Addrs /\ SizeAt(mem, b) = 1 + NRefs[mem[b].cls]
            /\ NRefs[mem[b].cls] \in Nat
        BY <1>3, <1>5, <1>6, <1>7, <2>4
      <4>2. b + SizeAt(mem, b) <= write_ptr
        BY <1>3, <1>5, <1>6
      <4>3. b + NRefs[mem[b].cls] <= Cap
        BY <1>2, <4>1, <4>2
      <4>4. BeforeFixing(mem, q, objs, a)
        BY <1>1, <1>3, <1>5, <4>1 DEF FieldsSound
      <4> QED  BY <4>1, <4>3, <4>4
    <3>2. \A k \in 1 .. NRefs[mem[b].cls] : mem[b + k].tag = "ref"
      BY <1>5, <3>1 DEF BeforeFixing
    <3>3. \A x : relocate_object(x) = IF x \in objs THEN q[x] ELSE x
      BY <1>4 DEF relocate_object
    <3>4. \A p \in objs : q[p] \in Addrs
      BY <1>6
    <3>5. Relocate(b)
      BY <1>1, <2>4
    <3>6. mem' \in [Addrs -> Cell] /\ pending' = IF BecomesPending(b) THEN b ELSE pending
      BY <1>1, <3>1, <3>2, <3>3, <3>4, <3>5, RelocateIs
    <3> QED  BY <1>2, <3>1, <3>6
  <2> QED  BY <2>2, <2>3, <2>4
<1>9. CASE mem[b].tag = "mon"
  <2>1. UNCHANGED <<mem, pending>>
    BY <1>1, <1>9
  <2>2. \A p \in objs : mem[q[p]].tag = "obj" => (p \in fx <=> p \in fixed)
    BY <1>5, <1>9 DEF fx
  <2>3. \A p \in objs : mem[q[p]].tag = "obj" => NewMon(mem, q, objs, fx, p) = NewMon(mem, q, objs, fixed, p)
    BY <2>2 DEF NewMon
  <2>4. FieldsSound(mem, heap_used, roots, pending, q, objs, moved, fx, write_ptr)
    BY <1>1, <2>2, <2>3 DEF FieldsSound
  <2>5. Relocated(a, q)
    BY <1>1, <1>3, <1>5, <1>9, <2>1 DEF Relocated, fx
  <2> QED  BY <1>1, <1>8, <2>1, <2>4, <2>5 DEF IInv, a, q
<1>10. CASE mem[b].tag # "mon"
  <2> DEFINE N == NRefs[mem[b].cls]
             m2 == mem'
  <2>1. /\ mem[b].tag = "obj" /\ b \in Addrs /\ b + N <= Cap /\ BeforeFixing(mem, q, objs, a)
        /\ N \in Nat /\ b + N < write_ptr /\ b \in Nat
    <3>1. /\ mem[b].tag = "obj" /\ b \in Addrs /\ b + (1 + N) <= write_ptr /\ N \in Nat
          /\ BeforeFixing(mem, q, objs, a)
      <4>1. mem[b].tag = "obj" /\ b \in Addrs /\ b + (1 + N) <= write_ptr /\ N \in Nat
        BY <1>3, <1>5, <1>6, <1>7, <1>10
      <4>2. BeforeFixing(mem, q, objs, a)
        BY <1>1, <1>3, <1>5, <4>1 DEF FieldsSound
      <4> QED  BY <4>1, <4>2
    <3> QED  BY <1>2, <3>1
  <2>2. \A k \in 1 .. N : mem[b + k].tag = "ref"
    BY <1>5, <2>1 DEF BeforeFixing
  <2>3. \A x : relocate_object(x) = IF x \in objs THEN q[x] ELSE x
    BY <1>4 DEF relocate_object
  <2>4. /\ m2 \in [Addrs -> Cell]
        /\ m2[b].tag = mem[b].tag /\ m2[b].cls = mem[b].cls /\ (m2[b].reach <=> mem[b].reach)
        /\ m2[b].mon = relocate_object(mem[b].mon)
        /\ \A k \in 1 .. N :
             /\ m2[b + k].tag = "ref" /\ ~m2[b + k].reach
             /\ m2[b + k].ref = IF k = 2 /\ BecomesPending(b) THEN pending
                                ELSE IF mem[b].cls = Reference /\ k = 1 /\ mem[b + k].ref \notin objs THEN Null
                                ELSE relocate_object(mem[b + k].ref)
        /\ \A c \in Addrs \ (b .. b + N) : m2[c] = mem[c]
        /\ pending' = IF BecomesPending(b) THEN b ELSE pending
    <3>1. \A p \in objs : q[p] \in Addrs
      BY <1>6
    <3>2. Relocate(b)
      BY <1>1, <1>10
    <3> QED  BY <1>1, <2>1, <2>2, <2>3, <3>1, <3>2, RelocateIs
  <2> HIDE DEF N, m2
  (* The cells of the other objects are left alone. *)
  <2>5. ASSUME NEW p \in objs, p # a, NEW k \in 0 .. SizeAt(mem, q[p]) - 1  PROVE m2[q[p] + k] = mem[q[p] + k]
    <3>1. SizeAt(mem, q[a]) = 1 + N /\ a \in Nat /\ p \in Nat
      BY <1>2, <1>3, <1>5, <1>7, <2>1 DEF N
    <3>2. p < a => q[p] + SizeAt(mem, q[p]) <= b
      BY <1>3, <1>5, <1>6
    <3>3. a < p => b + (1 + N) <= q[p]
      BY <1>3, <1>5, <1>6, <3>1
    <3>4. q[p] + k \in Addrs /\ q[p] + k \notin b .. b + N
      <4>1. q[p] + SizeAt(mem, q[p]) <= write_ptr /\ q[p] \in Addrs /\ SizeAt(mem, q[p]) \in Nat
        BY <1>6, <1>7
      <4> QED  BY <1>2, <2>1, <2>5, <3>1, <3>2, <3>3, <4>1
    <3> QED  BY <2>4, <3>4
  <2>6. ASSUME NEW p \in objs, p # a
        PROVE  /\ m2[q[p]] = mem[q[p]]
               /\ mem[q[p]].tag = "obj" => \A k \in 1 .. NRefs[mem[q[p]].cls] : m2[q[p] + k] = mem[q[p] + k]
    <3>1. 0 \in 0 .. SizeAt(mem, q[p]) - 1 /\ q[p] + 0 = q[p]
      BY <1>7
    <3>2. mem[q[p]].tag = "obj" => \A k \in 1 .. NRefs[mem[q[p]].cls] : k \in 0 .. SizeAt(mem, q[p]) - 1
      BY <1>7
    <3> QED  BY <2>5, <2>6, <3>1, <3>2
  <2>7. \A p \in objs : m2[q[p]].tag = mem[q[p]].tag /\ m2[q[p]].cls = mem[q[p]].cls
                        /\ SizeAt(m2, q[p]) = SizeAt(mem, q[p])
    BY <1>5, <2>4, <2>6 DEF SizeAt
  <2>8. \A c \in Addrs : m2[c].tag = mem[c].tag /\ (m2[c].reach => mem[c].reach)
    <3> SUFFICES ASSUME NEW c \in Addrs  PROVE m2[c].tag = mem[c].tag /\ (m2[c].reach => mem[c].reach)
      OBVIOUS
    <3>1. CASE c = b
      BY <2>4, <3>1
    <3>2. CASE c \in b + 1 .. b + N
      <4>1. PICK k \in 1 .. N : c = b + k
        <5>1. c - b \in 1 .. N /\ c = b + (c - b)
          BY <2>1, <3>2
        <5> QED  BY <5>1
      <4> QED  BY <2>2, <2>4, <4>1
    <3>3. CASE c \notin b .. b + N
      BY <2>4, <3>3
    <3>4. c = b \/ c \in b + 1 .. b + N \/ c \notin b .. b + N
      BY <1>2, <2>1
    <3> QED  BY <3>1, <3>2, <3>3, <3>4
  <2>9. Layout(m2, heap_used, q, objs, moved, write_ptr)
    <3>1. \A c \in 1 .. write_ptr - 1 : c \in Addrs
      BY <1>2
    <3>2. \A c \in 1 .. write_ptr - 1 : m2[c].tag \in {"obj", "mon"} => \E p \in DOMAIN moved : c = q[p]
      BY <1>4, <1>6, <2>8, <3>1
    <3>3. \A p \in DOMAIN moved : q[p] + SizeAt(m2, q[p]) <= write_ptr
      BY <1>4, <1>6, <2>7
    <3>4. \A p, r \in objs : p < r => q[p] + SizeAt(m2, q[p]) <= q[r]
      BY <1>6, <2>7
    <3>5. objs \ DOMAIN moved = {}
      BY <1>4
    <3> QED  BY <1>4, <1>6, <3>2, <3>3, <3>4, <3>5, Zenon DEF Layout
  <2>10. Headers(m2, q, objs)
    BY <1>5, <1>6, <2>1, <2>6, <2>7 DEF Headers
  <2>11. Unmarked(m2, write_ptr - 1)
    <3>1. \A c \in 1 .. write_ptr - 1 : c \in Addrs
      BY <1>2
    <3> QED  BY <1>6, <2>8, <3>1 DEF Unmarked
  <2>12. \A x : /\ OldObj(mem, q, objs, x) => OldObj(m2, q, objs, x)
                /\ NewObj(mem, q, objs, x) => NewObj(m2, q, objs, x)
                /\ NewRef(mem, q, objs, x) => NewRef(m2, q, objs, x)
                /\ NewListed(mem, q, objs, x) => NewListed(m2, q, objs, x)
    BY <2>7 DEF OldObj, NewObj, NewRef, NewListed
  (* The objects that were relocated before, or will be. *)
  <2>13. ASSUME NEW p \in objs, p # a, mem[q[p]].tag = "obj", AfterFixing(mem, q, objs, p)
         PROVE  AfterFixing(m2, q, objs, p)
    <3>1. m2[q[p]] = mem[q[p]] /\ \A k \in 1 .. NRefs[mem[q[p]].cls] : m2[q[p] + k] = mem[q[p] + k]
      BY <2>6, <2>13
    <3>2. ASSUME mem[q[p]].cls = Reference  PROVE m2[q[p] + 2] = mem[q[p] + 2]
      <4>1. 2 \in 1 .. NRefs[mem[q[p]].cls]
        BY <3>2, ReferenceIs, NRefsIs
      <4> QED  BY <3>1, <4>1
    <3>3. \A k \in 1 .. NRefs[mem[q[p]].cls] : m2[q[p] + k].tag = "ref" /\ NewRef(m2, q, objs, m2[q[p] + k].ref)
      BY <2>12, <2>13, <3>1 DEF AfterFixing
    <3>4. mem[q[p]].cls = Reference => NewListed(m2, q, objs, m2[q[p] + 2].ref)
      BY <2>12, <2>13, <3>2 DEF AfterFixing
    <3>5. mem[q[p]].mon # Null => \E r \in objs : mem[q[p]].mon = q[r] /\ p < r /\ m2[q[r]].tag = "mon"
      BY <2>7, <2>13 DEF AfterFixing
    <3> QED  BY <3>1, <3>3, <3>4, <3>5 DEF AfterFixing
  <2>14. ASSUME NEW p \in objs, p # a, mem[q[p]].tag = "obj", BeforeFixing(mem, q, objs, p)
         PROVE  BeforeFixing(m2, q, objs, p)
    <3>1. m2[q[p]] = mem[q[p]] /\ \A k \in 1 .. NRefs[mem[q[p]].cls] : m2[q[p] + k] = mem[q[p] + k]
      BY <2>6, <2>14
    <3>2. \A k \in 1 .. NRefs[mem[q[p]].cls] :
            /\ m2[q[p] + k].tag = "ref"
            /\ \/ m2[q[p] + k].ref = Null
               \/ OldObj(m2, q, objs, m2[q[p] + k].ref)
               \/ mem[q[p]].cls = Reference /\ k = 1 /\ m2[q[p] + k].ref \notin objs
      BY <2>12, <2>14, <3>1 DEF BeforeFixing
    <3>3. ASSUME mem[q[p]].cls = Reference, m2[q[p] + 2].ref # Null
          PROVE  m2[q[m2[q[p] + 2].ref]].cls = Reference
      <4>1. 2 \in 1 .. NRefs[mem[q[p]].cls] /\ 2 # 1
        BY <3>3, ReferenceIs, NRefsIs
      <4>2. OldObj(m2, q, objs, m2[q[p] + 2].ref) /\ m2[q[p] + 2] = mem[q[p] + 2]
        BY <3>1, <3>2, <3>3, <4>1
      <4>3. mem[q[m2[q[p] + 2].ref]].cls = Reference
        BY <2>14, <3>3, <4>2 DEF BeforeFixing
      <4> QED  BY <2>7, <4>2, <4>3 DEF OldObj
    <3>4. ASSUME mem[q[p]].mon # Null
          PROVE  mem[q[p]].mon \in objs /\ p < mem[q[p]].mon /\ m2[q[mem[q[p]].mon]].tag = "mon"
      BY <2>7, <2>14, <3>4 DEF BeforeFixing
    <3> QED  BY <3>1, <3>2, <3>3, <3>4 DEF BeforeFixing
  (* The object itself. *)
  <2>15. NewListed(mem, q, objs, pending)
    BY <1>1 DEF FieldsSound
  <2>16. \A x : x = Null \/ OldObj(mem, q, objs, x) => NewRef(m2, q, objs, relocate_object(x))
    BY <1>2, <2>3, <2>7 DEF OldObj, NewRef, NewObj
  <2>17. AfterFixing(m2, q, objs, a)
    <3>1. m2[q[a]].cls = mem[b].cls /\ m2[q[a]].mon = relocate_object(mem[b].mon) /\ q[a] = b
      BY <1>5, <2>4
    <3>2. ASSUME NEW k \in 1 .. N  PROVE m2[b + k].tag = "ref" /\ NewRef(m2, q, objs, m2[b + k].ref)
      <4>1. m2[b + k].tag = "ref"
        BY <2>4
      <4>2. CASE k = 2 /\ BecomesPending(b)
        <5>1. m2[b + k].ref = pending
          BY <2>4, <4>2
        <5> QED  BY <2>12, <2>15, <4>1, <5>1 DEF NewListed, NewRef
      <4>3. CASE ~(k = 2 /\ BecomesPending(b)) /\ mem[b].cls = Reference /\ k = 1 /\ mem[b + k].ref \notin objs
        <5>1. m2[b + k].ref = Null
          BY <2>4, <4>3
        <5> QED  BY <4>1, <5>1 DEF NewRef
      <4>4. CASE ~(k = 2 /\ BecomesPending(b)) /\ ~(mem[b].cls = Reference /\ k = 1 /\ mem[b + k].ref \notin objs)
        <5>1. m2[b + k].ref = relocate_object(mem[b + k].ref)
          BY <2>4, <4>4
        <5>2. mem[b + k].ref = Null \/ OldObj(mem, q, objs, mem[b + k].ref)
          BY <1>5, <2>1, <4>4 DEF BeforeFixing, N
        <5> QED  BY <2>16, <4>1, <5>1, <5>2
      <4> QED  BY <4>2, <4>3, <4>4
    <3>3. ASSUME mem[b].cls = Reference  PROVE NewListed(m2, q, objs, m2[b + 2].ref)
      <4>1. 2 \in 1 .. N /\ 2 # 1
        BY <2>1, <3>3, ReferenceIs DEF N
      <4>2. CASE BecomesPending(b)
        <5>1. m2[b + 2].ref = pending
          BY <2>4, <4>1, <4>2
        <5> QED  BY <2>12, <2>15, <5>1
      <4>3. CASE ~BecomesPending(b)
        <5>1. m2[b + 2].ref = relocate_object(mem[b + 2].ref)
          BY <2>4, <4>1, <4>3
        <5>2. CASE mem[b + 2].ref = Null
          BY <1>2, <2>3, <5>1, <5>2 DEF NewListed
        <5>3. CASE mem[b + 2].ref # Null
          <6>1. OldObj(mem, q, objs, mem[b + 2].ref)
            BY <1>5, <2>1, <4>1, <5>3 DEF BeforeFixing, N
          <6>2. mem[q[mem[b + 2].ref]].cls = Reference
            BY <1>5, <2>1, <3>3, <5>3 DEF BeforeFixing
          <6>3. m2[b + 2].ref = q[mem[b + 2].ref]
            BY <2>3, <5>1, <6>1 DEF OldObj
          <6> QED  BY <2>7, <6>1, <6>2, <6>3 DEF OldObj, NewListed, NewObj
        <5> QED  BY <5>2, <5>3
      <4> QED  BY <4>2, <4>3
    <3>4. ASSUME m2[b].mon # Null  PROVE \E r \in objs : m2[b].mon = q[r] /\ a < r /\ m2[q[r]].tag = "mon"
      <4>1. mem[b].mon # Null
        BY <1>2, <2>3, <3>1, <3>4
      <4>2. mem[b].mon \in objs /\ a < mem[b].mon /\ mem[q[mem[b].mon]].tag = "mon"
        BY <1>5, <2>1, <4>1 DEF BeforeFixing
      <4>3. m2[b].mon = q[mem[b].mon]
        BY <2>3, <2>4, <4>2
      <4> QED  BY <2>7, <4>2, <4>3
    <3> QED  BY <3>1, <3>2, <3>3, <3>4 DEF AfterFixing, N
  <2>18. \A p \in objs : m2[q[p]].tag = "obj" => IF p \in fx THEN AfterFixing(m2, q, objs, p) ELSE BeforeFixing(m2, q, objs, p)
    <3> SUFFICES ASSUME NEW p \in objs, m2[q[p]].tag = "obj"
                 PROVE  IF p \in fx THEN AfterFixing(m2, q, objs, p) ELSE BeforeFixing(m2, q, objs, p)
      OBVIOUS
    <3>1. mem[q[p]].tag = "obj"
      BY <2>7
    <3>2. IF p \in fixed THEN AfterFixing(mem, q, objs, p) ELSE BeforeFixing(mem, q, objs, p)
      BY <1>1, <3>1 DEF FieldsSound
    <3>3. CASE p = a
      BY <2>17, <3>3 DEF fx
    <3>4. CASE p # a /\ p \in fixed
      BY <2>13, <3>1, <3>2, <3>4 DEF fx
    <3>5. CASE p # a /\ p \notin fixed
      BY <2>14, <3>1, <3>2, <3>5 DEF fx
    <3> QED  BY <3>3, <3>4, <3>5
  <2>19. \A p \in objs : NewMon(m2, q, objs, fx, p) = NewMon(mem, q, objs, fixed, p)
    <3> SUFFICES ASSUME NEW p \in objs  PROVE NewMon(m2, q, objs, fx, p) = NewMon(mem, q, objs, fixed, p)
      OBVIOUS
    <3>1. CASE p = a
      <4>1. NewMon(m2, q, objs, fx, p) = m2[b].mon
        BY <1>5, <3>1 DEF NewMon, fx
      <4>2. m2[b].mon = IF mem[b].mon \in objs THEN q[mem[b].mon] ELSE mem[b].mon
        BY <2>3, <2>4
      <4> QED  BY <1>3, <1>5, <3>1, <4>1, <4>2 DEF NewMon
    <3>2. CASE p # a
      <4>1. m2[q[p]].mon = mem[q[p]].mon /\ (p \in fx <=> p \in fixed)
        BY <2>6, <3>2 DEF fx
      <4> QED  BY <4>1 DEF NewMon
    <3> QED  BY <3>1, <3>2
  <2>20. \A p, r \in objs : m2[q[p]].tag = "obj" /\ m2[q[r]].tag = "obj" /\ NewMon(m2, q, objs, fx, p) # Null
                              /\ NewMon(m2, q, objs, fx, p) = NewMon(m2, q, objs, fx, r) => p = r
    BY <1>1, <2>7, <2>19 DEF FieldsSound
  <2>21. \A r \in Locations : NewRef(m2, q, objs, roots[r])
    BY <1>1, <2>12 DEF FieldsSound
  <2>22. NewListed(m2, q, objs, roots[Handler])
    BY <1>1, <2>12 DEF FieldsSound
  <2>23. NewListed(m2, q, objs, pending')
    <3>1. CASE BecomesPending(b)
      <4>1. pending' = b /\ mem[b].cls = Reference
        BY <2>4, <3>1 DEF BecomesPending
      <4> QED  BY <1>3, <1>5, <2>1, <2>4, <4>1 DEF NewListed, NewObj
    <3>2. CASE ~BecomesPending(b)
      BY <2>4, <2>12, <2>15, <3>2
    <3> QED  BY <3>1, <3>2
  <2>24. FieldsSound(m2, heap_used, roots, pending', q, objs, moved, fx, write_ptr)
    BY <1>4, <2>9, <2>10, <2>11, <2>18, <2>20, <2>21, <2>22, <2>23 DEF FieldsSound
  <2>25. Relocated(a, q)
    <3>1. \A p \in objs \ {a} : /\ m2[q[p]].mon = mem[q[p]].mon
                                /\ mem[q[p]].tag = "obj" =>
                                     \A k \in 1 .. NRefs[mem[q[p]].cls] : m2[q[p] + k].ref = mem[q[p] + k].ref
      BY <2>6
    <3>2. /\ m2[q[a]].mon = relocate_object(mem[q[a]].mon)
          /\ \A k \in 1 .. NRefs[mem[q[a]].cls] :
               m2[q[a] + k].ref = IF k = 2 /\ BecomesPending(q[a]) THEN pending
                                  ELSE IF mem[q[a]].cls = Reference /\ k = 1 /\ mem[q[a] + k].ref \notin objs THEN Null
                                  ELSE relocate_object(mem[q[a] + k].ref)
          /\ pending' = IF BecomesPending(q[a]) THEN q[a] ELSE pending
      BY <1>5, <2>4 DEF N
    <3> QED  BY <1>1, <1>3, <1>5, <2>1, <2>7, <3>1, <3>2 DEF Relocated, fx, m2
  <2> QED  BY <1>1, <1>8, <2>24, <2>25 DEF IInv, a, q, m2
<1> QED  BY <1>9, <1>10

-----------------------------------------------------------------------------
(* The invariant holds of the empty heap *)
LEMMA InitIInv ==
  ASSUME Init  PROVE IInv
<1>1. TypeOK
  <2>1. NoRequest \in Requests
    BY ReferenceIs DEF NoRequest, Request, Requests, Locations
  <2>2. mem \in [Addrs -> Cell]
    BY CellsAre DEF Init
  <2>3. roots \in [Locations -> 0 .. Cap] /\ pending \in 0 .. Cap /\ heap_used \in 0 .. Cap /\ write_ptr \in 1 .. Cap + 1
    BY CapIs DEF Init, Locations, Null
  <2> QED  BY <2>1, <2>2, <2>3 DEF Init, TypeOK
<1>2. heap_used = 0 /\ 1 .. 0 = {} /\ phase = "run"
  BY DEF Init
<1>3. HeapSound(mem, heap_used) /\ Unmarked(mem, heap_used)
  BY <1>2 DEF HeapSound, Unmarked
<1>4. RootsSound(mem, heap_used, roots, pending)
  BY DEF Init, RootsSound, Locations, IsRef, IsListed
<1> QED  BY <1>1, <1>2, <1>3, <1>4 DEF IInv, Sound

(* and is kept by every step. *)
LEMMA StepIInv ==
  ASSUME RootsFit, IInv, [Next]_vars  PROVE IInv'
<1>1. CASE Next
  BY <1>1, MutatorKeeps, RetryKeeps, MarkRootsKeeps, MarkKeeps, StartCopyKeeps, CopyKeeps, RelocateRootsKeeps,
     RelocateFieldsKeeps, FinishGCKeeps DEF Next, major_gc
<1>2. CASE UNCHANGED vars
  BY <1>2 DEF vars, IInv, TypeOK
<1> QED  BY <1>1, <1>2

(* The invariant, for every heap and program whose roots fit the root vector. *)
THEOREM Invariance ==
  ASSUME RootsFit  PROVE Spec => []IInv
<1>1. Init => IInv
  BY InitIInv
<1>2. IInv /\ [Next]_vars => IInv'
  BY StepIInv
<1> QED  BY <1>1, <1>2, PTL DEF Spec

(* SlideIsSafe, for every heap and program: the copy loop of major_gc        *)
(* (vm/gc.c) never writes over an object it still has to copy, and never     *)
(* moves a monitor before the object whose mark it has to clear through it.  *)
THEOREM SlidesSafely ==
  ASSUME RootsFit  PROVE Spec => []SlideIsSafe
<1>1. IInv => SlideIsSafe
  <2> SUFFICES ASSUME IInv, phase = "copy", NEW a \in NotMoved
               PROVE  write_ptr <= a /\ (mem[a].mon # Null => mem[a].mon \in NotMoved)
    BY DEF SlideIsSafe
  <2> DEFINE q == Place(objs, moved)
  <2>1. /\ objs \subseteq Addrs /\ Addrs \subseteq Nat
        /\ Layout(mem, heap_used, q, objs, moved, write_ptr) /\ Contents(mem, roots, pending, q, objs)
    BY CapIs DEF IInv, TypeOK, CopySound
  <2>2. a \in objs \ DOMAIN moved /\ a \in objs /\ q[a] = a
    BY DEF NotMoved, Place
  <2> HIDE DEF q
  <2>3. write_ptr <= a
    BY <2>1, <2>2 DEF Layout
  <2>4. ASSUME mem[a].mon # Null  PROVE mem[a].mon \in NotMoved
    <3>1. mem[a].tag = "obj" /\ BeforeFixing(mem, q, objs, a)
      BY <2>1, <2>2, <2>4 DEF Contents, Headers
    <3>2. mem[a].mon \in objs /\ a < mem[a].mon
      BY <2>2, <2>4, <3>1 DEF BeforeFixing
    <3>3. mem[a].mon \in DOMAIN moved => mem[a].mon < a
      BY <2>1, <2>2 DEF Layout
    <3>4. a \in Nat /\ mem[a].mon \in Nat
      BY <2>1, <2>2, <3>2
    <3> QED  BY <3>2, <3>3, <3>4 DEF NotMoved
  <2> QED  BY <2>3, <2>4
<1> QED  BY <1>1, Invariance, PTL

-----------------------------------------------------------------------------
(* What the program can see, round by round. *)
FirstSeen == (Range(roots) \cup {pending}) \ {Null}
NextSeen(S) == UNION {{a} \cup (IF IsObject(a) THEN Targets(a, 1) ELSE {}) : a \in S}
Rounds(f, n) == f = [i \in 0 .. n |-> IF i = 0 THEN FirstSeen ELSE NextSeen(f[i - 1])]

(* The recursive function in Visible is defined. *)
LEMMA RoundsExist == \E f : Rounds(f, Cap)
<1> DEFINE S == {n \in Nat : ~\E f : Rounds(f, n)}
<1>1. Cap \in Nat
  BY CapIs
<1> SUFFICES ASSUME S # {}  PROVE FALSE
  BY <1>1
<1>2. S \in SUBSET Nat
  OBVIOUS
<1> DEFINE n == Min(S)
<1>3. n \in S /\ \A x \in S : n <= x
  <2> HIDE DEF S
  <2> QED  BY <1>2, LeastIs
<1>4. n \in Nat /\ ~\E f : Rounds(f, n)
  BY <1>3
<1>5. CASE n = 0
  <2> DEFINE g == [i \in 0 .. 0 |-> FirstSeen]
  <2>1. g = [i \in 0 .. 0 |-> IF i = 0 THEN FirstSeen ELSE NextSeen(g[i - 1])]
    OBVIOUS
  <2>2. Rounds(g, 0)
    BY <2>1 DEF Rounds
  <2> HIDE DEF n
  <2> QED  BY <1>4, <1>5, <2>2
<1>6. CASE n # 0
  <2>1. n - 1 \in Nat /\ ~(n <= n - 1)
    <3> HIDE DEF n
    <3> QED  BY <1>4, <1>6
  <2>2. n - 1 \notin S
    <3> HIDE DEF n, S
    <3> QED  BY <1>3, <2>1
  <2>3. PICK f : Rounds(f, n - 1)
    BY <2>1, <2>2
  <2> HIDE DEF n, S
  <2> DEFINE g == [i \in 0 .. n |-> IF i \in 0 .. n - 1 THEN f[i] ELSE NextSeen(f[n - 1])]
  <2>4. \A i \in 0 .. n - 1 : i \in 0 .. n /\ f[i] = IF i = 0 THEN FirstSeen ELSE NextSeen(f[i - 1])
    BY <1>4, <2>1, <2>3 DEF Rounds
  <2>5. ASSUME NEW i \in 0 .. n  PROVE g[i] = IF i = 0 THEN FirstSeen ELSE NextSeen(g[i - 1])
    <3>1. CASE i = 0
      BY <1>4, <1>6, <2>1, <2>4, <3>1
    <3>2. CASE i # 0
      <4>1. i - 1 \in 0 .. n - 1 /\ i - 1 \in 0 .. n /\ i \in Nat
        BY <1>4, <3>2
      <4>2. g[i - 1] = f[i - 1]
        BY <4>1
      <4>3. CASE i \in 0 .. n - 1
        <5>1. g[i] = f[i]
          BY <4>3
        <5> QED  BY <2>4, <3>2, <4>2, <4>3, <5>1
      <4>4. CASE i \notin 0 .. n - 1
        <5>1. i = n
          BY <1>4, <4>1, <4>4
        <5> QED  BY <3>2, <4>2, <4>4, <5>1
      <4> QED  BY <4>3, <4>4
    <3> QED  BY <3>1, <3>2
  <2>6. g = [i \in 0 .. n |-> IF i = 0 THEN FirstSeen ELSE NextSeen(g[i - 1])]
    <3>1. g = [i \in 0 .. n |-> g[i]]
      OBVIOUS
    <3> HIDE DEF g
    <3> QED  BY <2>5, <3>1
  <2> HIDE DEF g
  <2>7. Rounds(g, n)
    BY <2>6 DEF Rounds
  <2> QED  BY <1>4, <2>7
<1> QED  BY <1>5, <1>6

(* Visible is its last round. *)
LEMMA VisibleIs == \E f : Rounds(f, Cap) /\ Visible = f[Cap]
<1> DEFINE f == CHOOSE g : Rounds(g, Cap)
<1>1. Rounds(f, Cap)
  BY RoundsExist
<1>2. Visible = f[Cap]
  BY DEF Visible, Rounds, NextSeen, FirstSeen
<1> QED  BY <1>1, <1>2

(* In a sound heap the program sees objects only. *)
LEMMA VisibleObjects ==
  ASSUME TypeOK, Sound(mem, heap_used, roots, pending)
  PROVE  \A a \in Visible : IsObj(mem, heap_used, a)
<1>1. PICK f : Rounds(f, Cap) /\ Visible = f[Cap]
  BY VisibleIs
<1>2. Cap \in Nat /\ \A i \in 0 .. Cap : f[i] = IF i = 0 THEN FirstSeen ELSE NextSeen(f[i - 1])
  BY <1>1, CapIs DEF Rounds
<1> DEFINE Good(i) == \A a \in f[i] : IsObj(mem, heap_used, a)
           S == {i \in 0 .. Cap : ~Good(i)}
<1> SUFFICES ASSUME S # {}  PROVE FALSE
  BY <1>1, <1>2
<1> DEFINE n == Min(S)
<1>3. n \in S /\ \A x \in S : n <= x
  <2>1. S \in SUBSET Nat
    BY <1>2
  <2> HIDE DEF S
  <2> QED  BY <2>1, LeastIs
<1>4. n \in 0 .. Cap /\ ~Good(n)
  BY <1>3
<1> HIDE DEF n
<1>5. CASE n = 0
  <2>1. f[n] = FirstSeen
    BY <1>2, <1>4, <1>5
  <2>2. \A a \in Range(roots) : \E r \in Locations : a = roots[r]
    BY DEF Range, TypeOK
  <2>3. \A a \in FirstSeen : IsObj(mem, heap_used, a)
    BY <2>2 DEF FirstSeen, Sound, RootsSound, IsRef, IsListed
  <2> QED  BY <1>4, <2>1, <2>3
<1>6. CASE n # 0
  <2>1. n - 1 \in 0 .. Cap /\ ~(n <= n - 1) /\ f[n] = NextSeen(f[n - 1])
    BY <1>2, <1>4, <1>6
  <2>2. Good(n - 1)
    BY <1>3, <2>1
  <2>3. ASSUME NEW a \in f[n - 1], NEW t \in Targets(a, 1)  PROVE IsObj(mem, heap_used, t)
    <3>1. IsObj(mem, heap_used, a) /\ ObjectSound(mem, heap_used, a)
      BY <2>2 DEF Sound, HeapSound, IsObj
    <3>2. PICK k \in 1 .. NRefs[mem[a].cls] : t = mem[a + k].ref /\ t # Null
      BY DEF Targets
    <3> QED  BY <3>1, <3>2 DEF ObjectSound, IsRef
  <2>4. \A x \in NextSeen(f[n - 1]) : \E a \in f[n - 1] : x = a \/ x \in Targets(a, 1)
    BY DEF NextSeen
  <2> QED  BY <1>4, <2>1, <2>2, <2>3, <2>4
<1> QED  BY <1>5, <1>6

(* NoDangling, for every heap and program: no field the program can reach     *)
(* and no root is left with the address of anything but an object when        *)
(* bump_allocate returns (vm/bjvm.c), with or without a major_gc (vm/gc.c)    *)
(* in it, and the monitor a header points to is that object's alone.          *)
THEOREM NothingDangles ==
  ASSUME RootsFit  PROVE Spec => []NoDangling
<1>1. IInv => NoDangling
  <2> SUFFICES ASSUME IInv, Stable, NEW a \in Visible
               PROVE  /\ IsObject(a)
                      /\ mem[a].mon # Null => /\ IsMonitor(mem[a].mon) /\ mem[a].mon > a
                                              /\ \A b \in Visible \ {a} : mem[b].mon # mem[a].mon
    BY DEF NoDangling
  <2>1. TypeOK /\ Sound(mem, heap_used, roots, pending)
    BY DEF IInv, Stable
  <2>2. \A b \in Visible : IsObj(mem, heap_used, b)
    BY <2>1, VisibleObjects
  <2>3. ObjectSound(mem, heap_used, a) /\ a \in 1 .. heap_used /\ heap_used \in Nat
    BY <2>1, <2>2, CapIs DEF Sound, HeapSound, IsObj, TypeOK
  <2>4. IsObject(a)
    BY <2>2 DEF IsObject, IsObj
  <2>5. ASSUME mem[a].mon # Null
        PROVE  IsMonitor(mem[a].mon) /\ mem[a].mon > a
    BY <2>3, <2>5 DEF ObjectSound, IsMonitor
  <2>6. ASSUME mem[a].mon # Null, NEW b \in Visible \ {a}  PROVE mem[b].mon # mem[a].mon
    BY <2>1, <2>2, <2>6 DEF Sound, HeapSound, IsObj
  <2> QED  BY <2>4, <2>5, <2>6
<1> QED  BY <1>1, Invariance, PTL

-----------------------------------------------------------------------------
(* What the collector finds is strongly reachable.  A set S of addresses     *)
(* from before the slide keeps what the locations hold (or, once they were   *)
(* relocated, the addresses after it, which q gives), and what the strong    *)
(* slots of its objects hold, those of the entries fx of objs relocated.     *)
Moved(q, S) == {q[p] : p \in S}

KeepsRoots(ro, pe, S) ==
  /\ \A r \in Locations : ro[r] \in S \cup {Null}
  /\ pe \in S \cup {Null}

KeepsSlots(m, q, fx, S) ==
  \A p \in S : m[q[p]].tag = "obj" =>
    \A k \in FirstStrong(m, q[p]) .. NRefs[m[q[p]].cls] :
      m[q[p] + k].ref \in (IF p \in fx THEN Moved(q, S) ELSE S) \cup {Null}

(* X is in every such set, before the roots are relocated and after it. *)
OnlyReachable(m, ro, pe, q, X) ==
  \A S \in SUBSET DOMAIN q : KeepsRoots(ro, pe, S) /\ KeepsSlots(m, q, {}, S) => X \subseteq S
OnlyReachableNow(m, ro, pe, q, fx, X) ==
  \A S \in SUBSET DOMAIN q : KeepsRoots(ro, pe, Moved(q, S)) /\ KeepsSlots(m, q, fx, S) => X \subseteq S

(* Every monitor has an object. *)
Owned(m, q, fx, ob) ==
  \A r \in ob : m[q[r]].tag = "mon" =>
    \E p \in ob : m[q[p]].tag = "obj" /\ m[q[p]].mon = IF p \in fx THEN q[r] ELSE r

ObjectsAt(m, q, ob) == {p \in ob : m[q[p]].tag = "obj"}
Itself(u) == [p \in 1 .. u |-> p]

(* The copies leave no gap. *)
Tiles(m, q, mv, wp) ==
  \A c \in 1 .. wp - 1 : \E p \in DOMAIN mv : c \in q[p] .. q[p] + SizeAt(m, q[p]) - 1

GInv ==
  /\ phase = "mark" => /\ OnlyReachable(mem, roots, pending, Itself(heap_used),
                                        ObjectsAt(mem, Itself(heap_used), worklist \cup objs))
                       /\ Owned(mem, Itself(heap_used), {}, objs)
  /\ phase = "copy" => /\ OnlyReachable(mem, roots, pending, Place(objs, moved), ObjectsAt(mem, Place(objs, moved), objs))
                       /\ Owned(mem, Place(objs, moved), {}, objs)
                       /\ Tiles(mem, Place(objs, moved), moved, write_ptr)
  /\ phase = "fields" => /\ OnlyReachableNow(mem, roots, pending, Place(objs, moved), fixed,
                                             ObjectsAt(mem, Place(objs, moved), objs))
                         /\ Owned(mem, Place(objs, moved), fixed, objs)
                         /\ Tiles(mem, Place(objs, moved), moved, write_ptr)
  /\ NoFloatingGarbage

-----------------------------------------------------------------------------
(* Where and what the collector keeps the objects makes no difference to    *)
(* what holds them.                                                         *)
LEMMA OnlyReachableSame ==
  ASSUME NEW m, NEW m2, NEW q, NEW q2, NEW ro, NEW pe, NEW X, OnlyReachable(m, ro, pe, q, X),
         DOMAIN q2 = DOMAIN q,
         \A p \in DOMAIN q : NRefs[m[q[p]].cls] \in Nat,
         \A p \in DOMAIN q : m2[q2[p]].tag = m[q[p]].tag /\ m2[q2[p]].cls = m[q[p]].cls,
         \A p \in DOMAIN q : m[q[p]].tag = "obj" =>
           \A k \in 1 .. NRefs[m[q[p]].cls] : m2[q2[p] + k].ref = m[q[p] + k].ref
  PROVE  OnlyReachable(m2, ro, pe, q2, X)
<1> SUFFICES ASSUME NEW S \in SUBSET DOMAIN q, KeepsRoots(ro, pe, S), KeepsSlots(m2, q2, {}, S)
             PROVE  X \subseteq S
  BY DEF OnlyReachable
<1>1. KeepsSlots(m, q, {}, S)
  <2> SUFFICES ASSUME NEW p \in S, m[q[p]].tag = "obj", NEW k \in FirstStrong(m, q[p]) .. NRefs[m[q[p]].cls]
               PROVE  m[q[p] + k].ref \in S \cup {Null}
    BY DEF KeepsSlots
  <2>1. p \in DOMAIN q /\ FirstStrong(m2, q2[p]) = FirstStrong(m, q[p]) /\ FirstStrong(m, q[p]) \in {1, 2}
    BY DEF FirstStrong
  <2>2. k \in 1 .. NRefs[m[q[p]].cls]
    BY <2>1
  <2>3. m2[q2[p] + k].ref = m[q[p] + k].ref
    BY <2>1, <2>2
  <2>4. m2[q2[p] + k].ref \in S \cup {Null}
    BY <2>1 DEF KeepsSlots
  <2> QED  BY <2>3, <2>4
<1> QED  BY <1>1 DEF OnlyReachable

(* The roots are strongly reachable. *)
LEMMA MarkRootsFinds ==
  ASSUME RootsFit, IInv, MarkRoots  PROVE GInv'
<1>1. /\ worklist' = {o \in RootObjects : ~Reached(o)} /\ objs' = {} /\ phase' = "mark"
      /\ UNCHANGED <<heap_used, roots, pending>>
  BY DEF MarkRoots
<1>2. \A o \in RootObjects : o # Null /\ ((\E r \in Locations : o = roots[r]) \/ o = pending)
  BY DEF RootObjects, RootLocations, Locations, Variables
<1> DEFINE X == ObjectsAt(mem', Itself(heap_used'), worklist' \cup objs')
<1>3. \A o \in X : o \in RootObjects
  BY <1>1 DEF ObjectsAt
<1> HIDE DEF X
<1>4. OnlyReachable(mem', roots', pending', Itself(heap_used'), X)
  BY <1>1, <1>2, <1>3 DEF OnlyReachable, KeepsRoots
<1>5. Owned(mem', Itself(heap_used'), {}, objs')
  BY <1>1 DEF Owned
<1> QED  BY <1>1, <1>4, <1>5 DEF GInv, X, NoFloatingGarbage

(* and so is what a strongly reachable object refers to, except as referent. *)
LEMMA MarkFinds ==
  ASSUME IInv, IInv', GInv, Mark  PROVE GInv'
<1> DEFINE u == heap_used
           q == Itself(heap_used)
           X == ObjectsAt(mem, Itself(heap_used), worklist \cup objs)
<1>1. /\ TypeOK /\ Sound(mem, u, roots, pending) /\ phase' = "mark" /\ phase = "mark"
      /\ MarkSound(mem, u, roots, pending, worklist, objs)
      /\ MarkSound(mem', u, roots, pending, worklist', objs')
      /\ UNCHANGED <<heap_used, roots, pending>>
      /\ OnlyReachable(mem, roots, pending, q, X) /\ Owned(mem, q, {}, objs)
  BY DEF IInv, GInv, Mark
<1>2. PICK a \in worklist : mark_reachable(a)
  BY DEF Mark
<1> DEFINE new == {t \in StrongTargets(a) : ~Reached(t)}
<1>3. /\ objs' = objs \cup {a} \cup ({mem[a].mon} \ {Null})
      /\ mem' = SetReached(new, TRUE) /\ worklist' = (worklist \ {a}) \cup new
      /\ \A t \in new : t \in StrongTargets(a)
  BY <1>2 DEF mark_reachable
<1>4. /\ mem \in [Addrs -> Cell] /\ u \in 0 .. Cap /\ Cap \in Nat /\ Addrs = 1 .. Cap
      /\ \A c \in 1 .. u : c \in Addrs
  BY <1>1, CapIs DEF TypeOK
<1> HIDE DEF new, X
<1>5. \A c \in Addrs : Same(mem'[c], mem[c])
  BY <1>3, <1>4, MarksAre
<1>6. DOMAIN q = 1 .. u /\ \A c \in 1 .. u : q[c] = c
  BY DEF Itself
<1> HIDE DEF q
<1>7. \A c \in 1 .. u : NRefs[mem[c].cls] \in Nat /\ mem'[c].tag = mem[c].tag /\ mem'[c].cls = mem[c].cls
                        /\ mem'[c].mon = mem[c].mon
  <2>1. \A c \in 1 .. u : mem[c].cls \in Classes
    BY <1>4 DEF Cell
  <2> QED  BY <1>4, <1>5, <2>1, NRefsIs DEF Same
<1>8. OnlyReachable(mem', roots, pending, q, X)
  <2>1. ASSUME NEW c \in 1 .. u, mem[c].tag = "obj", NEW k \in 1 .. NRefs[mem[c].cls]
        PROVE  mem'[c + k].ref = mem[c + k].ref
    <3>1. c + k \in Addrs
      BY <1>1, <1>4, <1>7, <2>1 DEF Sound, HeapSound, ObjectSound
    <3> QED  BY <1>5, <3>1 DEF Same
  <2>2. /\ \A p \in DOMAIN q : /\ NRefs[mem[q[p]].cls] \in Nat
                               /\ mem'[q[p]].tag = mem[q[p]].tag /\ mem'[q[p]].cls = mem[q[p]].cls
        /\ \A p \in DOMAIN q : mem[q[p]].tag = "obj" =>
             \A k \in 1 .. NRefs[mem[q[p]].cls] : mem'[q[p] + k].ref = mem[q[p] + k].ref
    BY <1>6, <1>7, <2>1
  <2> QED  BY <1>1, <2>2, OnlyReachableSame
<1>9. a \in X /\ IsObj(mem, u, a)
  BY <1>1, <1>2, <1>6 DEF X, ObjectsAt, MarkSound, IsObj, q
<1>10. \A o \in ObjectsAt(mem', q, worklist' \cup objs') : o \in X \/ o \in StrongTargets(a)
  <2> SUFFICES ASSUME NEW o \in worklist' \cup objs', mem'[q[o]].tag = "obj"
               PROVE  o \in X \/ o \in StrongTargets(a)
    BY DEF ObjectsAt
  <2>1. o \in 1 .. u
    BY <1>1 DEF MarkSound, IsObj
  <2>2. mem[o].tag = "obj"
    BY <1>6, <1>7, <2>1
  <2>3. CASE o = mem[a].mon /\ mem[a].mon # Null
    BY <1>1, <1>9, <2>2, <2>3 DEF Sound, HeapSound, ObjectSound, IsObj
  <2>4. CASE o \in worklist \cup objs
    BY <1>6, <2>1, <2>2, <2>4 DEF X, ObjectsAt, q
  <2> QED  BY <1>2, <1>3, <2>3, <2>4
<1>11. OnlyReachable(mem', roots, pending, q, ObjectsAt(mem', q, worklist' \cup objs'))
  <2> SUFFICES ASSUME NEW S \in SUBSET DOMAIN q, KeepsRoots(roots, pending, S), KeepsSlots(mem', q, {}, S)
               PROVE  X \cup StrongTargets(a) \subseteq S
    BY <1>10 DEF OnlyReachable
  <2>1. X \subseteq S
    BY <1>8 DEF OnlyReachable
  <2>2. a \in S /\ q[a] = a /\ mem'[a].tag = "obj" /\ mem'[a].cls = mem[a].cls /\ a \in 1 .. u
    BY <1>6, <1>7, <1>9, <2>1 DEF IsObj
  <2>3. \A k \in FirstStrong(mem, a) .. NRefs[mem[a].cls] : mem'[a + k].ref \in {Null} \cup S
    BY <2>2 DEF KeepsSlots, FirstStrong
  <2>4. ASSUME NEW k \in FirstStrong(mem, a) .. NRefs[mem[a].cls]  PROVE mem'[a + k].ref = mem[a + k].ref
    <3>1. k \in 1 .. NRefs[mem[a].cls]
      BY <1>7, <2>2, <2>4 DEF FirstStrong
    <3>2. a + k \in Addrs
      BY <1>1, <1>4, <1>7, <1>9, <2>2, <3>1 DEF Sound, HeapSound, ObjectSound, IsObj
    <3> QED  BY <1>5, <3>2 DEF Same
  <2>5. StrongTargets(a) = {mem[a + k].ref : k \in FirstStrong(mem, a) .. NRefs[mem[a].cls]} \ {Null}
    BY DEF StrongTargets, Targets, FirstStrong
  <2> QED  BY <2>1, <2>3, <2>4, <2>5
<1>12. Owned(mem', q, {}, objs')
  <2> SUFFICES ASSUME NEW r \in objs', mem'[q[r]].tag = "mon"
               PROVE  \E p \in objs' : mem'[q[p]].tag = "obj" /\ mem'[q[p]].mon = r
    BY DEF Owned
  <2>1. r \in 1 .. u /\ mem[r].tag = "mon" /\ q[r] = r
    BY <1>1, <1>6, <1>7 DEF MarkSound
  <2>2. a \in objs' /\ mem'[q[a]].tag = "obj" /\ mem'[q[a]].mon = mem[a].mon
    BY <1>3, <1>6, <1>7, <1>9 DEF IsObj
  <2>3. CASE r \in objs
    <3>1. PICK p \in objs : mem[q[p]].tag = "obj" /\ mem[q[p]].mon = r
      BY <1>1, <2>1, <2>3 DEF Owned
    <3>2. p \in objs' /\ p \in 1 .. u
      BY <1>1, <1>3 DEF MarkSound
    <3> QED  BY <1>6, <1>7, <3>1, <3>2
  <2> QED  BY <1>3, <1>9, <2>1, <2>2, <2>3 DEF IsObj
<1> QED  BY <1>1, <1>11, <1>12 DEF GInv, q, NoFloatingGarbage

(* The slide starts with what was found. *)
LEMMA StartCopyFinds ==
  ASSUME IInv, GInv, StartCopy  PROVE GInv'
<1> DEFINE q == Itself(heap_used)
           q2 == Place(objs, <<>>)
<1>1. /\ MarkSound(mem, heap_used, roots, pending, worklist, objs) /\ worklist = {}
      /\ OnlyReachable(mem, roots, pending, q, ObjectsAt(mem, q, worklist \cup objs))
      /\ Owned(mem, q, {}, objs) /\ phase' = "copy" /\ moved' = <<>> /\ write_ptr' = 1
      /\ UNCHANGED <<mem, roots, pending, objs>>
  BY DEF IInv, GInv, StartCopy
<1>2. /\ DOMAIN q = 1 .. heap_used /\ \A c \in 1 .. heap_used : q[c] = c
      /\ DOMAIN q2 = objs /\ \A p \in objs : q2[p] = p
      /\ \A p \in objs : p \in 1 .. heap_used
  BY <1>1 DEF Itself, Place, MarkSound
<1> HIDE DEF q, q2
<1>3. ObjectsAt(mem, q2, objs) = ObjectsAt(mem, q, worklist \cup objs)
  BY <1>1, <1>2 DEF ObjectsAt
<1>4. OnlyReachable(mem, roots, pending, q2, ObjectsAt(mem, q2, objs))
  <2> SUFFICES ASSUME NEW S \in SUBSET DOMAIN q2, KeepsRoots(roots, pending, S), KeepsSlots(mem, q2, {}, S)
               PROVE  ObjectsAt(mem, q2, objs) \subseteq S
    BY DEF OnlyReachable
  <2>1. S \in SUBSET DOMAIN q
    BY <1>2
  <2>2. KeepsSlots(mem, q, {}, S)
    BY <1>2 DEF KeepsSlots
  <2> QED  BY <1>1, <1>3, <2>1, <2>2 DEF OnlyReachable
<1>5. Owned(mem, q2, {}, objs)
  BY <1>1, <1>2 DEF Owned
<1>6. Tiles(mem, q2, <<>>, 1)
  <2>1. 1 .. (1 - 1) = {}
    OBVIOUS
  <2> QED  BY <2>1 DEF Tiles
<1> QED  BY <1>1, <1>4, <1>5, <1>6 DEF GInv, q2, NoFloatingGarbage

(* An iteration of the copy loop finds and loses nothing, and leaves no gap. *)
LEMMA CopyFinds ==
  ASSUME IInv, GInv, Copy  PROVE GInv'
<1> DEFINE q == Place(objs, moved)
           q2 == Place(objs, moved')
           a == NextToCopy
<1>1. /\ TypeOK /\ phase = "copy" /\ phase' = "copy" /\ Layout(mem, heap_used, q, objs, moved, write_ptr)
      /\ OnlyReachable(mem, roots, pending, q, ObjectsAt(mem, q, objs))
      /\ Owned(mem, q, {}, objs) /\ Tiles(mem, q, moved, write_ptr)
  BY DEF IInv, GInv, Copy, CopySound
<1>2. Slid(a, q, q2)
  BY CopyKeeps
<1>3. DOMAIN q = objs /\ DOMAIN q2 = objs
  BY DEF Place
<1> HIDE DEF q, q2, a
<1>4. /\ mem \in [Addrs -> Cell] /\ Addrs \subseteq Nat /\ write_ptr \in Nat
      /\ DOMAIN moved \subseteq objs /\ \A p \in objs : q[p] \in Addrs
  BY <1>1, CapIs DEF TypeOK, Layout
<1>5. \A p \in objs : /\ NRefs[mem[q[p]].cls] \in Nat /\ SizeAt(mem, q[p]) \in Nat
                      /\ mem'[q2[p]].tag = mem[q[p]].tag /\ mem'[q2[p]].cls = mem[q[p]].cls
                      /\ mem'[q2[p]].mon = mem[q[p]].mon /\ SizeAt(mem', q2[p]) = SizeAt(mem, q[p])
  <2>1. \A p \in objs : NRefs[mem[q[p]].cls] \in Nat /\ SizeAt(mem, q[p]) \in Nat
    BY <1>4, SizesAre
  <2> QED  BY <1>2, <2>1 DEF Slid, Same, SizeAt
<1>6. OnlyReachable(mem', roots, pending, q2, ObjectsAt(mem', q2, objs))
  <2>1. ObjectsAt(mem', q2, objs) = ObjectsAt(mem, q, objs)
    BY <1>5 DEF ObjectsAt
  <2>2. \A p \in DOMAIN q : mem[q[p]].tag = "obj" =>
          \A k \in 1 .. NRefs[mem[q[p]].cls] : mem'[q2[p] + k].ref = mem[q[p] + k].ref
    BY <1>2, <1>3 DEF Slid, Same
  <2> QED  BY <1>1, <1>3, <1>5, <2>1, <2>2, OnlyReachableSame
<1>7. Owned(mem', q2, {}, objs)
  BY <1>1, <1>5 DEF Owned
<1>8. Tiles(mem', q2, moved', write_ptr')
  <2> SUFFICES ASSUME NEW c \in 1 .. write_ptr' - 1
               PROVE  \E p \in DOMAIN moved' : c \in q2[p] .. q2[p] + SizeAt(mem', q2[p]) - 1
    BY DEF Tiles
  <2>1. a \in objs /\ a \notin DOMAIN moved /\ DOMAIN moved' = DOMAIN moved \cup {a}
        /\ write_ptr' = write_ptr + SizeAt(mem, q[a]) /\ \A p \in objs : q2[p] = IF p = a THEN write_ptr ELSE q[p]
    BY <1>2 DEF Slid
  <2>2. CASE c < write_ptr
    <3>1. c \in 1 .. write_ptr - 1
      BY <1>4, <2>2
    <3>2. PICK p \in DOMAIN moved : c \in q[p] .. q[p] + SizeAt(mem, q[p]) - 1
      BY <1>1, <3>1 DEF Tiles
    <3>3. q2[p] = q[p] /\ SizeAt(mem', q2[p]) = SizeAt(mem, q[p]) /\ p \in DOMAIN moved'
      BY <1>4, <1>5, <2>1
    <3> QED  BY <3>2, <3>3
  <2>3. CASE c >= write_ptr
    <3>1. q2[a] = write_ptr /\ SizeAt(mem', q2[a]) = SizeAt(mem, q[a]) /\ SizeAt(mem, q[a]) \in Nat /\ a \in DOMAIN moved'
      BY <1>5, <2>1
    <3>2. c \in q2[a] .. q2[a] + SizeAt(mem', q2[a]) - 1
      BY <1>4, <2>1, <2>3, <3>1
    <3> QED  BY <3>1, <3>2
  <2> QED  BY <1>4, <2>1, <2>2, <2>3
<1> QED  BY <1>1, <1>2, <1>6, <1>7, <1>8 DEF GInv, q2, NoFloatingGarbage, Slid

(* A reference is in a set if, relocated, it is in the set of new addresses. *)
LEMMA MovedBefore ==
  ASSUME NEW m \in [Addrs -> Cell], NEW u, NEW q, NEW ob \in SUBSET Addrs, NEW mv, NEW wp, Layout(m, u, q, ob, mv, wp),
         NEW S \in SUBSET ob, NEW p \in ob, q[p] \in Moved(q, S) \cup {Null}
  PROVE  p \in S
<1>1. q[p] \in Addrs /\ Null \notin Addrs
  BY CapIs DEF Layout, Null
<1>2. PICK r \in ob : r \in S /\ q[p] = q[r]
  BY <1>1 DEF Moved
<1>3. \A x, y \in ob : q[x] = q[y] => x = y
  BY PlacesDiffer
<1> QED  BY <1>2, <1>3

(* The relocation of the roots. *)
LEMMA RelocateRootsFinds ==
  ASSUME RootsFit, IInv, GInv, RelocateRoots  PROVE GInv'
<1> DEFINE q == Place(objs, moved)
<1>1. /\ TypeOK /\ phase' = "fields" /\ fixed' = {} /\ objs \subseteq DOMAIN moved
      /\ Layout(mem, heap_used, q, objs, moved, write_ptr) /\ Contents(mem, roots, pending, q, objs)
      /\ OnlyReachable(mem, roots, pending, q, ObjectsAt(mem, q, objs))
      /\ Owned(mem, q, {}, objs) /\ Tiles(mem, q, moved, write_ptr)
      /\ UNCHANGED <<mem, objs, moved, write_ptr>>
  BY DEF IInv, GInv, RelocateRoots, NotMoved, CopySound
<1>2. mem \in [Addrs -> Cell] /\ objs \in SUBSET Addrs /\ roots \in [Locations -> 0 .. Cap]
  BY <1>1 DEF TypeOK
<1>3. DOMAIN q = objs /\ \A x : relocate_object(x) = IF x \in objs THEN q[x] ELSE x
  BY <1>1 DEF Place, relocate_object
<1>4. /\ \A r \in Locations : roots'[r] = relocate_object(roots[r])
      /\ pending' = relocate_object(pending)
  BY <1>2 DEF RelocateRoots, RootLocations, Locations, Variables
<1> HIDE DEF q
<1>5. ASSUME NEW S \in SUBSET DOMAIN q, NEW x, x = Null \/ OldObj(mem, q, objs, x), relocate_object(x) \in Moved(q, S) \cup {Null}
      PROVE  x \in S \cup {Null}
  <2>1. CASE x = Null
    BY <2>1
  <2>2. CASE OldObj(mem, q, objs, x)
    <3>1. x \in objs /\ q[x] \in Moved(q, S) \cup {Null}
      BY <1>3, <1>5, <2>2 DEF OldObj
    <3>2. x \in S
      <4>1. S \in SUBSET objs
        BY <1>3
      <4> QED  BY <1>1, <1>2, <3>1, <4>1, MovedBefore
    <3> QED  BY <3>2
  <2> QED  BY <1>5, <2>1, <2>2
<1>6. OnlyReachableNow(mem, roots', pending', q, {}, ObjectsAt(mem, q, objs))
  <2> SUFFICES ASSUME NEW S \in SUBSET DOMAIN q, KeepsRoots(roots', pending', Moved(q, S)), KeepsSlots(mem, q, {}, S)
               PROVE  ObjectsAt(mem, q, objs) \subseteq S
    BY DEF OnlyReachableNow
  <2>1. \A r \in Locations : roots[r] \in S \cup {Null}
    BY <1>1, <1>4, <1>5 DEF KeepsRoots, Contents
  <2>2. pending \in S \cup {Null}
    BY <1>1, <1>4, <1>5 DEF KeepsRoots, Contents
  <2> QED  BY <1>1, <2>1, <2>2 DEF OnlyReachable, KeepsRoots
<1> QED  BY <1>1, <1>6 DEF GInv, q, NoFloatingGarbage

(* The relocation of an object's fields.  The list of pending references is  *)
(* held by the Reference that was put at its head.                           *)
LEMMA RelocateFieldsFinds ==
  ASSUME IInv, GInv, RelocateFields  PROVE GInv'
<1> DEFINE q == Place(objs, moved)
           a == Min(NotFixed)
           b == q[a]
           fx == fixed \cup {a}
<1>1. /\ TypeOK /\ phase = "fields" /\ phase' = "fields"
      /\ FieldsSound(mem, heap_used, roots, pending, q, objs, moved, fixed, write_ptr)
      /\ OnlyReachableNow(mem, roots, pending, q, fixed, ObjectsAt(mem, q, objs))
      /\ Owned(mem, q, fixed, objs) /\ Tiles(mem, q, moved, write_ptr)
  BY DEF IInv, GInv, RelocateFields
<1>2. Relocated(a, q)
  BY RelocateFieldsKeeps
<1>3. DOMAIN q = objs /\ \A x : relocate_object(x) = IF x \in objs THEN q[x] ELSE x
  BY <1>1 DEF Place, relocate_object, FieldsSound
<1> HIDE DEF q, a, b, fx
<1>4. /\ mem \in [Addrs -> Cell] /\ objs \in SUBSET Addrs
      /\ Layout(mem, heap_used, q, objs, moved, write_ptr) /\ Headers(mem, q, objs)
      /\ DOMAIN moved = objs /\ \A p \in objs : q[p] \in Addrs /\ q[p] # Null
  BY <1>1, CapIs DEF TypeOK, FieldsSound, Layout, Null
<1>5. /\ a \in objs /\ a \notin fixed /\ fixed' = fx
      /\ \A p \in objs : /\ NRefs[mem[q[p]].cls] \in Nat /\ SizeAt(mem', q[p]) = SizeAt(mem, q[p])
                         /\ mem'[q[p]].tag = mem[q[p]].tag /\ mem'[q[p]].cls = mem[q[p]].cls
                         /\ p # a => (p \in fx <=> p \in fixed) /\ mem'[q[p]].mon = mem[q[p]].mon
      /\ a \in fx
      /\ UNCHANGED <<heap_used, roots, objs, moved, write_ptr>>
  <2>1. \A p \in objs : NRefs[mem[q[p]].cls] \in Nat
    BY <1>4, SizesAre
  <2> QED  BY <1>2, <2>1 DEF Relocated, SizeAt, fx
<1>6. mem[b].tag = "obj" => BeforeFixing(mem, q, objs, a)
  BY <1>1, <1>5 DEF FieldsSound, b
<1>7. \A S \in SUBSET objs, p \in objs : q[p] \in Moved(q, S) \cup {Null} => p \in S
  BY <1>4, MovedBefore
<1>8. ASSUME NEW S \in SUBSET objs, KeepsRoots(roots, pending', Moved(q, S)), KeepsSlots(mem', q, fx, S)
      PROVE  KeepsRoots(roots, pending, Moved(q, S)) /\ KeepsSlots(mem, q, fixed, S)
  <2>1. \A p \in objs : FirstStrong(mem', q[p]) = FirstStrong(mem, q[p]) /\ FirstStrong(mem, q[p]) \in {1, 2}
    BY <1>5 DEF FirstStrong
  <2>2. ASSUME a \in S, mem[b].tag = "obj", NEW k \in FirstStrong(mem, b) .. NRefs[mem[b].cls]
        PROVE  mem'[b + k].ref \in Moved(q, S) \cup {Null}
    BY <1>5, <1>8, <2>1, <2>2 DEF KeepsSlots, b
  <2>3. pending \in Moved(q, S) \cup {Null}
    <3>1. CASE mem[b].tag = "obj" /\ BecomesPending(b)
      <4>1. pending' = b
        BY <1>2, <3>1 DEF Relocated, b
      <4>2. a \in S
        BY <1>5, <1>7, <1>8, <4>1 DEF KeepsRoots, b
      <4>3. 2 \in FirstStrong(mem, b) .. NRefs[mem[b].cls] /\ 2 \in 1 .. NRefs[mem[b].cls]
        BY <3>1, ReferenceIs, NRefsIs DEF BecomesPending, FirstStrong
      <4>4. mem'[b + 2].ref = pending
        BY <1>2, <3>1, <4>3 DEF Relocated, b
      <4> QED  BY <2>2, <3>1, <4>2, <4>3, <4>4
    <3>2. CASE ~(mem[b].tag = "obj" /\ BecomesPending(b))
      <4>1. pending' = pending
        BY <1>2, <1>4, <1>5, <3>2 DEF Relocated, Headers, b
      <4> QED  BY <1>8, <4>1 DEF KeepsRoots
    <3> QED  BY <3>1, <3>2
  <2>4. KeepsSlots(mem, q, fixed, S)
    <3> SUFFICES ASSUME NEW p \in S, mem[q[p]].tag = "obj", NEW k \in FirstStrong(mem, q[p]) .. NRefs[mem[q[p]].cls]
                 PROVE  mem[q[p] + k].ref \in (IF p \in fixed THEN Moved(q, S) ELSE S) \cup {Null}
      BY DEF KeepsSlots
    <3>1. p \in objs /\ k \in 1 .. NRefs[mem[q[p]].cls]
      BY <1>5, <2>1
    <3>2. CASE p # a
      <4>1. mem'[q[p] + k].ref = mem[q[p] + k].ref
        BY <1>2, <3>1, <3>2 DEF Relocated
      <4>2. mem'[q[p] + k].ref \in (IF p \in fx THEN Moved(q, S) ELSE S) \cup {Null}
        BY <1>5, <1>8, <2>1, <3>1 DEF KeepsSlots
      <4> QED  BY <1>5, <3>1, <3>2, <4>1, <4>2
    <3>3. CASE p = a
      <4>1. mem[b].tag = "obj" /\ k \in FirstStrong(mem, b) .. NRefs[mem[b].cls] /\ k \in 1 .. NRefs[mem[b].cls]
            /\ BeforeFixing(mem, q, objs, a) /\ ~(mem[b].cls = Reference /\ k = 1)
        BY <1>6, <3>1, <3>3 DEF b, FirstStrong
      <4>2. mem[b + k].ref = Null \/ OldObj(mem, q, objs, mem[b + k].ref)
        BY <4>1 DEF BeforeFixing, b
      <4>3. CASE k = 2 /\ BecomesPending(b)
        BY <1>5, <3>3, <4>3 DEF BecomesPending, b
      <4>4. CASE ~(k = 2 /\ BecomesPending(b))
        <5>1. mem'[b + k].ref = relocate_object(mem[b + k].ref)
          BY <1>2, <4>1, <4>4 DEF Relocated, b
        <5>2. CASE mem[b + k].ref \in objs
          <6>1. q[mem[b + k].ref] \in Moved(q, S) \cup {Null}
            BY <1>3, <2>2, <3>3, <4>1, <5>1, <5>2
          <6> QED  BY <1>5, <1>7, <3>3, <5>2, <6>1 DEF b
        <5>3. CASE mem[b + k].ref \notin objs
          BY <1>5, <3>3, <4>2, <5>3 DEF OldObj, b
        <5> QED  BY <5>2, <5>3
      <4> QED  BY <4>3, <4>4
    <3> QED  BY <3>2, <3>3
  <2> QED  BY <1>8, <2>3, <2>4 DEF KeepsRoots
<1>9. OnlyReachableNow(mem', roots, pending', q, fx, ObjectsAt(mem', q, objs))
  <2>1. ObjectsAt(mem', q, objs) = ObjectsAt(mem, q, objs)
    BY <1>5 DEF ObjectsAt
  <2> QED  BY <1>1, <1>3, <1>8, <2>1 DEF OnlyReachableNow
<1>10. Owned(mem', q, fx, objs)
  <2> SUFFICES ASSUME NEW r \in objs, mem'[q[r]].tag = "mon"
               PROVE  \E p \in objs : mem'[q[p]].tag = "obj" /\ mem'[q[p]].mon = IF p \in fx THEN q[r] ELSE r
    BY DEF Owned
  <2>1. PICK p \in objs : mem[q[p]].tag = "obj" /\ mem[q[p]].mon = IF p \in fixed THEN q[r] ELSE r
    BY <1>1, <1>5 DEF Owned
  <2>2. CASE p # a
    BY <1>5, <2>1, <2>2
  <2>3. CASE p = a
    <3>1. mem'[q[a]].mon = relocate_object(r)
      BY <1>2, <1>5, <2>1, <2>3 DEF Relocated
    <3> QED  BY <1>3, <1>5, <2>1, <2>3, <3>1
  <2> QED  BY <2>2, <2>3
<1>11. Tiles(mem', q, moved, write_ptr)
  BY <1>1, <1>4, <1>5 DEF Tiles
<1> QED  BY <1>1, <1>5, <1>9, <1>10, <1>11 DEF GInv, q, NoFloatingGarbage

(* IsClosed, of a heap that is given. *)
ClosedIn(m, u, ro, pe, S) ==
  /\ \A r \in Locations : ro[r] \in S \cup {Null}
  /\ pe \in S \cup {Null}
  /\ \A a \in S : IsObj(m, u, a) => \A k \in FirstStrong(m, a) .. NRefs[m[a].cls] : m[a + k].ref \in S \cup {Null}

(* A closed set has every object the collector has kept: its old addresses    *)
(* keep what the roots and the strong slots hold.                             *)
LEMMA FinishGCFinds ==
  ASSUME IInv, IInv', GInv, FinishGC  PROVE GInv'
<1> DEFINE q == Place(objs, moved)
           u == heap_used'
           Kept(a) == Cells(a, size_of_object(a))' \cup ({mem'[a].mon} \ {Null})
<1>1. /\ TypeOK /\ FieldsSound(mem, heap_used, roots, pending, q, objs, moved, fixed, write_ptr)
      /\ OnlyReachableNow(mem, roots, pending, q, fixed, ObjectsAt(mem, q, objs))
      /\ Owned(mem, q, fixed, objs) /\ Tiles(mem, q, moved, write_ptr)
      /\ objs \subseteq fixed /\ phase' = "retry" /\ u = write_ptr - 1 /\ UNCHANGED <<roots, pending>>
      /\ mem' = [a \in Addrs |-> IF a < write_ptr THEN mem[a] ELSE Free]
      /\ TypeOK' /\ Sound(mem', u, roots, pending)
  BY DEF IInv, GInv, FinishGC, NotFixed, CellsInUse
<1>2. /\ mem \in [Addrs -> Cell] /\ write_ptr \in 1 .. Cap + 1 /\ Cap \in Nat /\ Addrs = 1 .. Cap /\ u \in Nat
      /\ mem' \in [Addrs -> Cell] /\ u <= Cap /\ roots \in [Locations -> 0 .. Cap] /\ Null = 0
  BY <1>1, CapIs DEF TypeOK, Null
<1>3. DOMAIN q = objs /\ DOMAIN moved = objs
  BY <1>1 DEF Place, FieldsSound
<1> HIDE DEF q, u
<1>4. \A c \in 1 .. u : c \in Addrs /\ mem'[c] = mem[c] /\ NRefs[mem[c].cls] \in Nat
  <2>1. \A c \in 1 .. u : c \in Addrs /\ mem'[c] = mem[c]
    BY <1>1, <1>2
  <2> QED  BY <1>2, <2>1, SizesAre
<1>5. \A p \in objs : /\ q[p] \in 1 .. u /\ q[p] + SizeAt(mem, q[p]) <= u + 1
                      /\ mem[q[p]].tag \in {"obj", "mon"}
                      /\ mem[q[p]].tag = "obj" => AfterFixing(mem, q, objs, p)
                      /\ mem[q[p]].tag = "mon" => SizeAt(mem, q[p]) = 1
                      /\ mem[q[p]].tag = "obj" => SizeAt(mem, q[p]) = 1 + NRefs[mem[q[p]].cls]
  <2>1. \A p \in objs : q[p] \in Addrs /\ q[p] + SizeAt(mem, q[p]) <= write_ptr
    BY <1>1, <1>3 DEF FieldsSound, Layout
  <2>2. \A p \in objs : /\ SizeAt(mem, q[p]) \in Nat /\ SizeAt(mem, q[p]) >= 1
                        /\ mem[q[p]].tag = "mon" => SizeAt(mem, q[p]) = 1
                        /\ mem[q[p]].tag = "obj" => SizeAt(mem, q[p]) = 1 + NRefs[mem[q[p]].cls]
    BY <1>2, <2>1, SizesAre
  <2>3. \A p \in objs : q[p] \in 1 .. u /\ q[p] + SizeAt(mem, q[p]) <= u + 1
    BY <1>1, <1>2, <2>1, <2>2
  <2> QED  BY <1>1, <2>2, <2>3 DEF FieldsSound, Headers
<1>6. \A a : IsObject(a)' <=> IsObj(mem', u, a)
  BY DEF IsObject, IsObj, u
<1>7. \A a \in 1 .. u : mem[a].tag = "obj" => Kept(a) = (a .. a + NRefs[mem[a].cls]) \cup ({mem[a].mon} \ {Null})
  <2> SUFFICES ASSUME NEW a \in 1 .. u, mem[a].tag = "obj"
               PROVE  Kept(a) = (a .. a + NRefs[mem[a].cls]) \cup ({mem[a].mon} \ {Null})
    OBVIOUS
  <2>1. size_of_object(a)' = 1 + NRefs[mem[a].cls]
    BY <1>4 DEF size_of_object, Size
  <2>2. a + (1 + NRefs[mem[a].cls]) - 1 = a + NRefs[mem[a].cls]
    BY <1>2, <1>4
  <2> QED  BY <1>4, <2>1, <2>2 DEF Cells
<1> HIDE DEF Kept
<1>8. Live' = {a \in Addrs : \A S \in SUBSET Addrs : ClosedIn(mem', u, roots', pending', S) => a \in S}
  <2>1. ASSUME NEW S \in SUBSET Addrs  PROVE IsClosed(S)' <=> ClosedIn(mem', u, roots', pending', S)
    <3>1. (Range(roots') \cup {pending'}) \ {Null} \subseteq S
            <=> (\A r \in Locations : roots'[r] \in S \cup {Null}) /\ pending' \in S \cup {Null}
      BY <1>1, <1>2 DEF Range
    <3>2. ASSUME NEW a
          PROVE  Targets(a, IF mem[a].cls = Reference THEN 2 ELSE 1)' \subseteq S
                   <=> \A k \in FirstStrong(mem', a) .. NRefs[mem'[a].cls] : mem'[a + k].ref \in S \cup {Null}
      BY DEF Targets, FirstStrong
    <3> QED  BY <1>6, <3>1, <3>2 DEF IsClosed, ClosedIn
  <2> QED  BY <2>1 DEF Live
(* A closed set has the new addresses of a set that keeps what is held. *)
<1>9. ASSUME NEW S \in SUBSET Addrs, ClosedIn(mem', u, roots', pending', S), NEW p \in ObjectsAt(mem, q, objs)
       PROVE  q[p] \in S
  <2> DEFINE T == {r \in objs : q[r] \in S}
  <2>1. \A x : NewRef(mem, q, objs, x) /\ x \in S \cup {Null} => x \in Moved(q, T) \cup {Null}
    BY DEF NewRef, NewObj, Moved
  <2> HIDE DEF T
  <2>2. KeepsRoots(roots, pending, Moved(q, T))
    <3>1. (\A r \in Locations : NewRef(mem, q, objs, roots[r])) /\ NewRef(mem, q, objs, pending)
      BY <1>1 DEF FieldsSound, NewListed, NewRef
    <3> QED  BY <1>1, <1>9, <2>1, <3>1 DEF KeepsRoots, ClosedIn
  <2>3. KeepsSlots(mem, q, fixed, T)
    <3> SUFFICES ASSUME NEW r \in T, mem[q[r]].tag = "obj", NEW k \in FirstStrong(mem, q[r]) .. NRefs[mem[q[r]].cls]
                 PROVE  mem[q[r] + k].ref \in (IF r \in fixed THEN Moved(q, T) ELSE T) \cup {Null}
      BY DEF KeepsSlots
    <3>1. r \in objs /\ r \in fixed /\ q[r] \in S /\ q[r] \in 1 .. u
      BY <1>1, <1>5 DEF T
    <3>2. k \in 1 .. NRefs[mem[q[r]].cls]
      BY <1>4, <3>1 DEF FirstStrong
    <3>3. NewRef(mem, q, objs, mem[q[r] + k].ref)
      BY <1>5, <3>1, <3>2 DEF AfterFixing
    <3>4. q[r] + k \in 1 .. u
      <4>1. q[r] + (1 + NRefs[mem[q[r]].cls]) <= u + 1 /\ NRefs[mem[q[r]].cls] \in Nat
        BY <1>4, <1>5, <3>1
      <4> QED  BY <1>2, <3>1, <3>2, <4>1
    <3>5. mem'[q[r] + k].ref \in S \cup {Null}
      BY <1>4, <1>9, <3>1 DEF ClosedIn, IsObj, FirstStrong
    <3> QED  BY <1>4, <2>1, <3>1, <3>3, <3>4, <3>5
  <2>4. ObjectsAt(mem, q, objs) \subseteq T
    <3>1. T \in SUBSET DOMAIN q
      BY <1>3 DEF T
    <3> QED  BY <1>1, <2>2, <2>3, <3>1 DEF OnlyReachableNow
  <2> QED  BY <2>4 DEF T
<1>10. \A p \in objs : mem[q[p]].tag = "obj" => q[p] \in Live'
  <2> SUFFICES ASSUME NEW p \in objs, mem[q[p]].tag = "obj"  PROVE q[p] \in Live'
    OBVIOUS
  <2>1. p \in ObjectsAt(mem, q, objs) /\ q[p] \in Addrs
    BY <1>4, <1>5 DEF ObjectsAt
  <2> QED  BY <1>8, <1>9, <2>1
(* The objects of the heap are a closed set. *)
<1>11. \A a \in Live' : IsObj(mem', u, a) /\ ObjectSound(mem', u, a)
  <2> DEFINE S == {a \in Addrs : IsObj(mem', u, a)}
  <2>1. \A x : IsRef(mem', u, x) /\ x # Null => x \in S
    BY <1>4 DEF IsRef, IsObj
  <2>2. \A a \in S : ObjectSound(mem', u, a)
    BY <1>1 DEF Sound, HeapSound, IsObj
  <2> HIDE DEF S
  <2>3. (\A r \in Locations : roots'[r] \in S \cup {Null}) /\ pending' \in S \cup {Null}
    <3>1. (\A r \in Locations : IsRef(mem', u, roots[r])) /\ IsRef(mem', u, pending)
      BY <1>1 DEF Sound, RootsSound, IsListed, IsRef
    <3> QED  BY <1>1, <2>1, <3>1
  <2>4. ASSUME NEW a \in S, NEW k \in FirstStrong(mem', a) .. NRefs[mem'[a].cls]
        PROVE  mem'[a + k].ref \in S \cup {Null}
    <3>1. NRefs[mem'[a].cls] \in Nat
      BY <1>4 DEF IsObj, S
    <3>2. k \in 1 .. NRefs[mem'[a].cls]
      BY <3>1 DEF FirstStrong
    <3>3. IsRef(mem', u, mem'[a + k].ref)
      BY <2>2, <3>2 DEF ObjectSound
    <3> QED  BY <2>1, <3>3
  <2>5. ClosedIn(mem', u, roots', pending', S) /\ S \in SUBSET Addrs
    BY <2>3, <2>4 DEF ClosedIn, S
  <2>6. Live' \subseteq S
    BY <1>8, <2>5
  <2> QED  BY <2>2, <2>6 DEF S
<1>12. 1 .. u \subseteq UNION {Kept(a) : a \in Live'}
  <2> SUFFICES ASSUME NEW c \in 1 .. u  PROVE \E a \in Live' : c \in Kept(a)
    OBVIOUS
  <2>1. PICK p \in objs : c \in q[p] .. q[p] + SizeAt(mem, q[p]) - 1
    BY <1>1, <1>2, <1>3 DEF Tiles
  <2>2. CASE mem[q[p]].tag = "obj"
    <3>1. SizeAt(mem, q[p]) = 1 + NRefs[mem[q[p]].cls] /\ NRefs[mem[q[p]].cls] \in Nat /\ q[p] \in 1 .. u
      BY <1>4, <1>5, <2>2
    <3>2. c \in q[p] .. q[p] + NRefs[mem[q[p]].cls]
      BY <1>2, <2>1, <3>1
    <3> QED  BY <1>7, <1>10, <2>2, <3>1, <3>2
  <2>3. CASE mem[q[p]].tag = "mon"
    <3>1. c = q[p] /\ c # Null
      BY <1>2, <1>5, <2>1, <2>3
    <3>2. PICK r \in objs : mem[q[r]].tag = "obj" /\ mem[q[r]].mon = q[p]
      BY <1>1, <2>3 DEF Owned
    <3> QED  BY <1>5, <1>7, <1>10, <3>1, <3>2
  <2> QED  BY <1>5, <2>2, <2>3
<1>13. ASSUME NEW a \in Live', NEW c \in Kept(a)  PROVE c \in 1 .. u
  <2>1. a \in 1 .. u /\ mem[a].tag = "obj" /\ mem'[a] = mem[a] /\ NRefs[mem[a].cls] \in Nat
        /\ a + NRefs[mem[a].cls] <= u /\ (mem[a].mon # Null => mem[a].mon \in a + 1 .. u)
    BY <1>4, <1>11 DEF IsObj, ObjectSound
  <2> QED  BY <1>2, <1>7, <1>13, <2>1
<1>14. 1 .. u = UNION {Kept(a) : a \in Live'}
  BY <1>12, <1>13
<1>15. NoFloatingGarbage'
  BY <1>14 DEF NoFloatingGarbage, Kept, u
<1> QED  BY <1>1, <1>15 DEF GInv

(* The steps of the program and the second try end no collection. *)
LEMMA StepGInv ==
  ASSUME RootsFit, IInv, IInv', GInv, [Next]_vars  PROVE GInv'
<1>1. CASE Mutator \/ Retry
  <2>1. phase' \in {"run", "start"}
    BY <1>1 DEF Mutator, New, Inflate, get_object_hash_code, Assign, Drop, getfield, putfield, Unchanged,
       getAndClearReferencePendingList, processPendingReferences, bump_allocate, Retry
  <2> QED  BY <2>1 DEF GInv, NoFloatingGarbage
<1>2. CASE major_gc
  BY <1>2, MarkRootsFinds, MarkFinds, StartCopyFinds, CopyFinds, RelocateRootsFinds, RelocateFieldsFinds, FinishGCFinds
     DEF major_gc
<1>3. CASE UNCHANGED vars
  <2>1. NoFloatingGarbage'
    <3>1. Live' = Live
      BY <1>3 DEF vars, Live, IsClosed, IsObject, Targets
    <3>2. \A a : Cells(a, size_of_object(a))' = Cells(a, size_of_object(a))
      BY <1>3 DEF vars, Cells, size_of_object
    <3> QED  BY <1>3, <3>1, <3>2 DEF vars, GInv, NoFloatingGarbage
  <2> QED  BY <1>3, <2>1 DEF vars, GInv
<1> QED  BY <1>1, <1>2, <1>3 DEF Next

(* NoFloatingGarbage, for every heap and program: when major_gc (vm/gc.c)     *)
(* returns, every cell in use is one of an object the program can reach       *)
(* through strong references, or the monitor of one, so that the second try   *)
(* of bump_allocate (vm/bjvm.c) fails only for lack of room.                  *)
THEOREM NothingFloats ==
  ASSUME RootsFit  PROVE Spec => []NoFloatingGarbage
<1>1. Init => IInv /\ GInv
  BY InitIInv DEF Init, GInv, NoFloatingGarbage
<1>2. IInv /\ GInv /\ [Next]_vars => (IInv /\ GInv)'
  BY StepIInv, StepGInv
<1>3. GInv => NoFloatingGarbage
  BY DEF GInv
<1> QED  BY <1>1, <1>2, <1>3, PTL DEF Spec
=============================================================================
