---------------------------- MODULE LoadingProofs ----------------------------
(***************************************************************************)
(* Proofs about class loading, for every tree of loaders, every class path *)
(* and program (a world), and every number of threads.                     *)
(***************************************************************************)
EXTENDS Loading, SequenceTheorems, FiniteSetTheorems, WellFoundedInduction, TLAPS

ClassSet == Loaders \X Names
Frames ==
  [op : {"lookup", "load", "define", "resolve"}, cl : Loaders, name : Names,
   at : {"enter", "called", "supers", "lock", "find", "parent", "define"},
   sync : BOOLEAN, dims : Nat, raise : BOOLEAN, kept : BOOLEAN, k : Nat]
Exceptions == {"none", "ClassNotFoundException", "ClassCircularityError", "StackOverflowError", "OutOfMemoryError",
               "LinkageError", "ClassFormatError", "IncompatibleClassChangeError"}
Answers == [class : ClassSet \cup {NoClass}, dims : Nat, pending : BOOLEAN]

TypeOK ==
  /\ world \in Worlds
  /\ loaded \subseteq ClassSet
  /\ initiating \in [Loaders -> [Names -> ClassSet \cup {NoClass}]]
  /\ stack \in [Threads -> Seq(Frames)]
  /\ answer \in [Threads -> Answers]
  /\ exc \in [Threads -> Exceptions]
  /\ running \in Threads
  /\ info \in [References -> [class : ClassSet \cup {NoClass}, error : Exceptions]]

-----------------------------------------------------------------------------
(* The parts of the invariant take the world and the tables as arguments:  *)
(* w, lo and init are world, loaded and initiating.                        *)

(* What the loaders have recorded is what the class files say. *)
TablesSound(w, lo, init) ==
  /\ \A c \in lo : init[c[1]][c[2]] = c /\ c \in Loadable(w)
  /\ \A l \in Loaders, n \in Names : init[l][n] # NoClass =>
       /\ init[l][n] = Definer(w, l, n) /\ init[l][n] \in lo
       /\ \A i \in DOMAIN Ancestors(l) :
            (\A m \in 1 .. i : Ancestors(l)[m] # init[l][n][1]) => init[Ancestors(l)[i]][n] = init[l][n]
  /\ \A c \in lo : \A s \in SupersOf(w, c) : s \in lo /\ init[c[1]][s[2]] = s /\ ~Leads(w, s, c)

ClassOf(f) == <<f.cl, f.name>>
FileOf(w, f) == w.files[ClassOf(f)]
SuperOf(w, f, j) == Definer(w, f.cl, FileOf(w, f).supers[j])

(* The class an activation will return, if any. *)
Wanted(w, f) == Definer(w, f.cl, f.name)

SuperFound(w, lo, init, f, j) ==
  LET s == SuperOf(w, f, j)
  IN  s \in lo /\ init[f.cl][s[2]] = s /\ f.name \in w.files[s].permits

FrameSound(w, lo, init, f) ==
  /\ f.op = "lookup" => f.at \in {"enter", "called"}
  /\ f.op = "resolve" => f.at = "called" /\ f.raise
  /\ f.op = "load" => f.at \in {"lock", "find", "parent", "define"} /\ f.cl # Boot /\ f.dims = 0 /\ f.raise
  /\ f.op = "load" /\ f.at = "define" => Wanted(w, f) = ClassOf(f)
  /\ f.op = "define" =>
       /\ f.at \in {"enter", "supers", "called"} /\ f.dims = 0 /\ f.raise /\ ~f.sync
       /\ HasFile(w, f.cl, f.name) /\ Wanted(w, f) = ClassOf(f)
       /\ f.at # "enter" => FileOf(w, f).parses
       /\ f.k >= 1 /\ f.k <= Len(FileOf(w, f).supers) + 1
       /\ f.at = "called" => f.k <= Len(FileOf(w, f).supers)
       /\ \A j \in 1 .. f.k - 1 : SuperFound(w, lo, init, f, j)

Waiting(f) == f.at \in {"called", "parent", "define"}

(* What a waiting activation has asked for. *)
Awaited(w, g) ==
  CASE g.op = "define" -> SuperOf(w, g, g.k)
    [] g.op = "load" /\ g.at = "parent" -> Definer(w, Parent[g.cl], g.name)
    [] OTHER -> Wanted(w, g)

(* g has called f. *)
CallSound(w, g, f) ==
  /\ Waiting(g)
  /\ g.kept => f.kept
  /\ g.op = "lookup" => /\ f.name = g.name /\ f.cl = g.cl
                        /\ f.op = "load" \/ (f.op = "define" /\ g.cl = Boot)
  /\ g.op = "define" => /\ f.op = "lookup" /\ f.cl = g.cl /\ f.name = FileOf(w, g).supers[g.k]
                        /\ f.dims = 0 /\ f.raise /\ f.sync
  /\ g.op = "load" => /\ f.name = g.name
                      /\ g.at = "parent" => /\ f.cl = Parent[g.cl]
                                            /\ f.op = "load" \/ (f.op = "lookup" /\ f.cl = Boot /\ f.dims = 0)
                      /\ g.at = "define" => f.cl = g.cl /\ f.op = "define"
  /\ g.op = "resolve" => f.op = "lookup" /\ f.cl = g.cl /\ f.name = g.name /\ f.dims = g.dims /\ f.raise

(* Why a class that was wanted is not found. *)
Machine == {"ClassCircularityError", "StackOverflowError", "OutOfMemoryError"}
NotFound == {"none", "ClassNotFoundException"}
Failure(w, lo, c, e) ==
  \/ e \in Machine
  \/ e \in NotFound /\ (c = NoClass \/ Leads(w, c, NoClass))
  \/ e = "LinkageError" /\ c \in lo
  \/ e \notin Machine \cup NotFound \cup {"LinkageError"} /\ c # NoClass /\ c \notin Loadable(w)

(* The answer a waiting activation g has got. *)
AnswerSound(w, lo, init, g, r, e, synchronous) ==
  IF r.class # NoClass
  THEN /\ r.class = Awaited(w, g) /\ r.class \in lo /\ e = "none"
       /\ g.op # "lookup" /\ g.kept => r.dims = g.dims
       /\ g.op = "define" => init[g.cl][FileOf(w, g).supers[g.k]] = r.class
  ELSE /\ Failure(w, lo, Awaited(w, g), e)
       /\ g.op \in {"define", "resolve"} \/ (g.op = "load" /\ g.at = "define") => e # "none"
       /\ e = "LinkageError" => ~synchronous /\ g.op # "define"

(* Calls go up the tree, and to the parent strictly so. *)
Height(l) == Len(Ancestors(l))
CallsGoUp(s) ==
  \A i, j \in DOMAIN s : i < j =>
    /\ Height(s[i].cl) <= Height(s[j].cl)
    /\ s[j].op = "load" /\ s[j].at = "parent" => Height(s[i].cl) < Height(s[j].cl)

(* Every activation above one of define_class wants a class above its own. *)
Chained(w, s) ==
  \A i, j \in DOMAIN s : i < j /\ s[j].op = "define" /\ Wanted(w, s[i]) # NoClass =>
    Leads(w, ClassOf(s[j]), Wanted(w, s[i]))

(* The activations of a thread. *)
ShapeSound(w, lo, init, s) ==
  /\ \A i \in DOMAIN s : FrameSound(w, lo, init, s[i])
  /\ \A i \in DOMAIN s : i + 1 \in DOMAIN s => CallSound(w, s[i + 1], s[i])
  /\ CallsGoUp(s)
  /\ Chained(w, s)

(* What its answer r and exception e are. *)
Sync(s) == \E m \in DOMAIN s : s[m].sync
TopSound(w, lo, init, s, r, e) ==
  s # <<>> => IF Waiting(s[1]) THEN AnswerSound(w, lo, init, s[1], r, e, Sync(s)) ELSE e = "none"

(* While nobody else may run, nobody defines a class a loader below has    *)
(* not found and is about to define.                                       *)
Defines(f) == \/ f.op = "load" /\ f.at = "parent"
              \/ f.op = "define" /\ f.at = "enter"
StillMissing(lo, s) ==
  \A j, m \in DOMAIN s : j <= m /\ s[m].sync /\ Defines(s[j]) => ClassOf(s[j]) \notin lo

ThreadSound(w, lo, init, s, r, e) == ShapeSound(w, lo, init, s) /\ TopSound(w, lo, init, s, r, e) /\ StillMissing(lo, s)

(* The activation j of a thread accounts for the mark of name n: a lookup  *)
(* by the bootstrap loader, or one that no bootstrap lookup of the same    *)
(* name has followed yet.                                                  *)
Passes(f) == \/ f.op = "load" /\ f.at # "define"
             \/ f.op = "lookup" /\ f.at = "enter" /\ f.cl = Boot
Failed(f, r, e) == f.op = "load" /\ f.at = "parent" /\ r.class = NoClass /\ e \in NotFound
Marks(s, r, e, n, j) ==
  /\ j \in DOMAIN s /\ s[j].op = "lookup" /\ s[j].at = "called" /\ s[j].name = n
  /\ \/ s[j].cl = Boot
     \/ /\ \A i \in 1 .. j - 1 : s[i].name = n /\ Passes(s[i])
        /\ ~Failed(s[1], r, e)

MarksSound ==
  \A n \in inchoate \ abandoned : \E t \in Threads : \E j \in DOMAIN stack[t] : Marks(stack[t], answer[t], exc[t], n, j)

IInv ==
  /\ TypeOK
  /\ TablesSound(world, loaded, initiating)
  /\ \A t \in Threads : ThreadSound(world, loaded, initiating, stack[t], answer[t], exc[t])
  /\ \A t \in Threads \ {running} : ~Synchronous(t)
  /\ MarksSound

-----------------------------------------------------------------------------
(* The constants. *)
LEMMA NoClassIs == NoClass \notin ClassSet /\ \A l, n : <<l, n>> # NoClass
BY DEF NoClass, ClassSet

LEMMA LeastNat ==
  ASSUME NEW S \in SUBSET Nat, S # {}
  PROVE  \E x \in S : \A n \in S : x <= n
<1> DEFINE R == {ss \in Nat \X Nat : ss[1] < ss[2]}
<1>1. IsWellFoundedOn(R, Nat)
  BY NatLessThanWellFounded DEF OpToRel
<1>2. PICK x \in S : \A n \in S : ~(<<n, x>> \in R)
  BY <1>1, WFMin
<1>3. ASSUME NEW n \in S  PROVE x <= n
  <2>1. <<n, x>> \in Nat \X Nat /\ <<n, x>>[1] = n /\ <<n, x>>[2] = x
    OBVIOUS
  <2>2. n < x => <<n, x>> \in R
    BY <2>1
  <2> QED  BY <1>2, <2>2
<1> QED  BY <1>3

(* Parents are nearer to the root. *)
Depths == {d \in [Loaders -> Nat] : \A l \in Loaders \ {Boot} : d[Parent[l]] < d[l]}

LEMMA DepthExists == \E d \in Depths : \E top \in Nat : \A l \in Loaders : d[l] < top
<1>1. PICK d \in [Loaders -> 0 .. Cardinality(Loaders)] : \A l \in DOMAIN Parent : d[Parent[l]] < d[l]
  BY LoadersAssumption
<1>2. Cardinality(Loaders) \in Nat /\ DOMAIN Parent = Loaders \ {Boot}
  BY LoadersAssumption, FS_CardinalityType
<1>3. d \in Depths
  BY <1>1, <1>2 DEF Depths
<1>4. \A l \in Loaders : d[l] < Cardinality(Loaders) + 1
  BY <1>1, <1>2
<1> QED  BY <1>2, <1>3, <1>4

LEMMA ParentIs == \A l \in Loaders \ {Boot} : Parent[l] \in Loaders
BY LoadersAssumption

LEMMA BootIs == Boot \in Loaders
BY LoadersAssumption

(* The chain of ancestors is well defined. *)
LEMMA UpExists ==
  \E f : f = [k \in Loaders |-> IF k = Boot THEN <<Boot>> ELSE <<k>> \o f[Parent[k]]]
<1>1. PICK d \in Depths : \E top \in Nat : \A l \in Loaders : d[l] < top
  BY DepthExists
<1>2. PICK top \in Nat : \A l \in Loaders : d[l] < top
  BY <1>1
<1>3. d \in [Loaders -> Nat] /\ \A l \in Loaders \ {Boot} : d[Parent[l]] < d[l]
  BY <1>1 DEF Depths
<1> DEFINE L(n) == {l \in Loaders : d[l] < n}
           Eq(n, f) == f = [k \in L(n) |-> IF k = Boot THEN <<Boot>> ELSE <<k>> \o f[Parent[k]]]
           bad == {n \in Nat : ~\E f : Eq(n, f)}
<1>4. bad = {}
  <2> SUFFICES ASSUME bad # {}  PROVE FALSE
    OBVIOUS
  <2>1. PICK x \in bad : \A n \in bad : x <= n
    <3>1. bad \in SUBSET Nat
      OBVIOUS
    <3> HIDE DEF bad
    <3> QED  BY <3>1, LeastNat
  <2>2. CASE x = 0
    <3>1. L(0) = {}
      BY <1>3
    <3> DEFINE e == [k \in L(0) |-> <<>>]
    <3>2. Eq(0, e)
      BY <3>1
    <3> HIDE DEF Eq, e
    <3> QED  BY <2>1, <2>2, <3>2
  <2>3. CASE x # 0
    <3>1. x - 1 \in Nat /\ x - 1 \notin bad /\ x \in Nat
      <4>1. x \in Nat
        OBVIOUS
      <4> HIDE DEF bad
      <4> QED  BY <2>1, <2>3, <4>1
    <3>2. PICK f : Eq(x - 1, f)
      BY <3>1
    <3> DEFINE up(k) == IF k = Boot THEN <<Boot>> ELSE <<k>> \o f[Parent[k]]
               g == [k \in L(x) |-> up(k)]
    <3>3. \A k \in L(x) : k # Boot => Parent[k] \in L(x - 1)
      BY <1>3, <3>1, ParentIs
    <3>4. L(x - 1) \subseteq L(x)
      BY <1>3, <3>1
    <3>5. \A k \in L(x - 1) : f[k] = up(k)
      BY <3>2
    <3>6. \A k \in L(x) : k # Boot => g[Parent[k]] = f[Parent[k]]
      BY <3>3, <3>4, <3>5
    <3>7. \A k \in L(x) : up(k) = IF k = Boot THEN <<Boot>> ELSE <<k>> \o g[Parent[k]]
      BY <3>6
    <3> HIDE DEF L, up
    <3>8. Eq(x, g)
      BY <3>7
    <3> HIDE DEF Eq, g
    <3> QED  BY <2>1, <3>8
  <2> QED  BY <2>2, <2>3
<1>5. PICK f : Eq(top, f)
  BY <1>2, <1>4
<1>6. L(top) = Loaders
  BY <1>2
<1> QED  BY <1>5, <1>6

LEMMA AncestorsAre ==
  /\ Ancestors(Boot) = <<Boot>>
  /\ \A l \in Loaders \ {Boot} : Ancestors(l) = <<l>> \o Ancestors(Parent[l])
<1> DEFINE Up(f) == [k \in Loaders |-> IF k = Boot THEN <<Boot>> ELSE <<k>> \o f[Parent[k]]]
           up == CHOOSE f : f = Up(f)
<1>1. up = Up(up)
  BY UpExists
<1>2. \A l : Ancestors(l) = up[l]
  BY DEF Ancestors
<1> HIDE DEF up
<1> QED  BY <1>1, <1>2, BootIs, ParentIs

(* Induction along parents. *)
LEMMA LoaderInduction ==
  ASSUME NEW S \in SUBSET Loaders, Boot \in S, \A l \in Loaders \ {Boot} : Parent[l] \in S => l \in S
  PROVE  S = Loaders
<1> SUFFICES ASSUME Loaders \ S # {}  PROVE FALSE
  OBVIOUS
<1>1. PICK d \in Depths : TRUE
  BY DepthExists
<1>2. d \in [Loaders -> Nat] /\ \A l \in Loaders \ {Boot} : d[Parent[l]] < d[l]
  BY <1>1 DEF Depths
<1> DEFINE bad == {d[l] : l \in Loaders \ S}
<1>3. bad \in SUBSET Nat /\ bad # {}
  BY <1>2
<1>4. PICK x \in bad : \A n \in bad : x <= n
  <2> HIDE DEF bad
  <2> QED  BY <1>3, LeastNat
<1>5. PICK l \in Loaders \ S : x = d[l]
  OBVIOUS
<1>6. l # Boot /\ Parent[l] \in Loaders \ S
  BY <1>5, ParentIs
<1>7. d[Parent[l]] \in bad /\ d[Parent[l]] < d[l] /\ d[l] \in Nat /\ d[Parent[l]] \in Nat
  BY <1>2, <1>6
<1> HIDE DEF bad
<1> QED  BY <1>4, <1>5, <1>7

LEMMA AncestorsType ==
  \A l \in Loaders : Ancestors(l) \in Seq(Loaders) /\ Ancestors(l)[1] = l /\ Len(Ancestors(l)) \in Nat \ {0}
<1> DEFINE S == {l \in Loaders : Ancestors(l) \in Seq(Loaders) /\ Ancestors(l)[1] = l /\ Len(Ancestors(l)) \in Nat \ {0}}
<1>1. Boot \in S
  <2>1. <<Boot>> \in Seq(Loaders) /\ <<Boot>>[1] = Boot /\ Len(<<Boot>>) = 1
    BY BootIs
  <2>2. Ancestors(Boot) \in Seq(Loaders) /\ Ancestors(Boot)[1] = Boot /\ Len(Ancestors(Boot)) = 1
    BY <2>1, AncestorsAre
  <2>3. Len(Ancestors(Boot)) \in Nat \ {0}
    BY <2>2
  <2> QED  BY <2>2, <2>3, BootIs
<1>2. ASSUME NEW l \in Loaders \ {Boot}, Parent[l] \in S  PROVE l \in S
  <2>1. Ancestors(Parent[l]) \in Seq(Loaders) /\ Ancestors(l) = <<l>> \o Ancestors(Parent[l])
    BY <1>2, AncestorsAre
  <2> HIDE DEF S
  <2>2. Ancestors(l) \in Seq(Loaders) /\ Ancestors(l)[1] = l /\ Len(Ancestors(l)) \in Nat \ {0}
    BY <2>1
  <2> QED  BY <2>2 DEF S
<1>3. S = Loaders
  <2> HIDE DEF S
  <2>1. S \in SUBSET Loaders
    BY DEF S
  <2> QED  BY <1>1, <1>2, <2>1, LoaderInduction
<1> QED  BY <1>3

LEMMA AncestorsUp ==
  ASSUME NEW l \in Loaders \ {Boot}
  PROVE  /\ Len(Ancestors(l)) = 1 + Len(Ancestors(Parent[l]))
         /\ \A i \in 1 .. Len(Ancestors(Parent[l])) : Ancestors(l)[i + 1] = Ancestors(Parent[l])[i]
<1>1. Parent[l] \in Loaders
  BY ParentIs
<1>2. Ancestors(Parent[l]) \in Seq(Loaders) /\ Ancestors(l) = <<l>> \o Ancestors(Parent[l])
  BY <1>1, AncestorsType, AncestorsAre
<1> QED  BY <1>2

LEMMA AncestorsBoot == Len(Ancestors(Boot)) = 1 /\ Ancestors(Boot)[1] = Boot
BY AncestorsAre

LEMMA HeightIs ==
  /\ \A l \in Loaders : Height(l) \in Nat \ {0} /\ DOMAIN Ancestors(l) = 1 .. Height(l)
                        /\ \A i \in 1 .. Height(l) : Ancestors(l)[i] \in Loaders
  /\ \A l \in Loaders \ {Boot} : Height(l) = 1 + Height(Parent[l])
<1>1. ASSUME NEW l \in Loaders
      PROVE  Height(l) \in Nat \ {0} /\ DOMAIN Ancestors(l) = 1 .. Height(l)
             /\ \A i \in 1 .. Height(l) : Ancestors(l)[i] \in Loaders
  <2>1. Ancestors(l) \in Seq(Loaders) /\ Len(Ancestors(l)) \in Nat \ {0}
    BY AncestorsType
  <2> QED  BY <2>1 DEF Height
<1> QED  BY <1>1, AncestorsUp DEF Height

(* The ancestors of an ancestor are the rest of the chain. *)
LEMMA AncestorsRest ==
  ASSUME NEW l \in Loaders, NEW i \in 1 .. Height(l)
  PROVE  /\ Height(Ancestors(l)[i]) = Height(l) - i + 1
         /\ \A j \in 1 .. Height(l) - i + 1 : Ancestors(Ancestors(l)[i])[j] = Ancestors(l)[i + j - 1]
<1> DEFINE Rest(k) == \A a \in 1 .. Height(k) :
             /\ Height(Ancestors(k)[a]) = Height(k) - a + 1
             /\ \A j \in 1 .. Height(k) - a + 1 : Ancestors(Ancestors(k)[a])[j] = Ancestors(k)[a + j - 1]
           S == {k \in Loaders : Rest(k)}
<1>1. Rest(Boot)
  <2>1. Height(Boot) = 1 /\ Ancestors(Boot)[1] = Boot /\ \A a \in 1 .. 1 : a = 1
    BY AncestorsBoot DEF Height
  <2>2. 1 - 1 + 1 = 1 /\ 1 + 1 - 1 = 1
    OBVIOUS
  <2> QED  BY <2>1, <2>2
<1>2. ASSUME NEW k \in Loaders \ {Boot}, Rest(Parent[k])  PROVE Rest(k)
  <2>1. Parent[k] \in Loaders /\ Height(k) = 1 + Height(Parent[k]) /\ Height(Parent[k]) \in Nat \ {0}
    BY ParentIs, HeightIs
  <2>2. \A a \in 1 .. Height(Parent[k]) : Ancestors(k)[a + 1] = Ancestors(Parent[k])[a]
    BY AncestorsUp DEF Height
  <2>3. Ancestors(k)[1] = k
    BY AncestorsType
  <2> SUFFICES ASSUME NEW a \in 1 .. Height(k)
               PROVE  /\ Height(Ancestors(k)[a]) = Height(k) - a + 1
                      /\ \A j \in 1 .. Height(k) - a + 1 : Ancestors(Ancestors(k)[a])[j] = Ancestors(k)[a + j - 1]
    OBVIOUS
  <2>4. CASE a = 1
    <3>1. \A j \in Nat : 1 + j - 1 = j
      OBVIOUS
    <3> QED  BY <2>1, <2>3, <2>4, <3>1
  <2>5. CASE a # 1
    <3>1. a - 1 \in 1 .. Height(Parent[k]) /\ (a - 1) + 1 = a
      BY <2>1, <2>5
    <3>2. Ancestors(k)[a] = Ancestors(Parent[k])[a - 1]
      BY <2>2, <3>1
    <3>3. Height(Ancestors(k)[a]) = Height(Parent[k]) - (a - 1) + 1
      BY <1>2, <3>1, <3>2
    <3>4. ASSUME NEW j \in 1 .. Height(k) - a + 1
          PROVE  Ancestors(Ancestors(k)[a])[j] = Ancestors(k)[a + j - 1]
      <4>1. j \in 1 .. Height(Parent[k]) - (a - 1) + 1
        BY <2>1, <3>1
      <4>2. Ancestors(Ancestors(k)[a])[j] = Ancestors(Parent[k])[(a - 1) + j - 1]
        BY <1>2, <3>1, <3>2, <4>1
      <4>3. (a - 1) + j - 1 \in 1 .. Height(Parent[k]) /\ ((a - 1) + j - 1) + 1 = a + j - 1
        BY <2>1, <3>1, <2>5
      <4> QED  BY <2>2, <4>2, <4>3
    <3> QED  BY <2>1, <3>3, <3>4
  <2> QED  BY <2>4, <2>5
<1>3. S = Loaders
  <2> HIDE DEF Rest
  <2>1. Boot \in S /\ S \in SUBSET Loaders
    BY <1>1, BootIs
  <2>2. \A k \in Loaders \ {Boot} : Parent[k] \in S => k \in S
    BY <1>2
  <2> HIDE DEF S
  <2> QED  BY <2>1, <2>2, LoaderInduction
<1> QED  BY <1>3

(* So no loader is there twice. *)
LEMMA AncestorsDistinct ==
  ASSUME NEW l \in Loaders, NEW i \in 1 .. Height(l), NEW j \in 1 .. Height(l), Ancestors(l)[i] = Ancestors(l)[j]
  PROVE  i = j
<1>1. Height(l) \in Nat
  BY HeightIs
<1>2. Height(l) - i + 1 = Height(l) - j + 1
  BY AncestorsRest
<1> QED  BY <1>1, <1>2


-----------------------------------------------------------------------------
(* Which class a loader finds. *)
LEMMA GreatestIs ==
  ASSUME NEW N \in Nat, NEW S \in SUBSET (1 .. N), S # {}
  PROVE  Max(S) \in S /\ \A n \in S : n <= Max(S)
<1> DEFINE T == {N - n : n \in S}
<1>1. T \in SUBSET Nat /\ T # {}
  OBVIOUS
<1>2. PICK x \in T : \A n \in T : x <= n
  <2> HIDE DEF T
  <2> QED  BY <1>1, LeastNat
<1>3. PICK m \in S : x = N - m
  OBVIOUS
<1>4. ASSUME NEW n \in S  PROVE m >= n
  <2>1. N - n \in T
    OBVIOUS
  <2>2. N - m <= N - n
    BY <1>2, <1>3, <2>1
  <2> QED  BY <2>2
<1> HIDE DEF T
<1>5. Max(S) \in S /\ \A n \in S : Max(S) >= n
  BY <1>3, <1>4 DEF Max
<1> QED  BY <1>5

(* The place of the file that counts. *)
LEMMA DefinerAt ==
  ASSUME NEW w, NEW l \in Loaders, NEW n
  PROVE  \/ /\ Definer(w, l, n) = NoClass
            /\ \A i \in 1 .. Height(l) : ~HasFile(w, Ancestors(l)[i], n)
         \/ \E m \in 1 .. Height(l) : /\ Definer(w, l, n) = <<Ancestors(l)[m], n>>
                                      /\ HasFile(w, Ancestors(l)[m], n)
                                      /\ \A i \in m + 1 .. Height(l) : ~HasFile(w, Ancestors(l)[i], n)
<1> DEFINE having == {i \in DOMAIN Ancestors(l) : HasFile(w, Ancestors(l)[i], n)}
<1>1. Height(l) \in Nat /\ DOMAIN Ancestors(l) = 1 .. Height(l)
  BY HeightIs
<1>2. Definer(w, l, n) = IF having = {} THEN NoClass ELSE <<Ancestors(l)[Max(having)], n>>
  BY DEF Definer
<1>3. CASE having = {}
  BY <1>1, <1>2, <1>3
<1>4. CASE having # {}
  <2>1. having \in SUBSET (1 .. Height(l))
    BY <1>1
  <2>2. Max(having) \in having /\ \A i \in having : i <= Max(having)
    <3> HIDE DEF having
    <3> QED  BY <1>1, <1>4, <2>1, GreatestIs
  <2> DEFINE m == Max(having)
  <2>3. m \in 1 .. Height(l) /\ HasFile(w, Ancestors(l)[m], n) /\ Definer(w, l, n) = <<Ancestors(l)[m], n>>
    BY <1>1, <1>2, <1>4, <2>2
  <2>4. ASSUME NEW i \in m + 1 .. Height(l)  PROVE ~HasFile(w, Ancestors(l)[i], n)
    <3>1. i \in 1 .. Height(l) /\ ~(i <= m)
      BY <1>1, <2>3
    <3> QED  BY <1>1, <2>2, <3>1
  <2> HIDE DEF m
  <2> QED  BY <2>3, <2>4
<1> QED  BY <1>3, <1>4

LEMMA DefinerIs ==
  ASSUME NEW w, NEW l \in Loaders, NEW n, NEW m \in 1 .. Height(l), HasFile(w, Ancestors(l)[m], n),
         \A i \in m + 1 .. Height(l) : ~HasFile(w, Ancestors(l)[i], n)
  PROVE  Definer(w, l, n) = <<Ancestors(l)[m], n>>
<1>1. Height(l) \in Nat
  BY HeightIs
<1>2. PICK p \in 1 .. Height(l) : /\ Definer(w, l, n) = <<Ancestors(l)[p], n>>
                                  /\ HasFile(w, Ancestors(l)[p], n)
                                  /\ \A i \in p + 1 .. Height(l) : ~HasFile(w, Ancestors(l)[i], n)
  BY DefinerAt
<1>3. ~(p < m)
  <2> SUFFICES ASSUME p < m  PROVE FALSE
    OBVIOUS
  <2>1. m \in p + 1 .. Height(l)
    BY <1>1
  <2> QED  BY <1>2, <2>1
<1>4. ~(m < p)
  <2> SUFFICES ASSUME m < p  PROVE FALSE
    OBVIOUS
  <2>1. p \in m + 1 .. Height(l)
    BY <1>1
  <2> QED  BY <1>2, <2>1
<1>5. p = m
  BY <1>1, <1>3, <1>4
<1> QED  BY <1>2, <1>5

LEMMA DefinerBoot ==
  ASSUME NEW w, NEW n
  PROVE  Definer(w, Boot, n) = IF HasFile(w, Boot, n) THEN <<Boot, n>> ELSE NoClass
<1>1. Height(Boot) = 1 /\ Ancestors(Boot)[1] = Boot /\ Boot \in Loaders
  BY AncestorsBoot, BootIs DEF Height
<1>2. \A m \in 1 .. 1 : m = 1
  OBVIOUS
<1>3. CASE Definer(w, Boot, n) = NoClass /\ \A i \in 1 .. Height(Boot) : ~HasFile(w, Ancestors(Boot)[i], n)
  <2>1. 1 \in 1 .. Height(Boot)
    BY <1>1
  <2> QED  BY <1>1, <1>3, <2>1
<1>4. ASSUME NEW m \in 1 .. Height(Boot), Definer(w, Boot, n) = <<Ancestors(Boot)[m], n>>, HasFile(w, Ancestors(Boot)[m], n)
      PROVE  Definer(w, Boot, n) = IF HasFile(w, Boot, n) THEN <<Boot, n>> ELSE NoClass
  BY <1>1, <1>2, <1>4
<1> QED  BY <1>1, <1>3, <1>4, DefinerAt

(* Parent first. *)
LEMMA DefinerUp ==
  ASSUME NEW w, NEW l \in Loaders \ {Boot}, NEW n
  PROVE  Definer(w, l, n) = IF Definer(w, Parent[l], n) # NoClass THEN Definer(w, Parent[l], n)
                            ELSE IF HasFile(w, l, n) THEN <<l, n>> ELSE NoClass
<1> DEFINE p == Parent[l]
           up == Ancestors(l)
           over == Ancestors(p)
<1>1. p \in Loaders /\ Height(l) = 1 + Height(p) /\ Height(p) \in Nat \ {0}
  BY ParentIs, HeightIs
<1>2. \A i \in 1 .. Height(p) : up[i + 1] = over[i]
  BY AncestorsUp DEF Height
<1>3. up[1] = l
  BY AncestorsType
<1> HIDE DEF p, up, over
<1>4. ASSUME NEW m \in 1 .. Height(p), HasFile(w, over[m], n), Definer(w, p, n) = <<over[m], n>>,
             \A i \in m + 1 .. Height(p) : ~HasFile(w, over[i], n)
      PROVE  Definer(w, l, n) = Definer(w, p, n)
  <2>1. m + 1 \in 1 .. Height(l) /\ up[m + 1] = over[m]
    BY <1>1, <1>2
  <2>2. ASSUME NEW i \in m + 1 + 1 .. Height(l)  PROVE ~HasFile(w, up[i], n)
    <3>1. i - 1 \in m + 1 .. Height(p) /\ i - 1 \in 1 .. Height(p) /\ (i - 1) + 1 = i
      BY <1>1
    <3> QED  BY <1>2, <1>4, <3>1
  <2>3. HasFile(w, up[m + 1], n)
    BY <1>4, <2>1
  <2> QED  BY <1>4, <2>1, <2>2, <2>3, DefinerIs DEF up
<1>5. ASSUME Definer(w, p, n) = NoClass, \A i \in 1 .. Height(p) : ~HasFile(w, over[i], n)
      PROVE  Definer(w, l, n) = IF HasFile(w, l, n) THEN <<l, n>> ELSE NoClass
  <2>1. ASSUME NEW i \in 2 .. Height(l)  PROVE ~HasFile(w, up[i], n)
    <3>1. i - 1 \in 1 .. Height(p) /\ (i - 1) + 1 = i
      BY <1>1
    <3> QED  BY <1>2, <1>5, <3>1
  <2>2. CASE HasFile(w, l, n)
    <3>1. 1 \in 1 .. Height(l) /\ HasFile(w, up[1], n) /\ 1 + 1 = 2
      BY <1>1, <1>3, <2>2
    <3> QED  BY <1>3, <2>1, <2>2, <3>1, DefinerIs DEF up
  <2>3. CASE ~HasFile(w, l, n)
    <3>1. \A i \in 1 .. Height(l) : i = 1 \/ i \in 2 .. Height(l)
      BY <1>1
    <3>2. \A i \in 1 .. Height(l) : ~HasFile(w, up[i], n)
      BY <1>3, <2>1, <2>3, <3>1
    <3> QED  BY <2>3, <3>2, DefinerAt DEF up
  <2> QED  BY <2>2, <2>3
<1>6. \/ /\ Definer(w, p, n) = NoClass
         /\ \A i \in 1 .. Height(p) : ~HasFile(w, over[i], n)
      \/ \E m \in 1 .. Height(p) : /\ Definer(w, p, n) = <<over[m], n>>
                                   /\ HasFile(w, over[m], n)
                                   /\ \A i \in m + 1 .. Height(p) : ~HasFile(w, over[i], n)
  BY <1>1, DefinerAt DEF over
<1>7. \A x : <<x, n>> # NoClass
  BY NoClassIs
<1> QED  BY <1>4, <1>5, <1>6, <1>7 DEF p

(* A record is made at the loaders before the one that defines the class;  *)
(* they all find the same class.                                           *)
LEMMA DefinerBelow ==
  ASSUME NEW w, NEW l \in Loaders, NEW n, Definer(w, l, n) # NoClass
  PROVE  \E m \in 1 .. Height(l) :
           /\ Definer(w, l, n) = <<Ancestors(l)[m], n>> /\ HasFile(w, Ancestors(l)[m], n)
           /\ \A i \in 1 .. m : Definer(w, Ancestors(l)[i], n) = Definer(w, l, n)
           /\ \A i \in 1 .. Height(l) : i < m <=> \A j \in 1 .. i : Ancestors(l)[j] # Ancestors(l)[m]
<1> DEFINE up == Ancestors(l)
<1>1. Height(l) \in Nat \ {0}
  BY HeightIs
<1>2. PICK m \in 1 .. Height(l) : /\ Definer(w, l, n) = <<up[m], n>> /\ HasFile(w, up[m], n)
                                  /\ \A i \in m + 1 .. Height(l) : ~HasFile(w, up[i], n)
  BY DefinerAt
<1>3. ASSUME NEW i \in 1 .. m  PROVE Definer(w, up[i], n) = <<up[m], n>>
  <2> DEFINE k == up[i]
  <2>1. i \in 1 .. Height(l)
    BY <1>1
  <2>2. /\ k \in Loaders /\ Height(k) = Height(l) - i + 1
        /\ \A j \in 1 .. Height(l) - i + 1 : Ancestors(k)[j] = up[i + j - 1]
    BY <2>1, AncestorsRest, HeightIs
  <2> HIDE DEF k, up
  <2>3. m - i + 1 \in 1 .. Height(k) /\ i + (m - i + 1) - 1 = m
    BY <1>1, <2>1, <2>2
  <2>4. Ancestors(k)[m - i + 1] = up[m]
    BY <2>2, <2>3
  <2>5. ASSUME NEW j \in (m - i + 1) + 1 .. Height(k)  PROVE ~HasFile(w, Ancestors(k)[j], n)
    <3>1. j \in 1 .. Height(l) - i + 1 /\ i + j - 1 \in m + 1 .. Height(l)
      BY <1>1, <2>1, <2>2
    <3> QED  BY <1>2, <2>2, <3>1
  <2>6. HasFile(w, Ancestors(k)[m - i + 1], n)
    BY <1>2, <2>4
  <2>7. Definer(w, k, n) = <<Ancestors(k)[m - i + 1], n>>
    BY <2>2, <2>3, <2>5, <2>6, DefinerIs
  <2> QED  BY <2>4, <2>7 DEF k
<1>4. ASSUME NEW i \in 1 .. Height(l)  PROVE i < m <=> \A j \in 1 .. i : up[j] # up[m]
  <2>1. ASSUME i < m, NEW j \in 1 .. i  PROVE up[j] # up[m]
    <3>1. j \in 1 .. Height(l) /\ j # m
      BY <1>1, <2>1
    <3> QED  BY <3>1, AncestorsDistinct
  <2>2. ~(i < m) => m \in 1 .. i
    BY <1>1
  <2> QED  BY <2>1, <2>2
<1> QED  BY <1>2, <1>3, <1>4

(* The class found is one that its own loader finds too. *)
LEMMA DefinerOwn ==
  ASSUME NEW w, NEW l \in Loaders, NEW n \in Names, Definer(w, l, n) # NoClass
  PROVE  LET c == Definer(w, l, n)
         IN  c \in ClassSet /\ c \in DOMAIN w.files /\ c[2] = n /\ Definer(w, c[1], c[2]) = c
<1>1. PICK m \in 1 .. Height(l) :
           /\ Definer(w, l, n) = <<Ancestors(l)[m], n>> /\ HasFile(w, Ancestors(l)[m], n)
           /\ \A i \in 1 .. m : Definer(w, Ancestors(l)[i], n) = Definer(w, l, n)
  BY DefinerBelow
<1>2. m \in 1 .. m /\ Ancestors(l)[m] \in Loaders
  BY HeightIs
<1>3. Definer(w, Ancestors(l)[m], n) = Definer(w, l, n)
  BY <1>1, <1>2
<1> QED  BY <1>1, <1>2, <1>3 DEF ClassSet, HasFile

LEMMA DefinerType ==
  ASSUME NEW w, NEW l \in Loaders, NEW n \in Names
  PROVE  Definer(w, l, n) \in ClassSet \cup {NoClass}
BY DefinerOwn


-----------------------------------------------------------------------------
(* Class files. *)
LEMMA WorldIs ==
  ASSUME NEW w \in Worlds
  PROVE  /\ DOMAIN w.files \subseteq ClassSet /\ NoClass \notin DOMAIN w.files
         /\ \A c \in DOMAIN w.files : /\ w.files[c].supers \in Seq(Names) /\ w.files[c].parses \in BOOLEAN
                                      /\ c[1] \in Loaders /\ c[2] \in Names /\ c = <<c[1], c[2]>>
<1>1. DOMAIN w.files \subseteq ClassSet
  BY WorldsAssumption DEF ClassSet
<1>2. \A c \in ClassSet : c[1] \in Loaders /\ c[2] \in Names /\ c = <<c[1], c[2]>>
  BY DEF ClassSet
<1> QED  BY <1>1, <1>2, NoClassIs, WorldsAssumption

LEMMA SupersAre ==
  ASSUME NEW w \in Worlds, NEW c \in DOMAIN w.files
  PROVE  /\ SupersOf(w, c) = {Definer(w, c[1], w.files[c].supers[j]) : j \in 1 .. Len(w.files[c].supers)}
         /\ \A j \in 1 .. Len(w.files[c].supers) : w.files[c].supers[j] \in Names
         /\ SupersOf(w, c) \subseteq DOMAIN w.files \cup {NoClass}
<1> DEFINE q == w.files[c].supers
<1>1. q \in Seq(Names) /\ c[1] \in Loaders
  BY WorldIs
<1>2. DOMAIN q = 1 .. Len(q) /\ \A j \in 1 .. Len(q) : q[j] \in Names
  BY <1>1
<1>3. SupersOf(w, c) = {Definer(w, c[1], q[j]) : j \in 1 .. Len(q)}
  BY <1>2 DEF SupersOf, ToSet
<1>4. \A j \in 1 .. Len(q) : Definer(w, c[1], q[j]) \in DOMAIN w.files \cup {NoClass}
  BY <1>1, <1>2, DefinerOwn
<1> QED  BY <1>2, <1>3, <1>4

LEMMA LeadsUp ==
  ASSUME NEW w \in Worlds, NEW a, NEW c, c # NoClass, Leads(w, a, c), NEW s \in SupersOf(w, c)
  PROVE  Leads(w, a, s)
BY DEF Leads

LEMMA LeadsSelf == \A w, c : Leads(w, c, c)
BY DEF Leads

LEMMA LeadsFrom ==
  ASSUME NEW w \in Worlds, NEW c, c # NoClass, NEW s \in SupersOf(w, c), NEW x, Leads(w, s, x)
  PROVE  Leads(w, c, x)
BY DEF Leads

(* A set of classes that is closed upwards is not left. *)
LEMMA LeadsInside ==
  ASSUME NEW w \in Worlds, NEW S \in SUBSET DOMAIN w.files, \A c \in S : SupersOf(w, c) \subseteq S,
         NEW s \in S, NEW x, x \notin S
  PROVE  ~Leads(w, s, x)
BY DEF Leads

LEMMA LoadableIs ==
  ASSUME NEW w \in Worlds
  PROVE  /\ Loadable(w) \subseteq DOMAIN w.files
         /\ LoadableAbove(w, Loadable(w)) = Loadable(w)
<1> DEFINE D == DOMAIN w.files
           A(S) == LoadableAbove(w, S)
           M == Loadable(w)
<1>1. M \in SUBSET D /\ \A S \in SUBSET D : A(S) \subseteq S => M \subseteq S
  BY DEF Loadable
<1>2. \A S, T : S \subseteq T => A(S) \subseteq A(T)
  BY DEF LoadableAbove
<1>3. \A S : A(S) \subseteq D
  BY DEF LoadableAbove
<1>4. A(M) \subseteq M
  <2> SUFFICES ASSUME NEW c \in A(M), NEW S \in SUBSET D, A(S) \subseteq S  PROVE c \in S
    BY <1>3 DEF Loadable
  <2> HIDE DEF A, M, D
  <2> QED  BY <1>1, <1>2
<1>5. M \subseteq A(M)
  <2> HIDE DEF A, M, D
  <2>1. A(M) \in SUBSET D /\ A(A(M)) \subseteq A(M)
    BY <1>2, <1>3, <1>4
  <2> QED  BY <1>1, <2>1
<1> QED  BY <1>1, <1>4, <1>5

LEMMA LoadableUp ==
  ASSUME NEW w \in Worlds, NEW c \in DOMAIN w.files
  PROVE  c \in Loadable(w) <=> /\ w.files[c].parses
                               /\ \A s \in SupersOf(w, c) : s \in Loadable(w) /\ c[2] \in w.files[s].permits
BY LoadableIs DEF LoadableAbove

(* A class with a missing supertype somewhere above it cannot be loaded. *)
LEMMA LoadableComplete ==
  ASSUME NEW w \in Worlds, NEW c, Leads(w, c, NoClass)
  PROVE  c \notin Loadable(w)
<1>1. Loadable(w) \in SUBSET DOMAIN w.files
  BY LoadableIs
<1>2. \A d \in Loadable(w) : SupersOf(w, d) \subseteq Loadable(w)
  BY <1>1, LoadableUp
<1>3. NoClass \notin Loadable(w)
  BY <1>1, WorldIs
<1> QED  BY <1>1, <1>2, <1>3, LeadsInside

(* A loader finds its own file unless a complete one hides it. *)
LEMMA NotHidden ==
  ASSUME NEW w \in Worlds, NEW l \in Loaders \ {Boot}, NEW n \in Names, HasFile(w, l, n),
         Definer(w, Parent[l], n) = NoClass \/ Leads(w, Definer(w, Parent[l], n), NoClass)
  PROVE  Definer(w, l, n) = <<l, n>>
<1>1. <<l, n>> \in DOMAIN w.files /\ <<l, n>>[1] = l /\ <<l, n>>[2] = n
  BY DEF HasFile
<1>2. Definer(w, l, n) # <<l, n>> => ~Leads(w, Definer(w, l, n), NoClass)
  BY <1>1, WorldsAssumption
<1> QED  BY <1>2, DefinerUp


-----------------------------------------------------------------------------
(* Stacks. *)
LEMMA ConsIs ==
  ASSUME NEW s \in Seq(Frames), NEW f \in Frames
  PROVE  /\ <<f>> \o s \in Seq(Frames) /\ <<f>> \o s # <<>> /\ Len(<<f>> \o s) = 1 + Len(s) /\ Len(s) \in Nat
         /\ DOMAIN s = 1 .. Len(s) /\ DOMAIN (<<f>> \o s) = 1 .. 1 + Len(s)
         /\ (<<f>> \o s)[1] = f /\ \A i \in 1 .. Len(s) : (<<f>> \o s)[i + 1] = s[i]
         /\ \A i \in DOMAIN (<<f>> \o s) : i = 1 \/ (i - 1 \in 1 .. Len(s) /\ (<<f>> \o s)[i] = s[i - 1])
<1>1. Len(s) \in Nat /\ DOMAIN s = 1 .. Len(s)
  OBVIOUS
<1>2. <<f>> \in Seq(Frames) /\ Len(<<f>>) = 1 /\ <<f>>[1] = f
  OBVIOUS
<1> DEFINE q == <<f>> \o s
<1>3. q \in Seq(Frames) /\ Len(q) = 1 + Len(s) /\ q[1] = f
  BY <1>1, <1>2
<1>4. \A i \in 1 .. Len(s) : q[i + 1] = s[i]
  BY <1>1, <1>2
<1>5. DOMAIN q = 1 .. 1 + Len(s)
  BY <1>3
<1>6. ASSUME NEW i \in 1 .. 1 + Len(s), i # 1  PROVE i - 1 \in 1 .. Len(s) /\ q[i] = s[i - 1]
  <2>1. i - 1 \in 1 .. Len(s) /\ (i - 1) + 1 = i
    BY <1>1, <1>6
  <2> QED  BY <1>4, <2>1
<1>7. q # <<>>
  BY <1>1, <1>3
<1> QED  BY <1>1, <1>3, <1>4, <1>5, <1>6, <1>7

LEMMA TailIs ==
  ASSUME NEW s \in Seq(Frames), s # <<>>
  PROVE  /\ s[1] \in Frames /\ Head(s) = s[1] /\ Tail(s) \in Seq(Frames) /\ Len(s) \in Nat /\ Len(s) >= 1
         /\ Len(Tail(s)) = Len(s) - 1 /\ DOMAIN s = 1 .. Len(s) /\ DOMAIN Tail(s) = 1 .. Len(s) - 1
         /\ \A i \in DOMAIN Tail(s) : i + 1 \in DOMAIN s /\ Tail(s)[i] = s[i + 1]
         /\ \A i \in DOMAIN s : s[i] \in Frames
         /\ s = <<s[1]>> \o Tail(s)
<1>1. Len(s) \in Nat /\ Len(s) >= 1 /\ DOMAIN s = 1 .. Len(s) /\ \A i \in 1 .. Len(s) : s[i] \in Frames
  BY EmptySeq
<1>2. Tail(s) \in Seq(Frames) /\ Len(Tail(s)) = Len(s) - 1 /\ Head(s) = s[1]
  BY <1>1
<1>3. \A i \in 1 .. Len(s) - 1 : Tail(s)[i] = s[i + 1]
  BY <1>1
<1>4. DOMAIN Tail(s) = 1 .. Len(s) - 1
  BY <1>2
<1>5. s = <<s[1]>> \o Tail(s)
  BY <1>1, <1>2, <1>3, ConsIs, HeadTailProperties
<1> QED  BY <1>1, <1>2, <1>3, <1>4, <1>5

(* g has called f: f is up the tree, and wants what is above. *)
LEMMA CallUp ==
  ASSUME NEW w \in Worlds, NEW lo, NEW init, NEW g \in Frames, NEW f \in Frames, CallSound(w, g, f),
         FrameSound(w, lo, init, g)
  PROVE  /\ Height(f.cl) <= Height(g.cl)
         /\ g.op = "load" /\ g.at = "parent" => Height(f.cl) < Height(g.cl)
         /\ Wanted(w, f) = Awaited(w, g)
         /\ Wanted(w, f) # NoClass /\ g.op # "define" => Wanted(w, g) = Wanted(w, f)
         /\ Wanted(w, f) # NoClass /\ g.op = "define" => /\ Wanted(w, f) \in SupersOf(w, ClassOf(g))
                                                         /\ ClassOf(g) \in DOMAIN w.files
<1>1. f.cl \in Loaders /\ g.cl \in Loaders /\ f.name \in Names /\ g.name \in Names
      /\ g.op \in {"lookup", "load", "define", "resolve"}
  BY DEF Frames
<1>2. Height(f.cl) \in Nat /\ Height(g.cl) \in Nat
  BY <1>1, HeightIs
<1>3. CASE g.op \in {"lookup", "resolve"}
  <2>1. f.cl = g.cl /\ f.name = g.name
    BY <1>3 DEF CallSound
  <2> QED  BY <1>2, <1>3, <2>1 DEF Wanted, Awaited
<1>4. CASE g.op = "define"
  <2>1. /\ f.cl = g.cl /\ f.name = FileOf(w, g).supers[g.k] /\ g.at = "called" /\ HasFile(w, g.cl, g.name)
        /\ g.k >= 1 /\ g.k <= Len(FileOf(w, g).supers)
    BY <1>4 DEF CallSound, FrameSound, Waiting
  <2>2. ClassOf(g) \in DOMAIN w.files /\ ClassOf(g)[1] = g.cl
    BY <2>1 DEF HasFile, ClassOf
  <2>3. FileOf(w, g).supers \in Seq(Names) /\ g.k \in Nat
    BY <2>2, WorldIs DEF FileOf, Frames
  <2>4. g.k \in 1 .. Len(FileOf(w, g).supers)
    BY <2>1, <2>3
  <2>5. Wanted(w, f) \in SupersOf(w, ClassOf(g))
    BY <2>1, <2>2, <2>4, SupersAre DEF Wanted, FileOf
  <2> QED  BY <1>2, <1>4, <2>1, <2>2, <2>5 DEF Wanted, Awaited, SuperOf
<1>5. CASE g.op = "load" /\ g.at = "parent"
  <2>1. g.cl # Boot /\ f.cl = Parent[g.cl] /\ f.name = g.name
    BY <1>5 DEF CallSound, FrameSound
  <2>2. Height(g.cl) = 1 + Height(f.cl)
    BY <1>1, <2>1, HeightIs
  <2>3. Definer(w, f.cl, f.name) # NoClass => Definer(w, g.cl, g.name) = Definer(w, f.cl, f.name)
    BY <1>1, <2>1, DefinerUp
  <2> QED  BY <1>2, <1>5, <2>1, <2>2, <2>3 DEF Wanted, Awaited
<1>6. CASE g.op = "load" /\ g.at # "parent"
  <2>1. f.cl = g.cl /\ f.name = g.name
    BY <1>6 DEF CallSound, FrameSound, Waiting
  <2> QED  BY <1>2, <1>6, <2>1 DEF Wanted, Awaited
<1> QED  BY <1>1, <1>3, <1>4, <1>5, <1>6

LEMMA ShapePop ==
  ASSUME NEW w, NEW lo, NEW init, NEW s \in Seq(Frames), s # <<>>, ShapeSound(w, lo, init, s)
  PROVE  ShapeSound(w, lo, init, Tail(s))
<1> DEFINE q == Tail(s)
<1>1. /\ Len(s) \in Nat /\ DOMAIN s = 1 .. Len(s) /\ DOMAIN q = 1 .. Len(s) - 1
      /\ \A i \in DOMAIN q : i + 1 \in DOMAIN s /\ q[i] = s[i + 1]
  BY TailIs
<1> HIDE DEF q
<1>2. \A i \in DOMAIN q : FrameSound(w, lo, init, q[i])
  BY <1>1 DEF ShapeSound
<1>3. \A i \in DOMAIN q : i + 1 \in DOMAIN q => CallSound(w, q[i + 1], q[i])
  BY <1>1 DEF ShapeSound
<1>4. \A i, j \in DOMAIN q : i < j => i + 1 < j + 1
  BY <1>1
<1>5. CallsGoUp(q)
  BY <1>1, <1>4 DEF ShapeSound, CallsGoUp
<1>6. Chained(w, q)
  BY <1>1, <1>4 DEF ShapeSound, Chained
<1> QED  BY <1>2, <1>3, <1>5, <1>6 DEF ShapeSound, q

LEMMA ShapePush ==
  ASSUME NEW w \in Worlds, NEW lo, NEW init, NEW s \in Seq(Frames), ShapeSound(w, lo, init, s),
         NEW f \in Frames, FrameSound(w, lo, init, f), s # <<>> => CallSound(w, s[1], f)
  PROVE  ShapeSound(w, lo, init, <<f>> \o s)
<1> DEFINE q == <<f>> \o s
<1>1. /\ Len(s) \in Nat /\ DOMAIN s = 1 .. Len(s) /\ DOMAIN q = 1 .. 1 + Len(s) /\ q[1] = f
      /\ \A i \in 1 .. Len(s) : q[i + 1] = s[i]
      /\ \A i \in DOMAIN q : i = 1 \/ (i - 1 \in 1 .. Len(s) /\ q[i] = s[i - 1])
  BY ConsIs
<1> HIDE DEF q
<1>2. \A i \in 1 .. Len(s) : s[i] \in Frames
  OBVIOUS
<1>3. Len(s) > 0 => s # <<>>
  OBVIOUS
<1>4. ASSUME NEW i \in DOMAIN q  PROVE FrameSound(w, lo, init, q[i])
  BY <1>1 DEF ShapeSound
<1>5. ASSUME NEW i \in DOMAIN q, i + 1 \in DOMAIN q  PROVE CallSound(w, q[i + 1], q[i])
  <2>1. CASE i = 1
    <3>1. 1 \in 1 .. Len(s) /\ s # <<>> /\ q[1 + 1] = s[1]
      BY <1>1, <1>3, <1>5, <2>1
    <3> QED  BY <1>1, <2>1, <3>1
  <2>2. CASE i # 1
    <3>1. i - 1 \in DOMAIN s /\ (i - 1) + 1 \in DOMAIN s /\ q[i] = s[i - 1] /\ q[i + 1] = s[(i - 1) + 1]
      BY <1>1, <1>5, <2>2
    <3> QED  BY <3>1 DEF ShapeSound
  <2> QED  BY <2>1, <2>2
<1>6. ASSUME NEW i \in DOMAIN q, NEW j \in DOMAIN q, i < j
      PROVE  /\ Height(q[i].cl) <= Height(q[j].cl)
             /\ q[j].op = "load" /\ q[j].at = "parent" => Height(q[i].cl) < Height(q[j].cl)
             /\ q[j].op = "define" /\ Wanted(w, q[i]) # NoClass => Leads(w, ClassOf(q[j]), Wanted(w, q[i]))
  <2>1. j - 1 \in DOMAIN s /\ q[j] = s[j - 1] /\ j # 1
    BY <1>1, <1>6
  <2>2. CASE i # 1
    <3>1. i - 1 \in DOMAIN s /\ q[i] = s[i - 1] /\ i - 1 < j - 1
      BY <1>1, <1>6, <2>2
    <3> QED  BY <2>1, <3>1 DEF ShapeSound, CallsGoUp, Chained
  <2>3. CASE i = 1
    <3>1. 1 \in DOMAIN s /\ s # <<>> /\ s[1] \in Frames /\ q[i] = f
      BY <1>1, <1>2, <1>3, <2>1, <2>3
    <3>2. CallSound(w, s[1], f) /\ FrameSound(w, lo, init, s[1])
      BY <3>1 DEF ShapeSound
    <3>3. /\ Height(f.cl) <= Height(s[1].cl)
          /\ s[1].op = "load" /\ s[1].at = "parent" => Height(f.cl) < Height(s[1].cl)
          /\ Wanted(w, f) # NoClass /\ s[1].op # "define" => Wanted(w, s[1]) = Wanted(w, f)
          /\ Wanted(w, f) # NoClass /\ s[1].op = "define" => /\ Wanted(w, f) \in SupersOf(w, ClassOf(s[1]))
                                                             /\ ClassOf(s[1]) \in DOMAIN w.files
      BY <3>1, <3>2, CallUp
    <3>4. ClassOf(s[1]) # NoClass
      BY NoClassIs DEF ClassOf
    <3>5. CASE j = 2
      <4>1. q[j] = s[1]
        BY <2>1, <3>5
      <4>2. Wanted(w, f) # NoClass /\ s[1].op = "define" => Leads(w, ClassOf(s[1]), Wanted(w, f))
        BY <3>3, <3>4, LeadsSelf, LeadsUp
      <4> QED  BY <3>1, <3>3, <4>1, <4>2
    <3>6. CASE j # 2
      <4>1. 1 < j - 1
        BY <1>1, <2>1, <3>6
      <4>2. /\ Height(s[1].cl) <= Height(s[j - 1].cl)
            /\ s[j - 1].op = "load" /\ s[j - 1].at = "parent" => Height(s[1].cl) < Height(s[j - 1].cl)
            /\ s[j - 1].op = "define" /\ Wanted(w, s[1]) # NoClass => Leads(w, ClassOf(s[j - 1]), Wanted(w, s[1]))
        BY <2>1, <3>1, <4>1 DEF ShapeSound, CallsGoUp, Chained
      <4>3. Height(f.cl) \in Nat /\ Height(s[1].cl) \in Nat /\ Height(s[j - 1].cl) \in Nat
        BY <1>1, <1>2, <2>1, <3>1, HeightIs DEF Frames
      <4>4. s[1].op = "define" => Wanted(w, s[1]) = ClassOf(s[1])
        BY <3>2 DEF FrameSound
      <4>5. s[j - 1].op = "define" /\ Wanted(w, f) # NoClass => Leads(w, ClassOf(s[j - 1]), Wanted(w, f))
        BY <3>3, <3>4, <4>2, <4>4, LeadsUp
      <4> QED  BY <2>1, <3>1, <3>3, <4>2, <4>3, <4>5
    <3> QED  BY <3>5, <3>6
  <2> QED  BY <2>2, <2>3
<1>7. CallsGoUp(q) /\ Chained(w, q)
  BY <1>6 DEF CallsGoUp, Chained
<1> QED  BY <1>4, <1>5, <1>7 DEF ShapeSound, q

LEMMA MissingPop ==
  ASSUME NEW lo, NEW s \in Seq(Frames), s # <<>>, StillMissing(lo, s)
  PROVE  StillMissing(lo, Tail(s)) /\ (Sync(Tail(s)) => Sync(s)) /\ (s[1].sync => Sync(s))
<1>1. /\ Len(s) \in Nat /\ Len(s) >= 1 /\ DOMAIN s = 1 .. Len(s) /\ DOMAIN Tail(s) = 1 .. Len(s) - 1
      /\ \A i \in DOMAIN Tail(s) : i + 1 \in DOMAIN s /\ Tail(s)[i] = s[i + 1]
  BY TailIs
<1>2. \A i, j \in DOMAIN Tail(s) : i <= j => i + 1 <= j + 1
  BY <1>1
<1>3. StillMissing(lo, Tail(s))
  BY <1>1, <1>2 DEF StillMissing
<1>4. 1 \in DOMAIN s
  BY <1>1
<1> QED  BY <1>1, <1>3, <1>4 DEF Sync

LEMMA MissingPush ==
  ASSUME NEW lo, NEW s \in Seq(Frames), StillMissing(lo, s), NEW f \in Frames,
         Defines(f) /\ (f.sync \/ Sync(s)) => ClassOf(f) \notin lo
  PROVE  StillMissing(lo, <<f>> \o s) /\ (Sync(<<f>> \o s) <=> f.sync \/ Sync(s))
<1> DEFINE q == <<f>> \o s
<1>1. /\ Len(s) \in Nat /\ DOMAIN s = 1 .. Len(s) /\ DOMAIN q = 1 .. 1 + Len(s) /\ q[1] = f
      /\ \A i \in 1 .. Len(s) : q[i + 1] = s[i]
      /\ \A i \in DOMAIN q : i = 1 \/ (i - 1 \in 1 .. Len(s) /\ q[i] = s[i - 1])
  BY ConsIs
<1> HIDE DEF q
<1>2. \A i \in 1 .. Len(s) : i + 1 \in DOMAIN q
  BY <1>1
<1>3. 1 \in DOMAIN q
  BY <1>1
<1>4. Sync(q) <=> f.sync \/ Sync(s)
  BY <1>1, <1>2, <1>3 DEF Sync
<1>5. ASSUME NEW j \in DOMAIN q, NEW m \in DOMAIN q, j <= m, q[m].sync, Defines(q[j])
      PROVE  ClassOf(q[j]) \notin lo
  <2>1. CASE j = 1
    <3>1. f.sync \/ Sync(s)
      BY <1>4, <1>5 DEF Sync
    <3> QED  BY <1>1, <1>5, <2>1, <3>1
  <2>2. CASE j # 1
    <3>1. j - 1 \in DOMAIN s /\ m - 1 \in DOMAIN s /\ q[j] = s[j - 1] /\ q[m] = s[m - 1] /\ j - 1 <= m - 1
      BY <1>1, <1>5, <2>2
    <3> QED  BY <1>5, <3>1 DEF StillMissing
  <2> QED  BY <2>1, <2>2
<1> QED  BY <1>4, <1>5 DEF StillMissing, q


-----------------------------------------------------------------------------
(* The tables only grow. *)
Grows(lo, init, lo2, init2) ==
  /\ lo \subseteq lo2
  /\ \A l \in Loaders, n \in Names : init[l][n] # NoClass => init2[l][n] = init[l][n]

LEMMA FrameGrows ==
  ASSUME NEW w \in Worlds, NEW lo \in SUBSET ClassSet, NEW init, NEW lo2, NEW init2, Grows(lo, init, lo2, init2),
         NEW f \in Frames, FrameSound(w, lo, init, f)
  PROVE  FrameSound(w, lo2, init2, f)
<1>1. ASSUME NEW j, SuperFound(w, lo, init, f, j)  PROVE SuperFound(w, lo2, init2, f, j)
  <2> DEFINE s == SuperOf(w, f, j)
  <2>1. s \in lo /\ init[f.cl][s[2]] = s /\ f.name \in w.files[s].permits
    BY <1>1 DEF SuperFound
  <2> HIDE DEF s
  <2>2. s[2] \in Names /\ s # NoClass /\ f.cl \in Loaders
    BY <2>1, NoClassIs DEF ClassSet, Frames
  <2>3. s \in lo2 /\ init2[f.cl][s[2]] = s
    BY <2>1, <2>2 DEF Grows
  <2> QED  BY <2>1, <2>3 DEF SuperFound, s
<1>2. f.op = "define" => \A j \in 1 .. f.k - 1 : SuperFound(w, lo2, init2, f, j)
  BY <1>1 DEF FrameSound
<1> QED  BY <1>2 DEF FrameSound

LEMMA ShapeGrows ==
  ASSUME NEW w \in Worlds, NEW lo \in SUBSET ClassSet, NEW init, NEW lo2, NEW init2, Grows(lo, init, lo2, init2),
         NEW s \in Seq(Frames), ShapeSound(w, lo, init, s)
  PROVE  ShapeSound(w, lo2, init2, s)
<1>1. \A i \in DOMAIN s : s[i] \in Frames
  OBVIOUS
<1>2. \A i \in DOMAIN s : FrameSound(w, lo2, init2, s[i])
  BY <1>1, FrameGrows DEF ShapeSound
<1> QED  BY <1>2 DEF ShapeSound

(* The supertype an activation f of define_class is at. *)
LEMMA SuperIs ==
  ASSUME NEW w \in Worlds, NEW lo, NEW init, NEW f \in Frames, FrameSound(w, lo, init, f), f.op = "define",
         f.k <= Len(FileOf(w, f).supers)
  PROVE  /\ ClassOf(f) \in DOMAIN w.files /\ ClassOf(f) # NoClass /\ f.k \in 1 .. Len(FileOf(w, f).supers)
         /\ FileOf(w, f).supers[f.k] \in Names /\ SuperOf(w, f, f.k) \in SupersOf(w, ClassOf(f))
<1>1. ClassOf(f) \in DOMAIN w.files /\ ClassOf(f) # NoClass /\ ClassOf(f)[1] = f.cl
  BY NoClassIs DEF FrameSound, HasFile, ClassOf
<1>2. FileOf(w, f).supers \in Seq(Names) /\ f.k \in Nat /\ f.k >= 1
  BY <1>1, WorldIs DEF FileOf, Frames, FrameSound
<1>3. f.k \in 1 .. Len(FileOf(w, f).supers)
  BY <1>2
<1> QED  BY <1>1, <1>3, SupersAre DEF SuperOf, FileOf

LEMMA TopGrows ==
  ASSUME NEW w \in Worlds, NEW lo, NEW init, NEW lo2, NEW init2, Grows(lo, init, lo2, init2),
         NEW s \in Seq(Frames), ShapeSound(w, lo, init, s), NEW r, NEW e, TopSound(w, lo, init, s, r, e)
  PROVE  TopSound(w, lo2, init2, s, r, e)
<1>1. \A c : Failure(w, lo, c, e) => Failure(w, lo2, c, e)
  BY DEF Failure, Grows
<1>2. ASSUME s # <<>>, NEW y, Waiting(s[1]), AnswerSound(w, lo, init, s[1], r, e, y)
      PROVE  AnswerSound(w, lo2, init2, s[1], r, e, y)
  <2>1. s[1] \in Frames /\ FrameSound(w, lo, init, s[1])
    BY <1>2, TailIs DEF ShapeSound
  <2>2. ASSUME s[1].op = "define"  PROVE s[1].cl \in Loaders /\ FileOf(w, s[1]).supers[s[1].k] \in Names
    <3>1. s[1].at \in {"enter", "supers", "called"} /\ (s[1].at = "called" => s[1].k <= Len(FileOf(w, s[1]).supers))
      BY <2>1, <2>2 DEF FrameSound
    <3>2. s[1].k <= Len(FileOf(w, s[1]).supers)
      BY <1>2, <3>1 DEF Waiting
    <3> QED  BY <2>1, <2>2, <3>2, SuperIs DEF Frames
  <2> QED  BY <1>1, <1>2, <2>2 DEF AnswerSound, Grows
<1> QED  BY <1>2 DEF TopSound

(* What an activation f returns. *)
Returns(w, lo, init, f, r, e, synchronous) ==
  IF r.class # NoClass
  THEN /\ r.class = Wanted(w, f) /\ r.class \in lo /\ e = "none" /\ (f.kept => r.dims = f.dims)
       /\ f.op = "lookup" => init[f.cl][f.name] = r.class
  ELSE /\ Failure(w, lo, Wanted(w, f), e)
       /\ f.raise => e # "none"
       /\ e = "LinkageError" => ~synchronous

LEMMA ReturnSound ==
  ASSUME NEW w \in Worlds, NEW lo, NEW init, NEW s \in Seq(Frames), s # <<>>, ShapeSound(w, lo, init, s),
         StillMissing(lo, s), NEW r \in Answers, NEW e, Returns(w, lo, init, s[1], r, e, Sync(s))
  PROVE  ThreadSound(w, lo, init, Tail(s), r, e)
<1> DEFINE q == Tail(s)
           f == s[1]
           g == q[1]
<1>1. ShapeSound(w, lo, init, q) /\ StillMissing(lo, q) /\ (Sync(q) => Sync(s)) /\ (s[1].sync => Sync(s))
  BY ShapePop, MissingPop
<1>2. ASSUME q # <<>>  PROVE Waiting(g) /\ AnswerSound(w, lo, init, g, r, e, Sync(q))
  <2>1. q \in Seq(Frames) /\ f \in Frames /\ \A i \in DOMAIN q : i + 1 \in DOMAIN s /\ q[i] = s[i + 1]
    BY TailIs
  <2>2. 1 \in DOMAIN q /\ g \in Frames
    BY <1>2, <2>1, TailIs
  <2>3. 1 \in DOMAIN s /\ 1 + 1 \in DOMAIN s /\ g = s[1 + 1]
    BY <2>1, <2>2, TailIs
  <2>4. CallSound(w, g, f) /\ FrameSound(w, lo, init, g) /\ FrameSound(w, lo, init, f)
    BY <2>3 DEF ShapeSound
  <2> HIDE DEF f, g, q
  <2>5. Waiting(g) /\ Wanted(w, f) = Awaited(w, g)
    BY <2>1, <2>2, <2>4, CallUp DEF CallSound
  <2>6. g.op # "lookup" /\ g.kept => f.kept /\ f.dims = g.dims
    <3>1. g.op \in {"lookup", "load", "define", "resolve"} /\ g.at \in {"called", "parent", "define"}
      BY <2>2, <2>5 DEF Frames, Waiting
    <3>2. CASE g.op = "define"
      BY <2>4, <3>2 DEF CallSound, FrameSound
    <3>3. CASE g.op = "load"
      BY <2>4, <3>1, <3>3 DEF CallSound, FrameSound
    <3>4. CASE g.op = "resolve"
      BY <2>4, <3>4 DEF CallSound
    <3> QED  BY <3>1, <3>2, <3>3, <3>4
  <2>7. g.op \in {"define", "resolve"} \/ (g.op = "load" /\ g.at = "define") => f.raise
    BY <2>4 DEF CallSound, FrameSound
  <2>8. g.op = "define" => Sync(s) /\ f.op = "lookup" /\ f.cl = g.cl /\ f.name = FileOf(w, g).supers[g.k]
    BY <1>1, <2>4 DEF CallSound, f
  <2>9. Returns(w, lo, init, f, r, e, Sync(s))
    BY DEF f
  <2> QED  BY <1>1, <2>5, <2>6, <2>7, <2>8, <2>9 DEF Returns, AnswerSound
<1>3. TopSound(w, lo, init, q, r, e)
  BY <1>2 DEF TopSound
<1> QED  BY <1>1, <1>3 DEF ThreadSound

LEMMA SynchronousIs ==
  \A t : Synchronous(t) <=> Sync(stack[t])
BY DEF Synchronous, Sync

(* A step of the running thread: s2, r2 and e2 are its stack, answer and   *)
(* exception afterwards.                                                   *)
Changes(s2, r2, e2) ==
  /\ stack' = [stack EXCEPT ![running] = s2]
  /\ answer' = [answer EXCEPT ![running] = r2]
  /\ exc' = [exc EXCEPT ![running] = e2]
  /\ world' = world /\ running' = running
  /\ info' \in [References -> [class : ClassSet \cup {NoClass}, error : Exceptions]]

(* The marks it accounts for. *)
MarksKept(s2, r2, e2) ==
  \A n \in inchoate' \ abandoned' :
    \/ /\ n \in inchoate \ abandoned
       /\ \A j : Marks(stack[running], answer[running], exc[running], n, j) => \E i : Marks(s2, r2, e2, n, i)
    \/ \E i : Marks(s2, r2, e2, n, i)

(* What a request is answered: its outermost activation returns what it    *)
(* should.                                                                 *)
Answered ==
  \A t \in Threads : Ends(t) =>
    /\ Returns(world, loaded', initiating', Outer(t), answer'[t], exc'[t], Sync(stack[t]))
    /\ Outer(t) = stack[t][1] /\ (answer'[t].class = NoClass => loaded' = loaded)

LEMMA RunStep ==
  ASSUME IInv, NEW s2 \in Seq(Frames), NEW r2 \in Answers, NEW e2 \in Exceptions, Changes(s2, r2, e2),
         loaded' \in SUBSET ClassSet, initiating' \in [Loaders -> [Names -> ClassSet \cup {NoClass}]],
         Grows(loaded, initiating, loaded', initiating'), TablesSound(world, loaded', initiating'),
         ThreadSound(world, loaded', initiating', s2, r2, e2), MarksKept(s2, r2, e2),
         s2 # <<>> \/ stack[running] = <<>> \/
           (/\ Returns(world, loaded', initiating', Top, r2, e2, Sync(stack[running])) /\ s2 = Below
            /\ r2.class = NoClass => loaded' = loaded)
  PROVE  IInv' /\ Answered
<1>1. /\ world \in Worlds /\ running \in Threads /\ stack \in [Threads -> Seq(Frames)]
      /\ answer \in [Threads -> Answers] /\ exc \in [Threads -> Exceptions] /\ loaded \in SUBSET ClassSet
  BY DEF IInv, TypeOK
<1>2. /\ stack'[running] = s2 /\ answer'[running] = r2 /\ exc'[running] = e2
      /\ \A t \in Threads \ {running} : stack'[t] = stack[t] /\ answer'[t] = answer[t] /\ exc'[t] = exc[t]
  BY <1>1 DEF Changes
<1>3. TypeOK'
  BY <1>1 DEF TypeOK, Changes, References
<1>4. TablesSound(world, loaded, initiating)'
  BY DEF Changes
<1>5. ASSUME NEW t \in Threads
      PROVE  ThreadSound(world, loaded', initiating', stack'[t], answer'[t], exc'[t])
  <2>1. CASE t = running
    BY <1>2, <2>1
  <2>2. CASE t # running
    <3>1. /\ ThreadSound(world, loaded, initiating, stack[t], answer[t], exc[t]) /\ ~Sync(stack[t])
          /\ stack[t] \in Seq(Frames)
      BY <1>1, <2>2, SynchronousIs DEF IInv
    <3>2. ShapeSound(world, loaded', initiating', stack[t])
      BY <1>1, <3>1, ShapeGrows DEF ThreadSound
    <3>3. TopSound(world, loaded', initiating', stack[t], answer[t], exc[t])
      BY <1>1, <3>1, TopGrows DEF ThreadSound
    <3>4. StillMissing(loaded', stack[t])
      BY <3>1 DEF StillMissing, Sync
    <3> QED  BY <1>2, <2>2, <3>2, <3>3, <3>4 DEF ThreadSound
  <2> QED  BY <2>1, <2>2
<1>6. ASSUME NEW t \in Threads \ {running}  PROVE ~Synchronous(t)'
  BY <1>2, <1>6 DEF IInv, Synchronous
<1>7. MarksSound'
  <2> SUFFICES ASSUME NEW n \in inchoate' \ abandoned'
               PROVE  \E t \in Threads : \E j \in DOMAIN stack'[t] : Marks(stack'[t], answer'[t], exc'[t], n, j)
    BY DEF MarksSound
  <2>1. CASE \E i : Marks(s2, r2, e2, n, i)
    BY <1>1, <1>2, <2>1 DEF Marks
  <2>2. CASE /\ n \in inchoate \ abandoned
             /\ \A j : Marks(stack[running], answer[running], exc[running], n, j) => \E i : Marks(s2, r2, e2, n, i)
    <3>1. PICK t \in Threads : \E j \in DOMAIN stack[t] : Marks(stack[t], answer[t], exc[t], n, j)
      BY <2>2 DEF IInv, MarksSound
    <3>2. CASE t = running
      BY <2>1, <2>2, <3>1, <3>2
    <3>3. CASE t # running
      BY <1>2, <3>1, <3>3
    <3> QED  BY <3>2, <3>3
  <2> QED  BY <2>1, <2>2 DEF MarksKept
<1>8. ASSUME NEW t \in Threads, Ends(t)
      PROVE  /\ Returns(world, loaded', initiating', Outer(t), answer'[t], exc'[t], Sync(stack[t]))
             /\ Outer(t) = stack[t][1] /\ (answer'[t].class = NoClass => loaded' = loaded)
  <2>1. t = running
    BY <1>2, <1>8 DEF Ends
  <2>2. s2 = <<>> /\ stack[running] # <<>> /\ Tail(stack[running]) = <<>> /\ stack[running] \in Seq(Frames)
    BY <1>1, <1>2, <1>8, <2>1 DEF Ends, Below
  <2>3. Len(stack[running]) = 1 /\ Top = stack[running][1]
    <3>1. Len(<<>>) = 0
      OBVIOUS
    <3>2. Len(Tail(stack[running])) = Len(stack[running]) - 1 /\ Len(stack[running]) \in Nat
      BY <2>2, TailIs
    <3>3. Len(Tail(stack[running])) = 0
      BY ONLY <2>2, <3>1, Zenon
    <3>4. Len(stack[running]) = 1
      BY ONLY <3>2, <3>3
    <3> QED  BY <2>2, <3>4, TailIs DEF Top
  <2>4. Outer(t) = Top
    BY <2>1, <2>3 DEF Outer, Last
  <2> QED  BY <1>2, <2>1, <2>2, <2>3, <2>4
<1> QED  BY <1>3, <1>4, <1>5, <1>6, <1>7, <1>8 DEF IInv, Changes, Answered


-----------------------------------------------------------------------------
(* The running thread. *)
LEMMA Here ==
  ASSUME IInv, stack[running] # <<>>
  PROVE  /\ world \in Worlds /\ running \in Threads /\ loaded \in SUBSET ClassSet
         /\ initiating \in [Loaders -> [Names -> ClassSet \cup {NoClass}]]
         /\ stack[running] \in Seq(Frames) /\ answer[running] \in Answers /\ exc[running] \in Exceptions
         /\ Top = stack[running][1] /\ Top \in Frames /\ Below = Tail(stack[running]) /\ Below \in Seq(Frames)
         /\ ShapeSound(world, loaded, initiating, stack[running]) /\ StillMissing(loaded, stack[running])
         /\ FrameSound(world, loaded, initiating, Top)
         /\ IF Waiting(Top) THEN AnswerSound(world, loaded, initiating, Top, answer[running], exc[running], Sync(stack[running]))
            ELSE exc[running] = "none"
<1>1. /\ world \in Worlds /\ running \in Threads /\ stack \in [Threads -> Seq(Frames)]
      /\ answer \in [Threads -> Answers] /\ exc \in [Threads -> Exceptions] /\ loaded \in SUBSET ClassSet
      /\ initiating \in [Loaders -> [Names -> ClassSet \cup {NoClass}]]
      /\ ThreadSound(world, loaded, initiating, stack[running], answer[running], exc[running])
  BY DEF IInv, TypeOK
<1>2. /\ stack[running] \in Seq(Frames) /\ Top = stack[running][1] /\ Top \in Frames /\ 1 \in DOMAIN stack[running]
      /\ Tail(stack[running]) \in Seq(Frames)
  BY <1>1, TailIs DEF Top
<1>3. FrameSound(world, loaded, initiating, Top)
  BY <1>1, <1>2 DEF ThreadSound, ShapeSound
<1> QED  BY <1>1, <1>2, <1>3 DEF ThreadSound, TopSound, Below

(* It goes on at another place. *)
SameCall(f, f2) ==
  /\ f2.op = f.op /\ f2.cl = f.cl /\ f2.name = f.name /\ f2.dims = f.dims
  /\ f2.raise = f.raise /\ f2.sync = f.sync /\ f2.kept = f.kept

LEMMA GoOnSound ==
  ASSUME NEW w \in Worlds, NEW lo, NEW init, NEW s \in Seq(Frames), s # <<>>, ShapeSound(w, lo, init, s),
         StillMissing(lo, s), NEW f \in Frames, SameCall(s[1], f), FrameSound(w, lo, init, f),
         Defines(f) /\ Sync(s) => ClassOf(f) \notin lo
  PROVE  LET q == <<f>> \o Tail(s)
         IN  /\ q \in Seq(Frames) /\ q # <<>> /\ q[1] = f
             /\ ShapeSound(w, lo, init, q) /\ StillMissing(lo, q) /\ (Sync(q) <=> Sync(s))
<1> DEFINE b == Tail(s)
           q == <<f>> \o b
<1>1. b \in Seq(Frames) /\ s[1] \in Frames /\ s = <<s[1]>> \o b
  BY TailIs
<1>2. ShapeSound(w, lo, init, b) /\ StillMissing(lo, b)
  BY ShapePop, MissingPop
<1>3. ASSUME b # <<>>  PROVE CallSound(w, b[1], f)
  <2>1. 1 \in DOMAIN s /\ 1 + 1 \in DOMAIN s /\ b[1] = s[1 + 1]
    BY <1>1, <1>3, TailIs
  <2>2. CallSound(w, b[1], s[1])
    BY <2>1 DEF ShapeSound
  <2> QED  BY <2>2 DEF CallSound, SameCall
<1>4. ShapeSound(w, lo, init, q)
  BY <1>1, <1>2, <1>3, ShapePush
<1>5. Sync(s) <=> s[1].sync \/ Sync(b)
  <2>1. /\ DOMAIN s = 1 .. Len(s) /\ Len(b) = Len(s) - 1 /\ Len(s) \in Nat /\ DOMAIN b = 1 .. Len(s) - 1 /\ 1 \in DOMAIN s
        /\ \A i \in DOMAIN b : i + 1 \in DOMAIN s /\ b[i] = s[i + 1]
    BY TailIs
  <2>2. \A i \in DOMAIN s : i = 1 \/ (i - 1 \in DOMAIN b /\ s[i] = b[i - 1])
    BY <2>1
  <2> HIDE DEF b
  <2> QED  BY <2>1, <2>2 DEF Sync
<1>6. StillMissing(lo, q) /\ (Sync(q) <=> f.sync \/ Sync(b))
  BY <1>1, <1>2, <1>5, MissingPush DEF SameCall
<1>7. q \in Seq(Frames) /\ q # <<>> /\ q[1] = f
  BY <1>1, ConsIs
<1> QED  BY <1>4, <1>5, <1>6, <1>7 DEF SameCall

LEMMA PairIs ==
  ASSUME NEW s \in Seq(Frames), NEW f \in Frames, NEW g \in Frames
  PROVE  <<f, g>> \o s = <<f>> \o (<<g>> \o s)
<1>1. <<f>> \in Seq(Frames) /\ <<g>> \in Seq(Frames) /\ <<f, g>> = <<f>> \o <<g>>
  <2>1. <<f>> \in Seq(Frames) /\ <<g>> \in Seq(Frames) /\ <<f, g>> \in Seq(Frames)
    OBVIOUS
  <2>2. <<f>> \o <<g>> \in Seq(Frames) /\ Len(<<f>> \o <<g>>) = 2 /\ Len(<<f, g>>) = 2
    OBVIOUS
  <2>3. /\ (<<f>> \o <<g>>)[1] = f /\ (<<f>> \o <<g>>)[2] = g /\ <<f, g>>[1] = f /\ <<f, g>>[2] = g
        /\ \A i \in 1 .. 2 : i = 1 \/ i = 2
    OBVIOUS
  <2> QED  BY <2>1, <2>2, <2>3, SeqEqual
<1> QED  BY <1>1, ConcatAssociative

(* It goes on and calls f. *)
LEMMA CallStep ==
  ASSUME NEW w \in Worlds, NEW lo, NEW init, NEW q \in Seq(Frames), q # <<>>, ShapeSound(w, lo, init, q),
         StillMissing(lo, q), NEW f \in Frames, FrameSound(w, lo, init, f), CallSound(w, q[1], f), ~Waiting(f),
         Defines(f) /\ Sync(q) => ClassOf(f) \notin lo, Defines(f) => ~f.sync, NEW r
  PROVE  /\ <<f>> \o q \in Seq(Frames)
         /\ ThreadSound(w, lo, init, <<f>> \o q, r, "none")
<1>1. <<f>> \o q \in Seq(Frames) /\ <<f>> \o q # <<>> /\ (<<f>> \o q)[1] = f
  BY ConsIs
<1>2. ShapeSound(w, lo, init, <<f>> \o q)
  BY ShapePush
<1>3. StillMissing(lo, <<f>> \o q)
  BY MissingPush
<1> QED  BY <1>1, <1>2, <1>3 DEF ThreadSound, TopSound

-----------------------------------------------------------------------------
(* Marks. *)
LEMMA MarksPop ==
  ASSUME NEW s \in Seq(Frames), s # <<>>, NEW r, NEW e, NEW n, NEW j, Marks(s, r, e, n, j), NEW r2, NEW e2,
         ~(s[1].op = "lookup" /\ s[1].at = "called" /\ s[1].name = n),
         r2.class # NoClass \/ e2 \notin NotFound \/ ~Passes(s[1]) \/ Failed(s[1], r, e)
  PROVE  Marks(Tail(s), r2, e2, n, j - 1)
<1> DEFINE b == Tail(s)
<1>1. /\ Len(s) \in Nat /\ DOMAIN s = 1 .. Len(s) /\ DOMAIN b = 1 .. Len(s) - 1
      /\ \A i \in DOMAIN b : i + 1 \in DOMAIN s /\ b[i] = s[i + 1]
  BY TailIs
<1> HIDE DEF b
<1>2. j \in DOMAIN s /\ j # 1
  BY DEF Marks
<1>3. j - 1 \in DOMAIN b /\ b[j - 1] = s[j]
  BY <1>1, <1>2
<1>4. CASE s[j].cl = Boot
  BY <1>3, <1>4 DEF Marks, b
<1>5. CASE (\A i \in 1 .. j - 1 : s[i].name = n /\ Passes(s[i])) /\ ~Failed(s[1], r, e)
  <2>1. \A i \in 1 .. (j - 1) - 1 : i + 1 \in 1 .. j - 1 /\ i \in DOMAIN b
    BY <1>1, <1>2
  <2>2. \A i \in 1 .. (j - 1) - 1 : b[i].name = n /\ Passes(b[i])
    BY <1>1, <1>5, <2>1
  <2>3. 1 \in 1 .. j - 1
    BY <1>1, <1>2
  <2>4. ~Failed(b[1], r2, e2)
    BY <1>5, <2>3 DEF Failed
  <2> QED  BY <1>3, <2>2, <2>4 DEF Marks, b
<1> QED  BY <1>4, <1>5 DEF Marks

LEMMA MarksGoOn ==
  ASSUME NEW s \in Seq(Frames), s # <<>>, NEW r, NEW e, NEW n, NEW j, Marks(s, r, e, n, j), NEW r2, NEW e2,
         ~(s[1].op = "lookup" /\ s[1].at = "called" /\ s[1].name = n), NEW f \in Frames,
         Passes(s[1]) /\ s[1].name = n /\ ~Failed(s[1], r, e) => Passes(f) /\ f.name = n /\ ~Failed(f, r2, e2)
  PROVE  Marks(<<f>> \o Tail(s), r2, e2, n, j)
<1> DEFINE b == Tail(s)
           q == <<f>> \o b
<1>1. /\ Len(s) \in Nat /\ DOMAIN s = 1 .. Len(s) /\ b \in Seq(Frames) /\ Len(b) = Len(s) - 1 /\ Len(s) >= 1
      /\ \A i \in DOMAIN b : i + 1 \in DOMAIN s /\ b[i] = s[i + 1]
  BY TailIs
<1>2. /\ DOMAIN q = 1 .. 1 + Len(b) /\ q[1] = f /\ DOMAIN b = 1 .. Len(b)
      /\ \A i \in DOMAIN q : i = 1 \/ (i - 1 \in 1 .. Len(b) /\ q[i] = b[i - 1])
  BY <1>1, ConsIs
<1> HIDE DEF q, b
<1>3. DOMAIN q = DOMAIN s
  BY <1>1, <1>2
<1>4. ASSUME NEW i \in DOMAIN s, i # 1  PROVE q[i] = s[i]
  <2>1. i - 1 \in DOMAIN b /\ q[i] = b[i - 1] /\ (i - 1) + 1 = i
    BY <1>1, <1>2, <1>3, <1>4
  <2> QED  BY <1>1, <2>1
<1>5. j \in DOMAIN s /\ j # 1
  BY DEF Marks
<1>6. CASE s[j].cl = Boot
  BY <1>3, <1>4, <1>5, <1>6 DEF Marks, q, b
<1>7. CASE (\A i \in 1 .. j - 1 : s[i].name = n /\ Passes(s[i])) /\ ~Failed(s[1], r, e)
  <2>1. 1 \in 1 .. j - 1 /\ \A i \in 1 .. j - 1 : i \in DOMAIN s
    BY <1>1, <1>5
  <2>2. Passes(f) /\ f.name = n /\ ~Failed(f, r2, e2)
    BY <1>7, <2>1
  <2>3. \A i \in 1 .. j - 1 : q[i].name = n /\ Passes(q[i])
    BY <1>2, <1>4, <1>7, <2>1, <2>2
  <2> QED  BY <1>2, <1>3, <1>4, <1>5, <2>2, <2>3 DEF Marks, q, b
<1> QED  BY <1>6, <1>7 DEF Marks

LEMMA MarksPush ==
  ASSUME NEW s \in Seq(Frames), NEW r, NEW e, NEW n, NEW j, Marks(s, r, e, n, j), NEW r2, NEW e2, NEW f \in Frames,
         ~Failed(f, r2, e2), s[j].cl # Boot => Passes(f) /\ f.name = n
  PROVE  Marks(<<f>> \o s, r2, e2, n, j + 1)
<1> DEFINE q == <<f>> \o s
<1>1. /\ Len(s) \in Nat /\ DOMAIN s = 1 .. Len(s) /\ DOMAIN q = 1 .. 1 + Len(s) /\ q[1] = f
      /\ \A i \in 1 .. Len(s) : q[i + 1] = s[i]
      /\ \A i \in DOMAIN q : i = 1 \/ (i - 1 \in 1 .. Len(s) /\ q[i] = s[i - 1])
  BY ConsIs
<1> HIDE DEF q
<1>2. j \in DOMAIN s /\ j + 1 \in DOMAIN q /\ q[j + 1] = s[j]
  BY <1>1 DEF Marks
<1>3. CASE s[j].cl = Boot
  BY <1>2, <1>3 DEF Marks, q
<1>4. CASE s[j].cl # Boot
  <2>1. \A i \in 1 .. (j + 1) - 1 : i \in DOMAIN q /\ (i = 1 \/ i - 1 \in 1 .. j - 1)
    BY <1>1, <1>2
  <2>2. \A i \in 1 .. (j + 1) - 1 : q[i].name = n /\ Passes(q[i])
    BY <1>1, <1>4, <2>1 DEF Marks
  <2> QED  BY <1>1, <1>2, <2>2 DEF Marks, q
<1> QED  BY <1>3, <1>4


LEMMA MarksCall ==
  ASSUME NEW s \in Seq(Frames), s # <<>>, NEW r, NEW e, NEW n, NEW j, Marks(s, r, e, n, j), NEW r2, NEW e2,
         ~(s[1].op = "lookup" /\ s[1].at = "called" /\ s[1].name = n), NEW g \in Frames, NEW f \in Frames,
         ~Failed(f, r2, e2),
         Passes(s[1]) /\ s[1].name = n /\ ~Failed(s[1], r, e) => Passes(g) /\ g.name = n /\ Passes(f) /\ f.name = n
  PROVE  Marks(<<f>> \o (<<g>> \o Tail(s)), r2, e2, n, j + 1)
<1> DEFINE q == <<g>> \o Tail(s)
           broken == "StackOverflowError"
<1>1. \A h : ~Failed(h, r2, broken)
  BY DEF Failed, NotFound
<1>2. Marks(q, r2, broken, n, j)
  BY <1>1, MarksGoOn
<1>3. q \in Seq(Frames)
  BY TailIs, ConsIs
<1>4. ASSUME q[j].cl # Boot  PROVE Passes(f) /\ f.name = n
  <2>1. j # 1 /\ j \in DOMAIN s /\ DOMAIN s = 1 .. Len(s) /\ Len(s) \in Nat
    BY TailIs DEF Marks
  <2>2. q[j] = s[j]
    <3>1. j - 1 \in DOMAIN Tail(s) /\ j - 1 \in 1 .. Len(Tail(s)) /\ (j - 1) + 1 = j
      BY <2>1, TailIs
    <3> QED  BY <3>1, TailIs, ConsIs
  <2>3. 1 \in 1 .. j - 1
    BY <2>1
  <2> QED  BY <1>4, <2>2, <2>3 DEF Marks
<1> QED  BY <1>2, <1>3, <1>4, MarksPush

LEMMA AnswersAre ==
  /\ Pending \in Answers /\ Pending.class = NoClass
  /\ Null \in Answers /\ Null.class = NoClass
  /\ \A c \in ClassSet \cup {NoClass}, d \in Nat : Result(c, d) \in Answers /\ Result(c, d).class = c /\ Result(c, d).dims = d
<1>1. \A c \in ClassSet \cup {NoClass}, d \in Nat, p \in BOOLEAN : [class |-> c, dims |-> d, pending |-> p] \in Answers
  BY DEF Answers
<1>2. NoClass \in ClassSet \cup {NoClass}
  OBVIOUS
<1> QED  BY <1>1, <1>2 DEF Pending, Null, Result

-----------------------------------------------------------------------------
(* One lemma for each way a step of the running thread ends. *)
LEMMA QuietTables ==
  ASSUME IInv, UNCHANGED <<loaded, initiating>>
  PROVE  /\ loaded' \in SUBSET ClassSet /\ initiating' \in [Loaders -> [Names -> ClassSet \cup {NoClass}]]
         /\ Grows(loaded, initiating, loaded', initiating') /\ TablesSound(world, loaded', initiating')
BY DEF IInv, TypeOK, Grows

(* The top activation returns. *)
LEMMA ReturnStep ==
  ASSUME IInv, stack[running] # <<>>, UNCHANGED <<loaded, initiating, world, running, info>>,
         NEW r \in Answers, NEW e \in Exceptions, Return(r, e),
         Returns(world, loaded, initiating, Top, r, e, Sync(stack[running])),
         MarksKept(Below, r, e)
  PROVE  IInv' /\ Answered
<1>1. Changes(Below, r, e) /\ Below \in Seq(Frames)
  BY Here DEF Return, Answer, Changes, IInv, TypeOK
<1>2. ThreadSound(world, loaded, initiating, Below, r, e)
  <2>1. /\ world \in Worlds /\ stack[running] \in Seq(Frames) /\ ShapeSound(world, loaded, initiating, stack[running])
        /\ StillMissing(loaded, stack[running]) /\ Below = Tail(stack[running]) /\ Top = stack[running][1]
    BY Here
  <2> QED  BY <2>1, ReturnSound
<1>3. ThreadSound(world, loaded', initiating', Below, r, e)
  BY <1>2
<1>4. Returns(world, loaded', initiating', Top, r, e, Sync(stack[running]))
  OBVIOUS
<1> QED  BY <1>1, <1>3, <1>4, QuietTables, RunStep

(* The top activation goes on. *)
LEMMA GoOnStep ==
  ASSUME IInv, stack[running] # <<>>, UNCHANGED <<loaded, initiating, world, running, info>>,
         NEW f \in Frames, GoOn(f), SameCall(Top, f), FrameSound(world, loaded, initiating, f),
         Defines(f) /\ Sync(stack[running]) => ClassOf(f) \notin loaded,
         NEW r \in Answers, NEW e \in Exceptions,
         answer' = [answer EXCEPT ![running] = r], exc' = [exc EXCEPT ![running] = e],
         IF Waiting(f) THEN AnswerSound(world, loaded, initiating, f, r, e, Sync(stack[running])) ELSE e = "none",
         MarksKept(<<f>> \o Below, r, e)
  PROVE  IInv' /\ Answered
<1> DEFINE q == <<f>> \o Below
<1>1. /\ world \in Worlds /\ stack[running] \in Seq(Frames) /\ ShapeSound(world, loaded, initiating, stack[running])
      /\ StillMissing(loaded, stack[running]) /\ Below = Tail(stack[running]) /\ Top = stack[running][1]
  BY Here
<1>2. /\ q \in Seq(Frames) /\ q # <<>> /\ q[1] = f
      /\ ShapeSound(world, loaded, initiating, q) /\ StillMissing(loaded, q) /\ (Sync(q) <=> Sync(stack[running]))
  BY <1>1, GoOnSound
<1>3. TopSound(world, loaded, initiating, q, r, e)
  <2>1. AnswerSound(world, loaded, initiating, f, r, e, Sync(stack[running])) => AnswerSound(world, loaded, initiating, f, r, e, Sync(q))
    BY <1>2 DEF AnswerSound
  <2> HIDE DEF q
  <2> QED  BY <1>2, <2>1 DEF TopSound
<1>4. ThreadSound(world, loaded', initiating', q, r, e)
  BY <1>2, <1>3 DEF ThreadSound
<1>5. Changes(q, r, e)
  BY DEF GoOn, Changes, IInv, TypeOK
<1> QED  BY <1>2, <1>4, <1>5, QuietTables, RunStep

(* The top activation g calls f. *)
LEMMA CalledStep ==
  ASSUME IInv, stack[running] # <<>>, UNCHANGED <<loaded, initiating, world, running, info>>,
         NEW g \in Frames, NEW f \in Frames, Call(g, f), exc' = [exc EXCEPT ![running] = "none"],
         SameCall(Top, g), FrameSound(world, loaded, initiating, g),
         FrameSound(world, loaded, initiating, f), CallSound(world, g, f), ~Waiting(f),
         Defines(g) /\ Sync(stack[running]) => ClassOf(g) \notin loaded,
         Defines(f) /\ Sync(stack[running]) => ClassOf(f) \notin loaded, Defines(f) => ~f.sync,
         MarksKept(<<f>> \o (<<g>> \o Below), Pending, "none")
  PROVE  IInv' /\ Answered
<1> DEFINE q == <<g>> \o Below
<1>1. /\ world \in Worlds /\ stack[running] \in Seq(Frames) /\ ShapeSound(world, loaded, initiating, stack[running])
      /\ StillMissing(loaded, stack[running]) /\ Below = Tail(stack[running]) /\ Top = stack[running][1]
      /\ Below \in Seq(Frames)
  BY Here
<1>2. /\ q \in Seq(Frames) /\ q # <<>> /\ q[1] = g
      /\ ShapeSound(world, loaded, initiating, q) /\ StillMissing(loaded, q) /\ (Sync(q) <=> Sync(stack[running]))
  BY <1>1, GoOnSound
<1>3. /\ <<f>> \o q \in Seq(Frames) /\ ThreadSound(world, loaded, initiating, <<f>> \o q, Pending, "none")
      /\ <<f>> \o q # <<>>
  <2> HIDE DEF q
  <2>1. <<f>> \o q # <<>>
    BY <1>2, ConsIs
  <2> QED  BY <1>1, <1>2, <2>1, CallStep
<1>4. Changes(<<f>> \o q, Pending, "none")
  BY <1>1, PairIs DEF Call, Changes, IInv, TypeOK
<1>5. ThreadSound(world, loaded', initiating', <<f>> \o q, Pending, "none")
  BY <1>3
<1>6. Pending \in Answers /\ "none" \in Exceptions
  BY AnswersAre DEF Exceptions
<1> QED  BY <1>3, <1>4, <1>5, <1>6, QuietTables, RunStep


(* An activation of define_class that begins. *)
LEMMA DefineFrameSound ==
  ASSUME NEW w \in Worlds, NEW lo, NEW init, NEW f \in Frames, f.op = "define", f.at = "enter", f.dims = 0, f.raise,
         ~f.sync, f.k = 1, HasFile(w, f.cl, f.name), Definer(w, f.cl, f.name) = <<f.cl, f.name>>
  PROVE  FrameSound(w, lo, init, f)
<1>1. FileOf(w, f).supers \in Seq(Names)
  BY WorldIs DEF FileOf, ClassOf, HasFile
<1>2. Len(FileOf(w, f).supers) \in Nat
  BY <1>1
<1>3. \A j \in 1 .. f.k - 1 : FALSE
  OBVIOUS
<1> QED  BY <1>2, <1>3 DEF FrameSound, Wanted, ClassOf


-----------------------------------------------------------------------------
(* lookup_class. *)
LEMMA LookupStep ==
  ASSUME IInv, lookup_class  PROVE IInv' /\ Answered
<1> DEFINE s == stack[running]
           f == Top
           n == Top.name
           c == initiating[Top.cl][Top.name]
           called == [Top EXCEPT !.at = "called"]
<1>1. /\ s # <<>> /\ f.op = "lookup" /\ f.at = "enter" /\ UNCHANGED <<loaded, initiating, world, running, info, abandoned>>
  BY DEF lookup_class, Is, Control
<1>2. /\ world \in Worlds /\ running \in Threads /\ loaded \in SUBSET ClassSet
      /\ initiating \in [Loaders -> [Names -> ClassSet \cup {NoClass}]]
      /\ s \in Seq(Frames) /\ answer[running] \in Answers /\ f = s[1] /\ f \in Frames /\ Below = Tail(s)
      /\ FrameSound(world, loaded, initiating, f) /\ exc[running] = "none" /\ TablesSound(world, loaded, initiating)
  BY <1>1, Here DEF Waiting, IInv
<1>3. f.cl \in Loaders /\ n \in Names /\ f.dims \in Nat /\ c \in ClassSet \cup {NoClass}
  BY <1>2 DEF Frames
<1>4. called \in Frames /\ SameCall(f, called) /\ called.at = "called" /\ called.op = "lookup" /\ called.name = n
      /\ called.cl = f.cl /\ called.kept = f.kept
  BY <1>1, <1>2 DEF Frames, SameCall
<1>5. FrameSound(world, loaded, initiating, called) /\ Waiting(called) /\ ~Defines(called)
  BY <1>4 DEF FrameSound, Waiting, Defines
<1>6. ~Passes(called) /\ (Passes(f) => f.cl = Boot) /\ \A r, e : ~Failed(called, r, e)
  BY <1>1, <1>4 DEF Passes, Failed
<1>7. CASE c # NoClass
  <2>1. Return(Result(c, f.dims), exc[running]) /\ inchoate' = inchoate
    BY <1>7 DEF lookup_class
  <2>2. Result(c, f.dims) \in Answers /\ Result(c, f.dims).class = c /\ Result(c, f.dims).dims = f.dims
    BY <1>3, AnswersAre
  <2>3. c = Wanted(world, f) /\ c \in loaded
    BY <1>2, <1>3, <1>7 DEF TablesSound, Wanted
  <2>4. Returns(world, loaded, initiating, f, Result(c, f.dims), exc[running], Sync(s))
    BY <1>2, <1>7, <2>2, <2>3 DEF Returns
  <2>5. ASSUME NEW x, NEW j, Marks(s, answer[running], exc[running], x, j)
        PROVE  Marks(Below, Result(c, f.dims), exc[running], x, j - 1)
    BY <1>1, <1>2, <1>7, <2>2, <2>5, MarksPop
  <2>6. MarksKept(Below, Result(c, f.dims), exc[running])
    BY <1>1, <2>1, <2>5 DEF MarksKept
  <2>7. exc[running] \in Exceptions
    BY <1>2 DEF Exceptions
  <2> QED  BY <1>1, <2>1, <2>2, <2>4, <2>6, <2>7, ReturnStep
<1>8. CASE c = NoClass /\ f.cl # Boot /\ Overflows
  <2>1. GoOn(called) /\ Answer(Null, "StackOverflowError") /\ inchoate' = inchoate \cup {n}
    BY <1>8 DEF lookup_class, CallJava
  <2>2. AnswerSound(world, loaded, initiating, called, Null, "StackOverflowError", Sync(s))
    BY <1>4, AnswersAre DEF AnswerSound, Failure, Machine
  <2>3. Marks(<<called>> \o Below, Null, "StackOverflowError", n, 1)
    <3>1. 1 \in DOMAIN (<<called>> \o Below) /\ (<<called>> \o Below)[1] = called
      BY <1>1, <1>2, <1>4, TailIs, ConsIs
    <3>2. \A i \in 1 .. 1 - 1 : FALSE
      OBVIOUS
    <3> QED  BY <1>4, <1>6, <3>1, <3>2 DEF Marks
  <2>4. ASSUME NEW x \in inchoate, x # n, NEW j, Marks(s, answer[running], exc[running], x, j)
        PROVE  Marks(<<called>> \o Below, Null, "StackOverflowError", x, j)
    BY <1>1, <1>2, <1>4, <2>4, MarksGoOn
  <2>5. MarksKept(<<called>> \o Below, Null, "StackOverflowError")
    BY <1>1, <2>1, <2>3, <2>4 DEF MarksKept
  <2> QED  BY <1>1, <1>4, <1>5, <2>1, <2>2, <2>5, GoOnStep, AnswersAre DEF Answer, Exceptions
<1>9. CASE c = NoClass /\ f.cl = Boot /\ ~HasFile(world, Boot, n)
  <2>1. GoOn(called) /\ Answer(Null, "none") /\ inchoate' = inchoate \cup {n}
    BY <1>2, <1>9 DEF lookup_class
  <2>2. Awaited(world, called) = NoClass
    BY <1>4, <1>9, DefinerBoot DEF Awaited, Wanted
  <2>3. AnswerSound(world, loaded, initiating, called, Null, "none", Sync(s))
    BY <1>4, <2>2, AnswersAre DEF AnswerSound, Failure, NotFound
  <2>4. Marks(<<called>> \o Below, Null, "none", n, 1)
    <3>1. 1 \in DOMAIN (<<called>> \o Below) /\ (<<called>> \o Below)[1] = called
      BY <1>1, <1>2, <1>4, TailIs, ConsIs
    <3> QED  BY <1>4, <1>9, <3>1 DEF Marks
  <2>5. ASSUME NEW x \in inchoate, x # n, NEW j, Marks(s, answer[running], exc[running], x, j)
        PROVE  Marks(<<called>> \o Below, Null, "none", x, j)
    BY <1>1, <1>2, <1>4, <2>5, MarksGoOn
  <2>6. MarksKept(<<called>> \o Below, Null, "none")
    BY <1>1, <2>1, <2>4, <2>5 DEF MarksKept
  <2> QED  BY <1>1, <1>4, <1>5, <2>1, <2>3, <2>6, GoOnStep, AnswersAre DEF Answer, Exceptions
<1>10. ASSUME NEW g \in Frames, c = NoClass, Call(called, g), UNCHANGED exc, inchoate' = inchoate \cup {n},
              FrameSound(world, loaded, initiating, g), CallSound(world, called, g), ~Waiting(g), ~g.sync,
              Defines(g) => ClassOf(g) \notin loaded, f.cl = Boot \/ (Passes(g) /\ g.name = n), g.at # "parent"
       PROVE  IInv' /\ Answered
  <2> DEFINE q == <<called>> \o Below
             q2 == <<g>> \o q
  <2>1. q \in Seq(Frames) /\ q[1] = called /\ 1 \in DOMAIN q
    BY <1>1, <1>2, <1>4, TailIs, ConsIs
  <2>2. 1 + 1 \in DOMAIN q2 /\ q2[1] = g /\ q2[2] = called
    BY <2>1, ConsIs
  <2> HIDE DEF q
  <2>3. \A r, e : ~Failed(g, r, e)
    BY <1>10 DEF Failed
  <2>4. Marks(q2, Pending, "none", n, 2)
    <3>1. \A i \in 1 .. 2 - 1 : i = 1
      OBVIOUS
    <3> HIDE DEF q2
    <3> QED  BY <1>4, <1>10, <2>2, <2>3, <3>1 DEF Marks
  <2>5. ASSUME NEW x \in inchoate, x # n, NEW j, Marks(s, answer[running], exc[running], x, j)
        PROVE  Marks(q2, Pending, "none", x, j + 1)
    BY <1>1, <1>2, <1>4, <2>3, <2>5, MarksCall DEF q
  <2>6. MarksKept(q2, Pending, "none")
    BY <1>1, <1>10, <2>4, <2>5 DEF MarksKept
  <2>7. exc' = [exc EXCEPT ![running] = "none"]
    BY <1>2, <1>10 DEF IInv, TypeOK
  <2> QED  BY <1>1, <1>4, <1>5, <1>10, <2>6, <2>7, CalledStep DEF q
<1>11. CASE c = NoClass /\ f.cl # Boot /\ ~Overflows
  <2> DEFINE g == LoadFrame(f.cl, n, FALSE)
  <2>1. Call(called, g) /\ UNCHANGED exc /\ inchoate' = inchoate \cup {n}
    BY <1>11 DEF lookup_class, CallJava
  <2>2. g \in Frames /\ g.op = "load" /\ g.at = "lock" /\ g.cl = f.cl /\ g.name = n /\ g.dims = 0 /\ g.raise
        /\ g.kept /\ ~g.sync
    BY <1>3 DEF LoadFrame, Frame, Frames
  <2> HIDE DEF g
  <2>3. FrameSound(world, loaded, initiating, g)
    BY <1>11, <2>2 DEF FrameSound
  <2>4. CallSound(world, called, g)
    BY <1>4, <1>5, <2>2 DEF CallSound
  <2>5. ~Waiting(g) /\ ~Defines(g) /\ Passes(g)
    BY <2>2 DEF Waiting, Defines, Passes
  <2> QED  BY <1>10, <1>11, <2>1, <2>2, <2>3, <2>4, <2>5
<1>12. CASE c = NoClass /\ f.cl = Boot /\ HasFile(world, Boot, n)
  <2> DEFINE g == DefineFrame(Boot, n)
  <2>1. Call(called, g) /\ UNCHANGED exc /\ inchoate' = inchoate \cup {n}
    BY <1>12 DEF lookup_class
  <2>2. g \in Frames /\ g.op = "define" /\ g.at = "enter" /\ g.cl = Boot /\ g.name = n /\ g.dims = 0 /\ g.raise
        /\ g.kept /\ ~g.sync /\ g.k = 1
    BY <1>3, BootIs DEF DefineFrame, Frame, Frames
  <2> HIDE DEF g
  <2>3. FrameSound(world, loaded, initiating, g)
    <3>1. Definer(world, Boot, n) = <<Boot, n>>
      BY <1>12, DefinerBoot
    <3> QED  BY <1>2, <1>12, <2>2, <3>1, DefineFrameSound
  <2>4. CallSound(world, called, g)
    BY <1>4, <1>5, <1>12, <2>2 DEF CallSound
  <2>5. ~Waiting(g)
    BY <2>2 DEF Waiting
  <2>6. ClassOf(g) \notin loaded
    <3>1. ClassOf(g)[1] = Boot /\ ClassOf(g)[2] = n /\ ClassOf(g) # NoClass
      BY <2>2, NoClassIs DEF ClassOf
    <3> QED  BY <1>2, <1>12, <3>1 DEF TablesSound
  <2> QED  BY <1>10, <1>12, <2>1, <2>2, <2>3, <2>4, <2>5, <2>6
<1> QED  BY <1>3, <1>7, <1>8, <1>9, <1>11, <1>12


-----------------------------------------------------------------------------
(* What lookup_class records. *)
LEMMA RecordersAre ==
  ASSUME NEW w, NEW l \in Loaders, NEW n \in Names, Definer(w, l, n) # NoClass
  PROVE  LET c == Definer(w, l, n)
         IN  /\ RecordingLoaders(l, c) \subseteq Loaders
             /\ \A k \in RecordingLoaders(l, c) :
                  /\ Definer(w, k, n) = c
                  /\ \A i \in DOMAIN Ancestors(k) :
                       (\A j \in 1 .. i : Ancestors(k)[j] # c[1]) => Ancestors(k)[i] \in RecordingLoaders(l, c)
<1> DEFINE c == Definer(w, l, n)
           up == Ancestors(l)
           R == RecordingLoaders(l, c)
<1>1. PICK m \in 1 .. Height(l) :
        /\ c = <<up[m], n>>
        /\ \A i \in 1 .. m : Definer(w, up[i], n) = c
        /\ \A i \in 1 .. Height(l) : i < m <=> \A j \in 1 .. i : up[j] # up[m]
  BY DefinerBelow
<1>2. Height(l) \in Nat \ {0} /\ DOMAIN up = 1 .. Height(l) /\ \A i \in 1 .. Height(l) : up[i] \in Loaders
  BY HeightIs
<1>3. c[1] = up[m]
  BY <1>1
<1>4. R = {up[i] : i \in {j \in DOMAIN up : \A a \in 1 .. j : up[a] # c[1]}}
  BY DEF RecordingLoaders
<1> HIDE DEF c, R, up
<1>5. \A k : k \in R <=> \E i \in 1 .. Height(l) : i < m /\ k = up[i]
  BY <1>1, <1>2, <1>3, <1>4
<1>6. ASSUME NEW k \in R
      PROVE  /\ k \in Loaders /\ Definer(w, k, n) = c
             /\ \A i \in DOMAIN Ancestors(k) : (\A j \in 1 .. i : Ancestors(k)[j] # c[1]) => Ancestors(k)[i] \in R
  <2>1. PICK a \in 1 .. Height(l) : a < m /\ k = up[a]
    BY <1>5
  <2>2. a \in 1 .. m
    BY <1>2, <2>1
  <2>3. k \in Loaders /\ Definer(w, k, n) = c
    BY <1>1, <1>2, <2>1, <2>2
  <2>4. /\ Height(k) = Height(l) - a + 1 /\ DOMAIN Ancestors(k) = 1 .. Height(k)
        /\ \A j \in 1 .. Height(l) - a + 1 : Ancestors(k)[j] = up[a + j - 1]
    BY <2>1, <2>3, AncestorsRest, HeightIs DEF up
  <2>5. ASSUME NEW i \in DOMAIN Ancestors(k), \A j \in 1 .. i : Ancestors(k)[j] # c[1]  PROVE Ancestors(k)[i] \in R
    <3>1. i \in 1 .. Height(l) - a + 1 /\ a + i - 1 \in 1 .. Height(l) /\ Ancestors(k)[i] = up[a + i - 1]
      BY <1>2, <2>4
    <3>2. CASE a + i - 1 < m
      BY <1>5, <3>1, <3>2
    <3>3. CASE ~(a + i - 1 < m)
      <4>1. m - a + 1 \in 1 .. i /\ m - a + 1 \in 1 .. Height(l) - a + 1 /\ a + (m - a + 1) - 1 = m
        BY <1>2, <2>1, <3>1, <3>3
      <4>2. Ancestors(k)[m - a + 1] = up[m]
        BY <2>4, <4>1
      <4> QED  BY <1>3, <2>5, <4>1, <4>2
    <3> QED  BY <3>2, <3>3
  <2> QED  BY <2>3, <2>5
<1> QED  BY <1>6 DEF c, R

Tables == [Loaders -> [Names -> ClassSet \cup {NoClass}]]

(* Tables that keep what they have, with new entries R for one name. *)
LEMMA RecordSound ==
  ASSUME NEW w \in Worlds, NEW lo \in SUBSET ClassSet, NEW init \in Tables, TablesSound(w, lo, init),
         NEW l \in Loaders, NEW n \in Names, NEW c \in lo, c = Definer(w, l, n), NEW init2,
         init2 = [k \in Loaders |-> IF k \in RecordingLoaders(l, c) THEN [init[k] EXCEPT ![n] = c] ELSE init[k]]
  PROVE  init2 \in Tables /\ Grows(lo, init, lo, init2) /\ TablesSound(w, lo, init2)
<1> DEFINE R == RecordingLoaders(l, c)
<1>1. c \in ClassSet /\ c # NoClass /\ \A d \in lo : d # NoClass /\ d[1] \in Loaders /\ d[2] \in Names
  BY NoClassIs DEF ClassSet
<1>2. /\ R \subseteq Loaders
      /\ \A k \in R : /\ Definer(w, k, n) = c
                      /\ \A i \in DOMAIN Ancestors(k) : (\A j \in 1 .. i : Ancestors(k)[j] # c[1]) => Ancestors(k)[i] \in R
  BY <1>1, RecordersAre
<1>3. init2 \in Tables
  BY <1>1 DEF Tables
<1>4. \A k \in Loaders, x \in Names : init2[k][x] = IF k \in R /\ x = n THEN c ELSE init[k][x]
  BY DEF Tables
<1> HIDE DEF R
<1>5. ASSUME NEW k \in Loaders, NEW x \in Names, init[k][x] # NoClass  PROVE init2[k][x] = init[k][x]
  BY <1>2, <1>4, <1>5 DEF TablesSound
<1>6. Grows(lo, init, lo, init2)
  BY <1>5 DEF Grows
<1>7. ASSUME NEW d \in lo  PROVE init2[d[1]][d[2]] = d /\ d \in Loadable(w)
  BY <1>1, <1>5 DEF TablesSound
<1>8. ASSUME NEW k \in Loaders, NEW x \in Names, init2[k][x] # NoClass
      PROVE  /\ init2[k][x] = Definer(w, k, x) /\ init2[k][x] \in lo
             /\ \A i \in DOMAIN Ancestors(k) :
                  (\A m \in 1 .. i : Ancestors(k)[m] # init2[k][x][1]) => init2[Ancestors(k)[i]][x] = init2[k][x]
  <2>1. \A i \in DOMAIN Ancestors(k) : Ancestors(k)[i] \in Loaders
    BY HeightIs
  <2>2. CASE init[k][x] # NoClass
    <3>1. init2[k][x] = init[k][x] /\ init[k][x] = Definer(w, k, x) /\ init[k][x] \in lo
      BY <1>5, <2>2 DEF TablesSound
    <3>2. ASSUME NEW i \in DOMAIN Ancestors(k), \A m \in 1 .. i : Ancestors(k)[m] # init[k][x][1]
          PROVE  init2[Ancestors(k)[i]][x] = init[k][x]
      <4>1. init[Ancestors(k)[i]][x] = init[k][x]
        BY <2>2, <3>2 DEF TablesSound
      <4> QED  BY <1>5, <2>1, <2>2, <4>1
    <3> QED  BY <3>1, <3>2
  <2>3. CASE init[k][x] = NoClass
    <3>1. k \in R /\ x = n /\ init2[k][x] = c
      BY <1>4, <1>8, <2>3
    <3> QED  BY <1>2, <1>4, <2>1, <3>1
  <2> QED  BY <2>2, <2>3
<1>9. ASSUME NEW d \in lo, NEW s \in SupersOf(w, d)  PROVE s \in lo /\ init2[d[1]][s[2]] = s /\ ~Leads(w, s, d)
  <2>1. s \in lo /\ init[d[1]][s[2]] = s /\ ~Leads(w, s, d)
    BY DEF TablesSound
  <2> QED  BY <1>1, <1>5, <2>1
<1> QED  BY <1>3, <1>6, <1>7, <1>8, <1>9 DEF TablesSound

(* What define_class records: a class whose supertypes are all there. *)
Definable(w, lo, init, l, n, c) ==
  /\ c = <<l, n>> /\ c = Definer(w, l, n) /\ HasFile(w, l, n) /\ w.files[c].parses
  /\ \A s \in SupersOf(w, c) : s \in lo /\ init[l][s[2]] = s /\ n \in w.files[s].permits
Adds(lo, init, l, n, c, lo2, init2) ==
  /\ \A d : d \in lo2 <=> d \in lo \/ d = c
  /\ \A k \in Loaders, x \in Names : init2[k][x] = IF k = l /\ x = n THEN c ELSE init[k][x]

LEMMA DefinedSound ==
  ASSUME NEW w \in Worlds, NEW lo \in SUBSET ClassSet, NEW init \in Tables, TablesSound(w, lo, init),
         NEW l \in Loaders, NEW n \in Names, NEW c, Definable(w, lo, init, l, n, c),
         NEW lo2 \in SUBSET ClassSet, NEW init2 \in Tables, Adds(lo, init, l, n, c, lo2, init2)
  PROVE  Grows(lo, init, lo2, init2) /\ TablesSound(w, lo2, init2)
<1> USE DEF Definable, Adds
<1>1. /\ c \in ClassSet /\ c # NoClass /\ c \in DOMAIN w.files /\ c[1] = l /\ c[2] = n
      /\ \A d \in lo : d # NoClass /\ d[1] \in Loaders /\ d[2] \in Names
  BY NoClassIs DEF ClassSet, HasFile
<1>2. ASSUME NEW k \in Loaders, NEW x \in Names, init[k][x] # NoClass  PROVE init2[k][x] = init[k][x]
  BY <1>2 DEF TablesSound
<1>3. Grows(lo, init, lo2, init2)
  BY <1>2 DEF Grows
<1>4. lo \in SUBSET DOMAIN w.files /\ \A d \in lo : SupersOf(w, d) \subseteq lo
  BY LoadableIs DEF TablesSound
<1>5. ASSUME NEW d \in lo2  PROVE init2[d[1]][d[2]] = d /\ d \in Loadable(w)
  <2>1. CASE d \in lo
    BY <1>1, <1>2, <2>1 DEF TablesSound
  <2>2. CASE d = c
    <3>1. \A s \in SupersOf(w, c) : s \in Loadable(w) /\ c[2] \in w.files[s].permits
      BY <1>1 DEF TablesSound
    <3>2. c \in Loadable(w)
      BY <1>1, <3>1, LoadableUp
    <3> QED  BY <1>1, <2>2, <3>2
  <2> QED  BY <2>1, <2>2
<1>6. ASSUME NEW k \in Loaders, NEW x \in Names, init2[k][x] # NoClass
      PROVE  /\ init2[k][x] = Definer(w, k, x) /\ init2[k][x] \in lo2
             /\ \A i \in DOMAIN Ancestors(k) :
                  (\A m \in 1 .. i : Ancestors(k)[m] # init2[k][x][1]) => init2[Ancestors(k)[i]][x] = init2[k][x]
  <2>1. \A i \in DOMAIN Ancestors(k) : Ancestors(k)[i] \in Loaders /\ 1 \in 1 .. i
    BY HeightIs
  <2>2. CASE init[k][x] # NoClass
    <3>1. init2[k][x] = init[k][x] /\ init[k][x] = Definer(w, k, x) /\ init[k][x] \in lo
      BY <1>2, <2>2 DEF TablesSound
    <3>2. ASSUME NEW i \in DOMAIN Ancestors(k), \A m \in 1 .. i : Ancestors(k)[m] # init[k][x][1]
          PROVE  init2[Ancestors(k)[i]][x] = init[k][x]
      <4>1. init[Ancestors(k)[i]][x] = init[k][x]
        BY <2>2, <3>2 DEF TablesSound
      <4> QED  BY <1>2, <2>1, <2>2, <4>1
    <3> QED  BY <3>1, <3>2
  <2>3. CASE init[k][x] = NoClass
    <3>1. k = l /\ x = n /\ init2[k][x] = c
      BY <1>6, <2>3
    <3>2. Ancestors(l)[1] = l
      BY AncestorsType
    <3> QED  BY <1>1, <2>1, <3>1, <3>2
  <2> QED  BY <2>2, <2>3
<1>7. ASSUME NEW d \in lo2, NEW s \in SupersOf(w, d)  PROVE s \in lo2 /\ init2[d[1]][s[2]] = s /\ ~Leads(w, s, d)
  <2>1. s \in lo /\ init[d[1]][s[2]] = s /\ d[1] \in Loaders
    BY <1>1 DEF TablesSound
  <2>2. init2[d[1]][s[2]] = s
    BY <1>1, <1>2, <2>1
  <2>3. CASE d \in lo
    BY <2>1, <2>2, <2>3 DEF TablesSound
  <2>4. CASE d \notin lo
    BY <1>4, <2>1, <2>2, <2>4, LeadsInside
  <2> QED  BY <2>3, <2>4
<1> QED  BY <1>3, <1>5, <1>6, <1>7 DEF TablesSound


LEMMA UnchangedStep ==
  ASSUME IInv, UNCHANGED <<world, loaded, initiating, inchoate, info, stack, answer, exc, running, abandoned>>
  PROVE  IInv' /\ Answered
<1>1. TypeOK'
  BY DEF IInv, TypeOK, References
<1>2. MarksSound'
  BY DEF IInv, MarksSound
<1>3. \A t \in Threads \ {running} : ~Synchronous(t)'
  BY DEF IInv, Synchronous
<1> QED  BY <1>1, <1>2, <1>3 DEF IInv, Answered, Ends


(* No memory for the name of the class. *)
LEMMA OutOfMemoryStep ==
  ASSUME IInv, LookupOutOfMemory  PROVE IInv' /\ Answered
<1> DEFINE s == stack[running]
           f == Top
           e == "OutOfMemoryError"
<1>1. /\ s # <<>> /\ f.op = "lookup" /\ f.at = "enter" /\ f.cl # Boot /\ UNCHANGED <<loaded, initiating, world, running, info>>
      /\ Return(Null, e) /\ inchoate' = inchoate \cup {f.name} /\ abandoned' = abandoned \cup {f.name}
  BY DEF LookupOutOfMemory, Is
<1>2. s \in Seq(Frames) /\ f = s[1] /\ Below = Tail(s)
  BY <1>1, Here
<1>3. Returns(world, loaded, initiating, f, Null, e, Sync(s))
  BY AnswersAre DEF Returns, Failure, Machine
<1>4. ASSUME NEW x, NEW j, Marks(s, answer[running], exc[running], x, j)  PROVE Marks(Below, Null, e, x, j - 1)
  BY <1>1, <1>2, <1>4, MarksPop DEF Passes
<1>5. MarksKept(Below, Null, e)
  BY <1>1, <1>4 DEF MarksKept
<1> QED  BY <1>1, <1>3, <1>5, AnswersAre, ReturnStep DEF Exceptions

LEMMA LookupDoneStep ==
  ASSUME IInv, LookupDone  PROVE IInv' /\ Answered
<1> DEFINE s == stack[running]
           f == Top
           r == answer[running]
           c == answer[running].class
           e == exc[running]
<1>1. /\ s # <<>> /\ f.op = "lookup" /\ f.at = "called" /\ UNCHANGED <<loaded, world, running, info, abandoned>>
      /\ inchoate' = inchoate \ {f.name}
  BY DEF LookupDone, Is, Control, WithoutMark
<1>2. /\ world \in Worlds /\ running \in Threads /\ loaded \in SUBSET ClassSet /\ initiating \in Tables
      /\ s \in Seq(Frames) /\ f = s[1] /\ f \in Frames /\ Below = Tail(s) /\ Below \in Seq(Frames)
      /\ AnswerSound(world, loaded, initiating, f, r, e, Sync(s)) /\ TablesSound(world, loaded, initiating) /\ e \in Exceptions
      /\ ShapeSound(world, loaded, initiating, s) /\ StillMissing(loaded, s)
  BY <1>1, Here DEF Waiting, IInv, Tables
<1>3. f.cl \in Loaders /\ f.name \in Names /\ f.dims \in Nat
  BY <1>2 DEF Frames
<1>4. Awaited(world, f) = Wanted(world, f)
  BY <1>1 DEF Awaited
<1>5. ASSUME NEW r2, NEW e2  PROVE MarksKept(Below, r2, e2)
  <2>1. ASSUME NEW x, x # f.name, NEW j, Marks(s, r, e, x, j)  PROVE Marks(Below, r2, e2, x, j - 1)
    BY <1>1, <1>2, <2>1, MarksPop DEF Passes
  <2> QED  BY <1>1, <2>1 DEF MarksKept
<1>6. CASE c = NoClass
  <2> DEFINE failed == IF f.raise /\ e = "none" THEN "ClassNotFoundException" ELSE e
  <2>1. Return(Null, failed) /\ UNCHANGED initiating
    BY <1>6 DEF LookupDone
  <2>2. Failure(world, loaded, Wanted(world, f), e) /\ (e = "LinkageError" => ~Sync(s))
    BY <1>2, <1>4, <1>6 DEF AnswerSound
  <2>3. Failure(world, loaded, Wanted(world, f), failed)
    BY <2>2 DEF Failure, Machine, NotFound
  <2>4. Returns(world, loaded, initiating, f, Null, failed, Sync(s)) /\ failed \in Exceptions
    BY <1>2, <2>2, <2>3, AnswersAre DEF Returns, Exceptions
  <2> HIDE DEF failed
  <2> QED  BY <1>1, <1>5, <2>1, <2>4, AnswersAre, ReturnStep
<1>7. CASE c # NoClass
  <2>1. PICK dims \in (IF f.kept THEN {f.dims} ELSE 0 .. MaxDims) :
          /\ initiating' = [l \in Loaders |-> IF l \in RecordingLoaders(f.cl, c)
                                              THEN [initiating[l] EXCEPT ![f.name] = c] ELSE initiating[l]]
          /\ Return(Result(c, dims), e)
    BY <1>7 DEF LookupDone
  <2>2. c = Definer(world, f.cl, f.name) /\ c \in loaded /\ e = "none"
    BY <1>2, <1>4, <1>7 DEF AnswerSound, Wanted
  <2>3. initiating' \in Tables /\ Grows(loaded, initiating, loaded, initiating') /\ TablesSound(world, loaded, initiating')
    <3>1. PICK l, n, d : l = f.cl /\ n = f.name /\ d = c
      OBVIOUS
    <3>2. /\ l \in Loaders /\ n \in Names /\ d \in loaded /\ d = Definer(world, l, n)
          /\ initiating' = [k \in Loaders |-> IF k \in RecordingLoaders(l, d) THEN [initiating[k] EXCEPT ![n] = d]
                                              ELSE initiating[k]]
      BY <1>3, <2>1, <2>2, <3>1
    <3>3. world \in Worlds /\ loaded \in SUBSET ClassSet /\ initiating \in Tables /\ TablesSound(world, loaded, initiating)
      BY <1>2
    <3> QED  BY <3>2, <3>3, RecordSound
  <2>4. dims \in Nat /\ (f.kept => dims = f.dims)
    BY <1>3, <2>1, LoadersAssumption
  <2>5. Result(c, dims) \in Answers /\ Result(c, dims).class = c /\ Result(c, dims).dims = dims
    BY <1>2, <2>2, <2>4, AnswersAre
  <2>6. Returns(world, loaded, initiating', f, Result(c, dims), e, Sync(s))
    <3>1. initiating'[f.cl][f.name] = c
      <4>0. Definer(world, f.cl, f.name)[2] = f.name
        BY <1>3, <1>7, <2>2, DefinerOwn
      <4>1. c[2] = f.name /\ Ancestors(f.cl)[1] = f.cl /\ 1 \in DOMAIN Ancestors(f.cl) /\ \A m \in 1 .. 1 : m = 1
        BY <1>3, <2>2, <4>0, AncestorsType, HeightIs
      <4>2. f.cl # c[1] => f.cl \in RecordingLoaders(f.cl, c)
        BY <4>1 DEF RecordingLoaders
      <4>3. CASE f.cl # c[1]
        BY <1>2, <1>3, <2>1, <4>2, <4>3 DEF Tables
      <4>4. CASE f.cl = c[1]
        BY <2>2, <2>3, <4>1, <4>4 DEF TablesSound
      <4> QED  BY <4>3, <4>4
    <3> QED  BY <1>7, <2>2, <2>4, <2>5, <3>1 DEF Returns, Wanted
  <2>7. ShapeSound(world, loaded, initiating', s)
    BY <1>2, <2>3, ShapeGrows
  <2>8. ThreadSound(world, loaded, initiating', Below, Result(c, dims), e)
    BY <1>1, <1>2, <2>5, <2>6, <2>7, ReturnSound
  <2>9. Changes(Below, Result(c, dims), e)
    BY <1>1, <2>1 DEF Return, Answer, Changes, IInv, TypeOK
  <2>10. /\ loaded' \in SUBSET ClassSet /\ Grows(loaded, initiating, loaded', initiating')
         /\ TablesSound(world, loaded', initiating')
         /\ ThreadSound(world, loaded', initiating', Below, Result(c, dims), e)
         /\ Returns(world, loaded', initiating', f, Result(c, dims), e, Sync(s))
    BY <1>1, <1>2, <2>3, <2>6, <2>8
  <2> QED  BY <1>1, <1>2, <1>5, <2>3, <2>5, <2>9, <2>10, RunStep DEF Tables
<1> QED  BY <1>6, <1>7

LEMMA LookupWildStep ==
  ASSUME IInv, LookupWild  PROVE IInv' /\ Answered
BY UnchangedStep DEF LookupWild, tables



-----------------------------------------------------------------------------
(* A step that returns without a class, or one with it: the marks of a     *)
(* thread whose top is an activation of define_class.                      *)
LEMMA DefineMarks ==
  ASSUME IInv, stack[running] # <<>>, Top.op = "define", inchoate' = inchoate, abandoned' = abandoned, NEW r, NEW e
  PROVE  /\ MarksKept(Below, r, e)
         /\ \A f \in Frames : MarksKept(<<f>> \o Below, r, e)
         /\ \A f, g \in Frames : ~Failed(f, r, e) => MarksKept(<<f>> \o (<<g>> \o Below), r, e)
<1> DEFINE s == stack[running]
<1>1. s \in Seq(Frames) /\ s # <<>> /\ Top = s[1] /\ Below = Tail(s)
  BY Here
<1>2. ~Passes(s[1])
  BY <1>1 DEF Passes
<1> HIDE DEF s
<1>3. ASSUME NEW n, NEW j, Marks(s, answer[running], exc[running], n, j)
      PROVE  /\ Marks(Below, r, e, n, j - 1)
             /\ \A f \in Frames : Marks(<<f>> \o Below, r, e, n, j)
             /\ \A f, g \in Frames : ~Failed(f, r, e) => Marks(<<f>> \o (<<g>> \o Below), r, e, n, j + 1)
  <2>1. Marks(Below, r, e, n, j - 1)
    BY <1>1, <1>2, <1>3, MarksPop
  <2>2. \A f \in Frames : Marks(<<f>> \o Below, r, e, n, j)
    BY <1>1, <1>2, <1>3, MarksGoOn
  <2>3. \A f, g \in Frames : ~Failed(f, r, e) => Marks(<<f>> \o (<<g>> \o Below), r, e, n, j + 1)
    BY <1>1, <1>2, <1>3, MarksCall
  <2> QED  BY <2>1, <2>2, <2>3
<1>4. MarksKept(Below, r, e)
  BY <1>3 DEF MarksKept, s
<1>5. \A f \in Frames : MarksKept(<<f>> \o Below, r, e)
  BY <1>3 DEF MarksKept, s
<1>6. \A f, g \in Frames : ~Failed(f, r, e) => MarksKept(<<f>> \o (<<g>> \o Below), r, e)
  BY <1>3 DEF MarksKept, s
<1> QED  BY <1>4, <1>5, <1>6

LEMMA DefineStep ==
  ASSUME IInv, define_class  PROVE IInv' /\ Answered
<1> DEFINE s == stack[running]
           f == Top
           c == initiating[Top.cl][Top.name]
           on == [Top EXCEPT !.at = "supers"]
<1>1. /\ s # <<>> /\ f.op = "define" /\ f.at = "enter" /\ UNCHANGED <<loaded, initiating, world, running, info>>
      /\ inchoate' = inchoate /\ abandoned' = abandoned
  BY DEF define_class, Is, Control, tables
<1>2. /\ world \in Worlds /\ initiating \in Tables /\ s \in Seq(Frames) /\ f = s[1] /\ f \in Frames
      /\ answer[running] \in Answers
      /\ FrameSound(world, loaded, initiating, f) /\ StillMissing(loaded, s)
      /\ exc[running] = "none" /\ TablesSound(world, loaded, initiating)
  BY <1>1, Here DEF Waiting, IInv, Tables
<1>3. f.cl \in Loaders /\ f.name \in Names
  BY <1>2 DEF Frames
<1>4. /\ HasFile(world, f.cl, f.name) /\ Wanted(world, f) = ClassOf(f) /\ ClassOf(f) \in DOMAIN world.files
      /\ ClassOf(f) # NoClass
  BY <1>1, <1>2, NoClassIs DEF FrameSound, HasFile, ClassOf
<1>5. CASE c # NoClass
  <2>1. Return(Null, "LinkageError")
    BY <1>5 DEF define_class
  <2>2. ClassOf(f) \in loaded
    BY <1>2, <1>3, <1>4, <1>5 DEF TablesSound, Wanted
  <2>3. ~Sync(s)
    <3>1. 1 \in DOMAIN s /\ DOMAIN s = 1 .. Len(s) /\ Len(s) \in Nat /\ Defines(s[1])
      BY <1>1, <1>2, TailIs DEF Defines
    <3>2. \A m \in DOMAIN s : 1 <= m
      BY <3>1
    <3> QED  BY <1>2, <2>2, <3>1, <3>2 DEF Sync, StillMissing
  <2>4. Returns(world, loaded, initiating, f, Null, "LinkageError", Sync(s))
    BY <1>4, <2>2, <2>3, AnswersAre DEF Returns, Failure
  <2>5. MarksKept(Below, Null, "LinkageError")
    BY <1>1, DefineMarks
  <2> QED  BY <1>1, <2>1, <2>4, <2>5, AnswersAre, ReturnStep DEF Exceptions
<1>6. CASE c = NoClass /\ ~File.parses
  <2>1. Return(Null, "ClassFormatError")
    BY <1>6 DEF define_class
  <2>2. ClassOf(f) \notin Loadable(world)
    BY <1>2, <1>4, <1>6, LoadableUp DEF File, ClassOf
  <2>3. Returns(world, loaded, initiating, f, Null, "ClassFormatError", Sync(s))
    BY <1>4, <2>2, AnswersAre DEF Returns, Failure, Machine, NotFound
  <2>4. MarksKept(Below, Null, "ClassFormatError")
    BY <1>1, DefineMarks
  <2> QED  BY <1>1, <2>1, <2>3, <2>4, AnswersAre, ReturnStep DEF Exceptions
<1>7. CASE c = NoClass /\ File.parses
  <2>1. GoOn(on) /\ UNCHANGED <<answer, exc>>
    BY <1>7 DEF define_class
  <2>2. on \in Frames /\ SameCall(f, on) /\ on.at = "supers" /\ on.k = f.k /\ on.op = "define"
    BY <1>1, <1>2 DEF Frames, SameCall
  <2> HIDE DEF on
  <2>3. FrameSound(world, loaded, initiating, on)
    <3>1. FileOf(world, on) = File /\ FileOf(world, on) = FileOf(world, f) /\ ClassOf(on) = ClassOf(f)
          /\ Wanted(world, on) = Wanted(world, f)
      BY <2>2 DEF FileOf, File, ClassOf, SameCall, Wanted
    <3>2. \A j : SuperFound(world, loaded, initiating, f, j) => SuperFound(world, loaded, initiating, on, j)
      BY <2>2, <3>1 DEF SuperFound, SuperOf, SameCall
    <3> QED  BY <1>1, <1>2, <1>7, <2>2, <3>1, <3>2 DEF FrameSound, SameCall
  <2>4. ~Defines(on) /\ ~Waiting(on)
    BY <2>2 DEF Defines, Waiting
  <2>5. /\ answer' = [answer EXCEPT ![running] = answer[running]]
        /\ exc' = [exc EXCEPT ![running] = "none"]
    BY <1>2, <2>1 DEF IInv, TypeOK
  <2>6. MarksKept(<<on>> \o Below, answer[running], "none")
    BY <1>1, <2>2, DefineMarks
  <2> QED  BY <1>1, <1>2, <2>1, <2>2, <2>3, <2>4, <2>5, <2>6, GoOnStep DEF Exceptions
<1> QED  BY <1>4, <1>5, <1>6, <1>7


LEMMA SuperStep ==
  ASSUME IInv, DefineSuper  PROVE IInv' /\ Answered
<1> DEFINE s == stack[running]
           f == Top
           x == File.supers[Top.k]
           g == [Top EXCEPT !.at = "called"]
           h == LookupFrame(Top.cl, x, 0, TRUE, TRUE)
<1>1. /\ s # <<>> /\ f.op = "define" /\ f.at = "supers" /\ UNCHANGED <<loaded, initiating, world, running, info>>
      /\ inchoate' = inchoate /\ abandoned' = abandoned /\ f.k <= Len(File.supers)
  BY DEF DefineSuper, Is, Control, tables
<1>2. /\ world \in Worlds /\ f \in Frames /\ FrameSound(world, loaded, initiating, f) /\ exc[running] = "none"
  BY <1>1, Here DEF Waiting
<1>3. f.cl \in Loaders /\ f.name \in Names /\ File = FileOf(world, f)
  BY <1>2 DEF Frames, File, FileOf, ClassOf
<1>4. x \in Names
  BY <1>1, <1>2, <1>3, SuperIs
<1>5. CASE x \in inchoate
  <2>1. Return(Null, "ClassCircularityError")
    BY <1>5 DEF DefineSuper
  <2>2. Returns(world, loaded, initiating, f, Null, "ClassCircularityError", Sync(s))
    BY AnswersAre DEF Returns, Failure, Machine
  <2>3. MarksKept(Below, Null, "ClassCircularityError")
    BY <1>1, DefineMarks
  <2> QED  BY <1>1, <2>1, <2>2, <2>3, AnswersAre, ReturnStep DEF Exceptions
<1>6. CASE x \notin inchoate
  <2>1. Call(g, h) /\ UNCHANGED exc
    BY <1>6 DEF DefineSuper
  <2>2. g \in Frames /\ SameCall(f, g) /\ g.at = "called" /\ g.k = f.k /\ g.op = "define"
    BY <1>1, <1>2 DEF Frames, SameCall
  <2>3. h \in Frames /\ h.op = "lookup" /\ h.at = "enter" /\ h.cl = f.cl /\ h.name = x /\ h.dims = 0 /\ h.raise /\ h.sync
        /\ h.kept
    BY <1>3, <1>4 DEF LookupFrame, Frame, Frames
  <2>4. FileOf(world, g) = File /\ ClassOf(g) = ClassOf(f) /\ Wanted(world, g) = Wanted(world, f)
    BY <2>2 DEF FileOf, File, ClassOf, SameCall, Wanted
  <2>5. FrameSound(world, loaded, initiating, g)
    <3>1. \A j : SuperFound(world, loaded, initiating, f, j) => SuperFound(world, loaded, initiating, g, j)
      BY <1>3, <2>2, <2>4 DEF SuperFound, SuperOf, SameCall
    <3> HIDE DEF g
    <3> QED  BY <1>1, <1>2, <1>3, <2>2, <2>4, <3>1 DEF FrameSound, SameCall
  <2> HIDE DEF g, h
  <2>6. FrameSound(world, loaded, initiating, h) /\ ~Waiting(h) /\ ~Defines(h) /\ ~Defines(g)
        /\ ~Failed(h, Pending, "none")
    BY <2>2, <2>3 DEF FrameSound, Waiting, Defines, Failed
  <2>7. CallSound(world, g, h)
    BY <2>2, <2>3, <2>4 DEF CallSound, Waiting, SameCall
  <2>8. exc' = [exc EXCEPT ![running] = "none"]
    BY <1>2, <2>1 DEF IInv, TypeOK
  <2>9. MarksKept(<<h>> \o (<<g>> \o Below), Pending, "none")
    BY <1>1, <2>2, <2>3, <2>6, DefineMarks
  <2> QED  BY <1>1, <2>1, <2>2, <2>3, <2>5, <2>6, <2>7, <2>8, <2>9, CalledStep
<1> QED  BY <1>5, <1>6

LEMMA SuperDoneStep ==
  ASSUME IInv, DefineSuperDone  PROVE IInv' /\ Answered
<1> DEFINE s == stack[running]
           f == Top
           c == answer[running].class
           e == exc[running]
           on == [Top EXCEPT !.at = "supers", !.k = NextSuper(@)]
<1>1. /\ s # <<>> /\ f.op = "define" /\ f.at = "called" /\ UNCHANGED <<loaded, initiating, world, running, info>>
      /\ inchoate' = inchoate /\ abandoned' = abandoned
  BY DEF DefineSuperDone, Is, Control, tables
<1>2. /\ world \in Worlds /\ f \in Frames /\ FrameSound(world, loaded, initiating, f) /\ answer[running] \in Answers
      /\ e \in Exceptions /\ AnswerSound(world, loaded, initiating, f, answer[running], e, Sync(s))
      /\ TablesSound(world, loaded, initiating)
  BY <1>1, Here DEF Waiting, IInv
<1>3. f.cl \in Loaders /\ f.name \in Names /\ File = FileOf(world, f)
  BY <1>2 DEF Frames, File, FileOf, ClassOf
<1>4. /\ ClassOf(f) \in DOMAIN world.files /\ ClassOf(f) # NoClass /\ f.k \in 1 .. Len(FileOf(world, f).supers)
      /\ SuperOf(world, f, f.k) \in SupersOf(world, ClassOf(f)) /\ Wanted(world, f) = ClassOf(f)
  BY <1>1, <1>2, SuperIs DEF FrameSound
<1>5. Awaited(world, f) = SuperOf(world, f, f.k)
  BY <1>1 DEF Awaited
<1>6. CASE c = NoClass
  <2>1. Return(Null, e)
    BY <1>6 DEF DefineSuperDone
  <2>2. Failure(world, loaded, SuperOf(world, f, f.k), e) /\ e # "none" /\ e # "LinkageError"
    BY <1>1, <1>2, <1>5, <1>6 DEF AnswerSound
  <2>3. SuperOf(world, f, f.k) = NoClass \/ Leads(world, SuperOf(world, f, f.k), NoClass) => Leads(world, ClassOf(f), NoClass)
    BY <1>2, <1>4, LeadsSelf, LeadsFrom
  <2>4. SuperOf(world, f, f.k) \notin Loadable(world) => ClassOf(f) \notin Loadable(world)
    BY <1>2, <1>4, LoadableUp
  <2>5. Failure(world, loaded, ClassOf(f), e)
    BY <1>4, <2>2, <2>3, <2>4 DEF Failure
  <2>6. Returns(world, loaded, initiating, f, Null, e, Sync(s))
    BY <1>4, <2>2, <2>5, AnswersAre DEF Returns
  <2>7. MarksKept(Below, Null, e)
    BY <1>1, DefineMarks
  <2> QED  BY <1>1, <1>2, <2>1, <2>6, <2>7, AnswersAre, ReturnStep
<1>7. ASSUME c # NoClass
      PROVE  /\ c = SuperOf(world, f, f.k) /\ c \in loaded /\ e = "none"
             /\ initiating[f.cl][FileOf(world, f).supers[f.k]] = c
  BY <1>1, <1>2, <1>5, <1>7 DEF AnswerSound
<1>8. CASE c # NoClass /\ ~check_permitted_subclasses(world, c, f.name)
  <2>1. Return(Null, "IncompatibleClassChangeError")
    BY <1>8 DEF DefineSuperDone
  <2>2. ClassOf(f)[2] \notin world.files[SuperOf(world, f, f.k)].permits
    BY <1>7, <1>8 DEF check_permitted_subclasses, ClassOf
  <2>3. ClassOf(f) \notin Loadable(world)
    BY <1>2, <1>4, <2>2, LoadableUp
  <2>4. Returns(world, loaded, initiating, f, Null, "IncompatibleClassChangeError", Sync(s))
    BY <1>4, <2>3, AnswersAre DEF Returns, Failure, Machine, NotFound
  <2>5. MarksKept(Below, Null, "IncompatibleClassChangeError")
    BY <1>1, DefineMarks
  <2> QED  BY <1>1, <2>1, <2>4, <2>5, AnswersAre, ReturnStep DEF Exceptions
<1>9. CASE c # NoClass /\ check_permitted_subclasses(world, c, f.name)
  <2>1. GoOn(on) /\ UNCHANGED <<answer, exc>>
    BY <1>9 DEF DefineSuperDone
  <2>2. on \in Frames /\ SameCall(f, on) /\ on.at = "supers" /\ on.k = f.k + 1 /\ on.op = "define"
    <3>1. f.k \in Nat /\ f.k + 1 \in Nat
      BY <1>2 DEF Frames
    <3>2. on = [f EXCEPT !.at = "supers", !.k = f.k + 1]
      BY <1>2 DEF Frames, NextSuper
    <3> HIDE DEF on, f
    <3> QED  BY <1>1, <1>2, <3>1, <3>2 DEF Frames, SameCall
  <2> HIDE DEF on
  <2>3. FileOf(world, on) = FileOf(world, f) /\ ClassOf(on) = ClassOf(f) /\ Wanted(world, on) = Wanted(world, f)
    BY <2>2 DEF FileOf, ClassOf, SameCall, Wanted
  <2>4. \A j : SuperFound(world, loaded, initiating, f, j) => SuperFound(world, loaded, initiating, on, j)
    BY <2>2, <2>3 DEF SuperFound, SuperOf, SameCall
  <2>5. SuperFound(world, loaded, initiating, f, f.k)
    <3>1. c # NoClass /\ c = SuperOf(world, f, f.k) /\ c \in loaded
      BY <1>7, <1>9
    <3>2. FileOf(world, f).supers[f.k] \in Names
      BY <1>1, <1>2, SuperIs DEF FrameSound
    <3>3. c[2] = FileOf(world, f).supers[f.k]
      <4> HIDE DEF c, f
      <4> QED  BY <1>3, <3>1, <3>2, DefinerOwn DEF SuperOf
    <3>4. initiating[f.cl][c[2]] = c
      BY <1>7, <1>9, <3>3
    <3> QED  BY <1>9, <3>1, <3>4 DEF SuperFound, check_permitted_subclasses
  <2>6. FrameSound(world, loaded, initiating, on)
    <3>1. f.k \in Nat /\ Len(FileOf(world, f).supers) \in Nat
      BY <1>2, <1>4, WorldIs DEF Frames, FileOf
    <3>2. \A j \in 1 .. on.k - 1 : j \in 1 .. f.k - 1 \/ j = f.k
      BY <2>2, <3>1
    <3>3. \A j \in 1 .. on.k - 1 : SuperFound(world, loaded, initiating, on, j)
      BY <1>1, <1>2, <2>4, <2>5, <3>2 DEF FrameSound
    <3>4. on.k >= 1 /\ on.k <= Len(FileOf(world, on).supers) + 1
      BY <1>4, <2>2, <2>3, <3>1
    <3> QED  BY <1>1, <1>2, <2>2, <2>3, <3>3, <3>4 DEF FrameSound, SameCall
  <2>7. ~Defines(on) /\ ~Waiting(on)
    BY <2>2 DEF Defines, Waiting
  <2>8. /\ answer' = [answer EXCEPT ![running] = answer[running]]
        /\ exc' = [exc EXCEPT ![running] = "none"]
    BY <1>7, <1>9, <2>1 DEF IInv, TypeOK
  <2>9. MarksKept(<<on>> \o Below, answer[running], "none")
    BY <1>1, <2>2, DefineMarks
  <2> QED  BY <1>1, <1>2, <2>1, <2>2, <2>6, <2>7, <2>8, <2>9, GoOnStep DEF Exceptions
<1> QED  BY <1>6, <1>8, <1>9


LEMMA EndStep ==
  ASSUME IInv, DefineEnd  PROVE IInv' /\ Answered
<1> DEFINE s == stack[running]
           f == Top
           c == <<Top.cl, Top.name>>
<1>1. /\ s # <<>> /\ f.op = "define" /\ f.at = "supers" /\ UNCHANGED <<world, running, info>>
      /\ inchoate' = inchoate /\ abandoned' = abandoned /\ f.k > Len(File.supers)
      /\ loaded' = loaded \cup {c} /\ initiating' = [initiating EXCEPT ![f.cl][f.name] = c]
      /\ Return(Result(c, 0), exc[running])
  BY DEF DefineEnd, Is, Control
<1>2. /\ world \in Worlds /\ loaded \in SUBSET ClassSet /\ initiating \in Tables /\ s \in Seq(Frames)
      /\ f = s[1] /\ f \in Frames /\ Below = Tail(s) /\ Below \in Seq(Frames)
      /\ FrameSound(world, loaded, initiating, f) /\ ShapeSound(world, loaded, initiating, s)
      /\ StillMissing(loaded, s) /\ exc[running] = "none" /\ TablesSound(world, loaded, initiating)
  BY <1>1, Here DEF Waiting, IInv, Tables
<1>3. f.cl \in Loaders /\ f.name \in Names /\ File = FileOf(world, f) /\ c = ClassOf(f) /\ c \in ClassSet /\ c # NoClass
  BY <1>2, NoClassIs DEF Frames, File, FileOf, ClassOf, ClassSet
<1>4. HasFile(world, f.cl, f.name) /\ Wanted(world, f) = c /\ FileOf(world, f).parses /\ c \in DOMAIN world.files
      /\ f.dims = 0
  BY <1>1, <1>2, <1>3 DEF FrameSound, HasFile
<1>5. ASSUME NEW x \in SupersOf(world, c)
      PROVE  x \in loaded /\ initiating[f.cl][x[2]] = x /\ f.name \in world.files[x].permits
  <2>1. PICK j \in 1 .. Len(world.files[c].supers) : x = Definer(world, c[1], world.files[c].supers[j])
    BY <1>2, <1>4, <1>5, SupersAre
  <2>2. x = SuperOf(world, f, j) /\ world.files[c] = FileOf(world, f)
    BY <1>3, <2>1 DEF SuperOf, FileOf
  <2>3. j \in 1 .. f.k - 1
    <3>1. world.files[c].supers \in Seq(Names)
      BY <1>2, <1>4, WorldIs
    <3>2. f.k \in Nat
      BY <1>2 DEF Frames
    <3>3. Len(world.files[c].supers) \in Nat
      BY ONLY <3>1
    <3> QED  BY <1>1, <1>3, <2>1, <2>2, <3>2, <3>3
  <2>4. SuperFound(world, loaded, initiating, f, j)
    BY <1>1, <1>2, <2>3 DEF FrameSound
  <2> QED  BY <2>2, <2>4 DEF SuperFound
<1>6. /\ loaded' \in SUBSET ClassSet /\ initiating' \in Tables /\ Grows(loaded, initiating, loaded', initiating')
      /\ TablesSound(world, loaded', initiating')
  <2>1. PICK l, n, d, lo2, init2 : l = f.cl /\ n = f.name /\ d = c /\ lo2 = loaded' /\ init2 = initiating'
    OBVIOUS
  <2>2. /\ l \in Loaders /\ n \in Names /\ d = <<l, n>> /\ d = Definer(world, l, n) /\ HasFile(world, l, n)
        /\ world.files[d].parses /\ d \in ClassSet /\ lo2 = loaded \cup {d} /\ init2 = [initiating EXCEPT ![l][n] = d]
        /\ \A x \in SupersOf(world, d) : x \in loaded /\ initiating[l][x[2]] = x /\ n \in world.files[x].permits
    BY <1>1, <1>3, <1>4, <1>5, <2>1 DEF Wanted, FileOf
  <2>3. world \in Worlds /\ loaded \in SUBSET ClassSet /\ initiating \in Tables /\ TablesSound(world, loaded, initiating)
    BY <1>2
  <2>4. /\ lo2 \in SUBSET ClassSet /\ init2 \in Tables /\ \A x : x \in lo2 <=> x \in loaded \/ x = d
        /\ \A k \in Loaders, x \in Names : init2[k][x] = IF k = l /\ x = n THEN d ELSE initiating[k][x]
    BY ONLY <2>2, <2>3 DEF Tables
  <2>5. Definable(world, loaded, initiating, l, n, d) /\ Adds(loaded, initiating, l, n, d, lo2, init2)
    BY ONLY <2>2, <2>4 DEF Definable, Adds
  <2>6. Grows(loaded, initiating, lo2, init2) /\ TablesSound(world, lo2, init2)
    BY ONLY <2>2, <2>3, <2>4, <2>5, DefinedSound
  <2> QED  BY <2>1, <2>4, <2>6
<1>7. ShapeSound(world, loaded', initiating', s)
  BY <1>2, <1>6, ShapeGrows
<1>8. StillMissing(loaded', s)
  <2> SUFFICES ASSUME NEW j \in DOMAIN s, NEW m \in DOMAIN s, j <= m, s[m].sync, Defines(s[j]), ClassOf(s[j]) = c
               PROVE  FALSE
    BY <1>1, <1>2 DEF StillMissing
  <2>1. DOMAIN s = 1 .. Len(s) /\ Len(s) \in Nat /\ 1 \in DOMAIN s /\ s[j] \in Frames
    BY <1>1, <1>2, TailIs
  <2>2. j # 1
    BY <1>1, <1>2 DEF Defines
  <2>3. j - 1 \in DOMAIN s /\ (j - 1) + 1 = j /\ 1 < j
    BY <2>1, <2>2
  <2>4. Waiting(s[j])
    BY <1>2, <2>3 DEF ShapeSound, CallSound
  <2>5. s[j].op = "load" /\ s[j].at = "parent"
    BY <2>4 DEF Defines, Waiting
  <2>6. Height(s[1].cl) < Height(s[j].cl)
    BY <1>2, <2>1, <2>3, <2>5 DEF ShapeSound, CallsGoUp
  <2>7. s[j].cl = f.cl
    BY DEF ClassOf
  <2>8. Height(f.cl) \in Nat
    BY <1>3, HeightIs
  <2>9. Height(f.cl) < Height(f.cl)
    BY <1>2, <2>6, <2>7
  <2> QED  BY <2>8, <2>9
<1>9. Result(c, 0) \in Answers /\ Result(c, 0).class = c /\ Result(c, 0).dims = 0
  BY <1>3, AnswersAre
<1>10. Returns(world, loaded', initiating', f, Result(c, 0), "none", Sync(s))
  BY <1>1, <1>3, <1>4, <1>9 DEF Returns
<1>11. ThreadSound(world, loaded', initiating', Below, Result(c, 0), "none")
  BY <1>1, <1>2, <1>7, <1>8, <1>9, <1>10, ReturnSound
<1>12. Changes(Below, Result(c, 0), "none")
  BY <1>1, <1>2 DEF Return, Answer, Changes, IInv, TypeOK
<1>13. MarksKept(Below, Result(c, 0), "none")
  BY <1>1, DefineMarks
<1> QED  BY <1>2, <1>3, <1>6, <1>9, <1>10, <1>11, <1>12, <1>13, RunStep DEF Tables, Exceptions

-----------------------------------------------------------------------------
(* loadClass. *)
LEMMA LockStep ==
  ASSUME IInv, LoadLock  PROVE IInv' /\ Answered
<1> DEFINE s == stack[running]
           f == Top
           on == [Top EXCEPT !.at = "find"]
<1>1. /\ s # <<>> /\ f.op = "load" /\ f.at = "lock" /\ UNCHANGED <<loaded, initiating, world, running, info, answer, exc>>
      /\ inchoate' = inchoate /\ abandoned' = abandoned /\ GoOn(on)
  BY DEF LoadLock, Is, Control, tables
<1>2. /\ world \in Worlds /\ s \in Seq(Frames) /\ f = s[1] /\ f \in Frames /\ answer[running] \in Answers
      /\ Below = Tail(s) /\ FrameSound(world, loaded, initiating, f) /\ exc[running] = "none"
  BY <1>1, Here DEF Waiting
<1>3. on \in Frames /\ SameCall(f, on) /\ on.at = "find" /\ on.op = "load" /\ on.name = f.name
  BY <1>1, <1>2 DEF Frames, SameCall
<1> HIDE DEF on
<1>4. FrameSound(world, loaded, initiating, on) /\ ~Defines(on) /\ ~Waiting(on) /\ Passes(on) /\ \A r, e : ~Failed(on, r, e)
  BY <1>1, <1>2, <1>3 DEF FrameSound, SameCall, Defines, Waiting, Passes, Failed
<1>5. /\ answer' = [answer EXCEPT ![running] = answer[running]]
      /\ exc' = [exc EXCEPT ![running] = "none"]
  BY <1>1, <1>2 DEF IInv, TypeOK
<1>6. ASSUME NEW n, NEW j, Marks(s, answer[running], exc[running], n, j)
      PROVE  Marks(<<on>> \o Below, answer[running], "none", n, j)
  BY <1>1, <1>2, <1>3, <1>4, <1>6, MarksGoOn
<1>7. MarksKept(<<on>> \o Below, answer[running], "none")
  BY <1>1, <1>6 DEF MarksKept
<1> QED  BY <1>1, <1>2, <1>3, <1>4, <1>5, <1>7, GoOnStep DEF Exceptions

LEMMA MustWaitStep ==
  ASSUME IInv, LoadMustWait  PROVE IInv' /\ Answered
BY UnchangedStep DEF LoadMustWait, tables

LEMMA FindStep ==
  ASSUME IInv, LoadFind  PROVE IInv' /\ Answered
<1> DEFINE s == stack[running]
           f == Top
           own == <<Top.cl, Top.name>>
           g == [Top EXCEPT !.at = "parent"]
<1>1. /\ s # <<>> /\ f.op = "load" /\ f.at = "find" /\ UNCHANGED <<loaded, initiating, world, running, info>>
      /\ inchoate' = inchoate /\ abandoned' = abandoned
  BY DEF LoadFind, Is, Control, tables
<1>2. /\ world \in Worlds /\ loaded \in SUBSET ClassSet /\ initiating \in Tables
      /\ s \in Seq(Frames) /\ f = s[1] /\ f \in Frames /\ answer[running] \in Answers
      /\ Below = Tail(s) /\ FrameSound(world, loaded, initiating, f) /\ exc[running] = "none"
      /\ TablesSound(world, loaded, initiating)
  BY <1>1, Here DEF Waiting, IInv, Tables
<1>3. f.cl \in Loaders \ {Boot} /\ f.name \in Names /\ own = ClassOf(f) /\ own \in ClassSet /\ own # NoClass
      /\ Parent[f.cl] \in Loaders /\ own[1] = f.cl /\ own[2] = f.name
  BY <1>1, <1>2, NoClassIs, ParentIs DEF Frames, ClassOf, ClassSet, FrameSound
<1>4. g \in Frames /\ SameCall(f, g) /\ g.at = "parent" /\ g.op = "load" /\ g.name = f.name /\ g.cl = f.cl
      /\ ClassOf(g) = own
  BY <1>1, <1>2 DEF Frames, SameCall, ClassOf
<1>5. CASE own \in loaded
  <2>1. Return(Result(own, 0), "none")
    BY <1>5 DEF LoadFind, findLoadedClass0
  <2>2. Result(own, 0) \in Answers /\ Result(own, 0).class = own /\ Result(own, 0).dims = 0
    BY <1>3, AnswersAre
  <2>3. own = Wanted(world, f) /\ f.dims = 0
    BY <1>1, <1>2, <1>3, <1>5 DEF TablesSound, Wanted, FrameSound
  <2>4. Returns(world, loaded, initiating, f, Result(own, 0), "none", Sync(s))
    BY <1>1, <1>3, <1>5, <2>2, <2>3 DEF Returns
  <2>5. ASSUME NEW n, NEW j, Marks(s, answer[running], exc[running], n, j)
        PROVE  Marks(Below, Result(own, 0), "none", n, j - 1)
    BY <1>1, <1>2, <1>3, <2>2, <2>5, MarksPop
  <2>6. MarksKept(Below, Result(own, 0), "none")
    BY <1>1, <2>5 DEF MarksKept
  <2> QED  BY <1>1, <2>1, <2>2, <2>4, <2>6, ReturnStep DEF Exceptions
<1> HIDE DEF g, own
<1>6. FrameSound(world, loaded, initiating, g) /\ Passes(g) /\ Waiting(g)
  BY <1>1, <1>2, <1>4 DEF FrameSound, SameCall, Passes, Waiting
<1>7. ASSUME NEW h \in Frames, own \notin loaded, Call(g, h), UNCHANGED exc, FrameSound(world, loaded, initiating, h),
             CallSound(world, g, h), ~Waiting(h), ~Defines(h), Passes(h), h.name = f.name
      PROVE  IInv' /\ Answered
  <2>1. ~Failed(h, Pending, "none")
    BY <1>7 DEF Failed, Waiting
  <2>2. ASSUME NEW n, NEW j, Marks(s, answer[running], exc[running], n, j)
        PROVE  Marks(<<h>> \o (<<g>> \o Below), Pending, "none", n, j + 1)
    BY <1>1, <1>2, <1>4, <1>6, <1>7, <2>1, <2>2, MarksCall
  <2>3. MarksKept(<<h>> \o (<<g>> \o Below), Pending, "none")
    BY <1>1, <2>2 DEF MarksKept
  <2>4. exc' = [exc EXCEPT ![running] = "none"]
    BY <1>2, <1>7 DEF IInv, TypeOK
  <2> QED  BY <1>1, <1>4, <1>6, <1>7, <2>3, <2>4, CalledStep
<1>8. CASE own \notin loaded /\ Parent[f.cl] = Boot
  <2> DEFINE h == findBootstrapClass(f.name)
  <2>1. Call(g, h) /\ UNCHANGED exc
    BY <1>8 DEF LoadFind, findLoadedClass0, g, own
  <2>2. h \in Frames /\ h.op = "lookup" /\ h.at = "enter" /\ h.cl = Boot /\ h.name = f.name /\ h.dims = 0 /\ h.kept
    BY <1>3, BootIs DEF findBootstrapClass, LookupFrame, Frame, Frames
  <2> HIDE DEF h
  <2>3. FrameSound(world, loaded, initiating, h) /\ ~Waiting(h) /\ ~Defines(h) /\ Passes(h)
    BY <2>2 DEF FrameSound, Waiting, Defines, Passes
  <2>4. CallSound(world, g, h)
    BY <1>4, <1>6, <1>8, <2>2 DEF CallSound
  <2> QED  BY <1>7, <1>8, <2>1, <2>2, <2>3, <2>4
<1>9. CASE own \notin loaded /\ Parent[f.cl] # Boot /\ ~Overflows
  <2> DEFINE h == LoadFrame(Parent[f.cl], f.name, FALSE)
  <2>1. Call(g, h) /\ UNCHANGED exc
    BY <1>9 DEF LoadFind, findLoadedClass0, CallJava, g, own
  <2>2. h \in Frames /\ h.op = "load" /\ h.at = "lock" /\ h.cl = Parent[f.cl] /\ h.name = f.name /\ h.dims = 0 /\ h.kept
        /\ h.raise
    BY <1>3 DEF LoadFrame, Frame, Frames
  <2> HIDE DEF h
  <2>3. FrameSound(world, loaded, initiating, h) /\ ~Waiting(h) /\ ~Defines(h) /\ Passes(h)
    BY <1>9, <2>2 DEF FrameSound, Waiting, Defines, Passes
  <2>4. CallSound(world, g, h)
    BY <1>4, <1>6, <2>2 DEF CallSound
  <2> QED  BY <1>7, <1>9, <2>1, <2>2, <2>3, <2>4
<1>10. CASE own \notin loaded /\ Parent[f.cl] # Boot /\ Overflows
  <2> DEFINE e == "StackOverflowError"
  <2>1. GoOn(g) /\ Answer(Null, e)
    BY <1>10 DEF LoadFind, findLoadedClass0, CallJava, g, own
  <2>2. AnswerSound(world, loaded, initiating, g, Null, e, Sync(s))
    BY <1>4, AnswersAre DEF AnswerSound, Failure, Machine
  <2>3. ~Failed(g, Null, e)
    BY DEF Failed, NotFound
  <2>4. ASSUME NEW n, NEW j, Marks(s, answer[running], exc[running], n, j)
        PROVE  Marks(<<g>> \o Below, Null, e, n, j)
    BY <1>1, <1>2, <1>4, <1>6, <2>3, <2>4, MarksGoOn
  <2>5. MarksKept(<<g>> \o Below, Null, e)
    BY <1>1, <2>4 DEF MarksKept
  <2> QED  BY <1>1, <1>4, <1>6, <1>10, <2>1, <2>2, <2>5, GoOnStep, AnswersAre DEF Answer, Exceptions
<1> QED  BY <1>5, <1>8, <1>9, <1>10


LEMMA ParentDoneStep ==
  ASSUME IInv, LoadParentDone  PROVE IInv' /\ Answered
<1> DEFINE s == stack[running]
           f == Top
           r == answer[running]
           c == answer[running].class
           e == exc[running]
           above == Definer(world, Parent[Top.cl], Top.name)
<1>1. /\ s # <<>> /\ f.op = "load" /\ f.at = "parent" /\ UNCHANGED <<loaded, initiating, world, running, info>>
      /\ inchoate' = inchoate /\ abandoned' = abandoned
  BY DEF LoadParentDone, Is, Control, tables
<1>2. /\ world \in Worlds /\ s \in Seq(Frames) /\ f = s[1] /\ f \in Frames /\ r \in Answers /\ e \in Exceptions
      /\ Below = Tail(s) /\ FrameSound(world, loaded, initiating, f) /\ StillMissing(loaded, s)
      /\ AnswerSound(world, loaded, initiating, f, r, e, Sync(s))
  BY <1>1, Here DEF Waiting
<1>3. f.cl \in Loaders \ {Boot} /\ f.name \in Names /\ f.dims = 0 /\ f.raise
  BY <1>1, <1>2 DEF Frames, FrameSound
<1>4. Awaited(world, f) = above
  BY <1>1 DEF Awaited
<1>5. Wanted(world, f) = IF above # NoClass THEN above ELSE IF HasFile(world, f.cl, f.name) THEN ClassOf(f) ELSE NoClass
  BY <1>3, DefinerUp DEF Wanted, ClassOf
<1>6. CASE c # NoClass
  <2>1. Return(r, "none")
    BY <1>6 DEF LoadParentDone
  <2>2. Returns(world, loaded, initiating, f, r, "none", Sync(s))
    BY <1>1, <1>2, <1>4, <1>5, <1>6 DEF AnswerSound, Returns
  <2>3. ASSUME NEW n, NEW j, Marks(s, r, e, n, j)  PROVE Marks(Below, r, "none", n, j - 1)
    BY <1>1, <1>2, <1>6, <2>3, MarksPop
  <2>4. MarksKept(Below, r, "none")
    BY <1>1, <2>3 DEF MarksKept
  <2> QED  BY <1>1, <1>2, <2>1, <2>2, <2>4, ReturnStep DEF Exceptions
<1>7. ASSUME c = NoClass  PROVE Failure(world, loaded, above, e) /\ (e = "LinkageError" => ~Sync(s))
  BY <1>2, <1>4, <1>7 DEF AnswerSound
<1>8. CASE c = NoClass /\ e \notin {"none", "ClassNotFoundException"}
  <2>1. Return(Null, e)
    BY <1>8 DEF LoadParentDone
  <2>2. Failure(world, loaded, above, e) /\ (e = "LinkageError" => ~Sync(s))
    BY <1>7, <1>8
  <2>3. e = "LinkageError" => above # NoClass
    <3>1. loaded \subseteq ClassSet
      BY DEF IInv, TypeOK
    <3> QED  BY <2>2, <3>1, NoClassIs DEF Failure, Machine, NotFound
  <2>4. Failure(world, loaded, Wanted(world, f), e)
    BY <1>5, <1>8, <2>2, <2>3 DEF Failure, NotFound
  <2>5. Returns(world, loaded, initiating, f, Null, e, Sync(s))
    BY <1>8, <2>2, <2>4, AnswersAre DEF Returns
  <2>6. ASSUME NEW n, NEW j, Marks(s, r, e, n, j)  PROVE Marks(Below, Null, e, n, j - 1)
    BY <1>1, <1>2, <1>8, <2>6, MarksPop DEF NotFound
  <2>7. MarksKept(Below, Null, e)
    BY <1>1, <2>6 DEF MarksKept
  <2> QED  BY <1>1, <1>2, <2>1, <2>5, <2>7, AnswersAre, ReturnStep
<1>9. CASE c = NoClass /\ e \in {"none", "ClassNotFoundException"}
  <2>1. above = NoClass \/ Leads(world, above, NoClass)
    BY <1>7, <1>9 DEF Failure, Machine, NotFound
  <2>2. Failed(f, r, e)
    BY <1>1, <1>9 DEF Failed, NotFound
  <2>3. CASE ~HasFile(world, f.cl, f.name)
    <3>1. Return(Null, "ClassNotFoundException")
      BY <1>9, <2>3 DEF LoadParentDone
    <3>2. Returns(world, loaded, initiating, f, Null, "ClassNotFoundException", Sync(s))
      BY <1>5, <2>1, <2>3, AnswersAre DEF Returns, Failure, NotFound
    <3>3. ASSUME NEW n, NEW j, Marks(s, r, e, n, j)  PROVE Marks(Below, Null, "ClassNotFoundException", n, j - 1)
      BY <1>1, <1>2, <2>2, <3>3, MarksPop
    <3>4. MarksKept(Below, Null, "ClassNotFoundException")
      BY <1>1, <3>3 DEF MarksKept
    <3> QED  BY <1>1, <3>1, <3>2, <3>4, AnswersAre, ReturnStep DEF Exceptions
  <2>4. CASE HasFile(world, f.cl, f.name)
    <3> DEFINE g == [Top EXCEPT !.at = "define"]
               h == DefineFrame(Top.cl, Top.name)
    <3>1. Call(g, h) /\ exc' = [exc EXCEPT ![running] = "none"]
      BY <1>9, <2>4 DEF LoadParentDone
    <3>2. Definer(world, f.cl, f.name) = <<f.cl, f.name>>
      <4>1. PICK l, n : l = f.cl /\ n = f.name
        OBVIOUS
      <4>2. l \in Loaders \ {Boot} /\ n \in Names /\ HasFile(world, l, n)
            /\ (Definer(world, Parent[l], n) = NoClass \/ Leads(world, Definer(world, Parent[l], n), NoClass))
        BY <1>3, <2>1, <2>4, <4>1
      <4>3. Definer(world, l, n) = <<l, n>>
        BY <1>2, <4>2, NotHidden
      <4> QED  BY <4>1, <4>3
    <3>3. g \in Frames /\ SameCall(f, g) /\ g.at = "define" /\ g.op = "load" /\ g.name = f.name /\ g.cl = f.cl
      BY <1>1, <1>2 DEF Frames, SameCall
    <3>4. h \in Frames /\ h.op = "define" /\ h.at = "enter" /\ h.cl = f.cl /\ h.name = f.name /\ h.dims = 0 /\ h.raise
          /\ h.kept /\ ~h.sync /\ h.k = 1
      BY <1>3 DEF DefineFrame, Frame, Frames
    <3> HIDE DEF g, h
    <3>5. FrameSound(world, loaded, initiating, g) /\ Waiting(g) /\ ~Defines(g)
      BY <1>1, <1>2, <3>2, <3>3 DEF FrameSound, SameCall, Waiting, Defines, Wanted, ClassOf
    <3>6. FrameSound(world, loaded, initiating, h)
      BY <1>2, <2>4, <3>2, <3>4, DefineFrameSound
    <3>7. CallSound(world, g, h) /\ ~Waiting(h) /\ ~Failed(h, Pending, "none")
      BY <3>3, <3>4, <3>5 DEF CallSound, Waiting, Failed
    <3>8. Sync(s) => ClassOf(h) \notin loaded
      <4>1. 1 \in DOMAIN s /\ DOMAIN s = 1 .. Len(s) /\ Len(s) \in Nat /\ Defines(s[1]) /\ ClassOf(s[1]) = ClassOf(h)
        BY <1>1, <1>2, <3>4, TailIs DEF Defines, ClassOf
      <4>2. \A m \in DOMAIN s : 1 <= m
        BY <4>1
      <4> QED  BY <1>2, <4>1, <4>2 DEF Sync, StillMissing
    <3>9. ASSUME NEW n, NEW j, Marks(s, r, e, n, j)  PROVE Marks(<<h>> \o (<<g>> \o Below), Pending, "none", n, j + 1)
      BY <1>1, <1>2, <2>2, <3>3, <3>4, <3>7, <3>9, MarksCall
    <3>10. MarksKept(<<h>> \o (<<g>> \o Below), Pending, "none")
      BY <1>1, <3>9 DEF MarksKept
    <3> QED  BY <1>1, <3>1, <3>3, <3>4, <3>5, <3>6, <3>7, <3>8, <3>10, CalledStep
  <2> QED  BY <2>3, <2>4
<1> QED  BY <1>6, <1>8, <1>9

LEMMA DefinedStep ==
  ASSUME IInv, LoadDefined  PROVE IInv' /\ Answered
<1> DEFINE s == stack[running]
           f == Top
           r == answer[running]
           e == exc[running]
<1>1. /\ s # <<>> /\ f.op = "load" /\ f.at = "define" /\ UNCHANGED <<loaded, initiating, world, running, info>>
      /\ inchoate' = inchoate /\ abandoned' = abandoned /\ Return(r, e)
  BY DEF LoadDefined, Is, Control, tables
<1>2. /\ s \in Seq(Frames) /\ f = s[1] /\ f \in Frames /\ r \in Answers /\ e \in Exceptions
      /\ Below = Tail(s) /\ FrameSound(world, loaded, initiating, f)
      /\ AnswerSound(world, loaded, initiating, f, r, e, Sync(s))
  BY <1>1, Here DEF Waiting
<1>3. Awaited(world, f) = Wanted(world, f)
  BY <1>1 DEF Awaited
<1>4. Returns(world, loaded, initiating, f, r, e, Sync(s))
  BY <1>1, <1>2, <1>3 DEF AnswerSound, Returns
<1>5. ASSUME NEW n, NEW j, Marks(s, r, e, n, j)  PROVE Marks(Below, r, e, n, j - 1)
  BY <1>1, <1>2, <1>5, MarksPop DEF Passes
<1>6. MarksKept(Below, r, e)
  BY <1>1, <1>5 DEF MarksKept
<1> QED  BY <1>1, <1>2, <1>4, <1>6, ReturnStep

-----------------------------------------------------------------------------
(* The program. *)
LEMMA ResolveStep ==
  ASSUME IInv, resolve_class_impl  PROVE IInv' /\ Answered
<1> DEFINE s == stack[running]
           f == Top
           r == answer[running]
           e == exc[running]
<1>1. /\ s # <<>> /\ f.op = "resolve" /\ f.at = "called" /\ UNCHANGED <<loaded, initiating, world, running>>
      /\ inchoate' = inchoate /\ abandoned' = abandoned /\ Return(r, e)
  BY DEF resolve_class_impl, Is, tables
<1>2. /\ world \in Worlds /\ s \in Seq(Frames) /\ f = s[1] /\ f \in Frames /\ r \in Answers /\ e \in Exceptions
      /\ Below = Tail(s) /\ Below \in Seq(Frames) /\ FrameSound(world, loaded, initiating, f)
      /\ AnswerSound(world, loaded, initiating, f, r, e, Sync(s))
      /\ ShapeSound(world, loaded, initiating, s) /\ StillMissing(loaded, s)
  BY <1>1, Here DEF Waiting
<1>3. Awaited(world, f) = Wanted(world, f)
  BY <1>1 DEF Awaited
<1>4. Returns(world, loaded, initiating, f, r, e, Sync(s))
  BY <1>1, <1>2, <1>3 DEF AnswerSound, Returns, FrameSound
<1>5. ASSUME NEW n, NEW j, Marks(s, r, e, n, j)  PROVE Marks(Below, r, e, n, j - 1)
  BY <1>1, <1>2, <1>5, MarksPop DEF Passes
<1>6. MarksKept(Below, r, e)
  BY <1>1, <1>5 DEF MarksKept
<1>7. info' \in [References -> [class : ClassSet \cup {NoClass}, error : Exceptions]]
  <2>1. r.class \in ClassSet \cup {NoClass}
    BY <1>2 DEF Answers
  <2>2. info \in [References -> [class : ClassSet \cup {NoClass}, error : Exceptions]]
    BY DEF IInv, TypeOK
  <2>3. [class |-> r.class, error |-> e] \in [class : ClassSet \cup {NoClass}, error : Exceptions]
    BY <1>2, <2>1
  <2> HIDE DEF r, e
  <2>4. info' = [x \in References |-> IF x.cl = f.cl /\ x.name = f.name /\ x.dims = f.dims
                                      THEN [class |-> r.class, error |-> e] ELSE info[x]]
    BY DEF resolve_class_impl, r, e
  <2> QED  BY <2>2, <2>3, <2>4
<1>8. Changes(Below, r, e)
  BY <1>1, <1>7 DEF Return, Answer, Changes
<1>9. ThreadSound(world, loaded', initiating', Below, r, e) /\ Returns(world, loaded', initiating', f, r, e, Sync(s))
  BY <1>1, <1>2, <1>4, ReturnSound
<1> QED  BY <1>2, <1>6, <1>8, <1>9, <1>1, QuietTables, RunStep


(* What a request starts with. *)
LEMMA EnteredSound ==
  ASSUME NEW w \in Worlds, NEW lo, NEW init, NEW r \in w.requests, NEW a
  PROVE  Entered(r) \in Seq(Frames) /\ Entered(r) # <<>> /\ ThreadSound(w, lo, init, Entered(r), a, "none")
<1>1. /\ r.kind \in {"resolve", "descriptor", "forName", "define"}
      /\ r.cl \in Loaders /\ r.name \in Names /\ r.dims \in Nat
      /\ r.kind = "define" => Definer(w, r.cl, r.name) = <<r.cl, r.name>>
  BY WorldsAssumption
<1>2. <<>> \in Seq(Frames) /\ ShapeSound(w, lo, init, <<>>) /\ StillMissing(lo, <<>>)
  BY DEF ShapeSound, StillMissing, CallsGoUp, Chained
<1>3. ASSUME NEW f \in Frames, FrameSound(w, lo, init, f), ~Waiting(f), ~Defines(f) \/ (~f.sync /\ f.op = "define")
      PROVE  <<f>> \in Seq(Frames) /\ <<f>> # <<>> /\ ThreadSound(w, lo, init, <<f>>, a, "none")
  <2>1. <<f>> \in Seq(Frames) /\ <<f>> # <<>> /\ <<f>>[1] = f /\ <<f>> \o <<>> = <<f>>
    OBVIOUS
  <2>2. ShapeSound(w, lo, init, <<f>> \o <<>>)
    BY <1>2, <1>3, ShapePush
  <2>3. ~Sync(<<>>)
    BY DEF Sync
  <2>4. StillMissing(lo, <<f>> \o <<>>)
    BY <1>2, <1>3, <2>3, MissingPush
  <2>5. TopSound(w, lo, init, <<f>>, a, "none")
    BY <1>3, <2>1 DEF TopSound
  <2> QED  BY <2>1, <2>2, <2>4, <2>5 DEF ThreadSound
<1>4. CASE r.kind = "resolve"
  <2> DEFINE f == LookupFrame(r.cl, r.name, r.dims, TRUE, TRUE)
             g == [Frame("resolve", r.cl, r.name, "called", FALSE) EXCEPT !.dims = r.dims]
  <2>1. Entered(r) = <<f, g>>
    BY <1>4 DEF Entered
  <2>2. f \in Frames /\ f.op = "lookup" /\ f.at = "enter" /\ f.cl = r.cl /\ f.name = r.name /\ f.dims = r.dims /\ f.raise
        /\ f.kept
    BY <1>1 DEF LookupFrame, Frame, Frames
  <2>3. g \in Frames /\ g.op = "resolve" /\ g.at = "called" /\ g.cl = r.cl /\ g.name = r.name /\ g.dims = r.dims /\ g.raise
        /\ g.kept
    BY <1>1 DEF Frame, Frames
  <2> HIDE DEF f, g
  <2>4. FrameSound(w, lo, init, f) /\ FrameSound(w, lo, init, g) /\ ~Defines(f) /\ ~Defines(g) /\ ~Waiting(f) /\ Waiting(g)
    BY <2>2, <2>3 DEF FrameSound, Defines, Waiting
  <2>5. CallSound(w, g, f)
    BY <2>2, <2>3, <2>4 DEF CallSound
  <2>6. /\ <<g>> \in Seq(Frames) /\ <<g>> # <<>> /\ <<g>>[1] = g /\ <<g>> \o <<>> = <<g>>
        /\ <<f, g>> \in Seq(Frames) /\ <<f, g>> # <<>> /\ <<f, g>> \o <<>> = <<f, g>>
    BY <2>2, <2>3
  <2>7. <<f, g>> = <<f>> \o <<g>>
    <3>1. <<f, g>> \o <<>> = <<f>> \o (<<g>> \o <<>>)
      BY ONLY <1>2, <2>2, <2>3, PairIs
    <3> QED  BY ONLY <2>6, <3>1, Zenon
  <2>8. ShapeSound(w, lo, init, <<g>>)
    BY <1>2, <2>3, <2>4, <2>6, ShapePush
  <2>9. StillMissing(lo, <<g>>)
    BY <1>2, <2>3, <2>4, <2>6, MissingPush
  <2>10. ThreadSound(w, lo, init, <<f>> \o <<g>>, a, "none")
    BY <2>2, <2>4, <2>5, <2>6, <2>8, <2>9, CallStep
  <2> QED  BY <2>1, <2>6, <2>7, <2>10
<1>5. CASE r.kind = "descriptor" \/ (r.kind = "forName" /\ r.cl = Boot)
  <2>1. PICK d \in Nat, raise \in BOOLEAN : Entered(r) = <<LookupFrame(r.cl, r.name, d, raise, FALSE)>>
    BY <1>1, <1>5 DEF Entered
  <2> DEFINE f == LookupFrame(r.cl, r.name, d, raise, FALSE)
  <2>2. f \in Frames /\ f.op = "lookup" /\ f.at = "enter"
    BY <1>1, <2>1 DEF LookupFrame, Frame, Frames
  <2> HIDE DEF f
  <2>3. FrameSound(w, lo, init, f) /\ ~Defines(f) /\ ~Waiting(f)
    BY <2>2 DEF FrameSound, Defines, Waiting
  <2> QED  BY <1>3, <2>1, <2>2, <2>3 DEF f
<1>6. CASE r.kind = "forName" /\ r.cl # Boot
  <2> DEFINE f == LoadFrame(r.cl, r.name, TRUE)
  <2>1. Entered(r) = <<f>>
    BY <1>6 DEF Entered
  <2>2. f \in Frames /\ f.op = "load" /\ f.at = "lock" /\ f.cl = r.cl /\ f.dims = 0 /\ f.raise
    BY <1>1 DEF LoadFrame, Frame, Frames
  <2> HIDE DEF f
  <2>3. FrameSound(w, lo, init, f) /\ ~Defines(f) /\ ~Waiting(f)
    BY <1>6, <2>2 DEF FrameSound, Defines, Waiting
  <2> QED  BY <1>3, <2>1, <2>2, <2>3
<1>7. CASE r.kind = "define"
  <2> DEFINE f == DefineFrame(r.cl, r.name)
  <2>1. Entered(r) = <<f>>
    BY <1>7 DEF Entered
  <2>2. f \in Frames /\ f.op = "define" /\ f.at = "enter" /\ f.cl = r.cl /\ f.name = r.name /\ f.dims = 0 /\ f.raise
        /\ ~f.sync /\ f.k = 1
    BY <1>1 DEF DefineFrame, Frame, Frames
  <2> HIDE DEF f
  <2>3. HasFile(w, f.cl, f.name)
    <3>1. Definer(w, r.cl, r.name) # NoClass /\ Definer(w, r.cl, r.name) \in DOMAIN w.files
      BY <1>1, <1>7, NoClassIs, DefinerOwn
    <3> QED  BY <1>1, <1>7, <2>2, <3>1 DEF HasFile
  <2>4. FrameSound(w, lo, init, f)
    BY <1>1, <1>7, <2>2, <2>3, DefineFrameSound
  <2>5. ~Waiting(f)
    BY <2>2 DEF Waiting
  <2> QED  BY <1>3, <2>1, <2>2, <2>4, <2>5
<1> QED  BY <1>1, <1>4, <1>5, <1>6, <1>7

(* An idle thread has no marks. *)
LEMMA IdleMarks ==
  ASSUME stack[running] = <<>>, inchoate' = inchoate, abandoned' = abandoned, NEW s2, NEW r2, NEW e2
  PROVE  MarksKept(s2, r2, e2)
<1>1. \A r, e, n, j : ~Marks(<<>>, r, e, n, j)
  BY DEF Marks
<1> QED  BY <1>1 DEF MarksKept

LEMMA AskStep ==
  ASSUME IInv, NEW r \in world.requests, Ask(r)  PROVE IInv' /\ Answered
<1>1. /\ stack[running] = <<>> /\ UNCHANGED <<loaded, initiating, world, running, info>> /\ inchoate' = inchoate
      /\ abandoned' = abandoned
      /\ stack' = [stack EXCEPT ![running] = Entered(r)] /\ Answer(Pending, "none")
  BY DEF Ask, MayAsk, Asked, tables
<1>2. world \in Worlds /\ info \in [References -> [class : ClassSet \cup {NoClass}, error : Exceptions]]
  BY DEF IInv, TypeOK
<1>3. /\ Entered(r) \in Seq(Frames) /\ Entered(r) # <<>>
      /\ ThreadSound(world, loaded', initiating', Entered(r), Pending, "none")
  BY <1>2, EnteredSound
<1>4. Changes(Entered(r), Pending, "none")
  BY <1>1, <1>2 DEF Changes, Answer
<1>5. MarksKept(Entered(r), Pending, "none")
  BY <1>1, IdleMarks
<1> QED  BY <1>1, <1>3, <1>4, <1>5, AnswersAre, QuietTables, RunStep DEF Exceptions

LEMMA AskAgainStep ==
  ASSUME IInv, NEW r \in world.requests, AskAgain(r)  PROVE IInv' /\ Answered
<1> DEFINE a == IF info[r].class = NoClass THEN Null ELSE Result(info[r].class, r.dims)
           e == info[r].error
<1>1. /\ stack[running] = <<>> /\ UNCHANGED <<loaded, initiating, world, running, info, stack>> /\ inchoate' = inchoate
      /\ abandoned' = abandoned /\ Known(r) /\ Answer(a, e)
  BY DEF AskAgain, MayAsk, Asked, tables
<1>2. /\ world \in Worlds /\ info \in [References -> [class : ClassSet \cup {NoClass}, error : Exceptions]]
      /\ stack \in [Threads -> Seq(Frames)] /\ running \in Threads
  BY DEF IInv, TypeOK
<1>3. r \in References /\ r.dims \in Nat
  BY <1>1, <1>2, WorldsAssumption DEF Known, References
<1>4. a \in Answers /\ e \in Exceptions
  BY <1>2, <1>3, AnswersAre
<1> HIDE DEF a, e
<1>5. <<>> \in Seq(Frames) /\ ThreadSound(world, loaded', initiating', <<>>, a, e)
  BY DEF ThreadSound, ShapeSound, StillMissing, CallsGoUp, Chained, TopSound
<1>6. Changes(<<>>, a, e)
  BY <1>1, <1>2 DEF Changes, Answer
<1>7. MarksKept(<<>>, a, e)
  BY <1>1, IdleMarks
<1> QED  BY <1>1, <1>4, <1>5, <1>6, <1>7, QuietTables, RunStep


(* The C stack of a thread is unwound: s2 is s with other locals. *)
Unwound(s, s2) ==
  DOMAIN s2 = DOMAIN s /\ \A i \in DOMAIN s : s2[i] \in Frames /\ s2[i] = [s[i] EXCEPT !.kept = FALSE]

LEMMA UnwoundSound ==
  ASSUME NEW w, NEW lo, NEW init, NEW s \in Seq(Frames), NEW s2 \in Seq(Frames), Unwound(s, s2), NEW r, NEW e,
         ThreadSound(w, lo, init, s, r, e)
  PROVE  /\ ThreadSound(w, lo, init, s2, r, e) /\ (Sync(s2) <=> Sync(s)) /\ (s2 = <<>> => s = <<>>)
         /\ \A n, j : Marks(s, r, e, n, j) => Marks(s2, r, e, n, j)
<1>1. ASSUME NEW i \in DOMAIN s
      PROVE  /\ s2[i].op = s[i].op /\ s2[i].cl = s[i].cl /\ s2[i].name = s[i].name /\ s2[i].at = s[i].at
             /\ s2[i].sync = s[i].sync /\ s2[i].dims = s[i].dims /\ s2[i].raise = s[i].raise /\ s2[i].k = s[i].k
             /\ ~s2[i].kept
  <2>1. s[i] \in Frames
    OBVIOUS
  <2> QED  BY <2>1 DEF Frames, Unwound
<1>2. DOMAIN s2 = DOMAIN s /\ Len(s) \in Nat /\ DOMAIN s = 1 .. Len(s)
  BY DEF Unwound
<1>3. (s # <<>> => 1 \in DOMAIN s) /\ (s2 = <<>> <=> s = <<>>)
  BY <1>2
<1>4. \A i \in DOMAIN s : ClassOf(s2[i]) = ClassOf(s[i]) /\ Wanted(w, s2[i]) = Wanted(w, s[i])
  BY <1>1 DEF ClassOf, Wanted
<1>5. ASSUME NEW i \in DOMAIN s
      PROVE  /\ FileOf(w, s2[i]) = FileOf(w, s[i]) /\ \A j : SuperOf(w, s2[i], j) = SuperOf(w, s[i], j)
             /\ Waiting(s2[i]) <=> Waiting(s[i])
             /\ Defines(s2[i]) <=> Defines(s[i])
             /\ Passes(s2[i]) <=> Passes(s[i])
             /\ Failed(s2[i], r, e) <=> Failed(s[i], r, e)
             /\ Awaited(w, s2[i]) = Awaited(w, s[i])
  BY <1>1, <1>4 DEF FileOf, SuperOf, Waiting, Defines, Passes, Failed, Awaited
<1>6. ASSUME NEW i \in DOMAIN s  PROVE FrameSound(w, lo, init, s2[i])
  <2>1. \A j : SuperFound(w, lo, init, s[i], j) => SuperFound(w, lo, init, s2[i], j)
    BY <1>1, <1>5 DEF SuperFound
  <2>2. FrameSound(w, lo, init, s[i])
    BY DEF ThreadSound, ShapeSound
  <2> QED  BY <1>1, <1>4, <1>5, <2>1, <2>2 DEF FrameSound
<1>7. ASSUME NEW i \in DOMAIN s, i + 1 \in DOMAIN s  PROVE CallSound(w, s2[i + 1], s2[i])
  <2>1. CallSound(w, s[i + 1], s[i])
    BY <1>7 DEF ThreadSound, ShapeSound
  <2> QED  BY <1>1, <1>5, <1>7, <2>1 DEF CallSound
<1>8. CallsGoUp(s2) /\ Chained(w, s2)
  BY <1>1, <1>2, <1>4 DEF ThreadSound, ShapeSound, CallsGoUp, Chained
<1>9. ShapeSound(w, lo, init, s2)
  BY <1>2, <1>6, <1>7, <1>8 DEF ShapeSound
<1>10. Sync(s2) <=> Sync(s)
  BY <1>1, <1>2 DEF Sync
<1>11. TopSound(w, lo, init, s2, r, e)
  BY <1>1, <1>3, <1>5, <1>10 DEF ThreadSound, TopSound, AnswerSound
<1>12. StillMissing(lo, s2)
  BY <1>1, <1>2, <1>4, <1>5 DEF ThreadSound, StillMissing
<1>13. ASSUME NEW n, NEW j, Marks(s, r, e, n, j)  PROVE Marks(s2, r, e, n, j)
  <2>1. j \in DOMAIN s /\ 1 \in DOMAIN s /\ \A i \in 1 .. j - 1 : i \in DOMAIN s
    BY <1>2, <1>13 DEF Marks
  <2> QED  BY <1>1, <1>2, <1>5, <1>13, <2>1 DEF Marks
<1> QED  BY <1>3, <1>9, <1>10, <1>11, <1>12, <1>13 DEF ThreadSound

LEMMA SwitchStep ==
  ASSUME IInv, NEW t \in Threads, Switch(t)  PROVE IInv' /\ Answered
<1> DEFINE s == stack[running]
           s2 == [i \in DOMAIN s |-> [s[i] EXCEPT !.kept = FALSE]]
<1>1. /\ world \in Worlds /\ running \in Threads /\ stack \in [Threads -> Seq(Frames)] /\ s \in Seq(Frames)
      /\ TypeOK /\ MarksSound
  BY DEF IInv, TypeOK
<1>2. /\ MaySwitch /\ t # running /\ running' = t /\ stack' = [stack EXCEPT ![running] = s2]
      /\ UNCHANGED <<world, loaded, initiating, inchoate, info, answer, exc, abandoned>>
  BY DEF Switch, tables
<1>3. s2 \in Seq(Frames) /\ Unwound(s, s2)
  <2>1. \A i \in DOMAIN s : [s[i] EXCEPT !.kept = FALSE] \in Frames
    <3>1. \A f \in Frames : [f EXCEPT !.kept = FALSE] \in Frames
      BY DEF Frames
    <3>2. \A i \in DOMAIN s : s[i] \in Frames
      BY <1>1
    <3> QED  BY <3>1, <3>2
  <2>2. DOMAIN s = 1 .. Len(s) /\ Len(s) \in Nat
    BY <1>1
  <2>3. s2 \in Seq(Frames)
    BY <2>1, <2>2, IsASeq
  <2> QED  BY <2>1, <2>3 DEF Unwound
<1> HIDE DEF s2
<1>4. /\ stack'[running] = s2 /\ \A u \in Threads \ {running} : stack'[u] = stack[u]
  BY <1>1, <1>2
<1>5. ThreadSound(world, loaded, initiating, s, answer[running], exc[running])
  BY <1>1 DEF IInv
<1>6. /\ ThreadSound(world, loaded, initiating, s2, answer[running], exc[running]) /\ (Sync(s2) <=> Sync(s))
      /\ s2 = <<>> => s = <<>>
      /\ \A n, j : Marks(s, answer[running], exc[running], n, j) => Marks(s2, answer[running], exc[running], n, j)
  <2> HIDE DEF s
  <2> QED  BY <1>1, <1>3, <1>5, UnwoundSound
<1>7. TypeOK'
  BY <1>1, <1>2, <1>3 DEF TypeOK, References
<1>8. \A u \in Threads : ThreadSound(world, loaded, initiating, stack[u], answer[u], exc[u])'
  BY <1>2, <1>4, <1>6 DEF IInv
<1>9. \A u \in Threads \ {running'} : ~Synchronous(u)'
  <2>1. ~Sync(s)
    <3>1. Sync(<<>>) => FALSE
      BY DEF Sync
    <3> QED  BY <1>2, <3>1, SynchronousIs DEF MaySwitch
  <2>2. \A u : Synchronous(u)' <=> Sync(stack'[u])
    BY DEF Synchronous, Sync
  <2>3. \A u \in Threads \ {running} : ~Sync(stack[u])
    BY SynchronousIs DEF IInv
  <2> QED  BY <1>4, <1>6, <2>1, <2>2, <2>3
<1>10. MarksSound'
  <2> SUFFICES ASSUME NEW n \in inchoate \ abandoned
               PROVE  \E u \in Threads : \E j \in DOMAIN stack'[u] : Marks(stack'[u], answer[u], exc[u], n, j)
    BY <1>2 DEF MarksSound
  <2>1. PICK u \in Threads : \E j \in DOMAIN stack[u] : Marks(stack[u], answer[u], exc[u], n, j)
    BY <1>1 DEF MarksSound
  <2>2. CASE u = running
    <3>1. DOMAIN s2 = DOMAIN s
      BY <1>3 DEF Unwound
    <3> QED  BY <1>1, <1>4, <1>6, <2>1, <2>2, <3>1
  <2>3. CASE u # running
    BY <1>4, <2>1, <2>3
  <2> QED  BY <2>2, <2>3
<1>11. Answered
  <2>1. \A u \in Threads : ~Ends(u)
    BY <1>4, <1>6 DEF Ends
  <2> QED  BY <2>1 DEF Answered
<1>12. TablesSound(world, loaded, initiating)'
  BY <1>2 DEF IInv
<1> QED  BY <1>7, <1>8, <1>9, <1>10, <1>11, <1>12 DEF IInv

-----------------------------------------------------------------------------
(* Every step, and the beginning. *)
LEMMA InvariantStep ==
  ASSUME IInv, [Next]_vars  PROVE IInv' /\ Answered
<1>1. CASE Step
  BY <1>1, LookupStep, OutOfMemoryStep, LookupDoneStep, LookupWildStep, DefineStep, SuperStep, SuperDoneStep, EndStep,
     LockStep, MustWaitStep, FindStep, ParentDoneStep, DefinedStep, ResolveStep DEF Step
<1>2. CASE \E r \in world.requests : Ask(r) \/ AskAgain(r)
  BY <1>2, AskStep, AskAgainStep
<1>3. CASE \E t \in Threads : Switch(t)
  BY <1>3, SwitchStep
<1>4. CASE UNCHANGED vars
  BY <1>4, UnchangedStep DEF vars, tables
<1> QED  BY <1>1, <1>2, <1>3, <1>4 DEF Next

LEMMA InvariantInit ==
  ASSUME Init  PROVE IInv
<1>1. Threads # {} /\ running = CHOOSE t \in Threads : TRUE
  BY LoadersAssumption DEF Init
<1>2. running \in Threads
  BY <1>1
<1>3. /\ world \in Worlds /\ loaded = {} /\ inchoate = {} /\ stack = [t \in Threads |-> <<>>]
      /\ initiating = [l \in Loaders |-> [n \in Names |-> NoClass]] /\ info = [r \in References |-> Unresolved]
      /\ answer = [t \in Threads |-> Null] /\ exc = [t \in Threads |-> "none"]
  BY DEF Init
<1>4. <<>> \in Seq(Frames) /\ Unresolved \in [class : ClassSet \cup {NoClass}, error : Exceptions]
  BY DEF Unresolved, Exceptions
<1>5. TypeOK
  BY <1>2, <1>3, <1>4, AnswersAre DEF TypeOK, Exceptions
<1>6. TablesSound(world, loaded, initiating)
  BY <1>3 DEF TablesSound
<1>7. \A w, lo, init, r, e : ThreadSound(w, lo, init, <<>>, r, e)
  BY DEF ThreadSound, ShapeSound, TopSound, StillMissing, CallsGoUp, Chained
<1>8. MarksSound /\ \A t \in Threads : ~Synchronous(t)
  BY <1>3 DEF MarksSound, Synchronous
<1> QED  BY <1>3, <1>5, <1>6, <1>7, <1>8 DEF IInv

LEMMA Invariance == Spec => []IInv
<1>1. Init => IInv
  BY InvariantInit
<1>2. IInv /\ [Next]_vars => IInv'
  BY InvariantStep
<1> QED  BY <1>1, <1>2, PTL DEF Spec


-----------------------------------------------------------------------------
(* The theorems. *)

(***************************************************************************)
(* The tables of the loaders agree (define_class, bjvm.c:1344, and the     *)
(* records of lookup_class, bjvm.c:1563): for every tree of loaders, every *)
(* class path and every number of threads.                                 *)
(***************************************************************************)
THEOREM TablesAgree == Spec => []RecordsSound
<1>1. IInv => RecordsSound
  <2> SUFFICES ASSUME IInv  PROVE RecordsSound
    OBVIOUS
  <2>1. TablesSound(world, loaded, initiating) /\ loaded \subseteq ClassSet
    BY DEF IInv, TypeOK
  <2>2. ASSUME NEW l \in Loaders, NEW n \in Names, initiating[l][n] # NoClass
        PROVE  LET c == initiating[l][n]
                   up == Ancestors(l)
               IN  /\ c \in loaded /\ c[2] = n
                   /\ \E i \in DOMAIN up : up[i] = c[1] /\ \A j \in 1 .. i : initiating[up[j]][n] = c
    <3> DEFINE c == initiating[l][n]
               up == Ancestors(l)
    <3>1. c = Definer(world, l, n) /\ c \in loaded
      BY <2>1, <2>2 DEF TablesSound
    <3>2. \A i \in DOMAIN up : (\A m \in 1 .. i : up[m] # c[1]) => initiating[up[i]][n] = c
      BY <2>1, <2>2 DEF TablesSound
    <3>3. PICK m \in 1 .. Height(l) :
            /\ Definer(world, l, n) = <<up[m], n>>
            /\ \A i \in 1 .. Height(l) : i < m <=> \A j \in 1 .. i : up[j] # up[m]
      BY <2>2, <3>1, DefinerBelow
    <3>4. DOMAIN up = 1 .. Height(l) /\ Height(l) \in Nat
      BY HeightIs
    <3>5. c[1] = up[m] /\ c[2] = n /\ initiating[c[1]][c[2]] = c
      BY <2>1, <3>1, <3>3 DEF TablesSound
    <3> HIDE DEF c, up
    <3>6. ASSUME NEW j \in 1 .. m  PROVE initiating[up[j]][n] = c
      <4>1. j = m \/ (j < m /\ j \in 1 .. Height(l))
        BY <3>4
      <4>2. CASE j = m
        BY <3>5, <4>2
      <4>3. CASE j < m /\ j \in 1 .. Height(l)
        BY <3>2, <3>3, <3>4, <3>5, <4>3
      <4> QED  BY <4>1, <4>2, <4>3
    <3> QED  BY <3>1, <3>4, <3>5, <3>6 DEF c, up
  <2> QED  BY <2>1, <2>2 DEF RecordsSound, TablesSound
<1> QED  BY <1>1, Invariance, PTL

(***************************************************************************)
(* A request gets the class its class file names and no other, and no      *)
(* class only if it cannot be loaded or the machine failed (lookup_class,  *)
(* bjvm.c:1497).                                                           *)
(***************************************************************************)
THEOREM RequestsAnswered == Spec => LookupRight
<1> DEFINE Right(t) ==
             LET f == Outer(t)
                 r == answer'[t]
                 c == IF f.op = "define" THEN <<f.cl, f.name>> ELSE Definer(world, f.cl, f.name)
             IN  IF r.class # NoClass
                 THEN r.class = c /\ c \in Loadable(world) /\ exc'[t] = "none" /\ (f.kept => r.dims = f.dims)
                 ELSE /\ \/ c \notin Loadable(world)
                         \/ exc'[t] \in {"ClassCircularityError", "StackOverflowError", "OutOfMemoryError"}
                         \/ exc'[t] = "LinkageError" /\ c \in loaded
                      /\ f.raise => exc'[t] # "none"
<1>1. ASSUME IInv, [Next]_vars, NEW t \in Threads, Ends(t)  PROVE Right(t)
  <2> DEFINE f == Outer(t)
             e == exc'[t]
             c == IF f.op = "define" THEN <<f.cl, f.name>> ELSE Definer(world, f.cl, f.name)
  <2>1. IInv' /\ Answered
    BY <1>1, InvariantStep
  <2>2. /\ Returns(world, loaded', initiating', f, answer'[t], e, Sync(stack[t])) /\ f = stack[t][1]
        /\ answer'[t].class = NoClass => loaded' = loaded
    BY <1>1, <2>1 DEF Answered
  <2>3. world \in Worlds /\ stack[t] \in Seq(Frames) /\ stack[t] # <<>> /\ ShapeSound(world, loaded, initiating, stack[t])
    BY <1>1 DEF IInv, TypeOK, ThreadSound, Ends
  <2>4. FrameSound(world, loaded, initiating, f)
    BY <2>2, <2>3, TailIs DEF ShapeSound
  <2>5. c = Wanted(world, f)
    BY <2>4 DEF FrameSound, Wanted, ClassOf
  <2>6. world' = world
    BY <1>1 DEF vars, Next, Step, Ask, AskAgain, Asked, Switch, Control, lookup_class, LookupOutOfMemory, LookupDone,
       LookupWild, define_class, DefineSuper, DefineSuperDone, DefineEnd, LoadLock, LoadMustWait, LoadFind, LoadParentDone,
       LoadDefined, resolve_class_impl
  <2>7. loaded' \subseteq Loadable(world)
    BY <2>1, <2>6 DEF IInv, TablesSound
  <2>8. NoClass \notin Loadable(world)
    BY <2>3, LoadableIs, WorldIs
  <2> HIDE DEF c, f, e
  <2>9. CASE answer'[t].class # NoClass
    BY <2>2, <2>5, <2>7, <2>9 DEF Returns, c, f, e
  <2>10. CASE answer'[t].class = NoClass
    <3>1. Failure(world, loaded', Wanted(world, f), e) /\ (f.raise => e # "none") /\ loaded' = loaded
      BY <2>2, <2>10 DEF Returns
    <3>2. \/ c \notin Loadable(world)
          \/ e \in {"ClassCircularityError", "StackOverflowError", "OutOfMemoryError"}
          \/ e = "LinkageError" /\ c \in loaded
      BY <2>3, <2>5, <2>8, <3>1, LoadableComplete DEF Failure, Machine
    <3> QED  BY <2>10, <3>1, <3>2 DEF c, f, e
  <2> QED  BY <2>9, <2>10
<1>2. IInv /\ [Next]_vars => [\A t \in Threads : Ends(t) => Right(t)]_vars
  BY <1>1
<1>3. Spec => [][\A t \in Threads : Ends(t) => Right(t)]_vars
  BY <1>2, Invariance, PTL DEF Spec
<1> QED  BY <1>3 DEF LookupRight


(* A circularity is reported by the running thread, at a supertype that is marked. *)
LEMMA CircularityAt ==
  ASSUME IInv, [Next]_vars, NEW t \in Threads, Len(stack'[t]) < Len(stack[t]), Head(stack[t]).op = "define",
         Head(stack[t]).at = "supers", exc'[t] = "ClassCircularityError"
  PROVE  /\ t = running /\ stack[t] # <<>> /\ Top.op = "define" /\ Top.at = "supers" /\ Top.k <= Len(File.supers)
         /\ File.supers[Top.k] \in inchoate
<1>1. /\ running \in Threads /\ stack \in [Threads -> Seq(Frames)] /\ stack' \in [Threads -> Seq(Frames)]
      /\ exc \in [Threads -> Exceptions]
  BY InvariantStep DEF IInv, TypeOK
<1>2. Len(stack'[t]) \in Nat /\ Len(stack[t]) \in Nat /\ stack'[t] # stack[t]
  BY <1>1
<1>3. stack[t] # <<>>
  <2>1. Len(<<>>) = 0
    OBVIOUS
  <2> QED  BY <1>2, <2>1
<1>4. CASE UNCHANGED vars
  BY <1>2, <1>4 DEF vars
<1>5. CASE \E r \in world.requests : Ask(r) \/ AskAgain(r)
  <2>1. PICK r : stack[running] = <<>> /\ (stack' = [stack EXCEPT ![running] = Entered(r)] \/ stack' = stack)
    BY <1>5 DEF Ask, AskAgain, MayAsk
  <2> QED  BY <1>1, <1>2, <1>3, <2>1
<1>6. CASE \E u \in Threads : Switch(u)
  <2>1. t = running
    BY <1>1, <1>2, <1>6 DEF Switch
  <2>2. stack'[t] = [i \in DOMAIN stack[t] |-> [stack[t][i] EXCEPT !.kept = FALSE]]
    BY <1>1, <1>6, <2>1 DEF Switch
  <2>3. Len(stack'[t]) = Len(stack[t])
    BY <1>1, <2>2
  <2> QED  BY <1>2, <2>3
<1>7. CASE Step
  <2>1. t = running
    BY <1>1, <1>2, <1>7 DEF Step, lookup_class, LookupOutOfMemory, LookupDone, LookupWild, define_class, DefineSuper,
       DefineSuperDone, DefineEnd, LoadLock, LoadMustWait, LoadFind, LoadParentDone, LoadDefined, resolve_class_impl,
       Return, GoOn, Call, CallJava
  <2>2. Top.op = "define" /\ Top.at = "supers"
    BY <2>1 DEF Top
  <2>3. DefineSuper \/ DefineEnd
    BY <1>7, <2>2 DEF Step, Is, lookup_class, LookupOutOfMemory, LookupDone, LookupWild, define_class,
       DefineSuperDone, LoadLock, LoadMustWait, LoadFind, LoadParentDone, LoadDefined, resolve_class_impl
  <2>4. exc[running] = "none"
    BY <1>3, <2>1, <2>2, Here DEF Waiting
  <2>5. ~DefineEnd
    BY <1>1, <2>1, <2>4 DEF DefineEnd, Return, Answer
  <2>6. CASE File.supers[Top.k] \notin inchoate
    BY <1>1, <2>1, <2>3, <2>4, <2>5, <2>6 DEF DefineSuper
  <2> QED  BY <1>3, <2>1, <2>2, <2>3, <2>5, <2>6 DEF DefineSuper
<1> QED  BY <1>4, <1>5, <1>6, <1>7 DEF Next

(***************************************************************************)
(* A circularity is reported only where the class files have one, where    *)
(* another thread is loading the supertype, or where a lookup of it ran    *)
(* out of memory (define_class, bjvm.c:1373).                              *)
(***************************************************************************)
THEOREM CircularitiesReal == Spec => CircularityJustified
<1> DEFINE Reported(t) ==
             (Len(stack'[t]) < Len(stack[t]) /\ Head(stack[t]).op = "define" /\ Head(stack[t]).at = "supers"
                /\ exc'[t] = "ClassCircularityError")
           Justified(t) ==
             LET d == Head(stack[t])
                 c == <<d.cl, d.name>>
                 s == Definer(world, d.cl, world.files[c].supers[d.k])
             IN  \/ s # NoClass /\ Leads(world, s, c)
                 \/ LookedUpByOther(t, world.files[c].supers[d.k])
                 \/ world.files[c].supers[d.k] \in abandoned
<1>1. ASSUME IInv, [Next]_vars, NEW t \in Threads, Reported(t)  PROVE Justified(t)
  <2> DEFINE s == stack[t]
             d == Top
             x == File.supers[Top.k]
  <2>1. t = running /\ s # <<>> /\ d.op = "define" /\ d.at = "supers" /\ x \in inchoate /\ d.k <= Len(File.supers)
    BY <1>1, CircularityAt
  <2>2. /\ world \in Worlds /\ s \in Seq(Frames) /\ d = s[1] /\ d \in Frames /\ ShapeSound(world, loaded, initiating, s)
        /\ FrameSound(world, loaded, initiating, d) /\ Head(s) = d
    BY <1>1, <2>1, Here DEF Top
  <2>3. File = FileOf(world, d) /\ d.cl \in Loaders /\ x \in Names
    BY <2>1, <2>2, SuperIs DEF File, FileOf, ClassOf, Frames
  <2>4. SUFFICES ASSUME x \notin abandoned, ~LookedUpByOther(t, x)
                 PROVE  Definer(world, d.cl, x) # NoClass /\ Leads(world, Definer(world, d.cl, x), ClassOf(d))
    BY <2>1, <2>2 DEF File, ClassOf
  <2>5. PICK u \in Threads : \E j \in DOMAIN stack[u] : Marks(stack[u], answer[u], exc[u], x, j)
    BY <1>1, <2>1, <2>4 DEF IInv, MarksSound
  <2>6. u = t
    BY <2>4, <2>5 DEF Marks, LookedUpByOther
  <2>7. PICK j \in DOMAIN s : s[j].op = "lookup" /\ s[j].name = x /\ Marks(s, answer[t], exc[t], x, j)
    BY <2>5, <2>6 DEF Marks
  <2>8. DOMAIN s = 1 .. Len(s) /\ Len(s) \in Nat /\ 1 \in DOMAIN s
    BY <2>1, <2>2, TailIs
  <2>9. j # 1
    BY <2>1, <2>2, <2>7
  <2>10. s[j].cl = Boot
    <3>1. 1 \in 1 .. j - 1
      BY <2>7, <2>8, <2>9
    <3>2. ~Passes(s[1])
      BY <2>1, <2>2 DEF Passes
    <3> QED  BY <2>7, <3>1, <3>2 DEF Marks
  <2>11. j - 1 \in DOMAIN s /\ (j - 1) + 1 = j
    BY <2>7, <2>8, <2>9
  <2> DEFINE b == s[j - 1]
  <2>12. CallSound(world, s[j], b) /\ FrameSound(world, loaded, initiating, b)
    BY <2>2, <2>7, <2>11 DEF ShapeSound
  <2>13. b.op = "define" /\ b.cl = Boot /\ b.name = x /\ ClassOf(b) = <<Boot, x>> /\ Wanted(world, b) = ClassOf(b)
    BY <2>7, <2>10, <2>12 DEF CallSound, FrameSound, ClassOf
  <2>14. Definer(world, Boot, x) = <<Boot, x>>
    BY <2>13 DEF Wanted
  <2>15. Wanted(world, d) = ClassOf(d) /\ ClassOf(d) # NoClass
    BY <2>1, <2>2, NoClassIs DEF FrameSound, ClassOf
  <2>16. CASE j - 1 = 1
    <3>1. d.cl = Boot /\ ClassOf(d) = <<Boot, x>>
      BY <2>2, <2>13, <2>16
    <3> QED  BY <2>14, <3>1, NoClassIs, LeadsSelf
  <2>17. CASE j - 1 # 1
    <3>1. 1 < j - 1
      BY <2>8, <2>11, <2>17
    <3>2. Height(d.cl) <= Height(Boot) /\ Leads(world, <<Boot, x>>, ClassOf(d))
      BY <2>2, <2>8, <2>11, <2>13, <2>15, <3>1 DEF ShapeSound, CallsGoUp, Chained
    <3>3. d.cl = Boot
      <4>1. Height(Boot) = 1
        BY AncestorsBoot DEF Height
      <4>2. d.cl # Boot => Height(d.cl) = 1 + Height(Parent[d.cl]) /\ Height(Parent[d.cl]) \in Nat \ {0}
        BY <2>3, HeightIs, ParentIs
      <4> QED  BY <3>2, <4>1, <4>2
    <3> QED  BY <2>14, <3>2, <3>3, NoClassIs
  <2> QED  BY <2>16, <2>17
<1>2. IInv /\ [Next]_vars => [\A t \in Threads : Reported(t) => Justified(t)]_vars
  BY <1>1
<1>3. Spec => [][\A t \in Threads : Reported(t) => Justified(t)]_vars
  BY <1>2, Invariance, PTL DEF Spec
<1> QED  BY <1>3 DEF CircularityJustified

=============================================================================
