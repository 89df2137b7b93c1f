------------------------- MODULE Interpreter2Proofs -------------------------
(***************************************************************************)
(* Proofs about Interpreter2, for every code, every stack limit and any    *)
(* number of instructions and collections.                                 *)
(***************************************************************************)
EXTENDS Interpreter2, SequenceTheorems, FiniteSetTheorems, WellFoundedInduction, TLAPS

-----------------------------------------------------------------------------
(***************************************************************************)
(* Induction over numbers and sequences, for the sets a proof defines.     *)
(***************************************************************************)
LEMMA NatIn ==
  ASSUME NEW P, 0 \in P, \A k \in Nat : k \in P => k + 1 \in P
  PROVE  Nat \subseteq P
<1> DEFINE S == {k \in Nat : k \notin P}
<1> SUFFICES ASSUME S # {}  PROVE FALSE
  OBVIOUS
<1> DEFINE R == {ss \in Nat \X Nat : ss[1] < ss[2]}
<1>1. IsWellFoundedOn(R, Nat)
  BY NatLessThanWellFounded DEF OpToRel
<1>2. PICK x \in S : \A k \in S : ~(<<k, x>> \in R)
  BY <1>1, WFMin
<1>3. x \in Nat /\ x # 0
  BY <1>2
<1>4. x - 1 \in Nat /\ x - 1 < x /\ (x - 1) + 1 = x
  BY <1>3
<1>5. <<x - 1, x>> \in R
  BY <1>3, <1>4
<1>6. x - 1 \in P
  BY <1>2, <1>4, <1>5
<1> QED  BY <1>2, <1>4, <1>6

LEMMA SeqIn ==
  ASSUME NEW S, NEW P, <<>> \in P, \A s \in Seq(S), e \in S : s \in P => Append(s, e) \in P
  PROVE  Seq(S) \subseteq P
<1> DEFINE Q == {k \in Nat : \A s \in Seq(S) : Len(s) = k => s \in P}
<1>1. 0 \in Q
  <2>1. \A s \in Seq(S) : Len(s) = 0 => s = <<>>
    BY EmptySeq
  <2> QED  BY <2>1
<1>2. ASSUME NEW k \in Nat, k \in Q  PROVE k + 1 \in Q
  <2> SUFFICES ASSUME NEW s \in Seq(S), Len(s) = k + 1  PROVE s \in P
    OBVIOUS
  <2>1. s # <<>>
    OBVIOUS
  <2>2. PICK t \in Seq(S), e \in S : s = Append(t, e)
    BY <2>1, SequenceEmptyOrAppend
  <2>3. Len(t) = k
    BY <2>2, AppendProperties, LenProperties
  <2> QED  BY <1>2, <2>2, <2>3
<1>3. Nat \subseteq Q
  <2> HIDE DEF Q
  <2> QED  BY <1>1, <1>2, NatIn
<1> QED  BY <1>3, LenProperties

-----------------------------------------------------------------------------
(***************************************************************************)
(* FlattenSeq, by which Words is defined, adds one sequence at a time.     *)
(***************************************************************************)
Flat(f, seqs) == f = [i \in 1..Len(seqs) |-> IF i = 1 THEN seqs[i] ELSE f[i-1] \o seqs[i]]

LEMMA FlatAt ==
  ASSUME NEW f, NEW T, NEW seqs \in Seq(Seq(T)), Flat(f, seqs), NEW i \in 1..Len(seqs)
  PROVE  f[i] = IF i = 1 THEN seqs[i] ELSE f[i-1] \o seqs[i]
<1> DEFINE g == [k \in 1..Len(seqs) |-> IF k = 1 THEN seqs[k] ELSE f[k-1] \o seqs[k]]
<1>1. f = g /\ g[i] = IF i = 1 THEN seqs[i] ELSE f[i-1] \o seqs[i]
  BY DEF Flat
<1> HIDE DEF g
<1> QED  BY <1>1

LEMMA FlatIs ==
  ASSUME NEW f, NEW T, NEW seqs \in Seq(Seq(T)), f = [i \in 1..Len(seqs) |-> f[i]],
         \A i \in 1..Len(seqs) : f[i] = IF i = 1 THEN seqs[i] ELSE f[i-1] \o seqs[i]
  PROVE  Flat(f, seqs)
BY DEF Flat

LEMMA FlatExists ==
  ASSUME NEW T, NEW seqs \in Seq(Seq(T))
  PROVE  \E f : Flat(f, seqs) /\ \A i \in 1..Len(seqs) : f[i] \in Seq(T)
<1> DEFINE Good(x) == \E f : Flat(f, x) /\ \A i \in 1..Len(x) : f[i] \in Seq(T)
           P == {x \in Seq(Seq(T)) : Good(x)}
<1>1. <<>> \in P
  <2> DEFINE g == [i \in 1..0 |-> <<>>]
  <2>1. <<>> \in Seq(Seq(T)) /\ Len(<<>>) = 0
    BY EmptySeq
  <2>2. Flat(g, <<>>)
    BY <2>1 DEF Flat
  <2> HIDE DEF g
  <2> QED  BY <2>1, <2>2
<1>2. ASSUME NEW s \in Seq(Seq(T)), NEW e \in Seq(T), s \in P  PROVE Append(s, e) \in P
  <2> DEFINE n1 == Len(s) + 1
             u == Append(s, e)
  <2>1. PICK f : Flat(f, s) /\ \A i \in 1..Len(s) : f[i] \in Seq(T)
    BY <1>2
  <2>2. /\ u \in Seq(Seq(T)) /\ Len(u) = n1 /\ Len(s) \in Nat /\ u[n1] = e
        /\ \A i \in 1..Len(s) : u[i] = s[i]
    BY AppendProperties, LenProperties
  <2> HIDE DEF u
  <2> DEFINE g == [i \in 1..n1 |-> IF i \in 1..Len(s) THEN f[i]
                                   ELSE IF Len(s) = 0 THEN e ELSE f[Len(s)] \o e]
  <2>3. ASSUME NEW i \in 1..n1  PROVE (g[i] = IF i = 1 THEN u[i] ELSE g[i-1] \o u[i]) /\ g[i] \in Seq(T)
    <3>1. CASE i \in 1..Len(s)
      <4>1. g[i] = f[i] /\ f[i] \in Seq(T) /\ u[i] = s[i]
        BY <2>1, <2>2, <3>1
      <4>2. i # 1 => i - 1 \in 1..Len(s)
        BY <2>2, <3>1
      <4>a. ASSUME NEW j \in 1..Len(s)  PROVE g[j] = f[j]
        <5>1. j \in 1..n1
          BY <2>2
        <5> QED  BY <5>1
      <4>3. i # 1 => g[i - 1] = f[i - 1]
        <5> HIDE DEF g
        <5> QED  BY <4>2, <4>a
      <4>4. f[i] = IF i = 1 THEN s[i] ELSE f[i-1] \o s[i]
        BY <2>1, <3>1, FlatAt
      <4> HIDE DEF g
      <4> QED  BY <4>1, <4>3, <4>4
    <3>2. CASE i \notin 1..Len(s)
      <4>1. i = n1 /\ u[i] = e
        BY <2>2, <3>2
      <4>2. CASE Len(s) = 0
        BY <4>1, <4>2, <3>2
      <4>3. CASE Len(s) # 0
        <5>1. i - 1 = Len(s) /\ i # 1 /\ Len(s) \in 1..Len(s) /\ Len(s) \in 1..n1
          BY <2>2, <4>1, <4>3
        <5>2. g[i] = f[Len(s)] \o e /\ g[i - 1] = f[Len(s)]
          BY <3>2, <5>1, <4>3
        <5>3. f[Len(s)] \in Seq(T)
          BY <2>1, <5>1
        <5> HIDE DEF g
        <5>4. f[Len(s)] \o e \in Seq(T)
          BY <5>3, ConcatProperties, Zenon
        <5> QED  BY <4>1, <5>1, <5>2, <5>4
      <4> QED  BY <4>2, <4>3
    <3> QED  BY <3>1, <3>2
  <2>4. g = [i \in 1..Len(u) |-> g[i]]
    BY <2>2
  <2> HIDE DEF g
  <2>6. \A i \in 1..Len(u) : g[i] = IF i = 1 THEN u[i] ELSE g[i-1] \o u[i]
    BY <2>2, <2>3
  <2>5. Flat(g, u)
    BY <2>2, <2>4, <2>6, FlatIs
  <2> QED  BY <2>2, <2>3, <2>5 DEF u
<1>3. Seq(Seq(T)) \subseteq P
  <2> HIDE DEF P
  <2> QED  BY <1>1, <1>2, SeqIn
<1> QED  BY <1>3

LEMMA FlatAgree ==
  ASSUME NEW T, NEW s \in Seq(Seq(T)), NEW e \in Seq(T), NEW f, NEW g,
         Flat(f, s), Flat(g, Append(s, e))
  PROVE  \A i \in 1..Len(s) : f[i] = g[i]
<1> DEFINE P == {k \in Nat : k + 1 \in 1..Len(s) => f[k + 1] = g[k + 1]}
           u == Append(s, e)
<1>1. /\ u \in Seq(Seq(T)) /\ Len(u) = Len(s) + 1 /\ Len(s) \in Nat
      /\ \A i \in 1..Len(s) : u[i] = s[i]
  BY AppendProperties, LenProperties
<1> HIDE DEF u
<1>2. Flat(g, u)
  BY DEF u
<1>3. \A i \in 1..Len(s) : /\ f[i] = IF i = 1 THEN s[i] ELSE f[i-1] \o s[i]
                           /\ g[i] = IF i = 1 THEN s[i] ELSE g[i-1] \o s[i]
  <2> TAKE i \in 1..Len(s)
  <2>1. i \in 1..Len(u)
    BY <1>1
  <2>2. g[i] = IF i = 1 THEN u[i] ELSE g[i-1] \o u[i]
    <3>1. u \in Seq(Seq(T)) /\ Flat(g, u)
      BY <1>1, <1>2
    <3> HIDE DEF P
    <3> QED  BY <2>1, <3>1, FlatAt
  <2>3. f[i] = IF i = 1 THEN s[i] ELSE f[i-1] \o s[i]
    BY FlatAt
  <2>4. u[i] = s[i]
    BY <1>1
  <2> QED  BY <2>2, <2>3, <2>4, Zenon
<1>4. 0 \in P
  BY <1>1, <1>3
<1>5. ASSUME NEW k \in Nat, k \in P  PROVE k + 1 \in P
  <2> SUFFICES ASSUME (k + 1) + 1 \in 1..Len(s)  PROVE f[(k + 1) + 1] = g[(k + 1) + 1]
    OBVIOUS
  <2>1. k + 1 \in 1..Len(s) /\ ((k + 1) + 1) - 1 = k + 1 /\ (k + 1) + 1 # 1
    BY <1>1
  <2>2. f[k + 1] = g[k + 1]
    BY <1>5, <2>1
  <2> HIDE DEF P
  <2> QED  BY <1>3, <2>1, <2>2
<1>6. Nat \subseteq P
  <2> HIDE DEF P
  <2> QED  BY <1>4, <1>5, NatIn
<1> SUFFICES ASSUME NEW i \in 1..Len(s)  PROVE f[i] = g[i]
  OBVIOUS
<1>7. i - 1 \in Nat /\ (i - 1) + 1 = i
  BY <1>1
<1> QED  BY <1>6, <1>7

LEMMA FlattenIs ==
  ASSUME NEW T, NEW s \in Seq(Seq(T))
  PROVE  \E f : /\ Flat(f, s) /\ \A i \in 1..Len(s) : f[i] \in Seq(T)
                /\ FlattenSeq(s) = IF Len(s) = 0 THEN s ELSE f[Len(s)]
<1> DEFINE f == CHOOSE g : Flat(g, s)
<1>1. PICK h : Flat(h, s) /\ \A i \in 1..Len(s) : h[i] \in Seq(T)
  BY FlatExists
<1>2. Flat(f, s)
  BY <1>1
<1>3. FlattenSeq(s) = IF Len(s) = 0 THEN s ELSE f[Len(s)]
  BY DEF FlattenSeq, Flat
<1> HIDE DEF f
<1>4. \A i \in 1..Len(s) : h[i] = f[i]
  <2> DEFINE P == {k \in Nat : k + 1 \in 1..Len(s) => f[k + 1] = h[k + 1]}
  <2>1. 0 \in P
    BY <1>1, <1>2, FlatAt
  <2>2. ASSUME NEW k \in Nat, k \in P  PROVE k + 1 \in P
    <3> SUFFICES ASSUME (k + 1) + 1 \in 1..Len(s)  PROVE f[(k + 1) + 1] = h[(k + 1) + 1]
      OBVIOUS
    <3>1. k + 1 \in 1..Len(s) /\ ((k + 1) + 1) - 1 = k + 1 /\ (k + 1) + 1 # 1
      BY LenProperties
    <3>2. f[k + 1] = h[k + 1]
      BY <2>2, <3>1
    <3> HIDE DEF P
    <3> QED  BY <1>1, <1>2, <3>1, <3>2, FlatAt
  <2>3. Nat \subseteq P
    <3> HIDE DEF P
    <3> QED  BY <2>1, <2>2, NatIn
  <2> SUFFICES ASSUME NEW i \in 1..Len(s)  PROVE h[i] = f[i]
    OBVIOUS
  <2>4. i - 1 \in Nat /\ (i - 1) + 1 = i
    BY LenProperties
  <2> QED  BY <2>3, <2>4
<1> QED  BY <1>1, <1>2, <1>3, <1>4

LEMMA FlattenType ==
  ASSUME NEW T, NEW s \in Seq(Seq(T))
  PROVE  FlattenSeq(s) \in Seq(T)
<1>1. PICK f : /\ Flat(f, s) /\ \A i \in 1..Len(s) : f[i] \in Seq(T)
               /\ FlattenSeq(s) = IF Len(s) = 0 THEN s ELSE f[Len(s)]
  BY FlattenIs
<1>2. Len(s) \in Nat /\ (Len(s) = 0 => s = <<>>)
  BY LenProperties, EmptySeq
<1> QED  BY <1>1, <1>2, EmptySeq

LEMMA FlattenAppend ==
  ASSUME NEW T, NEW s \in Seq(Seq(T)), NEW e \in Seq(T)
  PROVE  FlattenSeq(Append(s, e)) = FlattenSeq(s) \o e
<1> DEFINE u == Append(s, e)
<1>1. /\ u \in Seq(Seq(T)) /\ Len(u) = Len(s) + 1 /\ Len(s) \in Nat /\ u[Len(s) + 1] = e
      /\ \A i \in 1..Len(s) : u[i] = s[i]
  BY AppendProperties, LenProperties
<1>2. PICK f : /\ Flat(f, s) /\ \A i \in 1..Len(s) : f[i] \in Seq(T)
               /\ FlattenSeq(s) = IF Len(s) = 0 THEN s ELSE f[Len(s)]
  BY FlattenIs
<1>3. PICK g : /\ Flat(g, u) /\ FlattenSeq(u) = IF Len(u) = 0 THEN u ELSE g[Len(u)]
  BY <1>1, FlattenIs
<1>4. \A i \in 1..Len(s) : f[i] = g[i]
  BY <1>2, <1>3, FlatAgree
<1> HIDE DEF u
<1>5. FlattenSeq(u) = g[Len(s) + 1] /\ Len(s) + 1 \in 1..Len(u)
  BY <1>1, <1>3
<1>6. g[Len(s) + 1] = IF Len(s) + 1 = 1 THEN u[Len(s) + 1] ELSE g[(Len(s) + 1) - 1] \o u[Len(s) + 1]
  BY <1>1, <1>3, <1>5, FlatAt
<1>7. CASE Len(s) = 0
  <2>1. s = <<>>
    BY <1>7, EmptySeq
  <2>2. FlattenSeq(s) \o e = e
    BY <1>2, <1>7, <2>1, ConcatEmptySeq
  <2> QED  BY <1>1, <1>5, <1>6, <1>7, <2>2 DEF u
<1>8. CASE Len(s) # 0
  <2>1. Len(s) \in 1..Len(s) /\ (Len(s) + 1) - 1 = Len(s) /\ Len(s) + 1 # 1
    BY <1>1, <1>8
  <2> QED  BY <1>1, <1>2, <1>4, <1>5, <1>6, <1>8, <2>1 DEF u
<1> QED  BY <1>7, <1>8

LEMMA FlattenEmpty == FlattenSeq(<<>>) = <<>>
BY DEF FlattenSeq


-----------------------------------------------------------------------------
(***************************************************************************)
(* A stack of values and the stack of its words.                           *)
(***************************************************************************)
Val == [t : TypeKinds \union {"V"}, id : Nat, gc : Nat]
Word == Val \X {1, 2}

WordsOfOne(v) == IF IsWideValue(v) THEN <<<<v, 1>>, <<v, 2>>>> ELSE <<<<v, 1>>>>

LEMMA OneType == ASSUME NEW v \in Val  PROVE WordsOfOne(v) \in Seq(Word)
<1>1. <<v, 1>> \in Word /\ <<v, 2>> \in Word
  BY DEF Word
<1> QED  BY <1>1 DEF WordsOfOne

Spread(s) == [i \in DOMAIN s |-> WordsOfOne(s[i])]

LEMMA SpreadType ==
  ASSUME NEW s \in Seq(Val)
  PROVE  Spread(s) \in Seq(Seq(Word)) /\ Len(Spread(s)) = Len(s)
<1>1. Len(s) \in Nat /\ DOMAIN s = 1..Len(s) /\ \A i \in 1..Len(s) : s[i] \in Val
  BY LenProperties, ElementOfSeq
<1>2. Spread(s) = [i \in 1..Len(s) |-> WordsOfOne(s[i])]
  BY <1>1 DEF Spread
<1>3. \A i \in 1..Len(s) : WordsOfOne(s[i]) \in Seq(Word)
  BY <1>1, OneType
<1>4. Spread(s) \in [1..Len(s) -> Seq(Word)]
  BY <1>2, <1>3
<1> QED  BY <1>1, <1>4, SeqDef

LEMMA SpreadAppend ==
  ASSUME NEW s \in Seq(Val), NEW v \in Val
  PROVE  Spread(Append(s, v)) = Append(Spread(s), WordsOfOne(v))
<1> DEFINE a == Spread(Append(s, v))
           b == Append(Spread(s), WordsOfOne(v))
<1>1. /\ Append(s, v) \in Seq(Val) /\ Len(Append(s, v)) = Len(s) + 1 /\ Append(s, v)[Len(s) + 1] = v
      /\ Len(s) \in Nat /\ DOMAIN s = 1..Len(s) /\ DOMAIN Append(s, v) = 1..(Len(s) + 1)
      /\ \A i \in 1..Len(s) : Append(s, v)[i] = s[i]
  BY AppendProperties, LenProperties
<1>2. a \in Seq(Seq(Word)) /\ Len(a) = Len(s) + 1
  BY <1>1, SpreadType
<1>3. /\ b \in Seq(Seq(Word)) /\ Len(b) = Len(s) + 1 /\ b[Len(s) + 1] = WordsOfOne(v)
      /\ \A i \in 1..Len(s) : b[i] = Spread(s)[i]
  BY <1>1, SpreadType, OneType, AppendProperties
<1>4. \A i \in 1..(Len(s) + 1) : a[i] = b[i]
  <2> TAKE i \in 1..(Len(s) + 1)
  <2>1. a[i] = WordsOfOne(Append(s, v)[i])
    BY <1>1 DEF Spread
  <2>2. CASE i \in 1..Len(s)
    BY <1>1, <1>3, <2>1, <2>2 DEF Spread
  <2>3. CASE i = Len(s) + 1
    BY <1>1, <1>3, <2>1, <2>3
  <2>4. i \in 1..Len(s) \/ i = Len(s) + 1
    BY <1>1
  <2> QED  BY <2>2, <2>3, <2>4
<1> HIDE DEF a, b
<1>5. a = b
  BY <1>2, <1>3, <1>4, SeqEqual
<1> QED  BY <1>5 DEF a, b

LEMMA WordsAre == ASSUME NEW s \in Seq(Val)  PROVE WordsOfValues(s) = FlattenSeq(Spread(s))
BY DEF WordsOfValues, Words, Spread, WordsOfOne

LEMMA WordsType == ASSUME NEW s \in Seq(Val)  PROVE WordsOfValues(s) \in Seq(Word)
BY WordsAre, SpreadType, FlattenType

LEMMA WordsEmpty == WordsOfValues(<<>>) = <<>>
<1>1. Spread(<<>>) = <<>>
  BY DEF Spread
<1> QED  BY <1>1, WordsAre, FlattenEmpty, EmptySeq

LEMMA WordsAppend ==
  ASSUME NEW s \in Seq(Val), NEW v \in Val
  PROVE  WordsOfValues(Append(s, v)) = WordsOfValues(s) \o WordsOfOne(v)
<1>1. Append(s, v) \in Seq(Val)
  BY AppendProperties
<1>2. WordsOfValues(Append(s, v)) = FlattenSeq(Append(Spread(s), WordsOfOne(v)))
  BY <1>1, WordsAre, SpreadAppend
<1>3. FlattenSeq(Append(Spread(s), WordsOfOne(v))) = FlattenSeq(Spread(s)) \o WordsOfOne(v)
  BY SpreadType, OneType, FlattenAppend
<1> QED  BY <1>2, <1>3, WordsAre

LEMMA WordsConcat ==
  ASSUME NEW s \in Seq(Val), NEW t \in Seq(Val)
  PROVE  WordsOfValues(s \o t) = WordsOfValues(s) \o WordsOfValues(t)
<1> DEFINE P == {x \in Seq(Val) : WordsOfValues(s \o x) = WordsOfValues(s) \o WordsOfValues(x)}
<1>1. <<>> \in P
  BY WordsEmpty, WordsType, ConcatEmptySeq, EmptySeq
<1>2. ASSUME NEW x \in Seq(Val), NEW v \in Val, x \in P  PROVE Append(x, v) \in P
  <2>1. Append(x, v) \in Seq(Val) /\ s \o x \in Seq(Val)
    BY AppendProperties, ConcatProperties
  <2>2. s \o Append(x, v) = Append(s \o x, v)
    <3>1. <<v>> \in Seq(Val)
      OBVIOUS
    <3> QED  BY <2>1, <3>1, AppendIsConcat, ConcatAssociative
  <2>3. WordsOfValues(s \o Append(x, v)) = (WordsOfValues(s) \o WordsOfValues(x)) \o WordsOfOne(v)
    BY <1>2, <2>1, <2>2, WordsAppend
  <2>a. WordsOfValues(s) \in Seq(Word) /\ WordsOfValues(x) \in Seq(Word) /\ WordsOfOne(v) \in Seq(Word)
    BY WordsType, OneType
  <2>b. (WordsOfValues(s) \o WordsOfValues(x)) \o WordsOfOne(v) = WordsOfValues(s) \o (WordsOfValues(x) \o WordsOfOne(v))
    <3> DEFINE a == WordsOfValues(s)
               b == WordsOfValues(x)
               c == WordsOfOne(v)
    <3>1. a \in Seq(Word) /\ b \in Seq(Word) /\ c \in Seq(Word)
      BY <2>a
    <3> HIDE DEF a, b, c
    <3>2. (a \o b) \o c = a \o (b \o c)
      BY <3>1, ConcatAssociative, SMTT(20)
    <3> QED  BY <3>2 DEF a, b, c
  <2>4. WordsOfValues(s \o Append(x, v)) = WordsOfValues(s) \o (WordsOfValues(x) \o WordsOfOne(v))
    BY <2>3, <2>b, Zenon
  <2>5. WordsOfValues(Append(x, v)) = WordsOfValues(x) \o WordsOfOne(v)
    BY WordsAppend
  <2> QED  BY <2>1, <2>4, <2>5
<1>3. Seq(Val) \subseteq P
  <2> HIDE DEF P
  <2> QED  BY <1>1, <1>2, SeqIn
<1> QED  BY <1>3


-----------------------------------------------------------------------------
LEMMA TwoSingles == ASSUME NEW S, NEW a \in S, NEW b \in S  PROVE <<a>> \o <<b>> = <<a, b>>
<1>1. <<a>> \in Seq(S) /\ <<b>> \in Seq(S) /\ <<a, b>> \in Seq(S)
  OBVIOUS
<1>2. Len(<<a>>) = 1 /\ Len(<<b>>) = 1 /\ Len(<<a, b>>) = 2
  OBVIOUS
<1>3. /\ <<a>> \o <<b>> \in Seq(S) /\ Len(<<a>> \o <<b>>) = 2
      /\ (<<a>> \o <<b>>)[1] = a /\ (<<a>> \o <<b>>)[2] = b
  BY <1>1, <1>2, ConcatProperties
<1> DEFINE x == <<a>> \o <<b>>
           y == <<a, b>>
<1>4. y[1] = a /\ y[2] = b
  OBVIOUS
<1> HIDE DEF x, y
<1>5. \A i \in 1..Len(x) : x[i] = y[i]
  <2> TAKE i \in 1..Len(x)
  <2>1. i = 1 \/ i = 2
    BY <1>3 DEF x
  <2> QED  BY <1>3, <1>4, <2>1 DEF x
<1>6. x = y
  BY <1>1, <1>2, <1>3, <1>5, SeqEqual DEF x, y
<1> QED  BY <1>6 DEF x, y

(* ValuesOf reads the values back from their words. *)
Whole(f, w) ==
  f = [k \in 0..Len(w) |->
         IF k = 0 THEN <<>>
         ELSE IF w[k][2] = 1 THEN Append(f[k - 1], w[k][1]) ELSE f[k - 1]]

WholeStep(w, k, before) == IF w[k][2] = 1 THEN Append(before, w[k][1]) ELSE before

LEMMA WholeAt ==
  ASSUME NEW w \in Seq(Word), NEW f, Whole(f, w), NEW k \in 0..Len(w)
  PROVE  f[k] = IF k = 0 THEN <<>> ELSE WholeStep(w, k, f[k - 1])
<1> DEFINE g == [j \in 0..Len(w) |->
                   IF j = 0 THEN <<>>
                   ELSE IF w[j][2] = 1 THEN Append(f[j - 1], w[j][1]) ELSE f[j - 1]]
<1>1. f = g /\ g[k] = IF k = 0 THEN <<>> ELSE WholeStep(w, k, f[k - 1])
  BY DEF Whole, WholeStep
<1> HIDE DEF g
<1> QED  BY <1>1

LEMMA WholeIs ==
  ASSUME NEW w \in Seq(Word), NEW f, f = [k \in 0..Len(w) |-> f[k]],
         \A k \in 0..Len(w) : f[k] = IF k = 0 THEN <<>> ELSE WholeStep(w, k, f[k - 1])
  PROVE  Whole(f, w)
BY DEF Whole, WholeStep

LEMMA WholeExists == ASSUME NEW w \in Seq(Word)  PROVE \E f : Whole(f, w)
<1> DEFINE P == {x \in Seq(Word) : \E f : Whole(f, x)}
<1>1. <<>> \in P
  <2> DEFINE g == [k \in 0..0 |-> <<>>]
  <2>1. <<>> \in Seq(Word) /\ Len(<<>>) = 0
    BY EmptySeq
  <2>2. Whole(g, <<>>)
    BY <2>1 DEF Whole
  <2> HIDE DEF g
  <2> QED  BY <2>1, <2>2
<1>2. ASSUME NEW x \in Seq(Word), NEW e \in Word, x \in P  PROVE Append(x, e) \in P
  <2> DEFINE n1 == Len(x) + 1
             u == Append(x, e)
  <2>1. PICK f : Whole(f, x)
    BY <1>2
  <2>2. /\ u \in Seq(Word) /\ Len(u) = n1 /\ Len(x) \in Nat /\ u[n1] = e
        /\ \A i \in 1..Len(x) : u[i] = x[i]
    BY AppendProperties, LenProperties
  <2> HIDE DEF u
  <2> DEFINE g == [k \in 0..n1 |-> IF k \in 0..Len(x) THEN f[k] ELSE WholeStep(u, n1, f[Len(x)])]
  <2>3. ASSUME NEW k \in 0..n1  PROVE g[k] = IF k = 0 THEN <<>> ELSE WholeStep(u, k, g[k - 1])
    <3>1. CASE k \in 0..Len(x)
      <4>1. g[k] = f[k]
        BY <3>1
      <4>2. k # 0 => k - 1 \in 0..Len(x) /\ k - 1 \in 0..n1 /\ k \in 1..Len(x)
        BY <2>2, <3>1
      <4>3. k # 0 => g[k - 1] = f[k - 1]
        BY <4>2
      <4>4. k # 0 => WholeStep(u, k, f[k - 1]) = WholeStep(x, k, f[k - 1])
        BY <2>2, <4>2 DEF WholeStep
      <4>5. f[k] = IF k = 0 THEN <<>> ELSE WholeStep(x, k, f[k - 1])
        BY <2>1, <3>1, WholeAt
      <4> HIDE DEF g
      <4> QED  BY <4>1, <4>3, <4>4, <4>5
    <3>2. CASE k \notin 0..Len(x)
      <4>1. k = n1 /\ k # 0 /\ k - 1 = Len(x) /\ Len(x) \in 0..Len(x) /\ Len(x) \in 0..n1
        BY <2>2, <3>2
      <4>2. g[k] = WholeStep(u, n1, f[Len(x)]) /\ g[k - 1] = f[Len(x)]
        BY <3>2, <4>1
      <4> HIDE DEF g
      <4> QED  BY <4>1, <4>2
    <3> QED  BY <3>1, <3>2
  <2>4. g = [k \in 0..n1 |-> g[k]]
    OBVIOUS
  <2> HIDE DEF g
  <2>5. Whole(g, u)
    BY <2>2, <2>3, <2>4, WholeIs
  <2> QED  BY <2>2, <2>5 DEF u
<1>3. Seq(Word) \subseteq P
  <2> HIDE DEF P
  <2> QED  BY <1>1, <1>2, SeqIn
<1> QED  BY <1>3

(* The last word of a stack of words is not looked at by the others. *)
LEMMA WholeAgree ==
  ASSUME NEW w \in Seq(Word), NEW e \in Word, NEW f, NEW g, Whole(f, w), Whole(g, Append(w, e))
  PROVE  \A k \in 0..Len(w) : f[k] = g[k]
<1> DEFINE P == {k \in Nat : k \in 0..Len(w) => f[k] = g[k]}
           u == Append(w, e)
<1>1. /\ u \in Seq(Word) /\ Len(u) = Len(w) + 1 /\ Len(w) \in Nat
      /\ \A i \in 1..Len(w) : u[i] = w[i]
  BY AppendProperties, LenProperties
<1> HIDE DEF u
<1>2. Whole(g, u)
  BY DEF u
<1>3. ASSUME NEW k \in 0..Len(w)
      PROVE  /\ f[k] = IF k = 0 THEN <<>> ELSE WholeStep(w, k, f[k - 1])
             /\ g[k] = IF k = 0 THEN <<>> ELSE WholeStep(w, k, g[k - 1])
  <2>1. k \in 0..Len(u) /\ (k # 0 => k \in 1..Len(w))
    BY <1>1
  <2>2. g[k] = IF k = 0 THEN <<>> ELSE WholeStep(u, k, g[k - 1])
    BY <1>1, <1>2, <2>1, WholeAt
  <2>3. k # 0 => WholeStep(u, k, g[k - 1]) = WholeStep(w, k, g[k - 1])
    BY <1>1, <2>1 DEF WholeStep
  <2> QED  BY <2>2, <2>3, WholeAt
<1>4. 0 \in P
  BY <1>1, <1>3
<1>5. ASSUME NEW k \in Nat, k \in P  PROVE k + 1 \in P
  <2> SUFFICES ASSUME k + 1 \in 0..Len(w)  PROVE f[k + 1] = g[k + 1]
    OBVIOUS
  <2>1. k \in 0..Len(w) /\ (k + 1) - 1 = k /\ k + 1 # 0
    BY <1>1
  <2>2. f[k] = g[k]
    BY <1>5, <2>1
  <2> HIDE DEF P
  <2> QED  BY <1>3, <2>1, <2>2
<1>6. Nat \subseteq P
  <2> HIDE DEF P
  <2> QED  BY <1>4, <1>5, NatIn
<1> QED  BY <1>1, <1>6

LEMMA ValuesOfIs ==
  ASSUME NEW w \in Seq(Word)
  PROVE  \E f : Whole(f, w) /\ ValuesOf(w) = f[Len(w)]
<1> DEFINE f == CHOOSE g : Whole(g, w)
<1>1. Whole(f, w)
  BY WholeExists
<1>2. ValuesOf(w) = f[Len(w)]
  BY DEF ValuesOf, Whole
<1> QED  BY <1>1, <1>2

LEMMA ValuesOfEmpty == ValuesOf(<<>>) = <<>>
<1>1. <<>> \in Seq(Word) /\ Len(<<>>) = 0
  BY EmptySeq
<1>2. PICK f : Whole(f, <<>>) /\ ValuesOf(<<>>) = f[Len(<<>>)]
  BY <1>1, ValuesOfIs
<1>3. 0 \in 0..Len(<<>>)
  BY <1>1
<1>4. f[0] = <<>>
  BY <1>1, <1>2, <1>3, WholeAt
<1> QED  BY <1>1, <1>2, <1>4

LEMMA ValuesOfAppend ==
  ASSUME NEW w \in Seq(Word), NEW e \in Word
  PROVE  ValuesOf(Append(w, e)) = IF e[2] = 1 THEN Append(ValuesOf(w), e[1]) ELSE ValuesOf(w)
<1> DEFINE u == Append(w, e)
<1>1. u \in Seq(Word) /\ Len(u) = Len(w) + 1 /\ Len(w) \in Nat /\ u[Len(w) + 1] = e
  BY AppendProperties, LenProperties
<1>2. PICK f : Whole(f, w) /\ ValuesOf(w) = f[Len(w)]
  BY ValuesOfIs
<1>3. PICK g : Whole(g, u) /\ ValuesOf(u) = g[Len(u)]
  BY <1>1, ValuesOfIs
<1>4. f[Len(w)] = g[Len(w)]
  BY <1>1, <1>2, <1>3, WholeAgree
<1> HIDE DEF u
<1>5. Len(w) + 1 \in 0..Len(u) /\ Len(w) + 1 # 0 /\ (Len(w) + 1) - 1 = Len(w)
  BY <1>1
<1>6. g[Len(w) + 1] = WholeStep(u, Len(w) + 1, g[Len(w)])
  BY <1>1, <1>3, <1>5, WholeAt
<1> QED  BY <1>1, <1>2, <1>3, <1>4, <1>6 DEF WholeStep, u

LEMMA ValuesBack == ASSUME NEW s \in Seq(Val)  PROVE ValuesOf(WordsOfValues(s)) = s
<1> DEFINE P == {x \in Seq(Val) : ValuesOf(WordsOfValues(x)) = x}
<1>1. <<>> \in P
  BY WordsEmpty, ValuesOfEmpty, EmptySeq
<1>2. ASSUME NEW x \in Seq(Val), NEW v \in Val, x \in P  PROVE Append(x, v) \in P
  <2> DEFINE w == WordsOfValues(x)
             w1 == Append(w, <<v, 1>>)
             w2 == Append(w1, <<v, 2>>)
  <2>1. /\ <<v, 1>> \in Word /\ <<v, 2>> \in Word
        /\ <<v, 1>>[1] = v /\ <<v, 1>>[2] = 1 /\ <<v, 2>>[2] = 2
    BY DEF Word
  <2>2. w \in Seq(Word)
    BY WordsType
  <2> HIDE DEF w
  <2>3. w1 \in Seq(Word)
    BY <2>1, <2>2, AppendProperties
  <2>4. ValuesOf(w1) = Append(ValuesOf(w), v)
    BY <2>1, <2>2, ValuesOfAppend
  <2>5. ValuesOf(w2) = ValuesOf(w1)
    <3> HIDE DEF w1
    <3>1. <<v, 2>>[2] # 1
      BY <2>1
    <3> QED  BY <2>1, <2>3, <3>1, ValuesOfAppend
  <2>6. WordsOfValues(Append(x, v)) = IF IsWideValue(v) THEN w2 ELSE w1
    <3>1. WordsOfValues(Append(x, v)) = w \o WordsOfOne(v)
      BY WordsAppend DEF w
    <3>2. w1 = w \o <<<<v, 1>>>> /\ w2 = w \o <<<<v, 1>>, <<v, 2>>>>
      <4>1. <<<<v, 1>>>> \in Seq(Word) /\ <<<<v, 2>>>> \in Seq(Word)
        BY <2>1
      <4>2. w1 = w \o <<<<v, 1>>>> /\ w2 = w1 \o <<<<v, 2>>>>
        BY <2>1, <2>2, <2>3, AppendIsConcat
      <4>3. <<<<v, 1>>>> \o <<<<v, 2>>>> = <<<<v, 1>>, <<v, 2>>>>
        BY <2>1, TwoSingles
      <4> HIDE DEF w1, w2
      <4>4. (w \o <<<<v, 1>>>>) \o <<<<v, 2>>>> = w \o (<<<<v, 1>>>> \o <<<<v, 2>>>>)
        BY <2>2, <4>1, ConcatAssociative
      <4> QED  BY <4>2, <4>3, <4>4, Zenon
    <3> HIDE DEF w1, w2
    <3> QED  BY <3>1, <3>2 DEF WordsOfOne
  <2> HIDE DEF w1, w2
  <2>7. ValuesOf(w) = x
    BY <1>2 DEF w
  <2> QED  BY <2>4, <2>5, <2>6, <2>7, AppendProperties
<1>3. Seq(Val) \subseteq P
  <2> HIDE DEF P
  <2> QED  BY <1>1, <1>2, SeqIn
<1> QED  BY <1>3


-----------------------------------------------------------------------------
(***************************************************************************)
(* The inductive invariant.  First an instruction: the kinds its handlers  *)
(* may have given it.                                                      *)
(***************************************************************************)
FieldType(i) == IF i.op \in {"getstatic", "getfield"} THEN i.ret ELSE Last(i.args)

Virtual == {"invokevirtual", "invokeinterface", "invokesigpoly", "invokespecial_resolved",
            "invokevtable_monomorphic", "invokevtable_polymorphic", "invokeitable_monomorphic",
            "invokeitable_polymorphic"}

Becomes(i) ==
  CASE i.op = "new" -> {"new_resolved"}
    [] i.op = "anewarray" -> {"anewarray_resolved"}
    [] i.op = "checkcast" -> {"checkcast_resolved"}
    [] i.op = "instanceof" -> {"instanceof_resolved"}
    [] i.op \in FieldKinds -> {resolved_kind(i.op, FieldType(i))}
    [] i.op = "invokestatic" ->
         {"invokestatic_resolved"} \union (IF i.args = <<"D">> /\ i.ret = "D" THEN {"sqrt"} ELSE {})
         \union (IF i.args = <<"D", "D">> /\ i.ret = "D" THEN {"pow"} ELSE {})
    [] i.op \in {"invokevirtual", "invokeinterface"} -> Virtual
    [] i.op = "invokespecial" ->
         {"invokespecial_resolved"} \union (IF i.args = <<>> /\ i.ret = "V" THEN {"pop"} ELSE {})
    [] i.op = "invokedynamic" -> {"invokecallsite"}
    [] OTHER -> {}

(* An instruction the interpreter may have in hand where the stack holds ts. *)
Allowed(i, ts) ==
  /\ Insn(i.op, i.args, i.ret) \in Insns
  /\ i = [op |-> i.op, kind |-> i.kind, args |-> i.args, ret |-> i.ret]
  /\ Legal(i, ts, StackLimit)

(* One that is not a stack instruction. *)
InHand(i, ts) ==
  /\ Allowed(i, ts) /\ i.op \notin StackKinds /\ i.kind \in {i.op} \union Becomes(i)

Machine ==
  [sp : 0..StackLimit, mem : [1..StackLimit -> Val], tos : Val, table : {"V", "I", "F", "D"}]

KindsOf(s) == [i \in DOMAIN s |-> s[i].t]

(* The stack s: values of every kind. *)
StackOk(s) ==
  /\ s \in Seq(Val) /\ Len(s) <= StackLimit
  /\ \A i \in 1..Len(s) : s[i].t \in TypeKinds

SlotsHold(s, mm, k) == \A i \in 1..k : mm.mem[i] = s[i]

(* What the table of the cached kind promises. *)
RegisterOk(s, mm) == mm.table # "V" => s # <<>> /\ mm.table = calculate_tos_type(KindsOf(s))

(* In front of an instruction, with whatever is cached. *)
Holds(s, mm) ==
  /\ mm \in Machine /\ mm.sp = Len(s) /\ RegisterOk(s, mm)
  /\ mm.table = "V" => SlotsHold(s, mm, Len(s))
  /\ mm.table # "V" => SlotsHold(s, mm, Len(s) - 1) /\ mm.tos = s[Len(s)]

(* In front of an instruction that has just been reached. *)
Ready(s, mm) == Holds(s, mm) /\ (mm.table = "V" => s = <<>>)

(* The kinds of the instructions in whose handlers the VM can be. *)
Resolvable == {"getstatic", "putstatic", "getfield", "putfield", "new", "invokestatic", "invokevirtual",
               "invokespecial", "invokeinterface", "invokedynamic", "checkcast", "instanceof",
               "anewarray"}
Allocating == {"new_resolved", "ldc", "newarray", "multianewarray", "anewarray_resolved"}
Branching == {"goto", "ifeq", "ifnull", "if_icmpeq", "if_acmpeq"}
Initializing == {"getstatic", "putstatic", "new", "invokestatic"}
Skipping == {"nop", "iinc", "goto"}

KindFits(where, i) ==
  /\ where = "resolve" => i.kind \in Resolvable
  /\ where = "alloc" => i.kind \in Allocating
  /\ where = "monitor" => i.kind = "monitorenter"
  /\ where = "call" => i.op \in InvokeKinds
  /\ where = "suspended" => i.kind \in Branching \union Initializing \union {"monitorenter"}

(* The slots in memory that are up to date while the VM is elsewhere. *)
Unspilled(where, i) ==
  where = "throw_void" \/ (where \in {"resolve", "alloc"} /\ i.kind \in {"anewarray", "anewarray_resolved"})
UpToDate(s, where, i) ==
  IF where = "call" THEN Len(s) - Len(Effect(i).pop)
  ELSE IF Unspilled(where, i) THEN Len(s) - 1 ELSE Len(s)

(* The handlers that go on with what is in the register. *)
Reloads(where, i) ==
  \/ where = "resolve" /\ i.kind \in {"anewarray", "getfield", "checkcast", "instanceof"}
  \/ where = "alloc" /\ i.kind \in {"newarray", "anewarray_resolved"}

(* The anewarray handlers do not spill; a register that is no reference stays right. *)
Away(s, mm, where, i) ==
  /\ mm \in Machine /\ mm.sp = Len(s) /\ RegisterOk(s, mm)
  /\ (mm.table # "V" /\ s[Len(s)].t # "L") => mm.tos = s[Len(s)]
  /\ Reloads(where, i) => mm.table # "V"
  /\ SlotsHold(s, mm, UpToDate(s, where, i))

Phases == {"run", "resolve", "alloc", "monitor", "call", "suspended", "throw", "throw_void", "left",
           "crashed"}
Raised == {"throw", "throw_void"}

(* A putstatic that was suspended goes on with its operand in memory, where it has no handler. *)
Voided(i, mm) == i.op = "putstatic" /\ mm.table = "V"

Running(i, mm, ts) ==
  /\ mm.table = "V" => ts = <<>> \/ (i # NoInsn /\ i.kind \notin Skipping)
  /\ i # NoInsn => InHand(i, ts) /\ (i.kind \in bytecode_tables[mm.table] \/ Voided(i, mm))

IInv ==
  /\ phase \in Phases /\ gc \in Nat /\ n \in Nat
  /\ ok = TRUE
  /\ StackOk(Values) /\ words = WordsOfValues(Values) /\ types = KindsOf(Values)
  /\ phase = "run" => Holds(Values, m) /\ Running(insn, m, types)
  /\ phase \notin {"run", "left", "crashed"} => Away(Values, m, phase, insn)
  /\ phase \notin {"run", "left", "crashed"} \union Raised => InHand(insn, types) /\ KindFits(phase, insn)

-----------------------------------------------------------------------------
(***************************************************************************)
(* The effects of the instructions without a descriptor.                   *)
(***************************************************************************)
LEMMA Groups ==
  /\ DOMAIN ArrayEffects = {"iaload", "laload", "faload", "daload", "aaload", "iastore", "lastore",
                            "fastore", "dastore", "aastore", "arraylength"}
  /\ DOMAIN ArithmeticEffects = {"iadd", "ishr", "idiv", "ladd", "ldiv", "lshl", "fadd", "dadd", "lcmp",
                                 "fcmpl", "dcmpl", "ineg", "lneg", "fneg", "dneg"}
  /\ DOMAIN ConversionEffects = {"i2l", "i2f", "i2d", "l2i", "l2f", "l2d", "f2i", "f2l", "f2d", "d2i",
                                 "d2l", "d2f"}
  /\ DOMAIN ObjectEffects = {"new", "newarray", "anewarray", "multianewarray", "checkcast",
                             "instanceof", "monitorenter", "monitorexit"}
  /\ DOMAIN LoadEffects = {"aconst_null", "ldc", "iconst", "lconst", "fconst", "dconst", "iload",
                           "lload", "fload", "dload", "aload"}
  /\ DOMAIN StoreEffects = {"istore", "lstore", "fstore", "dstore", "astore"}
  /\ DOMAIN BranchEffects = {"nop", "iinc", "goto", "ifeq", "ifnull", "if_icmpeq", "if_acmpeq",
                             "tableswitch", "lookupswitch"}
  /\ DOMAIN EndEffects = {"return", "ireturn", "lreturn", "freturn", "dreturn", "areturn", "athrow"}
BY DEF ArrayEffects, ArithmeticEffects, ConversionEffects, ObjectEffects, LoadEffects, StoreEffects,
       BranchEffects, EndEffects

LEMMA PlainDomain ==
  PlainKinds = UNION {DOMAIN ArrayEffects, DOMAIN ArithmeticEffects, DOMAIN ConversionEffects,
                 DOMAIN ObjectEffects, DOMAIN LoadEffects, DOMAIN StoreEffects,
                 DOMAIN BranchEffects, DOMAIN EndEffects}
BY DEF PlainKinds

LEMMA ArrayPlain == \A op \in DOMAIN ArrayEffects : PlainEffect(op) = ArrayEffects[op]
BY Groups DEF PlainEffect
LEMMA ArithmeticPlain == \A op \in DOMAIN ArithmeticEffects : PlainEffect(op) = ArithmeticEffects[op]
BY Groups DEF PlainEffect
LEMMA ConversionPlain == \A op \in DOMAIN ConversionEffects : PlainEffect(op) = ConversionEffects[op]
BY Groups DEF PlainEffect
LEMMA ObjectPlain == \A op \in DOMAIN ObjectEffects : PlainEffect(op) = ObjectEffects[op]
BY Groups DEF PlainEffect
LEMMA LoadPlain == \A op \in DOMAIN LoadEffects : PlainEffect(op) = LoadEffects[op]
BY Groups DEF PlainEffect
LEMMA StorePlain == \A op \in DOMAIN StoreEffects : PlainEffect(op) = StoreEffects[op]
BY Groups DEF PlainEffect
LEMMA BranchPlain == \A op \in DOMAIN BranchEffects : PlainEffect(op) = BranchEffects[op]
BY Groups DEF PlainEffect
LEMMA EndPlain == \A op \in DOMAIN EndEffects : PlainEffect(op) = EndEffects[op]
BY Groups DEF PlainEffect


(* An effect that takes p values and leaves q. *)
Moves(e, p, q) ==
  /\ e.pop \in Seq(TypeKinds) /\ Len(e.pop) = p
  /\ e.push \in Seq(TypeKinds) /\ Len(e.push) = q

LEMMA Moves00 == Moves(E(<<>>, <<>>), 0, 0)
BY DEF Moves, E
LEMMA Moves01 == \A a \in TypeKinds : Moves(E(<<>>, <<a>>), 0, 1)
BY DEF Moves, E
LEMMA Moves10 == \A a \in TypeKinds : Moves(E(<<a>>, <<>>), 1, 0)
BY DEF Moves, E
LEMMA Moves11 == \A a, b \in TypeKinds : Moves(E(<<a>>, <<b>>), 1, 1)
BY DEF Moves, E
LEMMA Moves20 == \A a, b \in TypeKinds : Moves(E(<<a, b>>, <<>>), 2, 0)
BY DEF Moves, E
LEMMA Moves21 == \A a, b, c \in TypeKinds : Moves(E(<<a, b>>, <<c>>), 2, 1)
BY DEF Moves, E
LEMMA Moves30 == \A a, b, c \in TypeKinds : Moves(E(<<a, b, c>>, <<>>), 3, 0)
BY DEF Moves, E

LEMMA Letters == "I" \in TypeKinds /\ "J" \in TypeKinds /\ "F" \in TypeKinds /\ "D" \in TypeKinds
                 /\ "L" \in TypeKinds /\ "V" \notin TypeKinds
BY DEF TypeKinds

Takes(op, p, q) == Moves(PlainEffect(op), p, q)

LEMMA ArrayAre ==
  /\ PlainEffect("iaload") = E(<<"L", "I">>, <<"I">>)
  /\ PlainEffect("laload") = E(<<"L", "I">>, <<"J">>)
  /\ PlainEffect("faload") = E(<<"L", "I">>, <<"F">>)
  /\ PlainEffect("daload") = E(<<"L", "I">>, <<"D">>)
  /\ PlainEffect("aaload") = E(<<"L", "I">>, <<"L">>)
  /\ PlainEffect("iastore") = E(<<"L", "I", "I">>, <<>>)
  /\ PlainEffect("lastore") = E(<<"L", "I", "J">>, <<>>)
  /\ PlainEffect("fastore") = E(<<"L", "I", "F">>, <<>>)
  /\ PlainEffect("dastore") = E(<<"L", "I", "D">>, <<>>)
  /\ PlainEffect("aastore") = E(<<"L", "I", "L">>, <<>>)
  /\ PlainEffect("arraylength") = E(<<"L">>, <<"I">>)
BY Groups, ArrayPlain DEF ArrayEffects

LEMMA ArrayTakes ==
  /\ \A op \in {"iaload", "laload", "faload", "daload", "aaload"} : Takes(op, 2, 1)
  /\ \A op \in {"iastore", "lastore", "fastore", "dastore", "aastore"} : Takes(op, 3, 0)
  /\ \A op \in {"arraylength"} : Takes(op, 1, 1)
<1>1. \A op \in {"iaload", "laload", "faload", "daload", "aaload"} : Takes(op, 2, 1)
  BY ArrayAre, Moves21, Letters DEF Takes
<1>2. \A op \in {"iastore", "lastore", "fastore", "dastore", "aastore"} : Takes(op, 3, 0)
  BY ArrayAre, Moves30, Letters DEF Takes
<1>3. \A op \in {"arraylength"} : Takes(op, 1, 1)
  BY ArrayAre, Moves11, Letters DEF Takes
<1> QED  BY <1>1, <1>2, <1>3

LEMMA ArithmeticAre ==
  /\ PlainEffect("iadd") = E(<<"I", "I">>, <<"I">>)
  /\ PlainEffect("ishr") = E(<<"I", "I">>, <<"I">>)
  /\ PlainEffect("idiv") = E(<<"I", "I">>, <<"I">>)
  /\ PlainEffect("ladd") = E(<<"J", "J">>, <<"J">>)
  /\ PlainEffect("ldiv") = E(<<"J", "J">>, <<"J">>)
  /\ PlainEffect("lshl") = E(<<"J", "I">>, <<"J">>)
  /\ PlainEffect("fadd") = E(<<"F", "F">>, <<"F">>)
  /\ PlainEffect("dadd") = E(<<"D", "D">>, <<"D">>)
  /\ PlainEffect("lcmp") = E(<<"J", "J">>, <<"I">>)
  /\ PlainEffect("fcmpl") = E(<<"F", "F">>, <<"I">>)
  /\ PlainEffect("dcmpl") = E(<<"D", "D">>, <<"I">>)
  /\ PlainEffect("ineg") = E(<<"I">>, <<"I">>)
  /\ PlainEffect("lneg") = E(<<"J">>, <<"J">>)
  /\ PlainEffect("fneg") = E(<<"F">>, <<"F">>)
  /\ PlainEffect("dneg") = E(<<"D">>, <<"D">>)
BY Groups, ArithmeticPlain DEF ArithmeticEffects

LEMMA ArithmeticTakes ==
  /\ \A op \in {"iadd", "ishr", "idiv", "ladd", "ldiv", "lshl", "fadd", "dadd", "lcmp",
        "fcmpl", "dcmpl"} : Takes(op, 2, 1)
  /\ \A op \in {"ineg", "lneg", "fneg", "dneg"} : Takes(op, 1, 1)
<1>1. \A op \in {"iadd", "ishr", "idiv", "ladd", "ldiv", "lshl", "fadd", "dadd", "lcmp",
        "fcmpl", "dcmpl"} : Takes(op, 2, 1)
  BY ArithmeticAre, Moves21, Letters DEF Takes
<1>2. \A op \in {"ineg", "lneg", "fneg", "dneg"} : Takes(op, 1, 1)
  BY ArithmeticAre, Moves11, Letters DEF Takes
<1> QED  BY <1>1, <1>2

LEMMA ConversionAre ==
  /\ PlainEffect("i2l") = E(<<"I">>, <<"J">>)
  /\ PlainEffect("i2f") = E(<<"I">>, <<"F">>)
  /\ PlainEffect("i2d") = E(<<"I">>, <<"D">>)
  /\ PlainEffect("l2i") = E(<<"J">>, <<"I">>)
  /\ PlainEffect("l2f") = E(<<"J">>, <<"F">>)
  /\ PlainEffect("l2d") = E(<<"J">>, <<"D">>)
  /\ PlainEffect("f2i") = E(<<"F">>, <<"I">>)
  /\ PlainEffect("f2l") = E(<<"F">>, <<"J">>)
  /\ PlainEffect("f2d") = E(<<"F">>, <<"D">>)
  /\ PlainEffect("d2i") = E(<<"D">>, <<"I">>)
  /\ PlainEffect("d2l") = E(<<"D">>, <<"J">>)
  /\ PlainEffect("d2f") = E(<<"D">>, <<"F">>)
BY Groups, ConversionPlain DEF ConversionEffects

LEMMA ConversionTakes ==
  /\ \A op \in {"i2l", "i2f", "i2d", "l2i", "l2f", "l2d", "f2i", "f2l", "f2d", "d2i", "d2l",
        "d2f"} : Takes(op, 1, 1)
BY ConversionAre, Moves11, Letters DEF Takes

LEMMA ObjectAre ==
  /\ PlainEffect("new") = E(<<>>, <<"L">>)
  /\ PlainEffect("newarray") = E(<<"I">>, <<"L">>)
  /\ PlainEffect("anewarray") = E(<<"I">>, <<"L">>)
  /\ PlainEffect("multianewarray") = E(<<"I", "I">>, <<"L">>)
  /\ PlainEffect("checkcast") = E(<<"L">>, <<"L">>)
  /\ PlainEffect("instanceof") = E(<<"L">>, <<"I">>)
  /\ PlainEffect("monitorenter") = E(<<"L">>, <<>>)
  /\ PlainEffect("monitorexit") = E(<<"L">>, <<>>)
BY Groups, ObjectPlain DEF ObjectEffects

LEMMA ObjectTakes ==
  /\ \A op \in {"new"} : Takes(op, 0, 1)
  /\ \A op \in {"newarray", "anewarray", "checkcast", "instanceof"} : Takes(op, 1, 1)
  /\ \A op \in {"multianewarray"} : Takes(op, 2, 1)
  /\ \A op \in {"monitorenter", "monitorexit"} : Takes(op, 1, 0)
<1>1. \A op \in {"new"} : Takes(op, 0, 1)
  BY ObjectAre, Moves01, Letters DEF Takes
<1>2. \A op \in {"newarray", "anewarray", "checkcast", "instanceof"} : Takes(op, 1, 1)
  BY ObjectAre, Moves11, Letters DEF Takes
<1>3. \A op \in {"multianewarray"} : Takes(op, 2, 1)
  BY ObjectAre, Moves21, Letters DEF Takes
<1>4. \A op \in {"monitorenter", "monitorexit"} : Takes(op, 1, 0)
  BY ObjectAre, Moves10, Letters DEF Takes
<1> QED  BY <1>1, <1>2, <1>3, <1>4

LEMMA LoadAre ==
  /\ PlainEffect("aconst_null") = E(<<>>, <<"L">>)
  /\ PlainEffect("ldc") = E(<<>>, <<"L">>)
  /\ PlainEffect("iconst") = E(<<>>, <<"I">>)
  /\ PlainEffect("lconst") = E(<<>>, <<"J">>)
  /\ PlainEffect("fconst") = E(<<>>, <<"F">>)
  /\ PlainEffect("dconst") = E(<<>>, <<"D">>)
  /\ PlainEffect("iload") = E(<<>>, <<"I">>)
  /\ PlainEffect("lload") = E(<<>>, <<"J">>)
  /\ PlainEffect("fload") = E(<<>>, <<"F">>)
  /\ PlainEffect("dload") = E(<<>>, <<"D">>)
  /\ PlainEffect("aload") = E(<<>>, <<"L">>)
BY Groups, LoadPlain DEF LoadEffects

LEMMA LoadTakes ==
  /\ \A op \in {"aconst_null", "ldc", "iconst", "lconst", "fconst", "dconst", "iload", "lload",
        "fload", "dload", "aload"} : Takes(op, 0, 1)
BY LoadAre, Moves01, Letters DEF Takes

LEMMA StoreAre ==
  /\ PlainEffect("istore") = E(<<"I">>, <<>>)
  /\ PlainEffect("lstore") = E(<<"J">>, <<>>)
  /\ PlainEffect("fstore") = E(<<"F">>, <<>>)
  /\ PlainEffect("dstore") = E(<<"D">>, <<>>)
  /\ PlainEffect("astore") = E(<<"L">>, <<>>)
BY Groups, StorePlain DEF StoreEffects

LEMMA StoreTakes ==
  /\ \A op \in {"istore", "lstore", "fstore", "dstore", "astore"} : Takes(op, 1, 0)
BY StoreAre, Moves10, Letters DEF Takes

LEMMA BranchAre ==
  /\ PlainEffect("nop") = E(<<>>, <<>>)
  /\ PlainEffect("iinc") = E(<<>>, <<>>)
  /\ PlainEffect("goto") = E(<<>>, <<>>)
  /\ PlainEffect("ifeq") = E(<<"I">>, <<>>)
  /\ PlainEffect("ifnull") = E(<<"L">>, <<>>)
  /\ PlainEffect("if_icmpeq") = E(<<"I", "I">>, <<>>)
  /\ PlainEffect("if_acmpeq") = E(<<"L", "L">>, <<>>)
  /\ PlainEffect("tableswitch") = E(<<"I">>, <<>>)
  /\ PlainEffect("lookupswitch") = E(<<"I">>, <<>>)
BY Groups, BranchPlain DEF BranchEffects

LEMMA BranchTakes ==
  /\ \A op \in {"nop", "iinc", "goto"} : Takes(op, 0, 0)
  /\ \A op \in {"ifeq", "ifnull", "tableswitch", "lookupswitch"} : Takes(op, 1, 0)
  /\ \A op \in {"if_icmpeq", "if_acmpeq"} : Takes(op, 2, 0)
<1>1. \A op \in {"nop", "iinc", "goto"} : Takes(op, 0, 0)
  BY BranchAre, Moves00, Letters DEF Takes
<1>2. \A op \in {"ifeq", "ifnull", "tableswitch", "lookupswitch"} : Takes(op, 1, 0)
  BY BranchAre, Moves10, Letters DEF Takes
<1>3. \A op \in {"if_icmpeq", "if_acmpeq"} : Takes(op, 2, 0)
  BY BranchAre, Moves20, Letters DEF Takes
<1> QED  BY <1>1, <1>2, <1>3

LEMMA EndAre ==
  /\ PlainEffect("return") = E(<<>>, <<>>)
  /\ PlainEffect("ireturn") = E(<<"I">>, <<>>)
  /\ PlainEffect("lreturn") = E(<<"J">>, <<>>)
  /\ PlainEffect("freturn") = E(<<"F">>, <<>>)
  /\ PlainEffect("dreturn") = E(<<"D">>, <<>>)
  /\ PlainEffect("areturn") = E(<<"L">>, <<>>)
  /\ PlainEffect("athrow") = E(<<"L">>, <<>>)
BY Groups, EndPlain DEF EndEffects

LEMMA EndTakes ==
  /\ \A op \in {"return"} : Takes(op, 0, 0)
  /\ \A op \in {"ireturn", "lreturn", "freturn", "dreturn", "areturn", "athrow"} : Takes(op, 1,
        0)
<1>1. \A op \in {"return"} : Takes(op, 0, 0)
  BY EndAre, Moves00, Letters DEF Takes
<1>2. \A op \in {"ireturn", "lreturn", "freturn", "dreturn", "areturn", "athrow"} : Takes(op, 1,
        0)
  BY EndAre, Moves10, Letters DEF Takes
<1> QED  BY <1>1, <1>2

-----------------------------------------------------------------------------
(***************************************************************************)
(* The jump tables have a handler for every instruction, under the kind    *)
(* of the last value it takes.                                             *)
(***************************************************************************)
TableFor(a) == IF a \in {"F", "D"} THEN a ELSE "I"

LEMMA TablesAre ==
  /\ bytecode_tables["V"] = jmp_table_void /\ bytecode_tables["I"] = jmp_table_int
  /\ bytecode_tables["F"] = jmp_table_float /\ bytecode_tables["D"] = jmp_table_double
BY DEF bytecode_tables

LEMMA NullaryEverywhere ==
  \A t \in {"V", "I", "F", "D"} : Nullary \subseteq bytecode_tables[t]
<1>1. jmp_table_void = Nullary /\ Nullary \subseteq jmp_table_int
      /\ Nullary \subseteq jmp_table_float /\ Nullary \subseteq jmp_table_double
  BY DEF jmp_table_void, jmp_table_int, jmp_table_float, jmp_table_double
<1> QED  BY <1>1, TablesAre

LEMMA ForwardedEverywhere == \A t \in {"I", "F", "D"} : Forwarded \subseteq bytecode_tables[t]
<1>1. /\ Forwarded \subseteq jmp_table_int
      /\ Forwarded \subseteq jmp_table_float /\ Forwarded \subseteq jmp_table_double
  BY DEF jmp_table_int, jmp_table_float, jmp_table_double
<1> QED  BY <1>1, TablesAre

LEMMA TableOf ==
  ASSUME NEW ts \in Seq(TypeKinds), ts # <<>>
  PROVE  calculate_tos_type(ts) = TableFor(ts[Len(ts)]) /\ TableFor(ts[Len(ts)]) \in {"I", "F", "D"}
BY DEF calculate_tos_type, TableFor, Last

LEMMA TableOfSome ==
  /\ \A a \in TypeKinds : calculate_tos_type(<<a>>) = TableFor(a)
  /\ \A a, b \in TypeKinds : calculate_tos_type(<<a, b>>) = TableFor(b)
  /\ \A a, b, c \in TypeKinds : calculate_tos_type(<<a, b, c>>) = TableFor(c)
BY DEF calculate_tos_type, TableFor, Last

LEMMA TableLetters ==
  TableFor("I") = "I" /\ TableFor("J") = "I" /\ TableFor("L") = "I" /\ TableFor("F") = "F" /\ TableFor("D") = "D"
BY DEF TableFor

(* The handler of a plain instruction. *)
Handled(op) ==
  LET p == PlainEffect(op).pop
  IN  IF p = <<>> THEN op \in Nullary ELSE op \in bytecode_tables[calculate_tos_type(p)]

LEMMA ArrayHandled == \A op \in DOMAIN ArrayEffects : Handled(op)
<1>1. \A op \in {"iaload", "laload", "faload", "daload", "aaload"} : Handled(op)
  <2>1. {"iaload", "laload", "faload", "daload", "aaload"} \subseteq bytecode_tables["I"]
    BY TablesAre DEF jmp_table_int
  <2>2. \A op \in {"iaload", "laload", "faload", "daload", "aaload"} :
          PlainEffect(op).pop # <<>> /\ calculate_tos_type(PlainEffect(op).pop) = "I"
    BY ArrayAre, TableOfSome, TableLetters, Letters DEF E
  <2> QED  BY <2>1, <2>2 DEF Handled
<1>2. \A op \in {"iastore", "lastore", "aastore"} : Handled(op)
  <2>1. {"iastore", "lastore", "aastore"} \subseteq bytecode_tables["I"]
    BY TablesAre DEF jmp_table_int
  <2>2. \A op \in {"iastore", "lastore", "aastore"} :
          PlainEffect(op).pop # <<>> /\ calculate_tos_type(PlainEffect(op).pop) = "I"
    BY ArrayAre, TableOfSome, TableLetters, Letters DEF E
  <2> QED  BY <2>1, <2>2 DEF Handled
<1>3. \A op \in {"fastore"} : Handled(op)
  <2>1. {"fastore"} \subseteq bytecode_tables["F"]
    BY TablesAre DEF jmp_table_float
  <2>2. \A op \in {"fastore"} :
          PlainEffect(op).pop # <<>> /\ calculate_tos_type(PlainEffect(op).pop) = "F"
    BY ArrayAre, TableOfSome, TableLetters, Letters DEF E
  <2> QED  BY <2>1, <2>2 DEF Handled
<1>4. \A op \in {"dastore"} : Handled(op)
  <2>1. {"dastore"} \subseteq bytecode_tables["D"]
    BY TablesAre DEF jmp_table_double
  <2>2. \A op \in {"dastore"} :
          PlainEffect(op).pop # <<>> /\ calculate_tos_type(PlainEffect(op).pop) = "D"
    BY ArrayAre, TableOfSome, TableLetters, Letters DEF E
  <2> QED  BY <2>1, <2>2 DEF Handled
<1>5. \A op \in {"arraylength"} : Handled(op)
  <2>1. {"arraylength"} \subseteq bytecode_tables["I"]
    BY TablesAre DEF jmp_table_int
  <2>2. \A op \in {"arraylength"} :
          PlainEffect(op).pop # <<>> /\ calculate_tos_type(PlainEffect(op).pop) = "I"
    BY ArrayAre, TableOfSome, TableLetters, Letters DEF E
  <2> QED  BY <2>1, <2>2 DEF Handled
<1> QED  BY <1>1, <1>2, <1>3, <1>4, <1>5, Groups

LEMMA ArithmeticHandled == \A op \in DOMAIN ArithmeticEffects : Handled(op)
<1>1. \A op \in {"iadd", "ishr", "idiv", "ladd", "ldiv", "lshl", "lcmp"} : Handled(op)
  <2>1. {"iadd", "ishr", "idiv", "ladd", "ldiv", "lshl", "lcmp"} \subseteq bytecode_tables["I"]
    BY TablesAre DEF jmp_table_int
  <2>2. \A op \in {"iadd", "ishr", "idiv", "ladd", "ldiv", "lshl", "lcmp"} :
          PlainEffect(op).pop # <<>> /\ calculate_tos_type(PlainEffect(op).pop) = "I"
    BY ArithmeticAre, TableOfSome, TableLetters, Letters DEF E
  <2> QED  BY <2>1, <2>2 DEF Handled
<1>2. \A op \in {"fadd", "fcmpl"} : Handled(op)
  <2>1. {"fadd", "fcmpl"} \subseteq bytecode_tables["F"]
    BY TablesAre DEF jmp_table_float
  <2>2. \A op \in {"fadd", "fcmpl"} :
          PlainEffect(op).pop # <<>> /\ calculate_tos_type(PlainEffect(op).pop) = "F"
    BY ArithmeticAre, TableOfSome, TableLetters, Letters DEF E
  <2> QED  BY <2>1, <2>2 DEF Handled
<1>3. \A op \in {"dadd", "dcmpl"} : Handled(op)
  <2>1. {"dadd", "dcmpl"} \subseteq bytecode_tables["D"]
    BY TablesAre DEF jmp_table_double
  <2>2. \A op \in {"dadd", "dcmpl"} :
          PlainEffect(op).pop # <<>> /\ calculate_tos_type(PlainEffect(op).pop) = "D"
    BY ArithmeticAre, TableOfSome, TableLetters, Letters DEF E
  <2> QED  BY <2>1, <2>2 DEF Handled
<1>4. \A op \in {"ineg", "lneg"} : Handled(op)
  <2>1. {"ineg", "lneg"} \subseteq bytecode_tables["I"]
    BY TablesAre DEF jmp_table_int
  <2>2. \A op \in {"ineg", "lneg"} :
          PlainEffect(op).pop # <<>> /\ calculate_tos_type(PlainEffect(op).pop) = "I"
    BY ArithmeticAre, TableOfSome, TableLetters, Letters DEF E
  <2> QED  BY <2>1, <2>2 DEF Handled
<1>5. \A op \in {"fneg"} : Handled(op)
  <2>1. {"fneg"} \subseteq bytecode_tables["F"]
    BY TablesAre DEF jmp_table_float
  <2>2. \A op \in {"fneg"} :
          PlainEffect(op).pop # <<>> /\ calculate_tos_type(PlainEffect(op).pop) = "F"
    BY ArithmeticAre, TableOfSome, TableLetters, Letters DEF E
  <2> QED  BY <2>1, <2>2 DEF Handled
<1>6. \A op \in {"dneg"} : Handled(op)
  <2>1. {"dneg"} \subseteq bytecode_tables["D"]
    BY TablesAre DEF jmp_table_double
  <2>2. \A op \in {"dneg"} :
          PlainEffect(op).pop # <<>> /\ calculate_tos_type(PlainEffect(op).pop) = "D"
    BY ArithmeticAre, TableOfSome, TableLetters, Letters DEF E
  <2> QED  BY <2>1, <2>2 DEF Handled
<1> QED  BY <1>1, <1>2, <1>3, <1>4, <1>5, <1>6, Groups

LEMMA ConversionHandled == \A op \in DOMAIN ConversionEffects : Handled(op)
<1>1. \A op \in {"i2l", "i2f", "i2d", "l2i", "l2f", "l2d"} : Handled(op)
  <2>1. {"i2l", "i2f", "i2d", "l2i", "l2f", "l2d"} \subseteq bytecode_tables["I"]
    BY TablesAre DEF jmp_table_int
  <2>2. \A op \in {"i2l", "i2f", "i2d", "l2i", "l2f", "l2d"} :
          PlainEffect(op).pop # <<>> /\ calculate_tos_type(PlainEffect(op).pop) = "I"
    BY ConversionAre, TableOfSome, TableLetters, Letters DEF E
  <2> QED  BY <2>1, <2>2 DEF Handled
<1>2. \A op \in {"f2i", "f2l", "f2d"} : Handled(op)
  <2>1. {"f2i", "f2l", "f2d"} \subseteq bytecode_tables["F"]
    BY TablesAre DEF jmp_table_float
  <2>2. \A op \in {"f2i", "f2l", "f2d"} :
          PlainEffect(op).pop # <<>> /\ calculate_tos_type(PlainEffect(op).pop) = "F"
    BY ConversionAre, TableOfSome, TableLetters, Letters DEF E
  <2> QED  BY <2>1, <2>2 DEF Handled
<1>3. \A op \in {"d2i", "d2l", "d2f"} : Handled(op)
  <2>1. {"d2i", "d2l", "d2f"} \subseteq bytecode_tables["D"]
    BY TablesAre DEF jmp_table_double
  <2>2. \A op \in {"d2i", "d2l", "d2f"} :
          PlainEffect(op).pop # <<>> /\ calculate_tos_type(PlainEffect(op).pop) = "D"
    BY ConversionAre, TableOfSome, TableLetters, Letters DEF E
  <2> QED  BY <2>1, <2>2 DEF Handled
<1> QED  BY <1>1, <1>2, <1>3, Groups

LEMMA ObjectHandled == \A op \in DOMAIN ObjectEffects : Handled(op)
<1>1. \A op \in {"new"} : Handled(op)
  <2>1. {"new"} \subseteq Nullary
    BY Groups DEF Nullary
  <2> QED  BY <2>1, ObjectAre DEF Handled, E
<1>2. \A op \in {"newarray", "anewarray", "checkcast", "instanceof", "monitorenter",
        "monitorexit"} : Handled(op)
  <2>1. {"newarray", "anewarray", "checkcast", "instanceof", "monitorenter", "monitorexit"} \subseteq bytecode_tables["I"]
    BY TablesAre DEF jmp_table_int
  <2>2. \A op \in {"newarray", "anewarray", "checkcast", "instanceof", "monitorenter", "monitorexit"} :
          PlainEffect(op).pop # <<>> /\ calculate_tos_type(PlainEffect(op).pop) = "I"
    BY ObjectAre, TableOfSome, TableLetters, Letters DEF E
  <2> QED  BY <2>1, <2>2 DEF Handled
<1>3. \A op \in {"multianewarray"} : Handled(op)
  <2>1. {"multianewarray"} \subseteq bytecode_tables["I"]
    BY TablesAre DEF jmp_table_int
  <2>2. \A op \in {"multianewarray"} :
          PlainEffect(op).pop # <<>> /\ calculate_tos_type(PlainEffect(op).pop) = "I"
    BY ObjectAre, TableOfSome, TableLetters, Letters DEF E
  <2> QED  BY <2>1, <2>2 DEF Handled
<1> QED  BY <1>1, <1>2, <1>3, Groups

LEMMA LoadHandled == \A op \in DOMAIN LoadEffects : Handled(op)
<1>1. \A op \in {"aconst_null", "ldc", "iconst", "lconst", "fconst", "dconst", "iload", "lload",
        "fload", "dload", "aload"} : Handled(op)
  <2>1. {"aconst_null", "ldc", "iconst", "lconst", "fconst", "dconst", "iload", "lload",
        "fload", "dload", "aload"} \subseteq Nullary
    BY Groups DEF Nullary
  <2> QED  BY <2>1, LoadAre DEF Handled, E
<1> QED  BY <1>1, Groups

LEMMA StoreHandled == \A op \in DOMAIN StoreEffects : Handled(op)
<1>1. \A op \in {"istore", "lstore", "astore"} : Handled(op)
  <2>1. {"istore", "lstore", "astore"} \subseteq bytecode_tables["I"]
    BY TablesAre DEF jmp_table_int
  <2>2. \A op \in {"istore", "lstore", "astore"} :
          PlainEffect(op).pop # <<>> /\ calculate_tos_type(PlainEffect(op).pop) = "I"
    BY StoreAre, TableOfSome, TableLetters, Letters DEF E
  <2> QED  BY <2>1, <2>2 DEF Handled
<1>2. \A op \in {"fstore"} : Handled(op)
  <2>1. {"fstore"} \subseteq bytecode_tables["F"]
    BY TablesAre DEF jmp_table_float
  <2>2. \A op \in {"fstore"} :
          PlainEffect(op).pop # <<>> /\ calculate_tos_type(PlainEffect(op).pop) = "F"
    BY StoreAre, TableOfSome, TableLetters, Letters DEF E
  <2> QED  BY <2>1, <2>2 DEF Handled
<1>3. \A op \in {"dstore"} : Handled(op)
  <2>1. {"dstore"} \subseteq bytecode_tables["D"]
    BY TablesAre DEF jmp_table_double
  <2>2. \A op \in {"dstore"} :
          PlainEffect(op).pop # <<>> /\ calculate_tos_type(PlainEffect(op).pop) = "D"
    BY StoreAre, TableOfSome, TableLetters, Letters DEF E
  <2> QED  BY <2>1, <2>2 DEF Handled
<1> QED  BY <1>1, <1>2, <1>3, Groups

LEMMA BranchHandled == \A op \in DOMAIN BranchEffects : Handled(op)
<1>1. \A op \in {"nop", "iinc", "goto"} : Handled(op)
  <2>1. {"nop", "iinc", "goto"} \subseteq Nullary
    BY Groups DEF Nullary
  <2> QED  BY <2>1, BranchAre DEF Handled, E
<1>2. \A op \in {"ifeq", "ifnull", "tableswitch", "lookupswitch"} : Handled(op)
  <2>1. {"ifeq", "ifnull", "tableswitch", "lookupswitch"} \subseteq bytecode_tables["I"]
    BY TablesAre DEF jmp_table_int
  <2>2. \A op \in {"ifeq", "ifnull", "tableswitch", "lookupswitch"} :
          PlainEffect(op).pop # <<>> /\ calculate_tos_type(PlainEffect(op).pop) = "I"
    BY BranchAre, TableOfSome, TableLetters, Letters DEF E
  <2> QED  BY <2>1, <2>2 DEF Handled
<1>3. \A op \in {"if_icmpeq", "if_acmpeq"} : Handled(op)
  <2>1. {"if_icmpeq", "if_acmpeq"} \subseteq bytecode_tables["I"]
    BY TablesAre DEF jmp_table_int
  <2>2. \A op \in {"if_icmpeq", "if_acmpeq"} :
          PlainEffect(op).pop # <<>> /\ calculate_tos_type(PlainEffect(op).pop) = "I"
    BY BranchAre, TableOfSome, TableLetters, Letters DEF E
  <2> QED  BY <2>1, <2>2 DEF Handled
<1> QED  BY <1>1, <1>2, <1>3, Groups

LEMMA EndHandled == \A op \in DOMAIN EndEffects : Handled(op)
<1>1. \A op \in {"return"} : Handled(op)
  <2>1. {"return"} \subseteq Nullary
    BY Groups DEF Nullary
  <2> QED  BY <2>1, EndAre DEF Handled, E
<1>2. \A op \in {"ireturn", "lreturn", "areturn", "athrow"} : Handled(op)
  <2>1. {"ireturn", "lreturn", "areturn", "athrow"} \subseteq bytecode_tables["I"]
    BY TablesAre DEF jmp_table_int
  <2>2. \A op \in {"ireturn", "lreturn", "areturn", "athrow"} :
          PlainEffect(op).pop # <<>> /\ calculate_tos_type(PlainEffect(op).pop) = "I"
    BY EndAre, TableOfSome, TableLetters, Letters DEF E
  <2> QED  BY <2>1, <2>2 DEF Handled
<1>3. \A op \in {"freturn"} : Handled(op)
  <2>1. {"freturn"} \subseteq bytecode_tables["F"]
    BY TablesAre DEF jmp_table_float
  <2>2. \A op \in {"freturn"} :
          PlainEffect(op).pop # <<>> /\ calculate_tos_type(PlainEffect(op).pop) = "F"
    BY EndAre, TableOfSome, TableLetters, Letters DEF E
  <2> QED  BY <2>1, <2>2 DEF Handled
<1>4. \A op \in {"dreturn"} : Handled(op)
  <2>1. {"dreturn"} \subseteq bytecode_tables["D"]
    BY TablesAre DEF jmp_table_double
  <2>2. \A op \in {"dreturn"} :
          PlainEffect(op).pop # <<>> /\ calculate_tos_type(PlainEffect(op).pop) = "D"
    BY EndAre, TableOfSome, TableLetters, Letters DEF E
  <2> QED  BY <2>1, <2>2 DEF Handled
<1> QED  BY <1>1, <1>2, <1>3, <1>4, Groups

LEMMA PlainHandled == \A op \in PlainKinds : Handled(op)
BY PlainDomain, ArrayHandled, ArithmeticHandled, ConversionHandled, ObjectHandled, LoadHandled,
   StoreHandled, BranchHandled, EndHandled


-----------------------------------------------------------------------------
(***************************************************************************)
(* The instruction in hand: its effect, by the kind it has now.            *)
(***************************************************************************)
LEMMA AllowedIs ==
  ASSUME NEW i, NEW ts, Allowed(i, ts)
  PROVE  /\ i.op \in PlainKinds \union StackKinds \union FieldKinds \union InvokeKinds
         /\ i.args \in Seq(TypeKinds) /\ i.ret \in TypeKinds \union {"V"}
         /\ i.op \in {"getstatic", "getfield"} => i.ret # "V"
         /\ i.op \in {"putstatic", "putfield"} => Len(i.args) = 1
<1> DEFINE j == Insn(i.op, i.args, i.ret)
<1>1. j.op = i.op /\ j.args = i.args /\ j.ret = i.ret
  BY DEF Insn
<1>2. j \in Insns
  BY DEF Allowed
<1> HIDE DEF j
<1> QED  BY <1>1, <1>2, CodeAssumption

LEMMA PlainIsPlain ==
  /\ PlainKinds \intersect (FieldKinds \union InvokeKinds \union StackKinds) = {}
  /\ FieldKinds \intersect (InvokeKinds \union StackKinds) = {} /\ InvokeKinds \intersect StackKinds = {}
BY PlainDomain, Groups DEF FieldKinds, InvokeKinds, StackKinds

StaticGets == {"getstatic_I", "getstatic_J", "getstatic_F", "getstatic_D", "getstatic_L"}
StaticPuts == {"putstatic_I", "putstatic_J", "putstatic_F", "putstatic_D", "putstatic_L"}
FieldGets == {"getfield_I", "getfield_J", "getfield_F", "getfield_D", "getfield_L"}
FieldPuts == {"putfield_I", "putfield_J", "putfield_F", "putfield_D", "putfield_L"}

LEMMA ResolvedKinds ==
  \A t \in TypeKinds :
    /\ resolved_kind("getstatic", t) \in StaticGets /\ resolved_kind("putstatic", t) \in StaticPuts
    /\ resolved_kind("getfield", t) \in FieldGets /\ resolved_kind("putfield", t) \in FieldPuts
BY DEF resolved_kind, StaticGets, StaticPuts, FieldGets, FieldPuts, TypeKinds

LEMMA FieldTypeIs ==
  ASSUME NEW i, NEW ts, Allowed(i, ts), i.op \in FieldKinds
  PROVE  FieldType(i) \in TypeKinds
BY AllowedIs DEF FieldKinds, FieldType, Last

LEMMA BecomesIs ==
  ASSUME NEW i, NEW ts, InHand(i, ts)
  PROVE  \/ i.kind = i.op
         \/ i.op = "new" /\ i.kind = "new_resolved"
         \/ i.op = "anewarray" /\ i.kind = "anewarray_resolved"
         \/ i.op = "checkcast" /\ i.kind = "checkcast_resolved"
         \/ i.op = "instanceof" /\ i.kind = "instanceof_resolved"
         \/ i.op = "getstatic" /\ i.kind \in StaticGets
         \/ i.op = "putstatic" /\ i.kind \in StaticPuts
         \/ i.op = "getfield" /\ i.kind \in FieldGets
         \/ i.op = "putfield" /\ i.kind \in FieldPuts
         \/ i.op = "invokestatic" /\ i.kind = "invokestatic_resolved"
         \/ i.op = "invokestatic" /\ i.kind = "sqrt" /\ i.args = <<"D">> /\ i.ret = "D"
         \/ i.op = "invokestatic" /\ i.kind = "pow" /\ i.args = <<"D", "D">> /\ i.ret = "D"
         \/ i.op \in {"invokevirtual", "invokeinterface"} /\ i.kind \in Virtual
         \/ i.op = "invokespecial" /\ i.kind = "invokespecial_resolved"
         \/ i.op = "invokespecial" /\ i.kind = "pop" /\ i.args = <<>> /\ i.ret = "V"
         \/ i.op = "invokedynamic" /\ i.kind = "invokecallsite"
<1>1. i.kind = i.op \/ i.kind \in Becomes(i)
  BY DEF InHand
<1>2. Allowed(i, ts)
  BY DEF InHand
<1>3. CASE i.op \in FieldKinds /\ i.kind \in Becomes(i)
  <2>1. i.kind = resolved_kind(i.op, FieldType(i))
    BY <1>3 DEF Becomes, FieldKinds
  <2> QED  BY <1>2, <1>3, <2>1, FieldTypeIs, ResolvedKinds DEF FieldKinds
<1>4. CASE i.op \notin FieldKinds /\ i.kind \in Becomes(i)
  BY <1>4 DEF Becomes
<1> QED  BY <1>1, <1>3, <1>4


LEMMA KindIsOp ==
  ASSUME NEW i, NEW ts, InHand(i, ts), i.kind \in PlainKinds \union FieldKinds
  PROVE  i.op = i.kind
<1>1. /\ {"new_resolved", "anewarray_resolved", "checkcast_resolved", "instanceof_resolved",
          "invokestatic_resolved", "sqrt", "pow", "invokespecial_resolved", "pop", "invokecallsite"}
         \intersect (PlainKinds \union FieldKinds) = {}
      /\ (StaticGets \union StaticPuts \union FieldGets \union FieldPuts \union Virtual)
         \intersect (PlainKinds \union FieldKinds) = {}
  BY PlainDomain, Groups DEF FieldKinds, StaticGets, StaticPuts, FieldGets, FieldPuts, Virtual
<1> QED  BY <1>1, BecomesIs

LEMMA PlainMoves ==
  ASSUME NEW i, NEW ts, InHand(i, ts), i.kind \in PlainKinds, NEW p, NEW q, Takes(i.kind, p, q)
  PROVE  Effect(i) = PlainEffect(i.kind) /\ Moves(Effect(i), p, q)
<1>1. i.op = i.kind /\ i.op \notin FieldKinds \union InvokeKinds
  BY KindIsOp, PlainIsPlain
<1>2. Effect(i) = PlainEffect(i.kind)
  BY <1>1 DEF Effect
<1> QED  BY <1>2 DEF Takes

LEMMA FieldEffects ==
  ASSUME NEW i, NEW ts, Allowed(i, ts)
  PROVE  /\ i.op = "getstatic" => Effect(i) = E(<<>>, <<i.ret>>) /\ Moves(Effect(i), 0, 1)
         /\ i.op = "getfield" => Effect(i) = E(<<"L">>, <<i.ret>>) /\ Moves(Effect(i), 1, 1)
         /\ i.op = "putstatic" => Effect(i) = E(<<FieldType(i)>>, <<>>) /\ Moves(Effect(i), 1, 0)
         /\ i.op = "putfield" => Effect(i) = E(<<"L", FieldType(i)>>, <<>>) /\ Moves(Effect(i), 2, 0)
<1>1. i.op \in FieldKinds => Effect(i) = PoolEffect(i)
  BY DEF Effect
<1>2. ASSUME i.op \in {"getstatic", "getfield"}  PROVE i.ret \in TypeKinds /\ Pushed(i.ret) = <<i.ret>>
  BY <1>2, AllowedIs, Letters DEF Pushed
<1>3. ASSUME i.op \in {"putstatic", "putfield"}  PROVE FieldType(i) \in TypeKinds /\ i.args = <<FieldType(i)>>
  <2>1. i.args \in Seq(TypeKinds) /\ Len(i.args) = 1 /\ FieldType(i) = i.args[1]
    BY <1>3, AllowedIs DEF FieldType, Last
  <2>2. <<i.args[1]>> \in Seq(TypeKinds) /\ Len(<<i.args[1]>>) = 1 /\ i.args[1] \in TypeKinds
    BY <2>1
  <2>3. i.args = <<i.args[1]>>
    BY <2>1, <2>2, SeqEqual
  <2> QED  BY <2>1, <2>2, <2>3
<1>4. i.op = "getstatic" => Effect(i) = E(<<>>, <<i.ret>>) /\ Moves(Effect(i), 0, 1)
  BY <1>1, <1>2, Moves01 DEF FieldKinds, InvokeKinds, PoolEffect
<1>5. i.op = "getfield" => Effect(i) = E(<<"L">>, <<i.ret>>) /\ Moves(Effect(i), 1, 1)
  BY <1>1, <1>2, Moves11, Letters DEF FieldKinds, InvokeKinds, PoolEffect
<1>6. i.op = "putstatic" => Effect(i) = E(<<FieldType(i)>>, <<>>) /\ Moves(Effect(i), 1, 0)
  BY <1>1, <1>3, Moves10 DEF FieldKinds, InvokeKinds, PoolEffect
<1>7. i.op = "putfield" => Effect(i) = E(<<"L", FieldType(i)>>, <<>>) /\ Moves(Effect(i), 2, 0)
  <2> SUFFICES ASSUME i.op = "putfield"
               PROVE  Effect(i) = E(<<"L", FieldType(i)>>, <<>>) /\ Moves(Effect(i), 2, 0)
    OBVIOUS
  <2>1. FieldType(i) \in TypeKinds /\ i.args = <<FieldType(i)>>
    BY <1>3
  <2>2. <<"L">> \o <<FieldType(i)>> = <<"L", FieldType(i)>>
    BY <2>1, Letters, TwoSingles
  <2>3. Effect(i) = E(<<"L">> \o i.args, <<>>)
    BY <1>1 DEF FieldKinds, InvokeKinds, PoolEffect
  <2>4. Effect(i) = E(<<"L", FieldType(i)>>, <<>>)
    BY <2>1, <2>2, <2>3, Zenon
  <2> QED  BY <2>1, <2>4, Moves20, Letters
<1> QED  BY <1>4, <1>5, <1>6, <1>7

LEMMA InvokeEffects ==
  ASSUME NEW i, NEW ts, Allowed(i, ts), i.op \in InvokeKinds
  PROVE  /\ Effect(i) = E(Receiver(i.op) \o i.args, Pushed(i.ret))
         /\ Effect(i).pop \in Seq(TypeKinds) /\ Len(Effect(i).pop) = Len(Receiver(i.op)) + Len(i.args)
         /\ Effect(i).push \in Seq(TypeKinds) /\ Len(Effect(i).push) = IF i.ret = "V" THEN 0 ELSE 1
<1>1. Effect(i) = E(Receiver(i.op) \o i.args, Pushed(i.ret))
  BY DEF Effect, PoolEffect, InvokeKinds, FieldKinds
<1>2. Receiver(i.op) \in Seq(TypeKinds)
  BY Letters DEF Receiver
<1>3. i.args \in Seq(TypeKinds) /\ i.ret \in TypeKinds \union {"V"}
  BY AllowedIs
<1>4. Pushed(i.ret) \in Seq(TypeKinds) /\ Len(Pushed(i.ret)) = IF i.ret = "V" THEN 0 ELSE 1
  BY <1>3 DEF Pushed
<1>5. /\ Receiver(i.op) \o i.args \in Seq(TypeKinds)
      /\ Len(Receiver(i.op) \o i.args) = Len(Receiver(i.op)) + Len(i.args)
  BY <1>2, <1>3, ConcatProperties
<1> QED  BY <1>1, <1>4, <1>5 DEF E

LEMMA KindMoves ==
  ASSUME NEW i, NEW ts, InHand(i, ts)
  PROVE  /\ i.kind \in StaticGets => Moves(Effect(i), 0, 1)
         /\ i.kind \in FieldGets => Moves(Effect(i), 1, 1)
         /\ i.kind \in StaticPuts => Moves(Effect(i), 1, 0)
         /\ i.kind \in FieldPuts => Moves(Effect(i), 2, 0)
         /\ i.kind = "sqrt" => Moves(Effect(i), 1, 1)
         /\ i.kind = "pow" => Moves(Effect(i), 2, 1)
         /\ i.kind = "new_resolved" => Moves(Effect(i), 0, 1)
         /\ i.kind \in {"anewarray_resolved", "checkcast_resolved", "instanceof_resolved"} =>
              Moves(Effect(i), 1, 1)
         /\ i.kind = "pop" => Moves(Effect(i), 1, 0)
<1>1. Allowed(i, ts)
  BY DEF InHand
<1>2. i.op \in PlainKinds \union FieldKinds \union InvokeKinds
  BY <1>1, AllowedIs DEF InHand
<1> DEFINE New == {"new_resolved", "anewarray_resolved", "checkcast_resolved", "instanceof_resolved",
                   "sqrt", "pow", "pop"} \union StaticGets \union StaticPuts \union FieldGets \union FieldPuts
<1>3. New \intersect (PlainKinds \union FieldKinds \union InvokeKinds) = {}
  BY PlainDomain, Groups DEF FieldKinds, InvokeKinds, StaticGets, StaticPuts, FieldGets, FieldPuts
<1>4. ASSUME i.kind \in New
      PROVE  /\ i.kind \in StaticGets => i.op = "getstatic"
             /\ i.kind \in FieldGets => i.op = "getfield"
             /\ i.kind \in StaticPuts => i.op = "putstatic"
             /\ i.kind \in FieldPuts => i.op = "putfield"
             /\ i.kind = "sqrt" => i.op = "invokestatic" /\ i.args = <<"D">> /\ i.ret = "D"
             /\ i.kind = "pow" => i.op = "invokestatic" /\ i.args = <<"D", "D">> /\ i.ret = "D"
             /\ i.kind = "new_resolved" => i.op = "new"
             /\ i.kind \in {"anewarray_resolved", "checkcast_resolved", "instanceof_resolved"} =>
                  i.op \in {"anewarray", "checkcast", "instanceof"}
             /\ i.kind = "pop" => i.op = "invokespecial" /\ i.args = <<>> /\ i.ret = "V"
  <2>1. i.kind # i.op
    BY <1>2, <1>3, <1>4
  <2> QED  BY <2>1, BecomesIs DEF StaticGets, StaticPuts, FieldGets, FieldPuts, Virtual
<1>5. ASSUME i.op \in {"new", "anewarray", "checkcast", "instanceof"}
      PROVE  Effect(i) = PlainEffect(i.op)
  BY <1>5 DEF Effect, FieldKinds, InvokeKinds
<1>6. i.kind \in {"new_resolved", "anewarray_resolved", "checkcast_resolved", "instanceof_resolved"}
        => i.op \in {"new", "anewarray", "checkcast", "instanceof"}
  BY <1>4
<1>7. /\ i.kind = "new_resolved" => Moves(Effect(i), 0, 1)
      /\ i.kind \in {"anewarray_resolved", "checkcast_resolved", "instanceof_resolved"} =>
           Moves(Effect(i), 1, 1)
  <2> HIDE DEF New
  <2>1. i.kind \in {"new_resolved", "anewarray_resolved", "checkcast_resolved", "instanceof_resolved"}
        => i.kind \in New
    BY DEF New
  <2> QED  BY <1>4, <1>5, <1>6, <2>1, ObjectTakes DEF Takes
<1>8. /\ i.kind \in StaticGets => Moves(Effect(i), 0, 1)
      /\ i.kind \in FieldGets => Moves(Effect(i), 1, 1)
      /\ i.kind \in StaticPuts => Moves(Effect(i), 1, 0)
      /\ i.kind \in FieldPuts => Moves(Effect(i), 2, 0)
  BY <1>1, <1>4, FieldEffects
<1>9. ASSUME i.kind \in {"sqrt", "pow", "pop"}
      PROVE  /\ i.kind = "sqrt" => Moves(Effect(i), 1, 1)
             /\ i.kind = "pow" => Moves(Effect(i), 2, 1)
             /\ i.kind = "pop" => Moves(Effect(i), 1, 0)
  <2>1. i.op \in {"invokestatic", "invokespecial"} /\ i.op \in InvokeKinds
    BY <1>4, <1>9 DEF InvokeKinds
  <2>2. Receiver("invokestatic") = <<>> /\ Receiver("invokespecial") = <<"L">>
    BY DEF Receiver
  <2>3. Len(<<>>) = 0 /\ Len(<<"L">>) = 1 /\ Len(<<"D">>) = 1 /\ Len(<<"D", "D">>) = 2
    OBVIOUS
  <2>4. /\ Effect(i).pop \in Seq(TypeKinds) /\ Len(Effect(i).pop) = Len(Receiver(i.op)) + Len(i.args)
        /\ Effect(i).push \in Seq(TypeKinds) /\ Len(Effect(i).push) = IF i.ret = "V" THEN 0 ELSE 1
    BY <1>1, <2>1, InvokeEffects
  <2>5. i.kind \in New
    BY <1>9
  <2>6. CASE i.kind = "sqrt"
    <3>1. i.op = "invokestatic" /\ i.args = <<"D">> /\ i.ret = "D"
      BY <1>4, <2>5, <2>6
    <3>2. Len(Receiver(i.op)) = 0 /\ Len(i.args) = 1 /\ i.ret # "V"
      BY <2>2, <2>3, <3>1
    <3> QED  BY <2>4, <2>6, <3>2 DEF Moves
  <2>7. CASE i.kind = "pow"
    <3>1. i.op = "invokestatic" /\ i.args = <<"D", "D">> /\ i.ret = "D"
      BY <1>4, <2>5, <2>7
    <3>2. Len(Receiver(i.op)) = 0 /\ Len(i.args) = 2 /\ i.ret # "V"
      BY <2>2, <2>3, <3>1
    <3> QED  BY <2>4, <2>7, <3>2 DEF Moves
  <2>8. CASE i.kind = "pop"
    <3>1. i.op = "invokespecial" /\ i.args = <<>> /\ i.ret = "V"
      BY <1>4, <2>5, <2>8
    <3>2. Len(Receiver(i.op)) = 1 /\ Len(i.args) = 0
      BY <2>2, <2>3, <3>1
    <3> QED  BY <2>4, <2>8, <3>1, <3>2 DEF Moves
  <2> QED  BY <1>9, <2>6, <2>7, <2>8
<1> QED  BY <1>7, <1>8, <1>9


-----------------------------------------------------------------------------
(***************************************************************************)
(* Stacks of values.                                                       *)
(***************************************************************************)
(* A value the program may push. *)
ValueOk(v) == v \in Val /\ v.t \in TypeKinds

LEMMA LimitIs == StackLimit \in Nat /\ StackLimit >= 1
BY BoundsAssumption

LEMMA UndefIs == Undef \in Val /\ Undef.t = "V"
BY DEF Undef, Value, Val

LEMMA FreshIs ==
  ASSUME NEW t \in TypeKinds, IInv
  PROVE  ValueOk(Fresh(t)) /\ Fresh(t).t = t
<1>1. gc \in Nat /\ n \in Nat /\ StackLimit \in Nat
  BY LimitIs DEF IInv
<1> QED  BY <1>1 DEF ValueOk, Fresh, Value, Val

LEMMA KindsAre ==
  ASSUME NEW s \in Seq(Val), \A i \in 1..Len(s) : s[i].t \in TypeKinds
  PROVE  /\ KindsOf(s) \in Seq(TypeKinds) /\ Len(KindsOf(s)) = Len(s)
         /\ \A i \in 1..Len(s) : KindsOf(s)[i] = s[i].t
         /\ KindsOf(s) = <<>> <=> s = <<>>
<1>1. Len(s) \in Nat /\ DOMAIN s = 1..Len(s)
  BY LenProperties
<1>2. KindsOf(s) = [i \in 1..Len(s) |-> s[i].t]
  BY <1>1 DEF KindsOf
<1>3. KindsOf(s) \in [1..Len(s) -> TypeKinds]
  BY <1>2
<1>4. KindsOf(s) \in Seq(TypeKinds) /\ Len(KindsOf(s)) = Len(s)
  BY <1>1, <1>3, SeqDef
<1>5. KindsOf(s) = <<>> <=> s = <<>>
  BY <1>4, EmptySeq
<1> QED  BY <1>2, <1>4, <1>5

LEMMA StackIs ==
  ASSUME NEW s, StackOk(s)
  PROVE  /\ s \in Seq(Val) /\ Len(s) \in Nat /\ Len(s) <= StackLimit /\ DOMAIN s = 1..Len(s)
         /\ \A i \in 1..Len(s) : ValueOk(s[i])
         /\ KindsOf(s) \in Seq(TypeKinds) /\ Len(KindsOf(s)) = Len(s)
         /\ \A i \in 1..Len(s) : KindsOf(s)[i] = s[i].t
         /\ KindsOf(s) = <<>> <=> s = <<>>
<1>1. s \in Seq(Val) /\ \A i \in 1..Len(s) : s[i].t \in TypeKinds
  BY DEF StackOk
<1>2. Len(s) \in Nat /\ DOMAIN s = 1..Len(s) /\ \A i \in 1..Len(s) : s[i] \in Val
  BY <1>1, LenProperties, ElementOfSeq
<1> QED  BY <1>1, <1>2, KindsAre DEF StackOk, ValueOk

LEMMA StackFrom ==
  ASSUME NEW s \in Seq(Val), Len(s) <= StackLimit, \A i \in 1..Len(s) : ValueOk(s[i])
  PROVE  StackOk(s)
BY DEF StackOk, ValueOk

(* The lowest values of a stack. *)
LEMMA DropIs ==
  ASSUME NEW S, NEW s \in Seq(S), NEW p \in 0..Len(s)
  PROVE  /\ Drop(s, p) \in Seq(S) /\ Len(Drop(s, p)) = Len(s) - p
         /\ \A i \in 1..(Len(s) - p) : Drop(s, p)[i] = s[i]
<1>1. Len(s) \in Nat /\ Len(s) - p \in Nat /\ \A i \in 1..(Len(s) - p) : i \in 1..Len(s) /\ s[i] \in S
  BY LenProperties, ElementOfSeq
<1>2. /\ SubSeq(s, 1, Len(s) - p) \in Seq(S)
      /\ Len(SubSeq(s, 1, Len(s) - p)) = IF 1 <= Len(s) - p THEN (Len(s) - p) - 1 + 1 ELSE 0
      /\ \A i \in 1..((Len(s) - p) - 1 + 1) : SubSeq(s, 1, Len(s) - p)[i] = s[1 + i - 1]
  BY <1>1, SubSeqProperties
<1> QED  BY <1>1, <1>2 DEF Drop

(* Some values are taken and others left. *)
Grown(r, s, p, t) ==
  /\ StackOk(r) /\ Len(r) = Len(s) - p + Len(t)
  /\ KindsOf(r) = Drop(KindsOf(s), p) \o KindsOf(t)
  /\ \A i \in 1..(Len(s) - p) : r[i] = s[i]
  /\ \A i \in 1..Len(t) : r[Len(s) - p + i] = t[i]

LEMMA StackAfter ==
  ASSUME NEW s, StackOk(s), NEW p \in 0..Len(s), NEW t, StackOk(t), Len(s) - p + Len(t) <= StackLimit
  PROVE  Grown(Drop(s, p) \o t, s, p, t)
<1> DEFINE d == Drop(s, p)
           r == d \o t
<1>1. s \in Seq(Val) /\ t \in Seq(Val) /\ Len(s) \in Nat /\ Len(t) \in Nat
  BY StackIs
<1>2. d \in Seq(Val) /\ Len(d) = Len(s) - p /\ \A i \in 1..(Len(s) - p) : d[i] = s[i]
  BY <1>1, DropIs
<1> HIDE DEF d
<1>3. /\ r \in Seq(Val) /\ Len(r) = Len(s) - p + Len(t)
      /\ \A i \in 1..(Len(d) + Len(t)) : r[i] = IF i <= Len(d) THEN d[i] ELSE t[i - Len(d)]
  BY <1>1, <1>2, ConcatProperties
<1> HIDE DEF r
<1>4. \A i \in 1..(Len(s) - p) : r[i] = s[i] /\ i \in 1..Len(s)
  <2> TAKE i \in 1..(Len(s) - p)
  <2>1. i \in 1..Len(s) /\ i \in 1..(Len(d) + Len(t)) /\ i <= Len(d)
    BY <1>1, <1>2
  <2> QED  BY <1>2, <1>3, <2>1
<1>5. \A i \in 1..Len(t) : r[Len(s) - p + i] = t[i]
  <2> TAKE i \in 1..Len(t)
  <2>1. /\ Len(s) - p + i \in 1..(Len(d) + Len(t)) /\ ~(Len(s) - p + i <= Len(d))
        /\ (Len(s) - p + i) - Len(d) = i
    BY <1>1, <1>2
  <2> QED  BY <1>3, <2>1
<1>6. \A i \in 1..Len(r) : \/ i \in 1..(Len(s) - p)
                           \/ \E k \in 1..Len(t) : i = Len(s) - p + k
  <2> TAKE i \in 1..Len(r)
  <2>1. i \in Nat /\ (i \in 1..(Len(s) - p) \/ i - (Len(s) - p) \in 1..Len(t))
    BY <1>1, <1>3
  <2>2. i = Len(s) - p + (i - (Len(s) - p))
    BY <1>1, <2>1
  <2> QED  BY <2>1, <2>2
<1>7. \A i \in 1..Len(r) : ValueOk(r[i])
  BY <1>4, <1>5, <1>6, StackIs
<1>8. StackOk(r)
  BY <1>3, <1>7, StackFrom
<1>9. KindsOf(r) = Drop(KindsOf(s), p) \o KindsOf(t)
  <2> DEFINE ks == KindsOf(s)
             kt == KindsOf(t)
             kd == Drop(ks, p)
  <2>1. /\ ks \in Seq(TypeKinds) /\ Len(ks) = Len(s) /\ \A i \in 1..Len(s) : ks[i] = s[i].t
        /\ kt \in Seq(TypeKinds) /\ Len(kt) = Len(t) /\ \A i \in 1..Len(t) : kt[i] = t[i].t
        /\ KindsOf(r) \in Seq(TypeKinds) /\ Len(KindsOf(r)) = Len(r)
        /\ \A i \in 1..Len(r) : KindsOf(r)[i] = r[i].t
    BY <1>8, StackIs
  <2> HIDE DEF ks, kt
  <2>2. kd \in Seq(TypeKinds) /\ Len(kd) = Len(s) - p /\ \A i \in 1..(Len(s) - p) : kd[i] = ks[i]
    BY <2>1, DropIs
  <2> HIDE DEF kd
  <2>3. /\ kd \o kt \in Seq(TypeKinds) /\ Len(kd \o kt) = Len(r)
        /\ \A i \in 1..(Len(kd) + Len(kt)) : (kd \o kt)[i] = IF i <= Len(kd) THEN kd[i] ELSE kt[i - Len(kd)]
    <3>1. /\ kd \o kt \in Seq(TypeKinds) /\ Len(kd \o kt) = Len(kd) + Len(kt)
          /\ \A i \in 1..(Len(kd) + Len(kt)) : (kd \o kt)[i] = IF i <= Len(kd) THEN kd[i] ELSE kt[i - Len(kd)]
      <4>1. kd \in Seq(TypeKinds) /\ kt \in Seq(TypeKinds)
        BY <2>1, <2>2
      <4> QED  BY <4>1, ConcatProperties
    <3>2. Len(kd) + Len(kt) = Len(r)
      BY <1>3, <2>1, <2>2
    <3> QED  BY <3>1, <3>2, Zenon
  <2>4. ASSUME NEW i \in 1..Len(r)  PROVE KindsOf(r)[i] = (kd \o kt)[i]
    <3>1. CASE i \in 1..(Len(s) - p)
      <4>1. i \in 1..Len(s) /\ i \in 1..(Len(kd) + Len(kt)) /\ i <= Len(kd)
        BY <1>1, <2>1, <2>2, <3>1
      <4>2. (kd \o kt)[i] = kd[i] /\ kd[i] = ks[i] /\ ks[i] = s[i].t
        BY <2>1, <2>2, <2>3, <3>1, <4>1, Zenon
      <4>3. KindsOf(r)[i] = r[i].t /\ r[i] = s[i]
        BY <1>4, <2>1, <3>1
      <4> QED  BY <4>2, <4>3, Zenon
    <3>2. ASSUME NEW k \in 1..Len(t), i = Len(s) - p + k  PROVE KindsOf(r)[i] = (kd \o kt)[i]
      <4>1. i \in 1..(Len(kd) + Len(kt)) /\ ~(i <= Len(kd)) /\ i - Len(kd) = k
        BY <1>1, <2>1, <2>2, <3>2
      <4> QED  BY <1>5, <2>1, <2>3, <3>2, <4>1
    <3> QED  BY <1>6, <3>1, <3>2
  <2>5. KindsOf(r) = kd \o kt
    BY <2>1, <2>3, <2>4, SeqEqual
  <2> QED  BY <2>5 DEF kd, ks, kt
<1>10. Grown(r, s, p, t)
  BY <1>3, <1>4, <1>5, <1>8, <1>9 DEF Grown
<1> QED  BY <1>10 DEF r, d

LEMMA NoneAndOne ==
  /\ StackOk(<<>>) /\ KindsOf(<<>>) = <<>>
  /\ \A v : ValueOk(v) => StackOk(<<v>>) /\ KindsOf(<<v>>) = <<v.t>> /\ Len(<<v>>) = 1 /\ <<v>>[1] = v
<1>1. StackOk(<<>>) /\ KindsOf(<<>>) = <<>>
  BY LimitIs DEF StackOk, KindsOf
<1>2. ASSUME NEW v, ValueOk(v)  PROVE StackOk(<<v>>) /\ KindsOf(<<v>>) = <<v.t>> /\ Len(<<v>>) = 1 /\ <<v>>[1] = v
  <2>1. <<v>> \in Seq(Val) /\ Len(<<v>>) = 1 /\ <<v>>[1] = v
    BY <1>2 DEF ValueOk
  <2>2. \A i \in 1..Len(<<v>>) : <<v>>[i] = v
    BY <2>1
  <2>3. StackOk(<<v>>)
    BY <1>2, <2>1, <2>2, LimitIs, StackFrom
  <2>4. DOMAIN <<v>> = 1..1
    BY <2>1
  <2> QED  BY <2>1, <2>3, <2>4 DEF KindsOf
<1> QED  BY <1>1, <1>2



-----------------------------------------------------------------------------
(***************************************************************************)
(* The machine: what the macros of the handlers do to it.                  *)
(***************************************************************************)
Tables == {"V", "I", "F", "D"}

LEMMA MachineIs ==
  ASSUME NEW mm \in Machine
  PROVE  /\ mm.sp \in 0..StackLimit /\ mm.sp \in Nat /\ mm.mem \in [1..StackLimit -> Val]
         /\ mm.tos \in Val /\ mm.table \in Tables
         /\ \A i \in 1..StackLimit : mm.mem[i] \in Val
BY LimitIs DEF Machine, Tables

LEMMA WriteIs ==
  ASSUME NEW mm \in Machine, NEW k \in 1..StackLimit, NEW v \in Val
  PROVE  LET q == [mm EXCEPT !.mem[k] = v]
         IN  /\ q \in Machine /\ q.sp = mm.sp /\ q.table = mm.table /\ q.tos = mm.tos
             /\ q.mem[k] = v /\ \A i \in 1..StackLimit : i # k => q.mem[i] = mm.mem[i]
BY DEF Machine

LEMMA MoveIs ==
  ASSUME NEW mm \in Machine, NEW k \in 0..StackLimit
  PROVE  LET q == [mm EXCEPT !.sp = k]
         IN  q \in Machine /\ q.sp = k /\ q.mem = mm.mem /\ q.table = mm.table /\ q.tos = mm.tos
BY DEF Machine

LEMMA AdvanceIs ==
  ASSUME NEW mm \in Machine, NEW t \in Tables, NEW v \in Val
  PROVE  LET q == ADVANCE(mm, t, v)
         IN  q \in Machine /\ q.sp = mm.sp /\ q.mem = mm.mem /\ q.table = t /\ q.tos = v
BY DEF Machine, Tables, ADVANCE

LEMMA PoppedIs ==
  ASSUME NEW mm \in Machine, NEW k \in 0..mm.sp
  PROVE  LET q == Popped(mm, k)
         IN  q \in Machine /\ q.sp = mm.sp - k /\ q.mem = mm.mem /\ q.table = mm.table /\ q.tos = mm.tos
<1>1. mm.sp - k \in 0..StackLimit
  BY MachineIs, LimitIs
<1>2. Popped(mm, k) = [mm EXCEPT !.sp = mm.sp - k]
  BY DEF Popped, Machine
<1> QED  BY <1>1, <1>2, MoveIs

(* A stack whose every value is in memory. *)
Flushed(s, mm) == mm \in Machine /\ mm.sp = Len(s) /\ SlotsHold(s, mm, Len(s))

LEMMA SpillIs ==
  ASSUME NEW s, StackOk(s), NEW mm, Holds(s, mm)
  PROVE  LET q == SPILL(mm)
         IN  Flushed(s, q) /\ Holds(s, q) /\ q.table = mm.table /\ q.tos = mm.tos
<1>1. mm \in Machine /\ mm.sp = Len(s) /\ RegisterOk(s, mm) /\ Len(s) \in Nat /\ Len(s) <= StackLimit
  BY StackIs DEF Holds
<1>2. CASE mm.table = "V"
  <2>1. SPILL(mm) = mm
    BY <1>2 DEF SPILL
  <2> QED  BY <1>1, <1>2, <2>1 DEF Holds, Flushed
<1>3. CASE mm.table # "V"
  <2> DEFINE q == [mm EXCEPT !.mem[mm.sp] = mm.tos]
  <2>1. s # <<>> /\ SlotsHold(s, mm, Len(s) - 1) /\ mm.tos = s[Len(s)]
    BY <1>3 DEF Holds, RegisterOk
  <2>2. Len(s) # 0
    BY <2>1, StackIs, EmptySeq
  <2>3. Len(s) \in 1..StackLimit /\ mm.tos \in Val
    BY <1>1, <2>2, LimitIs, MachineIs
  <2>4. /\ q \in Machine /\ q.sp = mm.sp /\ q.table = mm.table /\ q.tos = mm.tos /\ q.mem[Len(s)] = mm.tos
        /\ \A i \in 1..StackLimit : i # Len(s) => q.mem[i] = mm.mem[i]
    BY <1>1, <2>3, WriteIs
  <2>5. SPILL(mm) = q
    BY <1>3 DEF SPILL
  <2> HIDE DEF q
  <2>6. ASSUME NEW i \in 1..Len(s)  PROVE q.mem[i] = s[i]
    <3>1. i \in 1..StackLimit /\ (i = Len(s) \/ (i # Len(s) /\ i \in 1..(Len(s) - 1)))
      BY <2>3, LimitIs
    <3> QED  BY <2>1, <2>4, <3>1 DEF SlotsHold
  <2>7. Flushed(s, q)
    BY <1>1, <2>4, <2>6 DEF Flushed, SlotsHold
  <2>8. SlotsHold(s, q, Len(s) - 1)
    <3>1. \A i \in 1..(Len(s) - 1) : i \in 1..Len(s)
      BY <1>1
    <3> QED  BY <2>6, <3>1 DEF SlotsHold
  <2>9. Holds(s, q)
    BY <1>1, <1>3, <2>1, <2>4, <2>8 DEF Holds, RegisterOk
  <2> QED  BY <2>4, <2>5, <2>7, <2>9
<1> QED  BY <1>2, <1>3

LEMMA FlushedHolds ==
  ASSUME NEW s, NEW mm, Flushed(s, mm), mm.table = "V"
  PROVE  Holds(s, mm)
BY DEF Flushed, Holds, RegisterOk

LEMMA VoidIs ==
  ASSUME NEW s, NEW mm, Flushed(s, mm)
  PROVE  Flushed(s, JMP_VOID(mm)) /\ JMP_VOID(mm).table = "V" /\ Holds(s, JMP_VOID(mm))
<1>1. mm \in Machine /\ "V" \in Tables /\ Undef \in Val
  BY UndefIs DEF Flushed, Tables
<1>2. /\ JMP_VOID(mm) \in Machine /\ JMP_VOID(mm).sp = mm.sp /\ JMP_VOID(mm).mem = mm.mem
      /\ JMP_VOID(mm).table = "V"
  BY <1>1, AdvanceIs DEF JMP_VOID
<1>3. Flushed(s, JMP_VOID(mm))
  BY <1>2 DEF Flushed, SlotsHold
<1> QED  BY <1>2, <1>3, FlushedHolds

LEMMA ForwardIs ==
  ASSUME NEW s, StackOk(s), NEW mm, Holds(s, mm)
  PROVE  LET q == FORWARD_TO_NULLARY(mm)
         IN  Flushed(s, q) /\ Holds(s, q) /\ q.table = "V"
<1>1. Flushed(s, SPILL(mm))
  BY SpillIs
<1>2. FORWARD_TO_NULLARY(mm) = JMP_VOID(SPILL(mm))
  BY DEF FORWARD_TO_NULLARY, JMP_VOID, ADVANCE
<1> QED  BY <1>1, <1>2, VoidIs

LEMMA TosIs ==
  ASSUME NEW s, StackOk(s), s # <<>>
  PROVE  /\ Len(s) \in 1..StackLimit /\ ValueOk(s[Len(s)])
         /\ calculate_tos_type(KindsOf(s)) = calculate_tos_type(<<s[Len(s)].t>>)
         /\ calculate_tos_type(KindsOf(s)) \in {"I", "F", "D"}
<1>1. /\ s \in Seq(Val) /\ Len(s) \in Nat /\ Len(s) <= StackLimit /\ \A i \in 1..Len(s) : ValueOk(s[i])
      /\ Len(KindsOf(s)) = Len(s) /\ \A i \in 1..Len(s) : KindsOf(s)[i] = s[i].t
      /\ KindsOf(s) # <<>>
  BY StackIs
<1>2. Len(s) # 0
  BY <1>1, EmptySeq
<1>3. Len(s) \in 1..Len(s) /\ Len(s) \in 1..StackLimit
  BY <1>1, <1>2, LimitIs
<1>4. Last(KindsOf(s)) = s[Len(s)].t
  BY <1>1, <1>3 DEF Last
<1>5. <<s[Len(s)].t>> # <<>> /\ Last(<<s[Len(s)].t>>) = s[Len(s)].t
  BY DEF Last
<1> QED  BY <1>1, <1>3, <1>4, <1>5 DEF calculate_tos_type

(* NEXT: the value on top is in the register. *)
LEMMA NextReady ==
  ASSUME NEW s, StackOk(s), s # <<>>, NEW mm \in Machine, mm.sp = Len(s), SlotsHold(s, mm, Len(s) - 1),
         NEW v, v = s[Len(s)]
  PROVE  Ready(s, NEXT_of(mm, v.t, v))
<1>1. v \in Val /\ calculate_tos_type(<<v.t>>) = calculate_tos_type(KindsOf(s))
      /\ calculate_tos_type(<<v.t>>) \in {"I", "F", "D"}
  BY TosIs DEF ValueOk
<1> DEFINE t == calculate_tos_type(<<v.t>>)
           q == ADVANCE(mm, t, v)
<1>2. t \in Tables /\ t # "V"
  BY <1>1 DEF Tables
<1>3. t = calculate_tos_type(KindsOf(s))
  BY <1>1
<1> HIDE DEF t
<1>4. q \in Machine /\ q.sp = mm.sp /\ q.mem = mm.mem /\ q.table = t /\ q.tos = v
  BY <1>1, <1>2, AdvanceIs
<1> HIDE DEF q
<1>5. Ready(s, q)
  BY <1>2, <1>3, <1>4 DEF Ready, Holds, RegisterOk, SlotsHold
<1> QED  BY <1>5 DEF q, t, NEXT_of

(* STACK_POLYMORPHIC: the register is loaded from memory. *)
LEMMA PolyReady ==
  ASSUME NEW s, StackOk(s), NEW mm, Flushed(s, mm)
  PROVE  Ready(s, STACK_POLYMORPHIC(mm, KindsOf(s)))
<1>1. mm \in Machine /\ mm.sp = Len(s) /\ SlotsHold(s, mm, Len(s)) /\ Len(s) \in Nat
  BY StackIs DEF Flushed
<1>2. CASE s = <<>>
  <2>1. STACK_POLYMORPHIC(mm, KindsOf(s)) = JMP_VOID(mm)
    BY <1>2, StackIs DEF STACK_POLYMORPHIC
  <2> QED  BY <1>2, <2>1, VoidIs DEF Ready
<1>3. CASE s # <<>>
  <2>1. Len(s) \in 1..StackLimit /\ Len(s) \in 1..Len(s) /\ mm.sp - 1 + 1 = Len(s)
    <3>1. Len(s) \in 1..StackLimit
      BY <1>3, TosIs
    <3> QED  BY <1>1, <3>1
  <2>2. At(mm, 1) = s[Len(s)]
    BY <1>1, <2>1 DEF At, SlotsHold
  <2>3. STACK_POLYMORPHIC(mm, KindsOf(s)) = NEXT_of(mm, s[Len(s)].t, s[Len(s)])
    BY <1>3, <2>2, StackIs, TosIs DEF STACK_POLYMORPHIC, NEXT_of
  <2>4. SlotsHold(s, mm, Len(s) - 1)
    <3>1. \A i \in 1..(Len(s) - 1) : i \in 1..Len(s)
      BY <1>1
    <3> QED  BY <1>1, <3>1 DEF SlotsHold
  <2> QED  BY <1>1, <1>3, <2>3, <2>4, NextReady
<1> QED  BY <1>2, <1>3


-----------------------------------------------------------------------------
(***************************************************************************)
(* What the instruction in hand takes from the stack and leaves on it.     *)
(***************************************************************************)
LEMMA PlainTakes ==
  ASSUME NEW op \in PlainKinds
  PROVE  \E p \in 0..3, q \in 0..1 : Takes(op, p, q)
<1>1. /\ 0 \in 0..3 /\ 1 \in 0..3 /\ 2 \in 0..3 /\ 3 \in 0..3 /\ 0 \in 0..1 /\ 1 \in 0..1
  OBVIOUS
<1>2. CASE op \in DOMAIN ArrayEffects
  BY <1>1, <1>2, Groups, ArrayTakes
<1>3. CASE op \in DOMAIN ArithmeticEffects
  BY <1>1, <1>3, Groups, ArithmeticTakes
<1>4. CASE op \in DOMAIN ConversionEffects
  BY <1>1, <1>4, Groups, ConversionTakes
<1>5. CASE op \in DOMAIN ObjectEffects
  BY <1>1, <1>5, Groups, ObjectTakes
<1>6. CASE op \in DOMAIN LoadEffects
  BY <1>1, <1>6, Groups, LoadTakes
<1>7. CASE op \in DOMAIN StoreEffects
  BY <1>1, <1>7, Groups, StoreTakes
<1>8. CASE op \in DOMAIN BranchEffects
  BY <1>1, <1>8, Groups, BranchTakes
<1>9. CASE op \in DOMAIN EndEffects
  BY <1>1, <1>9, Groups, EndTakes
<1> QED  BY <1>2, <1>3, <1>4, <1>5, <1>6, <1>7, <1>8, <1>9, PlainDomain

LEMMA EffectIs ==
  ASSUME NEW i, NEW ts, Allowed(i, ts), i.op \notin StackKinds
  PROVE  \E p \in Nat, q \in 0..1 : Moves(Effect(i), p, q)
<1>1. CASE i.op \in InvokeKinds
  <2> DEFINE p == Len(Effect(i).pop)
             q == Len(Effect(i).push)
  <2>1. /\ Effect(i).pop \in Seq(TypeKinds)
        /\ Effect(i).push \in Seq(TypeKinds) /\ q = IF i.ret = "V" THEN 0 ELSE 1
    BY <1>1, InvokeEffects
  <2>2. p \in Nat /\ q \in 0..1
    BY <2>1, LenProperties
  <2>3. Moves(Effect(i), p, q)
    BY <2>1 DEF Moves
  <2> QED  BY <2>2, <2>3
<1>2. CASE i.op \in FieldKinds
  <2>1. 0 \in Nat /\ 1 \in Nat /\ 2 \in Nat /\ 0 \in 0..1 /\ 1 \in 0..1
    OBVIOUS
  <2> QED  BY <1>2, <2>1, FieldEffects DEF FieldKinds
<1>3. CASE i.op \notin InvokeKinds \union FieldKinds
  <2>1. i.op \in PlainKinds /\ Effect(i) = PlainEffect(i.op)
    BY <1>3, AllowedIs DEF Effect
  <2>2. PICK p \in 0..3, q \in 0..1 : Takes(i.op, p, q)
    BY <2>1, PlainTakes
  <2>3. p \in Nat
    OBVIOUS
  <2> QED  BY <2>1, <2>2, <2>3 DEF Takes
<1> QED  BY <1>1, <1>2, <1>3

LEMMA FrameIs ==
  ASSUME IInv
  PROVE  /\ StackOk(Values) /\ Values \in Seq(Val) /\ Len(Values) \in Nat /\ Len(Values) <= StackLimit
         /\ types = KindsOf(Values) /\ types \in Seq(TypeKinds) /\ Len(types) = Len(Values)
         /\ \A k \in 1..Len(Values) : types[k] = Values[k].t /\ ValueOk(Values[k])
         /\ types = <<>> <=> Values = <<>>
<1>1. StackOk(Values) /\ types = KindsOf(Values)
  BY DEF IInv
<1> QED  BY <1>1, StackIs

(* The types of the operands. *)
LEMMA OperandsAre ==
  ASSUME IInv, NEW i, Allowed(i, types), i.op \notin StackKinds, NEW p \in Nat, NEW q \in Nat,
         Moves(Effect(i), p, q)
  PROVE  /\ p \in 0..Len(Values) /\ Len(Values) - p + q <= StackLimit
         /\ \A k \in 1..p : Values[Len(Values) - p + k].t = Effect(i).pop[k]
         /\ p > 0 => Values # <<>> /\ Last(types) = Last(Effect(i).pop)
                     /\ calculate_tos_type(types) = calculate_tos_type(Effect(i).pop)
<1> DEFINE e == Effect(i)
<1>1. /\ Len(e.pop) <= Len(types) /\ SubSeq(types, Len(types) - Len(e.pop) + 1, Len(types)) = e.pop
      /\ Len(types) - Len(e.pop) + Len(e.push) <= StackLimit
  BY DEF Allowed, Legal
<1>2. e.pop \in Seq(TypeKinds) /\ Len(e.pop) = p /\ Len(e.push) = q
  BY DEF Moves
<1> HIDE DEF e
<1>3. types \in Seq(TypeKinds) /\ Len(types) = Len(Values) /\ Len(Values) \in Nat
  BY FrameIs
<1>4. p \in 0..Len(Values) /\ Len(Values) - p + q <= StackLimit
  BY <1>1, <1>2, <1>3
<1>5. ASSUME NEW k \in 1..p  PROVE types[Len(Values) - p + k] = e.pop[k] /\ Len(Values) - p + k \in 1..Len(Values)
  <2> DEFINE a == Len(Values) - p + 1
             b == Len(Values)
  <2>1. a \in 1..(Len(types) + 1) /\ b \in (a - 1)..Len(types) /\ k \in 1..(b - a + 1) /\ a + k - 1 = Len(Values) - p + k
    BY <1>3, <1>4
  <2>2. Len(Values) - p + k \in 1..Len(Values)
    BY <1>3, <1>4
  <2>3. SubSeq(types, a, b) = e.pop
    BY <1>1, <1>2, <1>3
  <2> HIDE DEF a, b
  <2>4. SubSeq(types, a, b)[k] = types[a + k - 1]
    BY <1>3, <2>1, SubSeqProperties
  <2> QED  BY <2>1, <2>2, <2>3, <2>4
<1>6. ASSUME NEW k \in 1..p  PROVE Values[Len(Values) - p + k].t = e.pop[k]
  BY <1>5, FrameIs
<1>7. ASSUME p > 0  PROVE Values # <<>> /\ Last(types) = Last(e.pop) /\ calculate_tos_type(types) = calculate_tos_type(e.pop)
  <2>1. p \in 1..p /\ Len(Values) - p + p = Len(Values) /\ Len(Values) # 0 /\ Len(types) # 0 /\ Len(e.pop) # 0
    BY <1>2, <1>3, <1>4, <1>7
  <2>2. types[Len(types)] = e.pop[Len(e.pop)]
    BY <1>2, <1>3, <1>5, <2>1
  <2>3. types # <<>> /\ e.pop # <<>> /\ Values # <<>>
    BY <1>2, <1>3, <2>1, EmptySeq, FrameIs
  <2>4. Last(types) = Last(e.pop)
    BY <2>2 DEF Last
  <2> QED  BY <2>3, <2>4 DEF calculate_tos_type
<1> QED  BY <1>4, <1>6, <1>7 DEF e

(* The stack after an instruction that leaves these values on it. *)
After(i, pushed) == Drop(Values, Len(Effect(i).pop)) \o pushed

LEMMA AfterIs ==
  ASSUME IInv, NEW i, Allowed(i, types), i.op \notin StackKinds, NEW p \in Nat, NEW q \in Nat,
         Moves(Effect(i), p, q), NEW pushed, StackOk(pushed), KindsOf(pushed) = Effect(i).push
  PROVE  LET r == After(i, pushed)
         IN  /\ StackOk(r) /\ Len(r) = Len(Values) - p + q /\ Len(pushed) = q
             /\ KindsOf(r) = TypesAfter(i) /\ WordsAfter(i, pushed) = WordsOfValues(r)
             /\ \A k \in 1..(Len(Values) - p) : r[k] = Values[k]
             /\ \A k \in 1..q : r[Len(Values) - p + k] = pushed[k]
<1>1. Len(Effect(i).pop) = p /\ Len(Effect(i).push) = q
  BY DEF Moves
<1>2. p \in 0..Len(Values) /\ Len(Values) - p + q <= StackLimit
  BY OperandsAre
<1>3. Len(pushed) = q
  BY <1>1, StackIs
<1>4. After(i, pushed) = Drop(Values, p) \o pushed
  BY <1>1 DEF After
<1>5. Grown(After(i, pushed), Values, p, pushed)
  <2>1. StackOk(Values) /\ Len(Values) - p + Len(pushed) <= StackLimit
    BY <1>2, <1>3, FrameIs
  <2> QED  BY <1>2, <1>4, <2>1, StackAfter
<1>6. TypesAfter(i) = Drop(types, p) \o Effect(i).push
  BY <1>1 DEF TypesAfter, analyze_instruction, Analyzed, StackKinds
<1>7. WordsAfter(i, pushed) = WordsOfValues(After(i, pushed))
  BY DEF WordsAfter, After
<1>8. types = KindsOf(Values)
  BY FrameIs
<1> QED  BY <1>3, <1>5, <1>6, <1>7, <1>8 DEF Grown

(* A new instruction is reached. *)
LEMMA NewStep ==
  ASSUME IInv, NEW r, StackOk(r), words' = WordsOfValues(r), types' = KindsOf(r), Ready(r, m'),
         insn' = NoInsn, phase' = "run", n' = n + 1, gc' = gc, ok' = TRUE
  PROVE  IInv'
<1>1. Values' = r
  BY ValuesBack DEF Values, StackOk
<1>2. gc' \in Nat /\ n' \in Nat
  BY DEF IInv
<1>3. StackOk(Values)' /\ (words = WordsOfValues(Values))' /\ (types = KindsOf(Values))'
  BY <1>1
<1>4. Holds(Values, m)' /\ (m'.table = "V" => types' = <<>>)
  BY <1>1, StackIs DEF Ready
<1>5. Running(insn, m, types)'
  BY <1>4 DEF Running
<1>6. phase' \in Phases
  BY DEF Phases
<1> QED  BY <1>2, <1>3, <1>4, <1>5, <1>6 DEF IInv

LEMMA DoneStep ==
  ASSUME IInv, NEW i, InHand(i, types), NEW used, NEW pushed, StackOk(pushed),
         KindsOf(pushed) = Effect(i).push, NEW mm, Done(i, used, pushed, mm),
         RightOperands(used), Ready(After(i, pushed), mm)
  PROVE  IInv'
<1>1. Allowed(i, types) /\ i.op \notin StackKinds
  BY DEF InHand
<1>2. PICK p \in Nat, q \in 0..1 : Moves(Effect(i), p, q)
  BY <1>1, EffectIs
<1>3. q \in Nat
  OBVIOUS
<1>4. /\ StackOk(After(i, pushed)) /\ KindsOf(After(i, pushed)) = TypesAfter(i)
      /\ WordsAfter(i, pushed) = WordsOfValues(After(i, pushed))
  BY <1>1, <1>2, <1>3, AfterIs
<1>5. /\ types' = TypesAfter(i) /\ words' = WordsAfter(i, pushed) /\ m' = mm
      /\ insn' = NoInsn /\ phase' = "run" /\ n' = n + 1 /\ gc' = gc
  BY DEF Done
<1>6. ok' = TRUE
  BY DEF Done, IInv
<1> QED  BY <1>4, <1>5, <1>6, NewStep


-----------------------------------------------------------------------------
(***************************************************************************)
(* The operands a handler reads.                                           *)
(***************************************************************************)
LEMMA RightNone == RightOperands(<<>>)
BY DEF RightOperands

LEMMA RightOne ==
  ASSUME NEW x, x = Top(Values, 1)
  PROVE  RightOperands(<<x>>)
<1>1. Len(<<x>>) = 1 /\ DOMAIN <<x>> = 1..1 /\ <<x>>[1] = x
  OBVIOUS
<1>2. ASSUME NEW k \in 1..1  PROVE Top(<<x>>, k) = Top(Values, k)
  <2>1. k = 1
    OBVIOUS
  <2> QED  BY <1>1, <2>1 DEF Top
<1> QED  BY <1>1, <1>2 DEF RightOperands

LEMMA RightTwo ==
  ASSUME NEW x, x = Top(Values, 2), NEW y, y = Top(Values, 1)
  PROVE  RightOperands(<<x, y>>)
<1> DEFINE u == <<x, y>>
<1>1. Len(u) = 2 /\ u[1] = x /\ u[2] = y
  OBVIOUS
<1> HIDE DEF u
<1>2. ASSUME NEW k \in 1..2  PROVE Top(u, k) = Top(Values, k)
  <2>1. k = 1 \/ k = 2
    OBVIOUS
  <2>2. Top(u, 1) = y /\ Top(u, 2) = x
    BY <1>1 DEF Top
  <2> QED  BY <2>1, <2>2
<1>3. RightOperands(u)
  BY <1>1, <1>2 DEF RightOperands
<1> QED  BY <1>3 DEF u

LEMMA RightThree ==
  ASSUME NEW x, x = Top(Values, 3), NEW y, y = Top(Values, 2), NEW z, z = Top(Values, 1)
  PROVE  RightOperands(<<x, y, z>>)
<1> DEFINE u == <<x, y, z>>
<1>1. Len(u) = 3 /\ u[1] = x /\ u[2] = y /\ u[3] = z
  OBVIOUS
<1> HIDE DEF u
<1>2. ASSUME NEW k \in 1..3  PROVE Top(u, k) = Top(Values, k)
  <2>1. k = 1 \/ k = 2 \/ k = 3
    OBVIOUS
  <2>2. Top(u, 1) = z /\ Top(u, 2) = y /\ Top(u, 3) = x
    BY <1>1 DEF Top
  <2> QED  BY <2>1, <2>2
<1>3. RightOperands(u)
  BY <1>1, <1>2 DEF RightOperands
<1> QED  BY <1>3 DEF u

(* What the handlers find in the register and below it. *)
LEMMA CachedIs ==
  ASSUME NEW s, StackOk(s), NEW mm, Holds(s, mm), mm.table # "V"
  PROVE  /\ s # <<>> /\ Len(s) >= 1 /\ mm.tos = Top(s, 1) /\ ValueOk(Top(s, 1))
         /\ \A k \in 2..Len(s) : At(mm, k) = Top(s, k)
<1>1. /\ s # <<>> /\ mm.tos = s[Len(s)] /\ mm.sp = Len(s) /\ SlotsHold(s, mm, Len(s) - 1)
      /\ Len(s) \in Nat
  BY StackIs DEF Holds, RegisterOk
<1>2. Len(s) \in 1..StackLimit /\ ValueOk(s[Len(s)])
  BY <1>1, TosIs
<1>3. Len(s) >= 1 /\ Len(s) - 1 + 1 = Len(s)
  BY <1>1, <1>2
<1>4. ASSUME NEW k \in 2..Len(s)  PROVE At(mm, k) = Top(s, k)
  <2>1. Len(s) - k + 1 \in 1..(Len(s) - 1)
    BY <1>1
  <2> QED  BY <1>1, <2>1 DEF At, Top, SlotsHold
<1>5. mm.tos = Top(s, 1)
  BY <1>1, <1>3 DEF Top
<1> QED  BY <1>1, <1>2, <1>3, <1>4, <1>5

LEMMA InMemory ==
  ASSUME NEW s, StackOk(s), NEW mm, Flushed(s, mm)
  PROVE  \A k \in 1..Len(s) : At(mm, k) = Top(s, k)
<1>1. mm.sp = Len(s) /\ SlotsHold(s, mm, Len(s)) /\ Len(s) \in Nat
  BY StackIs DEF Flushed
<1>2. ASSUME NEW k \in 1..Len(s)  PROVE At(mm, k) = Top(s, k)
  <2>1. Len(s) - k + 1 \in 1..Len(s)
    BY <1>1
  <2> QED  BY <1>1, <2>1 DEF At, Top, SlotsHold
<1> QED  BY <1>2

-----------------------------------------------------------------------------
(***************************************************************************)
(* The shapes of the handlers that finish their instruction.               *)
(***************************************************************************)
LEMMA ResultIs ==
  ASSUME NEW i, NEW p, Moves(Effect(i), p, 1)
  PROVE  Result(i) \in TypeKinds /\ Effect(i).push = <<Result(i)>>
<1> DEFINE e == Effect(i).push
<1>1. e \in Seq(TypeKinds) /\ Len(e) = 1
  BY DEF Moves
<1> HIDE DEF e
<1>2. e[1] \in TypeKinds
  BY <1>1, ElementOfSeq
<1>3. <<e[1]>> \in Seq(TypeKinds) /\ Len(<<e[1]>>) = 1
  BY <1>2
<1>4. e = <<e[1]>>
  BY <1>1, <1>3, SeqEqual
<1> QED  BY <1>2, <1>4 DEF e, Result

(* The stack below the operands, and one value on it, in the register. *)
LEMMA OneOnTop ==
  ASSUME IInv, NEW i, InHand(i, types), NEW p \in Nat, Moves(Effect(i), p, 1), NEW v, ValueOk(v),
         v.t = Result(i), NEW mm \in Machine, mm.sp = Len(Values) - p + 1, SlotsHold(Values, mm, Len(Values) - p)
  PROVE  /\ StackOk(<<v>>) /\ KindsOf(<<v>>) = Effect(i).push
         /\ Ready(After(i, <<v>>), NEXT_of(mm, Result(i), v))
<1>1. Allowed(i, types) /\ i.op \notin StackKinds
  BY DEF InHand
<1>2. StackOk(<<v>>) /\ KindsOf(<<v>>) = Effect(i).push
  BY NoneAndOne, ResultIs
<1> DEFINE r == After(i, <<v>>)
<1>3. /\ StackOk(r) /\ Len(r) = Len(Values) - p + 1
      /\ \A k \in 1..(Len(Values) - p) : r[k] = Values[k]
      /\ \A k \in 1..1 : r[Len(Values) - p + k] = <<v>>[k]
  BY <1>1, <1>2, AfterIs
<1>4. p \in 0..Len(Values) /\ Len(Values) \in Nat
  BY <1>1, OperandsAre, FrameIs
<1> HIDE DEF r
<1>5. r[Len(r)] = v
  <2>1. 1 \in 1..1 /\ <<v>>[1] = v
    OBVIOUS
  <2> QED  BY <1>3, <2>1
<1>6. r # <<>>
  <2>1. Len(r) # 0
    BY <1>3, <1>4
  <2> QED  BY <2>1, <1>3, StackIs, EmptySeq
<1>7. SlotsHold(r, mm, Len(r) - 1)
  <2>1. Len(r) - 1 = Len(Values) - p
    BY <1>3, <1>4
  <2> QED  BY <1>3, <2>1 DEF SlotsHold
<1>8. Ready(r, NEXT_of(mm, v.t, v))
  BY <1>3, <1>5, <1>6, <1>7, NextReady
<1> QED  BY <1>2, <1>8 DEF r

LEMMA PushStep ==
  ASSUME IInv, NEW i, InHand(i, types), Moves(Effect(i), 0, 1), NEW mm, Flushed(Values, mm),
         Done(i, <<>>, <<Fresh(Result(i))>>, PushedTop(mm, Result(i), Fresh(Result(i))))
  PROVE  IInv'
<1> DEFINE v == Fresh(Result(i))
           q == [mm EXCEPT !.sp = mm.sp + 1]
<1>1. ValueOk(v) /\ v.t = Result(i)
  BY ResultIs, FreshIs
<1>2. mm \in Machine /\ mm.sp = Len(Values) /\ SlotsHold(Values, mm, Len(Values))
  BY DEF Flushed
<1>3. Len(Values) \in Nat /\ Len(Values) + 1 \in 0..StackLimit /\ Len(Values) - 0 = Len(Values)
  <2>1. Len(Values) - 0 + 1 <= StackLimit
    BY OperandsAre DEF InHand
  <2> QED  BY <2>1, FrameIs, LimitIs
<1> HIDE DEF v
<1>4. q \in Machine /\ q.sp = Len(Values) + 1 /\ q.mem = mm.mem
  BY <1>2, <1>3, MoveIs
<1>5. PushedTop(mm, Result(i), v) = NEXT_of(q, Result(i), v)
  BY <1>2 DEF PushedTop, Machine
<1> HIDE DEF q
<1>6. /\ StackOk(<<v>>) /\ KindsOf(<<v>>) = Effect(i).push
      /\ Ready(After(i, <<v>>), NEXT_of(q, Result(i), v))
  <2>1. q.sp = Len(Values) - 0 + 1 /\ SlotsHold(Values, q, Len(Values) - 0)
    BY <1>2, <1>3, <1>4 DEF SlotsHold
  <2> QED  BY <1>1, <1>4, <2>1, OneOnTop
<1>7. Done(i, <<>>, <<v>>, NEXT_of(q, Result(i), v))
  BY <1>5 DEF v
<1> QED  BY <1>6, <1>7, RightNone, DoneStep

LEMMA UnaryStep ==
  ASSUME IInv, NEW i, InHand(i, types), Moves(Effect(i), 1, 1), Holds(Values, m), m.table # "V", NEW v, ValueOk(v),
         v.t = Result(i), Done(i, <<m.tos>>, <<v>>, NEXT_of(m, Result(i), v))
  PROVE  IInv'
<1>1. m.tos = Top(Values, 1) /\ ValueOk(Top(Values, 1)) /\ Len(Values) >= 1 /\ Len(Values) \in Nat
  BY CachedIs, FrameIs
<1>2. RightOperands(<<m.tos>>)
  BY <1>1, RightOne
<1>3. m \in Machine /\ m.sp = Len(Values) - 1 + 1 /\ SlotsHold(Values, m, Len(Values) - 1)
  BY <1>1 DEF Holds
<1>4. /\ StackOk(<<v>>) /\ KindsOf(<<v>>) = Effect(i).push
      /\ Ready(After(i, <<v>>), NEXT_of(m, Result(i), v))
  BY <1>3, OneOnTop
<1> QED  BY <1>2, <1>4, DoneStep

LEMMA BinaryStep ==
  ASSUME IInv, NEW i, InHand(i, types), Moves(Effect(i), 2, 1), Holds(Values, m), m.table # "V",
         NEW v, ValueOk(v), v.t = Result(i), Binary(i, v)
  PROVE  IInv'
<1>1. m.tos = Top(Values, 1) /\ Len(Values) >= 1 /\ \A k \in 2..Len(Values) : At(m, k) = Top(Values, k)
  BY CachedIs, FrameIs
<1>2. 2 \in 0..Len(Values) /\ Len(Values) \in Nat
  BY OperandsAre, FrameIs DEF InHand
<1>3. At(m, 2) = Top(Values, 2)
  BY <1>1, <1>2
<1>4. RightOperands(<<At(m, 2), m.tos>>)
  BY <1>1, <1>3, RightTwo
<1>5. m \in Machine /\ m.sp = Len(Values) /\ SlotsHold(Values, m, Len(Values) - 1)
  BY DEF Holds
<1> DEFINE q == Popped(m, 1)
<1>6. q \in Machine /\ q.sp = Len(Values) - 1 /\ q.mem = m.mem
  BY <1>2, <1>5, PoppedIs
<1> HIDE DEF q
<1>7. q.sp = Len(Values) - 2 + 1 /\ SlotsHold(Values, q, Len(Values) - 2)
  <2>1. \A k \in 1..(Len(Values) - 2) : k \in 1..(Len(Values) - 1)
    BY <1>2
  <2> QED  BY <1>2, <1>5, <1>6, <2>1 DEF SlotsHold
<1>8. /\ StackOk(<<v>>) /\ KindsOf(<<v>>) = Effect(i).push
      /\ Ready(After(i, <<v>>), NEXT_of(q, Result(i), v))
  BY <1>6, <1>7, OneOnTop
<1>9. Done(i, <<At(m, 2), m.tos>>, <<v>>, NEXT_of(q, Result(i), v))
  BY DEF Binary, q
<1> QED  BY <1>4, <1>8, <1>9, DoneStep

(* The stack below the operands, reloaded from memory. *)
LEMMA PopStep ==
  ASSUME IInv, NEW i, InHand(i, types), NEW p \in Nat, Moves(Effect(i), p, 0), NEW used,
         RightOperands(used), NEW mm \in Machine, mm.sp = Len(Values) - p,
         SlotsHold(Values, mm, Len(Values) - p),
         Done(i, used, <<>>, STACK_POLYMORPHIC(mm, TypesAfter(i)))
  PROVE  IInv'
<1>1. Allowed(i, types) /\ i.op \notin StackKinds
  BY DEF InHand
<1>2. StackOk(<<>>) /\ KindsOf(<<>>) = Effect(i).push
  <2>1. Effect(i).push = <<>>
    BY EmptySeq DEF Moves
  <2> QED  BY <2>1, NoneAndOne
<1> DEFINE r == After(i, <<>>)
<1>3. /\ StackOk(r) /\ Len(r) = Len(Values) - p + 0 /\ KindsOf(r) = TypesAfter(i)
      /\ \A k \in 1..(Len(Values) - p) : r[k] = Values[k]
  BY <1>1, <1>2, AfterIs
<1>4. p \in 0..Len(Values) /\ Len(Values) \in Nat
  BY <1>1, OperandsAre, FrameIs
<1>5. Len(r) = Len(Values) - p
  BY <1>3, <1>4
<1> HIDE DEF r
<1>6. Flushed(r, mm)
  BY <1>3, <1>5 DEF Flushed, SlotsHold
<1>7. Ready(r, STACK_POLYMORPHIC(mm, TypesAfter(i)))
  BY <1>3, <1>6, PolyReady
<1> QED  BY <1>2, <1>7, DoneStep DEF r

LEMMA ConsumeStep ==
  ASSUME IInv, NEW i, InHand(i, types), NEW p \in Nat, Moves(Effect(i), p, 0), p > 0, Holds(Values, m),
         NEW used, Len(used) = p, RightOperands(used), Consume(i, used)
  PROVE  IInv'
<1>1. p \in 0..Len(Values) /\ Len(Values) \in Nat
  BY OperandsAre, FrameIs DEF InHand
<1>2. m \in Machine /\ m.sp = Len(Values) /\ SlotsHold(Values, m, Len(Values) - 1)
  <2>1. SlotsHold(Values, m, Len(Values)) => SlotsHold(Values, m, Len(Values) - 1)
    <3>1. \A k \in 1..(Len(Values) - 1) : k \in 1..Len(Values)
      BY <1>1
    <3> QED  BY <3>1 DEF SlotsHold
  <2> QED  BY <2>1 DEF Holds
<1> DEFINE q == Popped(m, p)
<1>3. q \in Machine /\ q.sp = Len(Values) - p /\ q.mem = m.mem
  BY <1>1, <1>2, PoppedIs
<1> HIDE DEF q
<1>4. SlotsHold(Values, q, Len(Values) - p)
  <2>1. \A k \in 1..(Len(Values) - p) : k \in 1..(Len(Values) - 1)
    BY <1>1
  <2> QED  BY <1>2, <1>3, <2>1 DEF SlotsHold
<1>5. Done(i, used, <<>>, STACK_POLYMORPHIC(q, TypesAfter(i)))
  BY DEF Consume, q
<1> QED  BY <1>3, <1>4, <1>5, PopStep

LEMMA ConsumeOne ==
  ASSUME IInv, NEW i, InHand(i, types), Moves(Effect(i), 1, 0), Holds(Values, m), m.table # "V",
         Consume(i, <<m.tos>>)
  PROVE  IInv'
<1>1. m.tos = Top(Values, 1) /\ ValueOk(Top(Values, 1))
  BY CachedIs, FrameIs
<1>2. RightOperands(<<m.tos>>)
  BY <1>1, RightOne
<1>3. Len(<<m.tos>>) = 1 /\ 1 \in Nat /\ 1 > 0
  OBVIOUS
<1> QED  BY <1>2, <1>3, ConsumeStep

LEMMA ConsumeTwo ==
  ASSUME IInv, NEW i, InHand(i, types), Moves(Effect(i), 2, 0), Holds(Values, m), m.table # "V",
         Consume(i, <<At(m, 2), m.tos>>)
  PROVE  IInv'
<1>1. m.tos = Top(Values, 1) /\ \A k \in 2..Len(Values) : At(m, k) = Top(Values, k)
  BY CachedIs, FrameIs
<1>2. 2 \in 0..Len(Values) /\ Len(Values) \in Nat
  BY OperandsAre, FrameIs DEF InHand
<1>3. At(m, 2) = Top(Values, 2)
  BY <1>1, <1>2
<1>4. RightOperands(<<At(m, 2), m.tos>>)
  BY <1>1, <1>3, RightTwo
<1>5. Len(<<At(m, 2), m.tos>>) = 2 /\ 2 \in Nat /\ 2 > 0
  OBVIOUS
<1> QED  BY <1>4, <1>5, ConsumeStep

LEMMA ConsumeThree ==
  ASSUME IInv, NEW i, InHand(i, types), Moves(Effect(i), 3, 0), Holds(Values, m), m.table # "V",
         Consume(i, <<At(m, 3), At(m, 2), m.tos>>)
  PROVE  IInv'
<1>1. m.tos = Top(Values, 1) /\ \A k \in 2..Len(Values) : At(m, k) = Top(Values, k)
  BY CachedIs, FrameIs
<1>2. 3 \in 0..Len(Values) /\ Len(Values) \in Nat
  BY OperandsAre, FrameIs DEF InHand
<1>3. At(m, 2) = Top(Values, 2) /\ At(m, 3) = Top(Values, 3)
  <2>1. 2 \in 2..Len(Values) /\ 3 \in 2..Len(Values)
    BY <1>2
  <2> QED  BY <1>1, <2>1
<1>4. RightOperands(<<At(m, 3), At(m, 2), m.tos>>)
  BY <1>1, <1>3, RightThree
<1>5. Len(<<At(m, 3), At(m, 2), m.tos>>) = 3 /\ 3 \in Nat /\ 3 > 0
  OBVIOUS
<1> QED  BY <1>4, <1>5, ConsumeStep


-----------------------------------------------------------------------------
(***************************************************************************)
(* The instruction about to be executed.                                   *)
(***************************************************************************)
StackInsn(i) ==
  /\ insn = NoInsn /\ Allowed(i, types) /\ i.op \in StackKinds
  /\ i.kind = analyze_instruction(i, types, StackLimit).kind

LEMMA RewrittenIs ==
  ASSUME NEW j \in Insns
  PROVE  /\ Rewritten(j).op = j.op /\ Rewritten(j).args = j.args /\ Rewritten(j).ret = j.ret
         /\ Rewritten(j).kind = analyze_instruction(j, types, StackLimit).kind
         /\ Rewritten(j) = [op |-> j.op, kind |-> Rewritten(j).kind, args |-> j.args, ret |-> j.ret]
         /\ Insn(j.op, j.args, j.ret) = j /\ j.kind = j.op
<1>1. j = Insn(j.op, j.args, j.ret)
  BY CodeAssumption
<1>2. j = [op |-> j.op, kind |-> j.op, args |-> j.args, ret |-> j.ret]
  BY <1>1 DEF Insn
<1> DEFINE k == analyze_instruction(j, types, StackLimit).kind
<1>3. Rewritten(j) = [j EXCEPT !.kind = k]
  BY DEF Rewritten
<1> HIDE DEF k
<1>4. [j EXCEPT !.kind = k] = [op |-> j.op, kind |-> k, args |-> j.args, ret |-> j.ret]
  BY <1>2
<1>5. j.kind = j.op
  BY <1>2
<1> QED  BY <1>1, <1>3, <1>4, <1>5 DEF k

LEMMA SameInsn ==
  ASSUME NEW i, NEW j, i.op = j.op, i.args = j.args, i.ret = j.ret, NEW ts
  PROVE  /\ Effect(i) = Effect(j) /\ Legal(i, ts, StackLimit) = Legal(j, ts, StackLimit)
         /\ analyze_instruction(i, ts, StackLimit) = analyze_instruction(j, ts, StackLimit)
<1>1. PoolEffect(i) = PoolEffect(j)
  BY DEF PoolEffect
<1>2. Effect(i) = Effect(j)
  BY <1>1 DEF Effect
<1>3. Legal(i, ts, StackLimit) = Legal(j, ts, StackLimit)
  BY <1>2 DEF Legal
<1>4. PopsWhatItWants(i, ts) = PopsWhatItWants(j, ts)
  BY <1>2 DEF PopsWhatItWants
<1>5. analyze_instruction(i, ts, StackLimit) = analyze_instruction(j, ts, StackLimit)
  BY <1>2, <1>4 DEF analyze_instruction
<1> QED  BY <1>2, <1>3, <1>5

LEMMA CandidateIs ==
  ASSUME insn = NoInsn, NEW i \in Candidates
  PROVE  InHand(i, types) \/ StackInsn(i)
<1>1. PICK j \in Insns : i = Rewritten(j) /\ Legal(j, types, StackLimit)
  BY DEF Candidates
<1>2. /\ i.op = j.op /\ i.args = j.args /\ i.ret = j.ret
      /\ i.kind = analyze_instruction(j, types, StackLimit).kind
      /\ i = [op |-> i.op, kind |-> i.kind, args |-> i.args, ret |-> i.ret]
      /\ Insn(i.op, i.args, i.ret) = j
  BY <1>1, RewrittenIs
<1>3. /\ Legal(i, types, StackLimit)
      /\ analyze_instruction(i, types, StackLimit) = analyze_instruction(j, types, StackLimit)
  BY <1>1, <1>2, SameInsn
<1>4. Allowed(i, types)
  BY <1>2, <1>3 DEF Allowed
<1>5. CASE i.op \in StackKinds
  BY <1>1, <1>2, <1>3, <1>4, <1>5 DEF StackInsn
<1>6. CASE i.op \notin StackKinds
  <2>1. analyze_instruction(i, types, StackLimit).kind = i.op
    BY <1>6 DEF analyze_instruction, Analyzed, StackKinds
  <2> QED  BY <1>1, <1>2, <1>3, <1>4, <1>6, <2>1 DEF InHand
<1> QED  BY <1>5, <1>6

LEMMA DupKinds ==
  ASSUME NEW kind \in StackKinds \ {"pop", "pop2", "swap"}, NEW ts
  PROVE  AnalyzeDup(kind, ts).kind \in StackKinds \ {"pop", "pop2", "swap"}
<1>1. DupCase(kind, ts) = Rejected \/ DupCase(kind, ts).kind \in StackKinds \ {"pop", "pop2", "swap"}
  BY DEF DupCase, DupOf, StackKinds
<1> QED  BY <1>1 DEF AnalyzeDup, Analyzed

LEMMA StackKindIs ==
  ASSUME NEW i, StackInsn(i)
  PROVE  /\ i.kind \in StackKinds
         /\ i.op \notin {"pop", "pop2", "swap"} => i.kind \notin {"pop", "pop2", "swap"}
         /\ i.op \in {"pop", "pop2"} => i.kind \in {"pop", "pop2"}
         /\ i.op = "swap" => i.kind = "swap"
<1>1. i.op \in StackKinds /\ i.kind = analyze_instruction(i, types, StackLimit).kind
  BY DEF StackInsn
<1>2. CASE i.op \in StackKinds \ {"pop", "pop2", "swap"}
  <2>1. i.kind = AnalyzeDup(i.op, types).kind
    BY <1>1, <1>2 DEF analyze_instruction, AnalyzeDup, Analyzed
  <2> QED  BY <1>2, <2>1, DupKinds
<1>3. CASE i.op \in {"pop", "pop2"}
  <2>1. i.kind = AnalyzePop(i.op, types).kind
    BY <1>1, <1>3 DEF analyze_instruction, AnalyzePop, Analyzed
  <2>2. AnalyzePop(i.op, types).kind \in {"pop", "pop2"}
    BY <1>3 DEF AnalyzePop, Analyzed
  <2> QED  BY <1>3, <2>1, <2>2 DEF StackKinds
<1>4. CASE i.op = "swap"
  BY <1>1, <1>4 DEF analyze_instruction, AnalyzeSwap, Analyzed, StackKinds
<1> QED  BY <1>1, <1>2, <1>3, <1>4

LEMMA CurrentIs ==
  ASSUME IInv, phase = "run", NEW i \in Current
  PROVE  InHand(i, types) \/ StackInsn(i)
<1>1. CASE insn = NoInsn
  BY <1>1, CandidateIs DEF Current
<1>2. CASE insn # NoInsn
  BY <1>2 DEF Current, IInv, Running
<1> QED  BY <1>1, <1>2

(* An instruction dispatched to a handler that is not one of the stack instructions. *)
LEMMA DispatchIs ==
  ASSUME IInv, NEW i \in Current, NEW kinds, Dispatch(i, kinds)
  PROVE  /\ phase = "run" /\ i.kind \in kinds /\ Holds(Values, m) /\ Running(insn, m, types)
         /\ i.kind \notin StackKinds => InHand(i, types)
         /\ i.kind \notin Nullary => m.table # "V"
<1>1. phase = "run" /\ i.kind \in kinds /\ i.kind \in bytecode_tables[m.table]
  BY DEF Dispatch
<1>2. Holds(Values, m) /\ Running(insn, m, types)
  BY <1>1 DEF IInv
<1>3. i.kind \notin StackKinds => InHand(i, types)
  BY <1>1, CurrentIs, StackKindIs
<1>4. i.kind \notin Nullary => m.table # "V"
  BY <1>1, TablesAre DEF jmp_table_void
<1> QED  BY <1>1, <1>2, <1>3, <1>4

Pushing == DOMAIN LoadEffects \union StaticGets
Mapping == {"ineg", "lneg", "i2l", "i2f", "i2d", "l2i", "l2f", "l2d", "fneg", "f2i", "f2l", "f2d",
            "dneg", "d2i", "d2l", "d2f", "sqrt", "arraylength", "instanceof_resolved",
            "checkcast_resolved"} \union FieldGets
Combining == {"iadd", "ishr", "ladd", "lshl", "fadd", "fcmpl", "dadd", "dcmpl", "pow", "idiv", "ldiv",
              "lcmp", "iaload", "laload", "faload", "daload", "aaload"}
TakingOne == DOMAIN StoreEffects
             \union {"tableswitch", "lookupswitch", "ifeq", "ifnull", "monitorenter", "monitorexit"}
             \union StaticPuts \union (DOMAIN EndEffects \ {"return"})
TakingTwo == {"if_icmpeq", "if_acmpeq"} \union FieldPuts
TakingThree == {"iastore", "lastore", "fastore", "dastore", "aastore"}

LEMMA ShapesOfKinds ==
  ASSUME NEW i, NEW ts, InHand(i, ts)
  PROVE  /\ i.kind \in Pushing => Moves(Effect(i), 0, 1)
         /\ i.kind \in Skipping => Moves(Effect(i), 0, 0)
         /\ i.kind \in Mapping => Moves(Effect(i), 1, 1)
         /\ i.kind \in Combining => Moves(Effect(i), 2, 1)
         /\ i.kind \in TakingOne => Moves(Effect(i), 1, 0)
         /\ i.kind \in TakingTwo => Moves(Effect(i), 2, 0)
         /\ i.kind \in TakingThree => Moves(Effect(i), 3, 0)
<1> DEFINE P(p, q) == i.kind \in PlainKinds /\ Takes(i.kind, p, q) => Moves(Effect(i), p, q)
<1>1. P(0, 0) /\ P(0, 1) /\ P(1, 1) /\ P(2, 1) /\ P(1, 0) /\ P(2, 0) /\ P(3, 0)
  BY PlainMoves
<1>2. i.kind \in Pushing => Moves(Effect(i), 0, 1)
  BY <1>1, KindMoves, LoadTakes, PlainDomain, Groups DEF Pushing
<1>3. i.kind \in Skipping => Moves(Effect(i), 0, 0)
  BY <1>1, BranchTakes, PlainDomain, Groups DEF Skipping
<1>4. i.kind \in Mapping => Moves(Effect(i), 1, 1)
  <2>1. i.kind \in {"sqrt", "instanceof_resolved", "checkcast_resolved"} \union FieldGets => Moves(Effect(i), 1, 1)
    BY KindMoves
  <2>2. i.kind \in {"ineg", "lneg", "fneg", "dneg"} => Moves(Effect(i), 1, 1)
    BY <1>1, ArithmeticTakes, PlainDomain, Groups
  <2>3. i.kind \in {"i2l", "i2f", "i2d", "l2i", "l2f", "l2d", "f2i", "f2l", "f2d", "d2i", "d2l", "d2f"} =>
          Moves(Effect(i), 1, 1)
    BY <1>1, ConversionTakes, PlainDomain, Groups
  <2>4. i.kind = "arraylength" => Moves(Effect(i), 1, 1)
    BY <1>1, ArrayTakes, PlainDomain, Groups
  <2> QED  BY <2>1, <2>2, <2>3, <2>4 DEF Mapping
<1>5. i.kind \in Combining => Moves(Effect(i), 2, 1)
  <2>1. i.kind = "pow" => Moves(Effect(i), 2, 1)
    BY KindMoves
  <2>2. i.kind \in {"iadd", "ishr", "ladd", "lshl", "fadd", "fcmpl", "dadd", "dcmpl", "idiv", "ldiv", "lcmp"} =>
          Moves(Effect(i), 2, 1)
    BY <1>1, ArithmeticTakes, PlainDomain, Groups
  <2>3. i.kind \in {"iaload", "laload", "faload", "daload", "aaload"} => Moves(Effect(i), 2, 1)
    BY <1>1, ArrayTakes, PlainDomain, Groups
  <2> QED  BY <2>1, <2>2, <2>3 DEF Combining
<1>6. i.kind \in TakingOne => Moves(Effect(i), 1, 0)
  <2>1. i.kind \in StaticPuts => Moves(Effect(i), 1, 0)
    BY KindMoves
  <2>2. i.kind \in DOMAIN StoreEffects => Moves(Effect(i), 1, 0)
    BY <1>1, StoreTakes, PlainDomain, Groups
  <2>3. i.kind \in {"tableswitch", "lookupswitch", "ifeq", "ifnull"} => Moves(Effect(i), 1, 0)
    BY <1>1, BranchTakes, PlainDomain, Groups
  <2>4. i.kind \in {"monitorenter", "monitorexit"} => Moves(Effect(i), 1, 0)
    BY <1>1, ObjectTakes, PlainDomain, Groups
  <2>5. i.kind \in DOMAIN EndEffects \ {"return"} => Moves(Effect(i), 1, 0)
    BY <1>1, EndTakes, PlainDomain, Groups
  <2> QED  BY <2>1, <2>2, <2>3, <2>4, <2>5 DEF TakingOne
<1>7. i.kind \in TakingTwo => Moves(Effect(i), 2, 0)
  BY <1>1, KindMoves, BranchTakes, PlainDomain, Groups DEF TakingTwo
<1>8. i.kind \in TakingThree => Moves(Effect(i), 3, 0)
  BY <1>1, ArrayTakes, PlainDomain, Groups DEF TakingThree
<1> QED  BY <1>2, <1>3, <1>4, <1>5, <1>6, <1>7, <1>8

LEMMA NotNullary ==
  /\ (Mapping \union Combining \union TakingOne \union TakingTwo \union TakingThree) \intersect Nullary = {}
  /\ (Pushing \union Skipping \union Mapping \union Combining \union TakingOne \union TakingTwo
      \union TakingThree) \intersect StackKinds = {}
  /\ Skipping \subseteq Nullary /\ Pushing \subseteq Nullary
<1>1. /\ DOMAIN LoadEffects \subseteq Nullary /\ Skipping \subseteq Nullary /\ StaticGets \subseteq Nullary
  BY DEF Nullary, Skipping, StaticGets
<1>2. Mapping \intersect Nullary = {} /\ Combining \intersect Nullary = {}
  BY Groups DEF Mapping, Combining, Nullary, FieldGets
<1>3. TakingOne \intersect Nullary = {}
  BY Groups DEF TakingOne, Nullary, StaticPuts
<1>4. TakingTwo \intersect Nullary = {} /\ TakingThree \intersect Nullary = {}
  BY Groups DEF TakingTwo, TakingThree, Nullary, FieldPuts
<1>5. /\ Pushing \intersect StackKinds = {} /\ Skipping \intersect StackKinds = {}
      /\ Mapping \intersect StackKinds = {} /\ Combining \intersect StackKinds = {}
  BY Groups DEF Pushing, Skipping, Mapping, Combining, StackKinds, StaticGets, FieldGets
<1>6. /\ TakingOne \intersect StackKinds = {} /\ TakingTwo \intersect StackKinds = {}
      /\ TakingThree \intersect StackKinds = {}
  BY Groups DEF TakingOne, TakingTwo, TakingThree, StackKinds, StaticPuts, FieldPuts
<1> QED  BY <1>1, <1>2, <1>3, <1>4, <1>5, <1>6 DEF Pushing


-----------------------------------------------------------------------------
(***************************************************************************)
(* The shapes of the handlers that do not finish their instruction.        *)
(***************************************************************************)
LEMMA EnterStep ==
  ASSUME IInv, NEW i, NEW mm, NEW where \in Phases \ {"run", "left", "crashed"}, Enter(i, mm, where),
         Away(Values, mm, where, i), where \notin Raised => InHand(i, types) /\ KindFits(where, i)
  PROVE  IInv'
<1>1. /\ m' = mm /\ insn' = i /\ phase' = where /\ types' = types /\ words' = words /\ ok' = ok
      /\ gc' = gc /\ n' = n
  BY DEF Enter
<1>2. Values' = Values
  BY <1>1 DEF Values
<1>3. /\ phase' \in Phases /\ gc' \in Nat /\ n' \in Nat /\ ok' = TRUE
      /\ StackOk(Values)' /\ (words = WordsOfValues(Values))' /\ (types = KindsOf(Values))'
  BY <1>1, <1>2 DEF IInv
<1>4. Away(Values, m, phase, insn)'
  BY <1>1, <1>2
<1>5. phase' \notin {"run", "left", "crashed"} \union Raised => (InHand(insn, types) /\ KindFits(phase, insn))'
  BY <1>1
<1> QED  BY <1>1, <1>3, <1>4, <1>5 DEF IInv

LEMMA LeftStep ==
  ASSUME IInv, phase' \in {"left", "crashed"}, UNCHANGED <<types, words, gc, n>>, ok' = TRUE
  PROVE  IInv'
<1>1. Values' = Values
  BY DEF Values
<1>2. phase' \in Phases
  BY DEF Phases
<1>3. /\ gc' \in Nat /\ n' \in Nat
      /\ StackOk(Values)' /\ (words = WordsOfValues(Values))' /\ (types = KindsOf(Values))'
  BY <1>1 DEF IInv
<1> QED  BY <1>2, <1>3 DEF IInv

LEMMA RunStep ==
  ASSUME IInv, NEW i, NEW mm, Enter(i, mm, "run"), Holds(Values, mm), Running(i, mm, types)
  PROVE  IInv'
<1>1. /\ m' = mm /\ insn' = i /\ phase' = "run" /\ types' = types /\ words' = words /\ ok' = ok
      /\ gc' = gc /\ n' = n
  BY DEF Enter
<1>2. Values' = Values
  BY <1>1 DEF Values
<1>3. /\ phase' \in Phases /\ gc' \in Nat /\ n' \in Nat /\ ok' = TRUE
      /\ StackOk(Values)' /\ (words = WordsOfValues(Values))' /\ (types = KindsOf(Values))'
  BY <1>1, <1>2 DEF IInv, Phases
<1>4. Holds(Values, m)' /\ Running(insn, m, types)'
  BY <1>1, <1>2
<1> QED  BY <1>1, <1>3, <1>4 DEF IInv

LEMMA AwayFlushed ==
  ASSUME NEW s, StackOk(s), NEW mm, Holds(s, mm), Flushed(s, mm), NEW where, NEW i,
         Reloads(where, i) => mm.table # "V", UpToDate(s, where, i) \in Int, UpToDate(s, where, i) <= Len(s)
  PROVE  Away(s, mm, where, i)
<1>1. /\ mm \in Machine /\ mm.sp = Len(s) /\ RegisterOk(s, mm) /\ (mm.table # "V" => mm.tos = s[Len(s)])
  BY DEF Holds
<1>2. Len(s) \in Nat
  BY StackIs
<1>3. \A k \in 1..UpToDate(s, where, i) : k \in 1..Len(s)
  BY <1>2
<1>4. SlotsHold(s, mm, UpToDate(s, where, i))
  BY <1>3 DEF Flushed, SlotsHold
<1> QED  BY <1>1, <1>4 DEF Away

LEMMA AwayRaw ==
  ASSUME NEW s, StackOk(s), NEW mm, Holds(s, mm), mm.table # "V", NEW where, NEW i,
         Unspilled(where, i), where # "call"
  PROVE  Away(s, mm, where, i)
<1>1. /\ mm \in Machine /\ mm.sp = Len(s) /\ RegisterOk(s, mm) /\ mm.tos = s[Len(s)]
      /\ SlotsHold(s, mm, Len(s) - 1)
  BY DEF Holds
<1>2. UpToDate(s, where, i) = Len(s) - 1
  BY DEF UpToDate
<1> QED  BY <1>1, <1>2 DEF Away

LEMMA UpToDateIs ==
  ASSUME NEW s, Len(s) \in Nat, NEW where, NEW i, where # "call"
  PROVE  UpToDate(s, where, i) \in Int /\ UpToDate(s, where, i) <= Len(s)
BY DEF UpToDate

LEMMA RaiseStep ==
  ASSUME IInv, Holds(Values, m), NEW i, Raise(i)
  PROVE  IInv'
<1> DEFINE q == SPILL(m)
<1>1. StackOk(Values) /\ Len(Values) \in Nat
  BY FrameIs
<1>2. Flushed(Values, q) /\ Holds(Values, q)
  BY <1>1, SpillIs
<1>3. Enter(i, q, "throw")
  BY DEF Raise
<1> HIDE DEF q
<1>4. ~Reloads("throw", i)
  BY DEF Reloads
<1>5. Away(Values, q, "throw", i)
  BY <1>1, <1>2, <1>4, UpToDateIs, AwayFlushed
<1>6. "throw" \in Phases \ {"run", "left", "crashed"} /\ "throw" \in Raised
  BY DEF Phases, Raised
<1> QED  BY <1>3, <1>5, <1>6, EnterStep

LEMMA RaiseVoidStep ==
  ASSUME IInv, Holds(Values, m), m.table # "V", NEW i, RaiseVoid(i)
  PROVE  IInv'
<1>1. StackOk(Values)
  BY FrameIs
<1>2. Away(Values, m, "throw_void", i)
  BY <1>1, AwayRaw DEF Unspilled
<1>3. "throw_void" \in Phases \ {"run", "left", "crashed"} /\ "throw_void" \in Raised
  BY DEF Phases, Raised
<1> QED  BY <1>2, <1>3, EnterStep DEF RaiseVoid

-----------------------------------------------------------------------------
(***************************************************************************)
(* The handlers that stay in the interpreter.                              *)
(***************************************************************************)
LEMMA LoadHandlers ==
  ASSUME IInv, NEW i \in Current, const_impl(i) \/ load_impl(i) \/ getstatic_X_impl(i)
  PROVE  IInv'
<1>1. PICK kinds \in SUBSET Pushing : Load(i, kinds)
  <2>1. /\ {"aconst_null", "iconst", "lconst", "fconst", "dconst"} \in SUBSET Pushing
        /\ {"iload", "lload", "fload", "dload", "aload"} \in SUBSET Pushing
        /\ {"getstatic_I", "getstatic_J", "getstatic_F", "getstatic_D", "getstatic_L"} \in SUBSET Pushing
    BY Groups DEF Pushing, StaticGets
  <2> QED  BY <2>1 DEF const_impl, load_impl, getstatic_X_impl
<1>2. Dispatch(i, kinds)
  BY <1>1 DEF Load
<1>3. i.kind \in Pushing /\ i.kind \notin StackKinds
  BY <1>2, DispatchIs, NotNullary
<1>4. InHand(i, types) /\ Holds(Values, m)
  BY <1>2, <1>3, DispatchIs
<1>5. Moves(Effect(i), 0, 1)
  BY <1>3, <1>4, ShapesOfKinds
<1>6. Flushed(Values, FORWARD_TO_NULLARY(m))
  BY <1>4, FrameIs, ForwardIs
<1>7. Done(i, <<>>, <<Fresh(Result(i))>>,
           PushedTop(FORWARD_TO_NULLARY(m), Result(i), Fresh(Result(i))))
  BY <1>1 DEF Load
<1> QED  BY <1>4, <1>5, <1>6, <1>7, PushStep

LEMMA SkipStep ==
  ASSUME IInv, NEW i, InHand(i, types), Moves(Effect(i), 0, 0), Ready(Values, m), Done(i, <<>>, <<>>, m)
  PROVE  IInv'
<1>1. Allowed(i, types) /\ i.op \notin StackKinds
  BY DEF InHand
<1>2. Effect(i).push = <<>> /\ Len(Effect(i).pop) = 0
  BY EmptySeq DEF Moves
<1>3. StackOk(<<>>) /\ KindsOf(<<>>) = Effect(i).push
  BY <1>2, NoneAndOne
<1> DEFINE r == After(i, <<>>)
<1>4. /\ StackOk(r) /\ Len(r) = Len(Values) - 0 + 0
      /\ \A k \in 1..(Len(Values) - 0) : r[k] = Values[k]
  BY <1>1, <1>3, AfterIs
<1>5. Values \in Seq(Val) /\ Len(Values) \in Nat
  BY FrameIs
<1> HIDE DEF r
<1>6. r = Values
  <2>1. r \in Seq(Val) /\ Len(r) = Len(Values) /\ Len(Values) - 0 = Len(Values)
    BY <1>4, <1>5, StackIs
  <2> QED  BY <1>4, <1>5, <2>1, SeqEqual
<1> QED  BY <1>3, <1>6, RightNone, DoneStep DEF r

LEMMA SkipHandlers ==
  ASSUME IInv, NEW i \in Current, nop_impl(i) \/ iinc_impl(i) \/ goto_impl(i)
  PROVE  IInv'
<1>1. PICK kinds \in SUBSET Skipping : Skip(i, kinds)
  BY DEF nop_impl, iinc_impl, goto_impl, Skipping
<1>2. Dispatch(i, kinds) /\ Done(i, <<>>, <<>>, m)
  BY <1>1 DEF Skip
<1>3. i.kind \in Skipping /\ i.kind \notin StackKinds
  BY <1>2, DispatchIs, NotNullary
<1>4. InHand(i, types) /\ Holds(Values, m) /\ Running(insn, m, types)
  BY <1>2, <1>3, DispatchIs
<1>5. Moves(Effect(i), 0, 0)
  BY <1>3, <1>4, ShapesOfKinds
<1>6. insn # NoInsn => i = insn
  BY DEF Current
<1>7. Ready(Values, m)
  BY <1>3, <1>4, <1>6, FrameIs DEF Running, Ready
<1> QED  BY <1>2, <1>4, <1>5, <1>7, SkipStep

LEMMA UnaryHandlers ==
  ASSUME IInv, NEW i \in Current,
         INTEGER_UN_OP(i) \/ FLOAT_UN_OP(i) \/ sqrt_impl(i) \/ arraylength_impl(i) \/ getfield_X_impl(i)
  PROVE  IInv'
<1>1. PICK kinds \in SUBSET Mapping : Unary(i, kinds) \/ Deref(i, kinds)
  <2>1. /\ {"ineg", "lneg", "i2l", "i2f", "i2d", "l2i", "l2f", "l2d"} \in SUBSET Mapping
        /\ {"fneg", "f2i", "f2l", "f2d", "dneg", "d2i", "d2l", "d2f"} \in SUBSET Mapping
        /\ {"sqrt"} \in SUBSET Mapping /\ {"arraylength"} \in SUBSET Mapping
        /\ {"getfield_I", "getfield_J", "getfield_F", "getfield_D", "getfield_L"} \in SUBSET Mapping
    BY DEF Mapping, FieldGets
  <2> QED  BY <2>1 DEF INTEGER_UN_OP, FLOAT_UN_OP, sqrt_impl, arraylength_impl, getfield_X_impl
<1>2. Dispatch(i, kinds)
  BY <1>1 DEF Unary, Deref
<1>3. i.kind \in Mapping /\ i.kind \notin StackKinds /\ i.kind \notin Nullary
  BY <1>2, DispatchIs, NotNullary
<1>4. InHand(i, types) /\ Holds(Values, m) /\ m.table # "V"
  BY <1>2, <1>3, DispatchIs
<1>5. Moves(Effect(i), 1, 1)
  BY <1>3, <1>4, ShapesOfKinds
<1>6. CASE RaiseVoid(i)
  BY <1>4, <1>6, RaiseVoidStep
<1>7. CASE Done(i, <<m.tos>>, <<Fresh(Result(i))>>, NEXT_of(m, Result(i), Fresh(Result(i))))
  <2>1. ValueOk(Fresh(Result(i))) /\ Fresh(Result(i)).t = Result(i)
    BY <1>5, ResultIs, FreshIs
  <2> QED  BY <1>4, <1>5, <1>7, <2>1, UnaryStep
<1> QED  BY <1>1, <1>6, <1>7 DEF Unary, Deref

LEMMA BinaryHandlers ==
  ASSUME IInv, NEW i \in Current,
         INTEGER_BIN_OP(i) \/ FLOAT_BIN_OP(i) \/ pow_impl(i) \/ div_impl(i) \/ ARRAY_LOAD(i)
  PROVE  IInv'
<1>1. PICK kinds \in SUBSET Combining : Dispatch(i, kinds)
  <2>1. /\ {"iadd", "ishr", "ladd", "lshl"} \in SUBSET Combining
        /\ {"fadd", "fcmpl", "dadd", "dcmpl"} \in SUBSET Combining
        /\ {"pow"} \in SUBSET Combining /\ {"idiv", "ldiv", "lcmp"} \in SUBSET Combining
        /\ {"iaload", "laload", "faload", "daload", "aaload"} \in SUBSET Combining
    BY DEF Combining
  <2> QED  BY <2>1 DEF INTEGER_BIN_OP, FLOAT_BIN_OP, pow_impl, div_impl, ARRAY_LOAD
<1>2. i.kind \in Combining /\ i.kind \notin StackKinds /\ i.kind \notin Nullary
  BY <1>1, DispatchIs, NotNullary
<1>3. InHand(i, types) /\ Holds(Values, m) /\ m.table # "V"
  BY <1>1, <1>2, DispatchIs
<1>4. Moves(Effect(i), 2, 1)
  BY <1>2, <1>3, ShapesOfKinds
<1>5. ValueOk(Fresh(Result(i))) /\ Fresh(Result(i)).t = Result(i)
  BY <1>4, ResultIs, FreshIs
<1>6. CASE Binary(i, Fresh(Result(i)))
  BY <1>2, <1>3, <1>4, <1>5, <1>6, BinaryStep
<1>7. CASE Raise(i)
  BY <1>3, <1>7, RaiseStep
<1>8. CASE RaiseVoid(i)
  BY <1>3, <1>8, RaiseVoidStep
<1> QED  BY <1>6, <1>7, <1>8 DEF INTEGER_BIN_OP, FLOAT_BIN_OP, pow_impl, div_impl, ARRAY_LOAD

LEMMA ConsumingHandlers ==
  ASSUME IInv, NEW i \in Current,
         \/ ARRAY_STORE(i) \/ aastore_impl(i) \/ putfield_X_impl(i) \/ putstatic_X_impl(i)
         \/ store_impl(i) \/ switch_impl(i) \/ MAKE_INT_BRANCH_AGAINST_0(i) \/ MAKE_INT_BRANCH(i)
         \/ if_acmp_impl(i) \/ monitorexit_impl(i)
  PROVE  IInv'
<1>2. ASSUME NEW kinds, kinds \subseteq TakingOne \union TakingTwo \union TakingThree, Dispatch(i, kinds)
      PROVE  /\ i.kind \in kinds /\ InHand(i, types) /\ Holds(Values, m) /\ m.table # "V"
  <2>1. i.kind \in kinds /\ i.kind \notin StackKinds /\ i.kind \notin Nullary
    BY <1>2, DispatchIs, NotNullary
  <2> QED  BY <1>2, <2>1, DispatchIs
<1>3. ASSUME NEW kinds, kinds \subseteq TakingOne, Dispatch(i, kinds), RaiseVoid(i) \/ Consume(i, <<m.tos>>)
      PROVE  IInv'
  <2>1. i.kind \in TakingOne /\ InHand(i, types) /\ Holds(Values, m) /\ m.table # "V"
    BY <1>2, <1>3
  <2>2. Moves(Effect(i), 1, 0)
    BY <2>1, ShapesOfKinds
  <2> QED  BY <1>3, <2>1, <2>2, ConsumeOne, RaiseVoidStep
<1>4. ASSUME NEW kinds, kinds \subseteq TakingTwo, Dispatch(i, kinds),
             RaiseVoid(i) \/ Consume(i, <<At(m, 2), m.tos>>)
      PROVE  IInv'
  <2>1. i.kind \in TakingTwo /\ InHand(i, types) /\ Holds(Values, m) /\ m.table # "V"
    BY <1>2, <1>4
  <2>2. Moves(Effect(i), 2, 0)
    BY <2>1, ShapesOfKinds, NotNullary
  <2> QED  BY <1>4, <2>1, <2>2, ConsumeTwo, RaiseVoidStep
<1>5. ASSUME NEW kinds, kinds \subseteq TakingThree, Dispatch(i, kinds),
             RaiseVoid(i) \/ Raise(i) \/ Consume(i, <<At(m, 3), At(m, 2), m.tos>>)
      PROVE  IInv'
  <2>1. i.kind \in TakingThree /\ InHand(i, types) /\ Holds(Values, m) /\ m.table # "V"
    BY <1>2, <1>5
  <2>2. Moves(Effect(i), 3, 0)
    BY <2>1, ShapesOfKinds, NotNullary
  <2> QED  BY <1>5, <2>1, <2>2, ConsumeThree, RaiseStep, RaiseVoidStep
<1>6. /\ {"iastore", "lastore", "fastore", "dastore"} \subseteq TakingThree /\ {"aastore"} \subseteq TakingThree
      /\ {"putfield_I", "putfield_J", "putfield_F", "putfield_D", "putfield_L"} \subseteq TakingTwo
      /\ {"if_icmpeq"} \subseteq TakingTwo /\ {"if_acmpeq"} \subseteq TakingTwo
  BY DEF TakingTwo, TakingThree, FieldPuts
<1>7. /\ {"putstatic_I", "putstatic_J", "putstatic_F", "putstatic_D", "putstatic_L"} \subseteq TakingOne
      /\ {"tableswitch", "lookupswitch"} \subseteq TakingOne /\ {"ifeq", "ifnull"} \subseteq TakingOne
      /\ {"monitorexit"} \subseteq TakingOne /\ DOMAIN StoreEffects \subseteq TakingOne
  BY DEF TakingOne, StaticPuts
<1>8. CASE ARRAY_STORE(i) \/ aastore_impl(i)
  BY <1>5, <1>6, <1>8 DEF ARRAY_STORE, aastore_impl
<1>9. CASE putfield_X_impl(i) \/ MAKE_INT_BRANCH(i) \/ if_acmp_impl(i)
  BY <1>4, <1>6, <1>9 DEF putfield_X_impl, MAKE_INT_BRANCH, if_acmp_impl
<1>10. CASE \/ putstatic_X_impl(i) \/ store_impl(i) \/ switch_impl(i) \/ MAKE_INT_BRANCH_AGAINST_0(i)
            \/ monitorexit_impl(i)
  BY <1>3, <1>7, <1>10 DEF putstatic_X_impl, store_impl, switch_impl, MAKE_INT_BRANCH_AGAINST_0, monitorexit_impl
<1> QED  BY <1>8, <1>9, <1>10


-----------------------------------------------------------------------------
(***************************************************************************)
(* The handlers that leave the interpreter, and come back to it.           *)
(***************************************************************************)
Elsewhere == {"resolve", "alloc", "monitor", "call", "suspended"}

LEMMA NotNone ==
  ASSUME NEW i, NEW ts, InHand(i, ts)
  PROVE  i # NoInsn
<1>1. i.op \in PlainKinds \union StackKinds \union FieldKinds \union InvokeKinds
  BY AllowedIs DEF InHand
<1>2. "none" \notin PlainKinds \union StackKinds \union FieldKinds \union InvokeKinds
  BY PlainDomain, Groups DEF StackKinds, FieldKinds, InvokeKinds
<1>3. NoInsn.op = "none"
  BY DEF NoInsn, Insn
<1> QED  BY <1>1, <1>2, <1>3

LEMMA ReachIs ==
  ASSUME IInv, NEW i, InHand(i, types), NEW where
  PROVE  UpToDate(Values, where, i) \in Int /\ UpToDate(Values, where, i) <= Len(Values)
<1>1. PICK p \in Nat, q \in 0..1 : Moves(Effect(i), p, q)
  BY EffectIs DEF InHand
<1>2. Len(Effect(i).pop) \in Nat /\ Len(Values) \in Nat
  BY <1>1, FrameIs DEF Moves
<1> QED  BY <1>2 DEF UpToDate

LEMMA FlushedEnter ==
  ASSUME IInv, NEW i, InHand(i, types), NEW mm, Holds(Values, mm), Flushed(Values, mm),
         NEW where \in Elsewhere, KindFits(where, i), Reloads(where, i) => mm.table # "V", Enter(i, mm, where)
  PROVE  IInv'
<1>1. Away(Values, mm, where, i)
  BY ReachIs, FrameIs, AwayFlushed
<1>2. where \in Phases \ {"run", "left", "crashed"}
  BY DEF Elsewhere, Phases
<1> QED  BY <1>1, <1>2, EnterStep

LEMMA SpillEnter ==
  ASSUME IInv, NEW i, InHand(i, types), Holds(Values, m), NEW where \in Elsewhere, KindFits(where, i),
         Reloads(where, i) => m.table # "V", Enter(i, SPILL(m), where)
  PROVE  IInv'
<1> DEFINE q == SPILL(m)
<1>1. Flushed(Values, q) /\ Holds(Values, q) /\ q.table = m.table
  BY FrameIs, SpillIs
<1> HIDE DEF q
<1>2. Enter(i, q, where)
  BY DEF q
<1> QED  BY <1>1, <1>2, FlushedEnter

LEMMA ForwardEnter ==
  ASSUME IInv, NEW i, InHand(i, types), Holds(Values, m), NEW where \in Elsewhere, KindFits(where, i),
         ~Reloads(where, i), Enter(i, FORWARD_TO_NULLARY(m), where)
  PROVE  IInv'
<1> DEFINE q == FORWARD_TO_NULLARY(m)
<1>1. Flushed(Values, q) /\ Holds(Values, q)
  BY FrameIs, ForwardIs
<1> HIDE DEF q
<1>2. Enter(i, q, where)
  BY DEF q
<1> QED  BY <1>1, <1>2, FlushedEnter

LEMMA RawEnter ==
  ASSUME IInv, NEW i, InHand(i, types), Holds(Values, m), m.table # "V", NEW where \in {"resolve", "alloc"},
         KindFits(where, i), i.kind \in {"anewarray", "anewarray_resolved"}, Enter(i, m, where)
  PROVE  IInv'
<1>1. StackOk(Values) /\ Unspilled(where, i) /\ where # "call"
  BY FrameIs DEF Unspilled
<1>2. Away(Values, m, where, i)
  BY <1>1, AwayRaw
<1>3. where \in Phases \ {"run", "left", "crashed"}
  BY DEF Phases
<1> QED  BY <1>2, <1>3, EnterStep

(* The opcode behind a kind that a handler has set. *)
LEMMA OpOfKind ==
  ASSUME NEW i, NEW ts, InHand(i, ts)
  PROVE  /\ i.kind = "new_resolved" => i.op = "new"
         /\ i.kind = "anewarray_resolved" => i.op = "anewarray"
         /\ i.kind = "checkcast_resolved" => i.op = "checkcast"
         /\ i.kind = "instanceof_resolved" => i.op = "instanceof"
         /\ i.kind \in {"invokestatic_resolved", "invokespecial_resolved", "invokecallsite", "invokesigpoly",
                        "invokevtable_monomorphic", "invokevtable_polymorphic", "invokeitable_monomorphic",
                        "invokeitable_polymorphic"} => i.op \in InvokeKinds
         /\ i.kind \in {"invokevtable_monomorphic", "invokeitable_monomorphic"} =>
              i.op \in {"invokevirtual", "invokeinterface"}
         /\ i.kind \in {"invokevirtual", "invokeinterface"} => i.op \in {"invokevirtual", "invokeinterface"}
         /\ i.kind \in {"invokestatic", "invokespecial", "invokedynamic"} => i.op = i.kind
<1> DEFINE New == {"new_resolved", "anewarray_resolved", "checkcast_resolved", "instanceof_resolved",
                   "invokestatic_resolved", "invokespecial_resolved", "invokecallsite", "invokesigpoly",
                   "invokevtable_monomorphic", "invokevtable_polymorphic", "invokeitable_monomorphic",
                   "invokeitable_polymorphic"}
<1>1. i.op \in PlainKinds \union FieldKinds \union InvokeKinds
  BY AllowedIs DEF InHand
<1>2. New \intersect (PlainKinds \union FieldKinds \union InvokeKinds) = {}
  BY PlainDomain, Groups DEF FieldKinds, InvokeKinds
<1>3. i.kind \in New => i.kind # i.op
  BY <1>1, <1>2
<1>4. i.kind = "new_resolved" => i.op = "new"
  BY <1>3, BecomesIs DEF StaticGets, StaticPuts, FieldGets, FieldPuts, Virtual
<1>5. i.kind = "anewarray_resolved" => i.op = "anewarray"
  BY <1>3, BecomesIs DEF StaticGets, StaticPuts, FieldGets, FieldPuts, Virtual
<1>6. i.kind = "checkcast_resolved" => i.op = "checkcast"
  BY <1>3, BecomesIs DEF StaticGets, StaticPuts, FieldGets, FieldPuts, Virtual
<1>7. i.kind = "instanceof_resolved" => i.op = "instanceof"
  BY <1>3, BecomesIs DEF StaticGets, StaticPuts, FieldGets, FieldPuts, Virtual
<1>8. i.kind \in {"invokestatic_resolved", "invokespecial_resolved", "invokecallsite", "invokesigpoly",
                  "invokevtable_monomorphic", "invokevtable_polymorphic", "invokeitable_monomorphic",
                  "invokeitable_polymorphic"} => i.op \in InvokeKinds
  BY <1>3, BecomesIs DEF StaticGets, StaticPuts, FieldGets, FieldPuts, Virtual, InvokeKinds
<1>9. i.kind \in {"invokevtable_monomorphic", "invokeitable_monomorphic"} =>
        i.op \in {"invokevirtual", "invokeinterface"}
  BY <1>3, BecomesIs DEF StaticGets, StaticPuts, FieldGets, FieldPuts
<1>10. /\ i.kind \in {"invokevirtual", "invokeinterface"} => i.op \in {"invokevirtual", "invokeinterface"}
       /\ i.kind \in {"invokestatic", "invokespecial", "invokedynamic"} => i.op = i.kind
  BY BecomesIs DEF StaticGets, StaticPuts, FieldGets, FieldPuts, Virtual
<1> QED  BY <1>4, <1>5, <1>6, <1>7, <1>8, <1>9, <1>10

(* The slot of the receiver. *)
LEMMA ReceiverSlot ==
  ASSUME IInv, NEW i, InHand(i, types), i.kind \in {"invokevirtual", "invokeinterface"}
  PROVE  Len(Effect(i).pop) \in Nat /\ Len(Values) - Len(Effect(i).pop) + 1 \in 1..Len(Values)
<1>1. Allowed(i, types) /\ i.op \in {"invokevirtual", "invokeinterface"} /\ i.op \in InvokeKinds
      /\ i.op \notin StackKinds
  BY OpOfKind DEF InHand, InvokeKinds
<1>2. Len(Receiver(i.op)) = 1
  BY <1>1 DEF Receiver
<1>3. Len(i.args) \in Nat /\ Len(Effect(i).pop) = 1 + Len(i.args)
  BY <1>1, <1>2, AllowedIs, InvokeEffects, LenProperties
<1>4. PICK p \in Nat, r \in 0..1 : Moves(Effect(i), p, r)
  BY <1>1, EffectIs
<1>5. r \in Nat /\ p = Len(Effect(i).pop)
  BY <1>4 DEF Moves
<1>6. p \in 0..Len(Values) /\ Len(Values) \in Nat
  BY <1>1, <1>4, <1>5, OperandsAre, FrameIs
<1> QED  BY <1>3, <1>5, <1>6

(* The receiver is kept in hand while the method is resolved; the stack is in memory. *)
LEMMA HoldingStep ==
  ASSUME IInv, NEW i, InHand(i, types), Holds(Values, m), i.kind \in {"invokevirtual", "invokeinterface"},
         KindFits("resolve", i), NEW kinds, ResolveHolding(i, kinds)
  PROVE  IInv'
<1> DEFINE q == FORWARD_TO_NULLARY(m)
           k == m.sp - Len(Effect(i).pop) + 1
           h == [q EXCEPT !.tos = HeldReceiver(i, q)]
<1>1. StackOk(Values) /\ Flushed(Values, q) /\ Holds(Values, q) /\ q.table = "V"
  BY FrameIs, ForwardIs
<1>2. Enter(i, h, "resolve")
  BY DEF ResolveHolding
<1>4. q \in Machine /\ q.sp = Len(Values) /\ m.sp = Len(Values) /\ Len(Values) \in Nat /\ Len(Values) <= StackLimit
  BY <1>1, FrameIs DEF Flushed, Holds
<1>5. k \in 1..StackLimit
  BY <1>4, ReceiverSlot, LimitIs
<1>6. HeldReceiver(i, q) = q.mem[k] /\ q.mem[k] \in Val
  BY <1>4, <1>5, MachineIs DEF HeldReceiver, At
<1> HIDE DEF q, k
<1>7. h \in Machine /\ h.sp = q.sp /\ h.mem = q.mem /\ h.table = "V"
  BY <1>1, <1>4, <1>6 DEF Machine
<1> HIDE DEF h
<1>8. ~Reloads("resolve", i) /\ ~Unspilled("resolve", i)
  BY DEF Reloads, Unspilled
<1>9. SlotsHold(Values, h, UpToDate(Values, "resolve", i))
  BY <1>1, <1>7, <1>8 DEF Flushed, SlotsHold, UpToDate
<1>10. Away(Values, h, "resolve", i)
  BY <1>4, <1>7, <1>8, <1>9 DEF Away, RegisterOk
<1>11. "resolve" \in Phases \ {"run", "left", "crashed"}
  BY DEF Phases
<1> QED  BY <1>2, <1>10, <1>11, EnterStep

LEMMA ResolveHandlers ==
  ASSUME IInv, NEW i \in Current,
         \/ getstatic_impl(i) \/ putfield_impl(i) \/ new_impl(i) \/ invokestatic_impl(i)
         \/ invokevirtual_impl(i) \/ invokespecial_impl(i) \/ invokeinterface_impl(i)
         \/ invokedynamic_impl(i) \/ getfield_impl(i) \/ checkcast_impl(i) \/ instanceof_impl(i)
         \/ anewarray_impl(i)
  PROVE  IInv'
<1> DEFINE Spilled == {"getfield", "checkcast", "instanceof"}
           Forward == Resolvable \ (Spilled \union {"anewarray"})
<1>1. \A k \in Resolvable : k \notin StackKinds
  BY DEF Resolvable, StackKinds
<1>2. (Spilled \union {"anewarray"}) \intersect Nullary = {}
  BY Groups DEF Nullary
<1>3. ASSUME NEW kinds, kinds \subseteq Resolvable, Dispatch(i, kinds)
      PROVE  /\ i.kind \in kinds /\ InHand(i, types) /\ Holds(Values, m) /\ KindFits("resolve", i)
             /\ i.kind \notin Nullary => m.table # "V"
  <2>1. i.kind \in kinds /\ i.kind \notin StackKinds
    BY <1>1, <1>3, DispatchIs
  <2>2. KindFits("resolve", i)
    BY <1>3, <2>1 DEF KindFits
  <2> QED  BY <1>3, <2>1, <2>2, DispatchIs
<1>4. "resolve" \in Elsewhere
  BY DEF Elsewhere
<1>a. ASSUME NEW kinds, kinds \subseteq {"invokevirtual", "invokeinterface"}, ResolveHolding(i, kinds)  PROVE IInv'
  <2>1. {"invokevirtual", "invokeinterface"} \subseteq Resolvable
    BY DEF Resolvable
  <2>2. Dispatch(i, kinds) /\ kinds \subseteq Resolvable
    BY <1>a, <2>1 DEF ResolveHolding
  <2>3. i.kind \in {"invokevirtual", "invokeinterface"} /\ InHand(i, types) /\ Holds(Values, m) /\ KindFits("resolve", i)
    BY <1>3, <1>a, <2>2
  <2> QED  BY <1>a, <2>3, HoldingStep
<1>5. ASSUME NEW kinds, kinds \subseteq Forward, ResolveForwarded(i, kinds)  PROVE IInv'
  <2>1. kinds \subseteq Resolvable /\ Dispatch(i, kinds) /\ Enter(i, FORWARD_TO_NULLARY(m), "resolve")
    BY <1>5 DEF ResolveForwarded
  <2>2. i.kind \in Forward
    BY <1>3, <1>5, <2>1
  <2>3. ~Reloads("resolve", i)
    BY <2>2 DEF Reloads
  <2> QED  BY <1>3, <1>4, <2>1, <2>3, ForwardEnter
<1>6. ASSUME NEW kinds, kinds \subseteq Spilled, ResolveSpilled(i, kinds)  PROVE IInv'
  <2>1. kinds \subseteq Resolvable /\ Dispatch(i, kinds) /\ Enter(i, SPILL(m), "resolve")
    BY <1>6 DEF ResolveSpilled, Resolvable
  <2>2. i.kind \in Spilled
    BY <1>3, <1>6, <2>1
  <2> QED  BY <1>2, <1>3, <1>4, <2>1, <2>2, SpillEnter
<1>7. CASE anewarray_impl(i)
  <2>1. Dispatch(i, {"anewarray"}) /\ Enter(i, m, "resolve")
    BY <1>7 DEF anewarray_impl
  <2>2. {"anewarray"} \subseteq Resolvable
    BY DEF Resolvable
  <2>3. i.kind = "anewarray" /\ InHand(i, types) /\ Holds(Values, m) /\ KindFits("resolve", i) /\ m.table # "V"
    BY <1>2, <1>3, <2>1, <2>2
  <2> QED  BY <2>1, <2>3, RawEnter
<1>8. CASE getfield_impl(i) \/ checkcast_impl(i) \/ instanceof_impl(i)
  BY <1>6, <1>8 DEF getfield_impl, checkcast_impl, instanceof_impl
<1>9. CASE \/ getstatic_impl(i) \/ putfield_impl(i) \/ new_impl(i) \/ invokestatic_impl(i)
           \/ invokevirtual_impl(i) \/ invokespecial_impl(i) \/ invokeinterface_impl(i)
           \/ invokedynamic_impl(i)
  <2>1. /\ {"getstatic", "putstatic"} \subseteq Forward /\ {"putfield"} \subseteq Forward
        /\ {"new"} \subseteq Forward /\ {"invokestatic"} \subseteq Forward
        /\ {"invokespecial"} \subseteq Forward /\ {"invokedynamic"} \subseteq Forward
    BY DEF Resolvable
  <2> HIDE DEF Forward
  <2>2. CASE invokevirtual_impl(i) \/ invokeinterface_impl(i)
    BY <1>a, <2>2 DEF invokevirtual_impl, invokeinterface_impl
  <2>3. CASE \/ getstatic_impl(i) \/ putfield_impl(i) \/ new_impl(i) \/ invokestatic_impl(i)
             \/ invokespecial_impl(i) \/ invokedynamic_impl(i)
    BY <1>5, <2>1, <2>3 DEF getstatic_impl, putfield_impl, new_impl, invokestatic_impl,
         invokespecial_impl, invokedynamic_impl
  <2> QED  BY <1>9, <2>2, <2>3
<1> QED  BY <1>7, <1>8, <1>9

LEMMA InvokeHandlers ==
  ASSUME IInv, NEW i \in Current,
         \/ invokestatic_resolved_impl(i) \/ invokespecial_resolved_impl(i)
         \/ invokeitable_vtable_monomorphic_impl(i) \/ invokeitable_polymorphic_impl(i)
         \/ invokevtable_polymorphic_impl(i) \/ invokesigpoly_impl(i) \/ invokecallsite_impl(i)
  PROVE  IInv'
<1> DEFINE Kinds == {"invokestatic_resolved", "invokespecial_resolved", "invokecallsite", "invokesigpoly",
                     "invokevtable_monomorphic", "invokevtable_polymorphic", "invokeitable_monomorphic",
                     "invokeitable_polymorphic"}
<1>1. PICK kinds \in SUBSET Kinds : Invoke(i, kinds)
  <2>1. /\ {"invokestatic_resolved"} \in SUBSET Kinds /\ {"invokespecial_resolved"} \in SUBSET Kinds
        /\ {"invokevtable_monomorphic", "invokeitable_monomorphic"} \in SUBSET Kinds
        /\ {"invokeitable_polymorphic"} \in SUBSET Kinds /\ {"invokevtable_polymorphic"} \in SUBSET Kinds
        /\ {"invokesigpoly"} \in SUBSET Kinds /\ {"invokecallsite"} \in SUBSET Kinds
    OBVIOUS
  <2> HIDE DEF Kinds
  <2> QED  BY <2>1 DEF invokestatic_resolved_impl, invokespecial_resolved_impl,
             invokeitable_vtable_monomorphic_impl, invokeitable_polymorphic_impl,
             invokevtable_polymorphic_impl, invokesigpoly_impl, invokecallsite_impl
<1>2. Dispatch(i, kinds) /\ Enter(i, FORWARD_TO_NULLARY(m), "call")
  BY <1>1 DEF Invoke
<1>3. Kinds \intersect StackKinds = {}
  BY DEF StackKinds
<1>4. i.kind \in Kinds /\ i.kind \notin StackKinds
  BY <1>2, <1>3, DispatchIs
<1>5. InHand(i, types) /\ Holds(Values, m)
  BY <1>2, <1>4, DispatchIs
<1>6. i.op \in InvokeKinds
  BY <1>4, <1>5, OpOfKind
<1>7. KindFits("call", i) /\ ~Reloads("call", i) /\ "call" \in Elsewhere
  BY <1>6 DEF KindFits, Reloads, Elsewhere
<1> QED  BY <1>2, <1>5, <1>7, ForwardEnter

(* The same instruction with another kind. *)
LEMMA KindChange ==
  ASSUME NEW i, NEW ts, InHand(i, ts), NEW k, k \in {i.op} \union Becomes(i)
  PROVE  LET j == [i EXCEPT !.kind = k]
         IN  InHand(j, ts) /\ j.kind = k /\ j.op = i.op /\ j # NoInsn
<1> DEFINE j == [i EXCEPT !.kind = k]
<1>1. /\ Insn(i.op, i.args, i.ret) \in Insns /\ Legal(i, ts, StackLimit) /\ i.op \notin StackKinds
      /\ i = [op |-> i.op, kind |-> i.kind, args |-> i.args, ret |-> i.ret]
  BY DEF InHand, Allowed
<1>2. j = [op |-> i.op, kind |-> k, args |-> i.args, ret |-> i.ret]
  BY <1>1
<1>3. j.op = i.op /\ j.kind = k /\ j.args = i.args /\ j.ret = i.ret
  BY <1>2
<1> HIDE DEF j
<1>4. Legal(j, ts, StackLimit)
  BY <1>1, <1>3, SameInsn
<1>5. FieldType(j) = FieldType(i)
  BY <1>3 DEF FieldType
<1>6. Becomes(j) = Becomes(i)
  BY <1>3, <1>5 DEF Becomes
<1>7. InHand(j, ts)
  BY <1>1, <1>2, <1>3, <1>4, <1>6 DEF InHand, Allowed
<1> QED  BY <1>3, <1>7, NotNone DEF j

LEMMA make_polymorphicStep ==
  ASSUME IInv, NEW i \in Current, make_polymorphic(i)
  PROVE  IInv'
<1> DEFINE k == IF i.kind = "invokevtable_monomorphic" THEN "invokevtable_polymorphic" ELSE "invokeitable_polymorphic"
           j == [i EXCEPT !.kind = k]
           q == FORWARD_TO_NULLARY(m)
<1>1. Dispatch(i, {"invokevtable_monomorphic", "invokeitable_monomorphic"})
  BY DEF make_polymorphic
<1>2. {"invokevtable_monomorphic", "invokeitable_monomorphic"} \intersect StackKinds = {}
  BY DEF StackKinds
<1>3. InHand(i, types) /\ Holds(Values, m) /\ i.kind \in {"invokevtable_monomorphic", "invokeitable_monomorphic"}
  BY <1>1, <1>2, DispatchIs
<1>4. k \in Becomes(i) /\ k \in Nullary /\ k \notin Skipping
  <2>1. i.op \in {"invokevirtual", "invokeinterface"}
    BY <1>3, OpOfKind
  <2>2. Becomes(i) = Virtual
    BY <2>1 DEF Becomes, FieldKinds
  <2> QED  BY <2>2 DEF Virtual, Nullary, Skipping
<1>5. Enter(j, q, "run")
  <2>1. i = [op |-> i.op, kind |-> i.kind, args |-> i.args, ret |-> i.ret]
    BY <1>3 DEF InHand, Allowed
  <2>2. [i EXCEPT !.kind = IF @ = "invokevtable_monomorphic" THEN "invokevtable_polymorphic"
                           ELSE "invokeitable_polymorphic"] = j
    BY <2>1
  <2> QED  BY <2>2 DEF make_polymorphic
<1>6. Holds(Values, q) /\ q.table = "V"
  BY <1>3, FrameIs, ForwardIs
<1> HIDE DEF k, q
<1>7. InHand(j, types) /\ j.kind = k /\ j # NoInsn
  BY <1>3, <1>4, KindChange
<1> HIDE DEF j
<1>8. j.kind \in bytecode_tables[q.table]
  BY <1>4, <1>6, <1>7, TablesAre DEF jmp_table_void
<1>9. Running(j, q, types)
  BY <1>4, <1>7, <1>8 DEF Running
<1> QED  BY <1>5, <1>6, <1>9, RunStep


LEMMA AllocatingHandlers ==
  ASSUME IInv, NEW i \in Current,
         \/ new_resolved_impl(i) \/ ldc_impl(i) \/ newarray_impl(i) \/ multianewarray_impl(i)
         \/ anewarray_resolved_impl(i)
  PROVE  IInv'
<1>1. Allocating \intersect StackKinds = {}
  BY DEF Allocating, StackKinds
<1>2. {"newarray", "multianewarray", "anewarray_resolved"} \intersect Nullary = {}
  BY Groups DEF Nullary
<1>3. ASSUME NEW k \in Allocating, Dispatch(i, {k})
      PROVE  /\ i.kind = k /\ InHand(i, types) /\ Holds(Values, m) /\ KindFits("alloc", i)
             /\ k \notin Nullary => m.table # "V"
  <2>1. i.kind = k /\ i.kind \notin StackKinds
    BY <1>1, <1>3, DispatchIs
  <2>2. KindFits("alloc", i)
    BY <2>1 DEF KindFits
  <2> QED  BY <1>3, <2>1, <2>2, DispatchIs
<1>4. "alloc" \in Elsewhere /\ "alloc" \in {"resolve", "alloc"}
  BY DEF Elsewhere
<1>5. "new_resolved" \in Allocating /\ "ldc" \in Allocating /\ "newarray" \in Allocating
      /\ "multianewarray" \in Allocating /\ "anewarray_resolved" \in Allocating
  BY DEF Allocating
<1>6. ASSUME NEW k \in {"new_resolved", "ldc"}, Dispatch(i, {k}), Enter(i, FORWARD_TO_NULLARY(m), "alloc")
      PROVE  IInv'
  <2>1. i.kind = k /\ InHand(i, types) /\ Holds(Values, m) /\ KindFits("alloc", i)
    BY <1>3, <1>5, <1>6
  <2>2. ~Reloads("alloc", i)
    BY <1>6, <2>1 DEF Reloads
  <2> QED  BY <1>4, <1>6, <2>1, <2>2, ForwardEnter
<1>7. ASSUME NEW k \in {"newarray", "multianewarray"}, Dispatch(i, {k}), Enter(i, SPILL(m), "alloc")
      PROVE  IInv'
  <2>1. i.kind = k /\ InHand(i, types) /\ Holds(Values, m) /\ KindFits("alloc", i) /\ m.table # "V"
    BY <1>2, <1>3, <1>5, <1>7
  <2> QED  BY <1>4, <1>7, <2>1, SpillEnter
<1>8. CASE anewarray_resolved_impl(i)
  <2>1. Dispatch(i, {"anewarray_resolved"}) /\ Enter(i, m, "alloc")
    BY <1>8 DEF anewarray_resolved_impl
  <2>2. i.kind = "anewarray_resolved" /\ InHand(i, types) /\ Holds(Values, m) /\ KindFits("alloc", i) /\ m.table # "V"
    BY <1>2, <1>3, <1>5, <2>1
  <2> QED  BY <1>4, <2>1, <2>2, RawEnter
<1>9. ASSUME Dispatch(i, {"ldc"}),
             Done(i, <<>>, <<Fresh("L")>>, PushedTop(FORWARD_TO_NULLARY(m), "L", Fresh("L")))
      PROVE  IInv'
  <2>1. i.kind = "ldc" /\ InHand(i, types) /\ Holds(Values, m)
    BY <1>3, <1>5, <1>9
  <2>2. Moves(Effect(i), 0, 1) /\ Effect(i) = PlainEffect("ldc")
    <3>1. "ldc" \in PlainKinds /\ Takes("ldc", 0, 1)
      BY PlainDomain, Groups, LoadTakes
    <3> QED  BY <2>1, <3>1, PlainMoves
  <2>3. Result(i) = "L"
    BY <2>2, LoadAre DEF Result, E
  <2>4. Flushed(Values, FORWARD_TO_NULLARY(m))
    BY <2>1, FrameIs, ForwardIs
  <2> QED  BY <1>9, <2>1, <2>2, <2>3, <2>4, PushStep
<1> QED  BY <1>6, <1>7, <1>8, <1>9 DEF new_resolved_impl, ldc_impl, newarray_impl, multianewarray_impl

LEMMA monitorenterStep ==
  ASSUME IInv, NEW i \in Current, monitorenter_impl(i)
  PROVE  IInv'
<1>1. Dispatch(i, {"monitorenter"}) /\ (RaiseVoid(i) \/ Enter(i, SPILL(m), "monitor"))
  BY DEF monitorenter_impl
<1>2. "monitorenter" \notin StackKinds /\ "monitorenter" \notin Nullary
  BY Groups DEF StackKinds, Nullary
<1>3. InHand(i, types) /\ Holds(Values, m) /\ m.table # "V" /\ i.kind = "monitorenter"
  BY <1>1, <1>2, DispatchIs
<1>4. KindFits("monitor", i) /\ ~Reloads("monitor", i) /\ "monitor" \in Elsewhere
  BY <1>3 DEF KindFits, Reloads, Elsewhere
<1> QED  BY <1>1, <1>3, <1>4, RaiseVoidStep, SpillEnter

LEMMA fuel_checkStep ==
  ASSUME IInv, NEW i \in Current, fuel_check(i)
  PROVE  IInv'
<1>1. Dispatch(i, Branching) /\ Enter(i, SPILL(m), "suspended")
  BY DEF fuel_check, Branching
<1>2. Branching \intersect StackKinds = {}
  BY DEF Branching, StackKinds
<1>3. InHand(i, types) /\ Holds(Values, m) /\ i.kind \in Branching
  BY <1>1, <1>2, DispatchIs
<1>4. KindFits("suspended", i) /\ ~Reloads("suspended", i) /\ "suspended" \in Elsewhere
  BY <1>3 DEF KindFits, Reloads, Elsewhere
<1> QED  BY <1>1, <1>3, <1>4, SpillEnter

LEMMA LeavingHandlers ==
  ASSUME IInv, NEW i \in Current, return_impl(i) \/ athrow_impl(i)
  PROVE  IInv'
<1>1. CASE athrow_impl(i)
  <2>1. Dispatch(i, {"athrow"}) /\ Raise(i)
    BY <1>1 DEF athrow_impl
  <2> QED  BY <2>1, DispatchIs, RaiseStep
<1>2. CASE return_impl(i)
  <2> DEFINE used == IF i.kind = "return" THEN <<>> ELSE <<m.tos>>
  <2>1. /\ Dispatch(i, DOMAIN EndEffects \ {"athrow"}) /\ ok' = (ok /\ RightOperands(used))
        /\ phase' = "left" /\ UNCHANGED <<types, words, gc, n>>
    BY <1>2 DEF return_impl
  <2>2. RightOperands(used)
    <3>1. CASE i.kind = "return"
      BY <3>1, RightNone
    <3>2. CASE i.kind # "return"
      <4>1. i.kind \in TakingOne
        BY <2>1, <3>2, DispatchIs DEF TakingOne
      <4>2. Holds(Values, m) /\ m.table # "V"
        BY <2>1, <4>1, DispatchIs, NotNullary
      <4>3. m.tos = Top(Values, 1) /\ ValueOk(Top(Values, 1))
        BY <4>2, FrameIs, CachedIs
      <4> QED  BY <3>2, <4>3, RightOne
    <3> QED  BY <3>1, <3>2
  <2> HIDE DEF used
  <2>3. ok' = TRUE
    BY <2>1, <2>2 DEF IInv
  <2> QED  BY <2>1, <2>3, LeftStep
<1> QED  BY <1>1, <1>2

LEMMA CastEffects ==
  ASSUME NEW i, NEW ts, InHand(i, ts)
  PROVE  /\ i.kind \in {"checkcast", "checkcast_resolved"} => Effect(i) = E(<<"L">>, <<"L">>)
         /\ i.kind \in {"instanceof", "instanceof_resolved"} => Effect(i) = E(<<"L">>, <<"I">>)
         /\ i.kind \in {"anewarray", "anewarray_resolved"} => Effect(i) = E(<<"I">>, <<"L">>)
         /\ i.kind = "new_resolved" => Effect(i) = E(<<>>, <<"L">>)
<1>1. \A k \in {"new", "anewarray", "checkcast", "instanceof"} :
        k \notin FieldKinds \union InvokeKinds /\ k \in PlainKinds
  BY PlainDomain, Groups DEF FieldKinds, InvokeKinds
<1>2. /\ i.kind \in {"checkcast", "checkcast_resolved"} => i.op = "checkcast"
      /\ i.kind \in {"instanceof", "instanceof_resolved"} => i.op = "instanceof"
      /\ i.kind \in {"anewarray", "anewarray_resolved"} => i.op = "anewarray"
      /\ i.kind = "new_resolved" => i.op = "new"
  BY <1>1, OpOfKind, KindIsOp
<1>3. i.op \in {"new", "anewarray", "checkcast", "instanceof"} => Effect(i) = PlainEffect(i.op)
  BY <1>1 DEF Effect
<1> QED  BY <1>2, <1>3, ObjectAre

LEMMA CastHandlers ==
  ASSUME IInv, NEW i \in Current, checkcast_resolved_impl(i) \/ instanceof_resolved_impl(i)
  PROVE  IInv'
<1>1. ASSUME NEW k \in {"checkcast_resolved", "instanceof_resolved"}, Dispatch(i, {k})
      PROVE  i.kind = k /\ InHand(i, types) /\ Holds(Values, m) /\ m.table # "V" /\ Moves(Effect(i), 1, 1)
  <2>1. i.kind = k /\ i.kind \in Mapping
    BY <1>1, DispatchIs DEF Mapping
  <2>2. i.kind \notin Nullary /\ i.kind \notin StackKinds
    BY <2>1, NotNullary
  <2>3. InHand(i, types) /\ Holds(Values, m) /\ m.table # "V"
    BY <1>1, <2>2, DispatchIs
  <2> QED  BY <2>1, <2>3, ShapesOfKinds
<1>2. CASE instanceof_resolved_impl(i)
  <2>1. Dispatch(i, {"instanceof_resolved"}) /\ Done(i, <<m.tos>>, <<Fresh("I")>>, NEXT_of(m, "I", Fresh("I")))
    BY <1>2 DEF instanceof_resolved_impl
  <2>2. i.kind = "instanceof_resolved" /\ InHand(i, types) /\ Holds(Values, m) /\ m.table # "V" /\ Moves(Effect(i), 1, 1)
    BY <1>1, <2>1
  <2>3. Result(i) = "I"
    BY <2>2, CastEffects DEF Result, E
  <2>4. ValueOk(Fresh("I")) /\ Fresh("I").t = "I"
    BY FreshIs, Letters
  <2> QED  BY <2>1, <2>2, <2>3, <2>4, UnaryStep
<1>3. CASE checkcast_resolved_impl(i)
  <2> DEFINE v == Top(Values, 1)
  <2>1. Dispatch(i, {"checkcast_resolved"}) /\ (Raise(i) \/ Done(i, <<m.tos>>, <<v>>, m))
    BY <1>3 DEF checkcast_resolved_impl
  <2>2. i.kind = "checkcast_resolved" /\ InHand(i, types) /\ Holds(Values, m) /\ m.table # "V" /\ Moves(Effect(i), 1, 1)
    BY <1>1, <2>1
  <2>3. Allowed(i, types) /\ i.op \notin StackKinds
    BY <2>2 DEF InHand
  <2>4. m.tos = v /\ ValueOk(v) /\ Len(Values) >= 1 /\ Len(Values) \in Nat /\ Values \in Seq(Val)
    BY <2>2, FrameIs, CachedIs
  <2>5. RightOperands(<<m.tos>>)
    BY <2>4, RightOne
  <2>6. v.t = "L" /\ v = Values[Len(Values)]
    <3>1. 1 \in 1..1 /\ Len(Values) - 1 + 1 = Len(Values) /\ Effect(i).pop[1] = "L"
      BY <2>2, <2>4, CastEffects DEF E
    <3>2. \A k \in 1..1 : Values[Len(Values) - 1 + k].t = Effect(i).pop[k]
      BY <2>2, <2>3, OperandsAre
    <3> QED  BY <3>1, <3>2 DEF Top
  <2> HIDE DEF v
  <2>7. StackOk(<<v>>) /\ KindsOf(<<v>>) = Effect(i).push
    BY <2>2, <2>4, <2>6, NoneAndOne, CastEffects DEF E
  <2> DEFINE r == After(i, <<v>>)
  <2>8. /\ StackOk(r) /\ Len(r) = Len(Values) - 1 + 1
        /\ \A k \in 1..(Len(Values) - 1) : r[k] = Values[k]
        /\ \A k \in 1..1 : r[Len(Values) - 1 + k] = <<v>>[k]
    BY <2>2, <2>3, <2>7, AfterIs
  <2> HIDE DEF r
  <2>9. r = Values
    <3>1. r \in Seq(Val) /\ Len(r) = Len(Values) /\ Len(Values) - 1 + 1 = Len(Values) /\ 1 \in 1..1 /\ <<v>>[1] = v
      BY <2>4, <2>8, StackIs
    <3>2. r[Len(Values)] = v
      BY <2>8, <3>1
    <3>3. ASSUME NEW k \in 1..Len(Values)  PROVE r[k] = Values[k]
      <4>1. k = Len(Values) \/ k \in 1..(Len(Values) - 1)
        BY <2>4
      <4> QED  BY <2>6, <2>8, <3>2, <4>1
    <3> QED  BY <2>4, <3>1, <3>3, SeqEqual
  <2>10. Ready(After(i, <<v>>), m)
    BY <2>2, <2>9 DEF Ready, r
  <2> QED  BY <2>1, <2>2, <2>5, <2>7, <2>10, RaiseStep, DoneStep
<1> QED  BY <1>2, <1>3


-----------------------------------------------------------------------------
(***************************************************************************)
(* Resolution: the kinds it gives, and the tables they are found in.       *)
(***************************************************************************)
LEMMA PutTables ==
  ASSUME NEW t \in TypeKinds
  PROVE  /\ resolved_kind("putstatic", t) \in bytecode_tables[TableFor(t)]
         /\ resolved_kind("putfield", t) \in bytecode_tables[TableFor(t)]
<1>1. /\ {"putstatic_I", "putstatic_J", "putstatic_L", "putfield_I", "putfield_J", "putfield_L"}
         \subseteq bytecode_tables["I"]
      /\ {"putstatic_F", "putfield_F"} \subseteq bytecode_tables["F"]
      /\ {"putstatic_D", "putfield_D"} \subseteq bytecode_tables["D"]
  BY TablesAre DEF jmp_table_int, jmp_table_float, jmp_table_double
<1>2. t \in {"I", "J", "F", "D", "L"}
  BY DEF TypeKinds
<1> QED  BY <1>1, <1>2, TableLetters DEF resolved_kind

LEMMA GetTables ==
  /\ FieldGets \subseteq bytecode_tables["I"]
  /\ {"checkcast_resolved", "instanceof_resolved", "anewarray_resolved"} \subseteq bytecode_tables["I"]
  /\ {"sqrt", "pow"} \subseteq bytecode_tables["D"]
BY TablesAre DEF jmp_table_int, jmp_table_double, FieldGets

(* What the instruction in hand becomes, in the terms of the handlers. *)
LEMMA FieldBecomes ==
  ASSUME NEW ts, InHand(insn, ts), insn.kind \in FieldKinds, NEW k \in ResolvedTo
  PROVE  /\ insn.op = insn.kind /\ k \in Becomes(insn) /\ k = resolved_kind(insn.op, FieldType(insn))
         /\ FieldType(insn) \in TypeKinds
<1>1. insn.op = insn.kind /\ Allowed(insn, ts)
  BY KindIsOp DEF InHand
<1>2. FieldType(insn) \in TypeKinds
  BY <1>1, FieldTypeIs
<1>3. k \in resolve_insn
  BY DEF ResolvedTo, FieldKinds
<1>4. k = resolved_kind(insn.op, FieldType(insn))
  BY <1>1, <1>3 DEF resolve_insn, resolve_getstatic_putstatic, resolve_getfield_putfield, FieldType, FieldKinds
<1>5. k \in Becomes(insn)
  BY <1>1, <1>4 DEF Becomes, FieldKinds
<1> QED  BY <1>1, <1>2, <1>4, <1>5

LEMMA InvokeBecomes ==
  ASSUME NEW ts, InHand(insn, ts), insn.kind \in InvokeKinds, NEW k \in ResolvedTo
  PROVE  /\ k \in {insn.op} \union Becomes(insn)
         /\ k \in {"sqrt", "pow"} => insn.op = "invokestatic"
                                     /\ (k = "sqrt" => insn.args = <<"D">>) /\ (k = "pow" => insn.args = <<"D", "D">>)
         /\ k \notin {"sqrt", "pow"} => k \in Nullary \ Skipping
<1>1. CASE insn.kind = "invokestatic"
  <2>1. insn.op = "invokestatic"
    BY <1>1, OpOfKind
  <2>2. k \in {"invokestatic_resolved"} \union intrinsify
    BY <1>1 DEF ResolvedTo, FieldKinds, resolve_insn, resolve_invokestatic
  <2> QED  BY <2>1, <2>2 DEF Becomes, intrinsify, FieldKinds, Nullary, Skipping
<1>2. CASE insn.kind = "invokevirtual"
  <2>1. insn.op \in {"invokevirtual", "invokeinterface"}
    BY <1>2, OpOfKind
  <2>2. k \in resolve_invokevirtual
    BY <1>2 DEF ResolvedTo, FieldKinds
  <2>3. Becomes(insn) = Virtual
    BY <2>1 DEF Becomes, FieldKinds
  <2> QED  BY <2>2, <2>3 DEF resolve_invokevirtual, Virtual, Nullary, Skipping
<1>3. CASE insn.kind = "invokeinterface"
  <2>1. insn.op \in {"invokevirtual", "invokeinterface"}
    BY <1>3, OpOfKind
  <2>2. k \in resolve_invokeinterface
    BY <1>3 DEF ResolvedTo, FieldKinds
  <2>3. Becomes(insn) = Virtual
    BY <2>1 DEF Becomes, FieldKinds
  <2> QED  BY <2>2, <2>3 DEF resolve_invokeinterface, Virtual, Nullary, Skipping
<1>4. CASE insn.kind = "invokespecial"
  <2>1. insn.op = "invokespecial"
    BY <1>4, OpOfKind
  <2>2. k \in resolve_invokespecial
    BY <1>4 DEF ResolvedTo, FieldKinds
  <2> QED  BY <2>1, <2>2 DEF resolve_invokespecial, Becomes, FieldKinds, Nullary, Skipping
<1>5. CASE insn.kind = "invokedynamic"
  <2>1. insn.op = "invokedynamic"
    BY <1>5, OpOfKind
  <2>2. k = "invokecallsite"
    BY <1>5 DEF ResolvedTo, FieldKinds
  <2> QED  BY <2>1, <2>2 DEF Becomes, FieldKinds, Nullary, Skipping
<1> QED  BY <1>1, <1>2, <1>3, <1>4, <1>5 DEF InvokeKinds

LEMMA ObjectBecomes ==
  ASSUME NEW ts, InHand(insn, ts), insn.kind \in {"new", "anewarray", "checkcast", "instanceof"},
         NEW k \in ResolvedTo
  PROVE  /\ k \in Becomes(insn) /\ insn.op = insn.kind
         /\ insn.kind = "new" => k = "new_resolved"
         /\ insn.kind = "anewarray" => k = "anewarray_resolved"
         /\ insn.kind = "checkcast" => k = "checkcast_resolved"
         /\ insn.kind = "instanceof" => k = "instanceof_resolved"
<1>1. insn.kind \in PlainKinds
  BY PlainDomain, Groups
<1>2. insn.op = insn.kind
  BY <1>1, KindIsOp
<1>3. /\ insn.kind = "new" => k = "new_resolved"
      /\ insn.kind = "anewarray" => k = "anewarray_resolved"
      /\ insn.kind = "checkcast" => k = "checkcast_resolved"
      /\ insn.kind = "instanceof" => k = "instanceof_resolved"
  BY DEF ResolvedTo, FieldKinds, resolve_insn, resolve_new_inst
<1> QED  BY <1>2, <1>3 DEF Becomes, FieldKinds

(* The same instruction goes on with a kind that the cached kind has a handler for. *)
LEMMA AgainStep ==
  ASSUME IInv, InHand(insn, types), NEW k, k \in {insn.op} \union Becomes(insn), NEW mm, Holds(Values, mm),
         k \in bytecode_tables[mm.table] \/ Voided(insn, mm),
         mm.table = "V" => types = <<>> \/ k \notin Skipping, Again(k, mm)
  PROVE  IInv'
<1> DEFINE j == [insn EXCEPT !.kind = k]
<1>1. Enter(j, mm, "run")
  BY DEF Again, Enter
<1>2. InHand(j, types) /\ j.kind = k /\ j.op = insn.op /\ j # NoInsn
  BY KindChange
<1> HIDE DEF j
<1>3. Running(j, mm, types)
  BY <1>2 DEF Running, Voided
<1> QED  BY <1>1, <1>3, RunStep

LEMMA AgainVoid ==
  ASSUME IInv, InHand(insn, types), NEW k, k \in {insn.op} \union Becomes(insn), k \in Nullary \ Skipping,
         Flushed(Values, m), Again(k, JMP_VOID(m))
  PROVE  IInv'
<1>1. Holds(Values, JMP_VOID(m)) /\ JMP_VOID(m).table = "V"
  BY VoidIs
<1>2. k \in bytecode_tables["V"]
  BY TablesAre DEF jmp_table_void
<1> QED  BY <1>1, <1>2, AgainStep

LEMMA AgainCached ==
  ASSUME IInv, InHand(insn, types), NEW k, k \in {insn.op} \union Becomes(insn), Flushed(Values, m),
         k \in bytecode_tables[calculate_tos_type(types)], Again(k, STACK_POLYMORPHIC(m, types))
  PROVE  IInv'
<1> DEFINE q == STACK_POLYMORPHIC(m, types)
<1>1. StackOk(Values) /\ types = KindsOf(Values) /\ (types = <<>> <=> Values = <<>>)
  BY FrameIs
<1>2. Ready(Values, q)
  BY <1>1, PolyReady
<1> HIDE DEF q
<1>3. Holds(Values, q) /\ (q.table = "V" => types = <<>>)
  BY <1>1, <1>2 DEF Ready
<1>4. q.table = calculate_tos_type(types)
  <2>1. CASE q.table = "V"
    BY <1>3, <2>1 DEF calculate_tos_type
  <2>2. CASE q.table # "V"
    BY <1>1, <1>3, <2>2 DEF Holds, RegisterOk
  <2> QED  BY <2>1, <2>2
<1>5. Again(k, q)
  BY DEF q
<1> QED  BY <1>3, <1>4, <1>5, AgainStep

(* Back in the handler of an instruction whose stack is in memory. *)
LEMMA AwayIs ==
  ASSUME IInv, phase \in Elsewhere
  PROVE  /\ InHand(insn, types) /\ KindFits(phase, insn) /\ Away(Values, m, phase, insn)
         /\ m \in Machine /\ m.sp = Len(Values)
         /\ (phase # "call" /\ ~Unspilled(phase, insn)) => Flushed(Values, m)
<1>1. phase \notin {"run", "left", "crashed"} \union Raised
  BY DEF Elsewhere, Raised
<1>2. InHand(insn, types) /\ KindFits(phase, insn) /\ Away(Values, m, phase, insn)
  BY <1>1 DEF IInv
<1>3. m \in Machine /\ m.sp = Len(Values) /\ SlotsHold(Values, m, UpToDate(Values, phase, insn))
  BY <1>2 DEF Away
<1>4. (phase # "call" /\ ~Unspilled(phase, insn)) => UpToDate(Values, phase, insn) = Len(Values)
  BY DEF UpToDate
<1> QED  BY <1>2, <1>3, <1>4 DEF Flushed

(* Going on with the register: it was spilled and is reloaded, or holds no reference. *)
LEMMA ReloadIs ==
  ASSUME IInv, Flushed(Values, m), RegisterOk(Values, m), m.table # "V"
  PROVE  Holds(Values, RELOAD(m)) /\ RELOAD(m).table = m.table
<1>1. m \in Machine /\ m.sp = Len(Values) /\ SlotsHold(Values, m, Len(Values)) /\ Values # <<>>
  BY DEF Flushed, RegisterOk
<1>2. Len(Values) \in 1..StackLimit /\ ValueOk(Values[Len(Values)]) /\ Len(Values) \in Nat /\ StackOk(Values)
  BY <1>1, FrameIs, TosIs
<1>3. 1 \in 1..Len(Values) /\ Len(Values) - 1 + 1 = Len(Values)
  BY <1>2
<1>4. At(m, 1) = Values[Len(Values)]
  BY <1>2, <1>3, InMemory DEF Top
<1> DEFINE q == [m EXCEPT !.tos = Values[Len(Values)]]
<1>5. q \in Machine /\ q.sp = m.sp /\ q.mem = m.mem /\ q.table = m.table /\ q.tos = Values[Len(Values)]
  BY <1>1, <1>2 DEF Machine, ValueOk
<1>6. RELOAD(m) = q
  BY <1>4 DEF RELOAD
<1> HIDE DEF q
<1>7. SlotsHold(Values, q, Len(Values) - 1)
  <2>1. \A k \in 1..(Len(Values) - 1) : k \in 1..Len(Values)
    BY <1>2
  <2> QED  BY <1>1, <1>5, <2>1 DEF SlotsHold
<1>8. Holds(Values, q)
  BY <1>1, <1>5, <1>7 DEF Holds, RegisterOk
<1> QED  BY <1>5, <1>6, <1>8

LEMMA RawHolds ==
  ASSUME IInv, phase \in {"resolve", "alloc"}, insn.kind \in {"anewarray", "anewarray_resolved", "newarray"},
         phase = "resolve" => insn.kind = "anewarray", phase = "alloc" => insn.kind # "anewarray"
  PROVE  /\ Holds(Values, m) /\ m.table = "I" /\ Effect(insn) = E(<<"I">>, <<"L">>)
<1>1. phase \in Elsewhere
  BY DEF Elsewhere
<1>2. InHand(insn, types) /\ Away(Values, m, phase, insn)
  BY <1>1, AwayIs
<1>3. Effect(insn) = E(<<"I">>, <<"L">>)
  <2>1. "newarray" \in PlainKinds /\ Takes("newarray", 1, 1)
    BY PlainDomain, Groups, ObjectTakes
  <2>2. insn.kind = "newarray" => Effect(insn) = PlainEffect("newarray")
    BY <1>2, <2>1, PlainMoves
  <2> QED  BY <1>2, <2>2, CastEffects, ObjectAre
<1>4. Moves(Effect(insn), 1, 1) /\ Effect(insn).pop = <<"I">>
  BY <1>3, Moves11, Letters DEF E
<1>5. Values # <<>> /\ Last(types) = "I" /\ calculate_tos_type(types) = "I"
  <2>1. Allowed(insn, types) /\ insn.op \notin StackKinds /\ 1 \in Nat /\ 1 > 0
    BY <1>2 DEF InHand
  <2>2. Values # <<>> /\ Last(types) = Last(Effect(insn).pop)
        /\ calculate_tos_type(types) = calculate_tos_type(Effect(insn).pop)
    BY <1>4, <2>1, OperandsAre
  <2>3. Last(<<"I">>) = "I" /\ calculate_tos_type(<<"I">>) = "I"
    BY TableOfSome, TableLetters, Letters DEF Last
  <2> QED  BY <1>4, <2>2, <2>3
<1>6. Len(Values) \in 1..Len(Values) /\ Len(Values) \in Nat
  <2>1. Len(Values) \in 1..StackLimit /\ Len(Values) \in Nat
    BY <1>5, FrameIs, TosIs
  <2> QED  BY <2>1
<1>7. Values[Len(Values)].t = "I" /\ types = KindsOf(Values)
  BY <1>5, <1>6, FrameIs DEF Last
<1>8. m.table # "V"
  BY <1>2 DEF Away, Reloads
<1>9. m \in Machine /\ m.sp = Len(Values) /\ RegisterOk(Values, m) /\ m.tos = Values[Len(Values)]
  BY <1>2, <1>7, <1>8 DEF Away
<1>10. SlotsHold(Values, m, Len(Values) - 1)
  <2>1. SlotsHold(Values, m, UpToDate(Values, phase, insn))
    BY <1>2 DEF Away
  <2>2. UpToDate(Values, phase, insn) = Len(Values) \/ UpToDate(Values, phase, insn) = Len(Values) - 1
    BY DEF UpToDate
  <2>3. \A k \in 1..(Len(Values) - 1) : k \in 1..Len(Values)
    BY <1>6
  <2> QED  BY <2>1, <2>2, <2>3 DEF SlotsHold
<1> QED  BY <1>3, <1>5, <1>7, <1>8, <1>9, <1>10 DEF Holds, RegisterOk


LEMMA ResolveStep ==
  ASSUME IInv, Resolve
  PROVE  IInv'
<1> DEFINE mm(k) == CASE insn.kind \in {"getfield", "checkcast", "instanceof"} -> RELOAD(m)
                      [] insn.kind = "anewarray" -> m
                      [] insn.kind \in {"putstatic", "putfield"} \/ k \in {"sqrt", "pow"} ->
                           STACK_POLYMORPHIC(m, types)
                      [] OTHER -> JMP_VOID(m)
<1>1. PICK k \in ResolvedTo : Again(k, mm(k))
  BY DEF Resolve
<1>2. phase = "resolve" /\ phase \in Elsewhere
  BY DEF Resolve, Elsewhere
<1>3. InHand(insn, types) /\ KindFits(phase, insn) /\ Away(Values, m, phase, insn)
  BY <1>2, AwayIs
<1>4. insn.kind \in Resolvable /\ Allowed(insn, types) /\ insn.op \notin StackKinds
  BY <1>2, <1>3 DEF KindFits, InHand
<1>5. insn.kind # "anewarray" => Flushed(Values, m)
  <2>1. insn.kind \notin {"anewarray", "anewarray_resolved"} => Flushed(Values, m)
    BY <1>2, AwayIs DEF Unspilled
  <2>2. insn.kind # "anewarray_resolved"
    BY <1>4 DEF Resolvable
  <2> QED  BY <2>1, <2>2
<1>6. CASE insn.kind \in {"getfield", "checkcast", "instanceof"}
  <2>1. Again(k, RELOAD(m))
    <3>1. insn.kind = "getfield" => k \in FieldGets
      BY <1>1, <1>3, FieldBecomes, ResolvedKinds DEF FieldKinds
    <3>2. insn.kind \in {"checkcast", "instanceof"} => k \in {"checkcast_resolved", "instanceof_resolved"}
      BY <1>1, <1>3, ObjectBecomes
    <3>3. k \notin {"sqrt", "pow"}
      BY <1>6, <3>1, <3>2 DEF FieldGets
    <3> QED  BY <1>1, <1>6, <3>3
  <2>2. m.table # "V" /\ RegisterOk(Values, m)
    BY <1>2, <1>3, <1>6 DEF Away, Reloads
  <2>3. Holds(Values, RELOAD(m)) /\ RELOAD(m).table = m.table
    BY <1>5, <1>6, <2>2, ReloadIs
  <2>4. Moves(Effect(insn), 1, 1) /\ Effect(insn).pop = <<"L">>
    <3>1. CASE insn.kind = "getfield"
      <4>1. insn.op = "getfield"
        BY <1>1, <1>3, <3>1, FieldBecomes DEF FieldKinds
      <4> QED  BY <1>4, <4>1, FieldEffects DEF E
    <3>2. CASE insn.kind \in {"checkcast", "instanceof"}
      BY <1>3, <3>2, CastEffects, Moves11, Letters DEF E
    <3> QED  BY <1>6, <3>1, <3>2
  <2>5. m.table = "I"
    <3>1. 1 \in Nat /\ 1 > 0
      OBVIOUS
    <3>2. calculate_tos_type(types) = calculate_tos_type(Effect(insn).pop)
      BY <1>4, <2>4, <3>1, OperandsAre
    <3>3. calculate_tos_type(<<"L">>) = "I" /\ types = KindsOf(Values)
      BY TableOfSome, TableLetters, Letters, FrameIs
    <3> QED  BY <2>2, <2>4, <3>2, <3>3 DEF RegisterOk
  <2>6. k \in Becomes(insn) /\ k \in bytecode_tables["I"]
    <3>1. CASE insn.kind = "getfield"
      BY <1>1, <1>3, <3>1, FieldBecomes, ResolvedKinds, GetTables DEF FieldKinds
    <3>2. CASE insn.kind \in {"checkcast", "instanceof"}
      BY <1>1, <1>3, <3>2, ObjectBecomes, GetTables
    <3> QED  BY <1>6, <3>1, <3>2
  <2> QED  BY <1>3, <2>1, <2>2, <2>3, <2>5, <2>6, AgainStep
<1>7. CASE insn.kind = "anewarray"
  <2>1. Again(k, m)
    <3>1. k = "anewarray_resolved"
      BY <1>1, <1>3, <1>7, ObjectBecomes
    <3> QED  BY <1>1, <1>7, <3>1
  <2>2. Holds(Values, m) /\ m.table = "I"
    BY <1>2, <1>7, RawHolds
  <2>3. k \in Becomes(insn) /\ k \in bytecode_tables["I"]
    BY <1>1, <1>3, <1>7, ObjectBecomes, GetTables
  <2> QED  BY <1>3, <2>1, <2>2, <2>3, AgainStep
<1>8. CASE insn.kind \in {"putstatic", "putfield"}
  <2>1. Again(k, STACK_POLYMORPHIC(m, types)) /\ Flushed(Values, m)
    BY <1>1, <1>5, <1>8
  <2>2. /\ insn.op = insn.kind /\ k \in Becomes(insn) /\ k = resolved_kind(insn.op, FieldType(insn))
        /\ FieldType(insn) \in TypeKinds
    BY <1>1, <1>3, <1>8, FieldBecomes DEF FieldKinds
  <2>3. calculate_tos_type(Effect(insn).pop) = TableFor(FieldType(insn))
    BY <1>4, <1>8, <2>2, FieldEffects, TableOfSome, Letters DEF E
  <2>4. calculate_tos_type(types) = calculate_tos_type(Effect(insn).pop)
    <3>1. Moves(Effect(insn), 1, 0) \/ Moves(Effect(insn), 2, 0)
      BY <1>4, <1>8, <2>2, FieldEffects
    <3>2. 0 \in Nat /\ 1 \in Nat /\ 1 > 0 /\ 2 \in Nat /\ 2 > 0
      OBVIOUS
    <3> QED  BY <1>4, <3>1, <3>2, OperandsAre
  <2>5. k \in bytecode_tables[calculate_tos_type(types)]
    BY <1>8, <2>2, <2>3, <2>4, PutTables
  <2> QED  BY <1>3, <2>1, <2>2, <2>5, AgainCached
<1>9. CASE insn.kind \in InvokeKinds
  <2>1. Flushed(Values, m)
    BY <1>5, <1>9 DEF InvokeKinds
  <2>2. k \in {insn.op} \union Becomes(insn)
    BY <1>1, <1>3, <1>9, InvokeBecomes
  <2>3. CASE k \in {"sqrt", "pow"}
    <3>1. Again(k, STACK_POLYMORPHIC(m, types))
      BY <1>1, <1>9, <2>3 DEF InvokeKinds
    <3>2. insn.op = "invokestatic" /\ (insn.args = <<"D">> \/ insn.args = <<"D", "D">>)
      BY <1>1, <1>3, <1>9, <2>3, InvokeBecomes
    <3>3. Effect(insn).pop = insn.args
      <4>1. Effect(insn) = E(Receiver(insn.op) \o insn.args, Pushed(insn.ret)) /\ insn.args \in Seq(TypeKinds)
        BY <1>4, <3>2, InvokeEffects, AllowedIs DEF InvokeKinds
      <4>2. Receiver(insn.op) = <<>>
        BY <3>2 DEF Receiver
      <4>3. <<>> \o insn.args = insn.args
        BY <4>1, ConcatEmptySeq
      <4> QED  BY <4>1, <4>2, <4>3 DEF E
    <3>4. calculate_tos_type(insn.args) = "D"
      BY <3>2, TableOfSome, TableLetters, Letters
    <3>5. PICK p \in Nat, q \in 0..1 : Moves(Effect(insn), p, q)
      BY <1>4, EffectIs
    <3>6. p > 0
      <4>1. p = Len(insn.args)
        BY <3>3, <3>5 DEF Moves
      <4>2. Len(<<"D">>) = 1 /\ Len(<<"D", "D">>) = 2
        OBVIOUS
      <4>3. Len(insn.args) = 1 \/ Len(insn.args) = 2
        BY <3>2, <4>2
      <4>4. p = 1 \/ p = 2
        BY <4>1, <4>3, Zenon
      <4> QED  BY <4>4
    <3>7. q \in Nat
      OBVIOUS
    <3>8. calculate_tos_type(types) = "D"
      BY <1>4, <3>3, <3>4, <3>5, <3>6, <3>7, OperandsAre
    <3> QED  BY <1>3, <2>1, <2>2, <2>3, <3>1, <3>8, GetTables, AgainCached
  <2>4. CASE k \notin {"sqrt", "pow"}
    <3>1. Again(k, JMP_VOID(m))
      BY <1>1, <1>9, <2>4 DEF InvokeKinds
    <3>2. k \in Nullary \ Skipping
      BY <1>1, <1>3, <1>9, <2>4, InvokeBecomes
    <3> QED  BY <1>3, <2>1, <2>2, <3>1, <3>2, AgainVoid
  <2> QED  BY <2>3, <2>4
<1>10. CASE insn.kind \in {"getstatic", "new"}
  <2>1. Flushed(Values, m)
    BY <1>5, <1>10
  <2>2. k \in Becomes(insn) /\ k \in StaticGets \union {"new_resolved"}
    <3>1. CASE insn.kind = "getstatic"
      BY <1>1, <1>3, <3>1, FieldBecomes, ResolvedKinds DEF FieldKinds
    <3>2. CASE insn.kind = "new"
      BY <1>1, <1>3, <3>2, ObjectBecomes
    <3> QED  BY <1>10, <3>1, <3>2
  <2>3. Again(k, JMP_VOID(m))
    BY <1>1, <1>10, <2>2 DEF StaticGets
  <2>4. k \in Nullary \ Skipping
    BY <2>2 DEF StaticGets, Nullary, Skipping
  <2> QED  BY <1>3, <2>1, <2>2, <2>3, <2>4, AgainVoid
<1> QED  BY <1>4, <1>6, <1>7, <1>8, <1>9, <1>10 DEF Resolvable, InvokeKinds

(* The instruction is left as it was, its stack in memory. *)
LEMMA SuspendStep ==
  ASSUME IInv, phase \in {"resolve", "monitor"}, insn.kind \in Initializing \union {"monitorenter"},
         Enter(insn, m, "suspended")
  PROVE  IInv'
<1>1. phase \in Elsewhere /\ phase # "call"
  BY DEF Elsewhere
<1>2. ~Unspilled(phase, insn)
  BY DEF Unspilled, Initializing
<1>3. InHand(insn, types) /\ Away(Values, m, phase, insn)
  BY <1>1, AwayIs
<1>4. UpToDate(Values, phase, insn) = Len(Values) /\ UpToDate(Values, "suspended", insn) = Len(Values)
  BY <1>1, <1>2 DEF UpToDate, Unspilled
<1>5. ~Reloads("suspended", insn)
  BY DEF Reloads
<1>6. Away(Values, m, "suspended", insn)
  BY <1>3, <1>4, <1>5 DEF Away
<1>7. "suspended" \in Phases \ {"run", "left", "crashed"} /\ KindFits("suspended", insn)
  BY DEF Phases, KindFits
<1> QED  BY <1>3, <1>6, <1>7, EnterStep

LEMMA ResolveSuspendsStep ==
  ASSUME IInv, ResolveSuspends
  PROVE  IInv'
<1>1. phase = "resolve" /\ insn.kind \in Initializing /\ Enter(insn, m, "suspended")
  BY DEF ResolveSuspends, Initializing
<1> QED  BY <1>1, SuspendStep

LEMMA MovesBack ==
  ASSUME NEW mm \in Machine, NEW k, k = mm.sp
  PROVE  [mm EXCEPT !.sp = k] = mm
BY DEF Machine

(* A call, or a wait for a monitor, is over and leaves nothing on the stack. *)
LEMMA PoppedStep ==
  ASSUME IInv, InHand(insn, types), NEW p \in Nat, Moves(Effect(insn), p, 0), m \in Machine, m.sp = Len(Values),
         SlotsHold(Values, m, Len(Values) - p), NEW used, RightOperands(used),
         Done(insn, used, <<>>, Resumed(m, TypesAfter(insn)))
  PROVE  IInv'
<1>1. Allowed(insn, types) /\ insn.op \notin StackKinds
  BY DEF InHand
<1>2. StackOk(<<>>) /\ KindsOf(<<>>) = Effect(insn).push
  <2>1. Effect(insn).push = <<>>
    BY EmptySeq DEF Moves
  <2> QED  BY <2>1, NoneAndOne
<1>3. p \in 0..Len(Values) /\ Len(Values) \in Nat /\ Len(Values) <= StackLimit
  BY <1>1, OperandsAre, FrameIs
<1>4. Len(TypesAfter(insn)) = Len(Values) - p
  <2>1. /\ StackOk(After(insn, <<>>)) /\ Len(After(insn, <<>>)) = Len(Values) - p + 0
        /\ KindsOf(After(insn, <<>>)) = TypesAfter(insn)
    BY <1>1, <1>2, AfterIs
  <2>2. Len(TypesAfter(insn)) = Len(After(insn, <<>>))
    BY <2>1, StackIs
  <2> QED  BY <1>3, <2>1, <2>2
<1> DEFINE k == Len(TypesAfter(insn))
           q == [m EXCEPT !.sp = k]
<1>5. k \in 0..StackLimit
  BY <1>3, <1>4, LimitIs
<1>6. q \in Machine /\ q.sp = k /\ q.mem = m.mem
  BY <1>5, MoveIs
<1>7. Done(insn, used, <<>>, STACK_POLYMORPHIC(q, TypesAfter(insn)))
  BY DEF Resumed
<1> HIDE DEF q
<1>8. q.sp = Len(Values) - p /\ SlotsHold(Values, q, Len(Values) - p)
  BY <1>4, <1>6 DEF SlotsHold
<1> QED  BY <1>6, <1>7, <1>8, PopStep

LEMMA async_resumeStep ==
  ASSUME IInv, async_resume_impl
  PROVE  IInv'
<1>1. phase = "suspended" /\ phase \in Elsewhere
  BY DEF async_resume_impl, Elsewhere
<1>2. ~Unspilled(phase, insn) /\ phase # "call"
  BY <1>1 DEF Unspilled
<1>3. /\ InHand(insn, types) /\ KindFits(phase, insn) /\ Away(Values, m, phase, insn) /\ Flushed(Values, m)
      /\ m \in Machine /\ m.sp = Len(Values)
  BY <1>1, <1>2, AwayIs
<1>4. insn.kind \in Branching \union Initializing \union {"monitorenter"}
  BY <1>1, <1>3 DEF KindFits
<1>5. Len(types) = m.sp
  BY <1>3, FrameIs
<1>6. [m EXCEPT !.sp = Len(types)] = m
  BY <1>3, <1>5, MovesBack
<1>7. CASE insn.kind = "monitorenter"
  <2>1. Done(insn, <<At(m, 1)>>, <<>>, Resumed(m, TypesAfter(insn)))
    BY <1>7 DEF async_resume_impl
  <2>2. Moves(Effect(insn), 1, 0)
    BY <1>3, <1>7, ShapesOfKinds DEF TakingOne
  <2>3. 1 \in 0..Len(Values) /\ Len(Values) \in Nat
    BY <1>3, <2>2, OperandsAre, FrameIs DEF InHand
  <2>4. At(m, 1) = Top(Values, 1)
    BY <1>3, <2>3, FrameIs, InMemory
  <2>5. RightOperands(<<At(m, 1)>>)
    BY <1>7, <2>4, RightOne
  <2>6. SlotsHold(Values, m, Len(Values) - 1)
    <3>1. \A k \in 1..(Len(Values) - 1) : k \in 1..Len(Values)
      BY <2>3
    <3> QED  BY <1>3, <3>1 DEF Flushed, SlotsHold
  <2> QED  BY <1>3, <2>1, <2>2, <2>5, <2>6, PoppedStep
<1>8. CASE insn.kind \in Initializing
  <2>1. \/ \E k \in resolve_insn : Again(k, JMP_VOID([m EXCEPT !.sp = Len(types)]))
        \/ Enter(insn, m, "throw")
    BY <1>8 DEF async_resume_impl, Initializing
  <2>2. CASE Enter(insn, m, "throw")
    <3>1. UpToDate(Values, phase, insn) = Len(Values) /\ UpToDate(Values, "throw", insn) = Len(Values)
      BY <1>2 DEF UpToDate, Unspilled
    <3>2. ~Reloads("throw", insn)
      BY DEF Reloads
    <3>3. Away(Values, m, "throw", insn)
      BY <1>3, <3>1, <3>2 DEF Away
    <3>4. "throw" \in Phases \ {"run", "left", "crashed"} /\ "throw" \in Raised
      BY DEF Phases, Raised
    <3> QED  BY <2>2, <3>3, <3>4, EnterStep
  <2>3. ASSUME NEW k \in resolve_insn, Again(k, JMP_VOID([m EXCEPT !.sp = Len(types)]))  PROVE IInv'
    <3>1. Again(k, JMP_VOID(m))
      BY <1>6, <2>3
    <3>2. k \in ResolvedTo
      BY <1>8, <2>3 DEF ResolvedTo, FieldKinds, Initializing
    <3>3. CASE insn.kind = "getstatic"
      <4>1. k \in Becomes(insn) /\ k \in StaticGets
        BY <1>3, <3>2, <3>3, FieldBecomes, ResolvedKinds DEF FieldKinds
      <4>2. k \in Nullary \ Skipping
        BY <4>1 DEF StaticGets, Nullary, Skipping
      <4> QED  BY <1>3, <3>1, <4>1, <4>2, AgainVoid
    <3>4. CASE insn.kind = "new"
      <4>1. k \in Becomes(insn) /\ k = "new_resolved"
        BY <1>3, <3>2, <3>4, ObjectBecomes
      <4>2. k \in Nullary \ Skipping
        BY <4>1 DEF Nullary, Skipping
      <4> QED  BY <1>3, <3>1, <4>1, <4>2, AgainVoid
    <3>5. CASE insn.kind = "invokestatic"
      <4>1. k = "invokestatic_resolved"
        BY <2>3, <3>5 DEF resolve_insn, resolve_invokestatic
      <4>2. k \in {insn.op} \union Becomes(insn) /\ k \in Nullary \ Skipping
        BY <1>3, <3>2, <3>5, <4>1, InvokeBecomes DEF InvokeKinds
      <4> QED  BY <1>3, <3>1, <4>2, AgainVoid
    <3>6. CASE insn.kind = "putstatic"
      <4>1. insn.op = "putstatic" /\ k \in Becomes(insn) /\ k \in StaticPuts
        BY <1>3, <3>2, <3>6, FieldBecomes, ResolvedKinds DEF FieldKinds
      <4>2. k \notin Skipping
        BY <4>1 DEF StaticPuts, Skipping
      <4>3. Holds(Values, JMP_VOID(m)) /\ Voided(insn, JMP_VOID(m))
        BY <1>3, <4>1, VoidIs DEF Voided
      <4> QED  BY <1>3, <3>1, <4>1, <4>2, <4>3, AgainStep
    <3> QED  BY <1>8, <3>3, <3>4, <3>5, <3>6 DEF Initializing
  <2> QED  BY <2>1, <2>2, <2>3
<1>9. CASE insn.kind \in Branching
  <2>1. Again(insn.kind, Resumed(m, types))
    BY <1>9 DEF async_resume_impl, Branching
  <2>2. Again(insn.kind, STACK_POLYMORPHIC(m, types))
    BY <1>6, <2>1 DEF Resumed
  <2>3. insn.kind \in PlainKinds /\ insn.op = insn.kind
    <3>1. insn.kind \in PlainKinds
      BY <1>9, PlainDomain, Groups DEF Branching
    <3> QED  BY <1>3, <3>1, KindIsOp
  <2>4. insn.kind \in bytecode_tables[calculate_tos_type(types)]
    <3>1. Handled(insn.kind)
      BY <2>3, PlainHandled
    <3>2. insn.kind \notin FieldKinds \union InvokeKinds
      BY <2>3, PlainIsPlain
    <3>3. Effect(insn) = PlainEffect(insn.kind)
      BY <2>3, <3>2 DEF Effect
    <3>4. CASE insn.kind \in Nullary
      <4>1. calculate_tos_type(types) \in {"V", "I", "F", "D"}
        BY DEF calculate_tos_type
      <4> QED  BY <3>4, <4>1, NullaryEverywhere
    <3>5. CASE insn.kind \notin Nullary
      <4>1. /\ Effect(insn).pop # <<>>
            /\ insn.kind \in bytecode_tables[calculate_tos_type(Effect(insn).pop)]
        BY <3>1, <3>3, <3>5 DEF Handled
      <4>2. PICK p \in Nat, q \in 0..1 : Moves(Effect(insn), p, q)
        BY <1>3, EffectIs DEF InHand
      <4>3. p > 0 /\ q \in Nat
        BY <4>1, <4>2, EmptySeq DEF Moves
      <4>4. calculate_tos_type(types) = calculate_tos_type(Effect(insn).pop)
        BY <1>3, <4>2, <4>3, OperandsAre DEF InHand
      <4> QED  BY <4>1, <4>4
    <3> QED  BY <3>4, <3>5
  <2> QED  BY <1>3, <2>2, <2>3, <2>4, AgainCached
<1> QED  BY <1>4, <1>7, <1>8, <1>9


LEMMA AllocatedStep ==
  ASSUME IInv, Allocated
  PROVE  IInv'
<1> DEFINE v == Fresh("L")
<1>1. phase = "alloc" /\ phase \in Elsewhere /\ phase # "call"
  BY DEF Allocated, Elsewhere
<1>2. /\ InHand(insn, types) /\ KindFits(phase, insn) /\ Away(Values, m, phase, insn)
      /\ m \in Machine /\ m.sp = Len(Values)
  BY <1>1, AwayIs
<1>3. insn.kind \in Allocating /\ Allowed(insn, types) /\ insn.op \notin StackKinds
  BY <1>1, <1>2 DEF KindFits, InHand
<1>4. ValueOk(v) /\ v.t = "L"
  BY FreshIs, Letters
<1>5. CASE insn.kind \in {"new_resolved", "ldc"}
  <2>1. Done(insn, <<>>, <<v>>, PushedTop(m, "L", v))
    BY <1>5 DEF Allocated
  <2>2. Flushed(Values, m)
    BY <1>1, <1>5, AwayIs DEF Unspilled
  <2>3. Moves(Effect(insn), 0, 1) /\ Result(insn) = "L"
    <3>1. CASE insn.kind = "ldc"
      <4>1. "ldc" \in PlainKinds /\ Takes("ldc", 0, 1)
        BY PlainDomain, Groups, LoadTakes
      <4> QED  BY <1>2, <3>1, <4>1, PlainMoves, LoadAre DEF Result, E
    <3>2. CASE insn.kind = "new_resolved"
      BY <1>2, <3>2, KindMoves, CastEffects DEF Result, E
    <3> QED  BY <1>5, <3>1, <3>2
  <2> QED  BY <1>2, <2>1, <2>2, <2>3, PushStep
<1>6. CASE insn.kind = "multianewarray"
  <2>1. Done(insn, <<At(m, 2), At(m, 1)>>, <<v>>,
             NEXT_of([Popped(m, 1) EXCEPT !.mem[m.sp - 1] = v], "L", v))
    BY <1>6 DEF Allocated
  <2>2. Flushed(Values, m) /\ StackOk(Values)
    BY <1>1, <1>6, AwayIs, FrameIs DEF Unspilled
  <2>3. Moves(Effect(insn), 2, 1) /\ Result(insn) = "L"
    <3>1. "multianewarray" \in PlainKinds /\ Takes("multianewarray", 2, 1)
      BY PlainDomain, Groups, ObjectTakes
    <3> QED  BY <1>2, <1>6, <3>1, PlainMoves, ObjectAre DEF Result, E
  <2>4. 2 \in 0..Len(Values) /\ Len(Values) \in Nat /\ Len(Values) <= StackLimit
    BY <1>3, <2>3, OperandsAre, FrameIs
  <2>5. At(m, 2) = Top(Values, 2) /\ At(m, 1) = Top(Values, 1)
    <3>1. 1 \in 1..Len(Values) /\ 2 \in 1..Len(Values)
      BY <2>4
    <3> QED  BY <2>2, <3>1, InMemory
  <2>6. RightOperands(<<At(m, 2), At(m, 1)>>)
    BY <1>6, <2>5, RightTwo
  <2> DEFINE b == Popped(m, 1)
             q == [b EXCEPT !.mem[m.sp - 1] = v]
  <2>7. b \in Machine /\ b.sp = Len(Values) - 1 /\ b.mem = m.mem
    BY <1>2, <2>4, PoppedIs
  <2>8. m.sp - 1 \in 1..StackLimit /\ v \in Val
    BY <1>2, <1>4, <2>4, LimitIs DEF ValueOk
  <2> HIDE DEF b
  <2>9. q \in Machine /\ q.sp = b.sp /\ \A k \in 1..StackLimit : k # m.sp - 1 => q.mem[k] = b.mem[k]
    BY <2>7, <2>8, WriteIs
  <2> HIDE DEF q
  <2>10. q.sp = Len(Values) - 2 + 1 /\ SlotsHold(Values, q, Len(Values) - 2)
    <3>1. ASSUME NEW k \in 1..(Len(Values) - 2)  PROVE q.mem[k] = Values[k]
      <4>1. k \in 1..StackLimit /\ k # m.sp - 1 /\ k \in 1..Len(Values)
        BY <1>2, <2>4, LimitIs
      <4> QED  BY <2>2, <2>7, <2>9, <4>1 DEF Flushed, SlotsHold
    <3> QED  BY <2>4, <2>7, <2>9, <3>1 DEF SlotsHold
  <2>11. /\ StackOk(<<v>>) /\ KindsOf(<<v>>) = Effect(insn).push
         /\ Ready(After(insn, <<v>>), NEXT_of(q, Result(insn), v))
    BY <1>2, <1>4, <2>3, <2>9, <2>10, OneOnTop
  <2>12. Done(insn, <<At(m, 2), At(m, 1)>>, <<v>>, NEXT_of(q, Result(insn), v))
    BY <2>1, <2>3 DEF q, b
  <2> QED  BY <1>2, <2>6, <2>11, <2>12, DoneStep
<1>7. CASE insn.kind \in {"newarray", "anewarray_resolved"}
  <2>1. Done(insn, <<m.tos>>, <<v>>, NEXT_of(m, "L", v))
    BY <1>7 DEF Allocated
  <2>2. Holds(Values, m) /\ m.table = "I" /\ Effect(insn) = E(<<"I">>, <<"L">>)
    BY <1>1, <1>7, RawHolds
  <2>3. Moves(Effect(insn), 1, 1) /\ Result(insn) = "L"
    BY <2>2, Moves11, Letters DEF Result, E
  <2> QED  BY <1>2, <1>4, <2>1, <2>2, <2>3, UnaryStep
<1> QED  BY <1>3, <1>5, <1>6, <1>7 DEF Allocating

LEMMA AcquiredStep ==
  ASSUME IInv, Acquired
  PROVE  IInv'
<1>1. phase = "monitor" /\ phase \in Elsewhere /\ phase # "call" /\ ~Unspilled(phase, insn)
  BY DEF Acquired, Elsewhere, Unspilled
<1>2. /\ InHand(insn, types) /\ KindFits(phase, insn) /\ m \in Machine /\ m.sp = Len(Values)
      /\ Flushed(Values, m)
  BY <1>1, AwayIs
<1>3. insn.kind = "monitorenter"
  BY <1>1, <1>2 DEF KindFits
<1>4. CASE Enter(insn, m, "suspended")
  BY <1>1, <1>3, <1>4, SuspendStep
<1>5. CASE Done(insn, <<At(m, 1)>>, <<>>, STACK_POLYMORPHIC(Popped(m, 1), TypesAfter(insn)))
  <2>1. Moves(Effect(insn), 1, 0)
    BY <1>2, <1>3, ShapesOfKinds DEF TakingOne
  <2>2. 1 \in 0..Len(Values) /\ Len(Values) \in Nat
    BY <1>2, <2>1, OperandsAre, FrameIs DEF InHand
  <2>3. At(m, 1) = Top(Values, 1)
    BY <1>2, <2>2, FrameIs, InMemory
  <2>4. RightOperands(<<At(m, 1)>>)
    BY <1>3, <2>3, RightOne
  <2> DEFINE q == Popped(m, 1)
  <2>5. q \in Machine /\ q.sp = Len(Values) - 1 /\ q.mem = m.mem
    BY <1>2, <2>2, PoppedIs
  <2> HIDE DEF q
  <2>6. SlotsHold(Values, q, Len(Values) - 1)
    <3>1. \A k \in 1..(Len(Values) - 1) : k \in 1..Len(Values)
      BY <2>2
    <3> QED  BY <1>2, <2>5, <3>1 DEF Flushed, SlotsHold
  <2>7. Done(insn, <<At(m, 1)>>, <<>>, STACK_POLYMORPHIC(q, TypesAfter(insn)))
    BY <1>5 DEF q
  <2> QED  BY <1>2, <2>1, <2>4, <2>5, <2>6, <2>7, PopStep
<1> QED  BY <1>4, <1>5 DEF Acquired

LEMMA CalleeReturnsStep ==
  ASSUME IInv, CalleeReturns
  PROVE  IInv'
<1>1. phase = "call" /\ phase \in Elsewhere
  BY DEF CalleeReturns, Elsewhere
<1>2. /\ InHand(insn, types) /\ KindFits(phase, insn) /\ Away(Values, m, phase, insn)
      /\ m \in Machine /\ m.sp = Len(Values)
  BY <1>1, AwayIs
<1>3. insn.op \in InvokeKinds /\ Allowed(insn, types) /\ insn.op \notin StackKinds
  BY <1>1, <1>2 DEF KindFits, InHand
<1> DEFINE p == Len(Effect(insn).pop)
<1>4. /\ Effect(insn) = E(Receiver(insn.op) \o insn.args, Pushed(insn.ret))
      /\ Effect(insn).pop \in Seq(TypeKinds)
      /\ Effect(insn).push \in Seq(TypeKinds) /\ Len(Effect(insn).push) = IF insn.ret = "V" THEN 0 ELSE 1
      /\ insn.ret \in TypeKinds \union {"V"}
  BY <1>3, InvokeEffects, AllowedIs
<1>5. p \in Nat
  BY <1>4, LenProperties
<1>6. Arguments = p /\ SlotsHold(Values, m, Len(Values) - p)
  BY <1>1, <1>2 DEF Arguments, Away, UpToDate
<1>7. CASE insn.ret = "V"
  <2>1. Done(insn, <<>>, <<>>, Resumed(m, TypesAfter(insn)))
    BY <1>7 DEF CalleeReturns
  <2>2. Moves(Effect(insn), p, 0)
    BY <1>4, <1>7 DEF Moves
  <2> QED  BY <1>2, <1>5, <1>6, <2>1, <2>2, RightNone, PoppedStep
<1>8. CASE insn.ret # "V"
  <2> DEFINE v == Fresh(insn.ret)
             mm == [m EXCEPT !.mem[m.sp - p + 1] = v]
             r == After(insn, <<v>>)
  <2>1. Done(insn, <<>>, <<v>>, Resumed(mm, TypesAfter(insn)))
    BY <1>6, <1>8 DEF CalleeReturns
  <2>2. Moves(Effect(insn), p, 1) /\ Effect(insn).push = <<insn.ret>> /\ insn.ret \in TypeKinds
    BY <1>4, <1>8 DEF Moves, E, Pushed
  <2>3. p \in 0..Len(Values) /\ Len(Values) - p + 1 <= StackLimit /\ Len(Values) \in Nat
    BY <1>3, <1>5, <2>2, OperandsAre, FrameIs
  <2>4. ValueOk(v) /\ v.t = insn.ret
    BY <2>2, FreshIs
  <2> HIDE DEF v, p
  <2>5. StackOk(<<v>>) /\ KindsOf(<<v>>) = Effect(insn).push
    BY <2>2, <2>4, NoneAndOne
  <2>6. /\ StackOk(r) /\ Len(r) = Len(Values) - p + 1 /\ KindsOf(r) = TypesAfter(insn)
        /\ \A k \in 1..(Len(Values) - p) : r[k] = Values[k]
        /\ \A k \in 1..1 : r[Len(Values) - p + k] = <<v>>[k]
    <3>1. 1 \in Nat
      OBVIOUS
    <3> HIDE DEF r
    <3> QED  BY <1>3, <1>5, <2>2, <2>5, <3>1, AfterIs DEF r
  <2> HIDE DEF r
  <2>7. m.sp - p + 1 = Len(r) /\ Len(r) \in 1..StackLimit /\ Len(r) \in 0..StackLimit /\ v \in Val
    BY <1>2, <2>3, <2>4, <2>6, LimitIs DEF ValueOk
  <2>8. /\ mm \in Machine /\ mm.mem[Len(r)] = v
        /\ \A k \in 1..StackLimit : k # Len(r) => mm.mem[k] = m.mem[k]
    BY <1>2, <2>7, WriteIs
  <2> DEFINE q == [mm EXCEPT !.sp = Len(r)]
  <2> HIDE DEF mm
  <2>9. q \in Machine /\ q.sp = Len(r) /\ q.mem = mm.mem
    BY <2>7, <2>8, MoveIs
  <2>10. Len(TypesAfter(insn)) = Len(r)
    BY <2>6, StackIs
  <2>11. Resumed(mm, TypesAfter(insn)) = STACK_POLYMORPHIC(q, KindsOf(r))
    BY <2>6, <2>10 DEF Resumed
  <2> HIDE DEF q
  <2>12. Flushed(r, q)
    <3>1. ASSUME NEW k \in 1..Len(r)  PROVE q.mem[k] = r[k]
      <4>1. CASE k = Len(r)
        <5>1. 1 \in 1..1 /\ <<v>>[1] = v
          OBVIOUS
        <5> QED  BY <2>6, <2>8, <2>9, <4>1, <5>1
      <4>2. CASE k # Len(r)
        <5>1. k \in 1..(Len(Values) - p) /\ k \in 1..StackLimit
          BY <2>3, <2>6, <2>7, <4>2, LimitIs
        <5> QED  BY <1>6, <2>6, <2>8, <2>9, <4>2, <5>1 DEF SlotsHold
      <4> QED  BY <4>1, <4>2
    <3> QED  BY <2>9, <3>1 DEF Flushed, SlotsHold
  <2>13. Ready(r, STACK_POLYMORPHIC(q, KindsOf(r)))
    BY <2>6, <2>12, PolyReady
  <2> QED  BY <1>2, <2>1, <2>5, <2>11, <2>13, RightNone, DoneStep DEF r
<1> QED  BY <1>7, <1>8

LEMMA ExceptionStep ==
  ASSUME IInv, find_exception_handler
  PROVE  IInv'
<1> DEFINE v == Fresh("L")
           mm == [m EXCEPT !.mem[1] = v]
           q == [mm EXCEPT !.sp = 1]
<1>1. phase \in CanThrow
  BY DEF find_exception_handler
<1>2. m \in Machine
  <2>1. phase \notin {"run", "left", "crashed"}
    BY <1>1 DEF CanThrow
  <2> QED  BY <2>1 DEF IInv, Away
<1>3. ValueOk(v) /\ v.t = "L" /\ v \in Val
  BY FreshIs, Letters DEF ValueOk
<1>4. /\ types' = <<"L">> /\ words' = WordsOfValues(<<v>>) /\ m' = Resumed(mm, <<"L">>) /\ insn' = NoInsn
      /\ phase' = "run" /\ n' = n + 1 /\ ok' = ok /\ gc' = gc
  BY DEF find_exception_handler
<1> HIDE DEF v
<1>5. StackOk(<<v>>) /\ KindsOf(<<v>>) = <<"L">> /\ Len(<<v>>) = 1 /\ <<v>>[1] = v
  BY <1>3, NoneAndOne
<1>6. 1 \in 1..StackLimit /\ 1 \in 0..StackLimit
  BY LimitIs
<1>7. mm \in Machine /\ mm.mem[1] = v
  BY <1>2, <1>3, <1>6, WriteIs
<1> HIDE DEF mm
<1>8. q \in Machine /\ q.sp = 1 /\ q.mem = mm.mem
  BY <1>6, <1>7, MoveIs
<1>9. m' = STACK_POLYMORPHIC(q, <<"L">>)
  <2>1. Len(<<"L">>) = 1
    OBVIOUS
  <2> QED  BY <1>4, <2>1 DEF Resumed
<1> HIDE DEF q
<1>10. Flushed(<<v>>, q)
  <2>1. \A k \in 1..1 : k = 1
    OBVIOUS
  <2> QED  BY <1>5, <1>7, <1>8, <2>1 DEF Flushed, SlotsHold
<1>11. Ready(<<v>>, m')
  BY <1>5, <1>9, <1>10, PolyReady
<1>12. ok' = TRUE
  BY <1>4 DEF IInv
<1> QED  BY <1>4, <1>5, <1>11, <1>12, NewStep

LEMMA NoHandlerStep ==
  ASSUME IInv, NoHandler \/ \E i \in Current : NullHandler(i)
  PROVE  IInv'
<1>1. phase' \in {"left", "crashed"} /\ UNCHANGED <<types, words, ok, gc, n>>
  BY DEF NoHandler, NullHandler, Enter
<1>2. ok' = TRUE
  BY <1>1 DEF IInv
<1> QED  BY <1>1, <1>2, LeftStep

-----------------------------------------------------------------------------
(***************************************************************************)
(* The stack instructions, in values and in words.                         *)
(***************************************************************************)
Uppermost(s, k) == SubSeq(s, Len(s) - k + 1, Len(s))
Depth(ts, k) == k + Cardinality({i \in 1..k : is_kind_wide(Top(ts, i))})
Extra(t) == IF is_kind_wide(t) THEN 1 ELSE 0

LEMMA WidesFinite ==
  ASSUME NEW ts, NEW k \in Nat
  PROVE  /\ IsFiniteSet({i \in 1..k : is_kind_wide(Top(ts, i))})
         /\ Cardinality({i \in 1..k : is_kind_wide(Top(ts, i))}) \in Nat
<1> DEFINE w == {i \in 1..k : is_kind_wide(Top(ts, i))}
<1>1. IsFiniteSet(1..k)
  BY FS_Interval
<1>2. w \in SUBSET (1..k)
  OBVIOUS
<1> HIDE DEF w
<1>3. IsFiniteSet(w)
  BY <1>1, <1>2, FS_Subset
<1>4. Cardinality(w) \in Nat
  BY <1>3, FS_CardinalityType
<1> QED  BY <1>3, <1>4 DEF w

LEMMA DepthStep ==
  ASSUME NEW ts, NEW k \in Nat
  PROVE  /\ Depth(ts, k) \in Nat /\ Depth(ts, k) >= k
         /\ Depth(ts, k + 1) = Depth(ts, k) + 1 + Extra(Top(ts, k + 1))
<1> DEFINE w(j) == {i \in 1..j : is_kind_wide(Top(ts, i))}
<1>1. IsFiniteSet(w(k)) /\ Cardinality(w(k)) \in Nat
  BY WidesFinite
<1>2. Depth(ts, k) = k + Cardinality(w(k)) /\ Depth(ts, k + 1) = k + 1 + Cardinality(w(k + 1))
  BY DEF Depth
<1>3. Cardinality(w(k + 1)) = Cardinality(w(k)) + Extra(Top(ts, k + 1))
  <2>1. CASE is_kind_wide(Top(ts, k + 1))
    <3>1. w(k + 1) = w(k) \union {k + 1} /\ k + 1 \notin w(k)
      BY <2>1
    <3>2. Cardinality(w(k) \union {k + 1}) = Cardinality(w(k)) + 1
      <4> HIDE DEF w
      <4> QED  BY <1>1, <3>1, FS_AddElement
    <3> HIDE DEF w
    <3> QED  BY <2>1, <3>1, <3>2 DEF Extra
  <2>2. CASE ~is_kind_wide(Top(ts, k + 1))
    <3>1. w(k + 1) = w(k)
      BY <2>2
    <3> HIDE DEF w
    <3> QED  BY <1>1, <2>2, <3>1 DEF Extra
  <2> QED  BY <2>1, <2>2
<1>4. Extra(Top(ts, k + 1)) \in {0, 1}
  BY DEF Extra
<1> HIDE DEF w
<1> QED  BY <1>1, <1>2, <1>3, <1>4

LEMMA DepthNone == ASSUME NEW ts  PROVE Depth(ts, 0) = 0
<1>1. {i \in 1..0 : is_kind_wide(Top(ts, i))} = {}
  OBVIOUS
<1> QED  BY <1>1, FS_EmptySet DEF Depth

(* The depths of the first four values. *)
LEMMA Depths ==
  ASSUME NEW ts
  PROVE  /\ Depth(ts, 0) = 0 /\ Depth(ts, 1) = 1 + Extra(Top(ts, 1))
         /\ Depth(ts, 2) = 2 + Extra(Top(ts, 1)) + Extra(Top(ts, 2))
         /\ Depth(ts, 3) = 3 + Extra(Top(ts, 1)) + Extra(Top(ts, 2)) + Extra(Top(ts, 3))
         /\ Depth(ts, 4) = 4 + Extra(Top(ts, 1)) + Extra(Top(ts, 2)) + Extra(Top(ts, 3)) + Extra(Top(ts, 4))
<1>1. \A k \in Nat : Depth(ts, k + 1) = Depth(ts, k) + 1 + Extra(Top(ts, k + 1))
  BY DepthStep
<1>2. \A k \in 1..4 : Extra(Top(ts, k)) \in {0, 1}
  BY DEF Extra
<1>3. Depth(ts, 0) = 0
  BY DepthNone
<1>4. Depth(ts, 0 + 1) = Depth(ts, 0) + 1 + Extra(Top(ts, 0 + 1))
  BY <1>1
<1>5. Depth(ts, 1 + 1) = Depth(ts, 1) + 1 + Extra(Top(ts, 1 + 1))
  BY <1>1
<1>6. Depth(ts, 2 + 1) = Depth(ts, 2) + 1 + Extra(Top(ts, 2 + 1))
  BY <1>1
<1>7. Depth(ts, 3 + 1) = Depth(ts, 3) + 1 + Extra(Top(ts, 3 + 1))
  BY <1>1
<1>8. 0 + 1 = 1 /\ 1 + 1 = 2 /\ 2 + 1 = 3 /\ 3 + 1 = 4
  OBVIOUS
<1> QED  BY <1>2, <1>3, <1>4, <1>5, <1>6, <1>7, <1>8

LEMMA CutIs ==
  ASSUME NEW S, NEW s \in Seq(S), NEW a \in 0..Len(s), NEW b \in a..Len(s)
  PROVE  /\ SubSeq(s, a + 1, b) \in Seq(S) /\ Len(SubSeq(s, a + 1, b)) = b - a
         /\ \A i \in 1..(b - a) : SubSeq(s, a + 1, b)[i] = s[a + i]
<1>1. Len(s) \in Nat /\ a + 1 \in Int /\ b \in Int
  BY LenProperties
<1>2. \A i \in (a + 1)..b : s[i] \in S
  BY <1>1, ElementOfSeq
<1>3. /\ SubSeq(s, a + 1, b) \in Seq(S)
      /\ Len(SubSeq(s, a + 1, b)) = IF a + 1 <= b THEN b - (a + 1) + 1 ELSE 0
      /\ \A i \in 1..(b - (a + 1) + 1) : SubSeq(s, a + 1, b)[i] = s[(a + 1) + i - 1]
  BY <1>1, <1>2, SubSeqProperties
<1>4. b - (a + 1) + 1 = b - a /\ \A i \in 1..(b - a) : (a + 1) + i - 1 = a + i
  BY <1>1
<1> QED  BY <1>1, <1>3, <1>4

LEMMA Ends ==
  ASSUME NEW S, NEW s \in Seq(S), NEW t \in Seq(S)
  PROVE  /\ SubSeq(s \o t, 1, Len(s)) = s
         /\ SubSeq(s \o t, Len(s) + 1, Len(s) + Len(t)) = t
         /\ Len(s \o t) = Len(s) + Len(t) /\ s \o t \in Seq(S)
<1> DEFINE u == s \o t
           f == SubSeq(u, 0 + 1, Len(s))
           g == SubSeq(u, Len(s) + 1, Len(s) + Len(t))
<1>1. Len(s) \in Nat /\ Len(t) \in Nat
  BY LenProperties
<1>2. /\ u \in Seq(S) /\ Len(u) = Len(s) + Len(t)
      /\ \A i \in 1..(Len(s) + Len(t)) : u[i] = IF i <= Len(s) THEN s[i] ELSE t[i - Len(s)]
  BY ConcatProperties
<1> HIDE DEF u
<1>3. 0 \in 0..Len(u) /\ Len(s) \in 0..Len(u) /\ Len(s) + Len(t) \in Len(s)..Len(u)
  BY <1>1, <1>2
<1>4. f \in Seq(S) /\ Len(f) = Len(s) - 0 /\ \A i \in 1..(Len(s) - 0) : f[i] = u[0 + i]
  BY <1>2, <1>3, CutIs
<1>5. /\ g \in Seq(S) /\ Len(g) = Len(s) + Len(t) - Len(s)
      /\ \A i \in 1..(Len(s) + Len(t) - Len(s)) : g[i] = u[Len(s) + i]
  BY <1>2, <1>3, CutIs
<1> HIDE DEF f, g
<1>6. f = s
  <2>1. Len(f) = Len(s) /\ \A i \in 1..Len(f) : f[i] = s[i]
    BY <1>1, <1>2, <1>4
  <2> QED  BY <1>4, <2>1, SeqEqual
<1>7. g = t
  <2>1. Len(g) = Len(t) /\ \A i \in 1..Len(g) : g[i] = u[Len(s) + i]
    BY <1>1, <1>5
  <2>2. \A i \in 1..Len(g) : Len(s) + i \in 1..(Len(s) + Len(t)) /\ ~(Len(s) + i <= Len(s)) /\ Len(s) + i - Len(s) = i
    BY <1>1, <2>1
  <2>3. \A i \in 1..Len(g) : g[i] = t[i]
    <3> TAKE i \in 1..Len(g)
    <3>1. g[i] = u[Len(s) + i]
      BY <2>1
    <3>2. u[Len(s) + i] = t[Len(s) + i - Len(s)]
      BY <1>2, <2>2
    <3> QED  BY <2>2, <3>1, <3>2
  <2> QED  BY <1>5, <2>1, <2>3, SeqEqual
<1> QED  BY <1>2, <1>6, <1>7 DEF u, f, g

InsertOfBlocks(a, x, b) == Insert(a \o (x \o b), Len(b), Len(x)) = (a \o b) \o (x \o b)

LEMMA InsertBlocks ==
  ASSUME NEW S, NEW a \in Seq(S), NEW x \in Seq(S), NEW b \in Seq(S)
  PROVE  InsertOfBlocks(a, x, b)
<1> DEFINE c == x \o b
           w == a \o c
           d == a \o x
<1>1. Len(a) \in Nat /\ Len(x) \in Nat /\ Len(b) \in Nat
  BY LenProperties
<1>2. c \in Seq(S) /\ Len(c) = Len(x) + Len(b) /\ d \in Seq(S) /\ Len(d) = Len(a) + Len(x)
  BY Ends
<1>3. w = d \o b /\ w = a \o c
  BY ConcatAssociative
<1> HIDE DEF c, w
<1>4. /\ SubSeq(w, 1, Len(a)) = a /\ SubSeq(w, Len(a) + 1, Len(a) + Len(c)) = c
      /\ Len(w) = Len(a) + Len(c)
  <2>1. /\ SubSeq(a \o c, 1, Len(a)) = a /\ SubSeq(a \o c, Len(a) + 1, Len(a) + Len(c)) = c
        /\ Len(a \o c) = Len(a) + Len(c)
    <3>1. a \in Seq(S) /\ c \in Seq(S)
      BY <1>2
    <3>2. \A s, t \in Seq(S) : /\ SubSeq(s \o t, 1, Len(s)) = s /\ Len(s \o t) = Len(s) + Len(t)
                               /\ SubSeq(s \o t, Len(s) + 1, Len(s) + Len(t)) = t
      BY Ends
    <3> QED  BY ONLY <3>1, <3>2
  <2> QED  BY <1>3, <2>1
<1> HIDE DEF d
<1>5. SubSeq(w, Len(d) + 1, Len(d) + Len(b)) = b
  <2>1. SubSeq(d \o b, Len(d) + 1, Len(d) + Len(b)) = b
    BY <1>2, Ends
  <2> QED  BY <1>3, <2>1
<1>6. /\ Len(w) - Len(b) - Len(x) = Len(a) /\ Len(w) - Len(b) + 1 = Len(d) + 1 /\ Len(w) = Len(d) + Len(b)
      /\ Len(w) - Len(b) - Len(x) + 1 = Len(a) + 1
  BY <1>1, <1>2, <1>4
<1>7. Insert(w, Len(b), Len(x)) = (a \o b) \o c
  BY <1>4, <1>5, <1>6 DEF Insert
<1> QED  BY <1>7 DEF w, c, InsertOfBlocks

(* A stack is cut into the values left alone, those passed over and those duplicated. *)
InThree(S, s, k, x, a, y, b) ==
  /\ a \in Seq(S) /\ y \in Seq(S) /\ b \in Seq(S) /\ Len(b) = k /\ Len(y) = x
  /\ s = a \o (y \o b) /\ Uppermost(s, k + x) = y \o b

LEMMA CutInThree ==
  ASSUME NEW S, NEW s \in Seq(S), NEW k \in Nat, NEW x \in Nat, k + x <= Len(s)
  PROVE  InThree(S, s, k, x, Drop(s, k + x), SubSeq(s, Len(s) - k - x + 1, Len(s) - k), Uppermost(s, k))
<1> DEFINE p == Len(s) - (k + x)
           q == Len(s) - k
           a == SubSeq(s, 0 + 1, p)
           y == SubSeq(s, p + 1, q)
           b == SubSeq(s, q + 1, Len(s))
           c == SubSeq(s, p + 1, Len(s))
<1>1. Len(s) \in Nat /\ p \in 0..Len(s) /\ q \in p..Len(s) /\ q \in 0..Len(s) /\ 0 \in 0..Len(s) /\ p \in 0..Len(s)
      /\ Len(s) \in q..Len(s) /\ Len(s) \in p..Len(s) /\ p + 1 \in 1..(Len(s) + 1) /\ q \in (p + 1 - 1)..Len(s)
      /\ p \in (1 - 1)..Len(s) /\ 1 \in 1..(Len(s) + 1)
  BY LenProperties
<1>2. a \in Seq(S) /\ y \in Seq(S) /\ b \in Seq(S) /\ Len(b) = Len(s) - q /\ Len(y) = q - p
  <2> HIDE DEF p, q
  <2>1. y \in Seq(S) /\ Len(y) = q - p
    BY <1>1, CutIs
  <2>2. b \in Seq(S) /\ Len(b) = Len(s) - q
    BY <1>1, CutIs
  <2>3. a \in Seq(S)
    <3>1. SubSeq(s, 0 + 1, p) \in Seq(S)
      BY <1>1, CutIs
    <3>2. 0 + 1 = 1
      OBVIOUS
    <3> QED  BY <3>1, <3>2
  <2> QED  BY <2>1, <2>2, <2>3
<1>3. y \o b = c
  <2> HIDE DEF p, q
  <2>1. p + 1 \in 1..(Len(s) + 1) /\ q \in ((p + 1) - 1)..Len(s) /\ Len(s) \in q..Len(s)
    BY <1>1
  <2>2. SubSeq(s, p + 1, q) \o SubSeq(s, q + 1, Len(s)) = SubSeq(s, p + 1, Len(s))
    BY ONLY s \in Seq(S), <2>1, ConcatAdjacentSubSeq
  <2> QED  BY <2>2
<1>4. a \o c = SubSeq(s, 1, Len(s))
  <2> HIDE DEF p, q
  <2>1. 0 + 1 = 1
    OBVIOUS
  <2> QED  BY <1>1, <2>1, ConcatAdjacentSubSeq
<1>5. SubSeq(s, 1, Len(s)) = s
  BY SubSeqFull
<1>6. a = Drop(s, k + x) /\ b = Uppermost(s, k) /\ c = Uppermost(s, k + x)
  BY <1>1 DEF Drop, Uppermost
<1>7. y = SubSeq(s, Len(s) - k - x + 1, Len(s) - k)
  BY <1>1
<1>8. Len(s) - q = k /\ q - p = x
  BY <1>1
<1> HIDE DEF a, y, b, c
<1>9. InThree(S, s, k, x, a, y, b)
  BY <1>2, <1>3, <1>4, <1>5, <1>6, <1>8 DEF InThree
<1> QED  BY <1>6, <1>7, <1>9

(* The words of the uppermost values of a stack. *)
LEMMA TopWords ==
  ASSUME NEW s, StackOk(s), NEW k \in 0..Len(s)
  PROVE  Len(WordsOfValues(Uppermost(s, k))) = Depth(KindsOf(s), k)
<1> DEFINE P == {j \in Nat : j <= Len(s) => Len(WordsOfValues(Uppermost(s, j))) = Depth(KindsOf(s), j)}
<1>1. /\ s \in Seq(Val) /\ Len(s) \in Nat /\ Len(KindsOf(s)) = Len(s)
      /\ \A i \in 1..Len(s) : ValueOk(s[i]) /\ KindsOf(s)[i] = s[i].t
  BY StackIs
<1>2. 0 \in P
  <2>1. Uppermost(s, 0) = <<>>
    <3>1. Len(s) - 0 + 1 \in Int /\ Len(s) \in Int /\ Len(s) < Len(s) - 0 + 1
      BY <1>1
    <3> QED  BY <3>1, SubSeqEmpty DEF Uppermost
  <2>2. Len(WordsOfValues(Uppermost(s, 0))) = 0
    BY <2>1, WordsEmpty
  <2> QED  BY <2>2, DepthNone
<1>3. ASSUME NEW j \in Nat, j \in P  PROVE j + 1 \in P
  <2> SUFFICES ASSUME j + 1 <= Len(s)
               PROVE  Len(WordsOfValues(Uppermost(s, j + 1))) = Depth(KindsOf(s), j + 1)
    OBVIOUS
  <2> DEFINE v == s[Len(s) - j]
             t == Uppermost(s, j)
  <2>1. Len(WordsOfValues(t)) = Depth(KindsOf(s), j)
    BY <1>1, <1>3
  <2>2. Len(s) - j \in 1..Len(s) /\ Len(s) \in (Len(s) - j)..Len(s) /\ Len(s) - (j + 1) + 1 = Len(s) - j
    BY <1>1
  <2>3. Uppermost(s, j + 1) = <<v>> \o t
    BY <1>1, <2>2, SubSeqRecursiveFirst DEF Uppermost
  <2>4. v \in Val /\ KindsOf(s)[Len(s) - j] = v.t /\ Top(KindsOf(s), j + 1) = v.t
    BY <1>1, <2>2 DEF ValueOk, Top
  <2>5. t \in Seq(Val)
    <3>1. Len(s) - j \in 0..Len(s) /\ Len(s) \in (Len(s) - j)..Len(s)
      BY <1>1
    <3> QED  BY <1>1, <3>1, CutIs DEF Uppermost
  <2> HIDE DEF t, v
  <2>6. <<v>> \in Seq(Val) /\ WordsOfValues(<<v>>) = WordsOfOne(v)
    <3>1. <<>> \in Seq(Val) /\ Append(<<>>, v) = <<v>> /\ <<v>> \in Seq(Val)
      BY <2>4, EmptySeq
    <3>2. WordsOfValues(<<v>>) = <<>> \o WordsOfOne(v)
      BY <2>4, <3>1, WordsAppend, WordsEmpty
    <3> QED  BY <2>4, <3>1, <3>2, OneType, ConcatEmptySeq
  <2>7. Len(WordsOfOne(v)) = 1 + Extra(v.t)
    BY DEF WordsOfOne, IsWideValue, Extra
  <2>8. WordsOfValues(<<v>> \o t) = WordsOfOne(v) \o WordsOfValues(t)
    BY <2>5, <2>6, WordsConcat
  <2>9. Len(WordsOfOne(v) \o WordsOfValues(t)) = 1 + Extra(v.t) + Len(WordsOfValues(t))
    BY <2>4, <2>5, <2>7, OneType, WordsType, ConcatProperties
  <2>10. Depth(KindsOf(s), j + 1) = Depth(KindsOf(s), j) + 1 + Extra(v.t) /\ Depth(KindsOf(s), j) \in Nat
    BY <2>4, DepthStep
  <2>11. Extra(v.t) \in {0, 1}
    BY DEF Extra
  <2>12. Len(WordsOfValues(Uppermost(s, j + 1))) = 1 + Extra(v.t) + Len(WordsOfValues(t))
    BY <2>3, <2>8, <2>9, Zenon
  <2> HIDE DEF P
  <2> QED  BY <2>1, <2>10, <2>11, <2>12
<1>4. Nat \subseteq P
  <2> HIDE DEF P
  <2> QED  BY <1>2, <1>3, NatIn
<1> QED  BY <1>1, <1>4

LEMMA InsertWords ==
  ASSUME NEW s, StackOk(s), NEW k \in Nat, NEW x \in Nat, k + x <= Len(s)
  PROVE  WordsOfValues(Insert(s, k, x)) =
           Insert(WordsOfValues(s), Depth(KindsOf(s), k), Depth(KindsOf(s), k + x) - Depth(KindsOf(s), k))
<1> DEFINE a == Drop(s, k + x)
           b == Uppermost(s, k)
           y == SubSeq(s, Len(s) - k - x + 1, Len(s) - k)
           W(z) == WordsOfValues(z)
<1>1. s \in Seq(Val) /\ Len(s) \in Nat
  BY StackIs
<1>2. /\ a \in Seq(Val) /\ y \in Seq(Val) /\ b \in Seq(Val) /\ Len(b) = k /\ Len(y) = x
      /\ s = a \o (y \o b) /\ Uppermost(s, k + x) = y \o b
  <2>1. InThree(Val, s, k, x, a, y, b)
    BY <1>1, CutInThree
  <2> QED  BY <2>1 DEF InThree
<1>3. b = Uppermost(s, k)
  OBVIOUS
<1> HIDE DEF a, b, y
<1>4. Insert(a \o (y \o b), Len(b), Len(y)) = (a \o b) \o (y \o b)
  <2>1. InsertOfBlocks(a, y, b)
    BY <1>2, InsertBlocks
  <2> QED  BY <2>1 DEF InsertOfBlocks
<1>5. Insert(s, k, x) = (a \o b) \o (y \o b)
  BY <1>2, <1>4
<1>6. y \o b \in Seq(Val) /\ a \o b \in Seq(Val)
  BY <1>2, ConcatProperties
<1>7. W(y \o b) = W(y) \o W(b) /\ W(a \o b) = W(a) \o W(b)
  BY <1>2, WordsConcat
<1>8. W(s) = W(a) \o (W(y) \o W(b)) /\ W(Insert(s, k, x)) = (W(a) \o W(b)) \o (W(y) \o W(b))
  BY <1>2, <1>5, <1>6, <1>7, WordsConcat
<1>9. W(a) \in Seq(Word) /\ W(y) \in Seq(Word) /\ W(b) \in Seq(Word)
  BY <1>2, WordsType
<1>10. k \in 0..Len(s) /\ k + x \in 0..Len(s)
  BY <1>1
<1>11. Len(W(b)) = Depth(KindsOf(s), k) /\ Len(W(y \o b)) = Depth(KindsOf(s), k + x)
  BY <1>2, <1>3, <1>10, TopWords
<1> HIDE DEF W
<1>12. Len(W(y \o b)) = Len(W(y)) + Len(W(b)) /\ Len(W(y)) \in Nat /\ Len(W(b)) \in Nat
  BY <1>7, <1>9, ConcatProperties, LenProperties
<1>13. Depth(KindsOf(s), k + x) - Depth(KindsOf(s), k) = Len(W(y))
  BY <1>11, <1>12
<1>14. Insert(W(a) \o (W(y) \o W(b)), Len(W(b)), Len(W(y))) = (W(a) \o W(b)) \o (W(y) \o W(b))
  <2>1. InsertOfBlocks(W(a), W(y), W(b))
    BY <1>9, InsertBlocks
  <2> QED  BY <2>1 DEF InsertOfBlocks
<1>15. W(Insert(s, k, x)) = Insert(W(s), Depth(KindsOf(s), k), Depth(KindsOf(s), k + x) - Depth(KindsOf(s), k))
  BY <1>8, <1>11, <1>13, <1>14
<1> QED  BY <1>15 DEF W

LEMMA DropWords ==
  ASSUME NEW s, StackOk(s), NEW k \in 0..Len(s)
  PROVE  /\ WordsOfValues(Drop(s, k)) = Drop(WordsOfValues(s), Depth(KindsOf(s), k))
         /\ WordsOfValues(s) = WordsOfValues(Drop(s, k)) \o WordsOfValues(Uppermost(s, k))
<1> DEFINE a == Drop(s, 0 + k)
           c == Uppermost(s, 0 + k)
           y == SubSeq(s, Len(s) - 0 - k + 1, Len(s) - 0)
           b == Uppermost(s, 0)
           w == WordsOfValues(a)
           u == WordsOfValues(c)
<1>1. s \in Seq(Val) /\ Len(s) \in Nat
  BY StackIs
<1>2. 0 \in Nat /\ k \in Nat /\ 0 + k <= Len(s) /\ 0 + k = k
  BY <1>1
<1>3. a \in Seq(Val) /\ y \in Seq(Val) /\ b \in Seq(Val) /\ s = a \o (y \o b) /\ c = y \o b
  <2>1. InThree(Val, s, 0, k, a, y, b)
    BY <1>1, <1>2, CutInThree
  <2> QED  BY <1>2, <2>1 DEF InThree
<1> HIDE DEF a, c, y, b
<1>4. c \in Seq(Val) /\ s = a \o c
  BY <1>3, ConcatProperties
<1>5. w \in Seq(Word) /\ u \in Seq(Word) /\ WordsOfValues(s) = w \o u
  BY <1>3, <1>4, WordsType, WordsConcat
<1>6. Len(u) = Depth(KindsOf(s), k)
  BY <1>2, TopWords DEF c
<1> HIDE DEF w, u
<1>7. SubSeq(w \o u, 1, Len(w)) = w /\ Len(w \o u) = Len(w) + Len(u) /\ Len(w) \in Nat /\ Len(u) \in Nat
  BY <1>5, Ends, LenProperties
<1>8. Drop(w \o u, Len(u)) = w
  <2>1. Len(w \o u) - Len(u) = Len(w)
    BY <1>7
  <2> QED  BY <1>7, <2>1 DEF Drop
<1> QED  BY <1>2, <1>5, <1>6, <1>8 DEF w, u, a, c

Inserted(S, r, s, l, k, x) ==
  /\ r \in Seq(S) /\ Len(r) = l + k /\ l \in Nat
  /\ \A i \in 1..(l - k - x) : r[i] = s[i]
  /\ \A i \in 1..k : r[l - k - x + i] = s[l - k + i]
  /\ \A i \in 1..(k + x) : r[l - x + i] = s[l - k - x + i]

LEMMA InsertIs ==
  ASSUME NEW S, NEW s \in Seq(S), NEW k \in Nat, NEW x \in Nat, k + x <= Len(s)
  PROVE  Inserted(S, Insert(s, k, x), s, Len(s), k, x)
<1> DEFINE p == Len(s) - k - x
           q == Len(s) - k
           a == SubSeq(s, 0 + 1, p)
           b == SubSeq(s, q + 1, Len(s))
           c == SubSeq(s, p + 1, Len(s))
           d == a \o b
           r == Insert(s, k, x)
<1>1. /\ Len(s) \in Nat /\ p \in 0..Len(s) /\ q \in 0..Len(s) /\ 0 \in 0..Len(s)
      /\ Len(s) \in q..Len(s) /\ Len(s) \in p..Len(s) /\ p - 0 = p /\ Len(s) - q = k /\ Len(s) - p = k + x
  BY LenProperties
<1>2. r = d \o c
  BY DEF Insert
<1> HIDE DEF p, q, r
<1>3. a \in Seq(S) /\ Len(a) = p /\ \A i \in 1..p : a[i] = s[0 + i]
  BY <1>1, CutIs
<1>4. b \in Seq(S) /\ Len(b) = k /\ \A i \in 1..k : b[i] = s[q + i]
  BY <1>1, CutIs
<1>5. c \in Seq(S) /\ Len(c) = k + x /\ \A i \in 1..(k + x) : c[i] = s[p + i]
  BY <1>1, CutIs
<1> HIDE DEF a, b, c
<1>6. /\ d \in Seq(S) /\ Len(d) = p + k
      /\ \A i \in 1..(p + k) : d[i] = IF i <= p THEN a[i] ELSE b[i - p]
  <2>1. /\ d \in Seq(S) /\ Len(d) = Len(a) + Len(b)
        /\ \A i \in 1..(Len(a) + Len(b)) : d[i] = IF i <= Len(a) THEN a[i] ELSE b[i - Len(a)]
    BY <1>3, <1>4, ConcatProperties, Zenon
  <2> QED  BY <1>3, <1>4, <2>1, Zenon
<1> HIDE DEF d
<1>7. /\ r \in Seq(S) /\ Len(r) = p + k + (k + x)
      /\ \A i \in 1..(p + k + (k + x)) : r[i] = IF i <= p + k THEN d[i] ELSE c[i - (p + k)]
  <2>1. /\ d \o c \in Seq(S) /\ Len(d \o c) = Len(d) + Len(c)
        /\ \A i \in 1..(Len(d) + Len(c)) : (d \o c)[i] = IF i <= Len(d) THEN d[i] ELSE c[i - Len(d)]
    BY <1>5, <1>6, ConcatProperties, Zenon
  <2> QED  BY <1>2, <1>5, <1>6, <2>1, Zenon
<1>8. \A i \in 1..p : r[i] = s[i]
  <2> TAKE i \in 1..p
  <2>1. i \in 1..(p + k + (k + x)) /\ i <= p + k /\ i \in 1..(p + k) /\ i <= p /\ 0 + i = i
    BY <1>1
  <2> QED  BY <1>3, <1>6, <1>7, <2>1
<1>9. \A i \in 1..k : r[p + i] = s[q + i]
  <2> TAKE i \in 1..k
  <2> DEFINE j == p + i
  <2>1. j \in 1..(p + k + (k + x)) /\ j <= p + k /\ j \in 1..(p + k) /\ ~(j <= p) /\ j - p = i
    BY <1>1
  <2> HIDE DEF j
  <2>2. r[j] = d[j]
    BY <1>7, <2>1
  <2>3. d[j] = b[j - p]
    BY <1>6, <2>1
  <2> QED  BY <1>4, <2>1, <2>2, <2>3 DEF j
<1>10. \A i \in 1..(k + x) : r[(p + k) + i] = s[p + i]
  <2> TAKE i \in 1..(k + x)
  <2> DEFINE j == (p + k) + i
  <2>1. j \in 1..(p + k + (k + x)) /\ ~(j <= p + k) /\ j - (p + k) = i
    BY <1>1
  <2> HIDE DEF j
  <2>2. r[j] = c[j - (p + k)]
    BY <1>7, <2>1
  <2> QED  BY <1>5, <2>1, <2>2 DEF j
<1>11. p = Len(s) - k - x /\ q = Len(s) - k /\ p + k = Len(s) - x /\ p + k + (k + x) = Len(s) + k
  BY <1>1 DEF p, q
<1> QED  BY <1>1, <1>7, <1>8, <1>9, <1>10, <1>11 DEF r, Inserted

LEMMA InsertOk ==
  ASSUME NEW s, StackOk(s), NEW k \in Nat, NEW x \in Nat, k + x <= Len(s), Len(s) + k <= StackLimit
  PROVE  StackOk(Insert(s, k, x)) /\ KindsOf(Insert(s, k, x)) = Insert(KindsOf(s), k, x)
<1> DEFINE r == Insert(s, k, x)
           t == Insert(KindsOf(s), k, x)
           l == Len(s)
<1>1. /\ s \in Seq(Val) /\ l \in Nat /\ KindsOf(s) \in Seq(TypeKinds) /\ Len(KindsOf(s)) = l
      /\ \A i \in 1..l : ValueOk(s[i]) /\ KindsOf(s)[i] = s[i].t
  BY StackIs
<1>2. /\ r \in Seq(Val) /\ Len(r) = l + k
      /\ \A i \in 1..(l - k - x) : r[i] = s[i]
      /\ \A i \in 1..k : r[l - k - x + i] = s[l - k + i]
      /\ \A i \in 1..(k + x) : r[l - x + i] = s[l - k - x + i]
  <2>1. Inserted(Val, r, s, l, k, x)
    BY <1>1, InsertIs
  <2> QED  BY <2>1 DEF Inserted
<1>3. /\ t \in Seq(TypeKinds) /\ Len(t) = l + k
      /\ \A i \in 1..(l - k - x) : t[i] = KindsOf(s)[i]
      /\ \A i \in 1..k : t[l - k - x + i] = KindsOf(s)[l - k + i]
      /\ \A i \in 1..(k + x) : t[l - x + i] = KindsOf(s)[l - k - x + i]
  <2>1. Inserted(TypeKinds, t, KindsOf(s), l, k, x)
    BY <1>1, InsertIs
  <2> QED  BY <2>1 DEF Inserted
<1> HIDE DEF r, t, l
<1>4. ASSUME NEW i \in 1..(l + k)  PROVE \E j \in 1..l : r[i] = s[j] /\ t[i] = KindsOf(s)[j]
  <2>0. k + x <= l
    BY DEF l
  <2>1. CASE i <= l - k - x
    <3>1. i \in 1..(l - k - x) /\ i \in 1..l
      BY <1>1, <2>0, <2>1
    <3> QED  BY <1>2, <1>3, <3>1
  <2>2. CASE ~(i <= l - k - x) /\ i <= l - x
    <3> DEFINE j == i - (l - k - x)
    <3>1. j \in 1..k /\ l - k - x + j = i /\ l - k + j \in 1..l
      BY <1>1, <2>0, <2>2
    <3> HIDE DEF j
    <3>2. r[l - k - x + j] = s[l - k + j] /\ t[l - k - x + j] = KindsOf(s)[l - k + j]
      BY <1>2, <1>3, <3>1
    <3> QED  BY <3>1, <3>2
  <2>3. CASE ~(i <= l - x)
    <3> DEFINE j == i - (l - x)
    <3>1. j \in 1..(k + x) /\ l - x + j = i /\ l - k - x + j \in 1..l
      BY <1>1, <2>0, <2>3
    <3> HIDE DEF j
    <3>2. r[l - x + j] = s[l - k - x + j] /\ t[l - x + j] = KindsOf(s)[l - k - x + j]
      BY <1>2, <1>3, <3>1
    <3> QED  BY <3>1, <3>2
  <2> QED  BY <2>1, <2>2, <2>3
<1>5. \A i \in 1..Len(r) : ValueOk(r[i]) /\ t[i] = r[i].t
  <2> SUFFICES ASSUME NEW i \in 1..(l + k)  PROVE ValueOk(r[i]) /\ t[i] = r[i].t
    BY <1>2
  <2>1. PICK j \in 1..l : r[i] = s[j] /\ t[i] = KindsOf(s)[j]
    BY <1>4
  <2>2. ValueOk(s[j]) /\ KindsOf(s)[j] = s[j].t
    BY <1>1
  <2> QED  BY <2>1, <2>2
<1>6. Len(r) <= StackLimit
  BY <1>2 DEF l
<1>7. StackOk(r)
  BY <1>2, <1>5, <1>6, StackFrom
<1>8. KindsOf(r) \in Seq(TypeKinds) /\ Len(KindsOf(r)) = Len(r) /\ \A i \in 1..Len(r) : KindsOf(r)[i] = r[i].t
  BY <1>7, StackIs
<1>9. Len(KindsOf(r)) = Len(t) /\ \A i \in 1..Len(KindsOf(r)) : KindsOf(r)[i] = t[i]
  BY <1>2, <1>3, <1>5, <1>8
<1>10. KindsOf(r) = t
  BY <1>3, <1>8, <1>9, SeqEqual
<1> QED  BY <1>7, <1>10 DEF r, t

DupFamily == StackKinds \ {"pop", "pop2", "swap"}
Taken(k) == WordsOf(k)[1]
Over(k) == WordsOf(k)[2]

LEMMA TakenAre ==
  /\ Taken("dup") = 1 /\ Over("dup") = 0
  /\ Taken("dup_x1") = 1 /\ Over("dup_x1") = 1
  /\ Taken("dup_x2") = 1 /\ Over("dup_x2") = 2
  /\ Taken("dup2") = 2 /\ Over("dup2") = 0
  /\ Taken("dup2_x1") = 2 /\ Over("dup2_x1") = 1
  /\ Taken("dup2_x2") = 2 /\ Over("dup2_x2") = 2
  /\ Taken("pop") = 1 /\ Over("pop") = 0
  /\ Taken("pop2") = 2 /\ Over("pop2") = 0
  /\ Taken("swap") = 1 /\ Over("swap") = 1
<1>1. \A k \in StackKinds : WordsOf(k) = IF k \in {"dup", "pop"} THEN <<1, 0>> ELSE IF k \in {"dup_x1", "swap"} THEN <<1, 1>>
       ELSE IF k = "dup_x2" THEN <<1, 2>> ELSE IF k \in {"dup2", "pop2"} THEN <<2, 0>>
       ELSE IF k = "dup2_x1" THEN <<2, 1>> ELSE <<2, 2>>
  BY DEF WordsOf, StackKinds
<1> QED  BY <1>1 DEF Taken, Over, StackKinds

LEMMA TakenBounds == ASSUME NEW k \in StackKinds  PROVE Taken(k) \in 1..2 /\ Over(k) \in 0..2
BY TakenAre DEF StackKinds

(* An instruction that splits no value works on whole ones. *)
LEMMA WholeDepths ==
  ASSUME NEW ts \in Seq(TypeKinds), NEW op \in StackKinds, KeepsValuesWhole(op, ts)
  PROVE  \E b, c \in 0..4 : /\ b <= Len(ts) /\ c <= Len(ts)
                            /\ Depth(ts, b) = Taken(op) /\ Depth(ts, c) = Taken(op) + Over(op)
<1>1. Taken(op) \in Boundaries(ts) /\ Taken(op) + Over(op) \in Boundaries(ts)
  BY DEF KeepsValuesWhole, Taken, Over
<1>2. \A d \in Boundaries(ts) : \E b \in 0..Len(ts) : Depth(ts, b) = d
  BY DEF Boundaries, Depth
<1>3. PICK b \in 0..Len(ts) : Depth(ts, b) = Taken(op)
  BY <1>1, <1>2
<1>4. PICK c \in 0..Len(ts) : Depth(ts, c) = Taken(op) + Over(op)
  BY <1>1, <1>2
<1>5. Len(ts) \in Nat /\ b \in Nat /\ c \in Nat /\ b <= Len(ts) /\ c <= Len(ts)
  BY LenProperties
<1>6. Depth(ts, b) >= b /\ Depth(ts, c) >= c
  BY <1>5, DepthStep
<1>7. Taken(op) \in 1..2 /\ Over(op) \in 0..2
  BY TakenBounds
<1>8. b \in 0..4 /\ c \in 0..4
  BY <1>3, <1>4, <1>5, <1>6, <1>7
<1> QED  BY <1>3, <1>4, <1>5, <1>8

DupFits(op, ts, k) ==
  /\ k \in DupFamily /\ DupCase(op, ts) = DupOf(k, Taken(k), Over(k))
  /\ Taken(k) + Over(k) <= Len(ts) /\ Taken(k) <= Taken(op)
  /\ Depth(ts, Taken(k)) = Taken(op) /\ Depth(ts, Taken(k) + Over(k)) = Taken(op) + Over(op)
  /\ k = "dup2" => op = "dup2" /\ ~is_kind_wide(Top(ts, 1))

LEMMA DupIs ==
  ASSUME NEW ts \in Seq(TypeKinds), NEW op \in DupFamily, KeepsValuesWhole(op, ts)
  PROVE  \E k \in DupFamily : DupFits(op, ts, k)
<1> DEFINE x(j) == Extra(Top(ts, j))
           W(j) == is_kind_wide(Top(ts, j))
<1>1. op \in StackKinds /\ Len(ts) \in Nat
  BY LenProperties DEF DupFamily
<1>2. PICK b, c \in 0..4 : /\ b <= Len(ts) /\ c <= Len(ts)
                          /\ Depth(ts, b) = Taken(op) /\ Depth(ts, c) = Taken(op) + Over(op)
  BY <1>1, WholeDepths
<1>3. /\ Depth(ts, 0) = 0 /\ Depth(ts, 1) = 1 + x(1) /\ Depth(ts, 2) = 2 + x(1) + x(2)
      /\ Depth(ts, 3) = 3 + x(1) + x(2) + x(3) /\ Depth(ts, 4) = 4 + x(1) + x(2) + x(3) + x(4)
  BY Depths
<1>4. /\ x(1) \in {0, 1} /\ x(2) \in {0, 1} /\ x(3) \in {0, 1} /\ x(4) \in {0, 1}
      /\ (W(1) <=> x(1) = 1) /\ (W(2) <=> x(2) = 1) /\ (W(3) <=> x(3) = 1) /\ (W(4) <=> x(4) = 1)
  BY DEF Extra, is_kind_wide
<1>5. /\ b = 0 \/ b = 1 \/ b = 2 \/ b = 3 \/ b = 4
      /\ c = 0 \/ c = 1 \/ c = 2 \/ c = 3 \/ c = 4
  OBVIOUS
<1>6. "dup" \in DupFamily /\ "dup_x1" \in DupFamily /\ "dup_x2" \in DupFamily /\ "dup2" \in DupFamily /\ "dup2_x1" \in DupFamily /\ "dup2_x2" \in DupFamily
  BY DEF DupFamily, StackKinds
<1>7. CASE op = "dup"
  <2>1. Taken(op) = 1 /\ Over(op) = 0
    BY <1>7, TakenAre
  <2>2. \/ Len(ts) >= 1 /\ x(1) = 0
    <3> HIDE DEF x
    <3> QED  BY <1>1, <1>2, <1>3, <1>4, <1>5, <2>1
  <2>3. CASE Len(ts) >= 1 /\ x(1) = 0
    <3>1. DupCase(op, ts) = DupOf("dup", 1, 0)
      <4>1. Len(ts) >= 1 /\ ~W(1)
        BY <1>4, <2>3 DEF is_kind_wide
      <4>2. 1 <= Len(ts)
        BY <1>1, <4>1
      <4> QED  BY <1>7, <4>1, <4>2 DEF DupCase
    <3>2. Taken("dup") = 1 /\ Over("dup") = 0 /\ 1 + 0 = 1
      BY TakenAre
    <3>3. Depth(ts, 1) = 1 /\ Depth(ts, 1) = 1 + 0
      <4> HIDE DEF x
      <4> QED  BY <1>3, <2>3
    <3> QED  BY <1>1, <1>6, <2>1, <2>3, <3>1, <3>2, <3>3 DEF DupFits
  <2> QED  BY <2>2, <2>3
<1>8. CASE op = "dup_x1"
  <2>1. Taken(op) = 1 /\ Over(op) = 1
    BY <1>8, TakenAre
  <2>2. \/ Len(ts) >= 2 /\ x(1) = 0 /\ x(2) = 0
    <3> HIDE DEF x
    <3> QED  BY <1>1, <1>2, <1>3, <1>4, <1>5, <2>1
  <2>3. CASE Len(ts) >= 2 /\ x(1) = 0 /\ x(2) = 0
    <3>1. DupCase(op, ts) = DupOf("dup_x1", 1, 1)
      <4>1. Len(ts) >= 2 /\ ~W(1) /\ ~W(2)
        BY <1>4, <2>3 DEF is_kind_wide
      <4>2. 1 <= Len(ts) /\ 2 <= Len(ts)
        BY <1>1, <4>1
      <4> QED  BY <1>8, <4>1, <4>2 DEF DupCase
    <3>2. Taken("dup_x1") = 1 /\ Over("dup_x1") = 1 /\ 1 + 1 = 2
      BY TakenAre
    <3>3. Depth(ts, 1) = 1 /\ Depth(ts, 2) = 1 + 1
      <4> HIDE DEF x
      <4> QED  BY <1>3, <2>3
    <3> QED  BY <1>1, <1>6, <2>1, <2>3, <3>1, <3>2, <3>3 DEF DupFits
  <2> QED  BY <2>2, <2>3
<1>9. CASE op = "dup_x2"
  <2>1. Taken(op) = 1 /\ Over(op) = 2
    BY <1>9, TakenAre
  <2>2. \/ Len(ts) >= 2 /\ x(1) = 0 /\ x(2) = 1
        \/ Len(ts) >= 3 /\ x(1) = 0 /\ x(2) = 0 /\ x(3) = 0
    <3> HIDE DEF x
    <3> QED  BY <1>1, <1>2, <1>3, <1>4, <1>5, <2>1
  <2>3. CASE Len(ts) >= 2 /\ x(1) = 0 /\ x(2) = 1
    <3>1. DupCase(op, ts) = DupOf("dup_x1", 1, 1)
      <4>1. Len(ts) >= 2 /\ ~W(1) /\ W(2)
        BY <1>4, <2>3 DEF is_kind_wide
      <4>2. 1 <= Len(ts) /\ 2 <= Len(ts)
        BY <1>1, <4>1
      <4> QED  BY <1>9, <4>1, <4>2 DEF DupCase
    <3>2. Taken("dup_x1") = 1 /\ Over("dup_x1") = 1 /\ 1 + 1 = 2
      BY TakenAre
    <3>3. Depth(ts, 1) = 1 /\ Depth(ts, 2) = 1 + 2
      <4> HIDE DEF x
      <4> QED  BY <1>3, <2>3
    <3> QED  BY <1>1, <1>6, <2>1, <2>3, <3>1, <3>2, <3>3 DEF DupFits
  <2>4. CASE Len(ts) >= 3 /\ x(1) = 0 /\ x(2) = 0 /\ x(3) = 0
    <3>1. DupCase(op, ts) = DupOf("dup_x2", 1, 2)
      <4>1. Len(ts) >= 3 /\ ~W(1) /\ ~W(2) /\ ~W(3)
        BY <1>4, <2>4 DEF is_kind_wide
      <4>2. 1 <= Len(ts) /\ 2 <= Len(ts) /\ 3 <= Len(ts)
        BY <1>1, <4>1
      <4> QED  BY <1>9, <4>1, <4>2 DEF DupCase
    <3>2. Taken("dup_x2") = 1 /\ Over("dup_x2") = 2 /\ 1 + 2 = 3
      BY TakenAre
    <3>3. Depth(ts, 1) = 1 /\ Depth(ts, 3) = 1 + 2
      <4> HIDE DEF x
      <4> QED  BY <1>3, <2>4
    <3> QED  BY <1>1, <1>6, <2>1, <2>4, <3>1, <3>2, <3>3 DEF DupFits
  <2> QED  BY <2>2, <2>3, <2>4
<1>10. CASE op = "dup2"
  <2>1. Taken(op) = 2 /\ Over(op) = 0
    BY <1>10, TakenAre
  <2>2. \/ Len(ts) >= 1 /\ x(1) = 1
        \/ Len(ts) >= 2 /\ x(1) = 0 /\ x(2) = 0
    <3> HIDE DEF x
    <3> QED  BY <1>1, <1>2, <1>3, <1>4, <1>5, <2>1
  <2>3. CASE Len(ts) >= 1 /\ x(1) = 1
    <3>1. DupCase(op, ts) = DupOf("dup", 1, 0)
      <4>1. Len(ts) >= 1 /\ W(1)
        BY <1>4, <2>3 DEF is_kind_wide
      <4>2. 1 <= Len(ts)
        BY <1>1, <4>1
      <4> QED  BY <1>10, <4>1, <4>2 DEF DupCase
    <3>2. Taken("dup") = 1 /\ Over("dup") = 0 /\ 1 + 0 = 1
      BY TakenAre
    <3>3. Depth(ts, 1) = 2 /\ Depth(ts, 1) = 2 + 0
      <4> HIDE DEF x
      <4> QED  BY <1>3, <2>3
    <3> QED  BY <1>1, <1>6, <2>1, <2>3, <3>1, <3>2, <3>3 DEF DupFits
  <2>4. CASE Len(ts) >= 2 /\ x(1) = 0 /\ x(2) = 0
    <3>1. DupCase(op, ts) = DupOf("dup2", 2, 0)
      <4>1. Len(ts) >= 2 /\ ~W(1) /\ ~W(2)
        BY <1>4, <2>4 DEF is_kind_wide
      <4>2. 1 <= Len(ts) /\ 2 <= Len(ts)
        BY <1>1, <4>1
      <4> QED  BY <1>10, <4>1, <4>2 DEF DupCase
    <3>2. Taken("dup2") = 2 /\ Over("dup2") = 0 /\ 2 + 0 = 2
      BY TakenAre
    <3>3. Depth(ts, 2) = 2 /\ Depth(ts, 2) = 2 + 0
      <4> HIDE DEF x
      <4> QED  BY <1>3, <2>4
    <3>4. ~W(1)
      BY <1>4, <2>4 DEF is_kind_wide
    <3> QED  BY <1>1, <1>6, <1>10, <2>1, <2>4, <3>1, <3>2, <3>3, <3>4 DEF DupFits
  <2> QED  BY <2>2, <2>3, <2>4
<1>11. CASE op = "dup2_x1"
  <2>1. Taken(op) = 2 /\ Over(op) = 1
    BY <1>11, TakenAre
  <2>2. \/ Len(ts) >= 2 /\ x(1) = 1 /\ x(2) = 0
        \/ Len(ts) >= 3 /\ x(1) = 0 /\ x(2) = 0 /\ x(3) = 0
    <3> HIDE DEF x
    <3> QED  BY <1>1, <1>2, <1>3, <1>4, <1>5, <2>1
  <2>3. CASE Len(ts) >= 2 /\ x(1) = 1 /\ x(2) = 0
    <3>1. DupCase(op, ts) = DupOf("dup_x1", 1, 1)
      <4>1. Len(ts) >= 2 /\ W(1) /\ ~W(2)
        BY <1>4, <2>3 DEF is_kind_wide
      <4>2. 1 <= Len(ts) /\ 2 <= Len(ts)
        BY <1>1, <4>1
      <4> QED  BY <1>11, <4>1, <4>2 DEF DupCase
    <3>2. Taken("dup_x1") = 1 /\ Over("dup_x1") = 1 /\ 1 + 1 = 2
      BY TakenAre
    <3>3. Depth(ts, 1) = 2 /\ Depth(ts, 2) = 2 + 1
      <4> HIDE DEF x
      <4> QED  BY <1>3, <2>3
    <3> QED  BY <1>1, <1>6, <2>1, <2>3, <3>1, <3>2, <3>3 DEF DupFits
  <2>4. CASE Len(ts) >= 3 /\ x(1) = 0 /\ x(2) = 0 /\ x(3) = 0
    <3>1. DupCase(op, ts) = DupOf("dup2_x1", 2, 1)
      <4>1. Len(ts) >= 3 /\ ~W(1) /\ ~W(2) /\ ~W(3)
        BY <1>4, <2>4 DEF is_kind_wide
      <4>2. 1 <= Len(ts) /\ 2 <= Len(ts) /\ 3 <= Len(ts)
        BY <1>1, <4>1
      <4> QED  BY <1>11, <4>1, <4>2 DEF DupCase
    <3>2. Taken("dup2_x1") = 2 /\ Over("dup2_x1") = 1 /\ 2 + 1 = 3
      BY TakenAre
    <3>3. Depth(ts, 2) = 2 /\ Depth(ts, 3) = 2 + 1
      <4> HIDE DEF x
      <4> QED  BY <1>3, <2>4
    <3> QED  BY <1>1, <1>6, <2>1, <2>4, <3>1, <3>2, <3>3 DEF DupFits
  <2> QED  BY <2>2, <2>3, <2>4
<1>12. CASE op = "dup2_x2"
  <2>1. Taken(op) = 2 /\ Over(op) = 2
    BY <1>12, TakenAre
  <2>2. \/ Len(ts) >= 2 /\ x(1) = 1 /\ x(2) = 1
        \/ Len(ts) >= 3 /\ x(1) = 1 /\ x(2) = 0 /\ x(3) = 0
        \/ Len(ts) >= 3 /\ x(1) = 0 /\ x(2) = 0 /\ x(3) = 1
        \/ Len(ts) >= 4 /\ x(1) = 0 /\ x(2) = 0 /\ x(3) = 0 /\ x(4) = 0
    <3> HIDE DEF x
    <3> QED  BY <1>1, <1>2, <1>3, <1>4, <1>5, <2>1
  <2>3. CASE Len(ts) >= 2 /\ x(1) = 1 /\ x(2) = 1
    <3>1. DupCase(op, ts) = DupOf("dup_x1", 1, 1)
      <4>1. Len(ts) >= 2 /\ W(1) /\ W(2)
        BY <1>4, <2>3 DEF is_kind_wide
      <4>2. 1 <= Len(ts) /\ 2 <= Len(ts)
        BY <1>1, <4>1
      <4> QED  BY <1>12, <4>1, <4>2 DEF DupCase
    <3>2. Taken("dup_x1") = 1 /\ Over("dup_x1") = 1 /\ 1 + 1 = 2
      BY TakenAre
    <3>3. Depth(ts, 1) = 2 /\ Depth(ts, 2) = 2 + 2
      <4> HIDE DEF x
      <4> QED  BY <1>3, <2>3
    <3> QED  BY <1>1, <1>6, <2>1, <2>3, <3>1, <3>2, <3>3 DEF DupFits
  <2>4. CASE Len(ts) >= 3 /\ x(1) = 1 /\ x(2) = 0 /\ x(3) = 0
    <3>1. DupCase(op, ts) = DupOf("dup_x2", 1, 2)
      <4>1. Len(ts) >= 3 /\ W(1) /\ ~W(2) /\ ~W(3)
        BY <1>4, <2>4 DEF is_kind_wide
      <4>2. 1 <= Len(ts) /\ 2 <= Len(ts) /\ 3 <= Len(ts)
        BY <1>1, <4>1
      <4> QED  BY <1>12, <4>1, <4>2 DEF DupCase
    <3>2. Taken("dup_x2") = 1 /\ Over("dup_x2") = 2 /\ 1 + 2 = 3
      BY TakenAre
    <3>3. Depth(ts, 1) = 2 /\ Depth(ts, 3) = 2 + 2
      <4> HIDE DEF x
      <4> QED  BY <1>3, <2>4
    <3> QED  BY <1>1, <1>6, <2>1, <2>4, <3>1, <3>2, <3>3 DEF DupFits
  <2>5. CASE Len(ts) >= 3 /\ x(1) = 0 /\ x(2) = 0 /\ x(3) = 1
    <3>1. DupCase(op, ts) = DupOf("dup2_x1", 2, 1)
      <4>1. Len(ts) >= 3 /\ ~W(1) /\ ~W(2) /\ W(3)
        BY <1>4, <2>5 DEF is_kind_wide
      <4>2. 1 <= Len(ts) /\ 2 <= Len(ts) /\ 3 <= Len(ts)
        BY <1>1, <4>1
      <4> QED  BY <1>12, <4>1, <4>2 DEF DupCase
    <3>2. Taken("dup2_x1") = 2 /\ Over("dup2_x1") = 1 /\ 2 + 1 = 3
      BY TakenAre
    <3>3. Depth(ts, 2) = 2 /\ Depth(ts, 3) = 2 + 2
      <4> HIDE DEF x
      <4> QED  BY <1>3, <2>5
    <3> QED  BY <1>1, <1>6, <2>1, <2>5, <3>1, <3>2, <3>3 DEF DupFits
  <2>6. CASE Len(ts) >= 4 /\ x(1) = 0 /\ x(2) = 0 /\ x(3) = 0 /\ x(4) = 0
    <3>1. DupCase(op, ts) = DupOf("dup2_x2", 2, 2)
      <4>1. Len(ts) >= 4 /\ ~W(1) /\ ~W(2) /\ ~W(3) /\ ~W(4)
        BY <1>4, <2>6 DEF is_kind_wide
      <4>2. 1 <= Len(ts) /\ 2 <= Len(ts) /\ 3 <= Len(ts) /\ 4 <= Len(ts)
        BY <1>1, <4>1
      <4> QED  BY <1>12, <4>1, <4>2 DEF DupCase
    <3>2. Taken("dup2_x2") = 2 /\ Over("dup2_x2") = 2 /\ 2 + 2 = 4
      BY TakenAre
    <3>3. Depth(ts, 2) = 2 /\ Depth(ts, 4) = 2 + 2
      <4> HIDE DEF x
      <4> QED  BY <1>3, <2>6
    <3> QED  BY <1>1, <1>6, <2>1, <2>6, <3>1, <3>2, <3>3 DEF DupFits
  <2> QED  BY <2>2, <2>3, <2>4, <2>5, <2>6
<1> QED  BY <1>7, <1>8, <1>9, <1>10, <1>11, <1>12 DEF DupFamily, StackKinds

PopFits(op, ts, k) ==
  /\ k \in {"pop", "pop2"} /\ AnalyzePop(op, ts) = Analyzed(TRUE, k, Drop(ts, Taken(k)))
  /\ Taken(k) <= Len(ts) /\ Depth(ts, Taken(k)) = Taken(op)

LEMMA PopIs ==
  ASSUME NEW ts \in Seq(TypeKinds), NEW op \in {"pop", "pop2"}, KeepsValuesWhole(op, ts)
  PROVE  \E k \in {"pop", "pop2"} : PopFits(op, ts, k)
<1> DEFINE x(j) == Extra(Top(ts, j))
           W(j) == is_kind_wide(Top(ts, j))
<1>1. op \in StackKinds /\ Len(ts) \in Nat
  BY LenProperties DEF StackKinds
<1>2. PICK b, c \in 0..4 : /\ b <= Len(ts) /\ c <= Len(ts)
                          /\ Depth(ts, b) = Taken(op) /\ Depth(ts, c) = Taken(op) + Over(op)
  BY <1>1, WholeDepths
<1>3. /\ Depth(ts, 0) = 0 /\ Depth(ts, 1) = 1 + x(1) /\ Depth(ts, 2) = 2 + x(1) + x(2)
      /\ Depth(ts, 3) = 3 + x(1) + x(2) + x(3) /\ Depth(ts, 4) = 4 + x(1) + x(2) + x(3) + x(4)
  BY Depths
<1>4. /\ x(1) \in {0, 1} /\ x(2) \in {0, 1} /\ x(3) \in {0, 1} /\ x(4) \in {0, 1}
      /\ (W(1) <=> x(1) = 1) /\ (W(2) <=> x(2) = 1)
  BY DEF Extra, is_kind_wide
<1>5. b = 0 \/ b = 1 \/ b = 2 \/ b = 3 \/ b = 4
  OBVIOUS
<1>6. Taken("pop") = 1 /\ Taken("pop2") = 2
  BY TakenAre
<1>7. CASE op = "pop"
  <2>1. Len(ts) >= 1 /\ x(1) = 0
    <3> HIDE DEF x
    <3> QED  BY <1>1, <1>2, <1>3, <1>4, <1>5, <1>6, <1>7
  <2>2. ~W(1)
    BY <1>4, <2>1 DEF is_kind_wide
  <2>3. AnalyzePop(op, ts) = Analyzed(TRUE, "pop", Drop(ts, 1))
    BY <1>7, <2>1, <2>2 DEF AnalyzePop
  <2>4. Depth(ts, 1) = 1
    <3> HIDE DEF x
    <3> QED  BY <1>3, <2>1
  <2> QED  BY <1>1, <1>6, <1>7, <2>1, <2>3, <2>4 DEF PopFits
<1>8. CASE op = "pop2"
  <2>1. \/ Len(ts) >= 1 /\ x(1) = 1
        \/ Len(ts) >= 2 /\ x(1) = 0 /\ x(2) = 0
    <3> HIDE DEF x
    <3> QED  BY <1>1, <1>2, <1>3, <1>4, <1>5, <1>6, <1>8
  <2>2. CASE Len(ts) >= 1 /\ x(1) = 1
    <3>1. W(1)
      BY <1>4, <2>2 DEF is_kind_wide
    <3>2. AnalyzePop(op, ts) = Analyzed(TRUE, "pop", Drop(ts, 1))
      BY <1>8, <2>2, <3>1 DEF AnalyzePop
    <3>3. Depth(ts, 1) = 2
      <4> HIDE DEF x
      <4> QED  BY <1>3, <2>2
    <3> QED  BY <1>1, <1>6, <1>8, <2>2, <3>2, <3>3 DEF PopFits
  <2>3. CASE Len(ts) >= 2 /\ x(1) = 0 /\ x(2) = 0
    <3>1. ~W(1) /\ ~W(2)
      BY <1>4, <2>3 DEF is_kind_wide
    <3>2. AnalyzePop(op, ts) = Analyzed(TRUE, "pop2", Drop(ts, 2))
      BY <1>8, <2>3, <3>1 DEF AnalyzePop
    <3>3. Depth(ts, 2) = 2
      <4> HIDE DEF x
      <4> QED  BY <1>3, <2>3
    <3> QED  BY <1>1, <1>6, <1>8, <2>3, <3>2, <3>3 DEF PopFits
  <2> QED  BY <2>1, <2>2, <2>3
<1> QED  BY <1>7, <1>8

LEMMA SwapIs ==
  ASSUME NEW ts \in Seq(TypeKinds), KeepsValuesWhole("swap", ts)
  PROVE  /\ Len(ts) >= 2 /\ ~is_kind_wide(Top(ts, 1)) /\ ~is_kind_wide(Top(ts, 2)) /\ Depth(ts, 2) = 2
         /\ AnalyzeSwap(ts) = Analyzed(TRUE, "swap", Drop(ts, 2) \o <<Top(ts, 1), Top(ts, 2)>>)
<1> DEFINE x(j) == Extra(Top(ts, j))
<1>1. "swap" \in StackKinds /\ Len(ts) \in Nat
  BY LenProperties DEF StackKinds
<1>2. PICK b, c \in 0..4 : /\ b <= Len(ts) /\ c <= Len(ts)
                          /\ Depth(ts, b) = Taken("swap") /\ Depth(ts, c) = Taken("swap") + Over("swap")
  BY <1>1, WholeDepths
<1>3. /\ Depth(ts, 0) = 0 /\ Depth(ts, 1) = 1 + x(1) /\ Depth(ts, 2) = 2 + x(1) + x(2)
      /\ Depth(ts, 3) = 3 + x(1) + x(2) + x(3) /\ Depth(ts, 4) = 4 + x(1) + x(2) + x(3) + x(4)
  BY Depths
<1>4. /\ x(1) \in {0, 1} /\ x(2) \in {0, 1} /\ x(3) \in {0, 1} /\ x(4) \in {0, 1}
  BY DEF Extra
<1>5. /\ b = 0 \/ b = 1 \/ b = 2 \/ b = 3 \/ b = 4
      /\ c = 0 \/ c = 1 \/ c = 2 \/ c = 3 \/ c = 4
  OBVIOUS
<1>6. Taken("swap") = 1 /\ Over("swap") = 1
  BY TakenAre
<1>7. Len(ts) >= 2 /\ x(1) = 0 /\ x(2) = 0 /\ Depth(ts, 2) = 2
  <2> HIDE DEF x
  <2> QED  BY <1>1, <1>2, <1>3, <1>4, <1>5, <1>6
<1>8. ~is_kind_wide(Top(ts, 1)) /\ ~is_kind_wide(Top(ts, 2))
  BY <1>7 DEF Extra, is_kind_wide
<1> QED  BY <1>7, <1>8 DEF AnalyzeSwap

-----------------------------------------------------------------------------
(* What the analysis and the specification make of the stack. *)
Makes(i, k, r) ==
  /\ analyze_instruction(i, types, StackLimit) = Analyzed(TRUE, k, KindsOf(r))
  /\ StackOk(r) /\ WordsAfter(i, <<>>) = WordsOfValues(r)

LEMMA MakesIs ==
  ASSUME NEW i, NEW k, NEW r, Makes(i, k, r)
  PROVE  /\ analyze_instruction(i, types, StackLimit).ok /\ analyze_instruction(i, types, StackLimit).kind = k
         /\ TypesAfter(i) = KindsOf(r) /\ StackOk(r) /\ WordsAfter(i, <<>>) = WordsOfValues(r)
BY DEF Makes, Analyzed, TypesAfter

LEMMA AnalyzedAs ==
  ASSUME NEW i, NEW k, NEW ts, Len(ts) <= StackLimit,
         \/ i.op \in DupFamily /\ AnalyzeDup(i.op, types) = Analyzed(TRUE, k, ts)
         \/ i.op \in {"pop", "pop2"} /\ AnalyzePop(i.op, types) = Analyzed(TRUE, k, ts)
         \/ i.op = "swap" /\ AnalyzeSwap(types) = Analyzed(TRUE, k, ts)
  PROVE  analyze_instruction(i, types, StackLimit) = Analyzed(TRUE, k, ts)
<1> DEFINE r == CASE i.op \in StackKinds \ {"pop", "pop2", "swap"} -> AnalyzeDup(i.op, types)
                  [] i.op \in {"pop", "pop2"} -> AnalyzePop(i.op, types)
                  [] i.op = "swap" -> AnalyzeSwap(types)
                  [] OTHER -> Analyzed(PopsWhatItWants(i, types), i.op,
                                       Drop(types, Len(Effect(i).pop)) \o Effect(i).push)
<1>1. r = Analyzed(TRUE, k, ts)
  BY DEF DupFamily, StackKinds
<1>2. analyze_instruction(i, types, StackLimit) = [r EXCEPT !.ok = @ /\ Len(r.types) <= StackLimit]
  BY DEF analyze_instruction
<1> HIDE DEF r
<1> QED  BY <1>1, <1>2 DEF Analyzed

LEMMA DupStack ==
  ASSUME IInv, NEW i, Allowed(i, types), i.op \in DupFamily
  PROVE  \E k \in DupFamily :
            /\ Makes(i, k, Insert(Values, Taken(k), Over(k))) /\ Taken(k) + Over(k) <= Len(Values)
            /\ Len(Values) + Taken(k) <= StackLimit
            /\ k = "dup2" => i.op = "dup2" /\ ~is_kind_wide(Top(types, 1))
<1>1. StackOk(Values) /\ types = KindsOf(Values) /\ types \in Seq(TypeKinds) /\ Len(types) = Len(Values)
      /\ Len(Values) \in Nat
  BY FrameIs
<1>2. /\ i.op \in StackKinds /\ i.op \notin {"pop", "pop2", "swap"} /\ KeepsValuesWhole(i.op, types)
      /\ Len(types) + Taken(i.op) <= StackLimit
  BY DEF Allowed, Legal, DupFamily, Taken
<1>3. PICK k \in DupFamily : DupFits(i.op, types, k)
  BY <1>1, <1>2, DupIs
<1> DEFINE a == Taken(k)
           b == Over(k)
           r == Insert(Values, a, b)
<1>4. k \in StackKinds /\ a \in 1..2 /\ b \in 0..2 /\ a \in Nat /\ b \in Nat /\ Taken(i.op) \in 1..2 /\ Over(i.op) \in 0..2
  BY <1>2, TakenBounds DEF DupFamily
<1>5. /\ DupCase(i.op, types) = DupOf(k, a, b) /\ a + b <= Len(Values) /\ a <= Taken(i.op)
      /\ Depth(types, a) = Taken(i.op) /\ Depth(types, a + b) = Taken(i.op) + Over(i.op)
      /\ k = "dup2" => i.op = "dup2" /\ ~is_kind_wide(Top(types, 1))
  BY <1>1, <1>3 DEF DupFits
<1> HIDE DEF a, b
<1>6. Len(Values) + a <= StackLimit
  BY <1>1, <1>2, <1>4, <1>5, LimitIs
<1>7. StackOk(r) /\ KindsOf(r) = Insert(types, a, b)
  BY <1>1, <1>4, <1>5, <1>6, InsertOk
<1>8. AnalyzeDup(i.op, types) = Analyzed(TRUE, k, KindsOf(r))
  <2>1. DupOf(k, a, b) # Rejected /\ DupOf(k, a, b).kind = k /\ DupOf(k, a, b).take = a /\ DupOf(k, a, b).below = b
    BY <1>4 DEF DupOf, Rejected
  <2> QED  BY <1>5, <1>7, <2>1 DEF AnalyzeDup
<1>9. Len(KindsOf(r)) <= StackLimit
  BY <1>7, StackIs
<1>10. analyze_instruction(i, types, StackLimit) = Analyzed(TRUE, k, KindsOf(r))
  BY <1>8, <1>9, AnalyzedAs
<1>11. WordsOfValues(r) = Insert(WordsOfValues(Values), Depth(types, a), Depth(types, a + b) - Depth(types, a))
  BY <1>1, <1>4, <1>5, InsertWords
<1>12. WordsOfValues(r) = Insert(words, Taken(i.op), Over(i.op))
  <2>1. words = WordsOfValues(Values)
    BY DEF IInv
  <2>2. Depth(types, a + b) - Depth(types, a) = Over(i.op)
    BY <1>4, <1>5
  <2> QED  BY <1>5, <1>11, <2>1, <2>2, Zenon
<1>13. WordsAfter(i, <<>>) = Insert(words, Taken(i.op), Over(i.op))
  BY <1>2 DEF WordsAfter, WordEffect, Taken, Over
<1>14. Makes(i, k, r)
  BY <1>7, <1>10, <1>12, <1>13 DEF Makes
<1> QED  BY <1>5, <1>6, <1>14 DEF a, b

LEMMA PopStack ==
  ASSUME IInv, NEW i, Allowed(i, types), i.op \in {"pop", "pop2"}
  PROVE  \E k \in {"pop", "pop2"} : Makes(i, k, Drop(Values, Taken(k))) /\ Taken(k) <= Len(Values)
<1>1. StackOk(Values) /\ types = KindsOf(Values) /\ types \in Seq(TypeKinds) /\ Len(types) = Len(Values)
      /\ Len(Values) \in Nat /\ Len(Values) <= StackLimit
  BY FrameIs
<1>2. i.op \in StackKinds /\ KeepsValuesWhole(i.op, types)
  BY DEF Allowed, Legal, StackKinds
<1>3. PICK k \in {"pop", "pop2"} : PopFits(i.op, types, k)
  BY <1>1, <1>2, PopIs
<1> DEFINE a == Taken(k)
           r == Drop(Values, a)
<1>4. a \in 1..2 /\ a \in Nat
  BY TakenAre
<1>5. AnalyzePop(i.op, types) = Analyzed(TRUE, k, Drop(types, a)) /\ a \in 0..Len(Values) /\ Depth(types, a) = Taken(i.op)
  BY <1>1, <1>3, <1>4 DEF PopFits
<1> HIDE DEF a
<1>6. StackOk(r) /\ KindsOf(r) = Drop(types, a)
  <2>1. StackOk(<<>>) /\ KindsOf(<<>>) = <<>> /\ Len(<<>>) = 0
    BY NoneAndOne
  <2>2. Len(Values) - a + Len(<<>>) <= StackLimit
    BY <1>1, <1>5, <2>1, LimitIs
  <2>3. Grown(r \o <<>>, Values, a, <<>>)
    BY <1>1, <1>5, <2>1, <2>2, StackAfter
  <2>4. Values \in Seq(Val)
    BY FrameIs
  <2>5. r \in Seq(Val) /\ Drop(types, a) \in Seq(TypeKinds)
    BY <1>1, <1>5, <2>4, DropIs
  <2>6. r \o <<>> = r /\ Drop(types, a) \o <<>> = Drop(types, a)
    BY <2>5, ConcatEmptySeq
  <2> HIDE DEF r
  <2> QED  BY <1>1, <2>1, <2>3, <2>6 DEF Grown
<1>7. Len(KindsOf(r)) <= StackLimit
  BY <1>6, StackIs
<1>8. analyze_instruction(i, types, StackLimit) = Analyzed(TRUE, k, KindsOf(r))
  BY <1>5, <1>6, <1>7, AnalyzedAs
<1>9. WordsOfValues(r) = Drop(words, Taken(i.op))
  <2>1. WordsOfValues(r) = Drop(WordsOfValues(Values), Depth(types, a))
    BY <1>1, <1>5, DropWords
  <2> QED  BY <1>5, <2>1 DEF IInv
<1>10. WordsAfter(i, <<>>) = Drop(words, Taken(i.op))
  BY <1>2 DEF WordsAfter, WordEffect, Taken
<1>11. Makes(i, k, r)
  BY <1>6, <1>8, <1>9, <1>10 DEF Makes
<1> QED  BY <1>1, <1>5, <1>11 DEF a

LEMMA OneWords ==
  ASSUME NEW v \in Val, ~is_kind_wide(v.t)
  PROVE  <<v>> \in Seq(Val) /\ WordsOfValues(<<v>>) = <<<<v, 1>>>> /\ <<v, 1>> \in Word
<1>1. <<>> \in Seq(Val) /\ Append(<<>>, v) = <<v>> /\ <<v>> \in Seq(Val)
  BY EmptySeq
<1>2. WordsOfValues(<<v>>) = <<>> \o WordsOfOne(v)
  BY <1>1, WordsAppend, WordsEmpty
<1>3. WordsOfValues(<<v>>) = WordsOfOne(v)
  BY <1>2, OneType, ConcatEmptySeq
<1>4. WordsOfOne(v) = <<<<v, 1>>>>
  BY DEF WordsOfOne, IsWideValue
<1>5. <<v, 1>> \in Word
  BY DEF Word
<1> QED  BY <1>1, <1>3, <1>4, <1>5

LEMMA PairWords ==
  ASSUME NEW v \in Val, ~is_kind_wide(v.t), NEW w \in Val, ~is_kind_wide(w.t)
  PROVE  WordsOfValues(<<v, w>>) = <<<<v, 1>>, <<w, 1>>>> /\ <<v, w>> \in Seq(Val)
<1> DEFINE a == <<v, 1>>
           b == <<w, 1>>
<1>1. /\ <<v>> \in Seq(Val) /\ WordsOfValues(<<v>>) = <<a>> /\ a \in Word
      /\ <<w>> \in Seq(Val) /\ WordsOfValues(<<w>>) = <<b>> /\ b \in Word
  BY OneWords
<1>2. <<v>> \o <<w>> = <<v, w>> /\ <<v, w>> \in Seq(Val)
  BY TwoSingles
<1> HIDE DEF a, b
<1>3. WordsOfValues(<<v>> \o <<w>>) = <<a>> \o <<b>>
  BY <1>1, WordsConcat
<1>4. <<a>> \o <<b>> = <<a, b>>
  BY <1>1, TwoSingles
<1> QED  BY <1>2, <1>3, <1>4 DEF a, b

TopPair(s, x, y) == Top(s \o <<x, y>>, 1) = y /\ Top(s \o <<x, y>>, 2) = x

LEMMA PairOnTop ==
  ASSUME NEW S, NEW s \in Seq(S), NEW x \in S, NEW y \in S
  PROVE  TopPair(s, x, y)
<1> DEFINE t == <<x, y>>
           u == s \o t
<1>1. t \in Seq(S) /\ Len(t) = 2 /\ t[1] = x /\ t[2] = y /\ Len(s) \in Nat
  BY LenProperties
<1> HIDE DEF t
<1>3. /\ Len(u) = Len(s) + Len(t)
      /\ \A i \in 1..(Len(s) + Len(t)) : u[i] = IF i <= Len(s) THEN s[i] ELSE t[i - Len(s)]
  BY <1>1, ConcatProperties
<1> HIDE DEF u
<1> DEFINE j == Len(s) + 1
           k == Len(s) + 2
<1>4. /\ j \in 1..(Len(s) + Len(t)) /\ ~(j <= Len(s)) /\ j - Len(s) = 1 /\ Len(u) - 2 + 1 = j
      /\ k \in 1..(Len(s) + Len(t)) /\ ~(k <= Len(s)) /\ k - Len(s) = 2 /\ Len(u) - 1 + 1 = k
  BY <1>1, <1>3
<1> HIDE DEF j, k
<1>5. u[j] = t[j - Len(s)] /\ u[k] = t[k - Len(s)]
  BY <1>3, <1>4
<1>6. Top(u, 1) = y /\ Top(u, 2) = x
  BY <1>1, <1>4, <1>5 DEF Top
<1> QED  BY <1>6 DEF u, t, TopPair

LEMMA SwapStack ==
  ASSUME IInv, NEW i, Allowed(i, types), i.op = "swap"
  PROVE  /\ Makes(i, "swap", Drop(Values, 2) \o <<Top(Values, 1), Top(Values, 2)>>) /\ 2 <= Len(Values)
         /\ ValueOk(Top(Values, 1)) /\ ValueOk(Top(Values, 2))
<1>1. StackOk(Values) /\ types = KindsOf(Values) /\ types \in Seq(TypeKinds) /\ Len(types) = Len(Values)
      /\ Len(Values) \in Nat /\ Len(Values) <= StackLimit /\ Values \in Seq(Val)
      /\ \A k \in 1..Len(Values) : types[k] = Values[k].t /\ ValueOk(Values[k])
  BY FrameIs
<1>2. KeepsValuesWhole("swap", types)
  BY DEF Allowed, Legal, StackKinds
<1>3. /\ Len(types) >= 2 /\ ~is_kind_wide(Top(types, 1)) /\ ~is_kind_wide(Top(types, 2)) /\ Depth(types, 2) = 2
      /\ AnalyzeSwap(types) = Analyzed(TRUE, "swap", Drop(types, 2) \o <<Top(types, 1), Top(types, 2)>>)
  BY <1>1, <1>2, SwapIs
<1> DEFINE v == Top(Values, 1)
           w == Top(Values, 2)
           t == <<v, w>>
           a == Drop(Values, 2)
           r == a \o t
<1>4. /\ Len(Values) - 1 + 1 \in 1..Len(Values) /\ Len(Values) - 2 + 1 \in 1..Len(Values) /\ 2 \in 0..Len(Values)
      /\ Len(Values) - 1 \in 1..Len(Values) /\ Len(Values) - 2 + 1 = Len(Values) - 1
      /\ Len(Values) \in (Len(Values) - 1)..Len(Values) /\ Len(Values) - 1 + 1 = Len(Values)
  BY <1>1, <1>3
<1>5. ValueOk(v) /\ ValueOk(w) /\ Top(types, 1) = v.t /\ Top(types, 2) = w.t
  BY <1>1, <1>4 DEF Top
<1>6. v \in Val /\ w \in Val /\ ~is_kind_wide(v.t) /\ ~is_kind_wide(w.t)
  BY <1>3, <1>5 DEF ValueOk
<1>7. Uppermost(Values, 2) = <<w, v>>
  <2>1. Uppermost(Values, 2) = SubSeq(Values, Len(Values) - 1, Len(Values))
    BY <1>4 DEF Uppermost
  <2>2. SubSeq(Values, Len(Values) - 1, Len(Values)) = <<Values[Len(Values) - 1]>> \o SubSeq(Values, Len(Values) - 1 + 1, Len(Values))
    BY <1>1, <1>4, SubSeqRecursiveFirst
  <2>3. SubSeq(Values, Len(Values), Len(Values)) = <<Values[Len(Values)]>> \o SubSeq(Values, Len(Values) + 1, Len(Values))
    <3>1. Len(Values) \in 1..Len(Values) /\ Len(Values) \in Len(Values)..Len(Values)
      BY <1>4
    <3> QED  BY <1>1, <3>1, SubSeqRecursiveFirst
  <2>4. SubSeq(Values, Len(Values) + 1, Len(Values)) = <<>>
    <3>1. Len(Values) + 1 \in Int /\ Len(Values) \in Int /\ Len(Values) < Len(Values) + 1
      BY <1>1
    <3> QED  BY <3>1, SubSeqEmpty
  <2>5. v = Values[Len(Values)] /\ w = Values[Len(Values) - 1]
    BY <1>4 DEF Top
  <2> HIDE DEF v, w
  <2>6. <<v>> \in Seq(Val) /\ <<v>> \o <<>> = <<v>> /\ <<w>> \o <<v>> = <<w, v>>
    BY <1>6, TwoSingles, ConcatEmptySeq
  <2> QED  BY <1>4, <2>1, <2>2, <2>3, <2>4, <2>5, <2>6
<1> HIDE DEF v, w
<1>8. StackOk(t) /\ KindsOf(t) = <<v.t, w.t>> /\ Len(t) = 2
  <2>1. t \in Seq(Val) /\ Len(t) = 2 /\ t[1] = v /\ t[2] = w /\ DOMAIN t = 1..2
    BY <1>6
  <2>2. \A k \in 1..Len(t) : k = 1 \/ k = 2
    BY <2>1
  <2>3. Len(t) <= StackLimit
    BY <1>1, <1>3, <2>1, LimitIs
  <2>4. StackOk(t)
    BY <1>5, <2>1, <2>2, <2>3, StackFrom
  <2>5. KindsOf(t) = <<v.t, w.t>>
    BY DEF KindsOf
  <2> QED  BY <2>1, <2>4, <2>5
<1> HIDE DEF t
<1>9. Len(Values) - 2 + Len(t) <= StackLimit
  BY <1>1, <1>8, LimitIs
<1>10. Grown(a \o t, Values, 2, t)
  BY <1>1, <1>4, <1>8, <1>9, StackAfter
<1>11. StackOk(r) /\ KindsOf(r) = Drop(types, 2) \o <<Top(types, 1), Top(types, 2)>>
  BY <1>1, <1>5, <1>8, <1>10 DEF Grown
<1>12. a \in Seq(Val)
  BY <1>1, <1>4, DropIs
<1>13. WordsOfValues(a) = Drop(WordsOfValues(Values), Depth(types, 2)) /\ WordsOfValues(Values) = WordsOfValues(a) \o WordsOfValues(Uppermost(Values, 2))
  BY <1>1, <1>4, DropWords
<1> HIDE DEF a
<1>14. words = WordsOfValues(Values)
  BY DEF IInv
<1> DEFINE x == <<v, 1>>
           y == <<w, 1>>
           u == WordsOfValues(a)
<1>15. /\ WordsOfValues(<<v, w>>) = <<x, y>> /\ WordsOfValues(<<w, v>>) = <<y, x>> /\ x \in Word /\ y \in Word
       /\ t \in Seq(Val) /\ u \in Seq(Word)
  BY <1>6, <1>12, PairWords, OneWords, WordsType DEF t
<1> HIDE DEF x, y, u
<1>16. words = u \o <<y, x>> /\ Drop(words, 2) = u
  BY <1>3, <1>7, <1>13, <1>14, <1>15 DEF u
<1>17. Top(words, 1) = x /\ Top(words, 2) = y
  <2>1. TopPair(u, y, x)
    BY <1>15, PairOnTop
  <2> QED  BY <1>16, <2>1 DEF TopPair
<1>18. WordsOfValues(r) = u \o <<x, y>>
  BY <1>12, <1>15, WordsConcat DEF u, t
<1>19. WordsAfter(i, <<>>) = Drop(words, 2) \o <<Top(words, 1), Top(words, 2)>>
  BY DEF WordsAfter, WordEffect, StackKinds
<1>20. WordsAfter(i, <<>>) = WordsOfValues(r)
  BY <1>16, <1>17, <1>18, <1>19
<1>21. Len(KindsOf(r)) <= StackLimit
  BY <1>11, StackIs
<1>22. analyze_instruction(i, types, StackLimit) = Analyzed(TRUE, "swap", KindsOf(r))
  BY <1>3, <1>11, <1>21, AnalyzedAs
<1>23. Makes(i, "swap", r)
  BY <1>11, <1>20, <1>22 DEF Makes
<1> QED  BY <1>1, <1>3, <1>5, <1>23 DEF a, t, v, w

-----------------------------------------------------------------------------
(***************************************************************************)
(* Their handlers.                                                         *)
(***************************************************************************)
LEMMA StackDone ==
  ASSUME IInv, NEW i, NEW k, NEW r, Makes(i, k, r), NEW mm, Done(i, <<>>, <<>>, mm), Ready(r, mm)
  PROVE  IInv'
<1>1. TypesAfter(i) = KindsOf(r) /\ StackOk(r) /\ WordsAfter(i, <<>>) = WordsOfValues(r)
  BY MakesIs
<1>2. /\ types' = KindsOf(r) /\ words' = WordsOfValues(r) /\ m' = mm /\ insn' = NoInsn /\ phase' = "run"
      /\ n' = n + 1 /\ gc' = gc /\ ok' = (ok /\ RightOperands(<<>>))
  BY <1>1 DEF Done
<1>3. ok' = TRUE
  BY <1>2, RightNone DEF IInv
<1> QED  BY <1>1, <1>2, <1>3, NewStep

LEMMA StackDispatch ==
  ASSUME IInv, NEW i \in Current, NEW kinds, Dispatch(i, kinds), i.kind \in StackKinds
  PROVE  /\ Holds(Values, m) /\ (i.kind \notin Nullary => m.table # "V")
         /\ StackInsn(i) \/ (InHand(i, types) /\ i.kind = "pop" /\ Moves(Effect(i), 1, 0))
<1>1. phase = "run" /\ Holds(Values, m) /\ (i.kind \notin Nullary => m.table # "V")
  BY DispatchIs
<1>2. InHand(i, types) \/ StackInsn(i)
  BY <1>1, CurrentIs
<1>3. ASSUME InHand(i, types)  PROVE i.kind = "pop" /\ Moves(Effect(i), 1, 0)
  <2>1. i.op \notin StackKinds
    BY <1>3 DEF InHand
  <2>2. i.kind = "pop"
    BY <1>3, <2>1, BecomesIs DEF StackKinds, StaticGets, StaticPuts, FieldGets, FieldPuts, Virtual
  <2> QED  BY <1>3, <2>2, KindMoves
<1> QED  BY <1>1, <1>2, <1>3

LEMMA DupHand ==
  ASSUME IInv, NEW i, StackInsn(i), i.kind \in DupFamily
  PROVE  /\ Makes(i, i.kind, Insert(Values, Taken(i.kind), Over(i.kind)))
         /\ Taken(i.kind) + Over(i.kind) <= Len(Values) /\ Len(Values) + Taken(i.kind) <= StackLimit
         /\ i.kind = "dup2" => i.op = "dup2" /\ ~is_kind_wide(Top(types, 1))
<1>1. Allowed(i, types) /\ i.op \in StackKinds /\ i.kind = analyze_instruction(i, types, StackLimit).kind
  BY DEF StackInsn
<1>2. i.op \in DupFamily
  BY <1>1, StackKindIs DEF DupFamily
<1>3. PICK k \in DupFamily :
            /\ Makes(i, k, Insert(Values, Taken(k), Over(k))) /\ Taken(k) + Over(k) <= Len(Values)
            /\ Len(Values) + Taken(k) <= StackLimit
            /\ k = "dup2" => i.op = "dup2" /\ ~is_kind_wide(Top(types, 1))
  BY <1>1, <1>2, DupStack
<1>4. i.kind = k
  BY <1>1, <1>3, MakesIs
<1> QED  BY <1>3, <1>4

LEMMA dup_implStep ==
  ASSUME IInv, NEW i \in Current, dup_impl(i)
  PROVE  IInv'
<1> DEFINE s == Values
           l == Len(Values)
           r == Insert(s, 1, 0)
           q == [m EXCEPT !.mem[l] = m.tos]
           mm == [m EXCEPT !.mem[m.sp] = m.tos, !.sp = @ + 1]
<1>1. Dispatch(i, {"dup"}) /\ Done(i, <<>>, <<>>, mm)
  BY DEF dup_impl
<1>2. i.kind = "dup" /\ i.kind \in StackKinds /\ i.kind \notin Nullary /\ i.kind \in DupFamily
  BY <1>1, Groups DEF Dispatch, StackKinds, DupFamily, Nullary
<1>3. Holds(s, m) /\ m.table # "V" /\ StackInsn(i)
  BY <1>1, <1>2, StackDispatch
<1>4. Makes(i, "dup", r) /\ 1 + 0 <= l /\ l + 1 <= StackLimit
  BY <1>2, <1>3, DupHand, TakenAre
<1>5. StackOk(s) /\ s \in Seq(Val) /\ l \in Nat
  BY FrameIs
<1>6. StackOk(r)
  BY <1>4, MakesIs
<1>7. Inserted(Val, r, s, l, 1, 0)
  BY <1>4, <1>5, InsertIs
<1> HIDE DEF r
<1>8. Len(r) = l + 1 /\ (\A j \in 1..(l - 1) : r[j] = s[j]) /\ r[l] = s[l] /\ r[l + 1] = s[l]
  <2>1. /\ Len(r) = l + 1 /\ \A j \in 1..(l - 1 - 0) : r[j] = s[j]
        /\ \A j \in 1..1 : r[l - 1 - 0 + j] = s[l - 1 + j]
        /\ \A j \in 1..(1 + 0) : r[l - 0 + j] = s[l - 1 - 0 + j]
    BY <1>7 DEF Inserted
  <2>2. 1 \in 1..1 /\ 1 \in 1..(1 + 0) /\ l - 1 - 0 + 1 = l /\ l - 1 + 1 = l /\ l - 0 + 1 = l + 1 /\ l - 1 - 0 = l - 1
    BY <1>5
  <2>3. r[l - 1 - 0 + 1] = s[l - 1 + 1] /\ r[l - 0 + 1] = s[l - 1 - 0 + 1]
    BY <2>1, <2>2
  <2> QED  BY <2>1, <2>2, <2>3
<1>9. /\ m \in Machine /\ m.sp = l /\ m.table = calculate_tos_type(KindsOf(s)) /\ SlotsHold(s, m, l - 1)
      /\ m.tos = s[l] /\ s # <<>> /\ m.tos \in Val
  BY <1>3, MachineIs DEF Holds, RegisterOk
<1>10. l \in 1..StackLimit /\ l + 1 \in 0..StackLimit /\ l + 1 \in 1..StackLimit
  BY <1>4, <1>5, LimitIs
<1>11. /\ q \in Machine /\ q.sp = l /\ q.table = m.table /\ q.tos = m.tos /\ q.mem[l] = m.tos
       /\ \A j \in 1..StackLimit : j # l => q.mem[j] = m.mem[j]
  <2> DEFINE k == l
             x == m.tos
  <2>1. k \in 1..StackLimit /\ x \in Val /\ q = [m EXCEPT !.mem[k] = x]
    BY <1>9, <1>10
  <2> HIDE DEF q, k, x
  <2>2. /\ q \in Machine /\ q.sp = m.sp /\ q.table = m.table /\ q.tos = m.tos /\ q.mem[k] = x
        /\ \A j \in 1..StackLimit : j # k => q.mem[j] = m.mem[j]
    BY <1>9, <2>1, WriteIs
  <2> QED  BY <1>9, <2>2 DEF k, x
<1>12. mm = [q EXCEPT !.sp = l + 1]
  BY <1>9 DEF Machine
<1> HIDE DEF q, mm
<1>13. mm \in Machine /\ mm.sp = l + 1 /\ mm.mem = q.mem /\ mm.table = m.table /\ mm.tos = s[l]
  BY <1>9, <1>10, <1>11, <1>12, MoveIs
<1>14. \A j \in 1..l : mm.mem[j] = r[j]
  <2> TAKE j \in 1..l
  <2>1. CASE j = l
    BY <1>8, <1>9, <1>11, <1>13, <2>1
  <2>2. CASE j # l
    <3>1. j \in 1..(l - 1) /\ j \in 1..StackLimit
      BY <1>5, <1>10, <2>2, LimitIs
    <3> QED  BY <1>8, <1>9, <1>11, <1>13, <2>2, <3>1 DEF SlotsHold
  <2> QED  BY <2>1, <2>2
<1>15. calculate_tos_type(KindsOf(r)) = calculate_tos_type(KindsOf(s))
  <2>1. r # <<>>
    BY <1>5, <1>8
  <2> QED  BY <1>5, <1>6, <1>8, <1>9, <2>1, TosIs
<1>16. Ready(r, mm)
  <2>1. r # <<>> /\ l + 1 - 1 = l
    BY <1>5, <1>8
  <2> QED  BY <1>3, <1>8, <1>9, <1>13, <1>14, <1>15, <2>1 DEF Ready, Holds, RegisterOk, SlotsHold
<1>17. Done(i, <<>>, <<>>, mm)
  BY <1>1 DEF mm
<1> QED  BY <1>4, <1>16, <1>17, StackDone

LEMMA dup2_implStep ==
  ASSUME IInv, NEW i \in Current, dup2_impl(i), ~LosesTable(i)
  PROVE  IInv'
<1> DEFINE s == Values
           l == Len(Values)
           r == Insert(s, 2, 0)
           v == m.tos
           w == At(m, 2)
           q == [m EXCEPT !.mem[l] = m.tos]
           u == [q EXCEPT !.mem[l + 1] = w]
           cast == IF m.table = "I" THEN m.tos ELSE Value("I", 0, 0)
           mm == [m EXCEPT !.mem[m.sp] = m.tos, !.mem[m.sp + 1] = At(m, 2), !.sp = @ + 2]
<1>1. Dispatch(i, {"dup2"}) /\ Done(i, <<>>, <<>>, ADVANCE(mm, "I", cast))
  BY DEF dup2_impl
<1>2. i.kind = "dup2" /\ i.kind \in StackKinds /\ i.kind \notin Nullary /\ i.kind \in DupFamily
  BY <1>1, Groups DEF Dispatch, StackKinds, DupFamily, Nullary
<1>3. Holds(s, m) /\ m.table # "V" /\ StackInsn(i)
  BY <1>1, <1>2, StackDispatch
<1>4. Makes(i, "dup2", r) /\ 2 + 0 <= l /\ l + 2 <= StackLimit /\ i.op = "dup2" /\ ~is_kind_wide(Top(types, 1))
  BY <1>2, <1>3, DupHand, TakenAre
<1>5. StackOk(s) /\ s \in Seq(Val) /\ l \in Nat /\ types \in Seq(TypeKinds) /\ Len(types) = l /\ types = KindsOf(s)
      /\ \A k \in 1..l : types[k] = s[k].t
  BY FrameIs
<1>6. StackOk(r)
  BY <1>4, MakesIs
<1>7. Inserted(Val, r, s, l, 2, 0)
  BY <1>4, <1>5, InsertIs
<1> HIDE DEF r
<1>8. Len(r) = l + 2 /\ (\A j \in 1..l : r[j] = s[j]) /\ r[l + 1] = s[l - 1] /\ r[l + 2] = s[l]
  <2>1. /\ Len(r) = l + 2 /\ \A j \in 1..(l - 2 - 0) : r[j] = s[j]
        /\ \A j \in 1..2 : r[l - 2 - 0 + j] = s[l - 2 + j]
        /\ \A j \in 1..(2 + 0) : r[l - 0 + j] = s[l - 2 - 0 + j]
    BY <1>7 DEF Inserted
  <2>2. /\ 1 \in 1..2 /\ 1 \in 1..(2 + 0) /\ 2 \in 1..2 /\ 2 \in 1..(2 + 0)
        /\ l - 2 - 0 + 1 = l - 1 /\ l - 2 + 1 = l - 1 /\ l - 0 + 1 = l + 1 /\ l - 2 - 0 = l - 2
        /\ l - 2 - 0 + 2 = l /\ l - 2 + 2 = l /\ l - 0 + 2 = l + 2
    BY <1>5
  <2>3. /\ r[l - 2 - 0 + 1] = s[l - 2 + 1] /\ r[l - 0 + 1] = s[l - 2 - 0 + 1]
        /\ r[l - 2 - 0 + 2] = s[l - 2 + 2] /\ r[l - 0 + 2] = s[l - 2 - 0 + 2]
    BY <2>1, <2>2
  <2>4. \A j \in 1..l : j \in 1..(l - 2) \/ j = l - 1 \/ j = l
    BY <1>5
  <2> QED  BY <2>1, <2>2, <2>3, <2>4
<1>9. /\ m \in Machine /\ m.sp = l /\ m.table = calculate_tos_type(KindsOf(s)) /\ SlotsHold(s, m, l - 1)
      /\ v = s[l] /\ s # <<>> /\ v \in Val
  BY <1>3, MachineIs DEF Holds, RegisterOk
<1>10. l \in 1..StackLimit /\ l + 1 \in 1..StackLimit /\ l + 2 \in 0..StackLimit /\ l - 1 \in 1..(l - 1) /\ l - 1 \in 1..l
       /\ l + 1 # l /\ l - 2 + 1 = l - 1 /\ l - 1 \in 1..StackLimit /\ l \in 1..l /\ l - 1 + 1 = l
  BY <1>4, <1>5, LimitIs
<1>11. w = s[l - 1] /\ w \in Val
  BY <1>5, <1>9, <1>10, ElementOfSeq DEF At, SlotsHold
<1>12. /\ q \in Machine /\ q.sp = l /\ q.mem[l] = v
       /\ \A j \in 1..StackLimit : j # l => q.mem[j] = m.mem[j]
  <2> DEFINE k == l
             x == m.tos
  <2>1. k \in 1..StackLimit /\ x \in Val /\ q = [m EXCEPT !.mem[k] = x]
    BY <1>9, <1>10
  <2> HIDE DEF q, k, x
  <2>2. /\ q \in Machine /\ q.sp = m.sp /\ q.table = m.table /\ q.tos = m.tos /\ q.mem[k] = x
        /\ \A j \in 1..StackLimit : j # k => q.mem[j] = m.mem[j]
    BY <1>9, <2>1, WriteIs
  <2> QED  BY <1>9, <2>2 DEF k, x
<1>13. mm = [u EXCEPT !.sp = l + 2]
  BY <1>9 DEF Machine
<1> HIDE DEF q, w, v
<1>14. /\ u \in Machine /\ u.sp = l /\ u.mem[l + 1] = w
       /\ \A j \in 1..StackLimit : j # l + 1 => u.mem[j] = q.mem[j]
  <2> DEFINE k == l + 1
  <2>1. k \in 1..StackLimit /\ u = [q EXCEPT !.mem[k] = w]
    BY <1>10
  <2> HIDE DEF u, k
  <2>2. /\ u \in Machine /\ u.sp = q.sp /\ u.mem[k] = w
        /\ \A j \in 1..StackLimit : j # k => u.mem[j] = q.mem[j]
    BY <1>11, <1>12, <2>1, WriteIs
  <2> QED  BY <1>12, <2>2 DEF k
<1> HIDE DEF u, mm
<1>15. mm \in Machine /\ mm.sp = l + 2 /\ mm.mem = u.mem
  BY <1>10, <1>13, <1>14, MoveIs
<1>16. \A j \in 1..(l + 1) : mm.mem[j] = r[j]
  <2> TAKE j \in 1..(l + 1)
  <2>1. CASE j = l + 1
    BY <1>8, <1>11, <1>14, <1>15, <2>1
  <2>2. CASE j = l
    BY <1>8, <1>9, <1>10, <1>12, <1>14, <1>15, <2>2
  <2>3. CASE j # l /\ j # l + 1
    <3>1. j \in 1..(l - 1) /\ j \in 1..l /\ j \in 1..StackLimit
      BY <1>5, <1>10, <2>3, LimitIs
    <3> QED  BY <1>8, <1>9, <1>12, <1>14, <1>15, <2>3, <3>1 DEF SlotsHold
  <2> QED  BY <2>1, <2>2, <2>3
<1>17. v.t \in {"I", "L"}
  <2>1. Top(types, 1) = v.t /\ Last(types) = v.t
    BY <1>5, <1>9, <1>10 DEF Top, Last
  <2>2. Last(types) # "F"
    <3> SUFFICES ASSUME v.t = "F"  PROVE FALSE
      BY <2>1
    <3>1. calculate_tos_type(<<v.t>>) = "F"
      BY Letters, TableOfSome, TableLetters
    <3>2. m.table = "F"
      BY <1>5, <1>9, <3>1, TosIs
    <3> QED  BY <1>2, <3>2 DEF LosesTable
  <2>3. v.t \in TypeKinds
    BY <1>5, <1>9, <1>10, StackIs DEF ValueOk
  <2> QED  BY <1>4, <2>1, <2>2, <2>3 DEF TypeKinds, is_kind_wide
<1>18. calculate_tos_type(<<v.t>>) = "I"
  BY <1>17, Letters, TableOfSome, TableLetters
<1>19. m.table = "I"
  BY <1>5, <1>9, <1>18, TosIs
<1>20. cast = v
  BY <1>19 DEF v
<1>21. Ready(r, NEXT_of(mm, v.t, v))
  <2>1. r # <<>> /\ Len(r) - 1 = l + 1
    BY <1>5, <1>8
  <2> QED  BY <1>6, <1>8, <1>9, <1>15, <1>16, <2>1, NextReady DEF SlotsHold
<1>22. Done(i, <<>>, <<>>, NEXT_of(mm, v.t, v))
  BY <1>1, <1>18, <1>20 DEF NEXT_of, mm
<1> QED  BY <1>4, <1>21, <1>22, StackDone

LEMMA FlushedSome ==
  ASSUME NEW s, StackOk(s), NEW mm, Flushed(s, mm), NEW p \in 0..Len(s)
  PROVE  /\ Popped(mm, p) \in Machine /\ Popped(mm, p).sp = Len(s) - p /\ Popped(mm, p).mem = mm.mem
         /\ \A j \in 1..(Len(s) - p) : mm.mem[j] = s[j]
<1>1. mm \in Machine /\ mm.sp = Len(s) /\ Len(s) \in Nat /\ \A j \in 1..Len(s) : mm.mem[j] = s[j]
  BY StackIs DEF Flushed, SlotsHold
<1>2. \A j \in 1..(Len(s) - p) : j \in 1..Len(s)
  BY <1>1
<1> QED  BY <1>1, <1>2, PoppedIs

LEMMA pop_implStep ==
  ASSUME IInv, NEW i \in Current, pop_impl(i)
  PROVE  IInv'
<1> DEFINE q == FORWARD_TO_NULLARY(m)
           p == IF i.kind = "pop" THEN 1 ELSE 2
           mm == Popped(q, p)
<1>1. Dispatch(i, {"pop", "pop2"}) /\ Done(i, <<>>, <<>>, STACK_POLYMORPHIC(mm, TypesAfter(i)))
  BY DEF pop_impl
<1>2. i.kind \in {"pop", "pop2"} /\ i.kind \in StackKinds
  BY <1>1 DEF Dispatch, StackKinds
<1>3. /\ Holds(Values, m)
      /\ StackInsn(i) \/ (InHand(i, types) /\ i.kind = "pop" /\ Moves(Effect(i), 1, 0))
  BY <1>1, <1>2, StackDispatch
<1>4. StackOk(Values) /\ Len(Values) \in Nat /\ Values \in Seq(Val)
  BY FrameIs
<1>5. Flushed(Values, q)
  BY <1>3, <1>4, ForwardIs
<1>6. p = Taken(i.kind) /\ p \in 1..2
  BY <1>2, TakenAre
<1> HIDE DEF q, p, mm
<1>7. CASE InHand(i, types) /\ i.kind = "pop" /\ Moves(Effect(i), 1, 0)
  <2>1. p = 1
    BY <1>7 DEF p
  <2>2. Allowed(i, types) /\ i.op \notin StackKinds /\ 1 \in Nat /\ 0 \in Nat
    BY <1>7 DEF InHand
  <2>3. 1 \in 0..Len(Values)
    BY <1>7, <2>2, OperandsAre
  <2>4. /\ mm \in Machine /\ mm.sp = Len(Values) - 1 /\ mm.mem = q.mem
        /\ \A j \in 1..(Len(Values) - 1) : q.mem[j] = Values[j]
    BY <1>4, <1>5, <2>1, <2>3, FlushedSome DEF mm
  <2>5. SlotsHold(Values, mm, Len(Values) - 1)
    BY <2>4 DEF SlotsHold
  <2> QED  BY <1>1, <1>7, <2>2, <2>4, <2>5, RightNone, PopStep
<1>8. CASE StackInsn(i)
  <2>1. Allowed(i, types) /\ i.op \in StackKinds /\ i.kind = analyze_instruction(i, types, StackLimit).kind
    BY <1>8 DEF StackInsn
  <2>2. i.op \in {"pop", "pop2"}
    BY <1>2, <1>8, <2>1, StackKindIs DEF StackKinds
  <2>3. PICK k \in {"pop", "pop2"} : Makes(i, k, Drop(Values, Taken(k))) /\ Taken(k) <= Len(Values)
    BY <2>1, <2>2, PopStack
  <2>4. i.kind = k
    BY <2>1, <2>3, MakesIs
  <2> DEFINE r == Drop(Values, p)
  <2>5. Makes(i, k, r) /\ p \in 0..Len(Values)
    BY <1>4, <1>6, <2>3, <2>4
  <2>6. StackOk(r) /\ TypesAfter(i) = KindsOf(r)
    BY <2>5, MakesIs
  <2>7. Len(r) = Len(Values) - p /\ \A j \in 1..(Len(Values) - p) : r[j] = Values[j]
    BY <1>4, <2>5, DropIs
  <2>8. /\ mm \in Machine /\ mm.sp = Len(Values) - p /\ mm.mem = q.mem
        /\ \A j \in 1..(Len(Values) - p) : q.mem[j] = Values[j]
    BY <1>4, <1>5, <2>5, FlushedSome DEF mm
  <2> HIDE DEF r
  <2>9. Flushed(r, mm)
    BY <2>7, <2>8 DEF Flushed, SlotsHold
  <2>10. Ready(r, STACK_POLYMORPHIC(mm, TypesAfter(i)))
    BY <2>6, <2>9, PolyReady
  <2> QED  BY <1>1, <2>5, <2>10, StackDone
<1> QED  BY <1>3, <1>7, <1>8

(* The top of the stack in memory becomes other values. *)
OnTopOf(z, mm, l, k, q) ==
  /\ z \in Machine /\ z.sp = l - k + Len(q)
  /\ \A j \in 1..(l - k) : z.mem[j] = mm.mem[j]
  /\ \A j \in 1..Len(q) : z.mem[l - k + j] = q[j]

LEMMA TopBecomesIs ==
  ASSUME NEW mm \in Machine, NEW k \in 0..mm.sp, NEW q \in Seq(Val), mm.sp - k + Len(q) <= StackLimit
  PROVE  OnTopOf(TopBecomes(mm, k, q), mm, mm.sp, k, q)
<1> DEFINE l == mm.sp
           b == l - k
           f == [j \in DOMAIN mm.mem |->
                   IF j \in (l - k + 1)..(l - k + Len(q)) THEN q[j - l + k] ELSE mm.mem[j]]
           z == [mm EXCEPT !.mem = f, !.sp = l - k + Len(q)]
<1>1. /\ l \in 0..StackLimit /\ l \in Nat /\ mm.mem \in [1..StackLimit -> Val] /\ DOMAIN mm.mem = 1..StackLimit
      /\ \A j \in 1..StackLimit : mm.mem[j] \in Val
  BY MachineIs
<1>2. b \in 0..StackLimit /\ b \in Nat /\ Len(q) \in Nat /\ \A j \in 1..Len(q) : q[j] \in Val
  BY <1>1, LenProperties, ElementOfSeq, LimitIs
<1>3. z = TopBecomes(mm, k, q)
  BY DEF TopBecomes
<1>4. \A j \in (l - k + 1)..(l - k + Len(q)) : j - l + k \in 1..Len(q)
  <2>1. \A a, c, d \in Int : \A j \in (a - c + 1)..(a - c + d) : j - a + c \in 1..d
    OBVIOUS
  <2>2. l \in Int /\ k \in Int /\ Len(q) \in Int
    BY <1>1, <1>2
  <2> QED  BY <2>1, <2>2, Zenon
<1>5. f \in [1..StackLimit -> Val]
  BY <1>1, <1>2, <1>4
<1>6. ASSUME NEW j \in 1..b  PROVE f[j] = mm.mem[j]
  <2>1. j \in 1..StackLimit /\ j \notin (l - k + 1)..(l - k + Len(q))
    BY <1>1, <1>2, LimitIs
  <2> QED  BY <1>1, <2>1
<1>7. ASSUME NEW j \in 1..Len(q)  PROVE f[b + j] = q[j]
  <2> DEFINE x == b + j
  <2>a. k \in Int /\ b + Len(q) <= StackLimit
    BY <1>1, <1>2
  <2>b. b = l - k /\ l = b + k
    BY <1>1, <2>a
  <2> HIDE DEF b
  <2>c. x \in 1..StackLimit
    BY <1>2, <2>a, LimitIs
  <2>d. x \in (l - k + 1)..(l - k + Len(q))
    BY <1>2, <2>b
  <2>e. x - l + k = j
    BY <1>1, <1>2, <2>a, <2>b
  <2>1. x \in 1..StackLimit /\ x \in (l - k + 1)..(l - k + Len(q)) /\ x - l + k = j
    BY <2>c, <2>d, <2>e
  <2> HIDE DEF x
  <2>2. f[x] = q[x - l + k]
    BY <1>1, <2>1
  <2> HIDE DEF f
  <2> QED  BY <2>1, <2>2 DEF x
<1> HIDE DEF f
<1>8. b + Len(q) \in 0..StackLimit
  BY <1>1, <1>2, LimitIs
<1>9. z \in Machine /\ z.sp = l - k + Len(q) /\ z.mem = f
  BY <1>5, <1>8 DEF Machine
<1> HIDE DEF z
<1>10. OnTopOf(z, mm, l, k, q)
  BY <1>6, <1>7, <1>9 DEF OnTopOf
<1> QED  BY <1>3, <1>10

(* The values passed over and those duplicated, as the handlers write them. *)
Copied(q, s, l, k, x) ==
  /\ q \in Seq(Val) /\ Len(q) = k + (k + x)
  /\ \A j \in 1..k : q[j] = s[l - k + j]
  /\ \A j \in 1..(k + x) : q[k + j] = s[l - k - x + j]

LEMMA InsertedInMemory ==
  ASSUME NEW s, StackOk(s), NEW mm, Flushed(s, mm), NEW k \in Nat, NEW x \in Nat, k + x <= Len(s),
         Len(s) + k <= StackLimit, NEW q, Copied(q, s, Len(s), k, x)
  PROVE  Flushed(Insert(s, k, x), TopBecomes(mm, k + x, q))
<1> DEFINE l == Len(s)
           r == Insert(s, k, x)
           z == TopBecomes(mm, k + x, q)
           b == l - (k + x)
<1>1. s \in Seq(Val) /\ l \in Nat /\ mm \in Machine /\ mm.sp = l /\ \A j \in 1..l : mm.mem[j] = s[j]
  BY StackIs DEF Flushed, SlotsHold
<1>2. Inserted(Val, r, s, l, k, x)
  BY <1>1, InsertIs
<1>3. q \in Seq(Val) /\ Len(q) = k + (k + x) /\ k + x \in 0..l /\ l - (k + x) + Len(q) <= StackLimit
  BY <1>1, LimitIs DEF Copied
<1>4. OnTopOf(z, mm, l, k + x, q)
  BY <1>1, <1>3, TopBecomesIs
<1> HIDE DEF r, z
<1>5. /\ Len(r) = l + k /\ \A j \in 1..(l - k - x) : r[j] = s[j]
      /\ \A j \in 1..k : r[l - k - x + j] = s[l - k + j]
      /\ \A j \in 1..(k + x) : r[l - x + j] = s[l - k - x + j]
  BY <1>2 DEF Inserted
<1>6. /\ z \in Machine /\ z.sp = b + Len(q) /\ \A j \in 1..b : z.mem[j] = mm.mem[j]
      /\ \A j \in 1..Len(q) : z.mem[b + j] = q[j]
  BY <1>4 DEF OnTopOf
<1>7. (\A j \in 1..k : q[j] = s[l - k + j]) /\ (\A j \in 1..(k + x) : q[k + j] = s[l - k - x + j])
  BY DEF Copied
<1>8. b = l - k - x /\ b \in Nat /\ b + Len(q) = l + k /\ l - x = b + k
  BY <1>1, <1>3
<1> HIDE DEF b
<1>9. ASSUME NEW j \in 1..(l + k)  PROVE z.mem[j] = r[j]
  <2>1. CASE j <= b
    <3>1. j \in 1..b /\ j \in 1..l
      BY <1>1, <1>8, <2>1
    <3> QED  BY <1>1, <1>5, <1>6, <1>8, <3>1
  <2>2. CASE ~(j <= b) /\ j <= b + k
    <3> DEFINE y == j - b
    <3>1. y \in 1..k /\ y \in 1..Len(q) /\ b + y = j
      BY <1>1, <1>3, <1>8, <2>2
    <3> HIDE DEF y
    <3>2. z.mem[b + y] = q[y] /\ q[y] = s[l - k + y]
      BY <1>6, <1>7, <3>1
    <3>3. r[l - k - x + y] = s[l - k + y]
      BY <1>5, <3>1
    <3> QED  BY <1>8, <3>1, <3>2, <3>3
  <2>3. CASE ~(j <= b + k)
    <3> DEFINE y == j - (b + k)
    <3>1. y \in 1..(k + x) /\ k + y \in 1..Len(q) /\ b + (k + y) = j /\ l - x + y = j
      BY <1>1, <1>3, <1>8, <2>3
    <3> HIDE DEF y
    <3>2. z.mem[b + (k + y)] = q[k + y]
      BY <1>6, <3>1
    <3>3. q[k + y] = s[l - k - x + y] /\ r[l - x + y] = s[l - k - x + y]
      BY <1>5, <1>7, <3>1
    <3> QED  BY <3>1, <3>2, <3>3
  <2> QED  BY <2>1, <2>2, <2>3
<1>10. Flushed(r, z)
  BY <1>5, <1>6, <1>8, <1>9 DEF Flushed, SlotsHold
<1> QED  BY <1>10 DEF r, z

LEMMA Copied_dup_x1 ==
  ASSUME NEW s, StackOk(s), NEW mm, Flushed(s, mm), 2 <= Len(s)
  PROVE  Copied(<<At(mm, 1), At(mm, 2), At(mm, 1)>>, s, Len(s), 1, 1)
<1> DEFINE l == Len(s)
           v1 == s[l - 1 + 1]
           v2 == s[l - 2 + 1]
           q == <<v1, v2, v1>>
<1>1. s \in Seq(Val) /\ l \in Nat
  BY StackIs
<1>2. l - 1 + 1 \in 1..l /\ l - 2 + 1 \in 1..l /\ 1 \in 1..l /\ 2 \in 1..l
  BY <1>1
<1>3. v1 \in Val /\ v2 \in Val
  BY <1>1, <1>2, ElementOfSeq
<1>4. At(mm, 1) = v1 /\ At(mm, 2) = v2
  BY <1>2, InMemory DEF Top
<1>5. Len(q) = 3 /\ q[1] = v1 /\ q[2] = v2 /\ q[3] = v1
  OBVIOUS
<1>6. q \in Seq(Val)
  BY <1>3
<1>7. l - 1 + 1 = l - 1 + 1 /\ l - 1 - 1 + 1 = l - 2 + 1 /\ l - 1 - 1 + 2 = l - 1 + 1
  BY <1>1
<1>8. s[l - 1 + 1] = v1 /\ s[l - 1 - 1 + 1] = v2 /\ s[l - 1 - 1 + 2] = v1
  BY <1>7
<1> HIDE DEF q, v1, v2
<1>9. \A j \in 1..1 : q[j] = s[l - 1 + j]
  <2>1. \A j \in 1..1 : j = 1
    OBVIOUS
  <2> QED  BY <1>5, <1>8, <2>1
<1>10. \A j \in 1..(1 + 1) : q[1 + j] = s[l - 1 - 1 + j]
  <2>1. \A j \in 1..(1 + 1) : j = 1 \/ j = 2
    OBVIOUS
  <2>2. 1 + 1 = 2 /\ 1 + 2 = 3
    OBVIOUS
  <2> QED  BY <1>5, <1>8, <2>1, <2>2
<1>11. Copied(q, s, l, 1, 1)
  BY <1>5, <1>6, <1>9, <1>10 DEF Copied
<1>12. <<At(mm, 1), At(mm, 2), At(mm, 1)>> = q
  BY <1>4 DEF q
<1> QED  BY <1>11, <1>12

LEMMA Copied_dup_x2 ==
  ASSUME NEW s, StackOk(s), NEW mm, Flushed(s, mm), 3 <= Len(s)
  PROVE  Copied(<<At(mm, 1), At(mm, 3), At(mm, 2), At(mm, 1)>>, s, Len(s), 1, 2)
<1> DEFINE l == Len(s)
           v1 == s[l - 1 + 1]
           v2 == s[l - 2 + 1]
           v3 == s[l - 3 + 1]
           q == <<v1, v3, v2, v1>>
<1>1. s \in Seq(Val) /\ l \in Nat
  BY StackIs
<1>2. l - 1 + 1 \in 1..l /\ l - 2 + 1 \in 1..l /\ l - 3 + 1 \in 1..l /\ 1 \in 1..l /\ 2 \in 1..l /\ 3 \in 1..l
  BY <1>1
<1>3. v1 \in Val /\ v2 \in Val /\ v3 \in Val
  BY <1>1, <1>2, ElementOfSeq
<1>4. At(mm, 1) = v1 /\ At(mm, 2) = v2 /\ At(mm, 3) = v3
  BY <1>2, InMemory DEF Top
<1>5. Len(q) = 4 /\ q[1] = v1 /\ q[2] = v3 /\ q[3] = v2 /\ q[4] = v1
  OBVIOUS
<1>6. q \in Seq(Val)
  BY <1>3
<1>7. l - 1 + 1 = l - 1 + 1 /\ l - 1 - 2 + 1 = l - 3 + 1 /\ l - 1 - 2 + 2 = l - 2 + 1 /\ l - 1 - 2 + 3 = l - 1 + 1
  BY <1>1
<1>8. s[l - 1 + 1] = v1 /\ s[l - 1 - 2 + 1] = v3 /\ s[l - 1 - 2 + 2] = v2 /\ s[l - 1 - 2 + 3] = v1
  BY <1>7
<1> HIDE DEF q, v1, v2, v3
<1>9. \A j \in 1..1 : q[j] = s[l - 1 + j]
  <2>1. \A j \in 1..1 : j = 1
    OBVIOUS
  <2> QED  BY <1>5, <1>8, <2>1
<1>10. \A j \in 1..(1 + 2) : q[1 + j] = s[l - 1 - 2 + j]
  <2>1. \A j \in 1..(1 + 2) : j = 1 \/ j = 2 \/ j = 3
    OBVIOUS
  <2>2. 1 + 1 = 2 /\ 1 + 2 = 3 /\ 1 + 3 = 4
    OBVIOUS
  <2> QED  BY <1>5, <1>8, <2>1, <2>2
<1>11. Copied(q, s, l, 1, 2)
  BY <1>5, <1>6, <1>9, <1>10 DEF Copied
<1>12. <<At(mm, 1), At(mm, 3), At(mm, 2), At(mm, 1)>> = q
  BY <1>4 DEF q
<1> QED  BY <1>11, <1>12

LEMMA Copied_dup2_x1 ==
  ASSUME NEW s, StackOk(s), NEW mm, Flushed(s, mm), 3 <= Len(s)
  PROVE  Copied(<<At(mm, 2), At(mm, 1), At(mm, 3), At(mm, 2), At(mm, 1)>>, s, Len(s), 2, 1)
<1> DEFINE l == Len(s)
           v1 == s[l - 1 + 1]
           v2 == s[l - 2 + 1]
           v3 == s[l - 3 + 1]
           q == <<v2, v1, v3, v2, v1>>
<1>1. s \in Seq(Val) /\ l \in Nat
  BY StackIs
<1>2. l - 1 + 1 \in 1..l /\ l - 2 + 1 \in 1..l /\ l - 3 + 1 \in 1..l /\ 1 \in 1..l /\ 2 \in 1..l /\ 3 \in 1..l
  BY <1>1
<1>3. v1 \in Val /\ v2 \in Val /\ v3 \in Val
  BY <1>1, <1>2, ElementOfSeq
<1>4. At(mm, 1) = v1 /\ At(mm, 2) = v2 /\ At(mm, 3) = v3
  BY <1>2, InMemory DEF Top
<1>5. Len(q) = 5 /\ q[1] = v2 /\ q[2] = v1 /\ q[3] = v3 /\ q[4] = v2 /\ q[5] = v1
  OBVIOUS
<1>6. q \in Seq(Val)
  BY <1>3
<1>7. l - 2 + 1 = l - 2 + 1 /\ l - 2 + 2 = l - 1 + 1 /\ l - 2 - 1 + 1 = l - 3 + 1 /\ l - 2 - 1 + 2 = l - 2 + 1 /\ l - 2 - 1 + 3 = l - 1 + 1
  BY <1>1
<1>8. s[l - 2 + 1] = v2 /\ s[l - 2 + 2] = v1 /\ s[l - 2 - 1 + 1] = v3 /\ s[l - 2 - 1 + 2] = v2 /\ s[l - 2 - 1 + 3] = v1
  BY <1>7
<1> HIDE DEF q, v1, v2, v3
<1>9. \A j \in 1..2 : q[j] = s[l - 2 + j]
  <2>1. \A j \in 1..2 : j = 1 \/ j = 2
    OBVIOUS
  <2> QED  BY <1>5, <1>8, <2>1
<1>10. \A j \in 1..(2 + 1) : q[2 + j] = s[l - 2 - 1 + j]
  <2>1. \A j \in 1..(2 + 1) : j = 1 \/ j = 2 \/ j = 3
    OBVIOUS
  <2>2. 2 + 1 = 3 /\ 2 + 2 = 4 /\ 2 + 3 = 5
    OBVIOUS
  <2> QED  BY <1>5, <1>8, <2>1, <2>2
<1>11. Copied(q, s, l, 2, 1)
  BY <1>5, <1>6, <1>9, <1>10 DEF Copied
<1>12. <<At(mm, 2), At(mm, 1), At(mm, 3), At(mm, 2), At(mm, 1)>> = q
  BY <1>4 DEF q
<1> QED  BY <1>11, <1>12

LEMMA Copied_dup2_x2 ==
  ASSUME NEW s, StackOk(s), NEW mm, Flushed(s, mm), 4 <= Len(s)
  PROVE  Copied(<<At(mm, 2), At(mm, 1), At(mm, 4), At(mm, 3), At(mm, 2), At(mm, 1)>>, s, Len(s), 2, 2)
<1> DEFINE l == Len(s)
           v1 == s[l - 1 + 1]
           v2 == s[l - 2 + 1]
           v3 == s[l - 3 + 1]
           v4 == s[l - 4 + 1]
           q == <<v2, v1, v4, v3, v2, v1>>
<1>1. s \in Seq(Val) /\ l \in Nat
  BY StackIs
<1>2. l - 1 + 1 \in 1..l /\ l - 2 + 1 \in 1..l /\ l - 3 + 1 \in 1..l /\ l - 4 + 1 \in 1..l /\ 1 \in 1..l /\ 2 \in 1..l /\ 3 \in 1..l /\ 4 \in 1..l
  BY <1>1
<1>3. v1 \in Val /\ v2 \in Val /\ v3 \in Val /\ v4 \in Val
  BY <1>1, <1>2, ElementOfSeq
<1>4. At(mm, 1) = v1 /\ At(mm, 2) = v2 /\ At(mm, 3) = v3 /\ At(mm, 4) = v4
  BY <1>2, InMemory DEF Top
<1>5. Len(q) = 6 /\ q[1] = v2 /\ q[2] = v1 /\ q[3] = v4 /\ q[4] = v3 /\ q[5] = v2 /\ q[6] = v1
  OBVIOUS
<1>6. q \in Seq(Val)
  BY <1>3
<1>7. l - 2 + 1 = l - 2 + 1 /\ l - 2 + 2 = l - 1 + 1 /\ l - 2 - 2 + 1 = l - 4 + 1 /\ l - 2 - 2 + 2 = l - 3 + 1 /\ l - 2 - 2 + 3 = l - 2 + 1 /\ l - 2 - 2 + 4 = l - 1 + 1
  BY <1>1
<1>8. s[l - 2 + 1] = v2 /\ s[l - 2 + 2] = v1 /\ s[l - 2 - 2 + 1] = v4 /\ s[l - 2 - 2 + 2] = v3 /\ s[l - 2 - 2 + 3] = v2 /\ s[l - 2 - 2 + 4] = v1
  BY <1>7
<1> HIDE DEF q, v1, v2, v3, v4
<1>9. \A j \in 1..2 : q[j] = s[l - 2 + j]
  <2>1. \A j \in 1..2 : j = 1 \/ j = 2
    OBVIOUS
  <2> QED  BY <1>5, <1>8, <2>1
<1>10. \A j \in 1..(2 + 2) : q[2 + j] = s[l - 2 - 2 + j]
  <2>1. \A j \in 1..(2 + 2) : j = 1 \/ j = 2 \/ j = 3 \/ j = 4
    OBVIOUS
  <2>2. 2 + 1 = 3 /\ 2 + 2 = 4 /\ 2 + 3 = 5 /\ 2 + 4 = 6
    OBVIOUS
  <2> QED  BY <1>5, <1>8, <2>1, <2>2
<1>11. Copied(q, s, l, 2, 2)
  BY <1>5, <1>6, <1>9, <1>10 DEF Copied
<1>12. <<At(mm, 2), At(mm, 1), At(mm, 4), At(mm, 3), At(mm, 2), At(mm, 1)>> = q
  BY <1>4 DEF q
<1> QED  BY <1>11, <1>12



LEMMA DupInMemory ==
  ASSUME IInv, NEW i, StackInsn(i), i.kind \in DupFamily, NEW mm, Flushed(Values, mm), NEW q,
         Copied(q, Values, Len(Values), Taken(i.kind), Over(i.kind)), NEW p, p = Taken(i.kind) + Over(i.kind),
         Done(i, <<>>, <<>>, STACK_POLYMORPHIC(TopBecomes(mm, p, q), TypesAfter(i)))
  PROVE  IInv'
<1> DEFINE k == Taken(i.kind)
           x == Over(i.kind)
           r == Insert(Values, k, x)
           z == TopBecomes(mm, p, q)
<1>1. StackOk(Values)
  BY FrameIs
<1>2. Makes(i, i.kind, r) /\ k + x <= Len(Values) /\ Len(Values) + k <= StackLimit
  BY DupHand
<1>3. k \in Nat /\ x \in Nat
  BY TakenBounds DEF DupFamily
<1> HIDE DEF k, x
<1>4. Flushed(r, z)
  BY <1>1, <1>2, <1>3, InsertedInMemory DEF k, x
<1> HIDE DEF r, z
<1>5. StackOk(r) /\ TypesAfter(i) = KindsOf(r)
  BY <1>2, MakesIs
<1>6. Ready(r, STACK_POLYMORPHIC(z, TypesAfter(i)))
  BY <1>4, <1>5, PolyReady
<1>7. Done(i, <<>>, <<>>, STACK_POLYMORPHIC(z, TypesAfter(i)))
  BY DEF z
<1> QED  BY <1>2, <1>6, <1>7, StackDone

LEMMA SwapInMemory ==
  ASSUME IInv, NEW i, StackInsn(i), i.op = "swap", NEW mm, Flushed(Values, mm),
         Done(i, <<>>, <<>>, STACK_POLYMORPHIC(TopBecomes(mm, 2, <<At(mm, 1), At(mm, 2)>>), TypesAfter(i)))
  PROVE  IInv'
<1> DEFINE s == Values
           l == Len(s)
           v == Top(s, 1)
           w == Top(s, 2)
           q == <<v, w>>
           r == Drop(s, 2) \o q
           z == TopBecomes(mm, 2, q)
<1>1. StackOk(s) /\ s \in Seq(Val) /\ l \in Nat /\ l <= StackLimit
  BY FrameIs
<1>2. Makes(i, "swap", r) /\ 2 <= l /\ ValueOk(v) /\ ValueOk(w)
  BY SwapStack DEF StackInsn
<1>3. mm \in Machine /\ mm.sp = l /\ \A j \in 1..l : mm.mem[j] = s[j]
  BY DEF Flushed, SlotsHold
<1>4. At(mm, 1) = v /\ At(mm, 2) = w
  <2>1. 1 \in 1..l /\ 2 \in 1..l
    BY <1>1, <1>2
  <2> QED  BY <1>1, <2>1, InMemory
<1>5. v \in Val /\ w \in Val
  BY <1>2 DEF ValueOk
<1> HIDE DEF v, w
<1>6. q \in Seq(Val) /\ Len(q) = 2 /\ q[1] = v /\ q[2] = w
  BY <1>5
<1>7. StackOk(q)
  <2>1. \A j \in 1..2 : j = 1 \/ j = 2
    OBVIOUS
  <2>2. \A j \in 1..Len(q) : ValueOk(q[j])
    BY <1>2, <1>6, <2>1
  <2>3. Len(q) <= StackLimit
    BY <1>1, <1>2, <1>6, LimitIs
  <2> HIDE DEF q
  <2> QED  BY <1>6, <2>2, <2>3, StackFrom
<1>8. Done(i, <<>>, <<>>, STACK_POLYMORPHIC(z, TypesAfter(i)))
  BY <1>4
<1> HIDE DEF q, s
<1>9. 2 \in 0..l /\ l - 2 + Len(q) = l /\ l - 2 + Len(q) <= StackLimit /\ l - 2 \in Nat
  BY <1>1, <1>2, <1>6
<1>10. Grown(r, s, 2, q)
  BY <1>1, <1>7, <1>9, StackAfter
<1>11. OnTopOf(z, mm, l, 2, q)
  BY <1>3, <1>6, <1>9, TopBecomesIs
<1> HIDE DEF r, z
<1>12. /\ StackOk(r) /\ Len(r) = l /\ \A j \in 1..(l - 2) : r[j] = s[j]
       /\ \A j \in 1..2 : r[l - 2 + j] = q[j]
  BY <1>6, <1>9, <1>10 DEF Grown
<1>13. /\ z \in Machine /\ z.sp = l /\ \A j \in 1..(l - 2) : z.mem[j] = mm.mem[j]
       /\ \A j \in 1..2 : z.mem[l - 2 + j] = q[j]
  BY <1>6, <1>9, <1>11 DEF OnTopOf
<1>14. ASSUME NEW j \in 1..l  PROVE z.mem[j] = r[j]
  <2>1. CASE j \in 1..(l - 2)
    BY <1>3, <1>12, <1>13, <2>1
  <2>2. CASE j \notin 1..(l - 2)
    <3> DEFINE y == j - (l - 2)
    <3>1. y \in 1..2 /\ l - 2 + y = j
      BY <1>1, <1>9, <2>2
    <3> HIDE DEF y
    <3> QED  BY <1>12, <1>13, <3>1
  <2> QED  BY <2>1, <2>2
<1>15. Flushed(r, z)
  BY <1>12, <1>13, <1>14 DEF Flushed, SlotsHold
<1>16. TypesAfter(i) = KindsOf(r)
  BY <1>2, MakesIs
<1>17. Ready(r, STACK_POLYMORPHIC(z, TypesAfter(i)))
  BY <1>12, <1>15, <1>16, PolyReady
<1> QED  BY <1>2, <1>8, <1>17, StackDone

LEMMA dup_x_implStep ==
  ASSUME IInv, NEW i \in Current, dup_x_impl(i)
  PROVE  IInv'
<1> DEFINE mm == FORWARD_TO_NULLARY(m)
           made(k, q) == Done(i, <<>>, <<>>, STACK_POLYMORPHIC(TopBecomes(mm, k, q), TypesAfter(i)))
<1>1. Dispatch(i, {"dup_x1", "dup_x2", "dup2_x1", "dup2_x2", "swap"})
  BY DEF dup_x_impl
<1>2. i.kind \in {"dup_x1", "dup_x2", "dup2_x1", "dup2_x2", "swap"}
  BY <1>1 DEF Dispatch
<1>3. i.kind \in StackKinds /\ i.kind # "pop"
  BY <1>2 DEF StackKinds
<1>4. StackOk(Values) /\ Len(Values) \in Nat
  BY FrameIs
<1>5. Holds(Values, m) /\ StackInsn(i)
  BY <1>1, <1>3, StackDispatch
<1>6. Flushed(Values, mm)
  BY <1>4, <1>5, ForwardIs
<1>7. /\ i.kind = "dup_x1" => made(2, <<At(mm, 1), At(mm, 2), At(mm, 1)>>)
      /\ i.kind = "dup_x2" => made(3, <<At(mm, 1), At(mm, 3), At(mm, 2), At(mm, 1)>>)
      /\ i.kind = "dup2_x1" => made(3, <<At(mm, 2), At(mm, 1), At(mm, 3), At(mm, 2), At(mm, 1)>>)
      /\ i.kind = "dup2_x2" => made(4, <<At(mm, 2), At(mm, 1), At(mm, 4), At(mm, 3), At(mm, 2), At(mm, 1)>>)
      /\ i.kind = "swap" => made(2, <<At(mm, 1), At(mm, 2)>>)
  BY DEF dup_x_impl
<1> HIDE DEF mm
<1>8. i.kind # "swap" => /\ i.kind \in DupFamily /\ Taken(i.kind) + Over(i.kind) <= Len(Values)
  BY <1>2, <1>5, DupHand DEF DupFamily, StackKinds
<1>9. CASE i.kind = "dup_x1"
  <2>1. Taken(i.kind) = 1 /\ Over(i.kind) = 1 /\ Taken(i.kind) + Over(i.kind) = 2 /\ 2 <= Len(Values)
    BY <1>8, <1>9, TakenAre
  <2>2. Copied(<<At(mm, 1), At(mm, 2), At(mm, 1)>>, Values, Len(Values), 1, 1)
    BY <1>4, <1>6, <2>1, Copied_dup_x1
  <2> QED  BY <1>5, <1>6, <1>7, <1>8, <1>9, <2>1, <2>2, DupInMemory
<1>10. CASE i.kind = "dup_x2"
  <2>1. Taken(i.kind) = 1 /\ Over(i.kind) = 2 /\ Taken(i.kind) + Over(i.kind) = 3 /\ 3 <= Len(Values)
    BY <1>8, <1>10, TakenAre
  <2>2. Copied(<<At(mm, 1), At(mm, 3), At(mm, 2), At(mm, 1)>>, Values, Len(Values), 1, 2)
    BY <1>4, <1>6, <2>1, Copied_dup_x2
  <2> QED  BY <1>5, <1>6, <1>7, <1>8, <1>10, <2>1, <2>2, DupInMemory
<1>11. CASE i.kind = "dup2_x1"
  <2>1. Taken(i.kind) = 2 /\ Over(i.kind) = 1 /\ Taken(i.kind) + Over(i.kind) = 3 /\ 3 <= Len(Values)
    BY <1>8, <1>11, TakenAre
  <2>2. Copied(<<At(mm, 2), At(mm, 1), At(mm, 3), At(mm, 2), At(mm, 1)>>, Values, Len(Values), 2, 1)
    BY <1>4, <1>6, <2>1, Copied_dup2_x1
  <2> QED  BY <1>5, <1>6, <1>7, <1>8, <1>11, <2>1, <2>2, DupInMemory
<1>12. CASE i.kind = "dup2_x2"
  <2>1. Taken(i.kind) = 2 /\ Over(i.kind) = 2 /\ Taken(i.kind) + Over(i.kind) = 4 /\ 4 <= Len(Values)
    BY <1>8, <1>12, TakenAre
  <2>2. Copied(<<At(mm, 2), At(mm, 1), At(mm, 4), At(mm, 3), At(mm, 2), At(mm, 1)>>, Values, Len(Values), 2, 2)
    BY <1>4, <1>6, <2>1, Copied_dup2_x2
  <2> QED  BY <1>5, <1>6, <1>7, <1>8, <1>12, <2>1, <2>2, DupInMemory
<1>13. CASE i.kind = "swap"
  <2>1. i.op = "swap"
    BY <1>5, <1>13, StackKindIs DEF StackInsn
  <2> QED  BY <1>5, <1>6, <1>7, <1>13, <2>1, SwapInMemory
<1> QED  BY <1>2, <1>9, <1>10, <1>11, <1>12, <1>13


-----------------------------------------------------------------------------
(***************************************************************************)
(* A collection while the VM is elsewhere.                                 *)
(***************************************************************************)
LEMMA MovedIs ==
  ASSUME gc \in Nat, NEW v \in Val
  PROVE  /\ Moved(v) \in Val /\ Moved(v).t = v.t /\ Moved(v).id = v.id
         /\ v.t # "L" => Moved(v) = v
BY DEF Moved, Val

AllMoved(s) == [i \in DOMAIN s |-> Moved(s[i])]

LEMMA AllMovedIs ==
  ASSUME gc \in Nat, NEW s, StackOk(s)
  PROVE  /\ StackOk(AllMoved(s)) /\ Len(AllMoved(s)) = Len(s) /\ KindsOf(AllMoved(s)) = KindsOf(s)
         /\ \A j \in 1..Len(s) : AllMoved(s)[j] = Moved(s[j])
<1> DEFINE r == AllMoved(s)
           l == Len(s)
<1>1. /\ s \in Seq(Val) /\ l \in Nat /\ l <= StackLimit /\ DOMAIN s = 1..l
      /\ \A j \in 1..l : ValueOk(s[j])
  BY StackIs
<1>2. r = [j \in 1..l |-> Moved(s[j])]
  BY <1>1 DEF AllMoved
<1>3. \A j \in 1..l : s[j] \in Val /\ ValueOk(Moved(s[j])) /\ Moved(s[j]).t = s[j].t
  BY <1>1, MovedIs DEF ValueOk
<1>4. \A j \in 1..l : r[j] = Moved(s[j])
  BY <1>2
<1>5. r \in [1..l -> Val]
  BY <1>2, <1>3 DEF ValueOk
<1> HIDE DEF r
<1>6. r \in Seq(Val) /\ Len(r) = l /\ DOMAIN r = 1..l
  BY <1>1, <1>5, SeqDef
<1>7. StackOk(r)
  BY <1>1, <1>3, <1>4, <1>6, StackFrom
<1>8. KindsOf(r) = KindsOf(s)
  BY <1>1, <1>3, <1>4, <1>6 DEF KindsOf
<1> QED  BY <1>4, <1>6, <1>7, <1>8 DEF r

LEMMA RelocatedIs ==
  ASSUME gc \in Nat, NEW mm \in Machine, NEW k
  PROVE  LET q == Relocated(mm, k)
         IN  /\ q \in Machine /\ q.sp = mm.sp /\ q.table = mm.table /\ q.tos = mm.tos
             /\ \A j \in 1..StackLimit :
                  q.mem[j] = IF j <= k /\ types[j] = "L" THEN Moved(mm.mem[j]) ELSE mm.mem[j]
<1> DEFINE f == [j \in 1..StackLimit |->
                   IF j <= k /\ types[j] = "L" THEN Moved(mm.mem[j]) ELSE mm.mem[j]]
<1>1. mm.mem \in [1..StackLimit -> Val] /\ \A j \in 1..StackLimit : mm.mem[j] \in Val
  BY MachineIs
<1>2. f \in [1..StackLimit -> Val]
  BY <1>1, MovedIs
<1>3. \A j \in 1..StackLimit : f[j] = IF j <= k /\ types[j] = "L" THEN Moved(mm.mem[j]) ELSE mm.mem[j]
  OBVIOUS
<1>4. Relocated(mm, k) = [mm EXCEPT !.mem = f]
  BY <1>1 DEF Relocated
<1> HIDE DEF f
<1>5. /\ [mm EXCEPT !.mem = f] \in Machine /\ [mm EXCEPT !.mem = f].mem = f
      /\ [mm EXCEPT !.mem = f].sp = mm.sp /\ [mm EXCEPT !.mem = f].table = mm.table
      /\ [mm EXCEPT !.mem = f].tos = mm.tos
  BY <1>2 DEF Machine
<1> QED  BY <1>3, <1>4, <1>5

(* What is up to date is scanned. *)
LEMMA ScannedIs ==
  ASSUME IInv, phase \in Safepoints
  PROVE  /\ Scanned \in Int /\ UpToDate(Values, phase, insn) \in Int
         /\ UpToDate(Values, phase, insn) <= Scanned /\ Scanned <= Len(Values)
<1>1. Len(Values) \in Nat /\ Len(types) = Len(Values)
  BY FrameIs
<1>2. CASE phase = "call"
  <2>1. InHand(insn, types)
    BY <1>2, AwayIs DEF Elsewhere
  <2>2. UpToDate(Values, phase, insn) \in Int /\ UpToDate(Values, phase, insn) <= Len(Values)
    BY <2>1, ReachIs
  <2>3. Scanned = UpToDate(Values, phase, insn)
    BY <1>1, <1>2 DEF Scanned, Arguments, UpToDate
  <2> QED  BY <2>2, <2>3
<1>3. CASE phase # "call"
  <2>1. Scanned = Len(Values)
    BY <1>1, <1>3 DEF Scanned
  <2>2. UpToDate(Values, phase, insn) \in Int /\ UpToDate(Values, phase, insn) <= Len(Values)
    BY <1>1, <1>3, UpToDateIs
  <2> QED  BY <1>1, <2>1, <2>2
<1> QED  BY <1>2, <1>3

LEMMA SafepointIs ==
  ASSUME IInv, phase \in Safepoints
  PROVE  phase \notin {"run", "left", "crashed"} /\ Away(Values, m, phase, insn)
<1>1. phase \notin {"run", "left", "crashed"}
  BY DEF Safepoints, CanThrow
<1> QED  BY <1>1 DEF IInv

LEMMA CollectStep ==
  ASSUME IInv, Collect
  PROVE  IInv'
<1> DEFINE s == Values
           l == Len(s)
           r == AllMoved(s)
           q == Relocated(m, Scanned)
           u == UpToDate(s, phase, insn)
<1>1. /\ phase \in Safepoints /\ m' = q /\ words' = WordsOfValues(r) /\ gc' = gc + 1
      /\ types' = types /\ insn' = insn /\ phase' = phase /\ ok' = ok /\ n' = n
  BY DEF Collect, AllMoved
<1>2. /\ gc \in Nat /\ n \in Nat /\ ok = TRUE /\ phase \in Phases
      /\ types = KindsOf(s) /\ StackOk(s)
  BY DEF IInv
<1>3. /\ s \in Seq(Val) /\ l \in Nat /\ l <= StackLimit
      /\ \A j \in 1..l : types[j] = s[j].t /\ s[j] \in Val
  BY FrameIs DEF ValueOk
<1>4. /\ StackOk(r) /\ Len(r) = l /\ KindsOf(r) = KindsOf(s) /\ \A j \in 1..l : r[j] = Moved(s[j])
  BY <1>2, AllMovedIs
<1>5. phase \notin {"run", "left", "crashed"} /\ Away(s, m, phase, insn)
  BY <1>1, SafepointIs
<1>6. /\ m \in Machine /\ m.sp = l /\ RegisterOk(s, m) /\ ((m.table # "V" /\ s[l].t # "L") => m.tos = s[l])
      /\ (Reloads(phase, insn) => m.table # "V") /\ \A j \in 1..u : m.mem[j] = s[j]
  BY <1>5 DEF Away, SlotsHold
<1>7. u \in Int /\ u <= Scanned /\ Scanned \in Int /\ Scanned <= l
  BY <1>1, ScannedIs
<1>8. /\ q \in Machine /\ q.sp = m.sp /\ q.table = m.table /\ q.tos = m.tos
      /\ \A j \in 1..StackLimit :
           q.mem[j] = IF j <= Scanned /\ types[j] = "L" THEN Moved(m.mem[j]) ELSE m.mem[j]
  BY <1>2, <1>6, RelocatedIs
<1>9. UpToDate(r, phase, insn) = u
  BY <1>4 DEF UpToDate
<1>10. Values' = r
  <2>1. r \in Seq(Val)
    BY <1>4 DEF StackOk
  <2> QED  BY <1>1, <2>1, ValuesBack DEF Values
<1> HIDE DEF r, q, u, s
<1>11. ASSUME NEW j \in 1..u  PROVE q.mem[j] = r[j]
  <2>1. j \in 1..l /\ j \in 1..StackLimit /\ j <= Scanned
    BY <1>3, <1>7, LimitIs
  <2>2. s[j] \in Val /\ types[j] = s[j].t /\ m.mem[j] = s[j] /\ r[j] = Moved(s[j])
    BY <1>3, <1>4, <1>6, <2>1
  <2>3. q.mem[j] = IF types[j] = "L" THEN Moved(m.mem[j]) ELSE m.mem[j]
    BY <1>8, <2>1
  <2>4. s[j].t # "L" => Moved(s[j]) = s[j]
    BY <1>2, <2>2, MovedIs
  <2> QED  BY <2>2, <2>3, <2>4
<1>12. (q.table # "V" /\ r[l].t # "L") => q.tos = r[l]
  <2> SUFFICES ASSUME q.table # "V", r[l].t # "L"  PROVE q.tos = r[l]
    OBVIOUS
  <2>1. s # <<>> /\ m.table # "V"
    BY <1>6, <1>8 DEF RegisterOk
  <2>2. l \in 1..l
    BY <1>3, <2>1, EmptySeq DEF l
  <2>3. r[l] = Moved(s[l]) /\ s[l] \in Val
    BY <1>3, <1>4, <2>2
  <2>4. s[l].t # "L" /\ Moved(s[l]) = s[l]
    BY <1>2, <2>3, MovedIs
  <2> QED  BY <1>6, <1>8, <2>1, <2>3, <2>4
<1>13. RegisterOk(r, q)
  <2>1. s # <<>> => r # <<>>
    BY <1>2, <1>4, StackIs
  <2> QED  BY <1>4, <1>6, <1>8, <2>1 DEF RegisterOk
<1>14. Away(r, q, phase, insn)
  BY <1>4, <1>6, <1>8, <1>9, <1>11, <1>12, <1>13 DEF Away, SlotsHold
<1>15. Away(Values, m, phase, insn)'
  BY <1>1, <1>10, <1>14
<1>16. phase \notin {"run", "left", "crashed"} \union Raised => InHand(insn, types) /\ KindFits(phase, insn)
  BY DEF IInv
<1>17. phase' \notin {"run", "left", "crashed"} \union Raised => (InHand(insn, types) /\ KindFits(phase, insn))'
  BY <1>1, <1>16
<1>18. /\ phase' \in Phases /\ gc' \in Nat /\ n' \in Nat /\ ok' = TRUE
       /\ StackOk(Values)' /\ (words = WordsOfValues(Values))' /\ (types = KindsOf(Values))'
  BY <1>1, <1>2, <1>4, <1>10
<1> QED  BY <1>1, <1>5, <1>15, <1>17, <1>18 DEF IInv

LEMMA StutterStep ==
  ASSUME IInv, UNCHANGED vars
  PROVE  IInv'
<1>1. /\ types' = types /\ words' = words /\ m' = m /\ insn' = insn /\ phase' = phase /\ ok' = ok
      /\ gc' = gc /\ n' = n
  BY DEF vars
<1>2. Values' = Values
  BY <1>1 DEF Values
<1> QED  BY <1>1, <1>2 DEF IInv


-----------------------------------------------------------------------------
(***************************************************************************)
(* The invariant holds initially and every step preserves it.              *)
(***************************************************************************)
LEMMA InitIs == Init => IInv
<1> SUFFICES ASSUME Init  PROVE IInv
  OBVIOUS
<1> DEFINE s == [i \in DOMAIN types |-> Value(types[i], i, 0)]
           blank == [i \in 1..StackLimit |-> IF i <= Len(types) THEN s[i] ELSE Undef]
           mm == [sp |-> Len(types), mem |-> blank, tos |-> Undef, table |-> "V"]
           l == Len(types)
<1>1. types \in Seq(TypeKinds) /\ l <= StackLimit
  BY CodeAssumption DEF Init
<1>2. l \in Nat /\ DOMAIN types = 1..l /\ \A i \in 1..l : types[i] \in TypeKinds
  BY <1>1, LenProperties, ElementOfSeq
<1>3. /\ words = WordsOfValues(s) /\ m = STACK_POLYMORPHIC(mm, types)
      /\ insn = NoInsn /\ phase = "run" /\ ok = TRUE /\ gc = 0 /\ n = 0
  BY DEF Init
<1>4. \A i \in 1..l : ValueOk(Value(types[i], i, 0)) /\ Value(types[i], i, 0).t = types[i]
  BY <1>2 DEF ValueOk, Value, Val
<1>5. s = [i \in 1..l |-> Value(types[i], i, 0)]
  BY <1>2
<1>6. \A i \in 1..l : s[i] = Value(types[i], i, 0)
  BY <1>5
<1>7. s \in [1..l -> Val]
  BY <1>4, <1>5 DEF ValueOk
<1>8. blank \in [1..StackLimit -> Val]
  <2> HIDE DEF s
  <2>1. \A i \in 1..l : s[i] \in Val
    BY <1>7
  <2>2. \A i \in 1..StackLimit : i <= l => i \in 1..l
    BY <1>2, LimitIs
  <2>3. \A i \in 1..StackLimit : i <= l => s[i] \in Val
    BY <2>1, <2>2
  <2> QED  BY <2>3, UndefIs
<1>9. \A i \in 1..l : blank[i] = s[i]
  <2>1. \A i \in 1..l : i \in 1..StackLimit /\ i <= l
    BY <1>1, <1>2, LimitIs
  <2> HIDE DEF s
  <2> QED  BY <2>1
<1> HIDE DEF s, blank
<1>10. s \in Seq(Val) /\ Len(s) = l /\ DOMAIN s = 1..l
  BY <1>2, <1>7, SeqDef
<1>11. StackOk(s)
  BY <1>1, <1>4, <1>6, <1>10, StackFrom
<1>12. KindsOf(s) = types
  <2>1. KindsOf(s) \in Seq(TypeKinds) /\ Len(KindsOf(s)) = Len(s) /\ \A i \in 1..Len(s) : KindsOf(s)[i] = s[i].t
    BY <1>11, StackIs
  <2>2. \A i \in 1..l : s[i].t = types[i]
    BY <1>4, <1>6
  <2>3. Len(KindsOf(s)) = l /\ \A i \in 1..l : KindsOf(s)[i] = types[i]
    BY <1>10, <2>1, <2>2
  <2> QED  BY <1>1, <2>1, <2>3, SeqEqual
<1>13. mm \in Machine
  BY <1>1, <1>2, <1>8, UndefIs, LimitIs DEF Machine
<1>14. Flushed(s, mm)
  BY <1>9, <1>10, <1>13 DEF Flushed, SlotsHold
<1> HIDE DEF mm
<1>15. Ready(s, m)
  BY <1>3, <1>11, <1>12, <1>14, PolyReady
<1>16. Values = s
  BY <1>3, <1>10, ValuesBack DEF Values
<1>17. Holds(Values, m) /\ Running(insn, m, types)
  BY <1>3, <1>11, <1>12, <1>15, <1>16, StackIs DEF Ready, Running
<1> QED  BY <1>3, <1>11, <1>12, <1>16, <1>17 DEF IInv, Phases

LEMMA PlainStep ==
  ASSUME IInv, NEW i \in Current, ExecutePlain(i)
  PROVE  lost' \/ IInv'
<1>1. CASE const_impl(i) \/ load_impl(i) \/ getstatic_X_impl(i)
  BY <1>1, LoadHandlers
<1>2. CASE nop_impl(i) \/ iinc_impl(i) \/ goto_impl(i)
  BY <1>2, SkipHandlers
<1>3. CASE INTEGER_UN_OP(i) \/ FLOAT_UN_OP(i) \/ sqrt_impl(i) \/ arraylength_impl(i) \/ getfield_X_impl(i)
  BY <1>3, UnaryHandlers
<1>4. CASE INTEGER_BIN_OP(i) \/ FLOAT_BIN_OP(i) \/ pow_impl(i) \/ div_impl(i) \/ ARRAY_LOAD(i)
  BY <1>4, BinaryHandlers
<1>5. CASE \/ ARRAY_STORE(i) \/ aastore_impl(i) \/ putfield_X_impl(i) \/ putstatic_X_impl(i)
           \/ store_impl(i) \/ switch_impl(i) \/ MAKE_INT_BRANCH_AGAINST_0(i) \/ MAKE_INT_BRANCH(i)
           \/ if_acmp_impl(i) \/ monitorexit_impl(i)
  BY <1>5, ConsumingHandlers
<1>6. CASE fuel_check(i)
  BY <1>6, fuel_checkStep
<1>7. CASE return_impl(i) \/ athrow_impl(i)
  BY <1>7, LeavingHandlers
<1>8. CASE dup_impl(i)
  BY <1>8, dup_implStep
<1>9. CASE dup2_impl(i)
  <2>1. CASE ~LosesTable(i)
    BY <1>9, <2>1, dup2_implStep
  <2>2. CASE LosesTable(i)
    BY <1>9, <2>2 DEF dup2_impl, Done
  <2> QED  BY <2>1, <2>2
<1>10. CASE pop_impl(i)
  BY <1>10, pop_implStep
<1>11. CASE dup_x_impl(i)
  BY <1>11, dup_x_implStep
<1>12. CASE checkcast_resolved_impl(i) \/ instanceof_resolved_impl(i)
  BY <1>12, CastHandlers
<1> QED  BY <1>1, <1>2, <1>3, <1>4, <1>5, <1>6, <1>7, <1>8, <1>9, <1>10, <1>11, <1>12 DEF ExecutePlain

LEMMA CallStep ==
  ASSUME IInv, NEW i \in Current, ExecuteCall(i)
  PROVE  IInv'
<1>1. CASE \/ getstatic_impl(i) \/ putfield_impl(i) \/ new_impl(i) \/ invokestatic_impl(i)
           \/ invokevirtual_impl(i) \/ invokespecial_impl(i) \/ invokeinterface_impl(i)
           \/ invokedynamic_impl(i) \/ getfield_impl(i) \/ checkcast_impl(i) \/ instanceof_impl(i)
           \/ anewarray_impl(i)
  BY <1>1, ResolveHandlers
<1>2. CASE \/ new_resolved_impl(i) \/ ldc_impl(i) \/ newarray_impl(i) \/ multianewarray_impl(i)
           \/ anewarray_resolved_impl(i)
  BY <1>2, AllocatingHandlers
<1>3. CASE monitorenter_impl(i)
  BY <1>3, monitorenterStep
<1>4. CASE \/ invokestatic_resolved_impl(i) \/ invokespecial_resolved_impl(i)
           \/ invokeitable_vtable_monomorphic_impl(i) \/ invokeitable_polymorphic_impl(i)
           \/ invokevtable_polymorphic_impl(i) \/ invokesigpoly_impl(i) \/ invokecallsite_impl(i)
  BY <1>4, InvokeHandlers
<1>5. CASE make_polymorphic(i)
  BY <1>5, make_polymorphicStep
<1> QED  BY <1>1, <1>2, <1>3, <1>4, <1>5 DEF ExecuteCall

LEMMA NextStep ==
  ASSUME IInv, [Next]_vars
  PROVE  lost' \/ IInv'
<1>1. ASSUME NEW i \in Current, ExecutePlain(i) \/ ExecuteCall(i)  PROVE lost' \/ IInv'
  BY <1>1, PlainStep, CallStep
<1>2. CASE Resolve
  BY <1>2, ResolveStep
<1>3. CASE ResolveSuspends
  BY <1>3, ResolveSuspendsStep
<1>4. CASE async_resume_impl
  BY <1>4, async_resumeStep
<1>5. CASE Allocated
  BY <1>5, AllocatedStep
<1>6. CASE Acquired
  BY <1>6, AcquiredStep
<1>7. CASE CalleeReturns
  BY <1>7, CalleeReturnsStep
<1>8. CASE find_exception_handler
  BY <1>8, ExceptionStep
<1>9. CASE NoHandler \/ \E i \in Current : NullHandler(i)
  BY <1>9, NoHandlerStep
<1>10. CASE Collect
  BY <1>10, CollectStep
<1>11. CASE Stopped
  BY <1>11, StutterStep DEF Stopped
<1>12. CASE UNCHANGED vars
  BY <1>12, StutterStep
<1> QED  BY <1>1, <1>2, <1>3, <1>4, <1>5, <1>6, <1>7, <1>8, <1>9, <1>10, <1>11, <1>12 DEF Next

-----------------------------------------------------------------------------
(***************************************************************************)
(* After a dup2 of two floats nothing is claimed: lost stays true.         *)
(***************************************************************************)
StaysLost == lost' \in BOOLEAN /\ (lost => lost')

LEMMA WaysOn ==
  ASSUME lost \in BOOLEAN
  PROVE  /\ \A i, used, pushed, mm : Done(i, used, pushed, mm) => StaysLost
         /\ \A i, mm, where : Enter(i, mm, where) => StaysLost
         /\ \A kind, mm : Again(kind, mm) => StaysLost
<1>1. ASSUME NEW i, NEW used, NEW pushed, NEW mm, Done(i, used, pushed, mm)  PROVE StaysLost
  BY <1>1 DEF Done, StaysLost
<1>2. ASSUME NEW i, NEW mm, NEW where, Enter(i, mm, where)  PROVE StaysLost
  BY <1>2 DEF Enter, StaysLost
<1>3. ASSUME NEW kind, NEW mm, Again(kind, mm)  PROVE StaysLost
  BY <1>3 DEF Again, StaysLost
<1> QED  BY <1>1, <1>2, <1>3

LEMMA PlainStaysLost ==
  ASSUME lost \in BOOLEAN, NEW i \in Current, ExecutePlain(i)
  PROVE  StaysLost
<1>1. /\ \A used, pushed, mm : Done(i, used, pushed, mm) => StaysLost
      /\ \A mm, where : Enter(i, mm, where) => StaysLost
  BY WaysOn
<1>2. /\ Raise(i) => StaysLost
      /\ RaiseVoid(i) => StaysLost
      /\ \A used : Consume(i, used) => StaysLost
      /\ \A v : Binary(i, v) => StaysLost
  BY <1>1 DEF Raise, RaiseVoid, Consume, Binary
<1>3. /\ \A kinds : Load(i, kinds) => StaysLost
      /\ \A kinds : Skip(i, kinds) => StaysLost
      /\ \A kinds : Unary(i, kinds) => StaysLost
      /\ \A kinds : Deref(i, kinds) => StaysLost
  BY <1>1, <1>2 DEF Load, Skip, Unary, Deref
<1>4. CASE \/ const_impl(i) \/ load_impl(i) \/ getstatic_X_impl(i) \/ nop_impl(i) \/ iinc_impl(i)
           \/ goto_impl(i) \/ INTEGER_UN_OP(i) \/ FLOAT_UN_OP(i) \/ sqrt_impl(i) \/ arraylength_impl(i)
           \/ getfield_X_impl(i)
  BY <1>3, <1>4 DEF const_impl, load_impl, getstatic_X_impl, nop_impl, iinc_impl, goto_impl, INTEGER_UN_OP,
       FLOAT_UN_OP, sqrt_impl, arraylength_impl, getfield_X_impl
<1>5. CASE INTEGER_BIN_OP(i) \/ FLOAT_BIN_OP(i) \/ pow_impl(i) \/ div_impl(i) \/ ARRAY_LOAD(i)
  BY <1>2, <1>5 DEF INTEGER_BIN_OP, FLOAT_BIN_OP, pow_impl, div_impl, ARRAY_LOAD
<1>6. CASE \/ ARRAY_STORE(i) \/ aastore_impl(i) \/ putfield_X_impl(i) \/ putstatic_X_impl(i)
           \/ store_impl(i) \/ switch_impl(i) \/ MAKE_INT_BRANCH_AGAINST_0(i) \/ MAKE_INT_BRANCH(i)
           \/ if_acmp_impl(i) \/ monitorexit_impl(i) \/ athrow_impl(i)
  BY <1>2, <1>6 DEF ARRAY_STORE, aastore_impl, putfield_X_impl, putstatic_X_impl, store_impl, switch_impl,
       MAKE_INT_BRANCH_AGAINST_0, MAKE_INT_BRANCH, if_acmp_impl, monitorexit_impl, athrow_impl
<1>7. CASE \/ fuel_check(i) \/ dup_impl(i) \/ dup2_impl(i) \/ pop_impl(i) \/ dup_x_impl(i)
           \/ checkcast_resolved_impl(i) \/ instanceof_resolved_impl(i)
  BY <1>1, <1>2, <1>7 DEF fuel_check, dup_impl, dup2_impl, pop_impl, dup_x_impl, checkcast_resolved_impl,
       instanceof_resolved_impl
<1>8. CASE return_impl(i)
  BY <1>8 DEF return_impl, StaysLost
<1> QED  BY <1>4, <1>5, <1>6, <1>7, <1>8 DEF ExecutePlain

LEMMA CallStaysLost ==
  ASSUME lost \in BOOLEAN, NEW i \in Current, ExecuteCall(i) \/ NullHandler(i)
  PROVE  StaysLost
<1>1. /\ \A used, pushed, mm : Done(i, used, pushed, mm) => StaysLost
      /\ \A mm, where : Enter(i, mm, where) => StaysLost
      /\ \A j, mm, where : Enter(j, mm, where) => StaysLost
  BY WaysOn
<1>2. /\ \A kinds : ResolveForwarded(i, kinds) => StaysLost
      /\ \A kinds : ResolveHolding(i, kinds) => StaysLost
      /\ \A kinds : ResolveSpilled(i, kinds) => StaysLost
      /\ \A kinds : Invoke(i, kinds) => StaysLost
      /\ RaiseVoid(i) => StaysLost
  BY <1>1 DEF ResolveForwarded, ResolveHolding, ResolveSpilled, Invoke, RaiseVoid
<1>3. CASE \/ getstatic_impl(i) \/ putfield_impl(i) \/ new_impl(i) \/ invokestatic_impl(i)
           \/ invokevirtual_impl(i) \/ invokespecial_impl(i) \/ invokeinterface_impl(i)
           \/ invokedynamic_impl(i) \/ getfield_impl(i) \/ checkcast_impl(i) \/ instanceof_impl(i)
  BY <1>2, <1>3 DEF getstatic_impl, putfield_impl, new_impl, invokestatic_impl, invokevirtual_impl,
       invokespecial_impl, invokeinterface_impl, invokedynamic_impl, getfield_impl, checkcast_impl,
       instanceof_impl
<1>4. CASE \/ anewarray_impl(i) \/ new_resolved_impl(i) \/ ldc_impl(i) \/ newarray_impl(i)
           \/ multianewarray_impl(i) \/ anewarray_resolved_impl(i) \/ monitorenter_impl(i)
           \/ make_polymorphic(i) \/ NullHandler(i)
  BY <1>1, <1>2, <1>4 DEF anewarray_impl, new_resolved_impl, ldc_impl, newarray_impl, multianewarray_impl,
       anewarray_resolved_impl, monitorenter_impl, make_polymorphic, NullHandler
<1>5. CASE \/ invokestatic_resolved_impl(i) \/ invokespecial_resolved_impl(i)
           \/ invokeitable_vtable_monomorphic_impl(i) \/ invokeitable_polymorphic_impl(i)
           \/ invokevtable_polymorphic_impl(i) \/ invokesigpoly_impl(i) \/ invokecallsite_impl(i)
  BY <1>2, <1>5 DEF invokestatic_resolved_impl, invokespecial_resolved_impl,
       invokeitable_vtable_monomorphic_impl, invokeitable_polymorphic_impl, invokevtable_polymorphic_impl,
       invokesigpoly_impl, invokecallsite_impl
<1> QED  BY <1>3, <1>4, <1>5 DEF ExecuteCall

LEMMA LostStays ==
  ASSUME lost \in BOOLEAN, [Next]_vars
  PROVE  StaysLost
<1>1. CASE \E i \in Current : ExecutePlain(i) \/ ExecuteCall(i) \/ NullHandler(i)
  BY <1>1, PlainStaysLost, CallStaysLost
<1>2. CASE Resolve \/ ResolveSuspends \/ async_resume_impl \/ Allocated \/ Acquired \/ CalleeReturns \/ NoHandler
  <2>1. CASE Resolve
    BY <2>1, WaysOn DEF Resolve
  <2>2. CASE ResolveSuspends
    BY <2>2, WaysOn DEF ResolveSuspends
  <2>3. CASE async_resume_impl
    BY <2>3, WaysOn DEF async_resume_impl
  <2>4. CASE Allocated
    <3>1. \A used, pushed, mm : Done(insn, used, pushed, mm) => StaysLost
      BY WaysOn
    <3> QED  BY <2>4, <3>1 DEF Allocated
  <2>5. CASE Acquired
    BY <2>5, WaysOn DEF Acquired
  <2>6. CASE CalleeReturns
    BY <2>6, WaysOn DEF CalleeReturns
  <2>7. CASE NoHandler
    BY <2>7, WaysOn DEF NoHandler
  <2> QED  BY <1>2, <2>1, <2>2, <2>3, <2>4, <2>5, <2>6, <2>7
<1>3. CASE find_exception_handler \/ Collect \/ Stopped \/ UNCHANGED vars
  BY <1>3 DEF find_exception_handler, Collect, Stopped, vars, StaysLost
<1> QED  BY <1>1, <1>2, <1>3 DEF Next

LInv == lost \in BOOLEAN /\ (lost \/ IInv)

LEMMA Invariance == Spec => []LInv
<1>1. Init => LInv
  <2>1. Init => lost = FALSE
    BY DEF Init
  <2> QED  BY <2>1, InitIs DEF LInv
<1>2. LInv /\ [Next]_vars => LInv'
  <2> SUFFICES ASSUME LInv, [Next]_vars  PROVE LInv'
    OBVIOUS
  <2>1. lost' \in BOOLEAN /\ (lost => lost')
    BY LostStays DEF LInv, StaysLost
  <2>2. ~lost => lost' \/ IInv'
    BY NextStep DEF LInv
  <2> QED  BY <2>1, <2>2 DEF LInv
<1> QED  BY <1>1, <1>2, PTL DEF Spec


-----------------------------------------------------------------------------
(***************************************************************************)
(* What the invariant says of the stack, the tables and the collector.     *)
(***************************************************************************)
LEMMA LogicalIs ==
  ASSUME NEW s, StackOk(s), NEW mm, Holds(s, mm)
  PROVE  Logical(mm) = s
<1> DEFINE l == Len(s)
           f == [j \in 1..l |-> IF j = l /\ mm.table # "V" THEN mm.tos ELSE mm.mem[j]]
<1>1. s \in Seq(Val) /\ l \in Nat
  BY StackIs
<1>2. mm.sp = l
  BY DEF Holds
<1>3. Logical(mm) = f
  BY <1>2 DEF Logical
<1>4. ASSUME NEW j \in 1..l  PROVE f[j] = s[j]
  <2>1. CASE mm.table = "V"
    BY <2>1 DEF Holds, SlotsHold
  <2>2. CASE mm.table # "V" /\ j = l
    BY <2>2 DEF Holds
  <2>3. CASE mm.table # "V" /\ j # l
    <3>1. j \in 1..(l - 1)
      BY <1>1, <2>3
    <3>2. mm.mem[j] = s[j]
      BY <2>3, <3>1 DEF Holds, SlotsHold
    <3> QED  BY <2>3, <3>2
  <2> QED  BY <2>1, <2>2, <2>3
<1>5. f = [j \in 1..l |-> s[j]]
  BY <1>4
<1>6. s = [j \in 1..l |-> s[j]]
  BY <1>1, LenProperties
<1> QED  BY <1>3, <1>5, <1>6

LEMMA OrdinaryAccepted ==
  ASSUME IInv, NEW i, Allowed(i, types), i.op \notin StackKinds
  PROVE  analyze_instruction(i, types, StackLimit).ok
<1> DEFINE l == Len(types)
           pop == Effect(i).pop
           push == Effect(i).push
           ts == Drop(types, Len(pop)) \o push
<1>1. PICK p \in Nat, q \in 0..1 : Moves(Effect(i), p, q)
  BY EffectIs
<1>2. q \in Nat
  OBVIOUS
<1>3. /\ p \in 0..Len(Values) /\ Len(Values) - p + q <= StackLimit
      /\ \A k \in 1..p : Values[Len(Values) - p + k].t = pop[k]
  BY <1>1, <1>2, OperandsAre
<1>4. Len(Values) = l /\ l \in Nat /\ types \in Seq(TypeKinds) /\ \A k \in 1..l : types[k] = Values[k].t
  BY FrameIs
<1>5. Len(pop) = p /\ push \in Seq(TypeKinds) /\ Len(push) = q
  BY <1>1 DEF Moves
<1> HIDE DEF pop, push
<1>6. ASSUME NEW k \in 1..p  PROVE Top(types, k) = Top(pop, k)
  <2> DEFINE j == p - k + 1
  <2>1. j \in 1..p /\ l - p + j = l - k + 1 /\ l - k + 1 \in 1..l
    BY <1>3, <1>4
  <2> HIDE DEF j
  <2>2. Values[l - p + j].t = pop[j] /\ types[l - k + 1] = Values[l - k + 1].t
    BY <1>3, <1>4, <2>1
  <2>3. Top(pop, k) = pop[j] /\ Top(types, k) = types[l - k + 1]
    BY <1>5 DEF Top, j
  <2> QED  BY <2>1, <2>2, <2>3
<1>7. PopsWhatItWants(i, types)
  BY <1>3, <1>4, <1>5, <1>6 DEF PopsWhatItWants, pop
<1>8. Len(ts) <= StackLimit
  <2>1. Drop(types, p) \in Seq(TypeKinds) /\ Len(Drop(types, p)) = l - p
    BY <1>3, <1>4, DropIs
  <2>2. Len(Drop(types, p) \o push) = (l - p) + q
    <3>1. Len(Drop(types, p) \o push) = Len(Drop(types, p)) + Len(push)
      BY <1>5, <2>1, ConcatProperties, Zenon
    <3> QED  BY <1>5, <2>1, <3>1
  <2> QED  BY <1>3, <1>4, <1>5, <2>2
<1>9. analyze_instruction(i, types, StackLimit) =
        [Analyzed(PopsWhatItWants(i, types), i.op, ts) EXCEPT !.ok = @ /\ Len(Analyzed(PopsWhatItWants(i, types), i.op, ts).types) <= StackLimit]
  BY DEF analyze_instruction, StackKinds, pop, push
<1> HIDE DEF ts
<1> QED  BY <1>7, <1>8, <1>9 DEF Analyzed

LEMMA Accepted ==
  ASSUME IInv, NEW i \in Insns, Legal(i, types, StackLimit)
  PROVE  analyze_instruction(i, types, StackLimit).ok
<1>1. i = Insn(i.op, i.args, i.ret)
  BY CodeAssumption
<1>2. i = [op |-> i.op, kind |-> i.kind, args |-> i.args, ret |-> i.ret]
  BY <1>1 DEF Insn
<1>3. Allowed(i, types)
  BY <1>1, <1>2 DEF Allowed
<1>4. CASE i.op \in DupFamily
  BY <1>3, <1>4, DupStack, MakesIs
<1>5. CASE i.op \in {"pop", "pop2"}
  BY <1>3, <1>5, PopStack, MakesIs
<1>6. CASE i.op = "swap"
  BY <1>3, <1>6, SwapStack, MakesIs
<1>7. CASE i.op \notin StackKinds
  BY <1>3, <1>7, OrdinaryAccepted
<1> QED  BY <1>4, <1>5, <1>6, <1>7 DEF DupFamily

LEMMA StackFollows == ASSUME IInv  PROVE StackAgrees
<1>1. types = KindsOf(Values) /\ words = WordsOfValues(Values) /\ StackOk(Values) /\ Len(types) = Len(Values)
      /\ (types = <<>> <=> Values = <<>>)
  BY FrameIs DEF IInv
<1>2. AnalysisAgrees
  BY <1>1, Accepted DEF AnalysisAgrees, KindsOf
<1>3. ASSUME phase = "run"
      PROVE  /\ m.sp = Len(types)
             /\ m.table # "V" => m.table = calculate_tos_type(types)
             /\ m.table = "V" => types = <<>> \/ insn # NoInsn
             /\ WordsOfValues(Logical(m)) = words
  <2>1. Holds(Values, m) /\ Running(insn, m, types)
    BY <1>3 DEF IInv
  <2>2. m.sp = Len(Values) /\ RegisterOk(Values, m)
    BY <2>1 DEF Holds
  <2>3. Logical(m) = Values
    BY <1>1, <2>1, LogicalIs
  <2>4. m.table = "V" => types = <<>> \/ insn # NoInsn
    BY <2>1 DEF Running
  <2> QED  BY <1>1, <2>2, <2>3, <2>4 DEF RegisterOk
<1> QED  BY <1>2, <1>3 DEF StackAgrees

LEMMA FreshKind ==
  ASSUME NEW i \in Candidates, i.op \notin StackKinds
  PROVE  i.kind = i.op
<1>1. PICK j \in Insns : i = Rewritten(j)
  BY DEF Candidates
<1>2. i.op = j.op /\ i.kind = analyze_instruction(j, types, StackLimit).kind
  BY <1>1, RewrittenIs
<1>3. analyze_instruction(j, types, StackLimit).kind = j.op
  BY <1>2 DEF analyze_instruction, Analyzed, StackKinds
<1> QED  BY <1>2, <1>3

(* With a value cached, the table is that of the values the instruction takes. *)
LEMMA CachedHandled ==
  ASSUME IInv, m.table # "V" => m.table = calculate_tos_type(types), m.table = "V" => types = <<>>,
         m.table \in Tables, NEW i, InHand(i, types), i.kind = i.op
  PROVE  i.op \in bytecode_tables[m.table]
<1>1. Allowed(i, types) /\ i.op \notin StackKinds
  BY DEF InHand
<1>2. PICK p \in Nat, q \in 0..1 : Moves(Effect(i), p, q)
  BY <1>1, EffectIs
<1>3. q \in Nat
  OBVIOUS
<1>4. p > 0 => /\ Values # <<>> /\ calculate_tos_type(types) = calculate_tos_type(Effect(i).pop)
  BY <1>1, <1>2, <1>3, OperandsAre
<1>5. Len(Effect(i).pop) = p /\ Effect(i).pop \in Seq(TypeKinds)
  BY <1>2 DEF Moves
<1>6. types = <<>> <=> Values = <<>>
  BY FrameIs
<1>7. p > 0 => m.table # "V" /\ m.table = calculate_tos_type(Effect(i).pop) /\ m.table \in {"I", "F", "D"}
  BY <1>4, <1>6 DEF Tables
<1>8. i.op \in Nullary => i.op \in bytecode_tables[m.table]
  BY NullaryEverywhere DEF Tables
<1>9. (i.op \in Forwarded /\ p > 0) => i.op \in bytecode_tables[m.table]
  BY <1>7, ForwardedEverywhere
<1>10. CASE i.op \in PlainKinds
  <2>1. Handled(i.op) /\ Effect(i) = PlainEffect(i.op)
    <3>1. \E a \in 0..3, b \in 0..1 : Takes(i.op, a, b)
      BY <1>10, PlainTakes
    <3> QED  BY <1>10, <3>1, PlainHandled, PlainMoves
  <2>2. CASE Effect(i).pop = <<>>
    BY <1>8, <2>1, <2>2 DEF Handled
  <2>3. CASE Effect(i).pop # <<>>
    <3>1. p > 0
      BY <1>2, <1>5, <2>3, EmptySeq
    <3> QED  BY <1>7, <2>1, <2>3, <3>1 DEF Handled
  <2> QED  BY <2>2, <2>3
<1>11. CASE i.op \in FieldKinds
  <2>1. i.op \in {"getstatic", "getfield", "putstatic", "putfield"}
    BY <1>11 DEF FieldKinds
  <2>2. i.op = "getstatic" => i.op \in Nullary
    BY DEF Nullary
  <2>a. /\ i.op = "getfield" => Effect(i) = E(<<"L">>, <<i.ret>>) /\ Moves(Effect(i), 1, 1)
        /\ i.op = "putstatic" => Moves(Effect(i), 1, 0)
        /\ i.op = "putfield" => Moves(Effect(i), 2, 0)
    BY <1>1, FieldEffects
  <2>b. /\ i.op \in {"getfield", "putstatic"} => Len(Effect(i).pop) = 1
        /\ i.op = "putfield" => Len(Effect(i).pop) = 2
    BY <2>a DEF Moves
  <2>c. "putstatic" \in Forwarded /\ "putfield" \in Forwarded
    BY DEF Forwarded
  <2>3. i.op \in {"putstatic", "putfield"} => i.op \in Forwarded /\ p > 0
    BY <1>5, <2>b, <2>c
  <2>4. i.op = "getfield" => p > 0 /\ Effect(i).pop = <<"L">>
    <3>1. E(<<"L">>, <<i.ret>>).pop = <<"L">>
      BY DEF E
    <3> QED  BY <1>5, <2>a, <2>b, <3>1
  <2>5. calculate_tos_type(<<"L">>) = "I" /\ "getfield" \in bytecode_tables["I"]
    BY TableOfSome, TableLetters, Letters, TablesAre DEF jmp_table_int
  <2> QED  BY <1>7, <1>8, <1>9, <2>1, <2>2, <2>3, <2>4, <2>5
<1>12. CASE i.op \in InvokeKinds
  <2>1. i.op # "invokespecial" => i.op \in Nullary
    BY <1>12 DEF InvokeKinds, Nullary
  <2>2. i.op = "invokespecial" => i.op \in Forwarded
    BY DEF Forwarded
  <2>3. i.op = "invokespecial" => p > 0
    <3> SUFFICES ASSUME i.op = "invokespecial"  PROVE p > 0
      OBVIOUS
    <3>1. Len(Receiver(i.op)) = 1
      BY DEF Receiver
    <3>2. Len(i.args) \in Nat
      BY <1>1, AllowedIs, LenProperties
    <3>3. p = Len(Receiver(i.op)) + Len(i.args)
      BY <1>1, <1>5, <1>12, InvokeEffects
    <3> QED  BY <3>1, <3>2, <3>3
  <2> QED  BY <1>8, <1>9, <2>1, <2>2, <2>3
<1> QED  BY <1>1, <1>10, <1>11, <1>12, AllowedIs

LEMMA StackNeeds ==
  ASSUME IInv, NEW i, StackInsn(i)
  PROVE  Values # <<>>
<1>1. Allowed(i, types) /\ i.op \in StackKinds /\ KeepsValuesWhole(i.op, types)
  BY DEF StackInsn, Allowed, Legal
<1>2. types \in Seq(TypeKinds) /\ Len(types) \in Nat /\ Len(types) = Len(Values)
  BY FrameIs
<1>3. PICK b, c \in 0..4 : b <= Len(types) /\ Depth(types, b) = Taken(i.op)
  BY <1>1, <1>2, WholeDepths
<1>4. Taken(i.op) >= 1 /\ Depth(types, 0) = 0
  BY <1>1, TakenBounds, DepthNone
<1>5. Len(Values) # 0
  BY <1>2, <1>3, <1>4
<1> QED  BY <1>5, EmptySeq

LEMMA HandlerFollows == ASSUME IInv  PROVE HandlerExists
<1> SUFFICES ASSUME phase = "run", NEW i \in Current
             PROVE  (i.kind \in bytecode_tables[m.table]) <=> ~Voided(i, m)
  BY DEF HandlerExists, Voided
<1>1. Holds(Values, m) /\ Running(insn, m, types) /\ types = KindsOf(Values)
  BY DEF IInv
<1>2. m.table \in Tables /\ (m.table # "V" => m.table = calculate_tos_type(types))
  BY <1>1, MachineIs DEF Holds, RegisterOk
<1>3. CASE insn # NoInsn
  <2>1. InHand(i, types) /\ (i.kind \in bytecode_tables[m.table] \/ Voided(i, m))
    BY <1>1, <1>3 DEF Running, Current
  <2>2. Voided(i, m) => i.kind \notin bytecode_tables[m.table]
    <3> SUFFICES ASSUME i.op = "putstatic", m.table = "V"  PROVE i.kind \notin jmp_table_void
      BY TablesAre DEF Voided
    <3>1. i.kind = "putstatic" \/ i.kind \in StaticPuts
      BY <2>1, BecomesIs
    <3> QED  BY <3>1, Groups DEF StaticPuts, jmp_table_void, Nullary
  <2> QED  BY <2>1, <2>2
<1>4. CASE insn = NoInsn
  <2>0. i.kind \in bytecode_tables[m.table] => ~Voided(i, m)
    <3> SUFFICES ASSUME i.op = "putstatic", m.table = "V"  PROVE FALSE
      BY DEF Voided
    <3>1. i \in Candidates /\ types = <<>>
      BY <1>1, <1>4 DEF Running, Current
    <3>2. i.op \notin StackKinds
      BY DEF StackKinds
    <3>3. InHand(i, types) /\ Allowed(i, types)
      BY <1>4, <3>1, <3>2, CandidateIs DEF StackInsn, InHand
    <3>4. Moves(Effect(i), 1, 0)
      BY <3>3, FieldEffects
    <3>5. Values # <<>>
      BY <3>2, <3>3, <3>4, OperandsAre
    <3> QED  BY <3>1, <3>5, FrameIs
  <2> SUFFICES i.kind \in bytecode_tables[m.table]
    BY <2>0
  <2>1. i \in Candidates /\ (m.table = "V" => types = <<>>)
    BY <1>1, <1>4 DEF Running, Current
  <2>2. CASE InHand(i, types)
    <3>1. i.kind = i.op
      BY <2>1, <2>2, FreshKind DEF InHand
    <3> QED  BY <1>2, <2>1, <2>2, <3>1, CachedHandled
  <2>3. CASE StackInsn(i)
    <3>1. i.kind \in StackKinds /\ Values # <<>>
      BY <2>3, StackKindIs, StackNeeds
    <3>2. m.table \in {"I", "F", "D"}
      BY <1>2, <2>1, <3>1, FrameIs DEF Tables
    <3>3. i.kind \in Nullary \union Forwarded
      BY <3>1 DEF Nullary, Forwarded
    <3> QED  BY <1>2, <3>2, <3>3, NullaryEverywhere, ForwardedEverywhere DEF Tables
  <2> QED  BY <1>4, <2>1, <2>2, <2>3, CandidateIs
<1> QED  BY <1>3, <1>4

LEMMA RootsFollow == ASSUME IInv  PROVE RootsCurrent
<1> SUFFICES ASSUME phase \in Safepoints, ~(phase = "throw_void" /\ Last(types) = "L"),
                    NEW j \in 1..Scanned, types[j] = "L"
             PROVE  m.mem[j] = Values[j]
  BY DEF RootsCurrent, SlotsCurrent
<1> DEFINE l == Len(Values)
           u == UpToDate(Values, phase, insn)
<1>1. Scanned \in Int /\ u \in Int /\ u <= Scanned /\ Scanned <= l
  BY ScannedIs
<1>2. \A k \in 1..u : m.mem[k] = Values[k]
  BY SafepointIs DEF Away, SlotsHold
<1>3. l \in Nat /\ Len(types) = l /\ \A k \in 1..l : types[k] = Values[k].t
  BY FrameIs
<1>4. CASE phase = "call"
  <2>1. u = Scanned
    BY <1>3, <1>4 DEF Scanned, Arguments, UpToDate
  <2> QED  BY <1>2, <2>1
<1>5. CASE phase # "call" /\ ~Unspilled(phase, insn)
  <2>1. u = Scanned
    BY <1>3, <1>5 DEF Scanned, UpToDate
  <2> QED  BY <1>2, <2>1
<1>6. CASE phase # "call" /\ Unspilled(phase, insn)
  <2>1. u = l - 1 /\ Scanned = l
    BY <1>3, <1>6 DEF Scanned, UpToDate
  <2>2. j # l
    <3> SUFFICES ASSUME j = l  PROVE FALSE
      OBVIOUS
    <3>1. Last(types) = "L"
      BY <1>3 DEF Last
    <3>2. phase # "throw_void"
      BY <3>1
    <3>3. phase \in {"resolve", "alloc"} /\ insn.kind \in {"anewarray", "anewarray_resolved"}
      BY <1>6, <3>2 DEF Unspilled
    <3>4. InHand(insn, types) /\ KindFits(phase, insn)
      BY <3>3, AwayIs DEF Elsewhere
    <3>5. Effect(insn) = E(<<"I">>, <<"L">>)
      BY <3>3, <3>4, CastEffects
    <3>6. Moves(Effect(insn), 1, 1) /\ Effect(insn).pop = <<"I">>
      BY <3>5, Moves11, Letters DEF E
    <3>7. Allowed(insn, types) /\ insn.op \notin StackKinds /\ 1 \in Nat /\ 1 > 0
      BY <3>4 DEF InHand
    <3>8. Last(types) = Last(Effect(insn).pop)
      BY <3>6, <3>7, OperandsAre
    <3>9. Last(<<"I">>) = "I"
      BY DEF Last
    <3> QED  BY <3>1, <3>6, <3>8, <3>9
  <2>3. j \in 1..u
    BY <1>3, <2>1, <2>2
  <2> QED  BY <1>2, <2>3
<1> QED  BY <1>4, <1>5, <1>6


-----------------------------------------------------------------------------
(***************************************************************************)
(* The receiver in hand.  Only invokevirtual and invokeinterface lead to a *)
(* resolution that holds one, and only a collection comes in between.      *)
(***************************************************************************)
Virtuals == {"invokevirtual", "invokeinterface"}

LEMMA HoldingHolds ==
  ASSUME IInv, NEW i \in Current, NEW kinds, kinds \subseteq Virtuals, ResolveHolding(i, kinds)
  PROVE  ReceiverHeld'
<1> DEFINE q == FORWARD_TO_NULLARY(m)
           p == Len(Effect(i).pop)
           k == Len(Values) - p + 1
<1>1. Dispatch(i, kinds) /\ Enter(i, [q EXCEPT !.tos = HeldReceiver(i, q)], "resolve")
  BY DEF ResolveHolding
<1>2. Virtuals \intersect StackKinds = {}
  BY DEF Virtuals, StackKinds
<1>3. i.kind \in Virtuals /\ InHand(i, types) /\ Holds(Values, m)
  BY <1>1, <1>2, DispatchIs
<1>4. p \in Nat /\ k \in 1..Len(Values)
  BY <1>3, ReceiverSlot DEF Virtuals
<1>5. StackOk(Values) /\ Flushed(Values, q)
  BY <1>3, FrameIs, ForwardIs
<1>6. q \in Machine /\ q.sp = Len(Values) /\ q.mem[k] = Values[k]
  BY <1>4, <1>5 DEF Flushed, SlotsHold
<1>7. HeldReceiver(i, q) = Values[k]
  BY <1>6 DEF HeldReceiver, At
<1> HIDE DEF q
<1>8. [q EXCEPT !.tos = HeldReceiver(i, q)].tos = Values[k]
  BY <1>6, <1>7 DEF Machine
<1>9. m'.tos = Values[k] /\ insn' = i /\ words' = words
  BY <1>1, <1>8 DEF Enter
<1>10. Values' = Values
  BY <1>9 DEF Values
<1>11. Top(Values, Arguments)' = Values[k]
  BY <1>9, <1>10 DEF Top, Arguments
<1> QED  BY <1>9, <1>11 DEF ReceiverHeld, SameObject

(* A collection moves the receiver on the stack, which stays the same object. *)
LEMMA HeldOverCollection ==
  ASSUME IInv, ReceiverHeld, Collect
  PROVE  ReceiverHeld'
<1> SUFFICES ASSUME phase' = "resolve", insn'.kind \in Virtuals
             PROVE  SameObject(m'.tos, Top(Values, Arguments)')
  BY DEF ReceiverHeld, Virtuals
<1> DEFINE k == Len(Values) - Arguments + 1
<1>1. /\ phase = "resolve" /\ insn' = insn /\ insn.kind \in Virtuals /\ m' = Relocated(m, Scanned)
      /\ words' = WordsOfValues(AllMoved(Values))
  BY DEF Collect, AllMoved
<1>2. gc \in Nat /\ StackOk(Values)
  BY DEF IInv
<1>3. /\ AllMoved(Values) \in Seq(Val) /\ Len(AllMoved(Values)) = Len(Values)
      /\ \A j \in 1..Len(Values) : AllMoved(Values)[j] = Moved(Values[j])
  BY <1>2, AllMovedIs DEF StackOk
<1>4. Values' = AllMoved(Values)
  BY <1>1, <1>3, ValuesBack DEF Values
<1>5. InHand(insn, types) /\ m \in Machine
  BY <1>1, AwayIs DEF Elsewhere
<1>6. k \in 1..Len(Values) /\ Values[k] \in Val
  BY <1>1, <1>2, <1>5, ReceiverSlot, FrameIs DEF Arguments, Virtuals, ValueOk
<1>7. Arguments' = Arguments
  BY <1>1 DEF Arguments
<1>8. Top(Values, Arguments)' = Moved(Values[k]) /\ Top(Values, Arguments) = Values[k]
  BY <1>3, <1>4, <1>6, <1>7 DEF Top
<1>9. Moved(Values[k]).t = Values[k].t /\ Moved(Values[k]).id = Values[k].id
  BY <1>2, <1>6, MovedIs
<1>10. m'.tos = m.tos
  BY <1>1, <1>2, <1>5, RelocatedIs
<1>11. SameObject(m.tos, Values[k])
  BY <1>1, <1>8 DEF ReceiverHeld, Virtuals
<1> QED  BY <1>8, <1>9, <1>10, <1>11 DEF SameObject

(* Every other step ends elsewhere, or resolves what has no receiver in hand. *)
Unheld == ~(phase' = "resolve" /\ insn'.kind \in Virtuals)

LEMMA WaysElsewhere ==
  /\ \A i, used, pushed, mm : Done(i, used, pushed, mm) => Unheld
  /\ \A i, mm, where : Enter(i, mm, where) /\ where # "resolve" => Unheld
  /\ \A i, mm, where : Enter(i, mm, where) /\ i.kind \notin Virtuals => Unheld
  /\ \A kind, mm : Again(kind, mm) => Unheld
<1>1. ASSUME NEW i, NEW used, NEW pushed, NEW mm, Done(i, used, pushed, mm)  PROVE Unheld
  BY <1>1 DEF Done, Unheld
<1>2. ASSUME NEW i, NEW mm, NEW where, Enter(i, mm, where), where # "resolve" \/ i.kind \notin Virtuals
      PROVE  Unheld
  BY <1>2 DEF Enter, Unheld
<1>3. ASSUME NEW kind, NEW mm, Again(kind, mm)  PROVE Unheld
  BY <1>3 DEF Again, Unheld
<1> QED  BY <1>1, <1>2, <1>3

LEMMA PlainUnheld ==
  ASSUME NEW i \in Current, ExecutePlain(i)
  PROVE  Unheld
<1>1. /\ \A used, pushed, mm : Done(i, used, pushed, mm) => Unheld
      /\ \A mm, where : Enter(i, mm, where) /\ where # "resolve" => Unheld
  BY WaysElsewhere
<1>2. /\ Raise(i) => Unheld
      /\ RaiseVoid(i) => Unheld
      /\ \A used : Consume(i, used) => Unheld
      /\ \A v : Binary(i, v) => Unheld
  BY <1>1 DEF Raise, RaiseVoid, Consume, Binary
<1>3. /\ \A kinds : Load(i, kinds) => Unheld
      /\ \A kinds : Skip(i, kinds) => Unheld
      /\ \A kinds : Unary(i, kinds) => Unheld
      /\ \A kinds : Deref(i, kinds) => Unheld
  BY <1>1, <1>2 DEF Load, Skip, Unary, Deref
<1>4. CASE \/ const_impl(i) \/ load_impl(i) \/ getstatic_X_impl(i) \/ nop_impl(i) \/ iinc_impl(i)
           \/ goto_impl(i) \/ INTEGER_UN_OP(i) \/ FLOAT_UN_OP(i) \/ sqrt_impl(i) \/ arraylength_impl(i)
           \/ getfield_X_impl(i)
  BY <1>3, <1>4 DEF const_impl, load_impl, getstatic_X_impl, nop_impl, iinc_impl, goto_impl, INTEGER_UN_OP,
       FLOAT_UN_OP, sqrt_impl, arraylength_impl, getfield_X_impl
<1>5. CASE INTEGER_BIN_OP(i) \/ FLOAT_BIN_OP(i) \/ pow_impl(i) \/ div_impl(i) \/ ARRAY_LOAD(i)
  BY <1>2, <1>5 DEF INTEGER_BIN_OP, FLOAT_BIN_OP, pow_impl, div_impl, ARRAY_LOAD
<1>6. CASE \/ ARRAY_STORE(i) \/ aastore_impl(i) \/ putfield_X_impl(i) \/ putstatic_X_impl(i)
           \/ store_impl(i) \/ switch_impl(i) \/ MAKE_INT_BRANCH_AGAINST_0(i) \/ MAKE_INT_BRANCH(i)
           \/ if_acmp_impl(i) \/ monitorexit_impl(i) \/ athrow_impl(i)
  BY <1>2, <1>6 DEF ARRAY_STORE, aastore_impl, putfield_X_impl, putstatic_X_impl, store_impl, switch_impl,
       MAKE_INT_BRANCH_AGAINST_0, MAKE_INT_BRANCH, if_acmp_impl, monitorexit_impl, athrow_impl
<1>7. CASE \/ fuel_check(i) \/ dup_impl(i) \/ dup2_impl(i) \/ pop_impl(i) \/ dup_x_impl(i)
           \/ checkcast_resolved_impl(i) \/ instanceof_resolved_impl(i)
  BY <1>1, <1>2, <1>7 DEF fuel_check, dup_impl, dup2_impl, pop_impl, dup_x_impl, checkcast_resolved_impl,
       instanceof_resolved_impl
<1>8. CASE return_impl(i)
  BY <1>8 DEF return_impl, Unheld
<1> QED  BY <1>4, <1>5, <1>6, <1>7, <1>8 DEF ExecutePlain

(* A handler of these kinds has no receiver in hand. *)
LEMMA DispatchedUnheld ==
  ASSUME NEW i, NEW kinds, kinds \intersect Virtuals = {}, Dispatch(i, kinds), NEW mm, Enter(i, mm, "resolve")
  PROVE  Unheld
<1>1. i.kind \notin Virtuals
  BY DEF Dispatch
<1> QED  BY <1>1, WaysElsewhere

LEMMA CallHolds ==
  ASSUME IInv, NEW i \in Current, ExecuteCall(i) \/ NullHandler(i)
  PROVE  ReceiverHeld'
<1>0. Unheld => ReceiverHeld'
  BY DEF Unheld, ReceiverHeld, Virtuals
<1>1. /\ \A used, pushed, mm : Done(i, used, pushed, mm) => Unheld
      /\ \A mm, where : Enter(i, mm, where) /\ where # "resolve" => Unheld
      /\ \A j, mm, where : Enter(j, mm, where) /\ where # "resolve" => Unheld
  BY WaysElsewhere
<1>2. /\ \A kinds : kinds \intersect Virtuals = {} /\ ResolveForwarded(i, kinds) => Unheld
      /\ \A kinds : kinds \intersect Virtuals = {} /\ ResolveSpilled(i, kinds) => Unheld
      /\ \A kinds : Invoke(i, kinds) => Unheld
      /\ RaiseVoid(i) => Unheld
  BY <1>1, DispatchedUnheld DEF ResolveForwarded, ResolveSpilled, Invoke, RaiseVoid
<1>3. CASE \/ getstatic_impl(i) \/ putfield_impl(i) \/ new_impl(i) \/ invokestatic_impl(i)
           \/ invokespecial_impl(i) \/ invokedynamic_impl(i)
  <2>1. /\ {"getstatic", "putstatic"} \intersect Virtuals = {} /\ {"putfield"} \intersect Virtuals = {}
        /\ {"new"} \intersect Virtuals = {} /\ {"invokestatic"} \intersect Virtuals = {}
        /\ {"invokespecial"} \intersect Virtuals = {} /\ {"invokedynamic"} \intersect Virtuals = {}
    BY DEF Virtuals
  <2>2. Unheld
    BY <1>2, <1>3, <2>1 DEF getstatic_impl, putfield_impl, new_impl, invokestatic_impl, invokespecial_impl,
         invokedynamic_impl
  <2> QED  BY <1>0, <2>2
<1>4. CASE getfield_impl(i) \/ checkcast_impl(i) \/ instanceof_impl(i) \/ anewarray_impl(i)
  <2>1. /\ {"getfield"} \intersect Virtuals = {} /\ {"checkcast"} \intersect Virtuals = {}
        /\ {"instanceof"} \intersect Virtuals = {} /\ {"anewarray"} \intersect Virtuals = {}
    BY DEF Virtuals
  <2>2. anewarray_impl(i) => Unheld
    BY <2>1, DispatchedUnheld DEF anewarray_impl
  <2>3. getfield_impl(i) \/ checkcast_impl(i) \/ instanceof_impl(i) => Unheld
    BY <1>2, <2>1 DEF getfield_impl, checkcast_impl, instanceof_impl
  <2> QED  BY <1>0, <1>4, <2>2, <2>3
<1>5. CASE invokevirtual_impl(i) \/ invokeinterface_impl(i)
  <2>1. {"invokevirtual"} \subseteq Virtuals /\ {"invokeinterface"} \subseteq Virtuals
    BY DEF Virtuals
  <2> QED  BY <1>5, <2>1, HoldingHolds DEF invokevirtual_impl, invokeinterface_impl
<1>6. CASE \/ new_resolved_impl(i) \/ ldc_impl(i) \/ newarray_impl(i)
           \/ multianewarray_impl(i) \/ anewarray_resolved_impl(i) \/ monitorenter_impl(i)
           \/ make_polymorphic(i) \/ NullHandler(i)
  <2>1. Unheld
    BY <1>1, <1>2, <1>6 DEF new_resolved_impl, ldc_impl, newarray_impl,
         multianewarray_impl, anewarray_resolved_impl, monitorenter_impl, make_polymorphic, NullHandler
  <2> QED  BY <1>0, <2>1
<1>7. CASE \/ invokestatic_resolved_impl(i) \/ invokespecial_resolved_impl(i)
           \/ invokeitable_vtable_monomorphic_impl(i) \/ invokeitable_polymorphic_impl(i)
           \/ invokevtable_polymorphic_impl(i) \/ invokesigpoly_impl(i) \/ invokecallsite_impl(i)
  <2>1. Unheld
    BY <1>2, <1>7 DEF invokestatic_resolved_impl, invokespecial_resolved_impl,
         invokeitable_vtable_monomorphic_impl, invokeitable_polymorphic_impl, invokevtable_polymorphic_impl,
         invokesigpoly_impl, invokecallsite_impl
  <2> QED  BY <1>0, <2>1
<1> QED  BY <1>3, <1>4, <1>5, <1>6, <1>7 DEF ExecuteCall

LEMMA NextHolds ==
  ASSUME IInv, ReceiverHeld, [Next]_vars
  PROVE  ReceiverHeld'
<1>0. Unheld => ReceiverHeld'
  BY DEF Unheld, ReceiverHeld, Virtuals
<1>1. ASSUME NEW i \in Current, ExecutePlain(i)  PROVE ReceiverHeld'
  BY <1>0, <1>1, PlainUnheld
<1>2. ASSUME NEW i \in Current, ExecuteCall(i) \/ NullHandler(i)  PROVE ReceiverHeld'
  BY <1>2, CallHolds
<1>3. CASE Resolve \/ ResolveSuspends \/ async_resume_impl \/ Allocated \/ Acquired \/ CalleeReturns \/ NoHandler
  <2> SUFFICES Unheld
    BY <1>0
  <2>1. CASE Resolve
    BY <2>1, WaysElsewhere DEF Resolve
  <2>2. CASE ResolveSuspends
    BY <2>2, WaysElsewhere DEF ResolveSuspends
  <2>3. CASE async_resume_impl
    BY <2>3, WaysElsewhere DEF async_resume_impl
  <2>4. CASE Allocated
    <3>1. \A used, pushed, mm : Done(insn, used, pushed, mm) => Unheld
      BY WaysElsewhere
    <3> QED  BY <2>4, <3>1 DEF Allocated
  <2>5. CASE Acquired
    BY <2>5, WaysElsewhere DEF Acquired
  <2>6. CASE CalleeReturns
    BY <2>6, WaysElsewhere DEF CalleeReturns
  <2>7. CASE NoHandler
    BY <2>7, WaysElsewhere DEF NoHandler
  <2> QED  BY <1>3, <2>1, <2>2, <2>3, <2>4, <2>5, <2>6, <2>7
<1>4. CASE find_exception_handler
  BY <1>0, <1>4 DEF find_exception_handler, Unheld
<1>5. CASE Collect
  BY <1>5, HeldOverCollection
<1>6. CASE Stopped \/ UNCHANGED vars
  <2>1. phase' = phase /\ insn' = insn /\ m' = m /\ words' = words
    BY <1>6 DEF Stopped, vars
  <2>2. Values' = Values
    BY <2>1 DEF Values
  <2> QED  BY <2>1, <2>2 DEF ReceiverHeld, Arguments
<1> QED  BY <1>1, <1>2, <1>3, <1>4, <1>5, <1>6 DEF Next

HInv == LInv /\ (lost \/ ReceiverHeld)

LEMMA HoldsOn == Spec => []HInv
<1>1. Init => LInv /\ ReceiverHeld
  <2>1. Init => phase = "run" /\ lost = FALSE
    BY DEF Init
  <2> QED  BY <2>1, InitIs DEF LInv, ReceiverHeld
<1>2. HInv /\ [Next]_vars => HInv'
  <2> SUFFICES ASSUME HInv, [Next]_vars  PROVE HInv'
    OBVIOUS
  <2>1. lost' \in BOOLEAN /\ (lost => lost')
    BY LostStays DEF HInv, LInv, StaysLost
  <2>2. ~lost => lost' \/ (IInv' /\ ReceiverHeld')
    BY NextStep, NextHolds DEF HInv, LInv
  <2> QED  BY <2>1, <2>2 DEF HInv, LInv
<1> QED  BY <1>1, <1>2, PTL DEF Spec, HInv


-----------------------------------------------------------------------------
(***************************************************************************)
(* For every verified code, any number of instructions and any collection, *)
(* suspension or exception between two of them, memory and register make   *)
(* up the operand stack of the JVM specification and the analysis has its  *)
(* kinds (src/vm/interpreter2.c, the handlers; src/vm/analysis.c:288),     *)
(* until a dup2 finds two floats on the stack.                             *)
(***************************************************************************)
THEOREM StackKept == Spec => []StackAgrees
<1>1. Spec => []LInv
  BY Invariance
<1>2. LInv => StackAgrees
  BY StackFollows DEF LInv, StackAgrees
<1> QED  BY <1>1, <1>2, PTL

(***************************************************************************)
(* The interpreter fetches a handler its table does not have               *)
(* (src/vm/interpreter2.c:3145) exactly for a putstatic that was suspended *)
(* and goes on through JMP_VOID (2872), for every instruction the code may *)
(* contain and every kind it is resolved to, until a dup2 finds two floats *)
(* on the stack: otherwise the kind of the cached value is that of the     *)
(* last operand.                                                           *)
(***************************************************************************)
THEOREM HandlersFound == Spec => []HandlerExists
<1>1. Spec => []LInv
  BY Invariance
<1>2. LInv => HandlerExists
  BY HandlerFollows DEF LInv, HandlerExists
<1> QED  BY <1>1, <1>2, PTL

(***************************************************************************)
(* Wherever the rest of the VM runs, the slots the collector takes for     *)
(* references are current (SPILL and RELOAD, src/vm/interpreter2.c:332),   *)
(* until a dup2 finds two floats on the stack.                             *)
(***************************************************************************)
THEOREM RootsKept == Spec => []RootsCurrent
<1>1. Spec => []LInv
  BY Invariance
<1>2. LInv => RootsCurrent
  BY RootsFollow DEF LInv, RootsCurrent
<1> QED  BY <1>1, <1>2, PTL

(***************************************************************************)
(* Every operand a handler reads, in the register or in a slot below it,   *)
(* is the one the JVM specification names (src/vm/interpreter2.c:1151),    *)
(* for all code, collections, suspensions and exceptions, until a dup2     *)
(* finds two floats on the stack; and the receiver kept over a resolution  *)
(* is the object the method is called on, as it was before it (1820, 1963).*)
(***************************************************************************)
THEOREM OperandsKept == Spec => []OperandsRight
<1>1. Spec => []HInv
  BY HoldsOn
<1>2. HInv => OperandsRight
  BY DEF HInv, LInv, IInv, OperandsRight
<1> QED  BY <1>1, <1>2, PTL

=============================================================================
