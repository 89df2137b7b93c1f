-------------------------- MODULE RoundRobinProofs --------------------------
(***************************************************************************)
(* Facts about the run-queue operators of RoundRobin: what the rotation of *)
(* get_next_thr, the removal in unshift and the append of rr_scheduler_run *)
(* keep, and that the searches find what they look for.                    *)
(***************************************************************************)
EXTENDS RoundRobin, SequenceTheorems, WellFoundedInduction, TLAPS

(* A non-empty set of naturals has a least element. *)
LEMMA LeastNatural ==
  ASSUME NEW S \in SUBSET Nat, S # {}
  PROVE  \E m \in S : \A n \in S : m <= n
<1> DEFINE R == {ss \in Nat \X Nat : ss[1] < ss[2]}
<1>1. IsWellFoundedOn(R, Nat)
  BY NatLessThanWellFounded DEF OpToRel
<1>2. PICK m \in S : \A n \in S : ~(<<n, m>> \in R)
  BY <1>1, WFMin
<1>3. ASSUME NEW n \in S  PROVE m <= n
  <2>1. <<n, m>> \in Nat \X Nat /\ <<n, m>>[1] = n /\ <<n, m>>[2] = m
    OBVIOUS
  <2>2. n < m => <<n, m>> \in R
    BY <2>1
  <2> QED  BY <1>2, <2>2
<1> QED  BY <1>3

(* Two sequences with the same elements have the same range. *)
LEMMA SameRange ==
  ASSUME NEW r, NEW s,
         \A i \in DOMAIN r : \E j \in DOMAIN s : s[j] = r[i],
         \A j \in DOMAIN s : \E i \in DOMAIN r : r[i] = s[j]
  PROVE  Range(r) = Range(s)
<1>1. ASSUME NEW x \in Range(r)  PROVE x \in Range(s)
  BY <1>1 DEF Range
<1>2. ASSUME NEW x \in Range(s)  PROVE x \in Range(r)
  BY <1>2 DEF Range
<1> QED  BY <1>1, <1>2

(* FirstIndex finds the first position of an element of S, if there is one. *)
LEMMA FirstIndexFound ==
  ASSUME NEW T, NEW s \in Seq(T), NEW S, \E i \in DOMAIN s : s[i] \in S
  PROVE  /\ FirstIndex(s, S) \in 1 .. Len(s)
         /\ s[FirstIndex(s, S)] \in S
<1> DEFINE I == {i \in DOMAIN s : s[i] \in S}
<1>1. DOMAIN s = 1 .. Len(s) /\ Len(s) \in Nat
  BY LenProperties
<1>2. I \in SUBSET Nat /\ I # {}
  BY <1>1
<1>3. \E m \in I : \A n \in I : m <= n
  BY <1>2, LeastNatural
<1>4. \E i \in DOMAIN s : s[i] \in S /\ \A j \in DOMAIN s : s[j] \in S => i <= j
  BY <1>3
<1> QED  BY <1>1, <1>4 DEF FirstIndex

(* get_next_thr turns the queue round: nothing is lost, nothing is doubled. *)
LEMMA RotateKeeps ==
  ASSUME NEW T, NEW s \in Seq(T), NEW k \in 1 .. Len(s)
  PROVE  /\ Rotate(s, k) \in Seq(T)
         /\ Range(Rotate(s, k)) = Range(s)
         /\ IsInjective(s) => IsInjective(Rotate(s, k))
<1> DEFINE n == Len(s)
           r == Rotate(s, k)
<1>1. n \in Nat /\ DOMAIN s = 1 .. n /\ k \in 1 .. n /\ \A i \in 1 .. n : s[i] \in T
  BY LenProperties, ElementOfSeq
<1>2. /\ DOMAIN r = 1 .. n
      /\ \A i \in 1 .. n : r[i] = IF i + k <= n THEN s[i + k] ELSE s[i + k - n]
  BY DEF Rotate
<1> HIDE DEF n, r
<1>3. \A i \in 1 .. n : r[i] \in T
  BY <1>1, <1>2
<1>4. r \in [1 .. n -> T]
  <2>1. r = [i \in 1 .. n |-> r[i]]
    BY <1>2 DEF r, Rotate, n
  <2> QED  BY <1>3, <2>1
<1>5. r \in Seq(T)
  BY <1>1, <1>4, SeqDef
<1>6. \A i \in 1 .. n : \E j \in 1 .. n : r[j] = s[i]
  <2> TAKE i \in 1 .. n
  <2> DEFINE j == IF i > k THEN i - k ELSE i - k + n
  <2>1. j \in 1 .. n /\ r[j] = s[i]
    BY <1>1, <1>2
  <2> QED  BY <2>1
<1>7. \A i \in 1 .. n : \E j \in 1 .. n : s[j] = r[i]
  <2> TAKE i \in 1 .. n
  <2> DEFINE j == IF i + k <= n THEN i + k ELSE i + k - n
  <2>1. j \in 1 .. n /\ s[j] = r[i]
    BY <1>1, <1>2
  <2> QED  BY <2>1
<1>8. Range(r) = Range(s)
  <2>1. DOMAIN r = 1 .. n /\ DOMAIN s = 1 .. n
    BY <1>1, <1>2
  <2> QED  BY <1>6, <1>7, <2>1, SameRange
<1>9. ASSUME IsInjective(s) PROVE IsInjective(r)
  <2> SUFFICES ASSUME NEW a \in 1 .. n, NEW b \in 1 .. n, r[a] = r[b]  PROVE a = b
    BY <1>2 DEF IsInjective
  <2> DEFINE f(i) == IF i + k <= n THEN i + k ELSE i + k - n
  <2>1. f(a) \in 1 .. n /\ f(b) \in 1 .. n /\ s[f(a)] = s[f(b)]
    BY <1>1, <1>2
  <2>2. f(a) = f(b)
    BY <2>1, <1>1, <1>9 DEF IsInjective
  <2> QED  BY <2>2, <1>1
<1> QED  BY <1>5, <1>8, <1>9 DEF r

(* So does moving the earliest sleeper to the tail. *)
LEMMA MoveToTailKeeps ==
  ASSUME NEW T, NEW s \in Seq(T), NEW k \in 1 .. Len(s)
  PROVE  /\ MoveToTail(s, k) \in Seq(T)
         /\ Range(MoveToTail(s, k)) = Range(s)
         /\ IsInjective(s) => IsInjective(MoveToTail(s, k))
<1> DEFINE n == Len(s)
           r == MoveToTail(s, k)
<1>1. n \in Nat /\ DOMAIN s = 1 .. n /\ k \in 1 .. n /\ \A i \in 1 .. n : s[i] \in T
  BY LenProperties, ElementOfSeq
<1>2. /\ DOMAIN r = 1 .. n
      /\ \A i \in 1 .. n : r[i] = IF i < k THEN s[i] ELSE IF i < n THEN s[i + 1] ELSE s[k]
  BY DEF MoveToTail
<1> HIDE DEF n, r
<1>3. \A i \in 1 .. n : r[i] \in T
  BY <1>1, <1>2
<1>4. r \in [1 .. n -> T]
  <2>1. r = [i \in 1 .. n |-> r[i]]
    BY <1>2 DEF r, MoveToTail, n
  <2> QED  BY <1>3, <2>1
<1>5. r \in Seq(T)
  BY <1>1, <1>4, SeqDef
<1>6. \A i \in 1 .. n : \E j \in 1 .. n : r[j] = s[i]
  <2> TAKE i \in 1 .. n
  <2> DEFINE j == IF i < k THEN i ELSE IF i = k THEN n ELSE i - 1
  <2>1. j \in 1 .. n /\ r[j] = s[i]
    BY <1>1, <1>2
  <2> QED  BY <2>1
<1>7. \A i \in 1 .. n : \E j \in 1 .. n : s[j] = r[i]
  <2> TAKE i \in 1 .. n
  <2> DEFINE j == IF i < k THEN i ELSE IF i < n THEN i + 1 ELSE k
  <2>1. j \in 1 .. n /\ s[j] = r[i]
    BY <1>1, <1>2
  <2> QED  BY <2>1
<1>8. Range(r) = Range(s)
  <2>1. DOMAIN r = 1 .. n /\ DOMAIN s = 1 .. n
    BY <1>1, <1>2
  <2> QED  BY <1>6, <1>7, <2>1, SameRange
<1>9. ASSUME IsInjective(s) PROVE IsInjective(r)
  <2> SUFFICES ASSUME NEW a \in 1 .. n, NEW b \in 1 .. n, r[a] = r[b]  PROVE a = b
    BY <1>2 DEF IsInjective
  <2> DEFINE f(i) == IF i < k THEN i ELSE IF i < n THEN i + 1 ELSE k
  <2>1. f(a) \in 1 .. n /\ f(b) \in 1 .. n /\ s[f(a)] = s[f(b)]
    BY <1>1, <1>2
  <2>2. f(a) = f(b)
    BY <2>1, <1>1, <1>9 DEF IsInjective
  <2> QED  BY <2>2, <1>1
<1> QED  BY <1>5, <1>8, <1>9 DEF r

(* unshift takes out one entry and keeps the order of the others. *)
LEMMA RemoveAtKeeps ==
  ASSUME NEW T, NEW s \in Seq(T), NEW k \in 1 .. Len(s), IsInjective(s)
  PROVE  /\ RemoveAt(s, k) \in Seq(T)
         /\ Range(RemoveAt(s, k)) = Range(s) \ {s[k]}
         /\ IsInjective(RemoveAt(s, k))
<1> DEFINE n == Len(s)
           r == RemoveAt(s, k)
           p == SubSeq(s, 1, k - 1)
           q == SubSeq(s, k + 1, n)
<1>1. n \in Nat /\ DOMAIN s = 1 .. n /\ k \in 1 .. n /\ \A i \in 1 .. n : s[i] \in T
  BY LenProperties, ElementOfSeq
<1>2. /\ p \in Seq(T) /\ Len(p) = k - 1
      /\ \A i \in 1 .. k - 1 : p[i] = s[i]
  <2>1. \A i \in 1 .. k - 1 : s[i] \in T
    BY <1>1
  <2> QED  BY <1>1, <2>1, SubSeqProperties
<1>3. /\ q \in Seq(T) /\ Len(q) = n - k
      /\ \A i \in 1 .. n - k : q[i] = s[k + i]
  <2>1. \A i \in k + 1 .. n : s[i] \in T
    BY <1>1
  <2>2. /\ q \in Seq(T) /\ Len(q) = IF k + 1 <= n THEN n - (k + 1) + 1 ELSE 0
        /\ \A i \in 1 .. n - (k + 1) + 1 : q[i] = s[(k + 1) + i - 1]
    BY <1>1, <2>1, SubSeqProperties
  <2> HIDE DEF n, q
  <2>3. n - (k + 1) + 1 = n - k /\ \A i \in Int : (k + 1) + i - 1 = k + i
    BY <1>1
  <2>4. Len(q) = n - k
    BY <1>1, <2>2
  <2> QED  BY <2>2, <2>3, <2>4
<1>4. r = p \o q
  BY DEF RemoveAt
<1> HIDE DEF n, r, p, q
<1>5. /\ r \in Seq(T) /\ Len(r) = n - 1
      /\ \A i \in 1 .. n - 1 : r[i] = IF i < k THEN s[i] ELSE s[i + 1]
  <2>1. /\ r \in Seq(T) /\ Len(r) = (k - 1) + (n - k)
        /\ \A i \in 1 .. (k - 1) + (n - k) : r[i] = IF i <= k - 1 THEN p[i] ELSE q[i - (k - 1)]
    BY <1>2, <1>3, <1>4, ConcatProperties
  <2> QED  BY <1>1, <1>2, <1>3, <2>1
<1>6. DOMAIN r = 1 .. n - 1
  BY <1>5, LenProperties
<1>7. \A i \in 1 .. n : s[i] # s[k] => \E j \in 1 .. n - 1 : r[j] = s[i]
  <2> TAKE i \in 1 .. n
  <2> HAVE s[i] # s[k]
  <2> DEFINE j == IF i < k THEN i ELSE i - 1
  <2>1. j \in 1 .. n - 1 /\ r[j] = s[i]
    BY <1>1, <1>5
  <2> QED  BY <2>1
<1>8. \A i \in 1 .. n - 1 : r[i] # s[k] /\ \E j \in 1 .. n : s[j] = r[i]
  <2> TAKE i \in 1 .. n - 1
  <2> DEFINE j == IF i < k THEN i ELSE i + 1
  <2>1. j \in 1 .. n /\ s[j] = r[i] /\ j # k
    BY <1>1, <1>5
  <2>2. s[j] # s[k]
    BY <1>1, <2>1 DEF IsInjective
  <2> QED  BY <2>1, <2>2
<1>9. Range(r) = Range(s) \ {s[k]}
  <2>1. ASSUME NEW x \in Range(r)  PROVE x \in Range(s) /\ x # s[k]
    BY <1>1, <1>6, <1>8, <2>1 DEF Range
  <2>2. ASSUME NEW x \in Range(s), x # s[k]  PROVE x \in Range(r)
    BY <1>1, <1>6, <1>7, <2>2 DEF Range
  <2> QED  BY <2>1, <2>2
<1>10. IsInjective(r)
  <2> SUFFICES ASSUME NEW a \in 1 .. n - 1, NEW b \in 1 .. n - 1, r[a] = r[b]  PROVE a = b
    BY <1>6 DEF IsInjective
  <2> DEFINE f(i) == IF i < k THEN i ELSE i + 1
  <2>1. f(a) \in 1 .. n /\ f(b) \in 1 .. n /\ s[f(a)] = s[f(b)]
    BY <1>1, <1>5
  <2>2. f(a) = f(b)
    BY <2>1, <1>1 DEF IsInjective
  <2> QED  BY <2>2, <1>1
<1> QED  BY <1>5, <1>9, <1>10 DEF r

(* rr_scheduler_run puts a new thread behind the others. *)
LEMMA AppendKeeps ==
  ASSUME NEW T, NEW s \in Seq(T), NEW e \in T, e \notin Range(s), IsInjective(s)
  PROVE  /\ Append(s, e) \in Seq(T)
         /\ Range(Append(s, e)) = Range(s) \cup {e}
         /\ IsInjective(Append(s, e))
<1> DEFINE n == Len(s)
           r == Append(s, e)
<1>1. n \in Nat /\ DOMAIN s = 1 .. n
  BY LenProperties
<1>2. /\ r \in Seq(T) /\ DOMAIN r = 1 .. n + 1
      /\ \A i \in 1 .. n : r[i] = s[i]
      /\ r[n + 1] = e
  OBVIOUS
<1> HIDE DEF n, r
<1>3. Range(r) = Range(s) \cup {e}
  <2>1. ASSUME NEW x \in Range(r)  PROVE x \in Range(s) \cup {e}
    <3>1. PICK i \in 1 .. n + 1 : x = r[i]
      BY <1>2, <2>1 DEF Range
    <3>2. i \in 1 .. n \/ i = n + 1
      BY <1>1
    <3> QED  BY <1>1, <1>2, <3>1, <3>2 DEF Range
  <2>2. ASSUME NEW x \in Range(s)  PROVE x \in Range(r)
    <3>1. PICK i \in 1 .. n : x = s[i]
      BY <1>1, <2>2 DEF Range
    <3>2. i \in 1 .. n + 1
      BY <1>1
    <3> QED  BY <1>2, <3>1, <3>2 DEF Range
  <2>3. e \in Range(r)
    <3>1. n + 1 \in 1 .. n + 1
      BY <1>1
    <3> QED  BY <1>2, <3>1 DEF Range
  <2> QED  BY <2>1, <2>2, <2>3
<1>4. IsInjective(r)
  <2> SUFFICES ASSUME NEW a \in 1 .. n + 1, NEW b \in 1 .. n + 1, r[a] = r[b]  PROVE a = b
    BY <1>2 DEF IsInjective
  <2>1. CASE a \in 1 .. n /\ b \in 1 .. n
    BY <1>1, <1>2, <2>1 DEF IsInjective
  <2>2. CASE a = n + 1 /\ b \in 1 .. n
    BY <1>1, <1>2, <2>2 DEF Range
  <2>3. CASE a \in 1 .. n /\ b = n + 1
    BY <1>1, <1>2, <2>3 DEF Range
  <2>4. (a \in 1 .. n \/ a = n + 1) /\ (b \in 1 .. n \/ b = n + 1)
    BY <1>1
  <2> QED  BY <2>1, <2>2, <2>3, <2>4
<1> QED  BY <1>2, <1>3, <1>4 DEF r

-----------------------------------------------------------------------------
(* When all threads sleep there is one whose deadline comes first. *)
LEMMA EarliestIndexFound ==
  ASSUME ctx \in [Threads -> WakeupInfo], rr \in Seq(Threads), rr # <<>>
  PROVE  EarliestIndex(rr) \in 1 .. Len(rr)
<1> DEFINE u(i) == ctx[rr[i]].until
           U == {u(i) : i \in 1 .. Len(rr)}
<1>1. Len(rr) \in Nat \ {0} /\ DOMAIN rr = 1 .. Len(rr)
  BY LenProperties, EmptySeq
<1>2. \A i \in 1 .. Len(rr) : u(i) \in Nat
  <2> TAKE i \in 1 .. Len(rr)
  <2>1. ctx[rr[i]] \in WakeupInfo
    BY ElementOfSeq
  <2> QED  BY <2>1, BoundsAssumption DEF WakeupInfo, Far
<1> HIDE DEF u
<1>3. U \in SUBSET Nat /\ U # {}
  BY <1>1, <1>2
<1>4. PICK m \in U : \A n \in U : m <= n
  BY <1>3, LeastNatural
<1> DEFINE I == {i \in 1 .. Len(rr) : u(i) = m}
<1>5. I \in SUBSET Nat /\ I # {}
  BY <1>1, <1>4
<1>6. PICK k \in I : \A n \in I : k <= n
  BY <1>5, LeastNatural
<1>7. \A j \in 1 .. Len(rr) : u(k) < u(j) \/ (u(k) = u(j) /\ k <= j)
  <2> TAKE j \in 1 .. Len(rr)
  <2>1. m <= u(j) /\ u(k) = m /\ m \in Nat /\ u(j) \in Nat
    BY <1>2, <1>3, <1>4, <1>6
  <2>2. u(j) = m => k <= j
    BY <1>6
  <2> QED  BY <2>1, <2>2
<1>8. \E i \in DOMAIN rr : \A j \in DOMAIN rr :
         \/ ctx[rr[i]].until < ctx[rr[j]].until
         \/ ctx[rr[i]].until = ctx[rr[j]].until /\ i <= j
  BY <1>1, <1>6, <1>7 DEF u
<1> QED  BY <1>1, <1>8 DEF EarliestIndex

(* get_next_thr chooses a thread of the queue and only reorders the queue. *)
LEMMA NextThread ==
  ASSUME ctx \in [Threads -> WakeupInfo], rr \in Seq(Threads), rr # <<>>, IsInjective(rr),
         NEW time, NEW garbage
  PROVE  /\ get_next_thr(time, garbage).thread \in Range(rr)
         /\ get_next_thr(time, garbage).queue \in Seq(Threads)
         /\ Range(get_next_thr(time, garbage).queue) = Range(rr)
         /\ IsInjective(get_next_thr(time, garbage).queue)
<1> DEFINE awake == {t \in Range(rr) : ~Asleep(t, time, garbage)}
           k == IF awake # {} THEN FirstIndex(rr, awake) ELSE EarliestIndex(rr)
<1>1. DOMAIN rr = 1 .. Len(rr)
  BY LenProperties
<1>2. k \in 1 .. Len(rr)
  <2>1. CASE awake # {}
    <3>1. \E i \in DOMAIN rr : rr[i] \in awake
      BY <2>1 DEF Range
    <3> HIDE DEF awake
    <3> QED  BY <2>1, <3>1, FirstIndexFound
  <2>2. CASE awake = {}
    BY <2>2, EarliestIndexFound
  <2> QED  BY <2>1, <2>2
<1>3. get_next_thr(time, garbage)
        = [thread |-> rr[k],
           queue  |-> IF awake # {} THEN Rotate(rr, k) ELSE MoveToTail(rr, k)]
  BY DEF get_next_thr
<1> HIDE DEF awake, k
<1>4. rr[k] \in Range(rr)
  BY <1>1, <1>2 DEF Range
<1> QED  BY <1>2, <1>3, <1>4, RotateKeeps, MoveToTailKeeps

(* The writers of ready flags change nothing else, and clear none. *)
LEMMA MarkReadyKeeps ==
  ASSUME ctx \in [Threads -> WakeupInfo], NEW S
  PROVE  /\ MarkReady(S) \in [Threads -> WakeupInfo]
         /\ \A t \in Threads : /\ MarkReady(S)[t].kind = ctx[t].kind
                               /\ MarkReady(S)[t].obj = ctx[t].obj
                               /\ MarkReady(S)[t].holds = ctx[t].holds
                               /\ MarkReady(S)[t].until = ctx[t].until
                               /\ MarkReady(S)[t].ready <=> (ctx[t].ready \/ t \in S)
<1>1. \A t \in Threads : MarkReady(S)[t] = IF t \in S THEN [ctx[t] EXCEPT !.ready = TRUE] ELSE ctx[t]
  BY DEF MarkReady
<1>2. \A t \in Threads : ctx[t] \in WakeupInfo
  OBVIOUS
<1>3. \A t \in Threads : /\ MarkReady(S)[t] \in WakeupInfo
                         /\ MarkReady(S)[t].kind = ctx[t].kind
                         /\ MarkReady(S)[t].obj = ctx[t].obj
                         /\ MarkReady(S)[t].holds = ctx[t].holds
                         /\ MarkReady(S)[t].until = ctx[t].until
                         /\ MarkReady(S)[t].ready <=> (ctx[t].ready \/ t \in S)
  BY <1>1, <1>2 DEF WakeupInfo
<1>4. MarkReady(S) = [t \in Threads |-> MarkReady(S)[t]]
  BY DEF MarkReady
<1> QED  BY <1>3, <1>4

(* If anybody waits, MarkFirst marks a thread that waits in that way. *)
LEMMA MarkFirstMarks ==
  ASSUME ctx \in [Threads -> WakeupInfo], rr \in Seq(Threads), NEW kind, NEW o
  PROVE  \E S \in SUBSET Waiters(kind, o) :
           /\ MarkFirst(kind, o) = MarkReady(S)
           /\ Waiters(kind, o) # {} => S # {}
<1> DEFINE W == Waiters(kind, o)
<1>1. CASE W = {}
  BY <1>1 DEF MarkFirst
<1>2. CASE W # {}
  <2>1. \E i \in DOMAIN rr : rr[i] \in W
    BY <1>2 DEF Waiters, Range
  <2>2. First(rr, W) \in W
    BY <2>1, FirstIndexFound DEF First
  <2>3. MarkFirst(kind, o) = MarkReady({First(rr, W)})
    BY <1>2 DEF MarkFirst
  <2> QED  BY <2>2, <2>3
<1> QED  BY <1>1, <1>2
=============================================================================
