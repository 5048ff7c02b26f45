--------------------------- MODULE AgeVectorProofs ----------------------------
(***************************************************************************)
(* What the loops over the vectors of AgeVectors do, for every             *)
(* associativity and every set of tags, and from it what update(),         *)
(* potentialUpdate(), join() and lessequal() of LruMaxAgeAbstractCache and *)
(* LruMinAgeAbstractCache do to the bounds that the must vector and the    *)
(* may state stand for.                                                    *)
(*                                                                         *)
(* A vector is treated as the set of its entries: each loop is shown to    *)
(* keep it sorted with one entry per tag (Vector) and to put certain       *)
(* entries into it (Entries). A line's bound is then a function of the     *)
(* entries. A may state is a vector without the entries that               *)
(* removeRedundantTags() drops (MayState).                                 *)
(***************************************************************************)
EXTENDS LruMaxAge, LruMinAge, FiniteSums, SequenceTheorems, TLAPS

-----------------------------------------------------------------------------
\* Induction, recursion and folds, and the loops that shift and settle entries.

\* Induction over the natural numbers, over a set so that it can be cited.
LEMMA NaturalInduction ==
  ASSUME NEW S, 0 \in S, \A n \in Nat : n \in S => n + 1 \in S
  PROVE  \A n \in Nat : n \in S
<1> SUFFICES ASSUME NEW m \in Nat, m \notin S PROVE FALSE
  OBVIOUS
<1> DEFINE B == (0 .. m) \ S
           n == Min(B)
<1>1. B \in SUBSET Int /\ B # {} /\ IsFiniteSet(B)
  <2>1. IsFiniteSet(0 .. m)
    BY FS_Interval
  <2>2. m \in B /\ B \subseteq 0 .. m
    OBVIOUS
  <2> QED  BY <2>1, <2>2, FS_Subset
<1>2. n \in B /\ \A k \in B : n <= k
  <2> HIDE DEF B
  <2> QED  BY <1>1, MaxMin
<1> HIDE DEF n
<1>3. n \in Nat /\ n # 0 /\ n - 1 \in 0 .. m /\ n - 1 \notin B
  BY <1>2
<1> QED  BY <1>2, <1>3

\* The functions that solve a recursion: the value at p is base[p] at rank 0, and else g of p and
\* of the value one step before.
Recursions(P, W, rank, prev, base, g) ==
  {f \in [P -> W] :
     \A p \in P : f[p] = IF rank[p] = 0 THEN base[p] ELSE g[<<p, f[prev[p]]>>]}

\* A recursion along steps that lower a bounded rank defines a function.
LEMMA RankedRecursion ==
  ASSUME NEW P, NEW N \in Nat, NEW rank \in [P -> 0 .. N], NEW prev \in [P -> P],
         \A p \in P : rank[p] # 0 => rank[prev[p]] < rank[p],
         NEW W, NEW base \in [P -> W], NEW g \in [P \X W -> W]
  PROVE  Recursions(P, W, rank, prev, base, g) # {}
<1> DEFINE Holds(f, p) == f[p] = IF rank[p] = 0 THEN base[p] ELSE g[<<p, f[prev[p]]>>]
           S == {n \in Nat : \E f \in [P -> W] : \A p \in P : rank[p] <= n => Holds(f, p)}
<1>1. 0 \in S
  BY DEF S
<1>2. ASSUME NEW n \in Nat, n \in S PROVE n + 1 \in S
  <2>1. PICK f \in [P -> W] : \A p \in P : rank[p] <= n => Holds(f, p)
    BY <1>2
  <2> DEFINE next == [p \in P |-> IF rank[p] <= n THEN f[p] ELSE g[<<p, f[prev[p]]>>]]
  <2>2. next \in [P -> W]
    OBVIOUS
  <2>3. ASSUME NEW p \in P, rank[p] <= n + 1 PROVE Holds(next, p)
    <3>0. rank[p] \in Nat /\ prev[p] \in P /\ rank[prev[p]] \in Nat
      OBVIOUS
    <3>1. CASE rank[p] = 0
      <4>1. rank[p] <= n /\ next[p] = f[p]
        BY <3>0, <3>1
      <4>2. f[p] = base[p]
        BY <2>1, <3>1, <4>1
      <4> QED  BY <3>1, <4>1, <4>2
    <3>2. CASE rank[p] # 0
      <4>1. rank[prev[p]] <= n /\ next[prev[p]] = f[prev[p]]
        BY <2>3, <3>0, <3>2
      <4>2. next[p] = g[<<p, f[prev[p]]>>]
        <5>1. CASE rank[p] <= n
          BY <2>1, <3>0, <3>2, <5>1
        <5>2. CASE ~ (rank[p] <= n)
          BY <5>2
        <5> QED  BY <5>1, <5>2
      <4> QED  BY <3>2, <4>1, <4>2
    <3> QED  BY <3>1, <3>2
  <2> HIDE DEF next, Holds
  <2> QED  BY <2>2, <2>3
<1>3. N \in S
  <2> HIDE DEF S
  <2> QED  BY <1>1, <1>2, NaturalInduction
<1>4. PICK f \in [P -> W] : \A p \in P : rank[p] <= N => Holds(f, p)
  BY <1>3
<1> QED  BY <1>4 DEF Recursions

\* The numbers from 1 to k, counted down.
LEMMA Prefix ==
  ASSUME NEW k \in Nat
  PROVE  /\ IsFiniteSet(1 .. k) /\ 1 .. k \in SUBSET Int
         /\ k # 0 => Max(1 .. k) = k /\ (1 .. k) \ {k} = 1 .. (k - 1)
<1>1. IsFiniteSet(1 .. k) /\ 1 .. k \in SUBSET Int
  BY FS_Interval
<1>2. ASSUME k # 0 PROVE Max(1 .. k) = k /\ (1 .. k) \ {k} = 1 .. (k - 1)
  <2>1. k \in 1 .. k
    BY <1>2
  <2> DEFINE m == Max(1 .. k)
  <2>2. m \in 1 .. k /\ \A x \in 1 .. k : x <= m
    BY <1>1, <2>1, MaxMin
  <2> HIDE DEF m
  <2>3. m = k
    BY <2>1, <2>2
  <2> QED  BY <2>3 DEF m
<1> QED  BY <1>1, <1>2

\* The results of folding the first elements of a sequence of length n, by the sets of their
\* indices.
PrefixFolds(n, W, b, g) ==
  {it \in [SUBSET (1 .. n) -> W] :
     \A s \in SUBSET (1 .. n) :
       it[s] = IF s = {} THEN b ELSE g[<<Max(s), it[s \ {Max(s)}]>>]}

\* What FoldLeft stands for over a sequence of length n, if g takes W to W at each of its
\* elements.
LEMMA FoldOverPrefixes ==
  ASSUME NEW n \in Nat, NEW W, NEW b \in W, NEW g \in [(1 .. n) \X W -> W]
  PROVE  PrefixFolds(n, W, b, g) # {}
<1> DEFINE P == SUBSET (1 .. n)
           rank == [s \in P |-> Cardinality(s)]
           prev == [s \in P |-> IF s = {} THEN {} ELSE s \ {Max(s)}]
           base == [s \in P |-> b]
           step == [x \in P \X W |-> IF x[1] = {} THEN b ELSE g[<<Max(x[1]), x[2]>>]]
<1>1. IsFiniteSet(1 .. n) /\ Cardinality(1 .. n) = n
  BY FS_Interval
<1>2. \A s \in P : /\ IsFiniteSet(s) /\ Cardinality(s) \in 0 .. n
                   /\ Cardinality(s) = 0 <=> s = {}
  <2> TAKE s \in P
  <2>1. IsFiniteSet(s) /\ Cardinality(s) <= Cardinality(1 .. n)
    BY <1>1, FS_Subset
  <2>2. Cardinality(s) \in Nat /\ (Cardinality(s) = 0 <=> s = {})
    BY <2>1, FS_CardinalityType, FS_EmptySet
  <2> QED  BY <1>1, <2>1, <2>2
<1>3. \A s \in P : s # {} => /\ Max(s) \in 1 .. n /\ Max(s) \in s
                             /\ s \ {Max(s)} \in P
                             /\ Cardinality(s \ {Max(s)}) = Cardinality(s) - 1
  <2> SUFFICES ASSUME NEW s \in P, s # {}
               PROVE  /\ Max(s) \in 1 .. n /\ Max(s) \in s
                      /\ s \ {Max(s)} \in P
                      /\ Cardinality(s \ {Max(s)}) = Cardinality(s) - 1
    OBVIOUS
  <2>1. s \in SUBSET Int /\ IsFiniteSet(s)
    BY <1>2
  <2>2. Max(s) \in s
    BY <2>1, MaxMin
  <2> DEFINE m == Max(s)
  <2>3. m \in s
    BY <2>2
  <2> HIDE DEF m
  <2>4. Cardinality(s \ {m}) = Cardinality(s) - 1
    BY <2>1, <2>3, FS_RemoveElement
  <2>5. m \in 1 .. n /\ s \ {m} \in P
    BY <2>3
  <2> QED  BY <2>3, <2>4, <2>5 DEF m
<1>4. rank \in [P -> 0 .. n] /\ prev \in [P -> P] /\ base \in [P -> W]
  <2>1. ASSUME NEW s \in P PROVE (IF s = {} THEN {} ELSE s \ {Max(s)}) \in P
    BY <1>3
  <2> HIDE DEF P
  <2> QED  BY <1>2, <2>1
<1>5. \A s \in P : rank[s] # 0 => rank[prev[s]] < rank[s]
  <2> SUFFICES ASSUME NEW s \in P, rank[s] # 0 PROVE rank[prev[s]] < rank[s]
    OBVIOUS
  <2>1. s # {}
    BY <1>2
  <2>2. prev[s] = s \ {Max(s)} /\ prev[s] \in P
    BY <1>3, <2>1
  <2> QED  BY <1>2, <1>3, <2>1, <2>2
<1>6. step \in [P \X W -> W]
  <2>1. ASSUME NEW x \in P \X W
        PROVE  (IF x[1] = {} THEN b ELSE g[<<Max(x[1]), x[2]>>]) \in W
    <3>1. x[1] \in P /\ x[2] \in W
      OBVIOUS
    <3>2. CASE x[1] = {}
      BY <3>2
    <3>3. CASE x[1] # {}
      <4>1. Max(x[1]) \in 1 .. n
        BY <1>3, <3>1, <3>3
      <4>2. <<Max(x[1]), x[2]>> \in (1 .. n) \X W
        BY <3>1, <4>1
      <4> QED  BY <3>3, <4>2
    <3> QED  BY <3>2, <3>3
  <2> HIDE DEF P
  <2> QED  BY <2>1
<1>7. Recursions(P, W, rank, prev, base, step) # {}
  <2> HIDE DEF P, rank, prev, base, step
  <2> QED  BY <1>4, <1>5, <1>6, RankedRecursion
<1>8. PICK it \in [P -> W] :
        \A s \in P : it[s] = IF rank[s] = 0 THEN base[s] ELSE step[<<s, it[prev[s]]>>]
  <2> HIDE DEF P, rank, prev, base, step
  <2> QED  BY <1>7 DEF Recursions
<1>9. ASSUME NEW s \in P
      PROVE  it[s] = IF s = {} THEN b ELSE g[<<Max(s), it[s \ {Max(s)}]>>]
  <2>1. CASE s = {}
    BY <1>2, <1>8, <2>1
  <2>2. CASE s # {}
    <3>1. it[s] = step[<<s, it[prev[s]]>>] /\ prev[s] = s \ {Max(s)} /\ prev[s] \in P
      BY <1>2, <1>3, <1>8, <2>2
    <3>2. \A w \in W : step[<<s, w>>] = g[<<Max(s), w>>]
      BY <2>2
    <3>3. it[prev[s]] \in W
      BY <1>8, <3>1
    <3> HIDE DEF step, prev, P
    <3> QED  BY <2>2, <3>1, <3>2, <3>3
  <2> QED  BY <2>1, <2>2
<1> QED  BY <1>9 DEF PrefixFolds

-----------------------------------------------------------------------------
\* Vectors of entries. The tags are numbers, not only those of the program: an access to
\* an imprecise address may make any of them explicit.
Rec == [tag : Nat, age : Nat]

SortedFrom(v, i) == \A j, k \in i .. Len(v) : j < k => Precedes(v[j], v[k])
EntriesFrom(v, i) == {v[k] : k \in i .. Len(v)}

\* An entry, made of its tag and its age.
LEMMA EntryIsRec ==
  ASSUME NEW t \in Nat, NEW n \in Nat
  PROVE  EntryOf(t, n) \in Rec /\ EntryOf(t, n).tag = t /\ EntryOf(t, n).age = n
BY DEF EntryOf, Rec

\* Entries are ordered by age and tag.
LEMMA PrecedesOrders ==
  /\ \A x, y, z \in Rec : Precedes(x, y) /\ Precedes(y, z) => Precedes(x, z)
  /\ \A x, y \in Rec : ~ (Precedes(x, y) /\ Precedes(y, x)) /\ ~ Precedes(x, x)
  /\ \A x, y \in Rec : Precedes(x, y) => x.age <= y.age
  /\ \A x, y \in Rec : x.tag # y.tag => Precedes(x, y) \/ Precedes(y, x)
  /\ \A x, y \in Rec :
       x.age <= y.age /\ x.tag # y.tag /\ ~ (y.age = x.age /\ y.tag < x.tag) => Precedes(x, y)
  /\ \A x, y \in Rec : x.tag = y.tag /\ x.age = y.age => x = y
BY DEF Precedes, Rec

\* Settle moves entry i behind the entries that follow with its age and a lesser tag.
LEMMA SettleMoves ==
  ASSUME NEW w \in Seq(Rec), NEW i \in 1 .. Len(w)
  PROVE  \E last \in i .. Len(w) :
           /\ Settle(w, i) \in Seq(Rec) /\ Len(Settle(w, i)) = Len(w)
           /\ \A k \in 1 .. Len(w) :
                Settle(w, i)[k] = IF k < i \/ k > last THEN w[k]
                                  ELSE IF k = last THEN w[i] ELSE w[k + 1]
           /\ \A k \in i + 1 .. last : w[k].age = w[i].age /\ w[k].tag < w[i].tag
           /\ last < Len(w) =>
                ~ (w[last + 1].age = w[i].age /\ w[last + 1].tag < w[i].tag)
<1> DEFINE L == {i} \cup Behind(w, i)
           last == Max(L)
<1>0. i \in Nat /\ Len(w) \in Nat
  OBVIOUS
<1>1. L \in SUBSET (i .. Len(w)) /\ i \in L
  BY DEF Behind
<1>2. last \in L /\ \A j \in L : j <= last
  <2>1. IsFiniteSet(i .. Len(w)) /\ i .. Len(w) \in SUBSET Int
    BY <1>0, FS_Interval
  <2>2. IsFiniteSet(L) /\ L \in SUBSET Int /\ L # {}
    BY <1>1, <2>1, FS_Subset
  <2> HIDE DEF L
  <2> QED  BY <2>2, MaxMin
<1>3. Settle(w, i) = SubSeq(w, 1, i - 1) \o SubSeq(w, i + 1, last) \o <<w[i]>>
                       \o SubSeq(w, last + 1, Len(w))
  BY DEF Settle
<1> HIDE DEF last
<1>4. last \in i .. Len(w)
  BY <1>1, <1>2
<1>5. \A k \in i + 1 .. last : w[k].age = w[i].age /\ w[k].tag < w[i].tag
  <2>1. CASE last = i
    BY <2>1, <1>0
  <2>2. CASE last # i
    <3>1. last \in Behind(w, i)
      BY <1>2, <2>2
    <3> QED  BY <3>1 DEF Behind
  <2> QED  BY <2>1, <2>2
<1>6. ASSUME last < Len(w), w[last + 1].age = w[i].age, w[last + 1].tag < w[i].tag
      PROVE  FALSE
  <2>1. last + 1 \in i + 1 .. Len(w)
    BY <1>0, <1>4, <1>6
  <2>2. \A k \in i + 1 .. last + 1 : w[k].age = w[i].age /\ w[k].tag < w[i].tag
    <3> TAKE k \in i + 1 .. last + 1
    <3>1. CASE k = last + 1
      BY <1>6, <3>1
    <3>2. CASE k # last + 1
      <4>1. k \in i + 1 .. last
        BY <1>4, <3>2
      <4> QED  BY <1>5, <4>1
    <3> QED  BY <3>1, <3>2
  <2>3. last + 1 \in Behind(w, i)
    BY <2>1, <2>2 DEF Behind
  <2>4. last + 1 <= last
    BY <1>2, <2>3
  <2> QED  BY <1>4, <2>4
<1> DEFINE a == SubSeq(w, 1, i - 1)
           b == SubSeq(w, i + 1, last)
           d == SubSeq(w, last + 1, Len(w))
<1>7. /\ a \in Seq(Rec) /\ Len(a) = i - 1 /\ \A k \in 1 .. i - 1 : a[k] = w[k]
      /\ b \in Seq(Rec) /\ Len(b) = last - i /\ \A k \in 1 .. last - i : b[k] = w[i + k]
      /\ d \in Seq(Rec) /\ Len(d) = Len(w) - last
      /\ \A k \in 1 .. Len(w) - last : d[k] = w[last + k]
      /\ w[i] \in Rec
  BY <1>0, <1>4
<1> HIDE DEF a, b, d
<1>8. /\ Settle(w, i) \in Seq(Rec) /\ Len(Settle(w, i)) = Len(w)
      /\ \A k \in 1 .. Len(w) :
           Settle(w, i)[k] = IF k < i \/ k > last THEN w[k]
                             ELSE IF k = last THEN w[i] ELSE w[k + 1]
  <2>1. Settle(w, i) = a \o b \o <<w[i]>> \o d
    BY <1>3 DEF a, b, d
  <2> DEFINE ab == a \o b
             abx == ab \o <<w[i]>>
  <2>2. /\ ab \in Seq(Rec) /\ Len(ab) = last - 1
        /\ \A k \in 1 .. last - 1 : ab[k] = IF k <= i - 1 THEN a[k] ELSE b[k - (i - 1)]
    <3>1. /\ ab \in Seq(Rec) /\ Len(ab) = Len(a) + Len(b)
          /\ \A k \in 1 .. Len(a) + Len(b) :
               ab[k] = IF k <= Len(a) THEN a[k] ELSE b[k - Len(a)]
      BY <1>7, ConcatProperties
    <3>2. Len(a) = i - 1 /\ Len(a) + Len(b) = last - 1
      BY <1>0, <1>4, <1>7
    <3> QED  BY <3>1, <3>2
  <2>3. <<w[i]>> \in Seq(Rec) /\ Len(<<w[i]>>) = 1 /\ <<w[i]>>[1] = w[i]
    BY <1>7
  <2> HIDE DEF ab
  <2>4. /\ abx \in Seq(Rec) /\ Len(abx) = last
        /\ \A k \in 1 .. last : abx[k] = IF k < last THEN ab[k] ELSE w[i]
    <3> DEFINE x == <<w[i]>>
    <3>1. x \in Seq(Rec) /\ Len(x) = 1 /\ x[1] = w[i]
      BY <2>3
    <3> HIDE DEF x
    <3>2. /\ ab \o x \in Seq(Rec) /\ Len(ab \o x) = Len(ab) + Len(x)
          /\ \A k \in 1 .. Len(ab) + Len(x) :
               (ab \o x)[k] = IF k <= Len(ab) THEN ab[k] ELSE x[k - Len(ab)]
      BY <2>2, <3>1, ConcatProperties
    <3>3. Len(ab) = last - 1 /\ Len(ab) + Len(x) = last /\ last \in Nat
      BY <1>0, <1>4, <2>2, <3>1
    <3>4. /\ ab \o x \in Seq(Rec) /\ Len(ab \o x) = last
          /\ \A k \in 1 .. last : (ab \o x)[k] = IF k < last THEN ab[k] ELSE w[i]
      BY <3>1, <3>2, <3>3
    <3> QED  BY <3>4 DEF x
  <2> HIDE DEF abx
  <2>5. Settle(w, i) = abx \o d
    BY <2>1 DEF ab, abx
  <2>6. /\ Settle(w, i) \in Seq(Rec) /\ Len(Settle(w, i)) = Len(w)
        /\ \A k \in 1 .. Len(w) :
             Settle(w, i)[k] = IF k <= last THEN abx[k] ELSE d[k - last]
    <3>1. /\ abx \o d \in Seq(Rec) /\ Len(abx \o d) = Len(abx) + Len(d)
          /\ \A k \in 1 .. Len(abx) + Len(d) :
               (abx \o d)[k] = IF k <= Len(abx) THEN abx[k] ELSE d[k - Len(abx)]
      BY <1>7, <2>4, ConcatProperties
    <3>2. Len(abx) = last /\ Len(abx) + Len(d) = Len(w)
      BY <1>0, <1>4, <1>7, <2>4
    <3> QED  BY <2>5, <3>1, <3>2
  <2>7. ASSUME NEW k \in 1 .. Len(w)
        PROVE  Settle(w, i)[k] = IF k < i \/ k > last THEN w[k]
                                 ELSE IF k = last THEN w[i] ELSE w[k + 1]
    <3>1. CASE k < i
      <4>1. k \in 1 .. i - 1 /\ k \in 1 .. last - 1 /\ k \in 1 .. last /\ k < last
        BY <1>0, <1>4, <3>1
      <4>2. Settle(w, i)[k] = abx[k] /\ abx[k] = ab[k] /\ ab[k] = a[k] /\ a[k] = w[k]
        BY <1>0, <1>7, <2>2, <2>4, <2>6, <4>1
      <4> QED  BY <3>1, <4>2
    <3>2. CASE k >= i /\ k < last
      <4>0. /\ k \in 1 .. last - 1 /\ k \in 1 .. last /\ k < last /\ ~ (k <= i - 1)
            /\ k - (i - 1) \in 1 .. last - i
        BY <1>0, <1>4, <3>2
      <4>1. Settle(w, i)[k] = b[k - (i - 1)] /\ k - (i - 1) \in 1 .. last - i
        BY <2>2, <2>4, <2>6, <4>0
      <4>2. b[k - (i - 1)] = w[i + (k - (i - 1))] /\ i + (k - (i - 1)) = k + 1
        BY <1>0, <1>7, <4>1
      <4> QED  BY <1>4, <3>2, <4>1, <4>2
    <3>3. CASE k = last
      BY <1>0, <1>4, <2>4, <2>6, <3>3
    <3>4. CASE k > last
      <4>1. Settle(w, i)[k] = d[k - last] /\ k - last \in 1 .. Len(w) - last
        BY <1>0, <1>4, <2>6, <3>4
      <4>2. d[k - last] = w[last + (k - last)] /\ last + (k - last) = k
        BY <1>0, <1>4, <1>7, <4>1
      <4> QED  BY <3>4, <4>1, <4>2
    <3> QED  BY <1>0, <1>4, <3>1, <3>2, <3>3, <3>4
  <2> QED  BY <2>6, <2>7
<1> QED  BY <1>4, <1>5, <1>6, <1>8

\* If what follows is sorted, Settle inserts the entry where it belongs, and no age changes.
LEMMA SettleInserts ==
  ASSUME NEW w \in Seq(Rec), NEW i \in 1 .. Len(w), SortedFrom(w, i + 1),
         \A k \in i + 1 .. Len(w) : w[i].age <= w[k].age /\ w[i].tag # w[k].tag
  PROVE  /\ Settle(w, i) \in Seq(Rec) /\ Len(Settle(w, i)) = Len(w)
         /\ \A k \in 1 .. i - 1 : Settle(w, i)[k] = w[k]
         /\ \A k \in 1 .. Len(w) : Settle(w, i)[k].age = w[k].age
         /\ SortedFrom(Settle(w, i), i)
         /\ EntriesFrom(Settle(w, i), i) = EntriesFrom(w, i)
<1> DEFINE s == Settle(w, i)
<1>0. i \in Nat /\ Len(w) \in Nat /\ \A k \in 1 .. Len(w) : w[k] \in Rec
  OBVIOUS
<1>1. PICK last \in i .. Len(w) :
           /\ s \in Seq(Rec) /\ Len(s) = Len(w)
           /\ \A k \in 1 .. Len(w) :
                s[k] = IF k < i \/ k > last THEN w[k] ELSE IF k = last THEN w[i] ELSE w[k + 1]
           /\ \A k \in i + 1 .. last : w[k].age = w[i].age /\ w[k].tag < w[i].tag
           /\ last < Len(w) =>
                ~ (w[last + 1].age = w[i].age /\ w[last + 1].tag < w[i].tag)
  BY SettleMoves
<1> HIDE DEF s
<1>2. \A k \in i .. Len(w) :
        /\ k < last => s[k] = w[k + 1] /\ k + 1 \in i + 1 .. last
        /\ k = last => s[k] = w[i]
        /\ k > last => s[k] = w[k] /\ k \in last + 1 .. Len(w)
  <2> TAKE k \in i .. Len(w)
  <2>1. k \in 1 .. Len(w) /\ last \in Nat /\ ~ (k < i) /\ k \in Nat
    BY <1>0, <1>1
  <2>2. s[k] = IF k < i \/ k > last THEN w[k] ELSE IF k = last THEN w[i] ELSE w[k + 1]
    BY <1>1, <2>1
  <2> QED  BY <1>0, <2>1, <2>2
<1>3. \A j, k \in i + 1 .. Len(w) : j < k => Precedes(w[j], w[k])
  BY DEF SortedFrom
<1>4. ASSUME NEW k \in last + 1 .. Len(w) PROVE Precedes(w[i], w[k])
  <2>1. last + 1 \in i + 1 .. Len(w) /\ last < Len(w) /\ k \in i + 1 .. Len(w)
    BY <1>0, <1>1, <1>4
  <2>2. /\ w[i] \in Rec /\ w[k] \in Rec /\ w[last + 1] \in Rec
        /\ w[i].age <= w[last + 1].age /\ w[i].tag # w[last + 1].tag
        /\ ~ (w[last + 1].age = w[i].age /\ w[last + 1].tag < w[i].tag)
    <3>1. i \in 1 .. Len(w) /\ k \in 1 .. Len(w) /\ last + 1 \in 1 .. Len(w)
      BY <1>0, <2>1
    <3> QED  BY <1>0, <1>1, <2>1, <3>1
  <2>3. Precedes(w[i], w[last + 1])
    BY <2>2, PrecedesOrders
  <2>4. k = last + 1 \/ Precedes(w[last + 1], w[k])
    BY <1>3, <2>1
  <2>5. w[i] \in Rec /\ w[k] \in Rec /\ w[last + 1] \in Rec
    BY <2>2
  <2>6. Precedes(w[last + 1], w[k]) => Precedes(w[i], w[k])
    BY <2>3, <2>5, PrecedesOrders
  <2> QED  BY <2>3, <2>4, <2>6
<1>5. SortedFrom(s, i)
  <2> SUFFICES ASSUME NEW j \in i .. Len(w), NEW k \in i .. Len(w), j < k
               PROVE  Precedes(s[j], s[k])
    BY <1>1 DEF SortedFrom
  <2>0. last \in Nat /\ j \in Nat /\ k \in Nat
    BY <1>0, <1>1
  <2>1. CASE k < last
    <3>1. s[j] = w[j + 1] /\ s[k] = w[k + 1] /\ j + 1 < k + 1
          /\ j + 1 \in i + 1 .. Len(w) /\ k + 1 \in i + 1 .. Len(w)
      BY <1>0, <1>1, <1>2, <2>0, <2>1
    <3> QED  BY <1>3, <3>1
  <2>2. CASE k = last
    <3>1. s[j] = w[j + 1] /\ s[k] = w[i] /\ j + 1 \in i + 1 .. last
      BY <1>2, <2>0, <2>2
    <3>2. w[j + 1].age = w[i].age /\ w[j + 1].tag < w[i].tag
      BY <1>1, <3>1
    <3> QED  BY <3>1, <3>2 DEF Precedes
  <2>3. CASE k > last
    <3>1. s[k] = w[k] /\ k \in last + 1 .. Len(w) /\ k \in i + 1 .. Len(w)
      BY <1>0, <1>1, <1>2, <2>0, <2>3
    <3>2. CASE j < last
      <4>1. s[j] = w[j + 1] /\ j + 1 \in i + 1 .. Len(w) /\ j + 1 < k
        BY <1>0, <1>1, <1>2, <2>0, <2>3, <3>2
      <4> QED  BY <1>3, <3>1, <4>1
    <3>3. CASE j = last
      BY <1>2, <1>4, <3>1, <3>3
    <3>4. CASE j > last
      <4>1. s[j] = w[j] /\ j \in i + 1 .. Len(w)
        BY <1>0, <1>1, <1>2, <2>0, <3>4
      <4> QED  BY <1>3, <3>1, <4>1
    <3> QED  BY <2>0, <3>2, <3>3, <3>4
  <2> QED  BY <2>0, <2>1, <2>2, <2>3
<1>6. EntriesFrom(s, i) = EntriesFrom(w, i)
  <2>1. ASSUME NEW k \in i .. Len(w) PROVE \E j \in i .. Len(w) : s[k] = w[j]
    <3>1. CASE k < last
      <4>1. s[k] = w[k + 1] /\ k + 1 \in i .. Len(w)
        BY <1>0, <1>1, <1>2, <3>1
      <4> QED  BY <4>1
    <3>2. CASE k = last
      <4>1. s[k] = w[i] /\ i \in i .. Len(w)
        BY <1>0, <1>2, <3>2
      <4> QED  BY <4>1
    <3>3. CASE k > last
      BY <1>2, <3>3
    <3> QED  BY <1>0, <1>1, <3>1, <3>2, <3>3
  <2>2. ASSUME NEW k \in i .. Len(w) PROVE \E j \in i .. Len(w) : w[k] = s[j]
    <3>1. CASE k = i
      <4>1. s[last] = w[k] /\ last \in i .. Len(w)
        BY <1>1, <1>2, <3>1
      <4> QED  BY <4>1
    <3>2. CASE k > i /\ k <= last
      <4>1. k - 1 \in i .. Len(w) /\ k - 1 < last /\ (k - 1) + 1 = k
        BY <1>0, <1>1, <3>2
      <4>2. s[k - 1] = w[k]
        BY <1>2, <4>1
      <4> QED  BY <4>1, <4>2
    <3>3. CASE k > last
      BY <1>2, <3>3
    <3> QED  BY <1>0, <1>1, <3>1, <3>2, <3>3
  <2>3. EntriesFrom(s, i) = {s[k] : k \in i .. Len(w)}
    BY <1>1 DEF EntriesFrom
  <2>4. ASSUME NEW e \in EntriesFrom(s, i) PROVE e \in EntriesFrom(w, i)
    <3>1. PICK k \in i .. Len(w) : e = s[k]
      BY <2>3, <2>4
    <3>2. PICK j \in i .. Len(w) : s[k] = w[j]
      BY <2>1
    <3> QED  BY <3>1, <3>2 DEF EntriesFrom
  <2>5. ASSUME NEW e \in EntriesFrom(w, i) PROVE e \in EntriesFrom(s, i)
    <3>1. PICK k \in i .. Len(w) : e = w[k]
      BY <2>5 DEF EntriesFrom
    <3>2. PICK j \in i .. Len(w) : w[k] = s[j]
      BY <2>2
    <3> QED  BY <2>3, <3>1, <3>2
  <2> QED  BY <2>4, <2>5
<1>7. ASSUME NEW k \in 1 .. i - 1 PROVE s[k] = w[k]
  <2>1. k \in 1 .. Len(w) /\ k < i
    BY <1>0
  <2> QED  BY <1>1, <2>1
<1>8. ASSUME NEW k \in 1 .. Len(w) PROVE s[k].age = w[k].age
  <2>0. last \in i .. Len(w)
    BY <1>1
  <2>1. CASE k < i \/ k > last
    <3>1. s[k] = w[k]
      BY <1>1, <2>1
    <3> QED  BY <3>1
  <2>2. CASE k = last
    <3>1. s[k] = w[i]
      BY <1>2, <2>0, <2>2
    <3>2. k = i \/ k \in i + 1 .. last
      BY <1>0, <2>0, <2>2
    <3> QED  BY <1>1, <3>1, <3>2
  <2>3. CASE k >= i /\ k < last
    <3>1. s[k] = w[k + 1] /\ k + 1 \in i + 1 .. last /\ (k = i \/ k \in i + 1 .. last)
      BY <1>0, <1>2, <2>0, <2>3
    <3> QED  BY <1>1, <3>1
  <2> QED  BY <1>0, <2>0, <2>1, <2>2, <2>3
<1> QED  BY <1>1, <1>5, <1>6, <1>7, <1>8 DEF s

\* One step of the shift keeps the length of the vector.
LEMMA ShiftIntoType ==
  ASSUME NEW w \in Seq(Rec), NEW i \in 2 .. Len(w), NEW n \in Nat
  PROVE  ShiftInto(w, i, n) \in Seq(Rec) /\ Len(ShiftInto(w, i, n)) = Len(w)
<1> DEFINE older == IF w[i - 1].age < n THEN w[i - 1].age + 1 ELSE w[i - 1].age
           moved == [w EXCEPT ![i] = EntryOf(w[i - 1].tag, older)]
<1>1. w[i - 1] \in Rec
  OBVIOUS
<1>2. EntryOf(w[i - 1].tag, older) \in Rec
  <2>1. w[i - 1].tag \in Nat /\ w[i - 1].age \in Nat
    BY <1>1 DEF Rec
  <2> QED  BY <2>1, EntryIsRec
<1>3. moved \in Seq(Rec) /\ Len(moved) = Len(w) /\ i \in 1 .. Len(moved)
  BY <1>2, ExceptSeq
<1>4. ShiftInto(w, i, n) = IF older = n THEN Settle(moved, i) ELSE moved
  BY DEF ShiftInto
<1> HIDE DEF moved, older
<1>5. Settle(moved, i) \in Seq(Rec) /\ Len(Settle(moved, i)) = Len(moved)
  BY <1>3, SettleMoves
<1> QED  BY <1>3, <1>4, <1>5

\* The loop of the must update, step by step.
LEMMA ShiftFold ==
  ASSUME NEW v \in Seq(Rec), NEW hi \in Nat \ {0}, hi <= Len(v), NEW n \in Nat
  PROVE  \E f : /\ f[0] = v
                /\ \A k \in 1 .. hi - 1 : f[k] = ShiftInto(f[k - 1], hi + 1 - k, n)
                /\ ShiftUpTo(v, hi, n) = f[hi - 1]
<1> DEFINE lo == 2
           seq == Downto(hi, lo)
           m == hi - lo + 1
           W == {w \in Seq(Rec) : Len(w) = Len(v)}
           g == [x \in (1 .. m) \X W |-> ShiftInto(x[2], hi + 1 - x[1], n)]
           Eq(it) == it = [s \in SUBSET (DOMAIN seq) |->
                             IF s = {} THEN v
                             ELSE ShiftInto(it[s \ {Max(s)}], seq[Max(s)], n)]
           run == CHOOSE it : Eq(it)
<1>1. /\ m \in Nat /\ DOMAIN seq = 1 .. m
      /\ \A k \in 1 .. m : seq[k] = hi + 1 - k /\ hi + 1 - k \in lo .. hi
  BY DEF Downto
<1>2. ShiftUpTo(v, hi, n) = run[DOMAIN seq]
  BY DEF ShiftUpTo, FoldLeft, MapThenFoldSet
<1>3. v \in W
  OBVIOUS
<1>4. g \in [(1 .. m) \X W -> W]
  <2>1. ASSUME NEW x \in (1 .. m) \X W
        PROVE  ShiftInto(x[2], hi + 1 - x[1], n) \in W
    <3>1. x[1] \in 1 .. m /\ x[2] \in Seq(Rec) /\ Len(x[2]) = Len(v)
      OBVIOUS
    <3>2. hi + 1 - x[1] \in lo .. Len(x[2])
      BY <1>1, <3>1
    <3> QED  BY <3>1, <3>2, ShiftIntoType
  <2> HIDE DEF W, m
  <2> QED  BY <2>1
<1>51. PrefixFolds(m, W, v, g) # {}
  <2> HIDE DEF W, m, g
  <2> QED  BY <1>1, <1>3, <1>4, FoldOverPrefixes
<1>5. PICK it \in [SUBSET (1 .. m) -> W] :
        \A s \in SUBSET (1 .. m) :
          it[s] = IF s = {} THEN v ELSE g[<<Max(s), it[s \ {Max(s)}]>>]
  <2> HIDE DEF W, m, g
  <2> QED  BY <1>51 DEF PrefixFolds
<1>6. \A s \in SUBSET (1 .. m) : s # {} => Max(s) \in 1 .. m
  <2> SUFFICES ASSUME NEW s \in SUBSET (1 .. m), s # {} PROVE Max(s) \in 1 .. m
    OBVIOUS
  <2>1. IsFiniteSet(1 .. m) /\ 1 .. m \in SUBSET Int
    BY <1>1, Prefix
  <2>2. s \in SUBSET Int /\ IsFiniteSet(s)
    BY <2>1, FS_Subset
  <2> QED  BY <2>2, MaxMin
<1>7. Eq(it)
  <2>1. ASSUME NEW s \in SUBSET (1 .. m)
        PROVE  it[s] = IF s = {} THEN v ELSE ShiftInto(it[s \ {Max(s)}], seq[Max(s)], n)
    <3>1. CASE s = {}
      BY <1>5, <3>1
    <3>2. CASE s # {}
      <4> DEFINE k == Max(s)
                 w == it[s \ {Max(s)}]
      <4>1. k \in 1 .. m /\ w \in W /\ it[s] = g[<<k, w>>]
        BY <1>5, <1>6, <3>2
      <4> HIDE DEF k, w
      <4>2. <<k, w>> \in (1 .. m) \X W
        BY <4>1
      <4>3. g[<<k, w>>] = ShiftInto(w, hi + 1 - k, n)
        BY <4>2
      <4>4. seq[k] = hi + 1 - k
        BY <1>1, <4>1
      <4>5. it[s] = ShiftInto(w, seq[k], n)
        BY <4>1, <4>3, <4>4
      <4> QED  BY <3>2, <4>5 DEF k, w
    <3> QED  BY <3>1, <3>2
  <2> HIDE DEF seq, m, W, g
  <2> QED  BY <1>1, <1>5, <2>1
<1>8. Eq(run)
  <2> HIDE DEF Eq
  <2> QED  BY <1>7
<1> DEFINE f == [k \in 0 .. m |-> run[1 .. k]]
<1>9. f[0] = v
  <2>1. 1 .. 0 = {} /\ {} \in SUBSET (DOMAIN seq) /\ 0 \in 0 .. m
    BY <1>1
  <2>2. run[{}] = v
    <3> HIDE DEF run, seq
    <3> QED  BY <1>8, <2>1
  <2> HIDE DEF run
  <2> QED  BY <2>1, <2>2
<1>10. ASSUME NEW k \in 1 .. m PROVE f[k] = ShiftInto(f[k - 1], hi + 1 - k, n)
  <2>1. Max(1 .. k) = k /\ (1 .. k) \ {k} = 1 .. (k - 1)
    BY <1>1, Prefix
  <2>2. 1 .. k \in SUBSET (DOMAIN seq) /\ 1 .. k # {}
    <3>1. DOMAIN seq = 1 .. m /\ m \in Nat
      BY <1>1
    <3> HIDE DEF seq, m
    <3>2. k \in 1 .. k /\ 1 .. k \subseteq 1 .. m
      BY <3>1
    <3> QED  BY <3>1, <3>2
  <2>3. run[1 .. k] = ShiftInto(run[1 .. (k - 1)], seq[k], n)
    <3> HIDE DEF run, seq
    <3>1. run[1 .. k] = ShiftInto(run[(1 .. k) \ {Max(1 .. k)}], seq[Max(1 .. k)], n)
      BY <1>8, <2>2
    <3> QED  BY <2>1, <3>1
  <2>4. f[k] = run[1 .. k] /\ f[k - 1] = run[1 .. (k - 1)]
    BY <1>1
  <2> HIDE DEF f, run, seq
  <2> QED  BY <1>1, <2>3, <2>4
<1>11. run[DOMAIN seq] = f[m]
  <2> HIDE DEF run, seq
  <2> QED  BY <1>1
<1> HIDE DEF f, run, Eq
<1> QED  BY <1>2, <1>9, <1>10, <1>11

\* The loop that merges the lines of one age in the may update, step by step.
LEMMA SettleFold ==
  ASSUME NEW v \in Seq(Rec), NEW lo \in Nat \ {0}, NEW hi \in Nat, lo <= hi + 1, hi <= Len(v)
  PROVE  \E f : /\ f[0] = v
                /\ \A k \in 1 .. hi - lo + 1 : f[k] = Settle(f[k - 1], hi + 1 - k)
                /\ SettleUpTo(v, hi, lo) = f[hi - lo + 1]
<1> DEFINE seq == Downto(hi, lo)
           m == hi - lo + 1
           W == {w \in Seq(Rec) : Len(w) = Len(v)}
           g == [x \in (1 .. m) \X W |-> Settle(x[2], hi + 1 - x[1])]
           Eq(it) == it = [s \in SUBSET (DOMAIN seq) |->
                             IF s = {} THEN v
                             ELSE Settle(it[s \ {Max(s)}], seq[Max(s)])]
           run == CHOOSE it : Eq(it)
<1>1. /\ m \in Nat /\ DOMAIN seq = 1 .. m
      /\ \A k \in 1 .. m : seq[k] = hi + 1 - k /\ hi + 1 - k \in lo .. hi
  BY DEF Downto
<1>2. SettleUpTo(v, hi, lo) = run[DOMAIN seq]
  BY DEF SettleUpTo, FoldLeft, MapThenFoldSet
<1>3. v \in W
  OBVIOUS
<1>4. g \in [(1 .. m) \X W -> W]
  <2>1. ASSUME NEW x \in (1 .. m) \X W
        PROVE  Settle(x[2], hi + 1 - x[1]) \in W
    <3>1. x[1] \in 1 .. m /\ x[2] \in Seq(Rec) /\ Len(x[2]) = Len(v)
      OBVIOUS
    <3>2. hi + 1 - x[1] \in lo .. Len(x[2])
      BY <1>1, <3>1
    <3> QED  BY <3>1, <3>2, SettleMoves
  <2> HIDE DEF W, m
  <2> QED  BY <2>1
<1>51. PrefixFolds(m, W, v, g) # {}
  <2> HIDE DEF W, m, g
  <2> QED  BY <1>1, <1>3, <1>4, FoldOverPrefixes
<1>5. PICK it \in [SUBSET (1 .. m) -> W] :
        \A s \in SUBSET (1 .. m) :
          it[s] = IF s = {} THEN v ELSE g[<<Max(s), it[s \ {Max(s)}]>>]
  <2> HIDE DEF W, m, g
  <2> QED  BY <1>51 DEF PrefixFolds
<1>6. \A s \in SUBSET (1 .. m) : s # {} => Max(s) \in 1 .. m
  <2> SUFFICES ASSUME NEW s \in SUBSET (1 .. m), s # {} PROVE Max(s) \in 1 .. m
    OBVIOUS
  <2>1. IsFiniteSet(1 .. m) /\ 1 .. m \in SUBSET Int
    BY <1>1, Prefix
  <2>2. s \in SUBSET Int /\ IsFiniteSet(s)
    BY <2>1, FS_Subset
  <2> QED  BY <2>2, MaxMin
<1>7. Eq(it)
  <2>1. ASSUME NEW s \in SUBSET (1 .. m)
        PROVE  it[s] = IF s = {} THEN v ELSE Settle(it[s \ {Max(s)}], seq[Max(s)])
    <3>1. CASE s = {}
      BY <1>5, <3>1
    <3>2. CASE s # {}
      <4> DEFINE k == Max(s)
                 w == it[s \ {Max(s)}]
      <4>1. k \in 1 .. m /\ w \in W /\ it[s] = g[<<k, w>>]
        BY <1>5, <1>6, <3>2
      <4> HIDE DEF k, w
      <4>2. <<k, w>> \in (1 .. m) \X W
        BY <4>1
      <4>3. g[<<k, w>>] = Settle(w, hi + 1 - k)
        BY <4>2
      <4>4. seq[k] = hi + 1 - k
        BY <1>1, <4>1
      <4>5. it[s] = Settle(w, seq[k])
        BY <4>1, <4>3, <4>4
      <4> QED  BY <3>2, <4>5 DEF k, w
    <3> QED  BY <3>1, <3>2
  <2> HIDE DEF seq, m, W, g
  <2> QED  BY <1>1, <1>5, <2>1
<1>8. Eq(run)
  <2> HIDE DEF Eq
  <2> QED  BY <1>7
<1> DEFINE f == [k \in 0 .. m |-> run[1 .. k]]
<1>9. f[0] = v
  <2>1. 1 .. 0 = {} /\ {} \in SUBSET (DOMAIN seq) /\ 0 \in 0 .. m
    BY <1>1
  <2>2. run[{}] = v
    <3> HIDE DEF run, seq
    <3> QED  BY <1>8, <2>1
  <2> HIDE DEF run
  <2> QED  BY <2>1, <2>2
<1>10. ASSUME NEW k \in 1 .. m PROVE f[k] = Settle(f[k - 1], hi + 1 - k)
  <2>1. Max(1 .. k) = k /\ (1 .. k) \ {k} = 1 .. (k - 1)
    BY <1>1, Prefix
  <2>2. 1 .. k \in SUBSET (DOMAIN seq) /\ 1 .. k # {}
    <3>1. DOMAIN seq = 1 .. m /\ m \in Nat
      BY <1>1
    <3> HIDE DEF seq, m
    <3>2. k \in 1 .. k /\ 1 .. k \subseteq 1 .. m
      BY <3>1
    <3> QED  BY <3>1, <3>2
  <2>3. run[1 .. k] = Settle(run[1 .. (k - 1)], seq[k])
    <3> HIDE DEF run, seq
    <3>1. run[1 .. k] = Settle(run[(1 .. k) \ {Max(1 .. k)}], seq[Max(1 .. k)])
      BY <1>8, <2>2
    <3> QED  BY <2>1, <3>1
  <2>4. f[k] = run[1 .. k] /\ f[k - 1] = run[1 .. (k - 1)]
    BY <1>1
  <2> HIDE DEF f, run, seq
  <2> QED  BY <1>1, <2>3, <2>4
<1>11. run[DOMAIN seq] = f[m]
  <2> HIDE DEF run, seq
  <2> QED  BY <1>1
<1> HIDE DEF f, run, Eq
<1> QED  BY <1>2, <1>9, <1>10, <1>11

-----------------------------------------------------------------------------
\* Vectors and the sets of their entries.

\* A vector of the analyses: sorted, with one entry per tag.
Entries(v) == EntriesFrom(v, 1)
OneEntryPerTag(es) == \A x, y \in es : x.tag = y.tag => x = y
Vector(v) == v \in Seq(Rec) /\ SortedFrom(v, 1) /\ OneEntryPerTag(Entries(v))

\* The age of a tag in a vector; d when the vector does not hold it.
AgeIn(v, t, d) == LET pos == Position(v, t) IN IF pos = 0 THEN d ELSE v[pos].age

\* A vector by its indices and by its entries: these are the same, each tag is there once,
\* and the entries come in their order.
LEMMA VectorEntries ==
  ASSUME NEW v, Vector(v)
  PROVE  /\ v \in Seq(Rec) /\ Len(v) \in Nat /\ DOMAIN v = 1 .. Len(v)
         /\ \A i \in 1 .. Len(v) : /\ v[i] \in Rec /\ v[i] \in Entries(v)
                                   /\ v[i].tag \in Nat /\ v[i].age \in Nat
         /\ \A x \in Entries(v) : /\ x \in Rec /\ x.tag \in Nat /\ x.age \in Nat
                                  /\ x = EntryOf(x.tag, x.age)
                                  /\ \E i \in 1 .. Len(v) : x = v[i]
         /\ \A i, j \in 1 .. Len(v) : i < j => Precedes(v[i], v[j]) /\ v[i].age <= v[j].age
         /\ \A i, j \in 1 .. Len(v) : v[i].tag = v[j].tag => i = j
<1>1. v \in Seq(Rec) /\ Len(v) \in Nat /\ DOMAIN v = 1 .. Len(v)
  BY DEF Vector
<1>2. \A i \in 1 .. Len(v) : v[i] \in Rec /\ v[i] \in Entries(v)
  BY <1>1 DEF Entries, EntriesFrom
<1>3. \A x \in Entries(v) : x \in Rec /\ \E i \in 1 .. Len(v) : x = v[i]
  BY <1>1 DEF Entries, EntriesFrom
<1>4. \A x \in Rec : x.tag \in Nat /\ x.age \in Nat /\ x = EntryOf(x.tag, x.age)
  BY DEF Rec, EntryOf
<1>5. \A i, j \in 1 .. Len(v) : i < j => Precedes(v[i], v[j])
  BY DEF Vector, SortedFrom
<1>6. \A i, j \in 1 .. Len(v) : i < j => v[i].age <= v[j].age
  <2> TAKE i, j \in 1 .. Len(v)
  <2>1. v[i] \in Rec /\ v[j] \in Rec
    BY <1>2
  <2> QED  BY <1>5, <2>1, PrecedesOrders
<1>7. ASSUME NEW i \in 1 .. Len(v), NEW j \in 1 .. Len(v), v[i].tag = v[j].tag
      PROVE  i = j
  <2>1. v[i] = v[j] /\ v[i] \in Rec
    BY <1>2, <1>7 DEF Vector, OneEntryPerTag
  <2>2. ~ Precedes(v[i], v[j]) /\ ~ Precedes(v[j], v[i])
    BY <2>1, PrecedesOrders
  <2>3. i \in Int /\ j \in Int
    OBVIOUS
  <2> QED  BY <1>5, <2>2, <2>3
<1> QED  BY <1>1, <1>2, <1>3, <1>4, <1>5, <1>6, <1>7

\* Position finds the only entry of a tag.
LEMMA PositionFinds ==
  ASSUME NEW v, Vector(v), NEW t
  PROVE  /\ TagsOf(v) = {x.tag : x \in Entries(v)}
         /\ t \in TagsOf(v) => /\ Position(v, t) \in 1 .. Len(v)
                               /\ v[Position(v, t)].tag = t
         /\ t \notin TagsOf(v) => Position(v, t) = 0
<1> DEFINE found == {i \in DOMAIN v : v[i].tag = t}
<1>1. Len(v) \in Nat /\ DOMAIN v = 1 .. Len(v)
  BY VectorEntries
<1>2. TagsOf(v) = {x.tag : x \in Entries(v)}
  BY <1>1 DEF TagsOf, Entries, EntriesFrom
<1>3. Position(v, t) = IF found = {} THEN 0 ELSE Min(found)
  BY DEF Position
<1>4. t \in TagsOf(v) <=> found # {}
  BY DEF TagsOf
<1>5. found # {} => Min(found) \in found
  <2>1. IsFiniteSet(1 .. Len(v)) /\ 1 .. Len(v) \in SUBSET Int
    BY <1>1, FS_Interval
  <2>2. found \in SUBSET Int /\ IsFiniteSet(found)
    BY <1>1, <2>1, FS_Subset
  <2> HIDE DEF found
  <2> QED  BY <2>2, MaxMin
<1>6. found \subseteq 1 .. Len(v) /\ \A i \in found : v[i].tag = t
  BY <1>1
<1> HIDE DEF found
<1> QED  BY <1>2, <1>3, <1>4, <1>5, <1>6

\* Looking a tag up.
LEMMA Lookup ==
  ASSUME NEW v, Vector(v), NEW t, NEW d
  PROVE  /\ t \in TagsOf(v) => /\ AgeIn(v, t, d) \in Nat /\ t \in Nat
                               /\ EntryOf(t, AgeIn(v, t, d)) \in Entries(v)
         /\ t \notin TagsOf(v) => AgeIn(v, t, d) = d
         /\ \A x \in Entries(v) : x.tag \in TagsOf(v)
         /\ \A x \in Entries(v) : x.tag = t => x.age = AgeIn(v, t, d)
<1> DEFINE pos == Position(v, t)
<1>1. /\ t \in TagsOf(v) => pos \in 1 .. Len(v) /\ v[pos].tag = t
      /\ t \notin TagsOf(v) => pos = 0
      /\ TagsOf(v) = {x.tag : x \in Entries(v)}
  BY PositionFinds
<1>2. AgeIn(v, t, d) = IF pos = 0 THEN d ELSE v[pos].age
  BY DEF AgeIn
<1> HIDE DEF pos
<1>3. ASSUME t \in TagsOf(v)
      PROVE  /\ AgeIn(v, t, d) \in Nat /\ t \in Nat
             /\ EntryOf(t, AgeIn(v, t, d)) \in Entries(v)
             /\ v[pos].age = AgeIn(v, t, d) /\ v[pos] \in Entries(v) /\ v[pos].tag = t
  <2>1. pos \in 1 .. Len(v) /\ v[pos].tag = t
    BY <1>1, <1>3
  <2>2. v[pos] \in Entries(v) /\ v[pos] \in Rec /\ v[pos].age \in Nat /\ v[pos].tag \in Nat
    BY <2>1, VectorEntries
  <2>3. v[pos] = EntryOf(v[pos].tag, v[pos].age)
    BY <2>2, VectorEntries
  <2>4. AgeIn(v, t, d) = v[pos].age
    BY <1>2, <2>1
  <2> QED  BY <2>1, <2>2, <2>3, <2>4
<1>4. ASSUME NEW x \in Entries(v), x.tag = t PROVE x.age = AgeIn(v, t, d)
  <2>1. t \in TagsOf(v)
    BY <1>1, <1>4
  <2>2. v[pos] \in Entries(v) /\ v[pos].tag = x.tag /\ v[pos].age = AgeIn(v, t, d)
    BY <1>3, <1>4, <2>1
  <2>3. x = v[pos]
    BY <2>2 DEF Vector, OneEntryPerTag
  <2> QED  BY <2>2, <2>3
<1> QED  BY <1>1, <1>2, <1>3, <1>4

\* The entries determine the vector.
LEMMA EntriesDetermine ==
  ASSUME NEW x, Vector(x), NEW y, Vector(y), Entries(x) = Entries(y)
  PROVE  x = y
<1> DEFINE Same(i) == i \in 1 .. Len(x) /\ i \in 1 .. Len(y) /\ x[i] = y[i]
           Off(i) == (i \in 1 .. Len(x) \/ i \in 1 .. Len(y)) /\ ~ Same(i)
           S == {n \in Nat : \A i \in 1 .. n : ~ Off(i)}
<1>1. /\ x \in Seq(Rec) /\ y \in Seq(Rec) /\ Len(x) \in Nat /\ Len(y) \in Nat
      /\ DOMAIN x = 1 .. Len(x) /\ DOMAIN y = 1 .. Len(y)
      /\ \A i \in 1 .. Len(x) : x[i] \in Rec /\ x[i] \in Entries(x)
      /\ \A i \in 1 .. Len(y) : y[i] \in Rec /\ y[i] \in Entries(y)
      /\ \A i, j \in 1 .. Len(x) : i < j => Precedes(x[i], x[j])
      /\ \A i, j \in 1 .. Len(y) : i < j => Precedes(y[i], y[j])
  BY VectorEntries
<1>2. ASSUME NEW n \in Nat, \A i \in 1 .. n : ~ Off(i), Off(n + 1)
      PROVE  FALSE
  <2> DEFINE m == n + 1
  <2>0. m \in Nat \ {0} /\ \A i \in 1 .. m : i # m => i \in 1 .. n
    OBVIOUS
  <2> HIDE DEF m
  <2>1. ASSUME m \in 1 .. Len(x)
        PROVE  \E j \in 1 .. Len(y) : m <= j /\ x[m] = y[j]
    <3>1. PICK j \in 1 .. Len(y) : x[m] = y[j]
      BY <1>1, <2>1 DEF Entries, EntriesFrom
    <3>2. ASSUME j < m PROVE FALSE
      <4>1. j \in 1 .. n /\ ~ Off(j)
        BY <1>2, <2>0, <3>2
      <4>2. x[j] = y[j] /\ j \in 1 .. Len(x)
        BY <4>1
      <4>3. Precedes(x[j], x[m]) /\ x[j] = x[m] /\ x[j] \in Rec
        BY <1>1, <2>1, <3>1, <3>2, <4>2
      <4> QED  BY <4>3, PrecedesOrders
    <3> QED  BY <2>0, <3>1, <3>2
  <2>2. ASSUME m \in 1 .. Len(y)
        PROVE  \E j \in 1 .. Len(x) : m <= j /\ y[m] = x[j]
    <3>1. PICK j \in 1 .. Len(x) : y[m] = x[j]
      BY <1>1, <2>2 DEF Entries, EntriesFrom
    <3>2. ASSUME j < m PROVE FALSE
      <4>1. j \in 1 .. n /\ ~ Off(j)
        BY <1>2, <2>0, <3>2
      <4>2. x[j] = y[j] /\ j \in 1 .. Len(y)
        BY <4>1
      <4>3. Precedes(y[j], y[m]) /\ y[j] = y[m] /\ y[j] \in Rec
        BY <1>1, <2>2, <3>1, <3>2, <4>2
      <4> QED  BY <4>3, PrecedesOrders
    <3> QED  BY <2>0, <3>1, <3>2
  <2>3. m \in 1 .. Len(x) /\ m \in 1 .. Len(y)
    BY <1>1, <1>2, <2>0, <2>1, <2>2 DEF m
  <2>4. PICK j \in 1 .. Len(y) : m <= j /\ x[m] = y[j]
    BY <2>1, <2>3
  <2>5. PICK k \in 1 .. Len(x) : m <= k /\ y[m] = x[k]
    BY <2>2, <2>3
  <2>6. x[m] # y[m]
    BY <1>2, <2>3 DEF m
  <2>7. m < j /\ m < k
    BY <2>0, <2>4, <2>5, <2>6
  <2>8. Precedes(y[m], y[j]) /\ Precedes(x[m], x[k]) /\ y[m] \in Rec /\ x[m] \in Rec
    BY <1>1, <2>3, <2>7
  <2> QED  BY <2>4, <2>5, <2>8, PrecedesOrders
<1>3. \A n \in Nat : n \in S
  <2>1. 0 \in S
    OBVIOUS
  <2>2. ASSUME NEW n \in Nat, n \in S PROVE n + 1 \in S
    <3>1. \A i \in 1 .. n : ~ Off(i)
      BY <2>2
    <3> HIDE DEF Off
    <3>2. ~ Off(n + 1)
      BY <1>2, <3>1
    <3>3. \A i \in 1 .. n + 1 : i \in 1 .. n \/ i = n + 1
      OBVIOUS
    <3> QED  BY <3>1, <3>2, <3>3
  <2> HIDE DEF S
  <2> QED  BY <2>1, <2>2, NaturalInduction
<1>4. \A i \in Nat \ {0} : ~ Off(i)
  <2> TAKE i \in Nat \ {0}
  <2>1. i \in S /\ i \in 1 .. i
    BY <1>3
  <2> HIDE DEF Off
  <2> QED  BY <2>1
<1>5. Len(x) = Len(y)
  <2>1. ASSUME Len(x) < Len(y) PROVE FALSE
    <3>1. Len(y) \in 1 .. Len(y) /\ Len(y) \in Nat \ {0} /\ Len(y) \notin 1 .. Len(x)
      BY <1>1, <2>1
    <3> QED  BY <1>4, <3>1
  <2>2. ASSUME Len(y) < Len(x) PROVE FALSE
    <3>1. Len(x) \in 1 .. Len(x) /\ Len(x) \in Nat \ {0} /\ Len(x) \notin 1 .. Len(y)
      BY <1>1, <2>2
    <3> QED  BY <1>4, <3>1
  <2>3. Len(x) \in Nat /\ Len(y) \in Nat
    BY <1>1
  <2> QED  BY <2>1, <2>2, <2>3
<1>6. \A i \in 1 .. Len(x) : x[i] = y[i]
  <2> TAKE i \in 1 .. Len(x)
  <2>1. i \in Nat \ {0}
    BY <1>1
  <2> QED  BY <1>4, <2>1
<1> QED  BY <1>1, <1>5, <1>6, SeqEqual

\* A vector sorted by hand is a vector when no tag is held twice.
LEMMA VectorFrom ==
  ASSUME NEW v \in Seq(Rec), SortedFrom(v, 1), NEW es, Entries(v) = es, OneEntryPerTag(es)
  PROVE  Vector(v)
BY DEF Vector

\* Entries that age together stay in order.
LEMMA PrecedesAged ==
  ASSUME NEW x \in Rec, NEW y \in Rec, Precedes(x, y)
  PROVE  Precedes(EntryOf(x.tag, x.age + 1), EntryOf(y.tag, y.age + 1))
<1> DEFINE a == x.tag
           b == x.age
           c == y.tag
           d == y.age
<1>1. a \in Nat /\ b \in Nat /\ c \in Nat /\ d \in Nat /\ (b < d \/ (b = d /\ a < c))
  BY DEF Precedes, Rec
<1> HIDE DEF a, b, c, d
<1>2. Precedes(EntryOf(a, b + 1), EntryOf(c, d + 1))
  BY <1>1 DEF Precedes, EntryOf
<1> QED  BY <1>2 DEF a, b, c, d

\* The entries that are younger than n are a prefix of the vector.
LEMMA YoungerEntries ==
  ASSUME NEW v, Vector(v), NEW n \in Nat
  PROVE  /\ YoungerThan(v, n) \in Seq(Rec) /\ Vector(YoungerThan(v, n))
         /\ Len(YoungerThan(v, n)) \in 0 .. Len(v)
         /\ \A k \in 1 .. Len(YoungerThan(v, n)) :
              YoungerThan(v, n)[k] = v[k] /\ v[k].age < n
         /\ Entries(YoungerThan(v, n)) = {x \in Entries(v) : x.age < n}
<1> DEFINE L == {0} \cup {i \in DOMAIN v : v[i].age < n}
           m == Max(L)
           y == YoungerThan(v, n)
<1>1. /\ v \in Seq(Rec) /\ Len(v) \in Nat /\ DOMAIN v = 1 .. Len(v)
      /\ \A i \in 1 .. Len(v) : v[i] \in Rec /\ v[i].age \in Nat /\ v[i] \in Entries(v)
      /\ \A x \in Entries(v) : \E i \in 1 .. Len(v) : x = v[i]
      /\ \A i, j \in 1 .. Len(v) : i < j => Precedes(v[i], v[j]) /\ v[i].age <= v[j].age
  BY VectorEntries
<1>2. m \in L /\ \A j \in L : j <= m
  <2>1. IsFiniteSet(0 .. Len(v)) /\ 0 .. Len(v) \in SUBSET Int
    BY <1>1, FS_Interval
  <2>2. L \subseteq 0 .. Len(v) /\ 0 \in L
    BY <1>1
  <2>3. IsFiniteSet(L) /\ L \in SUBSET Int /\ L # {}
    BY <2>1, <2>2, FS_Subset
  <2> HIDE DEF L
  <2> QED  BY <2>3, MaxMin
<1>3. m \in 0 .. Len(v) /\ \A i \in 1 .. Len(v) : v[i].age < n => i <= m
  BY <1>1, <1>2
<1>4. \A i \in 1 .. m : i \in 1 .. Len(v) /\ v[i].age < n
  <2> SUFFICES ASSUME NEW i \in 1 .. m PROVE i \in 1 .. Len(v) /\ v[i].age < n
    OBVIOUS
  <2>1. i \in 1 .. Len(v) /\ m \in 1 .. Len(v) /\ m # 0
    BY <1>1, <1>3
  <2>2. v[m].age < n
    <3> HIDE DEF m
    <3> QED  BY <1>2, <2>1
  <2>3. v[i].age <= v[m].age /\ v[i].age \in Nat /\ v[m].age \in Nat
    <3> HIDE DEF m
    <3>1. i = m \/ i < m
      BY <1>3
    <3> QED  BY <1>1, <2>1, <3>1
  <2> HIDE DEF m
  <2> QED  BY <2>1, <2>2, <2>3
<1>5. y = SubSeq(v, 1, m)
  BY DEF YoungerThan
<1> HIDE DEF m, L, y
<1>6. y \in Seq(Rec) /\ Len(y) = m /\ \A k \in 1 .. m : y[k] = v[k]
  BY <1>1, <1>3, <1>5
<1>7. Entries(y) = {x \in Entries(v) : x.age < n}
  <2>1. ASSUME NEW x \in Entries(y) PROVE x \in Entries(v) /\ x.age < n
    <3>1. PICK k \in 1 .. m : x = y[k]
      BY <1>6, <2>1 DEF Entries, EntriesFrom
    <3> QED  BY <1>1, <1>4, <1>6, <3>1
  <2>2. ASSUME NEW x \in Entries(v), x.age < n PROVE x \in Entries(y)
    <3>1. PICK i \in 1 .. Len(v) : x = v[i]
      BY <1>1
    <3>2. i \in 1 .. m
      BY <1>3, <2>2, <3>1
    <3> QED  BY <1>6, <3>1, <3>2 DEF Entries, EntriesFrom
  <2> QED  BY <2>1, <2>2
<1>8. SortedFrom(y, 1)
  <2>1. ASSUME NEW j \in 1 .. m, NEW k \in 1 .. m, j < k PROVE Precedes(y[j], y[k])
    <3>1. j \in 1 .. Len(v) /\ k \in 1 .. Len(v) /\ y[j] = v[j] /\ y[k] = v[k]
      BY <1>4, <1>6
    <3> QED  BY <1>1, <2>1, <3>1
  <2> QED  BY <1>6, <2>1 DEF SortedFrom
<1>9. OneEntryPerTag(Entries(y))
  BY <1>7 DEF Vector, OneEntryPerTag
<1>10. Vector(y)
  BY <1>6, <1>8, <1>9 DEF Vector
<1> QED  BY <1>3, <1>4, <1>6, <1>7, <1>10 DEF y

\* All entries one age older.
LEMMA AgedEntries ==
  ASSUME NEW v, Vector(v)
  PROVE  /\ AgeBy(v, 1) \in Seq(Rec) /\ Vector(AgeBy(v, 1)) /\ Len(AgeBy(v, 1)) = Len(v)
         /\ \A k \in 1 .. Len(v) : AgeBy(v, 1)[k] = EntryOf(v[k].tag, v[k].age + 1)
         /\ Entries(AgeBy(v, 1)) = {EntryOf(x.tag, x.age + 1) : x \in Entries(v)}
<1> DEFINE w == AgeBy(v, 1)
<1>1. /\ v \in Seq(Rec) /\ Len(v) \in Nat /\ DOMAIN v = 1 .. Len(v)
      /\ \A i \in 1 .. Len(v) : v[i] \in Rec /\ v[i].age \in Nat /\ v[i].tag \in Nat
      /\ \A i, j \in 1 .. Len(v) : i < j => Precedes(v[i], v[j])
      /\ \A i \in 1 .. Len(v) : v[i] \in Entries(v)
      /\ \A x \in Entries(v) : /\ x.tag \in Nat /\ x.age \in Nat
                               /\ \E i \in 1 .. Len(v) : x = v[i]
  BY VectorEntries
<1>2. w = [i \in 1 .. Len(v) |-> EntryOf(v[i].tag, v[i].age + 1)]
  BY <1>1 DEF AgeBy
<1>3. \A i \in 1 .. Len(v) : EntryOf(v[i].tag, v[i].age + 1) \in Rec
  <2> TAKE i \in 1 .. Len(v)
  <2>1. v[i].tag \in Nat /\ v[i].age + 1 \in Nat
    BY <1>1
  <2> QED  BY <2>1, EntryIsRec
<1>4. w \in Seq(Rec) /\ Len(w) = Len(v)
      /\ \A k \in 1 .. Len(v) : w[k] = EntryOf(v[k].tag, v[k].age + 1)
  BY <1>1, <1>2, <1>3
<1> HIDE DEF w
<1>5. Entries(w) = {EntryOf(x.tag, x.age + 1) : x \in Entries(v)}
  <2>1. ASSUME NEW e \in Entries(w)
        PROVE  \E x \in Entries(v) : e = EntryOf(x.tag, x.age + 1)
    <3>1. PICK k \in 1 .. Len(v) : e = w[k]
      BY <1>4, <2>1 DEF Entries, EntriesFrom
    <3> QED  BY <1>1, <1>4, <3>1
  <2>2. ASSUME NEW x \in Entries(v) PROVE EntryOf(x.tag, x.age + 1) \in Entries(w)
    <3>1. PICK k \in 1 .. Len(v) : x = v[k]
      BY <1>1
    <3>2. EntryOf(x.tag, x.age + 1) = w[k]
      BY <1>4, <3>1
    <3> QED  BY <1>4, <3>2 DEF Entries, EntriesFrom
  <2> QED  BY <2>1, <2>2
<1>6. SortedFrom(w, 1)
  <2>1. ASSUME NEW j \in 1 .. Len(v), NEW k \in 1 .. Len(v), j < k PROVE Precedes(w[j], w[k])
    <3>1. /\ v[j].tag \in Nat /\ v[j].age \in Nat /\ v[k].tag \in Nat /\ v[k].age \in Nat
          /\ Precedes(v[j], v[k])
      BY <1>1, <2>1
    <3>2. /\ w[j] = EntryOf(v[j].tag, v[j].age + 1)
          /\ w[k] = EntryOf(v[k].tag, v[k].age + 1)
      BY <1>4
    <3>3. Precedes(EntryOf(v[j].tag, v[j].age + 1), EntryOf(v[k].tag, v[k].age + 1))
      <4>1. v[j] \in Rec /\ v[k] \in Rec /\ Precedes(v[j], v[k])
        BY <1>1, <3>1
      <4> QED  BY <4>1, PrecedesAged
    <3> QED  BY <3>2, <3>3
  <2> QED  BY <1>4, <2>1 DEF SortedFrom
<1>7. OneEntryPerTag(Entries(w))
  <2>1. ASSUME NEW x \in Entries(v), NEW y \in Entries(v),
               EntryOf(x.tag, x.age + 1).tag = EntryOf(y.tag, y.age + 1).tag
        PROVE  x = y
    <3>1. x.tag \in Nat /\ y.tag \in Nat /\ x.age + 1 \in Nat /\ y.age + 1 \in Nat
      BY <1>1
    <3>2. x.tag = y.tag
      BY <2>1, <3>1, EntryIsRec
    <3> QED  BY <3>2 DEF Vector, OneEntryPerTag
  <2>2. ASSUME NEW e \in Entries(w), NEW f \in Entries(w), e.tag = f.tag PROVE e = f
    <3>1. PICK x \in Entries(v) : e = EntryOf(x.tag, x.age + 1)
      BY <1>5
    <3>2. PICK y \in Entries(v) : f = EntryOf(y.tag, y.age + 1)
      BY <1>5
    <3>3. x = y
      BY <2>1, <2>2, <3>1, <3>2
    <3> QED  BY <3>1, <3>2, <3>3
  <2> QED  BY <2>2 DEF OneEntryPerTag
<1> QED  BY <1>4, <1>5, <1>6, <1>7 DEF Vector, w

\* A new youngest line is put in front.
LEMMA FrontEntries ==
  ASSUME NEW v \in Seq(Rec), SortedFrom(v, 1), NEW t \in Nat, NEW es, Entries(v) = es,
         OneEntryPerTag(es), \A x \in es : x.age > 0 /\ x.tag # t
  PROVE  LET w == <<EntryOf(t, 0)>> \o v
         IN  /\ w \in Seq(Rec) /\ Vector(w) /\ Len(w) = Len(v) + 1
             /\ w[1] = EntryOf(t, 0) /\ \A k \in 1 .. Len(v) : w[k + 1] = v[k]
             /\ Entries(w) = {EntryOf(t, 0)} \cup es
<1> DEFINE f == EntryOf(t, 0)
           w == <<f>> \o v
<1>0. Len(v) \in Nat /\ \A k \in 1 .. Len(v) : v[k] \in Rec /\ v[k] \in es
  BY DEF Entries, EntriesFrom
<1>1. f \in Rec /\ f.tag = t /\ f.age = 0
  BY EntryIsRec
<1> HIDE DEF f
<1>2. /\ w \in Seq(Rec) /\ Len(w) = Len(v) + 1
      /\ w[1] = f /\ \A k \in 1 .. Len(v) : w[k + 1] = v[k]
  <2>1. <<f>> \in Seq(Rec) /\ Len(<<f>>) = 1 /\ <<f>>[1] = f
    BY <1>1
  <2>2. /\ w \in Seq(Rec) /\ Len(w) = 1 + Len(v)
        /\ \A k \in 1 .. 1 + Len(v) : w[k] = IF k <= 1 THEN <<f>>[k] ELSE v[k - 1]
    BY <2>1, ConcatProperties
  <2>3. w[1] = f
    BY <1>0, <2>1, <2>2
  <2>4. ASSUME NEW k \in 1 .. Len(v) PROVE w[k + 1] = v[k]
    <3>1. k + 1 \in 1 .. 1 + Len(v) /\ ~ (k + 1 <= 1) /\ (k + 1) - 1 = k
      BY <1>0
    <3> QED  BY <2>2, <3>1
  <2> QED  BY <1>0, <2>2, <2>3, <2>4
<1> HIDE DEF w
<1>3. \A k \in 1 .. Len(w) : k = 1 \/ (k - 1 \in 1 .. Len(v) /\ w[k] = v[k - 1])
  <2> TAKE k \in 1 .. Len(w)
  <2>1. k = 1 \/ (k - 1 \in 1 .. Len(v) /\ (k - 1) + 1 = k)
    BY <1>0, <1>2
  <2> QED  BY <1>2, <2>1
<1>4. SortedFrom(w, 1)
  <2> SUFFICES ASSUME NEW j \in 1 .. Len(w), NEW k \in 1 .. Len(w), j < k
               PROVE  Precedes(w[j], w[k])
    BY DEF SortedFrom
  <2>0. k # 1 /\ k - 1 \in 1 .. Len(v) /\ w[k] = v[k - 1]
    BY <1>0, <1>2, <1>3
  <2>1. CASE j = 1
    <3>1. w[j].age = 0 /\ w[k].age > 0
      BY <1>0, <1>1, <1>2, <2>0, <2>1
    <3> QED  BY <3>1 DEF Precedes
  <2>2. CASE j # 1
    <3>1. j - 1 \in 1 .. Len(v) /\ w[j] = v[j - 1] /\ j - 1 < k - 1
      BY <1>0, <1>2, <1>3, <2>2
    <3> QED  BY <2>0, <3>1 DEF SortedFrom
  <2> QED  BY <2>1, <2>2
<1>5. Entries(w) = {f} \cup es
  <2>1. ASSUME NEW e \in Entries(w) PROVE e \in {f} \cup es
    <3>1. PICK k \in 1 .. Len(w) : e = w[k]
      BY <2>1 DEF Entries, EntriesFrom
    <3> QED  BY <1>0, <1>2, <1>3, <3>1
  <2>2. f \in Entries(w)
    <3>1. 1 \in 1 .. Len(w)
      BY <1>0, <1>2
    <3> QED  BY <1>2, <3>1 DEF Entries, EntriesFrom
  <2>3. ASSUME NEW e \in es PROVE e \in Entries(w)
    <3>1. PICK k \in 1 .. Len(v) : e = v[k]
      BY <2>3 DEF Entries, EntriesFrom
    <3>2. k + 1 \in 1 .. Len(w) /\ w[k + 1] = e
      BY <1>0, <1>2, <3>1
    <3> QED  BY <3>2 DEF Entries, EntriesFrom
  <2> QED  BY <2>1, <2>2, <2>3
<1>6. OneEntryPerTag(Entries(w))
  BY <1>1, <1>5 DEF OneEntryPerTag
<1> QED  BY <1>2, <1>4, <1>5, <1>6 DEF Vector, w, f

\* Before the others of the vector comes one more.
LEMMA OneMoreEntry ==
  ASSUME NEW w \in Seq(Rec), NEW i \in 1 .. Len(w)
  PROVE  /\ EntriesFrom(w, i) = {w[i]} \cup EntriesFrom(w, i + 1)
         /\ SortedFrom(w, i + 1) /\ (\A k \in i + 1 .. Len(w) : Precedes(w[i], w[k]))
              => SortedFrom(w, i)
<1>0. i \in Nat /\ Len(w) \in Nat
  OBVIOUS
<1>1. i .. Len(w) = {i} \cup (i + 1 .. Len(w))
  BY <1>0
<1>2. EntriesFrom(w, i) = {w[i]} \cup EntriesFrom(w, i + 1)
  BY <1>1 DEF EntriesFrom
<1>3. ASSUME SortedFrom(w, i + 1), \A k \in i + 1 .. Len(w) : Precedes(w[i], w[k])
      PROVE  SortedFrom(w, i)
  <2> SUFFICES ASSUME NEW j \in i .. Len(w), NEW k \in i .. Len(w), j < k
               PROVE  Precedes(w[j], w[k])
    BY DEF SortedFrom
  <2>1. k \in i + 1 .. Len(w) /\ (j = i \/ j \in i + 1 .. Len(w))
    BY <1>0
  <2> QED  BY <1>3, <2>1 DEF SortedFrom
<1> QED  BY <1>2, <1>3

\* What becomes of a line that an access to a line of age n may overtake.
Overtaken(x, n) == IF x.age < n THEN EntryOf(x.tag, x.age + 1) ELSE x

\* Aging all entries younger than n keeps them in order.
LEMMA OvertakenKeepsOrder ==
  ASSUME NEW x \in Rec, NEW n \in Nat
  PROVE  /\ Overtaken(x, n) \in Rec /\ Overtaken(x, n).tag = x.tag
         /\ Overtaken(x, n).age = IF x.age < n THEN x.age + 1 ELSE x.age
         /\ x.tag \in Nat /\ x.age \in Nat
         /\ \A y \in Rec : x.age <= y.age => Overtaken(x, n).age <= Overtaken(y, n).age
         /\ \A y \in Rec : Precedes(x, y) /\ Overtaken(x, n).age < n =>
              Precedes(Overtaken(x, n), Overtaken(y, n))
<1> USE DEF Overtaken
<1>1. \A y \in Rec : /\ y.tag \in Nat /\ y.age \in Nat
                     /\ Overtaken(y, n) \in Rec /\ Overtaken(y, n).tag = y.tag
                     /\ Overtaken(y, n).age = IF y.age < n THEN y.age + 1 ELSE y.age
  <2> TAKE y \in Rec
  <2>1. y.tag \in Nat /\ y.age \in Nat
    BY DEF Rec
  <2>2. EntryOf(y.tag, y.age + 1) \in Rec /\ EntryOf(y.tag, y.age + 1).tag = y.tag
        /\ EntryOf(y.tag, y.age + 1).age = y.age + 1
    BY <2>1, EntryIsRec
  <2> QED  BY <2>1, <2>2
<1>2. ASSUME NEW y \in Rec, x.age <= y.age PROVE Overtaken(x, n).age <= Overtaken(y, n).age
  <2> HIDE DEF Overtaken
  <2> QED  BY <1>1, <1>2
<1>3. ASSUME NEW y \in Rec, Precedes(x, y), Overtaken(x, n).age < n
      PROVE  Precedes(Overtaken(x, n), Overtaken(y, n))
  <2>1. x.age < n
    BY <1>1, <1>3
  <2>2. CASE y.age < n
    BY <1>3, <2>1, <2>2, PrecedesAged
  <2>3. CASE ~ (y.age < n)
    <3>1. Overtaken(y, n).age = y.age /\ y.age \in Nat
      BY <1>1, <2>3
    <3>2. Overtaken(x, n).age \in Nat
      BY <1>1
    <3> HIDE DEF Overtaken
    <3>3. Overtaken(x, n).age < Overtaken(y, n).age
      BY <1>3, <2>3, <3>1, <3>2
    <3> QED  BY <3>3 DEF Precedes
  <2> QED  BY <2>2, <2>3
<1> HIDE DEF Overtaken
<1> QED  BY <1>1, <1>2, <1>3

-----------------------------------------------------------------------------
\* The vector that the must update shifts: before the last entry are the lines that may be
\* overtaken, behind it those that are not.
Shiftable(w, last, n) ==
  /\ w \in Seq(Rec) /\ last \in 1 .. Len(w) /\ n \in Nat
  /\ \A j, k \in 1 .. last - 1 : j < k => Precedes(w[j], w[k])
  /\ \A k \in 1 .. last - 1 : w[k].age <= n
  /\ SortedFrom(w, last + 1)
  /\ \A k \in last + 1 .. Len(w) : n <= w[k].age
  /\ \A j, k \in (1 .. Len(w)) \ {last} : w[j].tag = w[k].tag => j = k

\* The entries from i on have been shifted.
Shifted(w, last, n, u, i) ==
  /\ u \in Seq(Rec) /\ Len(u) = Len(w)
  /\ \A k \in 1 .. i - 1 : u[k] = w[k]
  /\ SortedFrom(u, i)
  /\ EntriesFrom(u, i) = {Overtaken(w[k], n) : k \in i - 1 .. last - 1}
                           \cup {w[k] : k \in last + 1 .. Len(w)}
  /\ \A k \in i .. last : u[k].age = Overtaken(w[k - 1], n).age
  /\ \A k \in last + 1 .. Len(w) : u[k].age = w[k].age

\* One iteration of shiftInto(): the entry before h is aged and moved to h, where it may
\* have to go behind entries of its new age.
LEMMA ShiftStep ==
  ASSUME NEW w, NEW last, NEW n, Shiftable(w, last, n),
         NEW h \in 2 .. last, NEW u, Shifted(w, last, n, u, h + 1)
  PROVE  Shifted(w, last, n, ShiftInto(u, h, n), h)
<1> DEFINE x == w[h - 1]
           y == Overtaken(x, n)
           moved == [u EXCEPT ![h] = y]
           new == ShiftInto(u, h, n)
<1>0. /\ w \in Seq(Rec) /\ last \in Nat /\ last \in 1 .. Len(w) /\ n \in Nat /\ Len(w) \in Nat
      /\ h \in Nat /\ h - 1 \in 1 .. last - 1 /\ h - 1 \in 1 .. Len(w) /\ h \in 1 .. Len(w)
      /\ \A k \in 1 .. Len(w) : w[k] \in Rec
  BY DEF Shiftable
<1>1. u \in Seq(Rec) /\ Len(u) = Len(w) /\ u[h - 1] = x /\ x \in Rec
  BY <1>0 DEF Shifted
<1>2. y \in Rec /\ y.tag = x.tag /\ y.age = (IF x.age < n THEN x.age + 1 ELSE x.age)
      /\ x.tag \in Nat /\ x.age \in Nat
  BY <1>0, <1>1, OvertakenKeepsOrder
<1>3. new = IF y.age = n THEN Settle(moved, h) ELSE moved
  <2> DEFINE older == IF u[h - 1].age < n THEN u[h - 1].age + 1 ELSE u[h - 1].age
  <2>1. older = y.age
    BY <1>1, <1>2
  <2>2. EntryOf(u[h - 1].tag, older) = y
    <3>1. EntryOf(x.tag, y.age) = y
      BY <1>2 DEF EntryOf, Rec
    <3> QED  BY <1>1, <2>1, <3>1
  <2>3. new = LET m == [u EXCEPT ![h] = EntryOf(u[h - 1].tag, older)]
              IN  IF older = n THEN Settle(m, h) ELSE m
    BY DEF ShiftInto
  <2> HIDE DEF older, y, x
  <2> QED  BY <2>1, <2>2, <2>3
<1>4. /\ moved \in Seq(Rec) /\ Len(moved) = Len(w) /\ moved[h] = y
      /\ \A k \in 1 .. Len(w) : k # h => moved[k] = u[k]
  BY <1>0, <1>1, <1>2, ExceptSeq
<1> HIDE DEF new, moved, y, x
<1>5. /\ \A k \in h + 1 .. Len(w) : moved[k] = u[k] /\ k \in 1 .. Len(w)
      /\ \A k \in 1 .. h - 1 : moved[k] = w[k] /\ k \in 1 .. Len(w)
  <2>1. \A k \in h + 1 .. Len(w) : k # h /\ k \in 1 .. Len(w)
    BY <1>0
  <2>2. \A k \in 1 .. h - 1 : k # h /\ k \in 1 .. Len(w) /\ k \in 1 .. (h + 1) - 1
    BY <1>0
  <2>3. \A k \in 1 .. (h + 1) - 1 : u[k] = w[k]
    BY DEF Shifted
  <2> QED  BY <1>4, <2>1, <2>2, <2>3
<1>6. EntriesFrom(moved, h + 1) = EntriesFrom(u, h + 1) /\ SortedFrom(moved, h + 1)
  BY <1>1, <1>4, <1>5 DEF EntriesFrom, SortedFrom, Shifted
<1>7. ASSUME NEW k \in h + 1 .. Len(w)
      PROVE  /\ moved[k] \in Rec
             /\ y.age <= moved[k].age /\ y.tag # moved[k].tag
             /\ y.age # n => Precedes(y, moved[k])
  <2>0. k \in 1 .. Len(w) /\ x.age <= n /\ y.age <= n
    <3>1. x.age <= n
      BY <1>0 DEF Shiftable, x
    <3> QED  BY <1>0, <1>2, <3>1
  <2>1. moved[k] \in EntriesFrom(u, h + 1) /\ moved[k] \in Rec
    <3>1. moved[k] \in EntriesFrom(moved, h + 1)
      BY <1>4 DEF EntriesFrom
    <3>2. moved[k] \in Rec
      BY <1>4, <2>0
    <3> QED  BY <1>6, <3>1, <3>2
  <2>2. \/ \E m \in (h + 1) - 1 .. last - 1 : moved[k] = Overtaken(w[m], n)
        \/ \E m \in last + 1 .. Len(w) : moved[k] = w[m]
    BY <2>1 DEF Shifted
  <2>3. ASSUME NEW m \in (h + 1) - 1 .. last - 1, moved[k] = Overtaken(w[m], n)
        PROVE  /\ y.age <= moved[k].age /\ y.tag # moved[k].tag
               /\ y.age # n => Precedes(y, moved[k])
    <3>1. /\ m \in 1 .. last - 1 /\ m \in (1 .. Len(w)) \ {last} /\ w[m] \in Rec
          /\ h - 1 < m /\ h - 1 # m /\ h - 1 \in (1 .. Len(w)) \ {last}
      BY <1>0
    <3>2. Precedes(x, w[m]) /\ x.tag # w[m].tag
      BY <1>0, <3>1 DEF Shiftable, x
    <3>3. x.age <= w[m].age
      BY <1>1, <3>1, <3>2, PrecedesOrders
    <3> DEFINE z == w[m]
    <3>0. n \in Nat /\ x \in Rec /\ z \in Rec /\ x.age <= z.age /\ Precedes(x, z)
      BY <1>0, <1>1, <3>1, <3>2, <3>3
    <3> HIDE DEF z
    <3>4. moved[k].tag = w[m].tag
      <4>1. Overtaken(z, n).tag = z.tag
        BY <3>0, OvertakenKeepsOrder
      <4> QED  BY <2>3, <4>1 DEF z
    <3>5. y.age <= moved[k].age
      <4>1. Overtaken(x, n).age <= Overtaken(z, n).age
        BY <3>0, OvertakenKeepsOrder
      <4> QED  BY <2>3, <4>1 DEF y, z
    <3>6. ASSUME y.age # n PROVE Precedes(y, moved[k])
      <4>1. y.age < n
        BY <1>0, <1>2, <2>0, <3>6
      <4>2. Overtaken(x, n).age < n
        BY <4>1 DEF y
      <4>3. Precedes(Overtaken(x, n), Overtaken(z, n))
        BY <3>0, <4>2, OvertakenKeepsOrder
      <4> QED  BY <2>3, <4>3 DEF y, z
    <3> QED  BY <1>2, <3>2, <3>4, <3>5, <3>6
  <2>4. ASSUME NEW m \in last + 1 .. Len(w), moved[k] = w[m]
        PROVE  /\ y.age <= moved[k].age /\ y.tag # moved[k].tag
               /\ y.age # n => Precedes(y, moved[k])
    <3>1. /\ m \in (1 .. Len(w)) \ {last} /\ w[m] \in Rec /\ h - 1 # m
          /\ h - 1 \in (1 .. Len(w)) \ {last}
      BY <1>0
    <3>2. n <= w[m].age /\ x.tag # w[m].tag
      BY <3>1 DEF Shiftable, x
    <3>3. y.age \in Nat /\ w[m].age \in Nat
      <4>1. \A r \in Rec : r.age \in Nat
        BY DEF Rec
      <4> QED  BY <1>2, <3>1, <4>1
    <3>4. y.age <= moved[k].age /\ (y.age # n => y.age < moved[k].age)
      BY <1>0, <2>0, <2>4, <3>2, <3>3
    <3> QED  BY <1>2, <2>4, <3>2, <3>4 DEF Precedes
  <2> QED  BY <2>1, <2>2, <2>3, <2>4
<1>8. /\ new \in Seq(Rec) /\ Len(new) = Len(w)
      /\ \A k \in 1 .. h - 1 : new[k] = moved[k]
      /\ \A k \in 1 .. Len(w) : new[k].age = moved[k].age
      /\ SortedFrom(new, h) /\ EntriesFrom(new, h) = EntriesFrom(moved, h)
  <2>1. CASE y.age = n
    <3>1. new = Settle(moved, h)
      BY <1>3, <2>1
    <3>2. \A k \in h + 1 .. Len(moved) : moved[h].age <= moved[k].age /\ moved[h].tag # moved[k].tag
      BY <1>4, <1>7
    <3>3. h \in 1 .. Len(moved)
      BY <1>0, <1>4
    <3> QED  BY <1>4, <1>6, <3>1, <3>2, <3>3, SettleInserts
  <2>2. CASE y.age # n
    <3>1. new = moved
      BY <1>3, <2>2
    <3>2. \A k \in h + 1 .. Len(moved) : Precedes(moved[h], moved[k])
      BY <1>4, <1>7, <2>2
    <3>3. h \in 1 .. Len(moved)
      BY <1>0, <1>4
    <3>4. SortedFrom(moved, h)
      BY <1>4, <1>6, <3>2, <3>3, OneMoreEntry
    <3> QED  BY <1>4, <3>1, <3>4
  <2> QED  BY <2>1, <2>2
<1>9. EntriesFrom(new, h) = {Overtaken(w[k], n) : k \in h - 1 .. last - 1}
                              \cup {w[k] : k \in last + 1 .. Len(w)}
  <2>1. EntriesFrom(moved, h) = {y} \cup EntriesFrom(u, h + 1)
    <3>1. h \in 1 .. Len(moved)
      BY <1>0, <1>4
    <3> QED  BY <1>4, <1>6, <3>1, OneMoreEntry
  <2>2. EntriesFrom(u, h + 1) = {Overtaken(w[k], n) : k \in (h + 1) - 1 .. last - 1}
                                  \cup {w[k] : k \in last + 1 .. Len(w)}
    BY DEF Shifted
  <2>3. h - 1 .. last - 1 = {h - 1} \cup ((h + 1) - 1 .. last - 1)
    BY <1>0
  <2>4. y = Overtaken(w[h - 1], n)
    BY DEF y, x
  <2> QED  BY <1>8, <2>1, <2>2, <2>3, <2>4
<1>10. \A k \in h .. last : new[k].age = Overtaken(w[k - 1], n).age
  <2> TAKE k \in h .. last
  <2>1. k \in 1 .. Len(w) /\ (k = h \/ (k \in h + 1 .. last /\ k \in h + 1 .. Len(w)))
    BY <1>0
  <2>2. CASE k = h
    BY <1>4, <1>8, <2>1, <2>2 DEF y, x
  <2>3. CASE k \in h + 1 .. last /\ k \in h + 1 .. Len(w)
    <3>1. u[k].age = Overtaken(w[k - 1], n).age
      BY <2>3 DEF Shifted
    <3> QED  BY <1>5, <1>8, <2>1, <2>3, <3>1
  <2> QED  BY <2>1, <2>2, <2>3
<1>11. \A k \in last + 1 .. Len(w) : new[k].age = w[k].age
  <2> TAKE k \in last + 1 .. Len(w)
  <2>1. k \in 1 .. Len(w) /\ k \in h + 1 .. Len(w)
    BY <1>0
  <2>2. u[k].age = w[k].age
    BY DEF Shifted
  <2> QED  BY <1>5, <1>8, <2>1, <2>2
<1> QED  BY <1>5, <1>8, <1>9, <1>10, <1>11 DEF Shifted, new

\* The whole loop.
LEMMA ShiftEntries ==
  ASSUME NEW w, NEW last, NEW n, Shiftable(w, last, n)
  PROVE  Shifted(w, last, n, ShiftUpTo(w, last, n), 2)
<1>0. /\ w \in Seq(Rec) /\ last \in Nat \ {0} /\ last <= Len(w) /\ n \in Nat /\ Len(w) \in Nat
  BY DEF Shiftable
<1>1. PICK f : /\ f[0] = w
               /\ \A k \in 1 .. last - 1 : f[k] = ShiftInto(f[k - 1], last + 1 - k, n)
               /\ ShiftUpTo(w, last, n) = f[last - 1]
  BY <1>0, ShiftFold
<1> DEFINE S == {k \in Nat : k <= last - 1 => Shifted(w, last, n, f[k], last + 1 - k)}
<1>2. 0 \in S
  <2>1. EntriesFrom(w, last + 1) = {w[k] : k \in last + 1 .. Len(w)}
    BY DEF EntriesFrom
  <2>2. (last + 1) - 1 .. last - 1 = {} /\ last + 1 .. last = {} /\ last + 1 - 0 = last + 1
    BY <1>0
  <2>3. Shifted(w, last, n, w, last + 1)
    BY <1>0, <2>1, <2>2 DEF Shifted, Shiftable
  <2> QED  BY <1>1, <2>2, <2>3
<1>3. ASSUME NEW k \in Nat, k \in S PROVE k + 1 \in S
  <2> SUFFICES ASSUME k + 1 <= last - 1
               PROVE  Shifted(w, last, n, f[k + 1], last + 1 - (k + 1))
    OBVIOUS
  <2> DEFINE h == last - k
  <2>1. /\ h \in 2 .. last /\ k + 1 \in 1 .. last - 1 /\ last + 1 - (k + 1) = h
        /\ last + 1 - k = h + 1 /\ (k + 1) - 1 = k /\ k <= last - 1
    BY <1>0
  <2>2. Shifted(w, last, n, f[k], h + 1)
    BY <1>3, <2>1
  <2>3. f[k + 1] = ShiftInto(f[k], h, n)
    <3>1. f[k + 1] = ShiftInto(f[(k + 1) - 1], last + 1 - (k + 1), n)
      BY <1>1, <2>1
    <3> HIDE DEF h
    <3> QED  BY <2>1, <3>1
  <2> HIDE DEF h
  <2>4. Shifted(w, last, n, ShiftInto(f[k], h, n), h)
    BY <2>1, <2>2, ShiftStep
  <2> QED  BY <2>1, <2>3, <2>4
<1>4. last - 1 \in S
  <2> HIDE DEF S
  <2>1. \A k \in Nat : k \in S
    BY <1>2, <1>3, NaturalInduction
  <2>2. last - 1 \in Nat
    BY <1>0
  <2> QED  BY <2>1, <2>2
<1>5. last + 1 - (last - 1) = 2
  BY <1>0
<1> QED  BY <1>1, <1>4, <1>5

-----------------------------------------------------------------------------
\* The must analysis: update() and potentialUpdate().

\* A must vector: each line is as old as there are lines before it, and cached.
MustVector(v) ==
  Vector(v) /\ \A k \in 1 .. Len(v) : k - 1 <= v[k].age /\ v[k].age < Assoc

\* A must vector has no more entries than the set has ways, all of them younger than Assoc.
LEMMA MustVectorFits ==
  ASSUME NEW v, MustVector(v)
  PROVE  Len(v) <= Assoc /\ \A x \in Entries(v) : x.age < Assoc
<1>1. /\ Len(v) \in Nat /\ Vector(v)
      /\ \A x \in Entries(v) : \E i \in 1 .. Len(v) : x = v[i]
      /\ \A i \in 1 .. Len(v) : v[i].age \in Nat
  BY VectorEntries DEF MustVector
<1>2. \A x \in Entries(v) : x.age < Assoc
  BY <1>1 DEF MustVector
<1>3. Len(v) <= Assoc
  <2>1. CASE Len(v) = 0
    BY <2>1, AssocAssumption
  <2>2. CASE Len(v) # 0
    <3>1. Len(v) \in 1 .. Len(v)
      BY <1>1, <2>2
    <3>2. Len(v) - 1 <= v[Len(v)].age /\ v[Len(v)].age < Assoc /\ v[Len(v)].age \in Nat
      BY <1>1, <3>1 DEF MustVector
    <3> QED  BY <1>1, <3>2, AssocAssumption
  <2> QED  BY <2>1, <2>2
<1> QED  BY <1>2, <1>3

\* The entries behind the first.
LEMMA TailEntries ==
  ASSUME NEW s \in Seq(Rec), Len(s) # 0
  PROVE  /\ Tail(s) \in Seq(Rec) /\ Len(Tail(s)) = Len(s) - 1
         /\ \A k \in 1 .. Len(s) - 1 : Tail(s)[k] = s[k + 1]
         /\ Entries(Tail(s)) = EntriesFrom(s, 2)
         /\ SortedFrom(s, 2) => SortedFrom(Tail(s), 1)
<1> DEFINE r == Tail(s)
<1>0. Len(s) \in Nat /\ s # << >>
  OBVIOUS
<1>1. r \in Seq(Rec) /\ Len(r) = Len(s) - 1 /\ \A k \in 1 .. Len(s) - 1 : r[k] = s[k + 1]
  BY <1>0, HeadTailProperties
<1> HIDE DEF r
<1>2. Entries(r) = EntriesFrom(s, 2)
  <2>1. ASSUME NEW e \in Entries(r) PROVE e \in EntriesFrom(s, 2)
    <3>1. PICK k \in 1 .. Len(s) - 1 : e = r[k]
      BY <1>1, <2>1 DEF Entries, EntriesFrom
    <3>2. k + 1 \in 2 .. Len(s) /\ e = s[k + 1]
      BY <1>0, <1>1, <3>1
    <3> QED  BY <3>2 DEF EntriesFrom
  <2>2. ASSUME NEW e \in EntriesFrom(s, 2) PROVE e \in Entries(r)
    <3>1. PICK k \in 2 .. Len(s) : e = s[k]
      BY <2>2 DEF EntriesFrom
    <3>2. k - 1 \in 1 .. Len(s) - 1 /\ (k - 1) + 1 = k
      BY <1>0
    <3>3. e = r[k - 1]
      BY <1>1, <3>1, <3>2
    <3> QED  BY <1>1, <3>2, <3>3 DEF Entries, EntriesFrom
  <2> QED  BY <2>1, <2>2
<1>3. ASSUME SortedFrom(s, 2) PROVE SortedFrom(r, 1)
  <2>1. ASSUME NEW j \in 1 .. Len(s) - 1, NEW k \in 1 .. Len(s) - 1, j < k
        PROVE  Precedes(r[j], r[k])
    <3>1. j + 1 \in 2 .. Len(s) /\ k + 1 \in 2 .. Len(s) /\ j + 1 < k + 1
      BY <1>0, <2>1
    <3>2. r[j] = s[j + 1] /\ r[k] = s[k + 1]
      BY <1>1
    <3> QED  BY <1>3, <3>1, <3>2 DEF SortedFrom
  <2> QED  BY <1>1, <2>1 DEF SortedFrom
<1> QED  BY <1>1, <1>2, <1>3 DEF r

\* What is left of the entries but the last.
Remaining(w, last, n) ==
  {Overtaken(w[k], n) : k \in 1 .. last - 1} \cup {w[k] : k \in last + 1 .. Len(w)}

\* The shifted vector with the accessed line in front.
LEMMA FrontShifted ==
  ASSUME NEW w, NEW last, NEW n, Shiftable(w, last, n), NEW t \in Nat,
         \A x \in Remaining(w, last, n) : x.tag # t /\ x.age < Assoc,
         \A k \in 2 .. last : k - 1 <= Overtaken(w[k - 1], n).age,
         \A k \in last + 1 .. Len(w) : k - 1 <= w[k].age
  PROVE  LET r == <<EntryOf(t, 0)>> \o Tail(ShiftUpTo(w, last, n))
         IN  MustVector(r) /\ Entries(r) = {EntryOf(t, 0)} \cup Remaining(w, last, n)
<1> DEFINE es == Remaining(w, last, n)
           s == ShiftUpTo(w, last, n)
           r == <<EntryOf(t, 0)>> \o Tail(s)
<1>0. /\ w \in Seq(Rec) /\ last \in Nat /\ last \in 1 .. Len(w) /\ n \in Nat /\ Len(w) \in Nat
      /\ \A k \in 1 .. Len(w) : w[k] \in Rec
  BY DEF Shiftable
<1>1. Shifted(w, last, n, s, 2)
  BY ShiftEntries
<1> HIDE DEF s
<1>2. /\ s \in Seq(Rec) /\ Len(s) = Len(w) /\ Len(s) # 0 /\ Len(s) \in Nat
      /\ SortedFrom(s, 2) /\ EntriesFrom(s, 2) = es
  <2>1. 2 - 1 .. last - 1 = 1 .. last - 1
    OBVIOUS
  <2>2. EntriesFrom(s, 2) = es
    BY <1>1, <2>1 DEF Shifted, Remaining
  <2> QED  BY <1>0, <1>1, <2>2 DEF Shifted
<1>3. ASSUME NEW k \in 2 .. Len(s) PROVE k - 1 <= s[k].age /\ s[k] \in es /\ s[k] \in Rec
  <2>1. s[k] \in EntriesFrom(s, 2) /\ k \in 1 .. Len(s)
    BY <1>2 DEF EntriesFrom
  <2>2. CASE k \in 2 .. last
    <3>1. s[k].age = Overtaken(w[k - 1], n).age
      BY <1>1, <2>2 DEF Shifted
    <3> QED  BY <1>2, <2>1, <2>2, <3>1
  <2>3. CASE k \in last + 1 .. Len(w)
    <3>1. s[k].age = w[k].age
      BY <1>1, <2>3 DEF Shifted
    <3> QED  BY <1>2, <2>1, <2>3, <3>1
  <2> QED  BY <1>0, <1>2, <2>2, <2>3
<1>4. OneEntryPerTag(es)
  <2>1. ASSUME NEW x \in es
        PROVE  \E k \in (1 .. Len(w)) \ {last} :
                 x.tag = w[k].tag /\ x = IF k < last THEN Overtaken(w[k], n) ELSE w[k]
    <3>0. \/ \E k \in 1 .. last - 1 : x = Overtaken(w[k], n)
          \/ \E k \in last + 1 .. Len(w) : x = w[k]
      BY DEF Remaining
    <3>1. CASE \E k \in 1 .. last - 1 : x = Overtaken(w[k], n)
      <4>1. PICK k \in 1 .. last - 1 : x = Overtaken(w[k], n)
        BY <3>1
      <4>2. k \in (1 .. Len(w)) \ {last} /\ k < last /\ w[k] \in Rec
        BY <1>0
      <4>3. Overtaken(w[k], n).tag = w[k].tag
        BY <1>0, <4>2, OvertakenKeepsOrder
      <4> QED  BY <4>1, <4>2, <4>3
    <3>2. CASE \E k \in last + 1 .. Len(w) : x = w[k]
      <4>1. PICK k \in last + 1 .. Len(w) : x = w[k]
        BY <3>2
      <4>2. k \in (1 .. Len(w)) \ {last} /\ ~ (k < last)
        BY <1>0
      <4> QED  BY <4>1, <4>2
    <3> QED  BY <3>0, <3>1, <3>2
  <2>2. ASSUME NEW x \in es, NEW y \in es, x.tag = y.tag PROVE x = y
    <3>1. PICK j \in (1 .. Len(w)) \ {last} :
            x.tag = w[j].tag /\ x = IF j < last THEN Overtaken(w[j], n) ELSE w[j]
      BY <2>1
    <3>2. PICK k \in (1 .. Len(w)) \ {last} :
            y.tag = w[k].tag /\ y = IF k < last THEN Overtaken(w[k], n) ELSE w[k]
      BY <2>1
    <3>3. j = k
      BY <2>2, <3>1, <3>2 DEF Shiftable
    <3> QED  BY <3>1, <3>2, <3>3
  <2> QED  BY <2>2 DEF OneEntryPerTag
<1> DEFINE q == Tail(s)
<1>5. /\ q \in Seq(Rec) /\ Len(q) = Len(s) - 1
      /\ \A k \in 1 .. Len(s) - 1 : q[k] = s[k + 1]
      /\ Entries(q) = es /\ SortedFrom(q, 1)
  BY <1>2, TailEntries
<1> HIDE DEF q
<1> HIDE DEF es
<1>6. \A x \in es : x.age > 0 /\ x.tag # t
  <2> SUFFICES ASSUME NEW x \in es PROVE x.age > 0
    BY DEF es
  <2>1. PICK k \in 2 .. Len(s) : x = s[k]
    BY <1>2 DEF EntriesFrom
  <2>2. k - 1 <= x.age /\ x \in Rec
    BY <1>3, <2>1
  <2>3. x.age \in Nat
    BY <2>2 DEF Rec
  <2> QED  BY <2>2, <2>3
<1>7. /\ Vector(r) /\ Len(r) = Len(q) + 1
      /\ r[1] = EntryOf(t, 0) /\ \A k \in 1 .. Len(q) : r[k + 1] = q[k]
      /\ Entries(r) = {EntryOf(t, 0)} \cup es
  <2>1. r = <<EntryOf(t, 0)>> \o q
    BY DEF q
  <2> HIDE DEF r
  <2> QED  BY <1>4, <1>5, <1>6, <2>1, FrontEntries
<1> HIDE DEF r
<1>8. \A k \in 1 .. Len(r) : k - 1 <= r[k].age /\ r[k].age < Assoc
  <2> TAKE k \in 1 .. Len(r)
  <2>0. Len(q) \in Nat /\ Len(r) = Len(s) /\ Len(s) - 1 = Len(q)
    BY <1>2, <1>5, <1>7
  <2>1. CASE k = 1
    <3>1. r[k].age = 0
      BY <1>7, <2>1, EntryIsRec
    <3> QED  BY <2>1, <3>1, AssocAssumption
  <2>2. CASE k # 1
    <3>1. k - 1 \in 1 .. Len(q) /\ (k - 1) + 1 = k /\ k \in 2 .. Len(s)
      BY <2>0, <2>2
    <3>2. r[k] = q[k - 1]
      BY <1>7, <3>1
    <3>3. q[k - 1] = s[k]
      BY <1>5, <2>0, <3>1
    <3>4. s[k].age < Assoc
      BY <1>3, <3>1 DEF es
    <3> QED  BY <1>3, <3>1, <3>2, <3>3, <3>4
  <2> QED  BY <2>1, <2>2
<1> QED  BY <1>7, <1>8 DEF MustVector, r, s, es

\* The bound of the accessed line, with which other bounds are compared.
AccessedAge(v, t, hit) ==
  IF t \in TagsOf(v) THEN MustAge(v, t) ELSE IF hit THEN Assoc - 1 ELSE Assoc

\* The entries of the other lines that stay, when each younger than n is overtaken.
Survivors(v, t, n) ==
  {y \in {Overtaken(x, n) : x \in {x \in Entries(v) : x.tag # t}} : y.age < Assoc}

\* The must update puts the line in front; of the others each is overtaken that has a
\* lesser bound, and dropped when it may leave the cache.
LEMMA UpdatedMust ==
  ASSUME NEW v, MustVector(v), NEW t \in Nat, NEW hit \in BOOLEAN,
         hit => t \in TagsOf(v) \/ Len(v) < Assoc
  PROVE  /\ MustVector(MustUpdate(v, t, hit)) /\ AccessedAge(v, t, hit) \in 0 .. Assoc
         /\ Entries(MustUpdate(v, t, hit)) =
              {EntryOf(t, 0)} \cup Survivors(v, t, AccessedAge(v, t, hit))
<1> DEFINE n == AccessedAge(v, t, hit)
           es == {x \in Entries(v) : x.tag # t}
           young == {y \in {Overtaken(x, n) : x \in es} : y.age < Assoc}
           pos == Position(v, t)
           front == EntryOf(t, 0)
<1>0. Vector(v) /\ Assoc \in Nat \ {0}
  BY AssocAssumption DEF MustVector
<1>1. /\ v \in Seq(Rec) /\ Len(v) \in Nat /\ DOMAIN v = 1 .. Len(v)
      /\ \A i \in 1 .. Len(v) : v[i] \in Rec /\ v[i].age \in Nat /\ v[i].tag \in Nat
      /\ \A i \in 1 .. Len(v) : v[i] \in Entries(v)
      /\ \A x \in Entries(v) : x \in Rec /\ x.age \in Nat /\ \E i \in 1 .. Len(v) : x = v[i]
      /\ \A i, j \in 1 .. Len(v) : i < j => Precedes(v[i], v[j]) /\ v[i].age <= v[j].age
      /\ \A i, j \in 1 .. Len(v) : v[i].tag = v[j].tag => i = j
  BY <1>0, VectorEntries
<1>2. CASE t \in TagsOf(v)
  <2>1. pos \in 1 .. Len(v) /\ v[pos].tag = t /\ pos \in Nat /\ pos # 0
    BY <1>0, <1>1, <1>2, PositionFinds
  <2>2. n = v[pos].age /\ n \in Nat /\ n < Assoc /\ pos - 1 <= n
    <3>1. n = v[pos].age
      BY <1>2, <2>1 DEF AccessedAge, MustAge
    <3> QED  BY <1>1, <2>1, <3>1 DEF MustVector
  <2>3. MustUpdate(v, t, hit) = <<front>> \o Tail(ShiftUpTo(v, pos, n))
    BY <2>1, <2>2 DEF MustUpdate
  <2> HIDE DEF pos, n
  <2>4. Shiftable(v, pos, n)
    <3>1. \A k \in 1 .. pos - 1 : k \in 1 .. Len(v) /\ k < pos
      BY <1>1, <2>1
    <3>2. \A k \in pos + 1 .. Len(v) : k \in 1 .. Len(v) /\ pos < k
      BY <1>1, <2>1
    <3>3. SortedFrom(v, pos + 1)
      BY <1>1, <3>2 DEF SortedFrom
    <3> QED  BY <1>1, <2>1, <2>2, <3>1, <3>2, <3>3 DEF Shiftable
  <2> DEFINE fs == Remaining(v, pos, n)
  <2>5. \A k \in pos + 1 .. Len(v) : Overtaken(v[k], n) = v[k] /\ k \in 1 .. Len(v) /\ k # pos
    <3> TAKE k \in pos + 1 .. Len(v)
    <3>1. k \in 1 .. Len(v) /\ pos < k
      BY <1>1, <2>1
    <3>2. n <= v[k].age /\ v[k].age \in Nat
      BY <1>1, <2>1, <2>2, <3>1
    <3> QED  BY <2>1, <2>2, <3>1, <3>2 DEF Overtaken
  <2>6. fs = {Overtaken(x, n) : x \in es}
    <3>1. ASSUME NEW y \in fs PROVE y \in {Overtaken(x, n) : x \in es}
      <4>1. PICK k \in 1 .. Len(v) : k # pos /\ y = Overtaken(v[k], n)
        <5>1. CASE \E k \in 1 .. pos - 1 : y = Overtaken(v[k], n)
          <6>1. \A k \in 1 .. pos - 1 : k \in 1 .. Len(v) /\ k # pos
            BY <1>1, <2>1
          <6> QED  BY <5>1, <6>1
        <5>2. CASE \E k \in pos + 1 .. Len(v) : y = v[k]
          BY <2>5, <5>2
        <5> QED  BY <3>1, <5>1, <5>2 DEF Remaining
      <4>2. v[k] \in es
        BY <1>1, <2>1, <4>1
      <4> QED  BY <4>1, <4>2
    <3>2. ASSUME NEW x \in es PROVE Overtaken(x, n) \in fs
      <4>1. PICK k \in 1 .. Len(v) : x = v[k] /\ k # pos
        BY <1>1, <2>1
      <4>2. CASE k < pos
        <5>1. k \in 1 .. pos - 1
          BY <1>1, <2>1, <4>2
        <5> QED  BY <4>1, <5>1 DEF Remaining
      <4>3. CASE pos < k
        <5>1. k \in pos + 1 .. Len(v)
          BY <1>1, <2>1, <4>3
        <5> QED  BY <2>5, <4>1, <5>1 DEF Remaining
      <4> QED  BY <2>1, <4>1, <4>2, <4>3
    <3> HIDE DEF fs, es
    <3> QED  BY <3>1, <3>2
  <2> HIDE DEF fs
  <2>7. \A y \in fs : y.tag # t /\ y.age < Assoc
    <3> SUFFICES ASSUME NEW y \in fs PROVE y.tag # t /\ y.age < Assoc
      OBVIOUS
    <3>1. PICK x \in es : y = Overtaken(x, n)
      BY <2>6
    <3>2. x \in Rec /\ x.tag # t /\ x.age < Assoc /\ x.age \in Nat
      BY <1>1, MustVectorFits
    <3>3. y.tag = x.tag /\ y.age = (IF x.age < n THEN x.age + 1 ELSE x.age)
      BY <2>2, <3>1, <3>2, OvertakenKeepsOrder
    <3> QED  BY <1>0, <2>2, <3>2, <3>3
  <2>8. \A k \in 2 .. pos : k - 1 <= Overtaken(v[k - 1], n).age
    <3> TAKE k \in 2 .. pos
    <3> DEFINE x == v[k - 1]
    <3>1. k - 1 \in 1 .. Len(v)
      BY <1>1, <2>1
    <3>2. x \in Rec /\ x.age \in Nat /\ (k - 1) - 1 <= x.age
      BY <1>1, <3>1 DEF MustVector
    <3> HIDE DEF x
    <3>3. Overtaken(x, n).age = (IF x.age < n THEN x.age + 1 ELSE x.age)
      BY <2>2, <3>2, OvertakenKeepsOrder
    <3>4. k - 1 <= Overtaken(x, n).age
      BY <2>1, <2>2, <3>2, <3>3
    <3> QED  BY <3>4 DEF x
  <2>9. \A k \in pos + 1 .. Len(v) : k - 1 <= v[k].age
    BY <2>5 DEF MustVector
  <2> DEFINE r == <<EntryOf(t, 0)>> \o Tail(ShiftUpTo(v, pos, n))
  <2>10. MustVector(r) /\ Entries(r) = {EntryOf(t, 0)} \cup fs
    BY <2>4, <2>7, <2>8, <2>9, FrontShifted DEF fs
  <2>11. young = fs
    BY <2>6, <2>7
  <2>12. n \in 0 .. Assoc
    BY <1>0, <2>2
  <2> QED  BY <2>3, <2>10, <2>11, <2>12 DEF n, Survivors
<1>3. CASE t \notin TagsOf(v)
  <2> DEFINE b == IF hit THEN v ELSE Young(v)
             w == Append(b, front)
             last == Len(b) + 1
  <2>1. pos = 0
    BY <1>0, <1>3, PositionFinds
  <2>2. n = IF hit THEN Assoc - 1 ELSE Assoc
    BY <1>3 DEF AccessedAge
  <2>3. /\ b \in Seq(Rec) /\ Vector(b) /\ Len(b) \in 0 .. Len(v)
        /\ \A k \in 1 .. Len(b) : b[k] = v[k] /\ (hit \/ v[k].age < Assoc - 1)
        /\ Entries(b) = {x \in Entries(v) : hit \/ x.age < Assoc - 1}
    <3>1. CASE hit
      BY <1>0, <1>1, <3>1
    <3>2. CASE ~ hit
      <4>1. b = YoungerThan(v, Assoc - 1) /\ Assoc - 1 \in Nat
        BY <1>0, <3>2 DEF Young
      <4> QED  BY <1>0, <3>2, <4>1, YoungerEntries
    <3> QED  BY <3>1, <3>2
  <2> HIDE DEF b
  <2>4. /\ w \in Seq(Rec) /\ Len(w) = last /\ last \in Nat
        /\ \A k \in 1 .. last - 1 : w[k] = b[k]
    <3>1. front \in Rec
      BY EntryIsRec
    <3> QED  BY <2>3, <3>1, AppendProperties
  <2>5. MustUpdate(v, t, hit) = <<front>> \o Tail(ShiftUpTo(w, last, n))
    BY <2>1, <2>2, <2>4 DEF MustUpdate, b
  <2> HIDE DEF w, n, pos
  <2>6. /\ \A k \in 1 .. Len(b) : b[k] \in Rec /\ b[k].age \in Nat /\ b[k] \in Entries(b)
        /\ \A x \in Entries(b) : \E i \in 1 .. Len(b) : x = b[i]
        /\ \A i, j \in 1 .. Len(b) : i < j => Precedes(b[i], b[j])
        /\ \A i, j \in 1 .. Len(b) : b[i].tag = b[j].tag => i = j
    BY <2>3, VectorEntries
  <2>7. \A k \in 1 .. Len(b) : k - 1 <= b[k].age /\ b[k].age <= n /\ (~ hit => b[k].age < Assoc - 1)
    <3> TAKE k \in 1 .. Len(b)
    <3>1. k \in 1 .. Len(v) /\ b[k] = v[k] /\ (hit \/ v[k].age < Assoc - 1)
      BY <1>1, <2>3
    <3>2. k - 1 <= v[k].age /\ v[k].age < Assoc /\ v[k].age \in Nat
      BY <1>1, <3>1 DEF MustVector
    <3> QED  BY <1>0, <2>2, <3>1, <3>2
  <2>8. n \in 0 .. Assoc /\ n \in Nat /\ last - 1 = Len(b) /\ last \in 1 .. Len(w) /\ last \in Nat
    BY <1>0, <2>2, <2>3, <2>4
  <2>9. Shiftable(w, last, n)
    <3>1. last + 1 .. Len(w) = {}
      BY <2>4
    <3>2. \A k \in (1 .. Len(w)) \ {last} : k \in 1 .. Len(b)
      BY <2>3, <2>4
    <3>3. SortedFrom(w, last + 1)
      BY <3>1 DEF SortedFrom
    <3>4. \A j, k \in (1 .. Len(w)) \ {last} : w[j].tag = w[k].tag => j = k
      BY <2>4, <2>6, <2>8, <3>2
    <3>5. n \in Nat
      BY <2>8
    <3> QED  BY <2>4, <2>6, <2>7, <2>8, <3>1, <3>3, <3>4, <3>5 DEF Shiftable
  <2> DEFINE fs == Remaining(w, last, n)
  <2>10. fs = {Overtaken(x, n) : x \in Entries(b)}
    <3>1. last + 1 .. Len(w) = {}
      BY <2>4
    <3>2. ASSUME NEW y \in fs PROVE y \in {Overtaken(x, n) : x \in Entries(b)}
      <4>1. PICK k \in 1 .. Len(b) : y = Overtaken(w[k], n)
        BY <2>8, <3>1, <3>2 DEF Remaining
      <4> QED  BY <2>4, <2>6, <2>8, <4>1
    <3>3. ASSUME NEW x \in Entries(b) PROVE Overtaken(x, n) \in fs
      <4>1. PICK k \in 1 .. Len(b) : x = b[k]
        BY <2>6
      <4> QED  BY <2>4, <2>8, <4>1 DEF Remaining
    <3> HIDE DEF fs
    <3> QED  BY <3>2, <3>3
  <2> HIDE DEF fs
  <2>11. \A x \in Entries(b) : x \in es /\ x \in Rec /\ x.age \in Nat /\ x.age < Assoc
                               /\ (hit \/ x.age < Assoc - 1)
    <3> TAKE x \in Entries(b)
    <3>1. x \in Entries(v) /\ (hit \/ x.age < Assoc - 1)
      BY <2>3
    <3>2. x.tag \in TagsOf(v)
      BY <1>0, <3>1, Lookup
    <3> QED  BY <1>1, <1>3, <3>1, <3>2, MustVectorFits
  <2>12. \A y \in fs : y.tag # t /\ y.age < Assoc
    <3> SUFFICES ASSUME NEW y \in fs PROVE y.tag # t /\ y.age < Assoc
      OBVIOUS
    <3>1. PICK x \in Entries(b) : y = Overtaken(x, n)
      BY <2>10
    <3>2. x \in Rec /\ x.tag # t /\ x.age < Assoc /\ x.age \in Nat /\ (hit \/ x.age < Assoc - 1)
      BY <2>11
    <3>3. y.tag = x.tag /\ y.age = (IF x.age < n THEN x.age + 1 ELSE x.age)
      BY <2>8, <3>1, <3>2, OvertakenKeepsOrder
    <3> QED  BY <1>0, <2>2, <3>2, <3>3
  <2>13. \A k \in 2 .. last : k - 1 <= Overtaken(w[k - 1], n).age
    <3> TAKE k \in 2 .. last
    <3> DEFINE x == b[k - 1]
    <3>1. k - 1 \in 1 .. Len(b) /\ w[k - 1] = x
      BY <2>4, <2>8
    <3>2. x \in Rec /\ x.age \in Nat /\ (k - 1) - 1 <= x.age /\ (~ hit => x.age < Assoc - 1)
      BY <2>6, <2>7, <3>1
    <3>3. hit => k - 1 <= Assoc - 1
      <4>1. hit => Len(v) < Assoc
        BY <1>3
      <4> QED  BY <1>0, <1>1, <2>3, <3>1, <4>1
    <3> HIDE DEF x
    <3>4. Overtaken(x, n).age = (IF x.age < n THEN x.age + 1 ELSE x.age)
      BY <2>8, <3>2, OvertakenKeepsOrder
    <3>5. k - 1 <= Overtaken(x, n).age
      BY <1>0, <2>2, <2>8, <3>2, <3>3, <3>4
    <3> QED  BY <3>1, <3>5
  <2>14. \A k \in last + 1 .. Len(w) : k - 1 <= w[k].age
    BY <2>4
  <2> DEFINE r == <<EntryOf(t, 0)>> \o Tail(ShiftUpTo(w, last, n))
  <2>15. MustVector(r) /\ Entries(r) = {EntryOf(t, 0)} \cup fs
    <3> HIDE DEF last
    <3> QED  BY <2>9, <2>12, <2>13, <2>14, FrontShifted DEF fs
  <2>16. young = fs
    <3>1. ASSUME NEW y \in young PROVE y \in fs
      <4>1. PICK x \in es : y = Overtaken(x, n) /\ y.age < Assoc
        BY <3>1
      <4>2. x \in Entries(v) /\ x \in Rec /\ x.age \in Nat
        BY <1>1
      <4>3. y.age = (IF x.age < n THEN x.age + 1 ELSE x.age)
        BY <2>8, <4>1, <4>2, OvertakenKeepsOrder
      <4>4. hit \/ x.age < Assoc - 1
        <5>1. x.age < Assoc
          BY <4>2, MustVectorFits
        <5> QED  BY <1>0, <2>2, <4>1, <4>2, <4>3, <5>1
      <4>5. x \in Entries(b)
        BY <2>3, <4>2, <4>4
      <4> QED  BY <2>10, <4>1, <4>5
    <3>2. ASSUME NEW y \in fs PROVE y \in young
      BY <2>10, <2>11, <2>12, <3>2
    <3> HIDE DEF young
    <3> QED  BY <3>1, <3>2
  <2> QED  BY <2>5, <2>8, <2>15, <2>16 DEF n, Survivors
<1> QED  BY <1>2, <1>3 DEF Survivors

\* What the must bounds say of the entries.
LEMMA MustAges ==
  ASSUME NEW v, MustVector(v), NEW t
  PROVE  /\ MustAge(v, t) \in 0 .. Assoc
         /\ t \in TagsOf(v) <=> MustAge(v, t) < Assoc
         /\ \A x \in Entries(v) : x.tag = t => MustAge(v, t) = x.age /\ x.age < Assoc
         /\ MustAge(v, t) < Assoc => t \in Nat /\ EntryOf(t, MustAge(v, t)) \in Entries(v)
<1>0. Vector(v) /\ Assoc \in Nat \ {0}
  BY AssocAssumption DEF MustVector
<1>1. MustAge(v, t) = AgeIn(v, t, Assoc)
  BY DEF MustAge, AgeIn
<1>2. /\ t \in TagsOf(v) => /\ MustAge(v, t) \in Nat /\ t \in Nat
                            /\ EntryOf(t, MustAge(v, t)) \in Entries(v)
      /\ t \notin TagsOf(v) => MustAge(v, t) = Assoc
      /\ \A x \in Entries(v) : x.tag = t => x.age = MustAge(v, t)
  BY <1>0, <1>1, Lookup
<1>3. \A x \in Entries(v) : x.age < Assoc
  BY MustVectorFits
<1>4. ASSUME t \in TagsOf(v) PROVE MustAge(v, t) < Assoc
  <2>1. EntryOf(t, MustAge(v, t)).age = MustAge(v, t)
    BY <1>2, <1>4, EntryIsRec
  <2> QED  BY <1>2, <1>3, <1>4, <2>1
<1> QED  BY <1>0, <1>2, <1>3, <1>4

\* The bounds determine the vector.
LEMMA EqualMust ==
  ASSUME NEW v, MustVector(v), NEW w, MustVector(w),
         \A t \in Nat : MustAge(v, t) = MustAge(w, t)
  PROVE  v = w
<1>1. ASSUME NEW a, MustVector(a), NEW b, MustVector(b), NEW x \in Entries(a),
             \A t \in Nat : MustAge(a, t) = MustAge(b, t)
      PROVE  x \in Entries(b)
  <2>1. x.tag \in Nat /\ x = EntryOf(x.tag, x.age)
    BY <1>1, VectorEntries DEF MustVector
  <2>2. MustAge(a, x.tag) = x.age /\ x.age < Assoc
    BY <1>1, MustAges
  <2>3. MustAge(b, x.tag) = x.age
    BY <1>1, <2>1, <2>2
  <2>4. EntryOf(x.tag, MustAge(b, x.tag)) \in Entries(b)
    BY <1>1, <2>2, <2>3, MustAges
  <2> QED  BY <2>1, <2>3, <2>4
<1>2. \A x \in Entries(v) : x \in Entries(w)
  BY <1>1
<1>3. \A x \in Entries(w) : x \in Entries(v)
  <2>1. \A t \in Nat : MustAge(w, t) = MustAge(v, t)
    OBVIOUS
  <2> QED  BY <1>1, <2>1
<1>4. Entries(v) = Entries(w)
  BY <1>2, <1>3
<1> QED  BY <1>4, EntriesDetermine DEF MustVector

\* The must update in terms of bounds.
LEMMA MustUpdateAges ==
  ASSUME NEW v, MustVector(v), NEW t \in Nat, NEW hit \in BOOLEAN,
         hit => t \in TagsOf(v) \/ Len(v) < Assoc, NEW u
  PROVE  /\ MustVector(MustUpdate(v, t, hit))
         /\ AccessedAge(v, t, hit) \in 0 .. Assoc
         /\ MustAge(MustUpdate(v, t, hit), u) =
              IF u = t THEN 0
              ELSE IF MustAge(v, u) < AccessedAge(v, t, hit) THEN MustAge(v, u) + 1
              ELSE MustAge(v, u)
<1> DEFINE w == MustUpdate(v, t, hit)
           n == AccessedAge(v, t, hit)
           es == {x \in Entries(v) : x.tag # t}
<1>1. /\ MustVector(w) /\ n \in 0 .. Assoc /\ n \in Nat /\ Assoc \in Nat \ {0}
      /\ Entries(w) = {EntryOf(t, 0)} \cup {y \in {Overtaken(x, n) : x \in es} : y.age < Assoc}
  <2>1. \A k \in 0 .. Assoc : k \in Nat
    BY AssocAssumption
  <2>2. /\ MustVector(w) /\ n \in 0 .. Assoc
        /\ Entries(w) = {EntryOf(t, 0)} \cup Survivors(v, t, n)
    BY UpdatedMust
  <2> HIDE DEF w, n
  <2> QED  BY <2>1, <2>2, AssocAssumption DEF Survivors
<1> HIDE DEF w, n
<1>2. CASE u = t
  <2>1. EntryOf(t, 0) \in Entries(w) /\ EntryOf(t, 0).tag = t /\ EntryOf(t, 0).age = 0
    BY <1>1, EntryIsRec
  <2>2. MustAge(w, u) = 0
    BY <1>1, <1>2, <2>1, MustAges
  <2> QED  BY <1>1, <1>2, <2>2 DEF w, n
<1>3. CASE u # t
  <2>1. \A x \in Entries(v) : x \in Rec /\ x.age \in Nat /\ x.age < Assoc
    <3>1. Vector(v)
      BY DEF MustVector
    <3> QED  BY <3>1, VectorEntries, MustVectorFits
  <2>2. \A x \in Entries(v) : /\ Overtaken(x, n).tag = x.tag
                              /\ Overtaken(x, n).age = IF x.age < n THEN x.age + 1 ELSE x.age
    BY <1>1, <2>1, OvertakenKeepsOrder
  <2>3. ASSUME NEW y \in Entries(w), y.tag = u
        PROVE  \E x \in Entries(v) : x.tag = u /\ y = Overtaken(x, n)
    <3>1. y # EntryOf(t, 0)
      BY <1>3, <2>3, EntryIsRec
    <3>2. PICK x \in es : y = Overtaken(x, n)
      BY <1>1, <3>1
    <3> QED  BY <2>2, <2>3, <3>2
  <2>4. MustAge(v, u) \in 0 .. Assoc /\ MustAge(w, u) \in 0 .. Assoc
    BY <1>1, MustAges
  <2>5. CASE MustAge(v, u) < Assoc
    <3> DEFINE x == EntryOf(u, MustAge(v, u))
    <3>1. x \in Entries(v) /\ u \in Nat
      BY <2>5, MustAges
    <3>2. x.tag = u /\ x.age = MustAge(v, u)
      BY <2>4, <3>1, EntryIsRec
    <3> HIDE DEF x
    <3>3. CASE Overtaken(x, n).age < Assoc
      <4>1. Overtaken(x, n) \in Entries(w)
        BY <1>1, <1>3, <3>1, <3>2, <3>3
      <4>2. MustAge(w, u) = Overtaken(x, n).age
        BY <1>1, <2>2, <3>1, <3>2, <4>1, MustAges
      <4> QED  BY <1>1, <1>3, <2>2, <3>1, <3>2, <4>2 DEF w, n
    <3>4. CASE ~ (Overtaken(x, n).age < Assoc)
      <4>1. MustAge(v, u) + 1 = Assoc /\ MustAge(v, u) < n
        BY <1>1, <2>1, <2>2, <3>1, <3>2, <3>4
      <4>2. ASSUME MustAge(w, u) < Assoc PROVE FALSE
        <5>1. EntryOf(u, MustAge(w, u)) \in Entries(w)
          BY <1>1, <4>2, MustAges
        <5>2. EntryOf(u, MustAge(w, u)).tag = u /\ EntryOf(u, MustAge(w, u)).age < Assoc
          BY <2>4, <3>1, <4>2, EntryIsRec
        <5>3. PICK z \in Entries(v) : z.tag = u /\ EntryOf(u, MustAge(w, u)) = Overtaken(z, n)
          BY <2>3, <5>1, <5>2
        <5>4. z = x
          BY <3>1, <3>2, <5>3 DEF MustVector, Vector, OneEntryPerTag
        <5> QED  BY <3>4, <5>2, <5>3, <5>4
      <4> QED  BY <1>1, <1>3, <2>4, <4>1, <4>2 DEF w, n
    <3> QED  BY <3>3, <3>4
  <2>6. CASE ~ (MustAge(v, u) < Assoc)
    <3>1. MustAge(v, u) = Assoc /\ ~ (MustAge(v, u) < n)
      BY <1>1, <2>4, <2>6
    <3>2. ASSUME MustAge(w, u) < Assoc PROVE FALSE
      <4>1. EntryOf(u, MustAge(w, u)) \in Entries(w) /\ u \in Nat
        BY <1>1, <3>2, MustAges
      <4>2. EntryOf(u, MustAge(w, u)).tag = u
        BY <2>4, <4>1, EntryIsRec
      <4>3. PICK z \in Entries(v) : z.tag = u
        BY <2>3, <4>1, <4>2
      <4>4. MustAge(v, u) < Assoc
        BY <2>1, <4>3, MustAges
      <4> QED  BY <2>6, <4>4
    <3>3. MustAge(w, u) = Assoc
      BY <1>1, <2>4, <3>2
    <3> QED  BY <1>1, <1>3, <3>1, <3>3 DEF w, n
  <2> QED  BY <2>5, <2>6
<1> QED  BY <1>2, <1>3

\* An access to an imprecise address.
LEMMA MustPotentialUpdateAges ==
  ASSUME NEW v, MustVector(v), NEW u
  PROVE  /\ MustVector(MustPotentialUpdate(v))
         /\ MustAge(MustPotentialUpdate(v), u) =
              IF MustAge(v, u) < Assoc THEN MustAge(v, u) + 1 ELSE MustAge(v, u)
<1> DEFINE b == Young(v)
           w == MustPotentialUpdate(v)
<1>0. Vector(v) /\ Assoc \in Nat \ {0} /\ Assoc - 1 \in Nat
  BY AssocAssumption DEF MustVector
<1>1. /\ Vector(b) /\ Len(b) \in 0 .. Len(v)
      /\ \A k \in 1 .. Len(b) : b[k] = v[k] /\ v[k].age < Assoc - 1
      /\ Entries(b) = {x \in Entries(v) : x.age < Assoc - 1}
  BY <1>0, YoungerEntries DEF Young
<1> HIDE DEF b
<1>2. /\ Vector(w) /\ Len(w) = Len(b)
      /\ \A k \in 1 .. Len(b) : w[k] = EntryOf(b[k].tag, b[k].age + 1)
      /\ Entries(w) = {EntryOf(x.tag, x.age + 1) : x \in Entries(b)}
  BY <1>1, AgedEntries DEF MustPotentialUpdate, b
<1> HIDE DEF w
<1>3. \A x \in Entries(v) : x.tag \in Nat /\ x.age \in Nat /\ x.age < Assoc
  BY <1>0, VectorEntries, MustVectorFits
<1>4. \A x \in Entries(v) : EntryOf(x.tag, x.age + 1).tag = x.tag
                            /\ EntryOf(x.tag, x.age + 1).age = x.age + 1
  <2> TAKE x \in Entries(v)
  <2>1. x.tag \in Nat /\ x.age + 1 \in Nat
    BY <1>3
  <2> QED  BY <2>1, EntryIsRec
<1>5. MustVector(w)
  <2>1. ASSUME NEW k \in 1 .. Len(w) PROVE k - 1 <= w[k].age /\ w[k].age < Assoc
    <3>1. k \in 1 .. Len(b) /\ k \in 1 .. Len(v) /\ b[k] = v[k] /\ v[k].age < Assoc - 1
      <4>1. Len(v) \in Nat
        BY <1>0, VectorEntries
      <4> QED  BY <1>1, <1>2, <4>1
    <3>2. v[k] \in Entries(v) /\ k - 1 <= v[k].age
      BY <1>0, <3>1, VectorEntries DEF MustVector
    <3>3. w[k].age = v[k].age + 1
      BY <1>2, <1>4, <3>1, <3>2
    <3> QED  BY <1>0, <1>3, <3>1, <3>2, <3>3
  <2> QED  BY <1>2, <2>1 DEF MustVector
<1>6. MustAge(v, u) \in 0 .. Assoc /\ MustAge(w, u) \in 0 .. Assoc
  BY <1>5, MustAges
<1>7. CASE MustAge(v, u) < Assoc - 1
  <2> DEFINE x == EntryOf(u, MustAge(v, u))
  <2>1. MustAge(v, u) < Assoc
    BY <1>0, <1>6, <1>7
  <2>2. x \in Entries(v) /\ u \in Nat
    BY <2>1, MustAges
  <2>3. x.tag = u /\ x.age = MustAge(v, u)
    BY <1>6, <2>2, EntryIsRec
  <2> HIDE DEF x
  <2>4. EntryOf(x.tag, x.age + 1) \in Entries(w)
    BY <1>1, <1>2, <1>7, <2>2, <2>3
  <2>5. MustAge(w, u) = x.age + 1
    BY <1>4, <1>5, <2>2, <2>3, <2>4, MustAges
  <2> QED  BY <1>5, <2>1, <2>3, <2>5 DEF w
<1>8. CASE ~ (MustAge(v, u) < Assoc - 1)
  <2>1. ASSUME MustAge(w, u) < Assoc PROVE FALSE
    <3>1. EntryOf(u, MustAge(w, u)) \in Entries(w) /\ u \in Nat
      BY <1>5, <2>1, MustAges
    <3>2. EntryOf(u, MustAge(w, u)).tag = u
      BY <1>6, <3>1, EntryIsRec
    <3>3. PICK x \in Entries(b) : EntryOf(u, MustAge(w, u)) = EntryOf(x.tag, x.age + 1)
      BY <1>2, <3>1
    <3>4. x \in Entries(v) /\ x.age < Assoc - 1 /\ x.tag = u
      BY <1>1, <1>4, <3>2, <3>3
    <3>5. MustAge(v, u) = x.age
      BY <3>4, MustAges
    <3> QED  BY <1>8, <3>4, <3>5
  <2>2. MustAge(w, u) = Assoc
    BY <1>0, <1>6, <2>1
  <2> QED  BY <1>0, <1>5, <1>6, <1>8, <2>2 DEF w
<1> QED  BY <1>7, <1>8

\* There are no more lines of an age than could be that young in a vector where each is at
\* least as old as there are lines before it.
LEMMA FitsByTags ==
  ASSUME NEW x, MustVector(x), NEW z, Vector(z),
         \A e \in Entries(z) : \E f \in Entries(x) : f.tag = e.tag /\ f.age <= e.age
  PROVE  \A i \in 1 .. Len(z) : i - 1 <= z[i].age
<1> SUFFICES ASSUME NEW i \in 1 .. Len(z), ~ (i - 1 <= z[i].age) PROVE FALSE
  OBVIOUS
<1> DEFINE a == z[i].age
           where == [k \in 1 .. i |-> Position(x, z[k].tag)]
<1>1. /\ Len(z) \in Nat /\ i \in Nat /\ a \in Nat /\ i > a + 1
      /\ \A k \in 1 .. Len(z) : z[k] \in Entries(z) /\ z[k].age \in Nat
      /\ \A j, k \in 1 .. Len(z) : j < k => z[j].age <= z[k].age
      /\ \A j, k \in 1 .. Len(z) : z[j].tag = z[k].tag => j = k
  <2>1. /\ Len(z) \in Nat /\ \A k \in 1 .. Len(z) : z[k] \in Entries(z) /\ z[k].age \in Nat
        /\ \A j, k \in 1 .. Len(z) : j < k => z[j].age <= z[k].age
        /\ \A j, k \in 1 .. Len(z) : z[j].tag = z[k].tag => j = k
    BY VectorEntries
  <2> QED  BY <2>1
<1>2. Vector(x)
  BY DEF MustVector
<1>3. ASSUME NEW k \in 1 .. i
      PROVE  /\ Position(x, z[k].tag) \in 1 .. a + 1 /\ k \in 1 .. Len(z)
             /\ x[Position(x, z[k].tag)].tag = z[k].tag
  <2>1. k \in 1 .. Len(z) /\ z[k].age <= a
    <3>1. k \in 1 .. Len(z) /\ (k = i \/ k < i)
      BY <1>1
    <3> QED  BY <1>1, <3>1
  <2>2. PICK f \in Entries(x) : f.tag = z[k].tag /\ f.age <= z[k].age
    BY <1>1, <2>1
  <2> DEFINE pos == Position(x, z[k].tag)
  <2>3. z[k].tag \in TagsOf(x)
    BY <1>2, <2>2, Lookup
  <2>4. pos \in 1 .. Len(x) /\ x[pos].tag = z[k].tag
    BY <1>2, <2>3, PositionFinds
  <2> HIDE DEF pos
  <2>5. x[pos] \in Entries(x) /\ x[pos].age \in Nat
    BY <1>2, <2>4, VectorEntries
  <2>6. x[pos] = f
    BY <1>2, <2>2, <2>4, <2>5 DEF Vector, OneEntryPerTag
  <2>7. pos - 1 <= x[pos].age
    BY <2>4 DEF MustVector
  <2>8. pos \in 1 .. a + 1
    <3>1. z[k].age \in Nat /\ pos \in Nat /\ 1 <= pos
      BY <1>1, <2>1, <2>4
    <3> QED  BY <1>1, <2>1, <2>2, <2>5, <2>6, <2>7, <3>1
  <2> QED  BY <2>1, <2>4, <2>8 DEF pos
<1>4. where \in [1 .. i -> 1 .. a + 1]
  <2> HIDE DEF a
  <2> QED  BY <1>3
<1>5. /\ IsFiniteSet(1 .. i) /\ Cardinality(1 .. i) = i
      /\ IsFiniteSet(1 .. a + 1) /\ Cardinality(1 .. a + 1) = a + 1
  <2>1. \A n \in Nat : IsFiniteSet(1 .. n) /\ Cardinality(1 .. n) = n
    <3> TAKE n \in Nat
    <3>1. 1 \in Int /\ n \in Int /\ (IF 1 > n THEN 0 ELSE n - 1 + 1) = n
      OBVIOUS
    <3>2. IsFiniteSet(1 .. n) /\ Cardinality(1 .. n) = IF 1 > n THEN 0 ELSE n - 1 + 1
      BY <3>1, FS_Interval
    <3> QED  BY <3>1, <3>2
  <2>2. a + 1 \in Nat
    BY <1>1
  <2> QED  BY <1>1, <2>1, <2>2
<1>6. PICK j, k \in 1 .. i : j # k /\ where[j] = where[k]
  <2>1. Cardinality(1 .. a + 1) < Cardinality(1 .. i)
    BY <1>1, <1>5
  <2> DEFINE S == 1 .. i
             T == 1 .. a + 1
  <2>2. /\ IsFiniteSet(S) /\ IsFiniteSet(T) /\ Cardinality(T) < Cardinality(S)
        /\ where \in [S -> T]
    BY <1>4, <1>5, <2>1
  <2> HIDE DEF where, S, T
  <2>3. \E j, k \in S : j # k /\ where[j] = where[k]
    BY <2>2, FS_PigeonHole
  <2> QED  BY <2>3 DEF S
<1>7. z[j].tag = z[k].tag /\ j \in 1 .. Len(z) /\ k \in 1 .. Len(z)
  BY <1>3, <1>6
<1> QED  BY <1>1, <1>6, <1>7

-----------------------------------------------------------------------------
\* The must analysis: join() and lessequal().

\* Any two entries are ordered.
LEMMA PrecedesTotal ==
  /\ \A x, y \in Rec : Precedes(x, y) \/ x = y \/ Precedes(y, x)
  /\ \A x, y, z \in Rec : ~ Precedes(y, x) /\ ~ Precedes(z, y) => ~ Precedes(z, x)
  /\ \A x, y, z \in Rec : ~ Precedes(y, x) /\ Precedes(y, z) => Precedes(x, z)
  /\ \A x, y, z \in Rec : Precedes(x, y) /\ ~ Precedes(z, y) => Precedes(x, z)
<1>1. \A x, y \in Rec : Precedes(x, y) \/ x = y \/ Precedes(y, x)
  BY DEF Precedes, Rec
<1>2. \A x, y, z \in Rec : ~ Precedes(y, x) /\ ~ Precedes(z, y) => ~ Precedes(z, x)
  BY DEF Precedes, Rec
<1>3. \A x, y, z \in Rec : ~ Precedes(y, x) /\ Precedes(y, z) => Precedes(x, z)
  BY DEF Precedes, Rec
<1>4. \A x, y, z \in Rec : Precedes(x, y) /\ ~ Precedes(z, y) => Precedes(x, z)
  BY DEF Precedes, Rec
<1> QED  BY <1>1, <1>2, <1>3, <1>4

\* A greatest entry is appended.
LEMMA AppendEntry ==
  ASSUME NEW u \in Seq(Rec), SortedFrom(u, 1), NEW e \in Rec,
         \A z \in Entries(u) : Precedes(z, e)
  PROVE  /\ Append(u, e) \in Seq(Rec) /\ SortedFrom(Append(u, e), 1)
         /\ Entries(Append(u, e)) = Entries(u) \cup {e}
<1> DEFINE w == Append(u, e)
<1>1. /\ w \in Seq(Rec) /\ Len(w) = Len(u) + 1 /\ Len(u) \in Nat
      /\ \A k \in 1 .. Len(u) : w[k] = u[k] /\ u[k] \in Entries(u)
      /\ w[Len(u) + 1] = e
  BY AppendProperties DEF Entries, EntriesFrom
<1> HIDE DEF w
<1>2. SortedFrom(w, 1)
  <2>1. ASSUME NEW j \in 1 .. Len(w), NEW k \in 1 .. Len(w), j < k PROVE Precedes(w[j], w[k])
    <3>1. j \in 1 .. Len(u) /\ w[j] = u[j] /\ u[j] \in Entries(u)
      BY <1>1, <2>1
    <3>2. CASE k \in 1 .. Len(u)
      BY <1>1, <2>1, <3>1, <3>2 DEF SortedFrom
    <3>3. CASE k = Len(u) + 1
      BY <1>1, <3>1, <3>3
    <3> QED  BY <1>1, <3>2, <3>3
  <2> QED  BY <2>1 DEF SortedFrom
<1>3. Entries(w) = Entries(u) \cup {e}
  <2>1. ASSUME NEW z \in Entries(w) PROVE z \in Entries(u) \cup {e}
    <3>1. PICK k \in 1 .. Len(w) : z = w[k]
      BY <2>1 DEF Entries, EntriesFrom
    <3>2. k \in 1 .. Len(u) \/ k = Len(u) + 1
      BY <1>1
    <3> QED  BY <1>1, <3>1, <3>2
  <2>2. ASSUME NEW z \in Entries(u) PROVE z \in Entries(w)
    <3>1. PICK k \in 1 .. Len(u) : z = u[k]
      BY <2>2 DEF Entries, EntriesFrom
    <3>2. k \in 1 .. Len(w) /\ z = w[k]
      BY <1>1, <3>1
    <3> QED  BY <3>2 DEF Entries, EntriesFrom
  <2>3. e \in Entries(w)
    <3>1. Len(u) + 1 \in 1 .. Len(w)
      BY <1>1
    <3> QED  BY <1>1, <3>1 DEF Entries, EntriesFrom
  <2> QED  BY <2>1, <2>2, <2>3
<1> QED  BY <1>1, <1>2, <1>3 DEF w

\* One step of the must join, which visits the greater one of two entries.
TakesX(x, y, at) == at[1] > 0 /\ (at[2] = 0 \/ ~ Precedes(x[at[1]], y[at[2]]))
Kept(x, y, at) == IF TakesX(x, y, at) THEN x[at[1]] ELSE y[at[2]]
Back(x, y, at) ==
  IF TakesX(x, y, at) THEN <<at[1] - 1, at[2]>> ELSE <<at[1], at[2] - 1>>
IsAhead(x, y, at) ==
  Kept(x, y, at).tag \in (IF TakesX(x, y, at) THEN TagsOf(SubSeq(y, 1, at[2]))
                          ELSE TagsOf(SubSeq(x, 1, at[1])))
Grown(x, y, at, rest) ==
  IF IsAhead(x, y, at) THEN Append(rest, Kept(x, y, at)) ELSE rest

\* The must join visits the entries of both vectors from the back, and so is the end of a
\* recursion over pairs of positions.
LEMMA MustJoinSteps ==
  ASSUME NEW x \in Seq(Rec), NEW y \in Seq(Rec)
  PROVE  \E f : /\ \A at \in (0 .. Len(x)) \X (0 .. Len(y)) :
                     f[at] = IF at[1] = 0 /\ at[2] = 0 THEN << >>
                             ELSE Grown(x, y, at, f[Back(x, y, at)])
                /\ MustJoin(x, y) = f[<<Len(x), Len(y)>>]
<1> DEFINE P == (0 .. Len(x)) \X (0 .. Len(y))
           Origin(at) == at[1] = 0 /\ at[2] = 0
           N == Len(x) + Len(y)
           rank == [at \in P |-> at[1] + at[2]]
           prev == [at \in P |-> IF Origin(at) THEN at ELSE Back(x, y, at)]
           W == Seq(Rec)
           base == [at \in P |-> << >>]
           g == [q \in P \X W |-> IF Origin(q[1]) THEN << >> ELSE Grown(x, y, q[1], q[2])]
           Eq(f) == f = [at \in P |-> IF Origin(at) THEN << >>
                                      ELSE Grown(x, y, at, f[Back(x, y, at)])]
           run == CHOOSE f : Eq(f)
<1>0. Len(x) \in Nat /\ Len(y) \in Nat /\ N \in Nat
  OBVIOUS
<1>1. MustJoin(x, y) = run[<<Len(x), Len(y)>>]
  BY DEF MustJoin, Grown, Back, IsAhead, Kept, TakesX
<1>2. ASSUME NEW at \in P, ~ Origin(at)
      PROVE  /\ Back(x, y, at) \in P /\ rank[Back(x, y, at)] < rank[at]
             /\ Kept(x, y, at) \in Rec
  <2>1. at[1] \in 0 .. Len(x) /\ at[2] \in 0 .. Len(y) /\ at[1] \in Nat /\ at[2] \in Nat
    OBVIOUS
  <2>2. CASE TakesX(x, y, at)
    <3>1. at[1] > 0
      BY <2>2 DEF TakesX
    <3>2. Back(x, y, at) = <<at[1] - 1, at[2]>> /\ Kept(x, y, at) = x[at[1]]
      BY <2>2 DEF Back, Kept
    <3> QED  BY <2>1, <3>1, <3>2
  <2>3. CASE ~ TakesX(x, y, at)
    <3>1. at[2] > 0
      BY <1>2, <2>1, <2>3 DEF TakesX
    <3>2. Back(x, y, at) = <<at[1], at[2] - 1>> /\ Kept(x, y, at) = y[at[2]]
      BY <2>3 DEF Back, Kept
    <3> QED  BY <2>1, <3>1, <3>2
  <2> QED  BY <2>2, <2>3
<1>3. rank \in [P -> 0 .. N] /\ prev \in [P -> P] /\ base \in [P -> W]
  <2>1. rank \in [P -> 0 .. N]
    BY <1>0
  <2>2. \A at \in P : (IF Origin(at) THEN at ELSE Back(x, y, at)) \in P
    BY <1>2
  <2>3. prev \in [P -> P]
    <3> HIDE DEF P
    <3> QED  BY <2>2
  <2>4. base \in [P -> W]
    OBVIOUS
  <2> QED  BY <2>1, <2>3, <2>4
<1>4. \A at \in P : rank[at] = 0 <=> Origin(at)
  OBVIOUS
<1>5. \A at \in P : rank[at] # 0 => rank[prev[at]] < rank[at]
  <2> TAKE at \in P
  <2> HAVE rank[at] # 0
  <2>1. ~ Origin(at)
    BY <1>4
  <2>2. prev[at] = Back(x, y, at)
    <3> HIDE DEF P
    <3> QED  BY <2>1
  <2> HIDE DEF prev, rank, P
  <2> QED  BY <1>2, <2>1, <2>2
<1>6. g \in [P \X W -> W]
  <2>1. ASSUME NEW q \in P \X W
        PROVE  (IF Origin(q[1]) THEN << >> ELSE Grown(x, y, q[1], q[2])) \in W
    <3>1. q[1] \in P /\ q[2] \in W
      OBVIOUS
    <3>2. CASE ~ Origin(q[1])
      <4>1. Kept(x, y, q[1]) \in Rec
        BY <1>2, <3>1, <3>2
      <4> HIDE DEF P
      <4> QED  BY <3>1, <3>2, <4>1 DEF Grown
    <3> QED  BY <3>2
  <2> HIDE DEF P, W, Origin
  <2> QED  BY <2>1
<1>7. Recursions(P, W, rank, prev, base, g) # {}
  <2> HIDE DEF P, W, rank, prev, base, g, N
  <2> QED  BY <1>0, <1>3, <1>5, <1>6, RankedRecursion
<1>8. PICK f \in [P -> W] :
        \A p \in P : f[p] = IF rank[p] = 0 THEN base[p] ELSE g[<<p, f[prev[p]]>>]
  <2> HIDE DEF P, W, rank, prev, base, g
  <2> QED  BY <1>7 DEF Recursions
<1>9. ASSUME NEW at \in P
      PROVE  f[at] = IF Origin(at) THEN << >> ELSE Grown(x, y, at, f[Back(x, y, at)])
  <2>1. CASE Origin(at)
    <3>1. f[at] = base[at] /\ base[at] = << >>
      BY <1>4, <1>8, <2>1
    <3> QED  BY <2>1, <3>1
  <2>2. CASE ~ Origin(at)
    <3>1. prev[at] = Back(x, y, at) /\ Back(x, y, at) \in P
      <4>1. Back(x, y, at) \in P
        BY <1>2, <2>2
      <4> HIDE DEF P
      <4> QED  BY <2>2, <4>1
    <3>2. f[at] = g[<<at, f[prev[at]]>>]
      <4>1. rank[at] # 0
        BY <1>4, <2>2
      <4> HIDE DEF P, rank, prev, base, g
      <4> QED  BY <1>8, <4>1
    <3>3. f[prev[at]] \in W
      <4> HIDE DEF P, W, prev
      <4> QED  BY <3>1
    <3>4. \A w \in W : g[<<at, w>>] = Grown(x, y, at, w)
      <4> HIDE DEF P, W
      <4> QED  BY <2>2
    <3> HIDE DEF P, g, prev, W
    <3> QED  BY <2>2, <3>1, <3>2, <3>3, <3>4
  <2> QED  BY <2>1, <2>2
<1>10. Eq(f)
  <2> HIDE DEF P, W, Origin
  <2> QED  BY <1>9
<1>11. Eq(run)
  <2> HIDE DEF Eq
  <2> QED  BY <1>10
<1>12. \A at \in P : run[at] = IF Origin(at) THEN << >>
                               ELSE Grown(x, y, at, run[Back(x, y, at)])
  <2> HIDE DEF run, P, Origin
  <2> QED  BY <1>11
<1> HIDE DEF run, Eq
<1> QED  BY <1>1, <1>12

Later(a, b) == IF Precedes(a, b) THEN b ELSE a

\* What the entries up to i and up to j of two vectors have in common: of each tag the
\* later entry.
Common(x, y, i, j) ==
  {Later(x[at[1]], y[at[2]]) :
     at \in {at \in (1 .. i) \X (1 .. j) : x[at[1]].tag = y[at[2]].tag}}

Joined(x, y, i, j, u) ==
  u \in Seq(Rec) /\ SortedFrom(u, 1) /\ Entries(u) = Common(x, y, i, j)

\* Membership, without the pairs.
LEMMA CommonEntries ==
  ASSUME NEW x, NEW y, NEW i \in Nat, NEW j \in Nat
  PROVE  /\ \A k \in 1 .. i, m \in 1 .. j :
              x[k].tag = y[m].tag => Later(x[k], y[m]) \in Common(x, y, i, j)
         /\ \A e \in Common(x, y, i, j) :
              \E k \in 1 .. i, m \in 1 .. j : x[k].tag = y[m].tag /\ e = Later(x[k], y[m])
<1>1. ASSUME NEW k \in 1 .. i, NEW m \in 1 .. j, x[k].tag = y[m].tag
      PROVE  Later(x[k], y[m]) \in Common(x, y, i, j)
  <2> DEFINE at == <<k, m>>
  <2>1. at \in (1 .. i) \X (1 .. j) /\ at[1] = k /\ at[2] = m
    OBVIOUS
  <2> HIDE DEF at
  <2> QED  BY <1>1, <2>1 DEF Common
<1>2. ASSUME NEW e \in Common(x, y, i, j)
      PROVE  \E k \in 1 .. i, m \in 1 .. j : x[k].tag = y[m].tag /\ e = Later(x[k], y[m])
  <2>1. PICK at \in (1 .. i) \X (1 .. j) :
          x[at[1]].tag = y[at[2]].tag /\ e = Later(x[at[1]], y[at[2]])
    BY DEF Common
  <2>2. at[1] \in 1 .. i /\ at[2] \in 1 .. j
    OBVIOUS
  <2> QED  BY <2>1, <2>2
<1> QED  BY <1>1, <1>2

\* The tags of the entries up to j.
LEMMA TagsUpTo ==
  ASSUME NEW y \in Seq(Rec), NEW j \in 0 .. Len(y)
  PROVE  TagsOf(SubSeq(y, 1, j)) = {y[m].tag : m \in 1 .. j}
<1> DEFINE s == SubSeq(y, 1, j)
<1>1. s \in Seq(Rec) /\ Len(s) = j /\ \A k \in 1 .. j : s[k] = y[k]
  OBVIOUS
<1> HIDE DEF s
<1>2. DOMAIN s = 1 .. j
  BY <1>1
<1>3. TagsOf(s) = {y[m].tag : m \in 1 .. j}
  BY <1>1, <1>2 DEF TagsOf
<1> QED  BY <1>3 DEF s

\* The next entry that the must join visits is the last of x: it goes behind the entries
\* that are still to come, if y holds its tag among those.
LEMMA VisitX ==
  ASSUME NEW x, Vector(x), NEW y, Vector(y), NEW i \in 1 .. Len(x), NEW j \in 0 .. Len(y),
         j = 0 \/ ~ Precedes(x[i], y[j]), NEW rest, Joined(x, y, i - 1, j, rest)
  PROVE  Joined(x, y, i, j, Grown(x, y, <<i, j>>, rest))
<1> DEFINE at == <<i, j>>
           new == Grown(x, y, at, rest)
           ahead == \E m \in 1 .. j : y[m].tag = x[i].tag
<1>0. /\ x \in Seq(Rec) /\ y \in Seq(Rec) /\ Len(x) \in Nat /\ Len(y) \in Nat
      /\ i \in Nat /\ j \in Nat /\ i - 1 \in Nat
      /\ \A k \in 1 .. Len(x) : x[k] \in Rec /\ \A m \in 1 .. Len(y) : y[m] \in Rec
      /\ \A k, m \in 1 .. Len(x) : k < m => Precedes(x[k], x[m])
      /\ \A k, m \in 1 .. Len(y) : k < m => Precedes(y[k], y[m])
      /\ \A k, m \in 1 .. Len(x) : x[k].tag = x[m].tag => k = m
  <2>1. /\ x \in Seq(Rec) /\ y \in Seq(Rec) /\ Len(x) \in Nat /\ Len(y) \in Nat
        /\ \A k, m \in 1 .. Len(x) : k < m => Precedes(x[k], x[m])
        /\ \A k, m \in 1 .. Len(y) : k < m => Precedes(y[k], y[m])
        /\ \A k, m \in 1 .. Len(x) : x[k].tag = x[m].tag => k = m
    BY VectorEntries
  <2> QED  BY <2>1
<1>1. new = IF ahead THEN Append(rest, x[i]) ELSE rest
  <2>1. at[1] = i /\ at[2] = j
    OBVIOUS
  <2> HIDE DEF at
  <2>2. TakesX(x, y, at)
    BY <1>0, <2>1 DEF TakesX
  <2>3. Kept(x, y, at) = x[i]
    BY <2>1, <2>2 DEF Kept
  <2>4. IsAhead(x, y, at) <=> ahead
    <3>1. TagsOf(SubSeq(y, 1, j)) = {y[m].tag : m \in 1 .. j}
      BY <1>0, TagsUpTo
    <3> QED  BY <2>1, <2>2, <2>3, <3>1 DEF IsAhead
  <2> QED  BY <2>3, <2>4 DEF Grown
<1> HIDE DEF new
<1>2. \A m \in 1 .. j : ~ Precedes(x[i], y[m])
  <2> TAKE m \in 1 .. j
  <2>1. m \in 1 .. Len(y) /\ j \in 1 .. Len(y) /\ (m = j \/ m < j) /\ j # 0
    BY <1>0
  <2>2. ~ Precedes(x[i], y[j]) /\ x[i] \in Rec /\ y[j] \in Rec /\ y[m] \in Rec
    BY <1>0, <2>1
  <2>3. m < j => Precedes(y[m], y[j])
    BY <1>0, <2>1
  <2> QED  BY <2>1, <2>2, <2>3, PrecedesOrders
<1>3. ASSUME NEW e \in Common(x, y, i - 1, j) PROVE Precedes(e, x[i]) /\ e \in Rec
  <2>1. PICK k \in 1 .. i - 1, m \in 1 .. j : x[k].tag = y[m].tag /\ e = Later(x[k], y[m])
    BY <1>0, CommonEntries
  <2>2. k \in 1 .. Len(x) /\ m \in 1 .. Len(y) /\ k < i /\ k # i
    BY <1>0
  <2>3. x[k] \in Rec /\ y[m] \in Rec /\ x[i] \in Rec /\ Precedes(x[k], x[i])
    BY <1>0, <2>2
  <2>4. y[m] # x[i]
    BY <1>0, <2>1, <2>2
  <2>5. Precedes(y[m], x[i])
    BY <1>2, <2>3, <2>4, PrecedesTotal
  <2> QED  BY <2>1, <2>3, <2>5 DEF Later
<1>4. ASSUME NEW e \in Common(x, y, i, j)
      PROVE  e \in Common(x, y, i - 1, j) \/ (ahead /\ e = x[i])
  <2>1. PICK k \in 1 .. i, m \in 1 .. j : x[k].tag = y[m].tag /\ e = Later(x[k], y[m])
    BY <1>0, CommonEntries
  <2>2. CASE k = i
    BY <1>2, <2>1, <2>2 DEF Later
  <2>3. CASE k # i
    <3>1. k \in 1 .. i - 1
      BY <1>0, <2>3
    <3>2. Later(x[k], y[m]) \in Common(x, y, i - 1, j)
      BY <1>0, <2>1, <3>1, CommonEntries
    <3> QED  BY <2>1, <3>2
  <2> QED  BY <2>2, <2>3
<1>5. ASSUME NEW e \in Common(x, y, i - 1, j) PROVE e \in Common(x, y, i, j)
  <2>1. PICK k \in 1 .. i - 1, m \in 1 .. j : x[k].tag = y[m].tag /\ e = Later(x[k], y[m])
    BY <1>0, CommonEntries
  <2>2. k \in 1 .. i
    BY <1>0
  <2> QED  BY <1>0, <2>1, <2>2, CommonEntries
<1>6. ahead => x[i] \in Common(x, y, i, j)
  <2> SUFFICES ASSUME NEW m \in 1 .. j, y[m].tag = x[i].tag PROVE x[i] \in Common(x, y, i, j)
    OBVIOUS
  <2>1. i \in 1 .. i /\ Later(x[i], y[m]) = x[i]
    BY <1>0, <1>2 DEF Later
  <2>2. Later(x[i], y[m]) \in Common(x, y, i, j)
    BY <1>0, <2>1, CommonEntries
  <2> QED  BY <2>1, <2>2
<1>7. CASE ahead
  <2>1. rest \in Seq(Rec) /\ SortedFrom(rest, 1) /\ Entries(rest) = Common(x, y, i - 1, j)
    BY DEF Joined
  <2>2. x[i] \in Rec /\ \A z \in Entries(rest) : Precedes(z, x[i])
    BY <1>0, <1>3, <2>1
  <2>3. /\ Append(rest, x[i]) \in Seq(Rec) /\ SortedFrom(Append(rest, x[i]), 1)
        /\ Entries(Append(rest, x[i])) = Entries(rest) \cup {x[i]}
    BY <2>1, <2>2, AppendEntry
  <2>4. Common(x, y, i, j) = Common(x, y, i - 1, j) \cup {x[i]}
    BY <1>4, <1>5, <1>6, <1>7
  <2> QED  BY <1>1, <1>7, <2>1, <2>3, <2>4 DEF Joined, new
<1>8. CASE ~ ahead
  <2>1. Common(x, y, i, j) = Common(x, y, i - 1, j)
    BY <1>4, <1>5, <1>8
  <2> QED  BY <1>1, <1>8, <2>1 DEF Joined, new
<1> QED  BY <1>7, <1>8

\* The next entry visited is the last of y: likewise.
LEMMA VisitY ==
  ASSUME NEW x, Vector(x), NEW y, Vector(y), NEW i \in 0 .. Len(x), NEW j \in 1 .. Len(y),
         i = 0 \/ Precedes(x[i], y[j]), NEW rest, Joined(x, y, i, j - 1, rest)
  PROVE  Joined(x, y, i, j, Grown(x, y, <<i, j>>, rest))
<1> DEFINE at == <<i, j>>
           new == Grown(x, y, at, rest)
           ahead == \E k \in 1 .. i : x[k].tag = y[j].tag
<1>0. /\ x \in Seq(Rec) /\ y \in Seq(Rec) /\ Len(x) \in Nat /\ Len(y) \in Nat
      /\ i \in Nat /\ j \in Nat /\ j - 1 \in Nat
      /\ \A k \in 1 .. Len(x) : x[k] \in Rec /\ \A m \in 1 .. Len(y) : y[m] \in Rec
      /\ \A m \in 1 .. Len(y) : y[m] \in Rec
      /\ \A k, m \in 1 .. Len(x) : k < m => Precedes(x[k], x[m])
      /\ \A k, m \in 1 .. Len(y) : k < m => Precedes(y[k], y[m])
  <2>1. /\ x \in Seq(Rec) /\ y \in Seq(Rec) /\ Len(x) \in Nat /\ Len(y) \in Nat
        /\ \A k, m \in 1 .. Len(x) : k < m => Precedes(x[k], x[m])
        /\ \A k, m \in 1 .. Len(y) : k < m => Precedes(y[k], y[m])
    BY VectorEntries
  <2> QED  BY <2>1
<1>1. new = IF ahead THEN Append(rest, y[j]) ELSE rest
  <2>1. at[1] = i /\ at[2] = j
    OBVIOUS
  <2> HIDE DEF at
  <2>2. ~ TakesX(x, y, at)
    BY <1>0, <2>1 DEF TakesX
  <2>3. Kept(x, y, at) = y[j]
    BY <2>1, <2>2 DEF Kept
  <2>4. IsAhead(x, y, at) <=> ahead
    <3>1. TagsOf(SubSeq(x, 1, i)) = {x[k].tag : k \in 1 .. i}
      BY <1>0, TagsUpTo
    <3> QED  BY <2>1, <2>2, <2>3, <3>1 DEF IsAhead
  <2> QED  BY <2>3, <2>4 DEF Grown
<1> HIDE DEF new
<1>2. \A k \in 1 .. i : Precedes(x[k], y[j])
  <2> TAKE k \in 1 .. i
  <2>1. k \in 1 .. Len(x) /\ i \in 1 .. Len(x) /\ (k = i \/ k < i) /\ i # 0
    BY <1>0
  <2>2. Precedes(x[i], y[j]) /\ x[i] \in Rec /\ y[j] \in Rec /\ x[k] \in Rec
    BY <1>0, <2>1
  <2>3. k < i => Precedes(x[k], x[i])
    BY <1>0, <2>1
  <2> QED  BY <2>1, <2>2, <2>3, PrecedesOrders
<1>3. ASSUME NEW e \in Common(x, y, i, j - 1) PROVE Precedes(e, y[j]) /\ e \in Rec
  <2>1. PICK k \in 1 .. i, m \in 1 .. j - 1 : x[k].tag = y[m].tag /\ e = Later(x[k], y[m])
    BY <1>0, CommonEntries
  <2>2. k \in 1 .. Len(x) /\ m \in 1 .. Len(y) /\ m < j
    BY <1>0
  <2>3. x[k] \in Rec /\ y[m] \in Rec /\ Precedes(y[m], y[j]) /\ Precedes(x[k], y[j])
    BY <1>0, <1>2, <2>2
  <2> QED  BY <2>1, <2>3 DEF Later
<1>4. ASSUME NEW e \in Common(x, y, i, j)
      PROVE  e \in Common(x, y, i, j - 1) \/ (ahead /\ e = y[j])
  <2>1. PICK k \in 1 .. i, m \in 1 .. j : x[k].tag = y[m].tag /\ e = Later(x[k], y[m])
    BY <1>0, CommonEntries
  <2>2. CASE m = j
    BY <1>2, <2>1, <2>2 DEF Later
  <2>3. CASE m # j
    <3>1. m \in 1 .. j - 1
      BY <1>0, <2>3
    <3>2. Later(x[k], y[m]) \in Common(x, y, i, j - 1)
      BY <1>0, <2>1, <3>1, CommonEntries
    <3> QED  BY <2>1, <3>2
  <2> QED  BY <2>2, <2>3
<1>5. ASSUME NEW e \in Common(x, y, i, j - 1) PROVE e \in Common(x, y, i, j)
  <2>1. PICK k \in 1 .. i, m \in 1 .. j - 1 : x[k].tag = y[m].tag /\ e = Later(x[k], y[m])
    BY <1>0, CommonEntries
  <2>2. m \in 1 .. j
    BY <1>0
  <2> QED  BY <1>0, <2>1, <2>2, CommonEntries
<1>6. ahead => y[j] \in Common(x, y, i, j)
  <2> SUFFICES ASSUME NEW k \in 1 .. i, x[k].tag = y[j].tag PROVE y[j] \in Common(x, y, i, j)
    OBVIOUS
  <2>1. j \in 1 .. j /\ Later(x[k], y[j]) = y[j]
    BY <1>0, <1>2 DEF Later
  <2>2. Later(x[k], y[j]) \in Common(x, y, i, j)
    BY <1>0, <2>1, CommonEntries
  <2> QED  BY <2>1, <2>2
<1>7. CASE ahead
  <2>1. rest \in Seq(Rec) /\ SortedFrom(rest, 1) /\ Entries(rest) = Common(x, y, i, j - 1)
    BY DEF Joined
  <2>2. y[j] \in Rec /\ \A z \in Entries(rest) : Precedes(z, y[j])
    BY <1>0, <1>3, <2>1
  <2>3. /\ Append(rest, y[j]) \in Seq(Rec) /\ SortedFrom(Append(rest, y[j]), 1)
        /\ Entries(Append(rest, y[j])) = Entries(rest) \cup {y[j]}
    BY <2>1, <2>2, AppendEntry
  <2>4. Common(x, y, i, j) = Common(x, y, i, j - 1) \cup {y[j]}
    BY <1>4, <1>5, <1>6, <1>7
  <2> QED  BY <1>1, <1>7, <2>1, <2>3, <2>4 DEF Joined, new
<1>8. CASE ~ ahead
  <2>1. Common(x, y, i, j) = Common(x, y, i, j - 1)
    BY <1>4, <1>5, <1>8
  <2> QED  BY <1>1, <1>8, <2>1 DEF Joined, new
<1> QED  BY <1>7, <1>8

\* The join keeps what both vectors hold, each with the later entry.
LEMMA MustJoinEntries ==
  ASSUME NEW x, Vector(x), NEW y, Vector(y)
  PROVE  Joined(x, y, Len(x), Len(y), MustJoin(x, y))
<1>0. x \in Seq(Rec) /\ y \in Seq(Rec) /\ Len(x) \in Nat /\ Len(y) \in Nat
  BY VectorEntries
<1>1. PICK f : /\ \A at \in (0 .. Len(x)) \X (0 .. Len(y)) :
                     f[at] = IF at[1] = 0 /\ at[2] = 0 THEN << >>
                             ELSE Grown(x, y, at, f[Back(x, y, at)])
               /\ MustJoin(x, y) = f[<<Len(x), Len(y)>>]
  BY <1>0, MustJoinSteps
<1>2. \A i \in 0 .. Len(x), j \in 0 .. Len(y) :
        f[<<i, j>>] = IF i = 0 /\ j = 0 THEN << >>
                      ELSE Grown(x, y, <<i, j>>, f[Back(x, y, <<i, j>>)])
  <2> TAKE i \in 0 .. Len(x), j \in 0 .. Len(y)
  <2> DEFINE at == <<i, j>>
  <2>1. at \in (0 .. Len(x)) \X (0 .. Len(y)) /\ at[1] = i /\ at[2] = j
    OBVIOUS
  <2> HIDE DEF at
  <2>2. f[at] = IF i = 0 /\ j = 0 THEN << >> ELSE Grown(x, y, at, f[Back(x, y, at)])
    BY <1>1, <2>1
  <2> QED  BY <2>2 DEF at
<1> DEFINE Good(i, j) == Joined(x, y, i, j, f[<<i, j>>])
           S == {n \in Nat : \A i \in 0 .. Len(x), j \in 0 .. Len(y) : i + j = n => Good(i, j)}
<1>3. Good(0, 0)
  <2>1. f[<<0, 0>>] = << >>
    BY <1>0, <1>2
  <2>2. Entries(<< >>) = {} /\ SortedFrom(<< >>, 1) /\ << >> \in Seq(Rec)
    BY DEF Entries, EntriesFrom, SortedFrom
  <2>3. Common(x, y, 0, 0) = {}
    <3>1. \A e \in Common(x, y, 0, 0) : FALSE
      BY CommonEntries
    <3> QED  BY <3>1
  <2> QED  BY <2>1, <2>2, <2>3 DEF Joined
<1>4. 0 \in S
  <2>1. \A i \in 0 .. Len(x), j \in 0 .. Len(y) : i + j = 0 => i = 0 /\ j = 0
    BY <1>0
  <2> HIDE DEF Good
  <2> QED  BY <1>3, <2>1
<1>5. ASSUME NEW n \in Nat, n \in S PROVE n + 1 \in S
  <2> SUFFICES ASSUME NEW i \in 0 .. Len(x), NEW j \in 0 .. Len(y), i + j = n + 1
               PROVE  Good(i, j)
    OBVIOUS
  <2>0. i \in Nat /\ j \in Nat /\ ~ (i = 0 /\ j = 0)
    BY <1>5
  <2> DEFINE at == <<i, j>>
  <2>1. at[1] = i /\ at[2] = j /\ f[at] = Grown(x, y, at, f[Back(x, y, at)])
    BY <1>2, <2>0
  <2>2. CASE i > 0 /\ (j = 0 \/ ~ Precedes(x[i], y[j]))
    <3>1. Back(x, y, at) = <<i - 1, j>>
      <4> HIDE DEF at
      <4> QED  BY <2>1, <2>2 DEF Back, TakesX
    <3>2. i - 1 \in 0 .. Len(x) /\ (i - 1) + j = n /\ i \in 1 .. Len(x)
      BY <1>0, <2>0, <2>2
    <3>3. Joined(x, y, i - 1, j, f[<<i - 1, j>>])
      BY <1>5, <3>2
    <3>4. Joined(x, y, i, j, Grown(x, y, <<i, j>>, f[<<i - 1, j>>]))
      BY <2>2, <3>2, <3>3, VisitX
    <3> QED  BY <2>1, <3>1, <3>4
  <2>3. CASE ~ (i > 0 /\ (j = 0 \/ ~ Precedes(x[i], y[j])))
    <3>1. Back(x, y, at) = <<i, j - 1>>
      <4> HIDE DEF at
      <4> QED  BY <2>1, <2>3 DEF Back, TakesX
    <3>2. j - 1 \in 0 .. Len(y) /\ i + (j - 1) = n /\ j \in 1 .. Len(y)
      BY <1>0, <2>0, <2>3
    <3>3. Joined(x, y, i, j - 1, f[<<i, j - 1>>])
      BY <1>5, <3>2
    <3>5. i = 0 \/ Precedes(x[i], y[j])
      BY <2>0, <2>3, <3>2
    <3>4. Joined(x, y, i, j, Grown(x, y, <<i, j>>, f[<<i, j - 1>>]))
      BY <3>2, <3>3, <3>5, VisitY
    <3> QED  BY <2>1, <3>1, <3>4
  <2> QED  BY <2>2, <2>3
<1>6. Len(x) + Len(y) \in S
  <2> HIDE DEF S
  <2>1. \A n \in Nat : n \in S
    BY <1>4, <1>5, NaturalInduction
  <2>2. Len(x) + Len(y) \in Nat
    BY <1>0
  <2> QED  BY <2>1, <2>2
<1>7. Good(Len(x), Len(y))
  <2>1. Len(x) \in 0 .. Len(x) /\ Len(y) \in 0 .. Len(y)
    BY <1>0
  <2> HIDE DEF Good
  <2> QED  BY <1>6, <2>1
<1> QED  BY <1>1, <1>7

\* The later one of two entries of a tag is the older one.
LEMMA LaterIsOlder ==
  ASSUME NEW a \in Rec, NEW b \in Rec, a.tag = b.tag
  PROVE  /\ Later(a, b) \in Rec /\ Later(a, b).tag = a.tag
         /\ Later(a, b).age = IF a.age < b.age THEN b.age ELSE a.age
         /\ a.age \in Nat /\ b.age \in Nat
<1>1. a.tag \in Nat /\ a.age \in Nat /\ b.age \in Nat
  BY DEF Rec
<1>2. Precedes(a, b) <=> a.age < b.age
  BY <1>1 DEF Precedes
<1> QED  BY <1>1, <1>2 DEF Later

\* The must join keeps of each line the greater bound.
LEMMA MustJoinAges ==
  ASSUME NEW x, MustVector(x), NEW y, MustVector(y)
  PROVE  /\ MustVector(MustJoin(x, y))
         /\ \A u : MustAge(MustJoin(x, y), u) =
                     IF MustAge(x, u) < MustAge(y, u) THEN MustAge(y, u) ELSE MustAge(x, u)
<1> DEFINE w == MustJoin(x, y)
           es == Common(x, y, Len(x), Len(y))
<1>0. Vector(x) /\ Vector(y) /\ Len(x) \in Nat /\ Len(y) \in Nat /\ Assoc \in Nat \ {0}
  <2>1. Vector(x) /\ Vector(y)
    BY DEF MustVector
  <2> QED  BY <2>1, VectorEntries, AssocAssumption
<1>1. w \in Seq(Rec) /\ SortedFrom(w, 1) /\ Entries(w) = es
  BY <1>0, MustJoinEntries DEF Joined
<1> HIDE DEF w
<1>2. /\ \A a \in Entries(x), b \in Entries(y) : a.tag = b.tag => Later(a, b) \in es
      /\ \A e \in es : \E a \in Entries(x), b \in Entries(y) : a.tag = b.tag /\ e = Later(a, b)
  <2>1. ASSUME NEW a \in Entries(x), NEW b \in Entries(y), a.tag = b.tag
        PROVE  Later(a, b) \in es
    <3>1. PICK k \in 1 .. Len(x) : a = x[k]
      BY <1>0, VectorEntries
    <3>2. PICK m \in 1 .. Len(y) : b = y[m]
      BY <1>0, VectorEntries
    <3> QED  BY <1>0, <2>1, <3>1, <3>2, CommonEntries
  <2>2. ASSUME NEW e \in es
        PROVE  \E a \in Entries(x), b \in Entries(y) : a.tag = b.tag /\ e = Later(a, b)
    <3>0. e \in Common(x, y, Len(x), Len(y)) /\ Len(x) \in Nat /\ Len(y) \in Nat
      BY <1>0
    <3>1. PICK k \in 1 .. Len(x), m \in 1 .. Len(y) : x[k].tag = y[m].tag /\ e = Later(x[k], y[m])
      <4>1. \A n, m \in Nat : \A c \in Common(x, y, n, m) :
              \E k \in 1 .. n, l \in 1 .. m : x[k].tag = y[l].tag /\ c = Later(x[k], y[l])
        BY CommonEntries
      <4> HIDE DEF es
      <4> QED  BY <3>0, <4>1
    <3>2. x[k] \in Entries(x) /\ y[m] \in Entries(y)
      BY DEF Entries, EntriesFrom
    <3> QED  BY <3>1, <3>2
  <2> HIDE DEF es
  <2> QED  BY <2>1, <2>2
<1> HIDE DEF es
<1>3. /\ \A a \in Entries(x) : a \in Rec /\ a.age \in Nat /\ a.age < Assoc
      /\ \A b \in Entries(y) : b \in Rec /\ b.age \in Nat /\ b.age < Assoc
      /\ OneEntryPerTag(Entries(x)) /\ OneEntryPerTag(Entries(y))
  <2>1. \A a \in Entries(x) : a \in Rec /\ a.age \in Nat /\ a.age < Assoc
    BY <1>0, VectorEntries, MustVectorFits
  <2>2. \A b \in Entries(y) : b \in Rec /\ b.age \in Nat /\ b.age < Assoc
    BY <1>0, VectorEntries, MustVectorFits
  <2> QED  BY <1>0, <2>1, <2>2 DEF Vector
<1>4. OneEntryPerTag(es)
  <2> SUFFICES ASSUME NEW e \in es, NEW g \in es, e.tag = g.tag PROVE e = g
    BY DEF OneEntryPerTag
  <2>1. PICK a \in Entries(x), b \in Entries(y) : a.tag = b.tag /\ e = Later(a, b)
    BY <1>2
  <2>2. PICK c \in Entries(x), d \in Entries(y) : c.tag = d.tag /\ g = Later(c, d)
    BY <1>2
  <2>3. e.tag = a.tag /\ g.tag = c.tag
    BY <1>3, <2>1, <2>2, LaterIsOlder
  <2>4. a = c /\ b = d
    BY <1>3, <2>1, <2>2, <2>3 DEF OneEntryPerTag
  <2> QED  BY <2>1, <2>2, <2>4
<1>5. Vector(w)
  BY <1>1, <1>4 DEF Vector
<1>6. \A e \in Entries(w) : /\ e.age < Assoc
                            /\ \E a \in Entries(x) : a.tag = e.tag /\ a.age <= e.age
  <2> TAKE e \in Entries(w)
  <2>1. PICK a \in Entries(x), b \in Entries(y) : a.tag = b.tag /\ e = Later(a, b)
    BY <1>1, <1>2
  <2>2. e.tag = a.tag /\ e.age = (IF a.age < b.age THEN b.age ELSE a.age)
    BY <1>3, <2>1, LaterIsOlder
  <2>3. a.age \in Nat /\ b.age \in Nat /\ a.age < Assoc /\ b.age < Assoc
    BY <1>3
  <2> QED  BY <2>2, <2>3
<1>7. MustVector(w)
  <2>1. \A i \in 1 .. Len(w) : i - 1 <= w[i].age
    <3>1. \A e \in Entries(w) : \E a \in Entries(x) : a.tag = e.tag /\ a.age <= e.age
      BY <1>6
    <3> QED  BY <1>5, <3>1, FitsByTags
  <2>2. \A i \in 1 .. Len(w) : w[i] \in Entries(w)
    BY <1>5, VectorEntries
  <2> QED  BY <1>5, <1>6, <2>1, <2>2 DEF MustVector
<1>8. ASSUME NEW u
      PROVE  MustAge(w, u) = IF MustAge(x, u) < MustAge(y, u) THEN MustAge(y, u) ELSE MustAge(x, u)
  <2>1. MustAge(w, u) \in 0 .. Assoc /\ MustAge(x, u) \in 0 .. Assoc /\ MustAge(y, u) \in 0 .. Assoc
    BY <1>7, MustAges
  <2>2. CASE MustAge(x, u) < Assoc /\ MustAge(y, u) < Assoc
    <3> DEFINE a == EntryOf(u, MustAge(x, u))
               b == EntryOf(u, MustAge(y, u))
    <3>1. a \in Entries(x) /\ b \in Entries(y) /\ u \in Nat
      BY <2>2, MustAges
    <3>2. a.tag = u /\ b.tag = u /\ a.age = MustAge(x, u) /\ b.age = MustAge(y, u)
      BY <1>0, <2>1, <3>1, EntryIsRec
    <3> HIDE DEF a, b
    <3>3. /\ Later(a, b) \in Entries(w) /\ Later(a, b).tag = u
          /\ Later(a, b).age = IF a.age < b.age THEN b.age ELSE a.age
      BY <1>1, <1>2, <1>3, <3>1, <3>2, LaterIsOlder
    <3>4. MustAge(w, u) = Later(a, b).age
      BY <1>7, <3>3, MustAges
    <3> QED  BY <3>2, <3>3, <3>4
  <2>3. CASE ~ (MustAge(x, u) < Assoc /\ MustAge(y, u) < Assoc)
    <3>1. ASSUME MustAge(w, u) < Assoc PROVE FALSE
      <4>1. EntryOf(u, MustAge(w, u)) \in Entries(w) /\ u \in Nat
        BY <1>7, <3>1, MustAges
      <4>2. EntryOf(u, MustAge(w, u)).tag = u
        BY <2>1, <4>1, EntryIsRec
      <4>3. PICK a \in Entries(x), b \in Entries(y) : a.tag = b.tag
                                                     /\ EntryOf(u, MustAge(w, u)) = Later(a, b)
        BY <1>1, <1>2, <4>1
      <4>4. a.tag = u /\ b.tag = u
        BY <1>3, <4>2, <4>3, LaterIsOlder
      <4>5. MustAge(x, u) < Assoc /\ MustAge(y, u) < Assoc
        BY <4>4, MustAges
      <4> QED  BY <2>3, <4>5
    <3>2. MustAge(w, u) = Assoc /\ (MustAge(x, u) = Assoc \/ MustAge(y, u) = Assoc)
      BY <1>0, <2>1, <2>3, <3>1
    <3> QED  BY <1>0, <2>1, <3>2
  <2> QED  BY <2>2, <2>3
<1> QED  BY <1>7, <1>8 DEF w

\* lessequal() of the must analysis compares the bounds.
LEMMA MustLessEqualAges ==
  ASSUME NEW x, MustVector(x), NEW y, MustVector(y)
  PROVE  MustLessEqual(x, y) <=> \A u \in Nat : MustAge(x, u) <= MustAge(y, u)
<1> DEFINE w == MustJoin(x, y)
<1>1. /\ MustVector(w)
      /\ \A u : MustAge(w, u) =
                  IF MustAge(x, u) < MustAge(y, u) THEN MustAge(y, u) ELSE MustAge(x, u)
  BY MustJoinAges
<1>2. MustLessEqual(x, y) <=> w = y
  BY DEF MustLessEqual
<1> HIDE DEF w
<1>3. \A u : MustAge(x, u) \in 0 .. Assoc /\ MustAge(y, u) \in 0 .. Assoc
  BY MustAges
<1>4. ASSUME w = y, NEW u \in Nat PROVE MustAge(x, u) <= MustAge(y, u)
  <2>1. MustAge(w, u) = MustAge(y, u)
    BY <1>4
  <2> QED  BY <1>1, <1>3, <2>1
<1>5. ASSUME \A u \in Nat : MustAge(x, u) <= MustAge(y, u) PROVE w = y
  <2>1. \A u \in Nat : MustAge(w, u) = MustAge(y, u)
    <3> TAKE u \in Nat
    <3>1. MustAge(x, u) <= MustAge(y, u) /\ MustAge(x, u) \in 0 .. Assoc /\ MustAge(y, u) \in 0 .. Assoc
      BY <1>3, <1>5
    <3>2. MustAge(w, u) =
                  IF MustAge(x, u) < MustAge(y, u) THEN MustAge(y, u) ELSE MustAge(x, u)
      BY <1>1
    <3> QED  BY <3>1, <3>2, AssocAssumption
  <2> QED  BY <1>1, <2>1, EqualMust
<1> QED  BY <1>2, <1>4, <1>5

\* The order of the operands does not matter.
LEMMA MustJoinCommutes ==
  ASSUME NEW x, MustVector(x), NEW y, MustVector(y)
  PROVE  MustJoin(x, y) = MustJoin(y, x)
<1> DEFINE w == MustJoin(x, y)
           z == MustJoin(y, x)
<1>1. /\ MustVector(w)
      /\ \A u : MustAge(w, u) =
                  IF MustAge(x, u) < MustAge(y, u) THEN MustAge(y, u) ELSE MustAge(x, u)
  BY MustJoinAges
<1>2. /\ MustVector(z)
      /\ \A u : MustAge(z, u) =
                  IF MustAge(y, u) < MustAge(x, u) THEN MustAge(x, u) ELSE MustAge(y, u)
  BY MustJoinAges
<1> HIDE DEF w, z
<1>3. \A u : MustAge(x, u) \in 0 .. Assoc /\ MustAge(y, u) \in 0 .. Assoc
  BY MustAges
<1>4. \A u \in Nat : MustAge(w, u) = MustAge(z, u)
  <2> TAKE u \in Nat
  <2> DEFINE a == MustAge(x, u)
             b == MustAge(y, u)
  <2>1. a \in Int /\ b \in Int
    BY <1>3
  <2>2. MustAge(w, u) = (IF a < b THEN b ELSE a) /\ MustAge(z, u) = (IF b < a THEN a ELSE b)
    BY <1>1, <1>2
  <2> HIDE DEF a, b
  <2> QED  BY <2>1, <2>2
<1>5. w = z
  BY <1>1, <1>2, <1>4, EqualMust
<1> QED  BY <1>5 DEF w, z

\* An access keeps the order of two must states, whether the caller assumes a hit or not:
\* what update() needs for the worklist to reach a fixpoint. A hit is not assumed of a line
\* that a full vector does not hold (classify() calls it a miss).
THEOREM MustUpdateIsMonotone ==
  ASSUME NEW x, MustVector(x), NEW y, MustVector(y), NEW t \in Nat, MustLessEqual(x, y),
         NEW hit \in BOOLEAN, \A z \in {x, y} : hit => t \in TagsOf(z) \/ Len(z) < Assoc
  PROVE  MustLessEqual(MustUpdate(x, t, hit), MustUpdate(y, t, hit))
<1> DEFINE a == MustUpdate(x, t, hit)
           b == MustUpdate(y, t, hit)
           unknown == IF hit THEN Assoc - 1 ELSE Assoc
<1>0. unknown \in Nat /\ unknown <= Assoc /\ unknown >= Assoc - 1 /\ Assoc \in Nat
  BY AssocAssumption
<1>1. \A u \in Nat : MustAge(x, u) <= MustAge(y, u)
  BY MustLessEqualAges
<1> HIDE DEF unknown
<1>2. ASSUME NEW z \in {x, y}, NEW u
      PROVE  /\ MustVector(MustUpdate(z, t, hit)) /\ MustAge(z, u) \in Nat /\ MustAge(z, u) <= Assoc
             /\ AccessedAge(z, t, hit) = IF MustAge(z, t) < Assoc THEN MustAge(z, t) ELSE unknown
             /\ MustAge(MustUpdate(z, t, hit), u) =
                  IF u = t THEN 0
                  ELSE IF MustAge(z, u) < AccessedAge(z, t, hit) THEN MustAge(z, u) + 1
                  ELSE MustAge(z, u)
  <2>0. MustVector(z)
    BY <1>2
  <2>1. AccessedAge(z, t, hit) = IF MustAge(z, t) < Assoc THEN MustAge(z, t) ELSE unknown
    <3>1. t \in TagsOf(z) <=> MustAge(z, t) < Assoc
      BY <2>0, MustAges
    <3> QED  BY <3>1 DEF AccessedAge, unknown
  <2>2. /\ MustVector(MustUpdate(z, t, hit))
        /\ MustAge(MustUpdate(z, t, hit), u) =
             IF u = t THEN 0
             ELSE IF MustAge(z, u) < AccessedAge(z, t, hit) THEN MustAge(z, u) + 1
             ELSE MustAge(z, u)
    <3>1. hit => t \in TagsOf(z) \/ Len(z) < Assoc
      BY <1>2
    <3> QED  BY <2>0, <3>1, MustUpdateAges
  <2>3. MustAge(z, u) \in 0 .. Assoc
    BY <2>0, MustAges
  <2>4. MustAge(z, u) \in Nat /\ MustAge(z, u) <= Assoc
    BY <1>0, <2>3
  <2> QED  BY <2>1, <2>2, <2>4
<1>3. MustVector(a) /\ MustVector(b)
  BY <1>2
<1> DEFINE m == AccessedAge(x, t, hit)
           n == AccessedAge(y, t, hit)
<1>4. m \in Nat /\ n \in Nat /\ m <= n
  <2>1. /\ MustAge(x, t) \in Nat /\ MustAge(y, t) \in Nat /\ MustAge(x, t) <= MustAge(y, t)
        /\ MustAge(y, t) <= Assoc
    BY <1>1, <1>2
  <2>2. /\ m = IF MustAge(x, t) < Assoc THEN MustAge(x, t) ELSE unknown
        /\ n = IF MustAge(y, t) < Assoc THEN MustAge(y, t) ELSE unknown
    BY <1>2
  <2> HIDE DEF m, n
  <2> QED  BY <1>0, <2>1, <2>2
<1>5. ASSUME NEW u \in Nat PROVE MustAge(a, u) <= MustAge(b, u)
  <2>1. MustAge(x, u) \in Nat /\ MustAge(y, u) \in Nat /\ MustAge(x, u) <= MustAge(y, u)
    BY <1>1, <1>2
  <2>2. MustAge(a, u) = IF u = t THEN 0
                        ELSE IF MustAge(x, u) < m THEN MustAge(x, u) + 1 ELSE MustAge(x, u)
    BY <1>2
  <2>3. MustAge(b, u) = IF u = t THEN 0
                        ELSE IF MustAge(y, u) < n THEN MustAge(y, u) + 1 ELSE MustAge(y, u)
    BY <1>2
  <2> HIDE DEF a, b, m, n
  <2> QED  BY <1>4, <2>1, <2>2, <2>3
<1> HIDE DEF a, b
<1>6. MustLessEqual(a, b)
  BY <1>3, <1>5, MustLessEqualAges
<1> QED  BY <1>6 DEF a, b

-----------------------------------------------------------------------------
\* The may analysis: join() and lessequal().

\* A least entry is put in front.
LEMMA PrependEntry ==
  ASSUME NEW u \in Seq(Rec), SortedFrom(u, 1), NEW e \in Rec,
         \A z \in Entries(u) : Precedes(e, z)
  PROVE  /\ <<e>> \o u \in Seq(Rec) /\ SortedFrom(<<e>> \o u, 1)
         /\ Entries(<<e>> \o u) = Entries(u) \cup {e}
<1> DEFINE w == <<e>> \o u
<1>0. Len(u) \in Nat
  OBVIOUS
<1>2. /\ w \in Seq(Rec) /\ Len(w) = Len(u) + 1
      /\ w[1] = e /\ \A k \in 1 .. Len(u) : w[k + 1] = u[k]
  <2>1. <<e>> \in Seq(Rec) /\ Len(<<e>>) = 1 /\ <<e>>[1] = e
    OBVIOUS
  <2>2. /\ w \in Seq(Rec) /\ Len(w) = 1 + Len(u)
        /\ \A k \in 1 .. 1 + Len(u) : w[k] = IF k <= 1 THEN <<e>>[k] ELSE u[k - 1]
    BY <2>1, ConcatProperties
  <2>3. w[1] = e
    BY <1>0, <2>1, <2>2
  <2>4. ASSUME NEW k \in 1 .. Len(u) PROVE w[k + 1] = u[k]
    <3>1. k + 1 \in 1 .. 1 + Len(u) /\ ~ (k + 1 <= 1) /\ (k + 1) - 1 = k
      BY <1>0
    <3> QED  BY <2>2, <3>1
  <2> QED  BY <1>0, <2>2, <2>3, <2>4
<1> HIDE DEF w
<1>3. \A k \in 1 .. Len(w) : k = 1 \/ (k - 1 \in 1 .. Len(u) /\ w[k] = u[k - 1])
  <2> TAKE k \in 1 .. Len(w)
  <2>1. k = 1 \/ (k - 1 \in 1 .. Len(u) /\ (k - 1) + 1 = k)
    BY <1>0, <1>2
  <2> QED  BY <1>2, <2>1
<1>4. SortedFrom(w, 1)
  <2> SUFFICES ASSUME NEW j \in 1 .. Len(w), NEW k \in 1 .. Len(w), j < k
               PROVE  Precedes(w[j], w[k])
    BY DEF SortedFrom
  <2>0. k # 1 /\ k - 1 \in 1 .. Len(u) /\ w[k] = u[k - 1]
    BY <1>0, <1>2, <1>3
  <2>1. CASE j = 1
    <3>1. w[k] \in Entries(u)
      BY <2>0 DEF Entries, EntriesFrom
    <3> QED  BY <1>2, <2>1, <3>1
  <2>2. CASE j # 1
    <3>1. j - 1 \in 1 .. Len(u) /\ w[j] = u[j - 1] /\ j - 1 < k - 1
      BY <1>0, <1>2, <1>3, <2>2
    <3> QED  BY <2>0, <3>1 DEF SortedFrom
  <2> QED  BY <2>1, <2>2
<1>5. Entries(w) = Entries(u) \cup {e}
  <2>1. ASSUME NEW z \in Entries(w) PROVE z \in Entries(u) \cup {e}
    <3>1. PICK k \in 1 .. Len(w) : z = w[k]
      BY <2>1 DEF Entries, EntriesFrom
    <3>2. CASE k = 1
      BY <1>2, <3>1, <3>2
    <3>3. CASE k # 1
      <4>1. k - 1 \in 1 .. Len(u) /\ z = u[k - 1]
        BY <1>3, <3>1, <3>3
      <4> QED  BY <4>1 DEF Entries, EntriesFrom
    <3> QED  BY <3>2, <3>3
  <2>2. e \in Entries(w)
    <3>1. 1 \in 1 .. Len(w)
      BY <1>0, <1>2
    <3> QED  BY <1>2, <3>1 DEF Entries, EntriesFrom
  <2>3. ASSUME NEW z \in Entries(u) PROVE z \in Entries(w)
    <3>1. PICK k \in 1 .. Len(u) : z = u[k]
      BY <2>3 DEF Entries, EntriesFrom
    <3>2. k + 1 \in 1 .. Len(w) /\ w[k + 1] = z
      BY <1>0, <1>2, <3>1
    <3> QED  BY <3>2 DEF Entries, EntriesFrom
  <2> QED  BY <2>1, <2>2, <2>3
<1> QED  BY <1>2, <1>4, <1>5 DEF w

\* One step of the may join, which visits the lesser one of two entries.
TakesLesserX(x, y, at) ==
  at[1] <= Len(x) /\ (at[2] > Len(y) \/ IsLesser(x[at[1]], y[at[2]]))
KeptLesser(x, y, at) == IF TakesLesserX(x, y, at) THEN x[at[1]] ELSE y[at[2]]
Onward(x, y, at) ==
  IF TakesLesserX(x, y, at) THEN <<at[1] + 1, at[2]>> ELSE <<at[1], at[2] + 1>>
IsSeen(x, y, at) ==
  KeptLesser(x, y, at).tag \in (IF TakesLesserX(x, y, at) THEN TagsOf(SubSeq(y, 1, at[2] - 1))
                                ELSE TagsOf(SubSeq(x, 1, at[1] - 1)))
Prepended(x, y, at, rest) ==
  IF IsSeen(x, y, at) THEN rest ELSE <<KeptLesser(x, y, at)>> \o rest

\* f is the recursion of the may join.
MergeSteps(f, x, y) ==
  \A at \in (1 .. Len(x) + 1) \X (1 .. Len(y) + 1) :
    f[at] = IF at[1] > Len(x) /\ at[2] > Len(y) THEN << >>
            ELSE Prepended(x, y, at, f[Onward(x, y, at)])

\* The least of the implicit bounds, and a vector cut off there.
Lowest(s, r) == IF s.implicit <= r.implicit THEN s.implicit ELSE r.implicit
CutOff(u, n) == RemoveRedundantTags([explicit |-> u, implicit |-> n])

\* The may join visits the entries of both vectors from the front, by a recursion over pairs
\* of positions, and drops what is redundant in the end.
LEMMA MayJoinSteps ==
  ASSUME NEW s, NEW r, NEW x \in Seq(Rec), NEW y \in Seq(Rec), s.explicit = x, r.explicit = y
  PROVE  \E f : MergeSteps(f, x, y) /\ MayJoin(s, r) = CutOff(f[<<1, 1>>], Lowest(s, r))
<1> DEFINE P == (1 .. Len(x) + 1) \X (1 .. Len(y) + 1)
           End(at) == at[1] > Len(x) /\ at[2] > Len(y)
           N == Len(x) + Len(y)
           rank == [at \in P |-> (Len(x) + 1 - at[1]) + (Len(y) + 1 - at[2])]
           prev == [at \in P |-> IF End(at) THEN at ELSE Onward(x, y, at)]
           W == Seq(Rec)
           base == [at \in P |-> << >>]
           g == [q \in P \X W |-> IF End(q[1]) THEN << >> ELSE Prepended(x, y, q[1], q[2])]
           Eq(f) == f = [at \in P |-> IF End(at) THEN << >>
                                      ELSE Prepended(x, y, at, f[Onward(x, y, at)])]
           run == CHOOSE f : Eq(f)
<1>0. Len(x) \in Nat /\ Len(y) \in Nat /\ N \in Nat
  OBVIOUS
<1>1. MayJoin(s, r) = CutOff(run[<<1, 1>>], Lowest(s, r))
  BY DEF MayJoin, Prepended, Onward, IsSeen, KeptLesser, TakesLesserX, CutOff, Lowest
<1>2. ASSUME NEW at \in P, ~ End(at)
      PROVE  /\ Onward(x, y, at) \in P /\ rank[Onward(x, y, at)] < rank[at]
             /\ KeptLesser(x, y, at) \in Rec
  <2>1. at[1] \in 1 .. Len(x) + 1 /\ at[2] \in 1 .. Len(y) + 1 /\ at[1] \in Nat /\ at[2] \in Nat
    OBVIOUS
  <2>2. CASE TakesLesserX(x, y, at)
    <3>1. at[1] <= Len(x)
      BY <2>2 DEF TakesLesserX
    <3> DEFINE b == Onward(x, y, at)
    <3>2. b = <<at[1] + 1, at[2]>> /\ KeptLesser(x, y, at) = x[at[1]]
      BY <2>2 DEF Onward, KeptLesser
    <3> HIDE DEF b
    <3>3. b \in P /\ b[1] = at[1] + 1 /\ b[2] = at[2] /\ at[1] \in 1 .. Len(x)
      BY <1>0, <2>1, <3>1, <3>2
    <3>4. rank[b] < rank[at]
      BY <1>0, <2>1, <3>3
    <3> QED  BY <3>2, <3>3, <3>4 DEF b
  <2>3. CASE ~ TakesLesserX(x, y, at)
    <3>1. at[2] <= Len(y)
      BY <1>0, <1>2, <2>1, <2>3 DEF TakesLesserX
    <3> DEFINE b == Onward(x, y, at)
    <3>2. b = <<at[1], at[2] + 1>> /\ KeptLesser(x, y, at) = y[at[2]]
      BY <2>3 DEF Onward, KeptLesser
    <3> HIDE DEF b
    <3>3. b \in P /\ b[1] = at[1] /\ b[2] = at[2] + 1 /\ at[2] \in 1 .. Len(y)
      BY <1>0, <2>1, <3>1, <3>2
    <3>4. rank[b] < rank[at]
      BY <1>0, <2>1, <3>3
    <3> QED  BY <3>2, <3>3, <3>4 DEF b
  <2> QED  BY <2>2, <2>3
<1>3. rank \in [P -> 0 .. N] /\ prev \in [P -> P] /\ base \in [P -> W]
  <2>1. rank \in [P -> 0 .. N]
    BY <1>0
  <2>2. \A at \in P : (IF End(at) THEN at ELSE Onward(x, y, at)) \in P
    BY <1>2
  <2>3. prev \in [P -> P]
    <3> HIDE DEF P
    <3> QED  BY <2>2
  <2>4. base \in [P -> W]
    OBVIOUS
  <2> QED  BY <2>1, <2>3, <2>4
<1>4. \A at \in P : rank[at] = 0 <=> End(at)
  OBVIOUS
<1>5. \A at \in P : rank[at] # 0 => rank[prev[at]] < rank[at]
  <2> TAKE at \in P
  <2> HAVE rank[at] # 0
  <2>1. ~ End(at)
    BY <1>4
  <2>2. prev[at] = Onward(x, y, at)
    <3> HIDE DEF P
    <3> QED  BY <2>1
  <2> HIDE DEF prev, rank, P
  <2> QED  BY <1>2, <2>1, <2>2
<1>6. g \in [P \X W -> W]
  <2>1. ASSUME NEW q \in P \X W
        PROVE  (IF End(q[1]) THEN << >> ELSE Prepended(x, y, q[1], q[2])) \in W
    <3>1. q[1] \in P /\ q[2] \in W
      OBVIOUS
    <3>2. CASE ~ End(q[1])
      <4>1. KeptLesser(x, y, q[1]) \in Rec
        BY <1>2, <3>1, <3>2
      <4> HIDE DEF P
      <4> QED  BY <3>1, <3>2, <4>1 DEF Prepended
    <3> QED  BY <3>2
  <2> HIDE DEF P, W, End
  <2> QED  BY <2>1
<1>7. Recursions(P, W, rank, prev, base, g) # {}
  <2> HIDE DEF P, W, rank, prev, base, g, N
  <2> QED  BY <1>0, <1>3, <1>5, <1>6, RankedRecursion
<1>8. PICK f \in [P -> W] :
        \A p \in P : f[p] = IF rank[p] = 0 THEN base[p] ELSE g[<<p, f[prev[p]]>>]
  <2> HIDE DEF P, W, rank, prev, base, g
  <2> QED  BY <1>7 DEF Recursions
<1>9. ASSUME NEW at \in P
      PROVE  f[at] = IF End(at) THEN << >> ELSE Prepended(x, y, at, f[Onward(x, y, at)])
  <2>1. CASE End(at)
    <3>1. f[at] = base[at] /\ base[at] = << >>
      BY <1>4, <1>8, <2>1
    <3> QED  BY <2>1, <3>1
  <2>2. CASE ~ End(at)
    <3>1. prev[at] = Onward(x, y, at) /\ Onward(x, y, at) \in P
      <4>1. Onward(x, y, at) \in P
        BY <1>2, <2>2
      <4> HIDE DEF P
      <4> QED  BY <2>2, <4>1
    <3>2. f[at] = g[<<at, f[prev[at]]>>]
      <4>1. rank[at] # 0
        BY <1>4, <2>2
      <4> HIDE DEF P, rank, prev, base, g
      <4> QED  BY <1>8, <4>1
    <3>3. f[prev[at]] \in W
      <4> HIDE DEF P, W, prev
      <4> QED  BY <3>1
    <3>4. \A w \in W : g[<<at, w>>] = Prepended(x, y, at, w)
      <4> HIDE DEF P, W
      <4> QED  BY <2>2
    <3> HIDE DEF P, g, prev, W
    <3> QED  BY <2>2, <3>1, <3>2, <3>3, <3>4
  <2> QED  BY <2>1, <2>2
<1>10. Eq(f)
  <2> HIDE DEF P, W, End
  <2> QED  BY <1>9
<1>11. Eq(run)
  <2> HIDE DEF Eq
  <2> QED  BY <1>10
<1>12. MergeSteps(run, x, y)
  <2>1. \A at \in P : run[at] = IF End(at) THEN << >>
                                ELSE Prepended(x, y, at, run[Onward(x, y, at)])
    <3> HIDE DEF run, P, End
    <3> QED  BY <1>11
  <2> HIDE DEF run
  <2> QED  BY <2>1 DEF MergeSteps
<1> HIDE DEF run, Eq
<1> QED  BY <1>1, <1>12

\* Entry k of x, entry m of y is visited before all others of its tag.
FirstX(x, y, k) == \A m \in 1 .. Len(y) : y[m].tag = x[k].tag => ~ Precedes(y[m], x[k])
FirstY(x, y, m) == \A k \in 1 .. Len(x) : x[k].tag = y[m].tag => Precedes(y[m], x[k])

\* What the entries from i and from j on contribute.
United(x, y, i, j) ==
  {x[k] : k \in {k \in i .. Len(x) : FirstX(x, y, k)}}
    \cup {y[m] : m \in {m \in j .. Len(y) : FirstY(x, y, m)}}

\* The entries before i and before j have been visited.
Reached(x, y, i, j) ==
  /\ \A k \in 1 .. i - 1, m \in j .. Len(y) : ~ Precedes(y[m], x[k])
  /\ \A k \in i .. Len(x), m \in 1 .. j - 1 : Precedes(y[m], x[k])

Merged(x, y, i, j, u) ==
  u \in Seq(Rec) /\ SortedFrom(u, 1) /\ Entries(u) = United(x, y, i, j)

\* The next entry that the may join visits is the first of x: the vector keeps it unless an
\* entry of its tag was visited before.
LEMMA VisitLesserX ==
  ASSUME NEW x, Vector(x), NEW y, Vector(y), NEW i \in 1 .. Len(x), NEW j \in 1 .. Len(y) + 1,
         j > Len(y) \/ ~ Precedes(y[j], x[i]), Reached(x, y, i, j)
  PROVE  /\ Reached(x, y, i + 1, j)
         /\ \A rest : Merged(x, y, i + 1, j, rest)
                        => Merged(x, y, i, j, Prepended(x, y, <<i, j>>, rest))
<1>0. /\ x \in Seq(Rec) /\ y \in Seq(Rec) /\ Len(x) \in Nat /\ Len(y) \in Nat
      /\ i \in Nat /\ j \in Nat /\ i <= Len(x) /\ j - 1 \in 0 .. Len(y) /\ 1 <= i /\ 1 <= j
      /\ \A k \in 1 .. Len(x) : x[k] \in Rec
      /\ \A m \in 1 .. Len(y) : y[m] \in Rec
      /\ \A k, m \in 1 .. Len(x) : k < m => Precedes(x[k], x[m])
      /\ \A k, m \in 1 .. Len(y) : k < m => Precedes(y[k], y[m])
  <2>1. /\ x \in Seq(Rec) /\ y \in Seq(Rec) /\ Len(x) \in Nat /\ Len(y) \in Nat
        /\ \A k, m \in 1 .. Len(x) : k < m => Precedes(x[k], x[m])
        /\ \A k, m \in 1 .. Len(y) : k < m => Precedes(y[k], y[m])
    BY VectorEntries
  <2> QED  BY <2>1
<1>1. \A m \in j .. Len(y) : ~ Precedes(y[m], x[i])
  <2> TAKE m \in j .. Len(y)
  <2>1. m \in 1 .. Len(y) /\ j \in 1 .. Len(y) /\ (m = j \/ j < m) /\ ~ (j > Len(y))
    BY <1>0
  <2>2. ~ Precedes(y[j], x[i]) /\ x[i] \in Rec /\ y[j] \in Rec /\ y[m] \in Rec
    BY <1>0, <2>1
  <2>3. j < m => Precedes(y[j], y[m])
    BY <1>0, <2>1
  <2> QED  BY <2>1, <2>2, <2>3, PrecedesOrders
<1>2. Reached(x, y, i + 1, j)
  <2>1. ASSUME NEW k \in 1 .. (i + 1) - 1, NEW m \in j .. Len(y) PROVE ~ Precedes(y[m], x[k])
    <3>1. k = i \/ k \in 1 .. i - 1
      BY <1>0
    <3> QED  BY <1>1, <3>1 DEF Reached
  <2>2. ASSUME NEW k \in i + 1 .. Len(x), NEW m \in 1 .. j - 1 PROVE Precedes(y[m], x[k])
    <3>1. k \in i .. Len(x)
      BY <1>0
    <3> QED  BY <3>1 DEF Reached
  <2> QED  BY <2>1, <2>2 DEF Reached
<1> SUFFICES ASSUME NEW rest, Merged(x, y, i + 1, j, rest)
             PROVE  Merged(x, y, i, j, Prepended(x, y, <<i, j>>, rest))
  BY <1>2
<1> DEFINE at == <<i, j>>
           new == Prepended(x, y, at, rest)
           first == FirstX(x, y, i)
<1>3. first <=> ~ \E m \in 1 .. j - 1 : y[m].tag = x[i].tag
  <2>1. ASSUME first, NEW m \in 1 .. j - 1, y[m].tag = x[i].tag PROVE FALSE
    <3>1. m \in 1 .. Len(y) /\ i \in i .. Len(x)
      BY <1>0
    <3>2. Precedes(y[m], x[i])
      BY <3>1 DEF Reached
    <3> QED  BY <2>1, <3>1, <3>2 DEF FirstX
  <2>2. ASSUME ~ first PROVE \E m \in 1 .. j - 1 : y[m].tag = x[i].tag
    <3>1. PICK m \in 1 .. Len(y) : y[m].tag = x[i].tag /\ Precedes(y[m], x[i])
      BY <2>2 DEF FirstX
    <3>2. m \in 1 .. j - 1
      BY <1>0, <1>1, <3>1
    <3> QED  BY <3>1, <3>2
  <2> HIDE DEF first
  <2> QED  BY <2>1, <2>2
<1>4. new = IF first THEN <<x[i]>> \o rest ELSE rest
  <2>1. at[1] = i /\ at[2] = j
    OBVIOUS
  <2> HIDE DEF at, first
  <2>2. TakesLesserX(x, y, at)
    BY <1>0, <2>1 DEF TakesLesserX, IsLesser
  <2>3. KeptLesser(x, y, at) = x[i]
    BY <2>1, <2>2 DEF KeptLesser
  <2>4. IsSeen(x, y, at) <=> ~ first
    <3>1. TagsOf(SubSeq(y, 1, j - 1)) = {y[m].tag : m \in 1 .. j - 1}
      BY <1>0, TagsUpTo
    <3> QED  BY <1>3, <2>1, <2>2, <2>3, <3>1 DEF IsSeen
  <2> QED  BY <2>3, <2>4 DEF Prepended
<1>5. United(x, y, i, j) = IF first THEN United(x, y, i + 1, j) \cup {x[i]}
                           ELSE United(x, y, i + 1, j)
  <2>1. i .. Len(x) = {i} \cup (i + 1 .. Len(x))
    BY <1>0
  <2>2. {k \in i .. Len(x) : FirstX(x, y, k)} =
          IF first THEN {i} \cup {k \in i + 1 .. Len(x) : FirstX(x, y, k)}
          ELSE {k \in i + 1 .. Len(x) : FirstX(x, y, k)}
    <3> HIDE DEF first
    <3>1. first <=> FirstX(x, y, i)
      BY DEF first
    <3> QED  BY <2>1, <3>1
  <2> HIDE DEF first
  <2> QED  BY <2>2 DEF United
<1> HIDE DEF new
<1>6. ASSUME first, NEW e \in United(x, y, i + 1, j) PROVE Precedes(x[i], e)
  <2>1. CASE \E k \in i + 1 .. Len(x) : e = x[k]
    <3>1. PICK k \in i + 1 .. Len(x) : e = x[k]
      BY <2>1
    <3>2. k \in 1 .. Len(x) /\ i < k
      BY <1>0
    <3> QED  BY <1>0, <3>1, <3>2
  <2>2. CASE \E m \in j .. Len(y) : e = y[m] /\ FirstY(x, y, m)
    <3>1. PICK m \in j .. Len(y) : e = y[m] /\ FirstY(x, y, m)
      BY <2>2
    <3>2. ~ Precedes(y[m], x[i]) /\ m \in 1 .. Len(y)
      BY <1>0, <1>1
    <3>3. y[m] \in Rec /\ x[i] \in Rec
      BY <1>0, <3>2
    <3>4. y[m] # x[i]
      BY <3>1, <3>2 DEF FirstY
    <3> QED  BY <3>1, <3>2, <3>3, <3>4, PrecedesTotal
  <2> QED  BY <1>6, <2>1, <2>2 DEF United
<1>7. rest \in Seq(Rec) /\ SortedFrom(rest, 1) /\ Entries(rest) = United(x, y, i + 1, j)
  BY DEF Merged
<1>8. CASE first
  <2>1. x[i] \in Rec /\ \A z \in Entries(rest) : Precedes(x[i], z)
    BY <1>0, <1>6, <1>7, <1>8
  <2>2. /\ <<x[i]>> \o rest \in Seq(Rec) /\ SortedFrom(<<x[i]>> \o rest, 1)
        /\ Entries(<<x[i]>> \o rest) = Entries(rest) \cup {x[i]}
    BY <1>7, <2>1, PrependEntry
  <2> QED  BY <1>4, <1>5, <1>7, <1>8, <2>2 DEF Merged, new
<1>9. CASE ~ first
  BY <1>4, <1>5, <1>7, <1>9 DEF Merged, new
<1> QED  BY <1>8, <1>9

\* The next entry visited is the first of y: likewise.
LEMMA VisitLesserY ==
  ASSUME NEW x, Vector(x), NEW y, Vector(y), NEW i \in 1 .. Len(x) + 1, NEW j \in 1 .. Len(y),
         i > Len(x) \/ Precedes(y[j], x[i]), Reached(x, y, i, j)
  PROVE  /\ Reached(x, y, i, j + 1)
         /\ \A rest : Merged(x, y, i, j + 1, rest)
                        => Merged(x, y, i, j, Prepended(x, y, <<i, j>>, rest))
<1>0. /\ x \in Seq(Rec) /\ y \in Seq(Rec) /\ Len(x) \in Nat /\ Len(y) \in Nat
      /\ i \in Nat /\ j \in Nat /\ j <= Len(y) /\ i - 1 \in 0 .. Len(x) /\ 1 <= i /\ 1 <= j
      /\ \A k \in 1 .. Len(x) : x[k] \in Rec
      /\ \A m \in 1 .. Len(y) : y[m] \in Rec
      /\ \A k, m \in 1 .. Len(x) : k < m => Precedes(x[k], x[m])
      /\ \A k, m \in 1 .. Len(y) : k < m => Precedes(y[k], y[m])
  <2>1. /\ x \in Seq(Rec) /\ y \in Seq(Rec) /\ Len(x) \in Nat /\ Len(y) \in Nat
        /\ \A k, m \in 1 .. Len(x) : k < m => Precedes(x[k], x[m])
        /\ \A k, m \in 1 .. Len(y) : k < m => Precedes(y[k], y[m])
    BY VectorEntries
  <2> QED  BY <2>1
<1>1. \A k \in i .. Len(x) : Precedes(y[j], x[k])
  <2> TAKE k \in i .. Len(x)
  <2>1. k \in 1 .. Len(x) /\ i \in 1 .. Len(x) /\ (k = i \/ i < k) /\ ~ (i > Len(x))
    BY <1>0
  <2>2. Precedes(y[j], x[i]) /\ x[i] \in Rec /\ y[j] \in Rec /\ x[k] \in Rec
    BY <1>0, <2>1
  <2>3. i < k => Precedes(x[i], x[k])
    BY <1>0, <2>1
  <2> QED  BY <2>1, <2>2, <2>3, PrecedesOrders
<1>2. Reached(x, y, i, j + 1)
  <2>1. ASSUME NEW k \in 1 .. i - 1, NEW m \in j + 1 .. Len(y) PROVE ~ Precedes(y[m], x[k])
    <3>1. m \in j .. Len(y)
      BY <1>0
    <3> QED  BY <3>1 DEF Reached
  <2>2. ASSUME NEW k \in i .. Len(x), NEW m \in 1 .. (j + 1) - 1 PROVE Precedes(y[m], x[k])
    <3>1. m = j \/ m \in 1 .. j - 1
      BY <1>0
    <3> QED  BY <1>1, <3>1 DEF Reached
  <2> QED  BY <2>1, <2>2 DEF Reached
<1> SUFFICES ASSUME NEW rest, Merged(x, y, i, j + 1, rest)
             PROVE  Merged(x, y, i, j, Prepended(x, y, <<i, j>>, rest))
  BY <1>2
<1> DEFINE at == <<i, j>>
           new == Prepended(x, y, at, rest)
           first == FirstY(x, y, j)
<1>3. first <=> ~ \E k \in 1 .. i - 1 : x[k].tag = y[j].tag
  <2>1. ASSUME first, NEW k \in 1 .. i - 1, x[k].tag = y[j].tag PROVE FALSE
    <3>1. k \in 1 .. Len(x) /\ j \in j .. Len(y)
      BY <1>0
    <3>2. ~ Precedes(y[j], x[k])
      BY <3>1 DEF Reached
    <3> QED  BY <2>1, <3>1, <3>2 DEF FirstY
  <2>2. ASSUME ~ first PROVE \E k \in 1 .. i - 1 : x[k].tag = y[j].tag
    <3>1. PICK k \in 1 .. Len(x) : x[k].tag = y[j].tag /\ ~ Precedes(y[j], x[k])
      BY <2>2 DEF FirstY
    <3>2. k \in 1 .. i - 1
      BY <1>0, <1>1, <3>1
    <3> QED  BY <3>1, <3>2
  <2> HIDE DEF first
  <2> QED  BY <2>1, <2>2
<1>4. new = IF first THEN <<y[j]>> \o rest ELSE rest
  <2>1. at[1] = i /\ at[2] = j
    OBVIOUS
  <2> HIDE DEF at, first
  <2>2. ~ TakesLesserX(x, y, at)
    BY <1>0, <2>1 DEF TakesLesserX, IsLesser
  <2>3. KeptLesser(x, y, at) = y[j]
    BY <2>1, <2>2 DEF KeptLesser
  <2>4. IsSeen(x, y, at) <=> ~ first
    <3>1. TagsOf(SubSeq(x, 1, i - 1)) = {x[k].tag : k \in 1 .. i - 1}
      BY <1>0, TagsUpTo
    <3> QED  BY <1>3, <2>1, <2>2, <2>3, <3>1 DEF IsSeen
  <2> QED  BY <2>3, <2>4 DEF Prepended
<1>5. United(x, y, i, j) = IF first THEN United(x, y, i, j + 1) \cup {y[j]}
                           ELSE United(x, y, i, j + 1)
  <2>1. j .. Len(y) = {j} \cup (j + 1 .. Len(y))
    BY <1>0
  <2>2. {m \in j .. Len(y) : FirstY(x, y, m)} =
          IF first THEN {j} \cup {m \in j + 1 .. Len(y) : FirstY(x, y, m)}
          ELSE {m \in j + 1 .. Len(y) : FirstY(x, y, m)}
    <3> HIDE DEF first
    <3>1. first <=> FirstY(x, y, j)
      BY DEF first
    <3> QED  BY <2>1, <3>1
  <2> HIDE DEF first
  <2> QED  BY <2>2 DEF United
<1> HIDE DEF new
<1>6. ASSUME first, NEW e \in United(x, y, i, j + 1) PROVE Precedes(y[j], e)
  <2>1. CASE \E k \in i .. Len(x) : e = x[k]
    BY <1>1, <2>1
  <2>2. CASE \E m \in j + 1 .. Len(y) : e = y[m]
    <3>1. PICK m \in j + 1 .. Len(y) : e = y[m]
      BY <2>2
    <3>2. j < m /\ m \in 1 .. Len(y)
      BY <1>0
    <3> QED  BY <1>0, <3>1, <3>2
  <2> QED  BY <1>6, <2>1, <2>2 DEF United
<1>7. rest \in Seq(Rec) /\ SortedFrom(rest, 1) /\ Entries(rest) = United(x, y, i, j + 1)
  BY DEF Merged
<1>8. CASE first
  <2>1. y[j] \in Rec /\ \A z \in Entries(rest) : Precedes(y[j], z)
    BY <1>0, <1>6, <1>7, <1>8
  <2>2. /\ <<y[j]>> \o rest \in Seq(Rec) /\ SortedFrom(<<y[j]>> \o rest, 1)
        /\ Entries(<<y[j]>> \o rest) = Entries(rest) \cup {y[j]}
    BY <1>7, <2>1, PrependEntry
  <2> QED  BY <1>4, <1>5, <1>7, <1>8, <2>2 DEF Merged, new
<1>9. CASE ~ first
  BY <1>4, <1>5, <1>7, <1>9 DEF Merged, new
<1> QED  BY <1>8, <1>9

\* The vector that the may join builds before it drops what is redundant.
LEMMA MayJoinEntries ==
  ASSUME NEW s, NEW r, Vector(s.explicit), Vector(r.explicit)
  PROVE  \E u : /\ Merged(s.explicit, r.explicit, 1, 1, u)
                /\ MayJoin(s, r) = CutOff(u, Lowest(s, r))
<1> DEFINE x == s.explicit
           y == r.explicit
<1>0. x \in Seq(Rec) /\ y \in Seq(Rec) /\ Len(x) \in Nat /\ Len(y) \in Nat /\ Vector(x) /\ Vector(y)
  BY VectorEntries
<1>9. s.explicit = x /\ r.explicit = y
  OBVIOUS
<1> HIDE DEF x, y
<1>1. PICK f : MergeSteps(f, x, y) /\ MayJoin(s, r) = CutOff(f[<<1, 1>>], Lowest(s, r))
  BY <1>0, <1>9, MayJoinSteps
<1>2. \A i \in 1 .. Len(x) + 1, j \in 1 .. Len(y) + 1 :
        f[<<i, j>>] = IF i > Len(x) /\ j > Len(y) THEN << >>
                      ELSE Prepended(x, y, <<i, j>>, f[Onward(x, y, <<i, j>>)])
  <2> TAKE i \in 1 .. Len(x) + 1, j \in 1 .. Len(y) + 1
  <2> DEFINE at == <<i, j>>
  <2>1. at \in (1 .. Len(x) + 1) \X (1 .. Len(y) + 1) /\ at[1] = i /\ at[2] = j
    OBVIOUS
  <2> HIDE DEF at
  <2>2. f[at] = IF i > Len(x) /\ j > Len(y) THEN << >>
                ELSE Prepended(x, y, at, f[Onward(x, y, at)])
    BY <1>1, <2>1 DEF MergeSteps
  <2> QED  BY <2>2 DEF at
<1> DEFINE Good(i, j) == Reached(x, y, i, j) => Merged(x, y, i, j, f[<<i, j>>])
           S == {n \in Nat : \A i \in 1 .. Len(x) + 1, j \in 1 .. Len(y) + 1 :
                   (Len(x) + 1 - i) + (Len(y) + 1 - j) = n => Good(i, j)}
<1>3. Good(Len(x) + 1, Len(y) + 1)
  <2> DEFINE i == Len(x) + 1
             j == Len(y) + 1
  <2>0. i \in 1 .. Len(x) + 1 /\ j \in 1 .. Len(y) + 1 /\ i > Len(x) /\ j > Len(y)
        /\ i .. Len(x) = {} /\ j .. Len(y) = {}
    BY <1>0
  <2> HIDE DEF i, j
  <2>1. f[<<i, j>>] = << >>
    BY <1>2, <2>0
  <2>2. Entries(<< >>) = {} /\ SortedFrom(<< >>, 1) /\ << >> \in Seq(Rec)
    BY DEF Entries, EntriesFrom, SortedFrom
  <2>3. United(x, y, i, j) = {}
    BY <2>0 DEF United
  <2> QED  BY <2>1, <2>2, <2>3 DEF Merged, i, j
<1>4. 0 \in S
  <2>1. \A i \in 1 .. Len(x) + 1, j \in 1 .. Len(y) + 1 :
          (Len(x) + 1 - i) + (Len(y) + 1 - j) = 0 => i = Len(x) + 1 /\ j = Len(y) + 1
    BY <1>0
  <2> HIDE DEF Good
  <2> QED  BY <1>3, <2>1
<1>5. ASSUME NEW n \in Nat, n \in S PROVE n + 1 \in S
  <2> SUFFICES ASSUME NEW i \in 1 .. Len(x) + 1, NEW j \in 1 .. Len(y) + 1,
                      (Len(x) + 1 - i) + (Len(y) + 1 - j) = n + 1, Reached(x, y, i, j)
               PROVE  Merged(x, y, i, j, f[<<i, j>>])
    OBVIOUS
  <2>0. i \in Nat /\ j \in Nat /\ ~ (i > Len(x) /\ j > Len(y))
    BY <1>0, <1>5
  <2> DEFINE at == <<i, j>>
  <2>1. at[1] = i /\ at[2] = j /\ f[at] = Prepended(x, y, at, f[Onward(x, y, at)])
    BY <1>2, <2>0
  <2>2. CASE i <= Len(x) /\ (j > Len(y) \/ ~ Precedes(y[j], x[i]))
    <3>1. Onward(x, y, at) = <<i + 1, j>>
      <4> HIDE DEF at
      <4> QED  BY <2>1, <2>2 DEF Onward, TakesLesserX, IsLesser
    <3>2. /\ i + 1 \in 1 .. Len(x) + 1 /\ (Len(x) + 1 - (i + 1)) + (Len(y) + 1 - j) = n
          /\ i \in 1 .. Len(x)
      BY <1>0, <2>0, <2>2
    <3>3. /\ Reached(x, y, i + 1, j)
          /\ \A rest : Merged(x, y, i + 1, j, rest)
                         => Merged(x, y, i, j, Prepended(x, y, <<i, j>>, rest))
      BY <1>0, <2>2, <3>2, VisitLesserX
    <3>4. Merged(x, y, i + 1, j, f[<<i + 1, j>>])
      BY <1>5, <3>2, <3>3
    <3> QED  BY <2>1, <3>1, <3>3, <3>4
  <2>3. CASE ~ (i <= Len(x) /\ (j > Len(y) \/ ~ Precedes(y[j], x[i])))
    <3>1. Onward(x, y, at) = <<i, j + 1>>
      <4> HIDE DEF at
      <4> QED  BY <2>1, <2>3 DEF Onward, TakesLesserX, IsLesser
    <3>0. j <= Len(y)
      <4>1. \A a, b \in Int : a > b <=> ~ (a <= b)
        OBVIOUS
      <4>2. i \in Int /\ j \in Int /\ Len(x) \in Int /\ Len(y) \in Int
        BY <1>0, <2>0
      <4> QED  BY <2>0, <2>3, <4>1, <4>2
    <3>2. /\ j + 1 \in 1 .. Len(y) + 1 /\ (Len(x) + 1 - i) + (Len(y) + 1 - (j + 1)) = n
          /\ j \in 1 .. Len(y)
      BY <1>0, <2>0, <3>0
    <3>5. i > Len(x) \/ Precedes(y[j], x[i])
      BY <1>0, <2>0, <2>3, <3>2
    <3>3. /\ Reached(x, y, i, j + 1)
          /\ \A rest : Merged(x, y, i, j + 1, rest)
                         => Merged(x, y, i, j, Prepended(x, y, <<i, j>>, rest))
      BY <1>0, <3>2, <3>5, VisitLesserY
    <3>4. Merged(x, y, i, j + 1, f[<<i, j + 1>>])
      BY <1>5, <3>2, <3>3
    <3> QED  BY <2>1, <3>1, <3>3, <3>4
  <2> QED  BY <2>2, <2>3
<1>6. Len(x) + Len(y) \in S
  <2> HIDE DEF S
  <2>1. \A n \in Nat : n \in S
    BY <1>4, <1>5, NaturalInduction
  <2>2. Len(x) + Len(y) \in Nat
    BY <1>0
  <2> QED  BY <2>1, <2>2
<1>7. Good(1, 1)
  <2>1. 1 \in 1 .. Len(x) + 1 /\ 1 \in 1 .. Len(y) + 1
        /\ (Len(x) + 1 - 1) + (Len(y) + 1 - 1) = Len(x) + Len(y)
    BY <1>0
  <2> HIDE DEF Good
  <2> QED  BY <1>6, <2>1
<1>8. Reached(x, y, 1, 1)
  BY DEF Reached
<1> QED  BY <1>1, <1>7, <1>8 DEF x, y

\* The first entries of two vectors, by entry: one of each tag.
LEMMA UnitedEntries ==
  ASSUME NEW x, Vector(x), NEW y, Vector(y), NEW es, es = United(x, y, 1, 1)
  PROVE  /\ \A a \in Entries(x) :
              (\A b \in Entries(y) : b.tag = a.tag => ~ Precedes(b, a)) => a \in es
         /\ \A b \in Entries(y) :
              (\A a \in Entries(x) : a.tag = b.tag => Precedes(b, a)) => b \in es
         /\ \A e \in es : \/ /\ e \in Entries(x)
                             /\ \A b \in Entries(y) : b.tag = e.tag => ~ Precedes(b, e)
                          \/ /\ e \in Entries(y)
                             /\ \A a \in Entries(x) : a.tag = e.tag => Precedes(e, a)
         /\ OneEntryPerTag(es)
<1>0. /\ Len(x) \in Nat /\ Len(y) \in Nat
      /\ \A k \in 1 .. Len(x) : x[k] \in Entries(x)
      /\ \A k \in 1 .. Len(y) : y[k] \in Entries(y)
      /\ \A a \in Entries(x) : \E k \in 1 .. Len(x) : a = x[k]
      /\ \A b \in Entries(y) : \E k \in 1 .. Len(y) : b = y[k]
  BY VectorEntries
<1>1. ASSUME NEW a \in Entries(x), \A b \in Entries(y) : b.tag = a.tag => ~ Precedes(b, a)
      PROVE  a \in es
  <2>1. PICK k \in 1 .. Len(x) : a = x[k]
    BY <1>0
  <2>2. FirstX(x, y, k)
    BY <1>0, <1>1, <2>1 DEF FirstX
  <2> QED  BY <2>1, <2>2 DEF United
<1>2. ASSUME NEW b \in Entries(y), \A a \in Entries(x) : a.tag = b.tag => Precedes(b, a)
      PROVE  b \in es
  <2>1. PICK m \in 1 .. Len(y) : b = y[m]
    BY <1>0
  <2>2. FirstY(x, y, m)
    BY <1>0, <1>2, <2>1 DEF FirstY
  <2> QED  BY <2>1, <2>2 DEF United
<1>3. ASSUME NEW e \in es
      PROVE  \/ /\ e \in Entries(x)
                /\ \A b \in Entries(y) : b.tag = e.tag => ~ Precedes(b, e)
             \/ /\ e \in Entries(y)
                /\ \A a \in Entries(x) : a.tag = e.tag => Precedes(e, a)
  <2>0. \/ \E k \in 1 .. Len(x) : e = x[k] /\ FirstX(x, y, k)
        \/ \E m \in 1 .. Len(y) : e = y[m] /\ FirstY(x, y, m)
    BY DEF United
  <2>1. CASE \E k \in 1 .. Len(x) : e = x[k] /\ FirstX(x, y, k)
    BY <1>0, <2>1 DEF FirstX
  <2>2. CASE \E m \in 1 .. Len(y) : e = y[m] /\ FirstY(x, y, m)
    BY <1>0, <2>2 DEF FirstY
  <2> QED  BY <2>0, <2>1, <2>2
<1>4. OneEntryPerTag(es)
  <2> SUFFICES ASSUME NEW e \in es, NEW g \in es, e.tag = g.tag PROVE e = g
    BY DEF OneEntryPerTag
  <2>1. CASE e \in Entries(x) /\ g \in Entries(x)
    BY <2>1 DEF Vector, OneEntryPerTag
  <2>2. CASE e \in Entries(y) /\ g \in Entries(y)
    BY <2>2 DEF Vector, OneEntryPerTag
  <2>3. CASE ~ (e \in Entries(x) /\ g \in Entries(x)) /\ ~ (e \in Entries(y) /\ g \in Entries(y))
    BY <1>3, <2>3
  <2> QED  BY <2>1, <2>2, <2>3
<1> QED  BY <1>1, <1>2, <1>3, <1>4

-----------------------------------------------------------------------------
\* A may state: the explicit bounds are below the implicit one.
MayState(s) ==
  /\ s = [explicit |-> s.explicit, implicit |-> s.implicit]
  /\ Vector(s.explicit) /\ s.implicit \in 0 .. Assoc
  /\ \A x \in Entries(s.explicit) : x.age < s.implicit

\* What the may bounds say of the entries.
LEMMA MayAges ==
  ASSUME NEW s, MayState(s), NEW t
  PROVE  /\ MinAge(s, t) \in 0 .. Assoc /\ MinAge(s, t) <= s.implicit
         /\ t \in TagsOf(s.explicit) <=> MinAge(s, t) < s.implicit
         /\ \A x \in Entries(s.explicit) : x.tag = t => MinAge(s, t) = x.age /\ x.age < s.implicit
         /\ MinAge(s, t) < s.implicit => t \in Nat /\ EntryOf(t, MinAge(s, t)) \in Entries(s.explicit)
         /\ MinAge(s, t) >= s.implicit => MinAge(s, t) = s.implicit
<1> DEFINE v == s.explicit
<1>0. /\ Vector(v) /\ Assoc \in Nat \ {0} /\ s.implicit \in 0 .. Assoc
      /\ \A x \in Entries(v) : x.age < s.implicit
  BY AssocAssumption DEF MayState
<1>1. MinAge(s, t) = AgeIn(v, t, s.implicit)
  BY DEF MinAge, AgeIn
<1> HIDE DEF v
<1>2. /\ t \in TagsOf(v) => /\ MinAge(s, t) \in Nat /\ t \in Nat
                            /\ EntryOf(t, MinAge(s, t)) \in Entries(v)
      /\ t \notin TagsOf(v) => MinAge(s, t) = s.implicit
      /\ \A x \in Entries(v) : x.tag = t => x.age = MinAge(s, t)
  BY <1>0, <1>1, Lookup
<1>3. ASSUME t \in TagsOf(v) PROVE MinAge(s, t) < s.implicit
  <2>1. EntryOf(t, MinAge(s, t)).age = MinAge(s, t)
    BY <1>2, <1>3, EntryIsRec
  <2> QED  BY <1>0, <1>2, <1>3, <2>1
<1> QED  BY <1>0, <1>2, <1>3 DEF v

\* The bounds determine the state.
LEMMA EqualMay ==
  ASSUME NEW s, MayState(s), NEW r, MayState(r), s.implicit = r.implicit,
         \A t \in Nat : MinAge(s, t) = MinAge(r, t)
  PROVE  s = r
<1>1. ASSUME NEW a, MayState(a), NEW b, MayState(b), NEW x \in Entries(a.explicit),
             a.implicit = b.implicit, \A t \in Nat : MinAge(a, t) = MinAge(b, t)
      PROVE  x \in Entries(b.explicit)
  <2>0. Vector(a.explicit)
    BY <1>1 DEF MayState
  <2>1. x.tag \in Nat /\ x = EntryOf(x.tag, x.age)
    BY <1>1, <2>0, VectorEntries
  <2>2. MinAge(a, x.tag) = x.age /\ x.age < a.implicit
    BY <1>1, MayAges
  <2>3. MinAge(b, x.tag) = x.age
    BY <1>1, <2>1, <2>2
  <2>4. EntryOf(x.tag, MinAge(b, x.tag)) \in Entries(b.explicit)
    BY <1>1, <2>2, <2>3, MayAges
  <2> QED  BY <2>1, <2>3, <2>4
<1>2. \A x \in Entries(s.explicit) : x \in Entries(r.explicit)
  BY <1>1
<1>3. \A x \in Entries(r.explicit) : x \in Entries(s.explicit)
  <2>1. r.implicit = s.implicit /\ \A t \in Nat : MinAge(r, t) = MinAge(s, t)
    OBVIOUS
  <2> QED  BY <1>1, <2>1
<1>4. Entries(s.explicit) = Entries(r.explicit)
  BY <1>2, <1>3
<1>5. s.explicit = r.explicit
  BY <1>4, EntriesDetermine DEF MayState
<1> QED  BY <1>5 DEF MayState

\* A state whose explicit part has been cut off at the implicit bound.
LEMMA WithoutRedundant ==
  ASSUME NEW u, Vector(u), NEW n \in 0 .. Assoc
  PROVE  LET s == CutOff(u, n)
         IN  /\ MayState(s) /\ s.implicit = n
             /\ Entries(s.explicit) = {x \in Entries(u) : x.age < n}
             /\ s = [explicit |-> YoungerThan(u, n), implicit |-> n]
<1> DEFINE s == CutOff(u, n)
<1>0. n \in Nat
  BY AssocAssumption
<1>1. s = [explicit |-> YoungerThan(u, n), implicit |-> n]
  BY DEF CutOff, RemoveRedundantTags
<1> HIDE DEF s
<1>2. s.explicit = YoungerThan(u, n) /\ s.implicit = n
  BY <1>1
<1>3. Vector(s.explicit) /\ Entries(s.explicit) = {x \in Entries(u) : x.age < n}
  BY <1>0, <1>2, YoungerEntries
<1>4. MayState(s)
  BY <1>1, <1>2, <1>3 DEF MayState
<1> QED  BY <1>1, <1>2, <1>3, <1>4 DEF s

\* Entries of one tag are ordered by age.
LEMMA SameTag ==
  ASSUME NEW a \in Rec, NEW b \in Rec, a.tag = b.tag
  PROVE  /\ Precedes(a, b) <=> a.age < b.age
         /\ a.age \in Nat /\ b.age \in Nat
<1>1. a.tag \in Nat /\ a.age \in Nat /\ b.age \in Nat
  BY DEF Rec
<1> QED  BY <1>1 DEF Precedes

\* The may join keeps of each line the lesser bound.
LEMMA MayJoinAges ==
  ASSUME NEW s, MayState(s), NEW r, MayState(r)
  PROVE  /\ MayState(MayJoin(s, r)) /\ MayJoin(s, r).implicit = Lowest(s, r)
         /\ \A t : MinAge(MayJoin(s, r), t) =
                     IF MinAge(s, t) <= MinAge(r, t) THEN MinAge(s, t) ELSE MinAge(r, t)
<1> DEFINE x == s.explicit
           y == r.explicit
           n == Lowest(s, r)
           w == MayJoin(s, r)
<1>0. /\ Vector(x) /\ Vector(y) /\ s.implicit \in 0 .. Assoc /\ r.implicit \in 0 .. Assoc
      /\ Assoc \in Nat \ {0} /\ n \in 0 .. Assoc
      /\ n <= s.implicit /\ n <= r.implicit /\ (n = s.implicit \/ n = r.implicit)
      /\ \A a \in Entries(x) : a.age < s.implicit
      /\ \A b \in Entries(y) : b.age < r.implicit
  BY AssocAssumption DEF MayState, Lowest
<1>1. PICK u : Merged(x, y, 1, 1, u) /\ w = CutOff(u, n)
  BY <1>0, MayJoinEntries
<1> DEFINE es == United(x, y, 1, 1)
<1>2. u \in Seq(Rec) /\ SortedFrom(u, 1) /\ Entries(u) = es
  BY <1>1 DEF Merged
<1>3. /\ \A a \in Entries(x) :
           (\A b \in Entries(y) : b.tag = a.tag => ~ Precedes(b, a)) => a \in es
      /\ \A b \in Entries(y) :
           (\A a \in Entries(x) : a.tag = b.tag => Precedes(b, a)) => b \in es
      /\ \A e \in es : \/ /\ e \in Entries(x)
                          /\ \A b \in Entries(y) : b.tag = e.tag => ~ Precedes(b, e)
                       \/ /\ e \in Entries(y)
                          /\ \A a \in Entries(x) : a.tag = e.tag => Precedes(e, a)
      /\ OneEntryPerTag(es)
  <2> HIDE DEF x, y
  <2> QED  BY <1>0, UnitedEntries
<1> HIDE DEF es
<1>4. Vector(u)
  BY <1>2, <1>3 DEF Vector
<1> HIDE DEF w, n
<1>5. MayState(w) /\ w.implicit = n /\ Entries(w.explicit) = {e \in es : e.age < n}
  BY <1>0, <1>1, <1>2, <1>4, WithoutRedundant
<1>6. /\ \A a \in Entries(x) : a \in Rec /\ a.age \in Nat
      /\ \A b \in Entries(y) : b \in Rec /\ b.age \in Nat
      /\ OneEntryPerTag(Entries(x)) /\ OneEntryPerTag(Entries(y))
  <2>1. \A a \in Entries(x) : a \in Rec /\ a.age \in Nat
    BY <1>0, VectorEntries
  <2>2. \A b \in Entries(y) : b \in Rec /\ b.age \in Nat
    BY <1>0, VectorEntries
  <2> QED  BY <1>0, <2>1, <2>2 DEF Vector
<1>7. ASSUME NEW t
      PROVE  MinAge(w, t) = IF MinAge(s, t) <= MinAge(r, t) THEN MinAge(s, t) ELSE MinAge(r, t)
  <2> DEFINE a == EntryOf(t, MinAge(s, t))
             b == EntryOf(t, MinAge(r, t))
             i == MinAge(s, t)
             j == MinAge(r, t)
             k == MinAge(w, t)
  <2>1. /\ i \in 0 .. Assoc /\ i <= s.implicit /\ (i >= s.implicit => i = s.implicit)
        /\ \A e \in Entries(x) : e.tag = t => i = e.age /\ e.age < s.implicit
        /\ i < s.implicit => t \in Nat /\ a \in Entries(x)
    BY MayAges
  <2>2. /\ j \in 0 .. Assoc /\ j <= r.implicit /\ (j >= r.implicit => j = r.implicit)
        /\ \A e \in Entries(y) : e.tag = t => j = e.age /\ e.age < r.implicit
        /\ j < r.implicit => t \in Nat /\ b \in Entries(y)
    BY MayAges
  <2>3. /\ k \in 0 .. Assoc /\ k <= n /\ (k >= n => k = n)
        /\ \A e \in Entries(w.explicit) : e.tag = t => k = e.age /\ e.age < n
        /\ k < n => t \in Nat /\ EntryOf(t, k) \in Entries(w.explicit)
    BY <1>5, MayAges
  <2>4. /\ t \in Nat => a.tag = t /\ a.age = i /\ b.tag = t /\ b.age = j
        /\ t \in Nat => EntryOf(t, k).tag = t /\ EntryOf(t, k).age = k
    <3>1. i \in Nat /\ j \in Nat /\ k \in Nat
      BY <1>0, <2>1, <2>2, <2>3
    <3> HIDE DEF i, j, k
    <3> QED  BY <3>1, EntryIsRec DEF a, b, i, j
  <2> HIDE DEF a, b, i, j, k, x, y
  <2>5. CASE i < n /\ i <= j
    <3>1. a \in Entries(x) /\ a.tag = t /\ a.age = i /\ t \in Nat
      BY <1>0, <2>1, <2>2, <2>3, <2>4, <2>5
    <3>2. a \in es
      <4>1. ASSUME NEW c \in Entries(y), c.tag = a.tag PROVE ~ Precedes(c, a)
        <5>1. c.age = j
          BY <2>2, <3>1, <4>1
        <5>2. Precedes(c, a) <=> c.age < a.age
          BY <1>6, <3>1, <4>1, SameTag
        <5> QED  BY <2>1, <2>2, <2>5, <3>1, <5>1, <5>2
      <4> QED  BY <1>3, <3>1, <4>1
    <3>4. k = i
      BY <1>5, <2>3, <2>5, <3>1, <3>2
    <3> QED  BY <2>5, <3>4 DEF i, j, k
  <2>6. CASE j < n /\ j < i
    <3>1. b \in Entries(y) /\ b.tag = t /\ b.age = j /\ t \in Nat
      BY <1>0, <2>1, <2>2, <2>3, <2>4, <2>6
    <3>2. b \in es
      <4>1. ASSUME NEW c \in Entries(x), c.tag = b.tag PROVE Precedes(b, c)
        <5>1. c.age = i
          BY <2>1, <3>1, <4>1
        <5>2. Precedes(b, c) <=> b.age < c.age
          BY <1>6, <3>1, <4>1, SameTag
        <5> QED  BY <2>6, <3>1, <5>1, <5>2
      <4> QED  BY <1>3, <3>1, <4>1
    <3>4. k = j
      BY <1>5, <2>3, <2>6, <3>1, <3>2
    <3>5. ~ (i <= j)
      BY <2>1, <2>2, <2>6
    <3> QED  BY <3>4, <3>5 DEF i, j, k
  <2>7. CASE ~ (i < n /\ i <= j) /\ ~ (j < n /\ j < i)
    <3>0. i \in Int /\ j \in Int /\ s.implicit \in Int /\ r.implicit \in Int /\ n \in Int
      BY <1>0, <2>1, <2>2
    <3>4. n = (IF s.implicit <= r.implicit THEN s.implicit ELSE r.implicit)
      BY DEF n, Lowest
    <3>1. (IF i <= j THEN i ELSE j) = n /\ i >= n /\ j >= n
      BY <2>1, <2>2, <2>7, <3>0, <3>4
    <3>2. ASSUME k < n PROVE FALSE
      <4> DEFINE e == EntryOf(t, k)
      <4>1. e \in es /\ e.tag = t /\ e.age = k
        BY <1>5, <2>3, <2>4, <3>2
      <4> HIDE DEF e
      <4>2. k = i \/ k = j
        BY <1>3, <2>1, <2>2, <4>1
      <4> QED  BY <2>1, <2>2, <2>3, <3>1, <3>2, <4>2
    <3>3. k = n
      BY <1>0, <2>3, <3>2
    <3> QED  BY <3>1, <3>3 DEF i, j, k
  <2> QED  BY <1>0, <2>1, <2>2, <2>5, <2>6, <2>7
<1> QED  BY <1>5, <1>7 DEF w, n

\* lessequal() of the may analysis compares the bounds, the implicit one among them.
LEMMA MayLessEqualAges ==
  ASSUME NEW s, MayState(s), NEW r, MayState(r)
  PROVE  MayLessEqual(s, r) <=>
           r.implicit <= s.implicit /\ \A t \in Nat : MinAge(r, t) <= MinAge(s, t)
<1> DEFINE w == MayJoin(s, r)
<1>1. /\ MayState(w) /\ w.implicit = Lowest(s, r)
      /\ \A t : MinAge(w, t) =
                  IF MinAge(s, t) <= MinAge(r, t) THEN MinAge(s, t) ELSE MinAge(r, t)
  BY MayJoinAges
<1>2. MayLessEqual(s, r) <=> w = r
  BY DEF MayLessEqual
<1> HIDE DEF w
<1>3. \A t : MinAge(s, t) \in Int /\ MinAge(r, t) \in Int
  <2>1. \A t : MinAge(s, t) \in 0 .. Assoc /\ MinAge(r, t) \in 0 .. Assoc
    BY MayAges
  <2>2. \A k \in 0 .. Assoc : k \in Int
    OBVIOUS
  <2> QED  BY <2>1, <2>2
<1>4. s.implicit \in Int /\ r.implicit \in Int
  BY DEF MayState
<1>5. ASSUME w = r
      PROVE  r.implicit <= s.implicit /\ \A t \in Nat : MinAge(r, t) <= MinAge(s, t)
  <2>1. r.implicit <= s.implicit
    BY <1>1, <1>4, <1>5 DEF Lowest
  <2>2. ASSUME NEW t \in Nat PROVE MinAge(r, t) <= MinAge(s, t)
    <3>1. MinAge(w, t) = MinAge(r, t)
      BY <1>5
    <3> QED  BY <1>1, <1>3, <3>1
  <2> QED  BY <2>1, <2>2
<1>6. ASSUME r.implicit <= s.implicit, \A t \in Nat : MinAge(r, t) <= MinAge(s, t)
      PROVE  w = r
  <2>1. w.implicit = r.implicit
    BY <1>1, <1>4, <1>6 DEF Lowest
  <2>2. \A t \in Nat : MinAge(w, t) = MinAge(r, t)
    <3> TAKE t \in Nat
    <3>1. MinAge(r, t) <= MinAge(s, t) /\ MinAge(s, t) \in Int /\ MinAge(r, t) \in Int
      BY <1>3, <1>6
    <3>2. MinAge(w, t) = IF MinAge(s, t) <= MinAge(r, t) THEN MinAge(s, t) ELSE MinAge(r, t)
      BY <1>1
    <3> QED  BY <3>1, <3>2
  <2> QED  BY <1>1, <2>1, <2>2, EqualMay
<1> QED  BY <1>2, <1>5, <1>6

\* The order of the operands does not matter.
LEMMA MayJoinCommutes ==
  ASSUME NEW s, MayState(s), NEW r, MayState(r)
  PROVE  MayJoin(s, r) = MayJoin(r, s)
<1> DEFINE w == MayJoin(s, r)
           z == MayJoin(r, s)
<1>1. /\ MayState(w) /\ w.implicit = Lowest(s, r)
      /\ \A t : MinAge(w, t) =
                  IF MinAge(s, t) <= MinAge(r, t) THEN MinAge(s, t) ELSE MinAge(r, t)
  BY MayJoinAges
<1>2. /\ MayState(z) /\ z.implicit = Lowest(r, s)
      /\ \A t : MinAge(z, t) =
                  IF MinAge(r, t) <= MinAge(s, t) THEN MinAge(r, t) ELSE MinAge(s, t)
  BY MayJoinAges
<1> HIDE DEF w, z
<1>3. w.implicit = z.implicit
  BY <1>1, <1>2 DEF MayState, Lowest
<1>4. \A t \in Nat : MinAge(w, t) = MinAge(z, t)
  <2> TAKE t \in Nat
  <2> DEFINE a == MinAge(s, t)
             b == MinAge(r, t)
  <2>1. a \in 0 .. Assoc /\ b \in 0 .. Assoc
    BY MayAges
  <2>2. MinAge(w, t) = (IF a <= b THEN a ELSE b) /\ MinAge(z, t) = (IF b <= a THEN b ELSE a)
    BY <1>1, <1>2
  <2> HIDE DEF a, b
  <2> QED  BY <2>1, <2>2
<1>5. w = z
  BY <1>1, <1>2, <1>3, <1>4, EqualMay
<1> QED  BY <1>5 DEF w, z

-----------------------------------------------------------------------------
\* The may analysis: update().

\* The entries from i on have been settled.
Settled(w, u, i) ==
  /\ u \in Seq(Rec) /\ Len(u) = Len(w)
  /\ \A k \in 1 .. i - 1 : u[k] = w[k]
  /\ SortedFrom(u, i) /\ EntriesFrom(u, i) = EntriesFrom(w, i)

\* The loop that settles a run of entries of one age.
LEMMA SettleEntries ==
  ASSUME NEW w \in Seq(Rec), NEW lo \in Nat \ {0}, NEW hi \in Nat, lo <= hi + 1, hi <= Len(w),
         SortedFrom(w, hi + 1),
         \A k \in lo .. hi, m \in lo .. Len(w) :
           k < m => w[k].age <= w[m].age /\ w[k].tag # w[m].tag
  PROVE  Settled(w, SettleUpTo(w, hi, lo), lo)
<1>0. lo \in Nat /\ lo # 0 /\ Len(w) \in Nat
  OBVIOUS
<1>1. PICK f : /\ f[0] = w
               /\ \A k \in 1 .. hi - lo + 1 : f[k] = Settle(f[k - 1], hi + 1 - k)
               /\ SettleUpTo(w, hi, lo) = f[hi - lo + 1]
  BY SettleFold
<1> DEFINE S == {k \in Nat : k <= hi - lo + 1 => Settled(w, f[k], hi + 1 - k)}
<1>2. 0 \in S
  <2>1. hi + 1 - 0 = hi + 1
    OBVIOUS
  <2> QED  BY <1>1, <2>1 DEF Settled
<1>3. ASSUME NEW k \in Nat, k \in S PROVE k + 1 \in S
  <2> SUFFICES ASSUME k + 1 <= hi - lo + 1
               PROVE  Settled(w, f[k + 1], hi + 1 - (k + 1))
    OBVIOUS
  <2> DEFINE h == hi - k
             u == f[k]
  <2>1. /\ h \in lo .. hi /\ h \in Nat /\ k + 1 \in 1 .. hi - lo + 1 /\ hi + 1 - (k + 1) = h
        /\ hi + 1 - k = h + 1 /\ (k + 1) - 1 = k /\ k <= hi - lo + 1 /\ h \in 1 .. Len(w)
    BY <1>0
  <2>2. Settled(w, u, h + 1)
    BY <1>3, <2>1
  <2>3. f[k + 1] = Settle(u, h)
    <3>1. f[k + 1] = Settle(f[(k + 1) - 1], hi + 1 - (k + 1))
      BY <1>1, <2>1
    <3> HIDE DEF h
    <3> QED  BY <2>1, <3>1
  <2> HIDE DEF h, u
  <2>4. /\ u \in Seq(Rec) /\ Len(u) = Len(w) /\ u[h] = w[h]
        /\ SortedFrom(u, h + 1) /\ EntriesFrom(u, h + 1) = EntriesFrom(w, h + 1)
        /\ \A j \in 1 .. h - 1 : u[j] = w[j]
    <3>1. h \in 1 .. (h + 1) - 1 /\ \A j \in 1 .. h - 1 : j \in 1 .. (h + 1) - 1
      BY <2>1
    <3> QED  BY <2>2, <3>1 DEF Settled
  <2>5. \A m \in h + 1 .. Len(u) : u[h].age <= u[m].age /\ u[h].tag # u[m].tag
    <3> TAKE m \in h + 1 .. Len(u)
    <3>1. u[m] \in EntriesFrom(w, h + 1)
      <4>1. u[m] \in EntriesFrom(u, h + 1)
        BY DEF EntriesFrom
      <4> QED  BY <2>4, <4>1
    <3>2. PICK j \in h + 1 .. Len(w) : u[m] = w[j]
      BY <3>1 DEF EntriesFrom
    <3>3. j \in lo .. Len(w) /\ h < j
      BY <2>1
    <3> QED  BY <2>1, <2>4, <3>2, <3>3
  <2> DEFINE z == Settle(u, h)
  <2>6. /\ z \in Seq(Rec) /\ Len(z) = Len(u)
        /\ \A j \in 1 .. h - 1 : z[j] = u[j]
        /\ SortedFrom(z, h) /\ EntriesFrom(z, h) = EntriesFrom(u, h)
    <3>1. h \in 1 .. Len(u)
      BY <2>1, <2>4
    <3> QED  BY <2>4, <2>5, <3>1, SettleInserts
  <2> HIDE DEF z
  <2>7. EntriesFrom(u, h) = EntriesFrom(w, h)
    <3>1. EntriesFrom(u, h) = {u[h]} \cup EntriesFrom(u, h + 1)
      <4>1. h \in 1 .. Len(u)
        BY <2>1, <2>4
      <4> QED  BY <2>4, <4>1, OneMoreEntry
    <3>2. EntriesFrom(w, h) = {w[h]} \cup EntriesFrom(w, h + 1)
      BY <2>1, OneMoreEntry
    <3> QED  BY <2>4, <3>1, <3>2
  <2>8. Settled(w, z, h)
    BY <2>4, <2>6, <2>7 DEF Settled
  <2> QED  BY <2>1, <2>3, <2>8 DEF z
<1>4. hi - lo + 1 \in S
  <2> HIDE DEF S
  <2>1. \A k \in Nat : k \in S
    BY <1>2, <1>3, NaturalInduction
  <2>2. hi - lo + 1 \in Nat
    BY <1>0
  <2> QED  BY <2>1, <2>2
<1>5. hi + 1 - (hi - lo + 1) = lo
  BY <1>0
<1> QED  BY <1>1, <1>4, <1>5

\* What has been settled behind a sorted part is sorted.
LEMMA SettledBehind ==
  ASSUME NEW w \in Seq(Rec), NEW lo \in Nat \ {0}, lo <= Len(w) + 1, NEW s, Settled(w, s, lo),
         \A k \in 1 .. lo - 1, m \in 1 .. Len(w) : k < m => Precedes(w[k], w[m])
  PROVE  s \in Seq(Rec) /\ SortedFrom(s, 1) /\ Entries(s) = Entries(w)
<1>0. lo \in Nat /\ Len(w) \in Nat /\ s \in Seq(Rec) /\ Len(s) = Len(w) /\ 1 <= lo
  BY DEF Settled
<1>1. \A k \in 1 .. lo - 1 : s[k] = w[k] /\ k \in 1 .. Len(w)
  BY <1>0 DEF Settled
<1>2. ASSUME NEW k \in lo .. Len(w)
      PROVE  /\ \E m \in lo .. Len(w) : s[k] = w[m]
             /\ \E m \in lo .. Len(w) : w[k] = s[m]
  <2>1. s[k] \in EntriesFrom(s, lo) /\ w[k] \in EntriesFrom(w, lo)
    BY <1>0 DEF EntriesFrom
  <2>2. s[k] \in EntriesFrom(w, lo) /\ w[k] \in EntriesFrom(s, lo)
    BY <2>1 DEF Settled
  <2> QED  BY <1>0, <2>2 DEF EntriesFrom
<1>3. SortedFrom(s, 1)
  <2> SUFFICES ASSUME NEW j \in 1 .. Len(w), NEW k \in 1 .. Len(w), j < k
               PROVE  Precedes(s[j], s[k])
    BY <1>0 DEF SortedFrom
  <2>1. CASE j < lo
    <3>1. j \in 1 .. lo - 1 /\ s[j] = w[j]
      BY <1>0, <1>1, <2>1
    <3>2. \E m \in 1 .. Len(w) : j < m /\ s[k] = w[m]
      <4>1. CASE k < lo
        <5>1. k \in 1 .. lo - 1 /\ s[k] = w[k]
          BY <1>0, <1>1, <4>1
        <5> QED  BY <5>1
      <4>2. CASE ~ (k < lo)
        <5>1. k \in lo .. Len(w)
          BY <1>0, <4>2
        <5>2. PICK m \in lo .. Len(w) : s[k] = w[m]
          BY <1>2, <5>1
        <5>3. m \in 1 .. Len(w) /\ j < m
          BY <1>0, <2>1
        <5> QED  BY <5>2, <5>3
      <4> QED  BY <4>1, <4>2
    <3> QED  BY <3>1, <3>2
  <2>2. CASE ~ (j < lo)
    <3>1. j \in lo .. Len(s) /\ k \in lo .. Len(s)
      BY <1>0, <2>2
    <3> QED  BY <3>1 DEF Settled, SortedFrom
  <2> QED  BY <2>1, <2>2
<1>4. Entries(s) = Entries(w)
  <2>1. ASSUME NEW e \in Entries(s) PROVE e \in Entries(w)
    <3>1. PICK k \in 1 .. Len(w) : e = s[k]
      BY <1>0, <2>1 DEF Entries, EntriesFrom
    <3>2. CASE k < lo
      <4>1. k \in 1 .. lo - 1
        BY <1>0, <3>2
      <4> QED  BY <1>1, <3>1, <4>1 DEF Entries, EntriesFrom
    <3>3. CASE ~ (k < lo)
      <4>1. k \in lo .. Len(w)
        BY <1>0, <3>3
      <4>2. PICK m \in lo .. Len(w) : s[k] = w[m]
        BY <1>2, <4>1
      <4>3. m \in 1 .. Len(w)
        BY <1>0
      <4> QED  BY <3>1, <4>2, <4>3 DEF Entries, EntriesFrom
    <3> QED  BY <3>2, <3>3
  <2>2. ASSUME NEW e \in Entries(w) PROVE e \in Entries(s)
    <3>1. PICK k \in 1 .. Len(w) : e = w[k]
      BY <2>2 DEF Entries, EntriesFrom
    <3>2. CASE k < lo
      <4>1. k \in 1 .. lo - 1 /\ k \in 1 .. Len(s)
        BY <1>0, <3>2
      <4> QED  BY <1>1, <3>1, <4>1 DEF Entries, EntriesFrom
    <3>3. CASE ~ (k < lo)
      <4>1. k \in lo .. Len(w)
        BY <1>0, <3>3
      <4>2. PICK m \in lo .. Len(w) : w[k] = s[m]
        BY <1>2, <4>1
      <4>3. m \in 1 .. Len(s)
        BY <1>0
      <4> QED  BY <3>1, <4>2, <4>3 DEF Entries, EntriesFrom
    <3> QED  BY <3>2, <3>3
  <2> QED  BY <2>1, <2>2
<1> QED  BY <1>0, <1>3, <1>4

\* The run of entries that have the accessed age.
Peers(v, pos) ==
  {i \in DOMAIN v : \A k \in DOMAIN v :
     (k <= i /\ k >= pos) \/ (k >= i /\ k <= pos) => v[k].age = v[pos].age}

\* Before the entries of the accessed age all are younger, behind them all are older.
LEMMA PeersAreARun ==
  ASSUME NEW v, Vector(v), NEW pos \in 1 .. Len(v)
  PROVE  /\ Min(Peers(v, pos)) \in 1 .. pos /\ Max(Peers(v, pos)) \in pos .. Len(v)
         /\ \A i \in 1 .. Len(v) : i < Min(Peers(v, pos)) => v[i].age < v[pos].age
         /\ \A i \in 1 .. Len(v) : i > Max(Peers(v, pos)) => v[pos].age < v[i].age
         /\ \A i \in Min(Peers(v, pos)) .. Max(Peers(v, pos)) : v[i].age = v[pos].age
<1> DEFINE P == Peers(v, pos)
           n == v[pos].age
           lower == Min(P)
           upper == Max(P)
<1>0. /\ Len(v) \in Nat /\ DOMAIN v = 1 .. Len(v) /\ pos \in Nat
      /\ \A i \in 1 .. Len(v) : v[i].age \in Nat
      /\ \A i, j \in 1 .. Len(v) : i < j => v[i].age <= v[j].age
  BY VectorEntries
<1>1. P = {i \in 1 .. Len(v) : v[i].age = n}
  <2>1. ASSUME NEW i \in P PROVE i \in 1 .. Len(v) /\ v[i].age = n
    <3>1. i \in 1 .. Len(v) /\ ((i <= i /\ i >= pos) \/ (i >= i /\ i <= pos))
      BY <1>0, <2>1 DEF Peers
    <3> QED  BY <1>0, <2>1, <3>1 DEF Peers
  <2>2. ASSUME NEW i \in 1 .. Len(v), v[i].age = n PROVE i \in P
    <3>1. ASSUME NEW k \in 1 .. Len(v), (k <= i /\ k >= pos) \/ (k >= i /\ k <= pos)
          PROVE  v[k].age = n
      <4>1. CASE k = i \/ k = pos
        BY <2>2, <4>1
      <4>2. CASE k # i /\ k # pos
        <5>1. (k < i /\ pos < k) \/ (i < k /\ k < pos)
          BY <1>0, <3>1, <4>2
        <5> QED  BY <1>0, <2>2, <5>1
      <4> QED  BY <4>1, <4>2
    <3> QED  BY <1>0, <3>1 DEF Peers
  <2> HIDE DEF P, n
  <2> QED  BY <2>1, <2>2
<1>2. /\ lower \in P /\ upper \in P
      /\ \A i \in P : lower <= i /\ i <= upper
  <2>1. IsFiniteSet(1 .. Len(v)) /\ 1 .. Len(v) \in SUBSET Int
    BY <1>0, FS_Interval
  <2>2. P \in SUBSET Int /\ IsFiniteSet(P) /\ P # {}
    BY <1>1, <2>1, FS_Subset
  <2> HIDE DEF P
  <2> QED  BY <2>2, MaxMin
<1> HIDE DEF lower, upper, P
<1>3. lower \in 1 .. pos /\ upper \in pos .. Len(v)
  <2>1. pos \in P
    BY <1>1
  <2> QED  BY <1>0, <1>1, <1>2, <2>1
<1>4. \A i \in 1 .. Len(v) : i < lower => v[i].age < n
  <2> TAKE i \in 1 .. Len(v)
  <2> HAVE i < lower
  <2>1. i \notin P /\ i < pos
    BY <1>0, <1>2, <1>3
  <2>2. v[i].age # n /\ v[i].age <= n
    BY <1>0, <1>1, <2>1
  <2> QED  BY <1>0, <2>2
<1>5. \A i \in 1 .. Len(v) : i > upper => n < v[i].age
  <2> TAKE i \in 1 .. Len(v)
  <2> HAVE i > upper
  <2>1. i \notin P /\ pos < i
    BY <1>0, <1>2, <1>3
  <2>2. v[i].age # n /\ n <= v[i].age
    BY <1>0, <1>1, <2>1
  <2> QED  BY <1>0, <2>2
<1>6. \A i \in lower .. upper : v[i].age = n
  <2> TAKE i \in lower .. upper
  <2>1. /\ i \in 1 .. Len(v) /\ lower \in 1 .. Len(v) /\ upper \in 1 .. Len(v)
        /\ (lower = i \/ lower < i) /\ (i = upper \/ i < upper)
    BY <1>0, <1>3
  <2>2. v[lower].age = n /\ v[upper].age = n
    BY <1>1, <1>2
  <2>3. n <= v[i].age /\ v[i].age <= n
    BY <1>0, <2>1, <2>2
  <2> QED  BY <1>0, <2>1, <2>3
<1> QED  BY <1>3, <1>4, <1>5, <1>6 DEF lower, upper, P

\* A part of the vector, aged.
LEMMA AgedPart ==
  ASSUME NEW v \in Seq(Rec), NEW lo \in 1 .. Len(v) + 1, NEW hi \in 0 .. Len(v), lo <= hi + 1
  PROVE  LET a == AgeBy(SubSeq(v, lo, hi), 1)
         IN  /\ a \in Seq(Rec) /\ Len(a) = hi - lo + 1
             /\ \A k \in 1 .. hi - lo + 1 :
                  a[k] = EntryOf(v[lo + k - 1].tag, v[lo + k - 1].age + 1)
<1> DEFINE s == SubSeq(v, lo, hi)
           a == AgeBy(s, 1)
           m == hi - lo + 1
<1>0. Len(v) \in Nat /\ lo \in Nat /\ hi \in Nat /\ m \in Nat
  OBVIOUS
<1>1. s \in Seq(Rec) /\ Len(s) = m /\ \A k \in 1 .. m : s[k] = v[lo + k - 1]
  BY <1>0
<1> HIDE DEF s, m
<1>2. DOMAIN s = 1 .. m /\ \A k \in 1 .. m : s[k] \in Rec
  BY <1>1
<1>3. a = [k \in 1 .. m |-> EntryOf(s[k].tag, s[k].age + 1)]
  BY <1>2 DEF AgeBy
<1>4. \A k \in 1 .. m : EntryOf(s[k].tag, s[k].age + 1) \in Rec
  <2> TAKE k \in 1 .. m
  <2>1. s[k].tag \in Nat /\ s[k].age + 1 \in Nat
    BY <1>2 DEF Rec
  <2> QED  BY <2>1, EntryIsRec
<1>5. a \in Seq(Rec) /\ Len(a) = m /\ \A k \in 1 .. m : a[k] = EntryOf(s[k].tag, s[k].age + 1)
  BY <1>0, <1>3, <1>4
<1> HIDE DEF a
<1>6. \A k \in 1 .. m : a[k] = EntryOf(v[lo + k - 1].tag, v[lo + k - 1].age + 1)
  BY <1>1, <1>5
<1> QED  BY <1>5, <1>6 DEF a, s, m

\* The vector of the may update before it is settled.
Aging(v, pos, upper) ==
  <<EntryOf(v[pos].tag, 0)>>
    \o AgeBy(SubSeq(v, 1, pos - 1), 1) \o AgeBy(SubSeq(v, pos + 1, upper), 1)
    \o SubSeq(v, upper + 1, Len(v))

\* The entries of that vector: the accessed line, those before it and its peers, one older,
\* and the rest.
LEMMA AgingByIndex ==
  ASSUME NEW v \in Seq(Rec), NEW pos \in 1 .. Len(v), NEW upper \in pos .. Len(v)
  PROVE  LET w == Aging(v, pos, upper)
         IN  /\ w \in Seq(Rec) /\ Len(w) = Len(v) /\ w[1] = EntryOf(v[pos].tag, 0)
             /\ \A k \in 2 .. pos : w[k] = EntryOf(v[k - 1].tag, v[k - 1].age + 1)
             /\ \A k \in pos + 1 .. upper : w[k] = EntryOf(v[k].tag, v[k].age + 1)
             /\ \A k \in upper + 1 .. Len(v) : w[k] = v[k]
<1> DEFINE w == Aging(v, pos, upper)
           front == EntryOf(v[pos].tag, 0)
           f == <<front>>
           a == AgeBy(SubSeq(v, 1, pos - 1), 1)
           b == AgeBy(SubSeq(v, pos + 1, upper), 1)
           d == SubSeq(v, upper + 1, Len(v))
           fa == f \o a
           fab == fa \o b
<1>0. Len(v) \in Nat /\ pos \in Nat /\ upper \in Nat /\ 1 <= pos /\ pos <= upper /\ upper <= Len(v)
  OBVIOUS
<1>1. f \in Seq(Rec) /\ Len(f) = 1 /\ f[1] = front
  <2>0. v[pos] \in Rec
    BY <1>0
  <2>1. v[pos].tag \in Nat
    BY <2>0 DEF Rec
  <2>2. front \in Rec
    BY <2>1, EntryIsRec
  <2> HIDE DEF front
  <2> QED  BY <2>2
<1>2. /\ a \in Seq(Rec) /\ Len(a) = pos - 1
      /\ \A k \in 1 .. pos - 1 : a[k] = EntryOf(v[k].tag, v[k].age + 1)
  <2>1. 1 \in 1 .. Len(v) + 1 /\ pos - 1 \in 0 .. Len(v) /\ 1 <= (pos - 1) + 1
        /\ (pos - 1) - 1 + 1 = pos - 1 /\ \A k \in 1 .. pos - 1 : 1 + k - 1 = k
    BY <1>0
  <2>2. /\ a \in Seq(Rec) /\ Len(a) = (pos - 1) - 1 + 1
        /\ \A k \in 1 .. (pos - 1) - 1 + 1 :
             a[k] = EntryOf(v[1 + k - 1].tag, v[1 + k - 1].age + 1)
    BY <2>1, AgedPart
  <2> HIDE DEF a
  <2> QED  BY <2>1, <2>2
<1>3. /\ b \in Seq(Rec) /\ Len(b) = upper - pos
      /\ \A k \in 1 .. upper - pos : b[k] = EntryOf(v[pos + k].tag, v[pos + k].age + 1)
  <2>1. pos + 1 \in 1 .. Len(v) + 1 /\ upper \in 0 .. Len(v) /\ pos + 1 <= upper + 1
        /\ upper - (pos + 1) + 1 = upper - pos
        /\ \A k \in 1 .. upper - pos : (pos + 1) + k - 1 = pos + k
    BY <1>0
  <2>2. /\ b \in Seq(Rec) /\ Len(b) = upper - (pos + 1) + 1
        /\ \A k \in 1 .. upper - (pos + 1) + 1 :
             b[k] = EntryOf(v[(pos + 1) + k - 1].tag, v[(pos + 1) + k - 1].age + 1)
    BY <2>1, AgedPart
  <2> HIDE DEF b
  <2> QED  BY <2>1, <2>2
<1>4. d \in Seq(Rec) /\ Len(d) = Len(v) - upper /\ \A k \in 1 .. Len(v) - upper : d[k] = v[upper + k]
  BY <1>0
<1>5. w = fab \o d
  BY DEF Aging
<1> HIDE DEF w, f, a, b, d
<1>6. fa \in Seq(Rec) /\ Len(fa) = pos /\ \A k \in 1 .. pos : fa[k] = IF k <= 1 THEN f[k] ELSE a[k - 1]
  <2>1. /\ fa \in Seq(Rec) /\ Len(fa) = Len(f) + Len(a)
        /\ \A k \in 1 .. Len(f) + Len(a) : fa[k] = IF k <= Len(f) THEN f[k] ELSE a[k - Len(f)]
    BY <1>1, <1>2, ConcatProperties
  <2> HIDE DEF fa
  <2> QED  BY <1>0, <1>1, <1>2, <2>1
<1> HIDE DEF fa
<1>7. /\ fab \in Seq(Rec) /\ Len(fab) = upper
      /\ \A k \in 1 .. upper : fab[k] = IF k <= pos THEN fa[k] ELSE b[k - pos]
  <2>1. /\ fab \in Seq(Rec) /\ Len(fab) = Len(fa) + Len(b)
        /\ \A k \in 1 .. Len(fa) + Len(b) : fab[k] = IF k <= Len(fa) THEN fa[k] ELSE b[k - Len(fa)]
    BY <1>3, <1>6, ConcatProperties
  <2> HIDE DEF fab
  <2> QED  BY <1>0, <1>3, <1>6, <2>1
<1> HIDE DEF fab
<1>8. /\ w \in Seq(Rec) /\ Len(w) = Len(v)
      /\ \A k \in 1 .. Len(v) : w[k] = IF k <= upper THEN fab[k] ELSE d[k - upper]
  <2>1. /\ w \in Seq(Rec) /\ Len(w) = Len(fab) + Len(d)
        /\ \A k \in 1 .. Len(fab) + Len(d) : w[k] = IF k <= Len(fab) THEN fab[k] ELSE d[k - Len(fab)]
    BY <1>4, <1>5, <1>7, ConcatProperties
  <2> QED  BY <1>0, <1>4, <1>7, <2>1
<1>9. w[1] = front
  BY <1>0, <1>1, <1>6, <1>7, <1>8
<1>10. ASSUME NEW k \in 2 .. pos PROVE w[k] = EntryOf(v[k - 1].tag, v[k - 1].age + 1)
  <2>1. k \in 1 .. Len(v) /\ k <= upper /\ k \in 1 .. upper /\ k <= pos /\ k \in 1 .. pos /\ ~ (k <= 1)
        /\ k - 1 \in 1 .. pos - 1
    BY <1>0
  <2>2. w[k] = a[k - 1]
    BY <1>6, <1>7, <1>8, <2>1
  <2> QED  BY <1>2, <2>1, <2>2
<1>11. ASSUME NEW k \in pos + 1 .. upper PROVE w[k] = EntryOf(v[k].tag, v[k].age + 1)
  <2>1. k \in 1 .. Len(v) /\ k <= upper /\ k \in 1 .. upper /\ ~ (k <= pos)
        /\ k - pos \in 1 .. upper - pos /\ pos + (k - pos) = k
    BY <1>0
  <2>2. w[k] = b[k - pos]
    BY <1>7, <1>8, <2>1
  <2> QED  BY <1>3, <2>1, <2>2
<1>12. ASSUME NEW k \in upper + 1 .. Len(v) PROVE w[k] = v[k]
  <2>1. k \in 1 .. Len(v) /\ ~ (k <= upper) /\ k - upper \in 1 .. Len(v) - upper
        /\ upper + (k - upper) = k
    BY <1>0
  <2>2. w[k] = d[k - upper]
    BY <1>8, <2>1
  <2> QED  BY <1>4, <2>1, <2>2
<1> QED  BY <1>8, <1>9, <1>10, <1>11, <1>12 DEF w, front

\* The lines of the accessed age and the younger ones age, the rest stays: the may update
\* of a line that the vector holds before the last age.
LEMMA UpdatedInside ==
  ASSUME NEW v, Vector(v), NEW pos \in 1 .. Len(v)
  PROVE  /\ Vector(UpdateInside(v, pos))
         /\ Entries(UpdateInside(v, pos)) =
              {EntryOf(v[pos].tag, 0)}
                \cup {Overtaken(x, v[pos].age + 1) :
                        x \in {x \in Entries(v) : x.tag # v[pos].tag}}
<1> DEFINE P == Peers(v, pos)
           lower == Min(P)
           upper == Max(P)
           n == v[pos].age
           w == Aging(v, pos, upper)
           s == SettleUpTo(w, upper, lower + 1)
           es == {x \in Entries(v) : x.tag # v[pos].tag}
           from == [k \in 2 .. Len(v) |-> IF k <= pos THEN k - 1 ELSE k]
<1>0. /\ v \in Seq(Rec) /\ Len(v) \in Nat /\ pos \in Nat /\ n \in Nat /\ v[pos].tag \in Nat
      /\ \A i \in 1 .. Len(v) : v[i] \in Rec /\ v[i] \in Entries(v) /\ v[i].tag \in Nat /\ v[i].age \in Nat
      /\ \A x \in Entries(v) : x \in Rec /\ \E i \in 1 .. Len(v) : x = v[i]
      /\ \A i, j \in 1 .. Len(v) : i < j => Precedes(v[i], v[j]) /\ v[i].age <= v[j].age
      /\ \A i, j \in 1 .. Len(v) : v[i].tag = v[j].tag => i = j
  <2> HIDE DEF P, lower, upper, w, s, es, from
  <2>1. /\ v \in Seq(Rec) /\ Len(v) \in Nat /\ Entries(v) \subseteq Rec
        /\ \A i \in 1 .. Len(v) : v[i] \in Rec
        /\ \A i \in 1 .. Len(v) : v[i] \in Entries(v)
        /\ \A i \in 1 .. Len(v) : v[i].tag \in Nat /\ v[i].age \in Nat
        /\ \A x \in Entries(v) : \E i \in 1 .. Len(v) : x = v[i]
    BY VectorEntries
  <2>2. \A i, j \in 1 .. Len(v) : i < j => Precedes(v[i], v[j]) /\ v[i].age <= v[j].age
    BY VectorEntries
  <2>3. \A i, j \in 1 .. Len(v) : v[i].tag = v[j].tag => i = j
    BY VectorEntries
  <2>4. pos \in Nat /\ n \in Nat /\ v[pos].tag \in Nat
    BY <2>1
  <2> QED  BY <2>1, <2>2, <2>3, <2>4
<1>1. /\ lower \in 1 .. pos /\ upper \in pos .. Len(v)
      /\ \A i \in 1 .. Len(v) : i < lower => v[i].age < n
      /\ \A i \in 1 .. Len(v) : i > upper => n < v[i].age
      /\ \A i \in lower .. upper : v[i].age = n
  BY PeersAreARun
<1>2. UpdateInside(v, pos) = s
  BY DEF UpdateInside, Peers, Aging
<1> HIDE DEF lower, upper, P, s
<1>3. /\ w \in Seq(Rec) /\ Len(w) = Len(v) /\ w[1] = EntryOf(v[pos].tag, 0)
      /\ \A k \in 2 .. pos : w[k] = EntryOf(v[k - 1].tag, v[k - 1].age + 1)
      /\ \A k \in pos + 1 .. upper : w[k] = EntryOf(v[k].tag, v[k].age + 1)
      /\ \A k \in upper + 1 .. Len(v) : w[k] = v[k]
  BY <1>0, <1>1, AgingByIndex
<1> HIDE DEF w, n
<1>4. lower \in Nat /\ upper \in Nat /\ 1 <= lower /\ lower <= pos /\ pos <= upper /\ upper <= Len(v)
  BY <1>0, <1>1
<1>5. \A k \in 2 .. Len(v) : /\ from[k] \in (1 .. Len(v)) \ {pos} /\ from[k] \in Nat
                             /\ k <= lower => from[k] < lower
                             /\ k > lower => from[k] >= lower
                             /\ k > upper => from[k] = k
                             /\ k <= upper => from[k] <= upper
                             /\ from[k] = IF k <= pos THEN k - 1 ELSE k
  BY <1>0, <1>4
<1>6. ASSUME NEW k \in 2 .. Len(v) PROVE w[k] = Overtaken(v[from[k]], n + 1)
  <2> DEFINE j == from[k]
             x == v[j]
  <2>1. j \in 1 .. Len(v) /\ x \in Rec /\ x.age \in Nat
    BY <1>0, <1>5
  <2>2. CASE k <= upper
    <3>1. x.age <= n
      <4>1. j < lower \/ j \in lower .. upper
        BY <1>4, <1>5, <2>1, <2>2
      <4> HIDE DEF j
      <4>2. CASE j < lower
        BY <1>0, <1>1, <2>1, <4>2
      <4>3. CASE j \in lower .. upper
        BY <1>0, <1>1, <2>1, <4>3
      <4> QED  BY <4>1, <4>2, <4>3
    <3>2. w[k] = EntryOf(x.tag, x.age + 1)
      <4>1. CASE k <= pos
        <5>1. k \in 2 .. pos /\ j = k - 1
          BY <1>0, <1>5, <4>1
        <5> QED  BY <1>3, <5>1
      <4>2. CASE ~ (k <= pos)
        <5>1. k \in pos + 1 .. upper /\ j = k
          BY <1>0, <1>4, <1>5, <2>2, <4>2
        <5> QED  BY <1>3, <5>1
      <4> QED  BY <4>1, <4>2
    <3>3. x.age < n + 1
      BY <1>0, <2>1, <3>1
    <3> QED  BY <3>2, <3>3 DEF Overtaken
  <2>3. CASE ~ (k <= upper)
    <3>1. k \in upper + 1 .. Len(v) /\ j = k /\ k > upper
      BY <1>0, <1>4, <1>5, <2>3
    <3>2. w[k] = x /\ n < x.age
      BY <1>1, <1>3, <2>1, <3>1
    <3>3. ~ (x.age < n + 1)
      BY <1>0, <2>1, <3>2
    <3> QED  BY <3>2, <3>3 DEF Overtaken
  <2> QED  BY <2>2, <2>3
<1>7. \A j, k \in 2 .. Len(v) : j < k => from[j] < from[k]
  <2> TAKE j, k \in 2 .. Len(v)
  <2> HAVE j < k
  <2>1. /\ from[j] = IF j <= pos THEN j - 1 ELSE j
        /\ from[k] = IF k <= pos THEN k - 1 ELSE k
    BY <1>5
  <2> HIDE DEF from
  <2> QED  BY <1>0, <2>1
<1> HIDE DEF from
<1>8. n + 1 \in Nat /\ \A k \in 2 .. Len(v) :
        /\ v[from[k]] \in Rec /\ v[from[k]].age \in Nat
        /\ w[k].tag = v[from[k]].tag
        /\ w[k].age = IF v[from[k]].age < n + 1 THEN v[from[k]].age + 1 ELSE v[from[k]].age
  <2>1. n + 1 \in Nat
    BY <1>0
  <2>2. ASSUME NEW k \in 2 .. Len(v)
        PROVE  /\ v[from[k]] \in Rec /\ v[from[k]].age \in Nat
               /\ w[k].tag = v[from[k]].tag
               /\ w[k].age = IF v[from[k]].age < n + 1 THEN v[from[k]].age + 1 ELSE v[from[k]].age
    <3> DEFINE x == v[from[k]]
    <3>1. x \in Rec /\ x.age \in Nat
      BY <1>0, <1>5
    <3> HIDE DEF x
    <3>2. /\ Overtaken(x, n + 1).tag = x.tag
          /\ Overtaken(x, n + 1).age = IF x.age < n + 1 THEN x.age + 1 ELSE x.age
      BY <2>1, <3>1, OvertakenKeepsOrder
    <3>3. w[k] = Overtaken(x, n + 1)
      BY <1>6 DEF x
    <3> QED  BY <3>1, <3>2, <3>3 DEF x
  <2> QED  BY <2>1, <2>2
<1>9. ASSUME NEW j \in 2 .. Len(v), NEW k \in 2 .. Len(v), j < k
      PROVE  /\ w[j].age <= w[k].age /\ w[j].tag # w[k].tag
             /\ j <= lower => Precedes(w[j], w[k])
  <2> DEFINE x == v[from[j]]
             y == v[from[k]]
  <2>1. /\ from[j] \in 1 .. Len(v) /\ from[k] \in 1 .. Len(v) /\ from[j] < from[k]
        /\ from[j] # from[k]
    BY <1>5, <1>7, <1>9
  <2>2. x.age <= y.age /\ Precedes(x, y) /\ x.tag # y.tag
    BY <1>0, <2>1
  <2>3. /\ x.age \in Nat /\ y.age \in Nat /\ w[j].tag = x.tag /\ w[k].tag = y.tag
        /\ x \in Rec /\ y \in Rec
        /\ w[j].age = (IF x.age < n + 1 THEN x.age + 1 ELSE x.age)
        /\ w[k].age = (IF y.age < n + 1 THEN y.age + 1 ELSE y.age)
    BY <1>8
  <2>4. ASSUME j <= lower PROVE Precedes(w[j], w[k])
    <3>1. x.age < n
      BY <1>1, <1>5, <2>1, <2>4
    <3>2. Overtaken(x, n + 1) = w[j] /\ Overtaken(y, n + 1) = w[k]
      BY <1>6
    <3> HIDE DEF x, y
    <3>3. w[j].age < n + 1
      BY <1>0, <2>3, <3>1
    <3>4. Overtaken(x, n + 1).age < n + 1
      BY <3>2, <3>3
    <3>5. Precedes(Overtaken(x, n + 1), Overtaken(y, n + 1))
      BY <1>8, <2>2, <2>3, <3>4, OvertakenKeepsOrder
    <3> QED  BY <3>2, <3>5
  <2> HIDE DEF x, y
  <2>5. w[j].age <= w[k].age
    BY <1>0, <2>2, <2>3
  <2> QED  BY <2>2, <2>3, <2>4, <2>5
<1>10. SortedFrom(w, upper + 1)
  <2> SUFFICES ASSUME NEW j \in upper + 1 .. Len(v), NEW k \in upper + 1 .. Len(v), j < k
               PROVE  Precedes(w[j], w[k])
    BY <1>3 DEF SortedFrom
  <2>1. w[j] = v[j] /\ w[k] = v[k] /\ j \in 1 .. Len(v) /\ k \in 1 .. Len(v)
    BY <1>0, <1>3, <1>4
  <2> QED  BY <1>0, <2>1
<1>11. Settled(w, s, lower + 1)
  <2>1. \A k \in lower + 1 .. upper, m \in lower + 1 .. Len(w) :
           k < m => w[k].age <= w[m].age /\ w[k].tag # w[m].tag
    <3> TAKE k \in lower + 1 .. upper, m \in lower + 1 .. Len(w)
    <3>1. k \in 2 .. Len(v) /\ m \in 2 .. Len(v)
      BY <1>0, <1>3, <1>4
    <3> QED  BY <1>9, <3>1
  <2>2. lower + 1 \in Nat \ {0} /\ upper \in Nat /\ lower + 1 <= upper + 1 /\ upper <= Len(w)
    BY <1>3, <1>4
  <2> QED  BY <1>3, <1>10, <2>1, <2>2, SettleEntries DEF s
<1>12. s \in Seq(Rec) /\ SortedFrom(s, 1) /\ Entries(s) = Entries(w)
  <2>1. ASSUME NEW k \in 1 .. (lower + 1) - 1, NEW m \in 1 .. Len(w), k < m
        PROVE  Precedes(w[k], w[m])
    <3>0. m \in 2 .. Len(v) /\ k <= lower
      BY <1>0, <1>3, <1>4, <2>1
    <3>1. CASE k = 1
      <4>1. w[k].age = 0
        BY <1>0, <1>3, <3>1, EntryIsRec
      <4>2. w[m].age > 0
        <5>1. w[m].age = (IF v[from[m]].age < n + 1 THEN v[from[m]].age + 1 ELSE v[from[m]].age)
              /\ v[from[m]].age \in Nat
          BY <1>8, <3>0
        <5> QED  BY <1>0, <5>1
      <4> QED  BY <4>1, <4>2 DEF Precedes
    <3>2. CASE k # 1
      <4>1. k \in 2 .. Len(v)
        BY <1>0, <1>4, <3>2
      <4> QED  BY <1>9, <2>1, <3>0, <4>1
    <3> QED  BY <3>1, <3>2
  <2>2. lower + 1 \in Nat \ {0} /\ lower + 1 <= Len(w) + 1
    BY <1>3, <1>4
  <2> QED  BY <1>3, <1>11, <2>1, <2>2, SettledBehind
<1> DEFINE fs == {EntryOf(v[pos].tag, 0)} \cup {Overtaken(x, n + 1) : x \in es}
<1>13. Entries(w) = fs
  <2>1. ASSUME NEW e \in Entries(w) PROVE e \in fs
    <3>1. PICK k \in 1 .. Len(v) : e = w[k]
      BY <1>3, <2>1 DEF Entries, EntriesFrom
    <3>2. CASE k = 1
      BY <1>3, <3>1, <3>2
    <3>3. CASE k # 1
      <4>1. k \in 2 .. Len(v)
        BY <1>0, <3>3
      <4>2. e = Overtaken(v[from[k]], n + 1) /\ from[k] \in (1 .. Len(v)) \ {pos}
        BY <1>5, <1>6, <3>1, <4>1
      <4>3. v[from[k]] \in es
        BY <1>0, <4>2
      <4> QED  BY <4>2, <4>3
    <3> QED  BY <3>2, <3>3
  <2>2. EntryOf(v[pos].tag, 0) \in Entries(w)
    <3>1. 1 \in 1 .. Len(w)
      BY <1>0, <1>3
    <3> QED  BY <1>3, <3>1 DEF Entries, EntriesFrom
  <2>3. ASSUME NEW x \in es PROVE Overtaken(x, n + 1) \in Entries(w)
    <3>1. PICK i \in 1 .. Len(v) : x = v[i] /\ i # pos
      BY <1>0
    <3>2. PICK k \in 2 .. Len(v) : from[k] = i
      <4>1. CASE i < pos
        <5>1. i + 1 \in 2 .. Len(v) /\ i + 1 <= pos /\ (i + 1) - 1 = i
          BY <1>0, <4>1
        <5> QED  BY <1>5, <5>1
      <4>2. CASE ~ (i < pos)
        <5>1. i \in 2 .. Len(v) /\ ~ (i <= pos)
          BY <1>0, <3>1, <4>2
        <5> QED  BY <1>5, <5>1
      <4> QED  BY <4>1, <4>2
    <3>3. w[k] = Overtaken(x, n + 1) /\ k \in 1 .. Len(w)
      BY <1>0, <1>3, <1>6, <3>1, <3>2
    <3> QED  BY <3>3 DEF Entries, EntriesFrom
  <2> HIDE DEF es
  <2> QED  BY <2>1, <2>2, <2>3
<1>14. OneEntryPerTag(fs)
  <2>1. ASSUME NEW e \in Entries(w), NEW g \in Entries(w), e.tag = g.tag PROVE e = g
    <3>1. PICK j \in 1 .. Len(v) : e = w[j]
      BY <1>3 DEF Entries, EntriesFrom
    <3>2. PICK k \in 1 .. Len(v) : g = w[k]
      BY <1>3 DEF Entries, EntriesFrom
    <3>3. \A i \in 2 .. Len(v) : w[i].tag # w[1].tag
      <4> TAKE i \in 2 .. Len(v)
      <4>1. w[1].tag = v[pos].tag
        BY <1>0, <1>3, EntryIsRec
      <4>2. from[i] \in 1 .. Len(v) /\ from[i] # pos /\ w[i].tag = v[from[i]].tag
        BY <1>5, <1>8
      <4> QED  BY <1>0, <4>1, <4>2
    <3>4. j = k
      <4>1. CASE j = 1 \/ k = 1
        BY <1>0, <2>1, <3>1, <3>2, <3>3, <4>1
      <4>2. CASE j # 1 /\ k # 1
        <5>1. j \in 2 .. Len(v) /\ k \in 2 .. Len(v)
          BY <1>0, <4>2
        <5>2. ~ (j < k) /\ ~ (k < j)
          BY <1>9, <2>1, <3>1, <3>2, <5>1
        <5> QED  BY <5>1, <5>2
      <4> QED  BY <4>1, <4>2
    <3> QED  BY <3>1, <3>2, <3>4
  <2> HIDE DEF fs
  <2> QED  BY <1>13, <2>1 DEF OneEntryPerTag
<1> HIDE DEF fs
<1>15. Vector(s) /\ Entries(s) = fs
  BY <1>12, <1>13, <1>14 DEF Vector
<1> QED  BY <1>2, <1>15 DEF fs, n

\* The may update of a line that the vector does not hold, or holds at the last age: the
\* younger entries age, the others are dropped.
LEMMA UpdatedAtBack ==
  ASSUME NEW v, Vector(v), NEW t \in Nat,
         \A x \in Entries(v) : x.age < Assoc - 1 => x.tag # t
  PROVE  /\ Vector(UpdateAtBack(v, t))
         /\ Entries(UpdateAtBack(v, t)) =
              {EntryOf(t, 0)} \cup {EntryOf(x.tag, x.age + 1) :
                                      x \in {x \in Entries(v) : x.age < Assoc - 1}}
<1> DEFINE b == Young(v)
           a == AgeBy(b, 1)
           es == {x \in Entries(v) : x.age < Assoc - 1}
           fs == {EntryOf(x.tag, x.age + 1) : x \in es}
<1>0. Assoc - 1 \in Nat
  BY AssocAssumption
<1>1. Vector(b) /\ Entries(b) = es
  BY <1>0, YoungerEntries DEF Young
<1> HIDE DEF b
<1>2. a \in Seq(Rec) /\ Vector(a) /\ Entries(a) = {EntryOf(x.tag, x.age + 1) : x \in Entries(b)}
  BY <1>1, AgedEntries
<1> HIDE DEF a
<1>3. Entries(a) = fs
  BY <1>1, <1>2
<1>4. \A x \in fs : x.age > 0 /\ x.tag # t
  <2> SUFFICES ASSUME NEW y \in es
               PROVE  EntryOf(y.tag, y.age + 1).age > 0 /\ EntryOf(y.tag, y.age + 1).tag # t
    OBVIOUS
  <2>1. y \in Entries(v) /\ y.age < Assoc - 1 /\ y.tag # t
    OBVIOUS
  <2>2. y.tag \in Nat /\ y.age \in Nat
    BY <2>1, VectorEntries
  <2>3. EntryOf(y.tag, y.age + 1).tag = y.tag /\ EntryOf(y.tag, y.age + 1).age = y.age + 1
    BY <2>2, EntryIsRec
  <2> QED  BY <2>1, <2>2, <2>3
<1> HIDE DEF fs
<1>5. SortedFrom(a, 1) /\ OneEntryPerTag(fs)
  BY <1>2, <1>3 DEF Vector
<1> DEFINE w == <<EntryOf(t, 0)>> \o a
<1>6. Vector(w) /\ Entries(w) = {EntryOf(t, 0)} \cup fs
  BY <1>2, <1>3, <1>4, <1>5, FrontEntries
<1>7. UpdateAtBack(v, t) = w
  BY DEF UpdateAtBack, a, b
<1> HIDE DEF w
<1> QED  BY <1>6, <1>7 DEF fs

\* The lines that age with an access to a line of age n, in a set of Assoc lines.
AgesWith(m, n) == IF m <= n /\ m < Assoc THEN m + 1 ELSE m

\* The may update in terms of bounds.
LEMMA MayUpdateAges ==
  ASSUME NEW s, MayState(s), NEW t \in Nat
  PROVE  /\ MayState(MayUpdate(s, t))
         /\ MayUpdate(s, t).implicit = AgesWith(s.implicit, MinAge(s, t))
         /\ \A u \in Nat : MinAge(MayUpdate(s, t), u) =
              IF u = t THEN 0 ELSE AgesWith(MinAge(s, u), MinAge(s, t))
<1> DEFINE v == s.explicit
           pos == Position(v, t)
           n == MinAge(s, t)
           m == s.implicit
           back == pos = 0 \/ n = Assoc - 1
           w == IF back THEN UpdateAtBack(v, t) ELSE UpdateInside(v, pos)
           r == CutOff(w, AgesWith(m, n))
<1>0. Vector(v) /\ m \in 0 .. Assoc /\ Assoc \in Nat \ {0}
      /\ (\A x \in Entries(v) : x.age < m)
      /\ \A x \in Entries(v) : x \in Rec /\ x.tag \in Nat /\ x.age \in Nat
  <2>1. Vector(v) /\ m \in 0 .. Assoc /\ \A x \in Entries(v) : x.age < m
    BY DEF MayState
  <2> HIDE DEF v
  <2> QED  BY <2>1, VectorEntries, AssocAssumption
<1>1. MayUpdate(s, t) = r
  BY DEF MayUpdate, CutOff, AgesWith
<1>2. /\ n \in 0 .. Assoc /\ n \in Nat /\ n <= m /\ (t \in TagsOf(v) <=> n < m) /\ (n >= m => n = m)
      /\ \A x \in Entries(v) : x.tag = t => n = x.age
  <2>1. \A k \in 0 .. Assoc : k \in Nat
    BY AssocAssumption
  <2> QED  BY <2>1, MayAges
<1>3. /\ t \in TagsOf(v) => pos \in 1 .. Len(v) /\ v[pos].tag = t
      /\ t \notin TagsOf(v) => pos = 0
      /\ Len(v) \in Nat
      /\ \A x \in Entries(v) : x.tag \in TagsOf(v)
  <2> HIDE DEF v
  <2>1. TagsOf(v) = {x.tag : x \in Entries(v)}
    BY <1>0, PositionFinds
  <2> QED  BY <1>0, <2>1, PositionFinds, VectorEntries
<1>4. \A u : /\ MinAge(s, u) \in 0 .. Assoc /\ MinAge(s, u) \in Nat /\ MinAge(s, u) <= m
             /\ \A x \in Entries(v) : x.tag = u => MinAge(s, u) = x.age
             /\ MinAge(s, u) < m => u \in Nat /\ EntryOf(u, MinAge(s, u)) \in Entries(v)
  <2>1. \A k \in 0 .. Assoc : k \in Nat
    BY AssocAssumption
  <2> QED  BY <2>1, MayAges
<1>5. AgesWith(m, n) \in 0 .. Assoc
  BY <1>0, <1>2 DEF AgesWith
\* Whatever way the vector is updated, the entries below the new implicit bound are those
\* of the lines, aged.
<1> DEFINE Aged(x) == EntryOf(x.tag, AgesWith(x.age, n))
           others == {x \in Entries(v) : x.tag # t}
           es == {EntryOf(t, 0)} \cup {Aged(x) : x \in others}
           k == AgesWith(m, n)
<1>6. Vector(w) /\ {x \in Entries(w) : x.age < k} = {x \in es : x.age < k}
  <2> HIDE DEF v, n, m, pos
  <2>1. CASE back
    <3>1. \A x \in Entries(v) : x.age < Assoc - 1 => x.tag # t
      <4> SUFFICES ASSUME NEW x \in Entries(v), x.age < Assoc - 1, x.tag = t PROVE FALSE
        OBVIOUS
      <4>1. n = x.age /\ t \in TagsOf(v)
        BY <1>2, <1>3
      <4>2. pos # 0
        BY <1>3, <4>1
      <4> QED  BY <1>0, <2>1, <4>1, <4>2
    <3> DEFINE fs == {EntryOf(x.tag, x.age + 1) : x \in {x \in Entries(v) : x.age < Assoc - 1}}
    <3>2. Vector(UpdateAtBack(v, t)) /\ Entries(UpdateAtBack(v, t)) = {EntryOf(t, 0)} \cup fs
      BY <1>0, <3>1, UpdatedAtBack
    <3>3. w = UpdateAtBack(v, t)
      BY <2>1
    <3> HIDE DEF w
    <3>4. ASSUME NEW x \in Entries(v), x.age < Assoc - 1
          PROVE  x \in others /\ Aged(x) = EntryOf(x.tag, x.age + 1)
      <4>1. x.tag # t
        BY <3>1, <3>4
      <4>2. x.age <= n
        <5>1. CASE n = Assoc - 1
          BY <1>0, <3>4, <5>1
        <5>2. CASE pos = 0
          <6>1. n = m /\ x.age < m
            BY <1>0, <1>2, <1>3, <5>2
          <6> QED  BY <1>0, <6>1
        <5> QED  BY <2>1, <5>1, <5>2
      <4>3. AgesWith(x.age, n) = x.age + 1
        BY <1>0, <3>4, <4>2 DEF AgesWith
      <4> QED  BY <4>1, <4>3
    <3>5. ASSUME NEW x \in others, Aged(x).age < k PROVE x.age < Assoc - 1
      <4>1. x \in Entries(v) /\ x.age \in Nat /\ x.age < m /\ x.tag \in Nat
        BY <1>0
      <4>2. x.age <= n
        <5>1. CASE n = Assoc - 1
          BY <1>0, <4>1, <5>1
        <5>2. CASE pos = 0
          <6>0. t \notin TagsOf(v) /\ m \in Nat
            BY <1>0, <1>3, <5>2
          <6>1. n = m
            BY <1>2, <6>0
          <6> QED  BY <1>0, <1>2, <4>1, <6>1
        <5> QED  BY <2>1, <5>1, <5>2
      <4>3. AgesWith(x.age, n) = x.age + 1
        BY <1>0, <4>1, <4>2 DEF AgesWith
      <4>4. Aged(x).age = x.age + 1
        BY <4>3 DEF EntryOf
      <4> HIDE DEF Aged
      <4>5. k \in Nat /\ k <= Assoc
        BY <1>0, <1>5
      <4> QED  BY <1>0, <3>5, <4>1, <4>4, <4>5
    <3> HIDE DEF Aged, others, k
    <3>6. \A e : e \in {EntryOf(t, 0)} \cup fs /\ e.age < k <=> e \in es /\ e.age < k
      BY <3>4, <3>5 DEF others
    <3> HIDE DEF es, fs
    <3> QED  BY <3>2, <3>3, <3>6
  <2>2. CASE ~ back
    <3>1. t \in TagsOf(v) /\ pos \in 1 .. Len(v) /\ v[pos].tag = t /\ n < m /\ n # Assoc - 1
      BY <1>2, <1>3, <2>2
    <3>2. v[pos] \in Entries(v)
      BY <1>0, <3>1, VectorEntries
    <3>3. v[pos].age = n
      BY <1>2, <3>1, <3>2
    <3> DEFINE fs == {Overtaken(x, v[pos].age + 1) : x \in {x \in Entries(v) : x.tag # v[pos].tag}}
    <3>4. Vector(UpdateInside(v, pos)) /\ Entries(UpdateInside(v, pos)) = {EntryOf(v[pos].tag, 0)} \cup fs
      BY <1>0, <3>1, UpdatedInside
    <3>5. w = UpdateInside(v, pos)
      BY <2>2
    <3> HIDE DEF w
    <3>6. ASSUME NEW x \in others PROVE Aged(x) = Overtaken(x, n + 1)
      <4>1. x.age \in Nat /\ x.age < m /\ x.tag \in Nat /\ x = EntryOf(x.tag, x.age)
        BY <1>0, VectorEntries
      <4>2. AgesWith(x.age, n) = IF x.age < n + 1 THEN x.age + 1 ELSE x.age
        BY <1>0, <1>2, <4>1 DEF AgesWith
      <4> QED  BY <4>1, <4>2 DEF Overtaken
    <3>7. fs = {Aged(x) : x \in others}
      BY <3>1, <3>3, <3>6
    <3> QED  BY <3>1, <3>4, <3>5, <3>7
  <2> QED  BY <2>1, <2>2
<1> HIDE DEF w, k, r, v, m, n
<1>7. /\ MayState(r) /\ r.implicit = k
      /\ Entries(r.explicit) = {x \in es : x.age < k}
  <2>1. k \in 0 .. Assoc
    BY <1>5 DEF k
  <2>2. /\ MayState(CutOff(w, k)) /\ CutOff(w, k).implicit = k
        /\ Entries(CutOff(w, k).explicit) = {x \in Entries(w) : x.age < k}
    BY <1>6, <2>1, WithoutRedundant
  <2> QED  BY <1>6, <2>2 DEF r, k
<1>8. ASSUME NEW u \in Nat
      PROVE  MinAge(r, u) = IF u = t THEN 0 ELSE AgesWith(MinAge(s, u), n)
  <2> DEFINE a == IF u = t THEN 0 ELSE AgesWith(MinAge(s, u), n)
  <2>0. k \in Nat /\ k = AgesWith(m, n)
    BY <1>0, <1>5 DEF k
  <2>1. a \in Nat /\ a <= k /\ (u # t /\ a < k => MinAge(s, u) < m)
        /\ (u = t /\ k > 0 => a < k)
    <3>1. CASE u = t
      BY <2>0, <3>1
    <3>2. CASE u # t
      <4>1. MinAge(s, u) \in Nat /\ MinAge(s, u) <= m
        BY <1>4
      <4>2. a = AgesWith(MinAge(s, u), n)
        BY <3>2
      <4> HIDE DEF a
      <4> QED  BY <1>0, <1>2, <2>0, <3>2, <4>1, <4>2 DEF AgesWith
    <3> QED  BY <3>1, <3>2
  <2>2. a < k => EntryOf(u, a) \in Entries(r.explicit)
    <3> SUFFICES ASSUME a < k PROVE EntryOf(u, a) \in es /\ EntryOf(u, a).age < k
      BY <1>7
    <3>1. EntryOf(u, a).age = a
      BY <2>1, EntryIsRec
    <3>2. CASE u = t
      BY <3>1, <3>2
    <3>3. CASE u # t
      <4>1. EntryOf(u, MinAge(s, u)) \in Entries(v)
        BY <1>4, <2>1, <3>3
      <4>2. /\ EntryOf(u, MinAge(s, u)).tag = u
            /\ EntryOf(u, MinAge(s, u)).age = MinAge(s, u)
        BY DEF EntryOf
      <4> DEFINE e == EntryOf(u, MinAge(s, u))
      <4>3. e \in others /\ Aged(e) = EntryOf(u, a)
        BY <3>3, <4>1, <4>2
      <4> HIDE DEF e
      <4>4. EntryOf(u, a) \in es
        BY <4>3
      <4> HIDE DEF a
      <4> QED  BY <3>1, <4>4
    <3> QED  BY <3>2, <3>3
  <2> HIDE DEF a
  <2>3. /\ MinAge(r, u) <= k /\ MinAge(r, u) \in 0 .. Assoc
        /\ \A x \in Entries(r.explicit) : x.tag = u => MinAge(r, u) = x.age
        /\ MinAge(r, u) < k => EntryOf(u, MinAge(r, u)) \in Entries(r.explicit)
        /\ MinAge(r, u) >= k => MinAge(r, u) = k
    BY <1>7, MayAges
  <2>4. CASE a < k
    <3>1. EntryOf(u, a).tag = u /\ EntryOf(u, a).age = a
      BY DEF EntryOf
    <3> QED  BY <2>2, <2>3, <2>4, <3>1 DEF a
  <2>5. CASE ~ (a < k)
    <3>1. a = k
      BY <2>0, <2>1, <2>5
    <3>2. ~ (MinAge(r, u) < k)
      <4> SUFFICES ASSUME MinAge(r, u) < k PROVE FALSE
        OBVIOUS
      <4> DEFINE e == EntryOf(u, MinAge(r, u))
      <4>1. e \in es /\ e.age < k /\ e.tag = u /\ e.age = MinAge(r, u)
        <5>1. e.tag = u /\ e.age = MinAge(r, u)
          BY DEF EntryOf
        <5>2. e \in Entries(r.explicit)
          BY <2>3
        <5> HIDE DEF e, es
        <5> QED  BY <1>7, <5>1, <5>2
      <4> HIDE DEF e
      <4>2. CASE e = EntryOf(t, 0)
        <5>1. e.tag = t /\ e.age = 0
          BY <4>2 DEF EntryOf
        <5> QED  BY <2>0, <2>1, <3>1, <4>1, <5>1
      <4>3. CASE e # EntryOf(t, 0)
        <5>1. PICK x \in others : e = Aged(x)
          BY <4>1, <4>3
        <5>2. e.tag = x.tag /\ e.age = AgesWith(x.age, n)
          BY <5>1 DEF EntryOf
        <5>3. u # t /\ MinAge(s, u) = x.age
          BY <1>4, <4>1, <5>2
        <5>4. e.age = a
          BY <5>2, <5>3 DEF a
        <5> QED  BY <2>0, <3>1, <4>1, <5>4
      <4> QED  BY <4>2, <4>3
    <3>3. MinAge(r, u) \in Nat
      BY <1>0, <2>3
    <3> QED  BY <2>0, <2>3, <3>1, <3>2, <3>3 DEF a
  <2> QED  BY <2>4, <2>5
<1> QED  BY <1>1, <1>7, <1>8 DEF k, m, n

\* An access keeps the order of two may states.
THEOREM MayUpdateIsMonotone ==
  ASSUME NEW s, MayState(s), NEW r, MayState(r), NEW t \in Nat, MayLessEqual(s, r)
  PROVE  MayLessEqual(MayUpdate(s, t), MayUpdate(r, t))
<1> DEFINE a == MayUpdate(s, t)
           b == MayUpdate(r, t)
<1>1. r.implicit <= s.implicit /\ \A u \in Nat : MinAge(r, u) <= MinAge(s, u)
  BY MayLessEqualAges
<1>2. ASSUME NEW z, MayState(z), NEW u
      PROVE  /\ z.implicit \in Nat /\ z.implicit <= Assoc
             /\ MinAge(z, u) \in Nat /\ MinAge(z, u) <= Assoc
  <2>1. z.implicit \in 0 .. Assoc
    BY <1>2 DEF MayState
  <2>2. MinAge(z, u) \in 0 .. Assoc
    BY <1>2, MayAges
  <2> QED  BY <2>1, <2>2, AssocAssumption
<1>3. \A m, n, p, q \in Nat : m <= p /\ n <= q /\ p <= Assoc => AgesWith(m, n) <= AgesWith(p, q)
  BY AssocAssumption DEF AgesWith
<1>4. MayState(a) /\ MayState(b)
  BY MayUpdateAges
<1>5. b.implicit <= a.implicit
  <2>1. /\ a.implicit = AgesWith(s.implicit, MinAge(s, t))
        /\ b.implicit = AgesWith(r.implicit, MinAge(r, t))
    BY MayUpdateAges
  <2> HIDE DEF a, b
  <2>2. /\ s.implicit \in Nat /\ s.implicit <= Assoc /\ r.implicit \in Nat
        /\ MinAge(s, t) \in Nat /\ MinAge(r, t) \in Nat /\ MinAge(r, t) <= MinAge(s, t)
    BY <1>1, <1>2
  <2>3. AgesWith(r.implicit, MinAge(r, t)) <= AgesWith(s.implicit, MinAge(s, t))
    BY <1>1, <1>3, <2>2
  <2> QED  BY <2>1, <2>3
<1>6. ASSUME NEW u \in Nat PROVE MinAge(b, u) <= MinAge(a, u)
  <2>1. /\ MinAge(a, u) = IF u = t THEN 0 ELSE AgesWith(MinAge(s, u), MinAge(s, t))
        /\ MinAge(b, u) = IF u = t THEN 0 ELSE AgesWith(MinAge(r, u), MinAge(r, t))
    BY MayUpdateAges
  <2> HIDE DEF a, b
  <2>2. /\ MinAge(s, u) \in Nat /\ MinAge(s, u) <= Assoc /\ MinAge(r, u) \in Nat
        /\ MinAge(r, u) <= MinAge(s, u)
        /\ MinAge(s, t) \in Nat /\ MinAge(r, t) \in Nat /\ MinAge(r, t) <= MinAge(s, t)
    BY <1>1, <1>2
  <2>3. AgesWith(MinAge(r, u), MinAge(r, t)) <= AgesWith(MinAge(s, u), MinAge(s, t))
    BY <1>3, <2>2
  <2> QED  BY <2>1, <2>3
<1> HIDE DEF a, b
<1>7. MayLessEqual(a, b)
  BY <1>4, <1>5, <1>6, MayLessEqualAges
<1> QED  BY <1>7 DEF a, b

-----------------------------------------------------------------------------
\* The may analysis: potentialUpdate().

\* Two vectors after one another.
LEMMA ConcatEntries ==
  ASSUME NEW a \in Seq(Rec), SortedFrom(a, 1), NEW b \in Seq(Rec), SortedFrom(b, 1),
         \A x \in Entries(a), y \in Entries(b) : Precedes(x, y)
  PROVE  /\ a \o b \in Seq(Rec) /\ SortedFrom(a \o b, 1)
         /\ Entries(a \o b) = Entries(a) \cup Entries(b)
<1> DEFINE w == a \o b
<1>1. /\ w \in Seq(Rec) /\ Len(w) = Len(a) + Len(b)
      /\ \A k \in 1 .. Len(a) + Len(b) : w[k] = IF k <= Len(a) THEN a[k] ELSE b[k - Len(a)]
      /\ Len(a) \in Nat /\ Len(b) \in Nat
  <2>1. Len(a) \in Nat /\ Len(b) \in Nat
    OBVIOUS
  <2>2. /\ w \in Seq(Rec) /\ Len(w) = Len(a) + Len(b)
        /\ \A k \in 1 .. Len(a) + Len(b) : w[k] = IF k <= Len(a) THEN a[k] ELSE b[k - Len(a)]
    BY ConcatProperties
  <2> HIDE DEF w
  <2> QED  BY <2>1, <2>2
<1> HIDE DEF w
<1>2. /\ \A k \in 1 .. Len(a) : k \in 1 .. Len(w) /\ w[k] = a[k]
      /\ \A k \in 1 .. Len(b) : Len(a) + k \in 1 .. Len(w) /\ w[Len(a) + k] = b[k]
  <2>1. ASSUME NEW k \in 1 .. Len(a) PROVE k \in 1 .. Len(w) /\ w[k] = a[k]
    BY <1>1
  <2>2. ASSUME NEW k \in 1 .. Len(b) PROVE Len(a) + k \in 1 .. Len(w) /\ w[Len(a) + k] = b[k]
    <3>1. /\ Len(a) + k \in 1 .. Len(a) + Len(b) /\ ~ (Len(a) + k <= Len(a))
          /\ (Len(a) + k) - Len(a) = k
      BY <1>1
    <3> QED  BY <1>1, <3>1
  <2> QED  BY <2>1, <2>2
<1>3. \A k \in 1 .. Len(w) : \/ k \in 1 .. Len(a) /\ w[k] = a[k]
                             \/ k - Len(a) \in 1 .. Len(b) /\ w[k] = b[k - Len(a)]
  BY <1>1
<1>4. Entries(w) = Entries(a) \cup Entries(b)
  <2>1. \A e \in Entries(w) : e \in Entries(a) \cup Entries(b)
    <3> TAKE e \in Entries(w)
    <3>1. PICK k \in 1 .. Len(w) : e = w[k]
      BY DEF Entries, EntriesFrom
    <3>2. CASE k \in 1 .. Len(a) /\ w[k] = a[k]
      BY <3>1, <3>2 DEF Entries, EntriesFrom
    <3>3. CASE k - Len(a) \in 1 .. Len(b) /\ w[k] = b[k - Len(a)]
      BY <3>1, <3>3 DEF Entries, EntriesFrom
    <3> QED  BY <1>3, <3>2, <3>3
  <2>2. \A e \in Entries(a) : e \in Entries(w)
    BY <1>2 DEF Entries, EntriesFrom
  <2>3. \A e \in Entries(b) : e \in Entries(w)
    BY <1>2 DEF Entries, EntriesFrom
  <2> QED  BY <2>1, <2>2, <2>3
<1>5. ASSUME NEW j \in 1 .. Len(w), NEW k \in 1 .. Len(w), j < k PROVE Precedes(w[j], w[k])
  <2>1. CASE k \in 1 .. Len(a)
    <3>1. j \in 1 .. Len(a)
      BY <1>5, <2>1
    <3>2. w[j] = a[j] /\ w[k] = a[k]
      BY <1>2, <2>1, <3>1
    <3> QED  BY <1>5, <2>1, <3>1, <3>2 DEF SortedFrom
  <2>2. CASE ~ (k \in 1 .. Len(a)) /\ j \in 1 .. Len(a)
    <3>1. w[j] \in Entries(a) /\ w[k] \in Entries(b)
      BY <1>3, <2>2, <1>2 DEF Entries, EntriesFrom
    <3> QED  BY <3>1
  <2>3. CASE ~ (k \in 1 .. Len(a)) /\ ~ (j \in 1 .. Len(a))
    <3>1. /\ j - Len(a) \in 1 .. Len(b) /\ w[j] = b[j - Len(a)]
          /\ k - Len(a) \in 1 .. Len(b) /\ w[k] = b[k - Len(a)]
          /\ j - Len(a) < k - Len(a)
      BY <1>1, <1>3, <1>5, <2>3
    <3> QED  BY <3>1 DEF SortedFrom
  <2> QED  BY <2>1, <2>2, <2>3
<1>6. SortedFrom(w, 1)
  BY <1>5 DEF SortedFrom
<1> QED  BY <1>1, <1>4, <1>6 DEF w

\* Others copies the entries one by one.
LEMMA OthersSteps ==
  ASSUME NEW v \in Seq(Rec), NEW low, NEW high
  PROVE  \E f : /\ f[0] = << >>
                /\ \A i \in 1 .. Len(v) :
                     f[i] = IF v[i].tag \in low .. high THEN f[i - 1] ELSE Append(f[i - 1], v[i])
                /\ Others(v, low, high) = f[Len(v)]
<1> DEFINE P == 0 .. Len(v)
           N == Len(v)
           Copied(i, w) == IF v[i].tag \in low .. high THEN w ELSE Append(w, v[i])
           rank == [i \in P |-> i]
           prev == [i \in P |-> IF i = 0 THEN 0 ELSE i - 1]
           W == Seq(Rec)
           base == [i \in P |-> << >>]
           g == [q \in P \X W |-> IF q[1] = 0 THEN << >> ELSE Copied(q[1], q[2])]
           Eq(f) == f = [i \in P |-> IF i = 0 THEN << >> ELSE Copied(i, f[i - 1])]
           run == CHOOSE f : Eq(f)
<1>0. N \in Nat /\ \A i \in P : i # 0 => i \in 1 .. Len(v) /\ i - 1 \in P /\ v[i] \in Rec
  OBVIOUS
<1>1. Others(v, low, high) = run[Len(v)]
  BY DEF Others
<1>2. rank \in [P -> 0 .. N] /\ prev \in [P -> P] /\ base \in [P -> W]
  BY <1>0
<1>3. \A i \in P : rank[i] # 0 => rank[prev[i]] < rank[i]
  BY <1>0
<1>4. g \in [P \X W -> W]
  <2>1. ASSUME NEW q \in P \X W
        PROVE  (IF q[1] = 0 THEN << >> ELSE Copied(q[1], q[2])) \in W
    <3>1. q[1] \in P /\ q[2] \in W
      OBVIOUS
    <3>2. CASE q[1] # 0
      <4>1. v[q[1]] \in Rec
        BY <1>0, <3>1, <3>2
      <4> HIDE DEF P
      <4> QED  BY <3>1, <3>2, <4>1
    <3> QED  BY <3>2
  <2> HIDE DEF P, W, Copied
  <2> QED  BY <2>1
<1>5. Recursions(P, W, rank, prev, base, g) # {}
  <2> HIDE DEF P, W, rank, prev, base, g, N
  <2> QED  BY <1>0, <1>2, <1>3, <1>4, RankedRecursion
<1>6. PICK f \in [P -> W] :
        \A p \in P : f[p] = IF rank[p] = 0 THEN base[p] ELSE g[<<p, f[prev[p]]>>]
  <2> HIDE DEF P, W, rank, prev, base, g
  <2> QED  BY <1>5 DEF Recursions
<1>7. ASSUME NEW i \in P PROVE f[i] = IF i = 0 THEN << >> ELSE Copied(i, f[i - 1])
  <2>1. CASE i = 0
    <3>1. f[i] = base[i] /\ base[i] = << >>
      BY <1>6, <2>1
    <3> QED  BY <2>1, <3>1
  <2>2. CASE i # 0
    <3>1. prev[i] = i - 1 /\ i - 1 \in P /\ rank[i] # 0
      BY <1>0, <2>2
    <3>2. f[i] = g[<<i, f[i - 1]>>]
      <4> HIDE DEF P, rank, prev, base, g
      <4> QED  BY <1>6, <3>1
    <3>3. f[i - 1] \in W
      <4> HIDE DEF P, W, prev
      <4> QED  BY <3>1
    <3>4. \A w \in W : g[<<i, w>>] = Copied(i, w)
      <4> HIDE DEF P, W
      <4> QED  BY <2>2
    <3> HIDE DEF P, g, prev, W
    <3> QED  BY <2>2, <3>2, <3>3, <3>4
  <2> QED  BY <2>1, <2>2
<1>8. Eq(f)
  <2> HIDE DEF P, W, Copied
  <2> QED  BY <1>7
<1>9. Eq(run)
  <2> HIDE DEF Eq
  <2> QED  BY <1>8
<1>10. \A i \in P : run[i] = IF i = 0 THEN << >> ELSE Copied(i, run[i - 1])
  <2> HIDE DEF run, P, Copied
  <2> QED  BY <1>9
<1> HIDE DEF run, Eq
<1>11. \A i \in 1 .. Len(v) : i \in P /\ i # 0
  OBVIOUS
<1>12. run[0] = << >>
  BY <1>10
<1> QED  BY <1>1, <1>10, <1>11, <1>12

\* Others drops the entries of the tags from low to high.
LEMMA OthersEntries ==
  ASSUME NEW v, Vector(v), NEW low, NEW high
  PROVE  /\ Vector(Others(v, low, high))
         /\ Entries(Others(v, low, high)) = {x \in Entries(v) : x.tag \notin low .. high}
<1> DEFINE Copied(k) == {x \in Entries(v) : x.tag \notin low .. high /\
                           \E i \in 1 .. Len(v) : i <= k /\ x = v[i]}
           Holds(u, k) == u \in Seq(Rec) /\ SortedFrom(u, 1) /\ Entries(u) = Copied(k)
<1>0. /\ v \in Seq(Rec) /\ Len(v) \in Nat
      /\ \A i \in 1 .. Len(v) : v[i] \in Rec /\ v[i] \in Entries(v)
      /\ \A x \in Entries(v) : x \in Rec /\ \E i \in 1 .. Len(v) : x = v[i]
      /\ \A i, j \in 1 .. Len(v) : i < j => Precedes(v[i], v[j])
  BY VectorEntries
<1>1. PICK f : /\ f[0] = << >>
               /\ \A i \in 1 .. Len(v) :
                    f[i] = IF v[i].tag \in low .. high THEN f[i - 1] ELSE Append(f[i - 1], v[i])
               /\ Others(v, low, high) = f[Len(v)]
  BY <1>0, OthersSteps
<1> DEFINE S == {n \in Nat : n <= Len(v) => Holds(f[n], n)}
<1>2. 0 \in S
  <2>1. Entries(<< >>) = {}
    BY DEF Entries, EntriesFrom
  <2>2. SortedFrom(<< >>, 1)
    BY DEF SortedFrom
  <2>3. Copied(0) = {}
    BY <1>0
  <2> HIDE DEF Copied
  <2>4. << >> \in Seq(Rec)
    OBVIOUS
  <2>5. Holds(f[0], 0)
    BY <1>1, <2>1, <2>2, <2>3, <2>4
  <2> HIDE DEF Holds
  <2> QED  BY <2>5
<1>3. ASSUME NEW n \in Nat, n \in S PROVE n + 1 \in S
  <2> SUFFICES ASSUME n + 1 <= Len(v) PROVE Holds(f[n + 1], n + 1)
    OBVIOUS
  <2> DEFINE u == f[n]
             e == v[n + 1]
  <2>1. Holds(u, n) /\ n + 1 \in 1 .. Len(v) /\ (n + 1) - 1 = n
    BY <1>0, <1>3
  <2>2. f[n + 1] = IF e.tag \in low .. high THEN u ELSE Append(u, e)
    BY <1>1, <2>1
  <2>3. \A i \in 1 .. Len(v) : i <= n + 1 <=> i <= n \/ i = n + 1
    BY <1>0
  <2>4. Copied(n + 1) = IF e.tag \in low .. high THEN Copied(n) ELSE Copied(n) \cup {e}
    <3>1. ASSUME NEW x \in Entries(v)
          PROVE  x \in Copied(n + 1) <=> x \in (IF e.tag \in low .. high THEN Copied(n)
                                                ELSE Copied(n) \cup {e})
      BY <2>1, <2>3
    <3>2. e \in Entries(v)
      BY <1>0, <2>1
    <3>3. Copied(n + 1) \subseteq Entries(v) /\ Copied(n) \subseteq Entries(v)
      OBVIOUS
    <3> HIDE DEF Copied, e
    <3> QED  BY <3>1, <3>2, <3>3
  <2>5. \A z \in Copied(n) : Precedes(z, e)
    <3> TAKE z \in Copied(n)
    <3>1. PICK i \in 1 .. Len(v) : i <= n /\ z = v[i]
      OBVIOUS
    <3>2. i < n + 1
      BY <3>1
    <3> QED  BY <1>0, <2>1, <3>1, <3>2
  <2>6. e \in Rec
    BY <1>0, <2>1
  <2> HIDE DEF Copied, u, e
  <2>7. CASE e.tag \in low .. high
    BY <2>1, <2>2, <2>4, <2>7
  <2>8. CASE ~ (e.tag \in low .. high)
    <3>1. /\ Append(u, e) \in Seq(Rec) /\ SortedFrom(Append(u, e), 1)
          /\ Entries(Append(u, e)) = Entries(u) \cup {e}
      BY <2>1, <2>5, <2>6, AppendEntry
    <3> QED  BY <2>1, <2>2, <2>4, <2>8, <3>1
  <2> QED  BY <2>7, <2>8
<1>4. Len(v) \in S
  <2>1. \A n \in Nat : n \in S
    <3> HIDE DEF S
    <3> QED  BY <1>2, <1>3, NaturalInduction
  <2> QED  BY <1>0, <2>1
<1>5. Copied(Len(v)) = {x \in Entries(v) : x.tag \notin low .. high}
  BY <1>0
<1> DEFINE w == Others(v, low, high)
<1>6. w \in Seq(Rec) /\ SortedFrom(w, 1) /\ Entries(w) = {x \in Entries(v) : x.tag \notin low .. high}
  <2> HIDE DEF Copied
  <2> QED  BY <1>0, <1>1, <1>4, <1>5
<1> HIDE DEF w
<1>7. OneEntryPerTag(Entries(w))
  BY <1>6 DEF Vector, OneEntryPerTag
<1> QED  BY <1>6, <1>7 DEF Vector, w

\* A vector split where its first entries end.
LEMMA SplitEntries ==
  ASSUME NEW v, Vector(v), NEW k \in 0 .. Len(v)
  PROVE  LET a == SubSeq(v, 1, k)
             b == SubSeq(v, k + 1, Len(v))
         IN  /\ a \in Seq(Rec) /\ SortedFrom(a, 1) /\ b \in Seq(Rec) /\ SortedFrom(b, 1)
             /\ \A x \in Entries(a) : \E i \in 1 .. Len(v) : i <= k /\ x = v[i]
             /\ \A x \in Entries(b) : \E i \in 1 .. Len(v) : i > k /\ x = v[i]
             /\ Entries(v) = Entries(a) \cup Entries(b)
<1> DEFINE a == SubSeq(v, 1, k)
           b == SubSeq(v, k + 1, Len(v))
<1>0. /\ v \in Seq(Rec) /\ Len(v) \in Nat /\ k \in Nat /\ k <= Len(v)
      /\ \A i, j \in 1 .. Len(v) : i < j => Precedes(v[i], v[j])
      /\ \A i \in 1 .. Len(v) : v[i] \in Entries(v)
      /\ \A x \in Entries(v) : \E i \in 1 .. Len(v) : x = v[i]
  BY VectorEntries
<1>1. a \in Seq(Rec) /\ Len(a) = k /\ \A i \in 1 .. k : a[i] = v[i]
  BY <1>0
<1>2. b \in Seq(Rec) /\ Len(b) = Len(v) - k /\ \A i \in 1 .. Len(v) - k : b[i] = v[k + i]
  BY <1>0
<1> HIDE DEF a, b
<1>3. SortedFrom(a, 1)
  BY <1>0, <1>1 DEF SortedFrom
<1>4. SortedFrom(b, 1)
  <2> SUFFICES ASSUME NEW i \in 1 .. Len(b), NEW j \in 1 .. Len(b), i < j
               PROVE  Precedes(b[i], b[j])
    BY DEF SortedFrom
  <2>1. k + i \in 1 .. Len(v) /\ k + j \in 1 .. Len(v) /\ k + i < k + j
    BY <1>0, <1>2
  <2> QED  BY <1>0, <1>2, <2>1
<1>5. \A x \in Entries(a) : \E i \in 1 .. Len(v) : i <= k /\ x = v[i]
  <2> TAKE x \in Entries(a)
  <2>1. PICK i \in 1 .. k : x = a[i]
    BY <1>1 DEF Entries, EntriesFrom
  <2>2. i \in 1 .. Len(v) /\ i <= k /\ x = v[i]
    BY <1>0, <1>1, <2>1
  <2> QED  BY <2>2
<1>6. \A x \in Entries(b) : \E i \in 1 .. Len(v) : i > k /\ x = v[i]
  <2> TAKE x \in Entries(b)
  <2>1. PICK i \in 1 .. Len(v) - k : x = b[i]
    BY <1>2 DEF Entries, EntriesFrom
  <2>2. k + i \in 1 .. Len(v) /\ k + i > k /\ x = v[k + i]
    BY <1>0, <1>2, <2>1
  <2> QED  BY <2>2
<1>7. ASSUME NEW x \in Entries(v) PROVE x \in Entries(a) \cup Entries(b)
  <2>1. PICK i \in 1 .. Len(v) : x = v[i]
    BY <1>0
  <2>2. CASE i <= k
    <3>1. i \in 1 .. Len(a) /\ x = a[i]
      BY <1>0, <1>1, <2>1, <2>2
    <3> QED  BY <3>1 DEF Entries, EntriesFrom
  <2>3. CASE ~ (i <= k)
    <3>1. i - k \in 1 .. Len(b) /\ k + (i - k) = i
      BY <1>0, <1>2, <2>3
    <3>2. x = b[i - k]
      BY <1>2, <2>1, <3>1
    <3> QED  BY <3>1, <3>2 DEF Entries, EntriesFrom
  <2> QED  BY <2>2, <2>3
<1>8. Entries(v) = Entries(a) \cup Entries(b)
  BY <1>0, <1>5, <1>6, <1>7
<1> QED  BY <1>1, <1>2, <1>3, <1>4, <1>5, <1>6, <1>8 DEF a, b

\* The accessed tags, at age 0.
LEMMA NewEntries ==
  ASSUME NEW low \in Nat, NEW high \in Nat, low <= high
  PROVE  LET new == [i \in 1 .. high - low + 1 |-> EntryOf(low + i - 1, 0)]
         IN  /\ new \in Seq(Rec) /\ SortedFrom(new, 1)
             /\ Entries(new) = {EntryOf(u, 0) : u \in low .. high}
<1> DEFINE m == high - low + 1
           new == [i \in 1 .. m |-> EntryOf(low + i - 1, 0)]
<1>1. m \in Nat /\ \A i \in 1 .. m : low + i - 1 \in low .. high /\ low + i - 1 \in Nat
  OBVIOUS
<1>2. \A i \in 1 .. m : EntryOf(low + i - 1, 0) \in Rec
  BY <1>1, EntryIsRec
<1>3. new \in Seq(Rec) /\ Len(new) = m /\ \A i \in 1 .. m : new[i] = EntryOf(low + i - 1, 0)
  BY <1>1, <1>2
<1> HIDE DEF new
<1>4. SortedFrom(new, 1)
  <2>0. 1 .. Len(new) = 1 .. m
    BY <1>3
  <2> HIDE DEF m
  <2> SUFFICES ASSUME NEW i \in 1 .. m, NEW j \in 1 .. m, i < j PROVE Precedes(new[i], new[j])
    BY <2>0 DEF SortedFrom
  <2>1. /\ new[i].age = 0 /\ new[i].tag = low + i - 1
        /\ new[j].age = 0 /\ new[j].tag = low + j - 1
    BY <1>3 DEF EntryOf
  <2>2. i \in Nat /\ j \in Nat
    BY <1>1
  <2> QED  BY <2>1, <2>2 DEF Precedes
<1>5. ASSUME NEW u \in low .. high PROVE EntryOf(u, 0) \in Entries(new)
  <2>1. u - low + 1 \in 1 .. m /\ low + (u - low + 1) - 1 = u
    OBVIOUS
  <2>2. new[u - low + 1] = EntryOf(u, 0)
    BY <1>3, <2>1
  <2> QED  BY <1>3, <2>1, <2>2 DEF Entries, EntriesFrom
<1>6. \A e \in Entries(new) : \E u \in low .. high : e = EntryOf(u, 0)
  <2> TAKE e \in Entries(new)
  <2>1. PICK i \in 1 .. m : e = new[i]
    BY <1>3 DEF Entries, EntriesFrom
  <2> QED  BY <1>1, <1>3, <2>1
<1>7. Entries(new) = {EntryOf(u, 0) : u \in low .. high}
  BY <1>5, <1>6
<1> QED  BY <1>3, <1>4, <1>7 DEF new, m

\* The vector of the potential update.
Inserted(v, low, high) ==
  LET others == Others(v, low, high)
      before == Max({0} \cup {i \in DOMAIN others : others[i].age = 0 /\ others[i].tag < low})
  IN  SubSeq(others, 1, before) \o [i \in 1 .. high - low + 1 |-> EntryOf(low + i - 1, 0)]
        \o SubSeq(others, before + 1, Len(others))

\* The accessed tags are at age 0 then, all other entries stay, in order.
LEMMA InsertedEntries ==
  ASSUME NEW v, Vector(v), NEW low \in Nat, NEW high \in Nat, low <= high
  PROVE  /\ Vector(Inserted(v, low, high))
         /\ Entries(Inserted(v, low, high)) =
              {EntryOf(u, 0) : u \in low .. high} \cup {x \in Entries(v) : x.tag \notin low .. high}
<1> DEFINE o == Others(v, low, high)
           L == {0} \cup {i \in DOMAIN o : o[i].age = 0 /\ o[i].tag < low}
           k == Max(L)
           a == SubSeq(o, 1, k)
           b == SubSeq(o, k + 1, Len(o))
           new == [i \in 1 .. high - low + 1 |-> EntryOf(low + i - 1, 0)]
           an == a \o new
           w == an \o b
<1>0. Inserted(v, low, high) = w
  BY DEF Inserted
<1>1. Vector(o) /\ Entries(o) = {x \in Entries(v) : x.tag \notin low .. high}
  BY OthersEntries
<1> HIDE DEF o
<1>2. /\ o \in Seq(Rec) /\ Len(o) \in Nat /\ DOMAIN o = 1 .. Len(o)
      /\ \A i \in 1 .. Len(o) : /\ o[i] \in Rec /\ o[i] \in Entries(o)
                                /\ o[i].tag \in Nat /\ o[i].age \in Nat
      /\ \A i, j \in 1 .. Len(o) : i < j => Precedes(o[i], o[j])
  BY <1>1, VectorEntries
<1>3. k \in L /\ \A i \in L : i <= k
  <2>1. L \in SUBSET Int /\ L # {} /\ IsFiniteSet(L)
    <3>1. IsFiniteSet(0 .. Len(o))
      BY <1>2, FS_Interval
    <3>2. L \subseteq 0 .. Len(o) /\ 0 \in L
      BY <1>2
    <3>3. 0 .. Len(o) \subseteq Int
      OBVIOUS
    <3> HIDE DEF L
    <3> QED  BY <3>1, <3>2, <3>3, FS_Subset
  <2> HIDE DEF L
  <2> QED  BY <2>1, MaxMin
<1> HIDE DEF k
<1>4. k \in 0 .. Len(o) /\ k \in Nat
  BY <1>2, <1>3
<1>5. \A i \in 1 .. Len(o) : i <= k => o[i].age = 0 /\ o[i].tag < low
  <2> TAKE i \in 1 .. Len(o)
  <2> HAVE i <= k
  <2>1. k \in 1 .. Len(o) /\ o[k].age = 0 /\ o[k].tag < low
    BY <1>2, <1>3
  <2>2. i = k \/ Precedes(o[i], o[k])
    BY <1>2, <2>1
  <2> QED  BY <1>2, <2>1, <2>2 DEF Precedes
<1>6. \A i \in 1 .. Len(o) : i > k => ~ (o[i].age = 0 /\ o[i].tag < low)
  <2> TAKE i \in 1 .. Len(o)
  <2> HAVE i > k
  <2>1. i \notin L
    BY <1>3, <1>4
  <2> QED  BY <1>2, <2>1
<1>7. \A i \in 1 .. Len(o) : o[i].tag \notin low .. high
  BY <1>1, <1>2
<1>8. /\ a \in Seq(Rec) /\ SortedFrom(a, 1) /\ b \in Seq(Rec) /\ SortedFrom(b, 1)
      /\ \A x \in Entries(a) : \E i \in 1 .. Len(o) : i <= k /\ x = o[i]
      /\ \A x \in Entries(b) : \E i \in 1 .. Len(o) : i > k /\ x = o[i]
      /\ Entries(o) = Entries(a) \cup Entries(b)
  BY <1>1, <1>4, SplitEntries
<1>9. /\ new \in Seq(Rec) /\ SortedFrom(new, 1)
      /\ Entries(new) = {EntryOf(u, 0) : u \in low .. high}
  BY NewEntries
<1> HIDE DEF a, b, new
<1>10. \A x \in Entries(new) : \E u \in low .. high : x = EntryOf(u, 0) /\ x.tag = u /\ x.age = 0
  BY <1>9 DEF EntryOf
<1>11. \A x \in Entries(a), y \in Entries(new) : Precedes(x, y)
  <2> TAKE x \in Entries(a), y \in Entries(new)
  <2>1. PICK i \in 1 .. Len(o) : i <= k /\ x = o[i]
    BY <1>8
  <2>2. x.age = 0 /\ x.tag < low /\ x.tag \in Nat
    BY <1>2, <1>5, <2>1
  <2>3. y.age = 0 /\ y.tag \in low .. high
    BY <1>10
  <2> QED  BY <2>2, <2>3 DEF Precedes
<1>12. ASSUME NEW y \in Entries(b)
       PROVE  (\A x \in Entries(new) : Precedes(x, y)) /\ \A x \in Entries(a) : Precedes(x, y)
  <2>1. PICK j \in 1 .. Len(o) : j > k /\ y = o[j]
    BY <1>8
  <2>2. ASSUME NEW x \in Entries(new) PROVE Precedes(x, y)
    <3>1. x.age = 0 /\ x.tag \in low .. high
      BY <1>10
    <3>2. y.age \in Nat /\ y.tag \in Nat /\ ~ (y.age = 0 /\ y.tag < low) /\ y.tag \notin low .. high
      BY <1>2, <1>6, <1>7, <2>1
    <3> QED  BY <3>1, <3>2 DEF Precedes
  <2>3. ASSUME NEW x \in Entries(a) PROVE Precedes(x, y)
    <3>1. PICK i \in 1 .. Len(o) : i <= k /\ x = o[i]
      BY <1>8
    <3>2. i < j
      BY <1>4, <2>1, <3>1
    <3> QED  BY <1>2, <2>1, <3>1, <3>2
  <2> QED  BY <2>2, <2>3
<1>13. an \in Seq(Rec) /\ SortedFrom(an, 1) /\ Entries(an) = Entries(a) \cup Entries(new)
  BY <1>8, <1>9, <1>11, ConcatEntries
<1> HIDE DEF an
<1>14. \A x \in Entries(an), y \in Entries(b) : Precedes(x, y)
  BY <1>12, <1>13
<1>15. w \in Seq(Rec) /\ SortedFrom(w, 1) /\ Entries(w) = Entries(an) \cup Entries(b)
  BY <1>8, <1>13, <1>14, ConcatEntries
<1> HIDE DEF w
<1>16. Entries(w) = Entries(new) \cup Entries(o)
  BY <1>8, <1>13, <1>15
<1>17. OneEntryPerTag(Entries(w))
  <2> SUFFICES ASSUME NEW x \in Entries(w), NEW y \in Entries(w), x.tag = y.tag PROVE x = y
    BY DEF OneEntryPerTag
  <2>1. \A z \in Entries(o) : z.tag \notin low .. high
    BY <1>1
  <2>2. \A z \in Entries(new) : z.tag \in low .. high /\ z = EntryOf(z.tag, 0)
    BY <1>10
  <2>3. CASE x \in Entries(new)
    <3>1. y \in Entries(new)
      BY <1>16, <2>1, <2>2, <2>3
    <3> QED  BY <2>2, <2>3, <3>1
  <2>4. CASE x \in Entries(o)
    <3>1. y \in Entries(o)
      BY <1>16, <2>1, <2>2, <2>4
    <3> QED  BY <1>1, <2>4, <3>1 DEF Vector, OneEntryPerTag
  <2> QED  BY <1>16, <2>3, <2>4
<1> QED  BY <1>0, <1>1, <1>9, <1>15, <1>16, <1>17 DEF Vector

\* The potential update in terms of bounds: the tags it may have accessed, or all of them,
\* may be the youngest.
LEMMA MayPotentialUpdateAges ==
  ASSUME NEW s, MayState(s), NEW low \in Nat, NEW high \in Nat, low <= high
  PROVE  /\ MayState(MayPotentialUpdate(s, low, high))
         /\ \A u \in Nat : MinAge(MayPotentialUpdate(s, low, high), u) =
              IF s.implicit = 0 \/ high - low + 1 > MaxWorthwhileTags \/ u \in low .. high
              THEN 0 ELSE MinAge(s, u)
<1> DEFINE r == MayPotentialUpdate(s, low, high)
           v == s.explicit
           i == Inserted(v, low, high)
<1>0. /\ Vector(v) /\ s.implicit \in 0 .. Assoc /\ s.implicit \in Nat /\ Assoc \in Nat \ {0}
      /\ \A x \in Entries(v) : x.age < s.implicit
      /\ s = [explicit |-> s.explicit, implicit |-> s.implicit]
  BY AssocAssumption DEF MayState
<1>1. r = IF s.implicit = 0 THEN s
          ELSE IF high - low + 1 > MaxWorthwhileTags THEN MayInit(FALSE)
          ELSE [s EXCEPT !.explicit = i]
  BY DEF MayPotentialUpdate, Inserted
<1> HIDE DEF r
<1>2. CASE s.implicit = 0
  <2>1. \A u \in Nat : MinAge(s, u) = 0
    <3> TAKE u \in Nat
    <3>1. MinAge(s, u) \in 0 .. Assoc /\ MinAge(s, u) <= s.implicit
      BY MayAges
    <3> QED  BY <1>0, <1>2, <3>1
  <2> QED  BY <1>1, <1>2, <2>1 DEF r
<1>3. CASE s.implicit # 0 /\ high - low + 1 > MaxWorthwhileTags
  <2>1. r = [explicit |-> << >>, implicit |-> 0]
    BY <1>1, <1>3 DEF MayInit
  <2>2. Entries(<< >>) = {} /\ Vector(<< >>)
    BY DEF Entries, EntriesFrom, Vector, SortedFrom, OneEntryPerTag
  <2>3. MayState(r)
    BY <1>0, <2>1, <2>2 DEF MayState
  <2>4. \A u \in Nat : MinAge(r, u) = 0
    <3> TAKE u \in Nat
    <3>1. MinAge(r, u) \in 0 .. Assoc /\ MinAge(r, u) <= r.implicit
      BY <2>3, MayAges
    <3>2. r.implicit = 0
      BY <2>1
    <3> QED  BY <1>0, <3>1, <3>2
  <2> QED  BY <1>3, <2>3, <2>4 DEF r
<1>4. CASE s.implicit # 0 /\ ~ (high - low + 1 > MaxWorthwhileTags)
  <2>1. /\ Vector(i)
        /\ Entries(i) = {EntryOf(u, 0) : u \in low .. high}
                          \cup {x \in Entries(v) : x.tag \notin low .. high}
    BY <1>0, InsertedEntries
  <2> HIDE DEF i
  <2>2. r = [explicit |-> i, implicit |-> s.implicit]
    BY <1>0, <1>1, <1>4
  <2> HIDE DEF v
  <2>3. \A x \in Entries(i) : x.age < s.implicit
    <3>1. \A u \in low .. high : EntryOf(u, 0).age = 0
      BY DEF EntryOf
    <3> QED  BY <1>0, <1>4, <2>1, <3>1
  <2>4. MayState(r) /\ r.explicit = i /\ r.implicit = s.implicit
    BY <1>0, <2>1, <2>2, <2>3 DEF MayState
  <2>5. ASSUME NEW u \in Nat
        PROVE  MinAge(r, u) = IF u \in low .. high THEN 0 ELSE MinAge(s, u)
    <3>1. CASE u \in low .. high
      <4>1. EntryOf(u, 0) \in Entries(r.explicit) /\ EntryOf(u, 0).tag = u /\ EntryOf(u, 0).age = 0
        BY <2>1, <2>4, <3>1 DEF EntryOf
      <4>2. MinAge(r, u) = EntryOf(u, 0).age
        BY <2>4, <4>1, MayAges
      <4> QED  BY <3>1, <4>1, <4>2
    <3>2. CASE u \notin low .. high
      <4>0. /\ MinAge(s, u) \in 0 .. Assoc /\ MinAge(s, u) <= s.implicit
            /\ MinAge(s, u) < s.implicit => EntryOf(u, MinAge(s, u)) \in Entries(v)
        BY MayAges DEF v
      <4>1. /\ MinAge(r, u) \in 0 .. Assoc /\ MinAge(r, u) <= s.implicit
            /\ MinAge(r, u) < s.implicit => EntryOf(u, MinAge(r, u)) \in Entries(i)
            /\ \A x \in Entries(i) : x.tag = u => MinAge(r, u) = x.age
        BY <2>4, MayAges
      <4>2. CASE MinAge(s, u) < s.implicit
        <5> DEFINE e == EntryOf(u, MinAge(s, u))
        <5>1. e \in Entries(v) /\ e.tag = u /\ e.age = MinAge(s, u)
          BY <4>0, <4>2 DEF EntryOf
        <5> HIDE DEF e
        <5>2. MinAge(r, u) = e.age
          BY <2>1, <3>2, <4>1, <5>1
        <5> QED  BY <3>2, <5>1, <5>2
      <4>3. CASE MinAge(r, u) < s.implicit
        <5> DEFINE e == EntryOf(u, MinAge(r, u))
        <5>1. e \in Entries(i) /\ e.tag = u /\ e.age = MinAge(r, u)
          BY <4>1, <4>3 DEF EntryOf
        <5>2. \A k \in low .. high : EntryOf(k, 0).tag = k
          BY DEF EntryOf
        <5> HIDE DEF e
        <5>3. e \in Entries(v)
          BY <2>1, <3>2, <5>1, <5>2
        <5>4. MinAge(s, u) = e.age
          BY <5>1, <5>3, MayAges DEF v
        <5> QED  BY <3>2, <5>1, <5>4
      <4>4. CASE ~ (MinAge(s, u) < s.implicit) /\ ~ (MinAge(r, u) < s.implicit)
        BY <1>0, <3>2, <4>0, <4>1, <4>4
      <4> QED  BY <4>2, <4>3, <4>4
    <3> QED  BY <3>1, <3>2
  <2> QED  BY <1>4, <2>4, <2>5 DEF r
<1> QED  BY <1>2, <1>3, <1>4

-----------------------------------------------------------------------------
\* One set of a cache: the bounds enclose the ages.

\* An access to t in an LRU set of the lines S.
Touched(S, a, t) ==
  [u \in S |-> IF u = t THEN 0 ELSE IF a[u] < a[t] THEN a[u] + 1 ELSE a[u]]
Distinct(S, a) == \A t, u \in S : a[t] = a[u] /\ a[t] < Assoc => t = u

\* An access leaves an LRU stack.
LEMMA TouchedStack ==
  ASSUME NEW S, NEW a \in [S -> 0 .. Assoc], NEW t \in S, Distinct(S, a)
  PROVE  /\ Touched(S, a, t) \in [S -> 0 .. Assoc] /\ Distinct(S, Touched(S, a, t))
         /\ \A u \in S : u # t => Touched(S, a, t)[u] > 0
         /\ \A u, w \in S : a[u] <= a[w] /\ w # t => Touched(S, a, t)[u] <= Touched(S, a, t)[w]
         /\ \A u, w \in S : a[u] < a[w] /\ a[w] < Assoc /\ w # t =>
              Touched(S, a, t)[u] < Touched(S, a, t)[w]
<1> DEFINE b == Touched(S, a, t)
<1>1. \A u \in S : /\ b[u] = IF u = t THEN 0 ELSE IF a[u] < a[t] THEN a[u] + 1 ELSE a[u]
                   /\ a[u] \in Nat /\ a[u] <= Assoc
  BY AssocAssumption DEF Touched
<1>2. b \in [S -> 0 .. Assoc]
  <2>1. \A u \in S : (IF u = t THEN 0 ELSE IF a[u] < a[t] THEN a[u] + 1 ELSE a[u]) \in 0 .. Assoc
    BY <1>1, AssocAssumption
  <2> QED  BY <2>1 DEF Touched
<1> HIDE DEF b
<1>3. Assoc \in Nat
  BY AssocAssumption
<1>4. ASSUME NEW u \in S, u # t PROVE b[u] > 0
  <2>1. a[u] = 0 /\ a[t] = 0 => u = t
    BY <1>1, AssocAssumption DEF Distinct
  <2> QED  BY <1>1, <1>4, <2>1
<1>5. \A u, w \in S : a[u] <= a[w] /\ w # t => b[u] <= b[w]
  BY <1>1
<1>6. ASSUME NEW u \in S, NEW w \in S, a[u] < a[w], a[w] < Assoc, w # t PROVE b[u] < b[w]
  <2>1. CASE u = t
    BY <1>1, <1>4, <1>6, <2>1
  <2>2. CASE u # t
    <3>1. a[w] # a[t]
      BY <1>6 DEF Distinct
    <3> QED  BY <1>1, <1>3, <1>6, <2>2, <3>1
  <2> QED  BY <2>1, <2>2
<1>7. Distinct(S, b)
  <2> SUFFICES ASSUME NEW u \in S, NEW w \in S, b[u] = b[w], b[u] < Assoc PROVE u = w
    BY DEF Distinct
  <2>1. CASE u = t \/ w = t
    BY <1>1, <1>4, <2>1
  <2>2. CASE u # t /\ w # t
    <3>1. a[u] < Assoc /\ a[w] < Assoc
      BY <1>1, <1>3, <2>2
    <3>2. ~ (a[u] < a[w]) /\ ~ (a[w] < a[u])
      <4>1. b[u] \in 0 .. Assoc /\ b[w] \in 0 .. Assoc
        BY <1>2
      <4> QED  BY <1>3, <1>6, <2>2, <3>1, <4>1
    <3>3. a[u] = a[w] /\ a[u] < Assoc
      BY <1>1, <3>1, <3>2
    <3> QED  BY <3>3 DEF Distinct
  <2> QED  BY <2>1, <2>2
<1> QED  BY <1>2, <1>4, <1>5, <1>6, <1>7 DEF b

\* Lines of different ages below n are no more than n.
LEMMA YoungLinesFit ==
  ASSUME NEW S, NEW n \in Nat, NEW f \in [S -> 0 .. n - 1], \A u, w \in S : f[u] = f[w] => u = w
  PROVE  IsFiniteSet(S) /\ Cardinality(S) <= n
<1> DEFINE W == 0 .. n - 1
<1>1. IsFiniteSet(W) /\ Cardinality(W) = n
  <2>1. 0 \in Int /\ n - 1 \in Int
    OBVIOUS
  <2>2. IsFiniteSet(W) /\ Cardinality(W) = IF 0 > n - 1 THEN 0 ELSE (n - 1) - 0 + 1
    BY <2>1, FS_Interval
  <2> QED  BY <2>2
<1>2. f \in Injection(S, W)
  BY DEF Injection, IsInjective
<1> HIDE DEF W
<1> QED  BY <1>1, <1>2, FS_Injection

\* A vector has as many entries as tags.
LEMMA TagsCount ==
  ASSUME NEW v, Vector(v)
  PROVE  IsFiniteSet(TagsOf(v)) /\ Cardinality(TagsOf(v)) = Len(v)
<1> DEFINE D == 1 .. Len(v)
           f == [i \in D |-> v[i].tag]
<1>1. /\ Len(v) \in Nat /\ DOMAIN v = D /\ \A i, j \in D : v[i].tag = v[j].tag => i = j
  BY VectorEntries
<1>2. IsFiniteSet(D) /\ Cardinality(D) = Len(v)
  <2>1. 1 \in Int /\ Len(v) \in Int
    BY <1>1
  <2>2. IsFiniteSet(D) /\ Cardinality(D) = IF 1 > Len(v) THEN 0 ELSE Len(v) - 1 + 1
    BY <2>1, FS_Interval
  <2> QED  BY <1>1, <2>2
<1> HIDE DEF D
<1>3. TagsOf(v) = {v[i].tag : i \in D}
  BY <1>1 DEF TagsOf
<1>4. f \in Bijection(D, TagsOf(v))
  <2>1. f \in [D -> TagsOf(v)]
    BY <1>3
  <2>2. \A i, j \in D : f[i] = f[j] => i = j
    BY <1>1
  <2>3. \A t \in TagsOf(v) : \E i \in D : f[i] = t
    BY <1>3
  <2> HIDE DEF f
  <2> QED  BY <2>1, <2>2, <2>3 DEF Bijection, Injection, Surjection, IsInjective
<1>5. ExistsBijection(D, TagsOf(v))
  BY <1>4 DEF ExistsBijection
<1> QED  BY <1>2, <1>5, FS_Bijection

\* While no other core uses the set, the bounds enclose the ages.
Between(a, v, s) == \A t \in Tags : MinAge(s, t) <= a[t] /\ a[t] <= MustAge(v, t)

\* A set of the lines S, with the ages a, that the must vector v and the may state s describe.
Enclosed(S, a, v, s) ==
  /\ Tags \subseteq S
  /\ a \in [S -> 0 .. Assoc] /\ Distinct(S, a)
  /\ MustVector(v) /\ MayState(s)
  /\ \A u \in Nat \ Tags : MustAge(v, u) = Assoc
  /\ Between(a, v, s)

\* The numbers a set is about.
LEMMA EnclosedNumbers ==
  ASSUME NEW S, NEW a, NEW v, NEW s, Enclosed(S, a, v, s), NEW u \in Tags
  PROVE  /\ u \in Nat /\ u \in S /\ Assoc \in Nat \ {0}
         /\ a[u] \in Nat /\ a[u] <= Assoc
         /\ MustAge(v, u) \in Nat /\ MustAge(v, u) <= Assoc
         /\ MinAge(s, u) \in Nat /\ MinAge(s, u) <= Assoc
         /\ MinAge(s, u) <= a[u] /\ a[u] <= MustAge(v, u)
<1>1. u \in Nat /\ u \in S /\ Assoc \in Nat \ {0} /\ MinAge(s, u) <= a[u] /\ a[u] <= MustAge(v, u)
  BY TagsAssumption, AssocAssumption DEF Enclosed, Between
<1>2. a[u] \in 0 .. Assoc
  BY <1>1 DEF Enclosed
<1>3. MustAge(v, u) \in 0 .. Assoc
  BY MustAges DEF Enclosed
<1>4. MinAge(s, u) \in 0 .. Assoc
  BY MayAges DEF Enclosed
<1> QED  BY <1>1, <1>2, <1>3, <1>4

\* A full must vector of lines that are cached leaves no room for another one.
LEMMA FullVector ==
  ASSUME NEW S, NEW a, NEW v, NEW s, Enclosed(S, a, v, s), Len(v) = Assoc,
         NEW t \in Tags, t \notin TagsOf(v)
  PROVE  a[t] = Assoc
<1>1. Assoc \in Nat \ {0} /\ MustVector(v)
  BY AssocAssumption DEF Enclosed
<1> SUFFICES ASSUME a[t] < Assoc PROVE FALSE
  BY EnclosedNumbers
<1> DEFINE W == TagsOf(v) \cup {t}
           f == [u \in W |-> a[u]]
<1>2. ASSUME NEW u \in TagsOf(v) PROVE u \in Tags /\ a[u] < Assoc
  <2>1. u \in Nat /\ MustAge(v, u) < Assoc
    BY <1>1, MustAges
  <2>2. u \in Tags
    BY <1>1, <2>1 DEF Enclosed
  <2>3. a[u] \in Nat /\ MustAge(v, u) \in Nat /\ a[u] <= MustAge(v, u)
    BY <2>2, EnclosedNumbers
  <2> QED  BY <1>1, <2>1, <2>2, <2>3
<1>3. \A u \in W : u \in Tags /\ a[u] < Assoc
  BY <1>2
<1> HIDE DEF W
<1>4. \A u \in W : a[u] \in 0 .. Assoc - 1
  <2> TAKE u \in W
  <2>1. a[u] \in Nat /\ a[u] < Assoc
    BY <1>3, EnclosedNumbers
  <2> QED  BY <1>1, <2>1
<1>5. \A u, w \in W : a[u] = a[w] => u = w
  BY <1>3 DEF Enclosed, Distinct
<1>6. f \in [W -> 0 .. Assoc - 1] /\ \A u, w \in W : f[u] = f[w] => u = w
  BY <1>4, <1>5
<1> HIDE DEF f
<1>7. Cardinality(W) <= Assoc
  BY <1>1, <1>6, YoungLinesFit
<1>8. IsFiniteSet(TagsOf(v)) /\ Cardinality(TagsOf(v)) = Assoc
  BY <1>1, TagsCount DEF MustVector
<1>9. Cardinality(W) = Assoc + 1
  BY <1>8, FS_AddElement DEF W
<1> QED  BY <1>1, <1>7, <1>9

\* classify() of the two analyses, in which must comes first: a hit is a line that is in the set.
LEMMA EnclosedHit ==
  ASSUME NEW S, NEW a, NEW v, NEW s, Enclosed(S, a, v, s),
         NEW t \in Tags, MustClassify(v, t, 0) = "HIT"
  PROVE  t \in TagsOf(v) /\ a[t] < Assoc
<1>1. a[t] \in Nat /\ MustAge(v, t) \in Nat /\ Assoc \in Nat /\ a[t] <= MustAge(v, t)
  BY EnclosedNumbers
<1>2. t \in TagsOf(v) /\ ~ (MustAge(v, t) + 0 >= Assoc)
  BY DEF MustClassify
<1> QED  BY <1>1, <1>2

\* A miss is a line that is not in the set.
LEMMA EnclosedMiss ==
  ASSUME NEW S, NEW a, NEW v, NEW s, Enclosed(S, a, v, s),
         NEW t \in Tags, MustClassify(v, t, 0) = "MISS" \/ MayClassify(s, t, 0) = "MISS"
  PROVE  a[t] = Assoc
<1>1. /\ a[t] \in Nat /\ a[t] <= Assoc /\ MustAge(v, t) \in Nat /\ MinAge(s, t) \in Nat
      /\ Assoc \in Nat /\ MinAge(s, t) <= a[t]
  BY EnclosedNumbers
<1>2. MustVector(v) /\ MayState(s)
  BY DEF Enclosed
<1>3. CASE MustClassify(v, t, 0) = "MISS"
  <2>1. t \in TagsOf(v) <=> MustAge(v, t) < Assoc
    BY <1>2, MustAges
  <2>2. t \notin TagsOf(v) /\ Len(v) = Assoc
    BY <1>1, <1>3, <2>1 DEF MustClassify
  <2> QED  BY <2>2, FullVector
<1>4. CASE MayClassify(s, t, 0) = "MISS"
  <2>1. s.implicit \in Nat /\ s.implicit <= Assoc
    <3>1. s.implicit \in 0 .. Assoc
      BY <1>2 DEF MayState
    <3> QED  BY <1>1, <3>1
  <2>2. /\ MinAge(s, t) <= s.implicit
        /\ t \in TagsOf(s.explicit) <=> MinAge(s, t) < s.implicit
    BY <1>2, MayAges
  <2>3. ~ (s.implicit + 0 < Assoc) /\ ~ (t \in TagsOf(s.explicit) /\ MinAge(s, t) + 0 < Assoc)
    BY <1>4 DEF MayClassify
  <2> QED  BY <1>1, <2>1, <2>2, <2>3
<1> QED  BY <1>3, <1>4

\* The unknown set.
LEMMA UnknownAges ==
  /\ MustVector(MustInit) /\ \A u : MustAge(MustInit, u) = Assoc
  /\ MayState(MayInit(FALSE)) /\ \A u : MinAge(MayInit(FALSE), u) = 0
<1>0. Assoc \in Nat \ {0}
  BY AssocAssumption
<1>1. Entries(<< >>) = {} /\ Vector(<< >>) /\ MustVector(<< >>)
  <2>1. Entries(<< >>) = {} /\ Vector(<< >>)
    BY DEF Entries, EntriesFrom, Vector, SortedFrom, OneEntryPerTag
  <2>2. \A k \in 1 .. Len(<< >>) : FALSE
    OBVIOUS
  <2> QED  BY <2>1, <2>2 DEF MustVector
<1>2. \A u : MustAge(<< >>, u) = Assoc
  <2> TAKE u
  <2>1. u \notin TagsOf(<< >>)
    <3>1. ASSUME NEW v, Vector(v), Entries(v) = {} PROVE u \notin TagsOf(v)
      <4>1. TagsOf(v) = {x.tag : x \in Entries(v)}
        BY <3>1, PositionFinds
      <4> QED  BY <3>1, <4>1
    <3> QED  BY <1>1, <3>1
  <2>2. MustAge(<< >>, u) \in 0 .. Assoc /\ ~ (MustAge(<< >>, u) < Assoc)
    BY <1>1, <2>1, MustAges
  <2> QED  BY <1>0, <2>2
<1> DEFINE i == [explicit |-> << >>, implicit |-> 0]
<1>3. MayState(i) /\ i.implicit = 0
  BY <1>0, <1>1 DEF MayState
<1>4. MayInit(FALSE) = i
  BY DEF MayInit
<1> HIDE DEF i
<1>5. \A u : MinAge(i, u) = 0
  <2> TAKE u
  <2>1. MinAge(i, u) \in 0 .. Assoc /\ MinAge(i, u) <= i.implicit
    BY <1>3, MayAges
  <2> QED  BY <1>0, <1>3, <2>1
<1> QED  BY <1>1, <1>2, <1>3, <1>4, <1>5 DEF MustInit

\* The unknown set is described by the first states.
LEMMA EnclosedInit ==
  ASSUME NEW S, Tags \subseteq S, NEW a \in [S -> 0 .. Assoc], Distinct(S, a)
  PROVE  Enclosed(S, a, MustInit, MayInit(FALSE))
<1>1. \A t \in Tags : 0 <= a[t] /\ a[t] <= Assoc
  BY AssocAssumption
<1> QED  BY <1>1, UnknownAges DEF Enclosed, Between

\* An access to a known line.
LEMMA EnclosedAccess ==
  ASSUME NEW S, NEW a, NEW v, NEW s, Enclosed(S, a, v, s),
         NEW t \in Tags, NEW hit \in BOOLEAN, hit => t \in TagsOf(v) \/ a[t] < Assoc
  PROVE  Enclosed(S, Touched(S, a, t), MustUpdate(v, t, hit), MayUpdate(s, t))
<1> DEFINE b == Touched(S, a, t)
           w == MustUpdate(v, t, hit)
           r == MayUpdate(s, t)
           n == AccessedAge(v, t, hit)
<1>0. /\ t \in Nat /\ t \in S /\ Assoc \in Nat \ {0} /\ Tags \subseteq S /\ Tags \subseteq Nat
      /\ a \in [S -> 0 .. Assoc] /\ Distinct(S, a)
      /\ MustVector(v) /\ MayState(s) /\ \A u \in Nat \ Tags : MustAge(v, u) = Assoc
  BY TagsAssumption, AssocAssumption DEF Enclosed
<1>1. hit => t \in TagsOf(v) \/ Len(v) < Assoc
  <2>1. Len(v) \in Nat /\ Len(v) <= Assoc
    BY <1>0, MustVectorFits, TagsCount DEF MustVector
  <2>2. CASE Len(v) = Assoc
    <3>1. t \notin TagsOf(v) => a[t] = Assoc
      BY <2>2, FullVector
    <3> QED  BY <1>0, <3>1
  <2> QED  BY <1>0, <2>1, <2>2
<1>2. ASSUME NEW u
      PROVE  /\ MustVector(w) /\ n \in 0 .. Assoc
             /\ MustAge(w, u) = IF u = t THEN 0 ELSE IF MustAge(v, u) < n THEN MustAge(v, u) + 1
                                ELSE MustAge(v, u)
  BY <1>0, <1>1, MustUpdateAges
<1>3. /\ MayState(r)
      /\ \A u \in Nat : MinAge(r, u) = IF u = t THEN 0 ELSE AgesWith(MinAge(s, u), MinAge(s, t))
  BY <1>0, MayUpdateAges
<1>4. n \in Nat /\ n <= Assoc
  <2>1. n \in 0 .. Assoc
    BY <1>2
  <2> QED  BY <1>0, <2>1
<1>5. /\ t \in TagsOf(v) <=> MustAge(v, t) < Assoc
      /\ n = IF t \in TagsOf(v) THEN MustAge(v, t) ELSE IF hit THEN Assoc - 1 ELSE Assoc
  BY <1>0, MustAges DEF AccessedAge
<1>6. b \in [S -> 0 .. Assoc] /\ Distinct(S, b)
  BY <1>0, TouchedStack
<1>7. \A u \in S : b[u] = IF u = t THEN 0 ELSE IF a[u] < a[t] THEN a[u] + 1 ELSE a[u]
  BY DEF Touched
<1> HIDE DEF b, w, r, n
<1>8. \A u \in Nat \ Tags : MustAge(w, u) = Assoc
  <2> TAKE u \in Nat \ Tags
  <2>1. MustAge(v, u) = Assoc /\ u # t
    BY <1>0
  <2>2. ~ (MustAge(v, u) < n)
    BY <1>0, <1>4, <2>1
  <2> QED  BY <1>2, <2>1, <2>2
<1>9. a[t] <= n
  <2>1. a[t] \in Nat /\ a[t] <= Assoc /\ a[t] <= MustAge(v, t)
    BY EnclosedNumbers
  <2> QED  BY <1>0, <1>5, <2>1
<1>10. Between(b, w, r)
  <2> SUFFICES ASSUME NEW u \in Tags PROVE MinAge(r, u) <= b[u] /\ b[u] <= MustAge(w, u)
    BY DEF Between
  <2>1. /\ a[u] \in Nat /\ a[t] \in Nat /\ a[u] <= Assoc /\ a[t] <= Assoc
        /\ MustAge(v, u) \in Nat /\ MinAge(s, u) \in Nat /\ MinAge(s, t) \in Nat
        /\ MinAge(s, u) <= a[u] /\ MinAge(s, t) <= a[t] /\ a[u] <= MustAge(v, u)
    BY EnclosedNumbers
  <2>2. b[u] = IF u = t THEN 0 ELSE IF a[u] < a[t] THEN a[u] + 1 ELSE a[u]
    BY <1>0, <1>7
  <2>3. b[u] <= MustAge(w, u)
    BY <1>2, <1>4, <1>9, <2>1, <2>2
  <2>4. u # t /\ a[u] = a[t] => ~ (a[u] < Assoc)
    BY <1>0 DEF Distinct
  <2>5. MinAge(r, u) <= b[u]
    BY <1>0, <1>3, <2>1, <2>2, <2>4 DEF AgesWith
  <2> QED  BY <2>3, <2>5
<1> QED  BY <1>0, <1>2, <1>3, <1>6, <1>8, <1>10 DEF Enclosed, b, w, r

\* An access to one of the tags from low to high, or to another set.
LEMMA EnclosedPotential ==
  ASSUME NEW S, NEW a, NEW v, NEW s, Enclosed(S, a, v, s),
         NEW low \in Tags, NEW high \in Tags, low <= high,
         NEW b, b = a \/ \E t \in Tags \cap low .. high : b = Touched(S, a, t)
  PROVE  Enclosed(S, b, MustPotentialUpdate(v), MayPotentialUpdate(s, low, high))
<1> DEFINE w == MustPotentialUpdate(v)
           r == MayPotentialUpdate(s, low, high)
<1>0. /\ Assoc \in Nat \ {0} /\ a \in [S -> 0 .. Assoc] /\ Distinct(S, a) /\ Tags \subseteq S
      /\ low \in Nat /\ high \in Nat
      /\ MustVector(v) /\ MayState(s) /\ \A u \in Nat \ Tags : MustAge(v, u) = Assoc
  BY TagsAssumption, AssocAssumption DEF Enclosed
<1>1. ASSUME NEW u
      PROVE  /\ MustVector(w)
             /\ MustAge(w, u) = IF MustAge(v, u) < Assoc THEN MustAge(v, u) + 1 ELSE MustAge(v, u)
  BY <1>0, MustPotentialUpdateAges
<1>2. /\ MayState(r)
      /\ \A u \in Nat : MinAge(r, u) =
           IF s.implicit = 0 \/ high - low + 1 > MaxWorthwhileTags \/ u \in low .. high
           THEN 0 ELSE MinAge(s, u)
  BY <1>0, MayPotentialUpdateAges
<1> HIDE DEF w, r
<1>3. /\ b \in [S -> 0 .. Assoc] /\ Distinct(S, b)
      /\ b = a \/ \E t \in Tags \cap low .. high : \A u \in S :
           b[u] = IF u = t THEN 0 ELSE IF a[u] < a[t] THEN a[u] + 1 ELSE a[u]
  <2>1. CASE b = a
    BY <1>0, <2>1
  <2>2. CASE \E t \in Tags \cap low .. high : b = Touched(S, a, t)
    <3>1. PICK t \in Tags \cap low .. high : b = Touched(S, a, t)
      BY <2>2
    <3>2. b \in [S -> 0 .. Assoc] /\ Distinct(S, b)
      BY <1>0, <3>1, TouchedStack
    <3>3. \A u \in S : b[u] = IF u = t THEN 0 ELSE IF a[u] < a[t] THEN a[u] + 1 ELSE a[u]
      BY <3>1 DEF Touched
    <3> QED  BY <3>2, <3>3
  <2> QED  BY <2>1, <2>2
<1>4. \A u \in Nat \ Tags : MustAge(w, u) = Assoc
  BY <1>0, <1>1
<1>5. Between(b, w, r)
  <2> SUFFICES ASSUME NEW u \in Tags PROVE MinAge(r, u) <= b[u] /\ b[u] <= MustAge(w, u)
    BY DEF Between
  <2>1. /\ u \in Nat /\ u \in S /\ a[u] \in Nat /\ a[u] <= Assoc
        /\ MustAge(v, u) \in Nat /\ MustAge(v, u) <= Assoc /\ MinAge(s, u) \in Nat
        /\ MinAge(s, u) <= a[u] /\ a[u] <= MustAge(v, u)
    BY EnclosedNumbers
  <2>2. b[u] \in Nat /\ b[u] <= Assoc
    <3>1. b[u] \in 0 .. Assoc
      BY <1>3, <2>1
    <3> QED  BY <1>0, <3>1
  <2>3. /\ MinAge(r, u) = 0 \/ MinAge(r, u) = MinAge(s, u)
        /\ u \in low .. high => MinAge(r, u) = 0
    BY <1>2, <2>1
  <2>4. \/ b[u] = a[u] \/ b[u] = a[u] + 1
        \/ b[u] = 0 /\ u \in low .. high
    BY <1>3, <2>1
  <2>5. MustAge(w, u) = IF MustAge(v, u) < Assoc THEN MustAge(v, u) + 1 ELSE MustAge(v, u)
    BY <1>1
  <2> QED  BY <1>0, <2>1, <2>2, <2>3, <2>4, <2>5
<1> QED  BY <1>0, <1>1, <1>2, <1>3, <1>4, <1>5 DEF Enclosed, w, r

\* A join stands for the ages of either state.
LEMMA EnclosedJoin ==
  ASSUME NEW S, NEW a, NEW v, NEW s, Enclosed(S, a, v, s),
         NEW b, NEW w, NEW r, Enclosed(S, b, w, r), NEW c \in {a, b}
  PROVE  Enclosed(S, c, MustJoin(v, w), MayJoin(s, r))
<1> DEFINE j == MustJoin(v, w)
           i == MayJoin(s, r)
<1>0. /\ Assoc \in Nat \ {0} /\ MustVector(v) /\ MayState(s) /\ MustVector(w) /\ MayState(r)
      /\ \A u \in Nat \ Tags : MustAge(v, u) = Assoc /\ MustAge(w, u) = Assoc
      /\ c \in [S -> 0 .. Assoc] /\ Distinct(S, c) /\ Tags \subseteq S
  BY AssocAssumption DEF Enclosed
<1>1. /\ MustVector(j)
      /\ \A u : MustAge(j, u) = IF MustAge(v, u) < MustAge(w, u) THEN MustAge(w, u) ELSE MustAge(v, u)
  BY <1>0, MustJoinAges
<1>2. /\ MayState(i)
      /\ \A u : MinAge(i, u) = IF MinAge(s, u) <= MinAge(r, u) THEN MinAge(s, u) ELSE MinAge(r, u)
  BY <1>0, MayJoinAges
<1> HIDE DEF i, j
<1>3. \A u \in Nat \ Tags : MustAge(j, u) = Assoc
  BY <1>0, <1>1
<1>4. Between(c, j, i)
  <2> SUFFICES ASSUME NEW u \in Tags PROVE MinAge(i, u) <= c[u] /\ c[u] <= MustAge(j, u)
    BY DEF Between
  <2>1. /\ MustAge(v, u) \in Nat /\ MinAge(s, u) \in Nat /\ a[u] \in Nat
        /\ MinAge(s, u) <= a[u] /\ a[u] <= MustAge(v, u)
    BY EnclosedNumbers
  <2>2. /\ MustAge(w, u) \in Nat /\ MinAge(r, u) \in Nat /\ b[u] \in Nat
        /\ MinAge(r, u) <= b[u] /\ b[u] <= MustAge(w, u)
    BY EnclosedNumbers
  <2>3. c[u] = a[u] \/ c[u] = b[u]
    OBVIOUS
  <2> QED  BY <1>1, <1>2, <2>1, <2>2, <2>3
<1> QED  BY <1>0, <1>1, <1>2, <1>3, <1>4 DEF Enclosed, i, j
=============================================================================
