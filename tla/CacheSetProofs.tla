---------------------------- MODULE CacheSetProofs ----------------------------
(***************************************************************************)
(* Theorems about CacheSet for every associativity, all lines of the       *)
(* program and of the other cores, and any number of paths.                *)
(*                                                                         *)
(* That the bounds enclose the ages (Between) is inductive only while the  *)
(* other cores leave the set alone, since ForeignAccess is seen by neither *)
(* analysis. In a shared set the must bounds that MustClassify may use     *)
(* describe ages that count the lines of the program alone; such ages are  *)
(* kept as a witness that explains the ages in the set (Explained): a      *)
(* cached line is behind its explained age by no more than there are lines *)
(* of other cores. The inductive invariant is IInv, and Good is its part   *)
(* about one path.                                                         *)
(***************************************************************************)
EXTENDS CacheSet, AgeVectorProofs

-----------------------------------------------------------------------------
\* LRU stacks, and the ages that explain those in a shared set.

\* The ages a of a shared set are explained by ages pa that count the lines of the program
\* alone: below a line that pa knows the set has no gap, and every line of the program that
\* lies there and that no other core can have put there is younger in pa too.
Explains(a, pa) ==
  /\ pa \in [Tags -> 0 .. Assoc] /\ Distinct(Tags, pa)
  /\ \A u \in Tags : pa[u] < Assoc =>
       /\ \A k \in 0 .. a[u] - 1 : \E w \in Lines : a[w] = k
       /\ \A w \in Tags \ Foreign : a[w] < a[u] => pa[w] < pa[u]

\* An access leaves no gap below another line where there was none.
LEMMA TouchedWithoutGap ==
  ASSUME NEW S, NEW a \in [S -> 0 .. Assoc], NEW t \in S, Distinct(S, a),
         NEW u \in S, u # t, \A k \in 0 .. a[u] - 1 : \E w \in S : a[w] = k
  PROVE  \A k \in 0 .. Touched(S, a, t)[u] - 1 : \E w \in S : Touched(S, a, t)[w] = k
<1> DEFINE b == Touched(S, a, t)
<1>1. \A w \in S : /\ b[w] = IF w = t THEN 0 ELSE IF a[w] < a[t] THEN a[w] + 1 ELSE a[w]
                   /\ a[w] \in Nat /\ a[w] <= Assoc
  BY AssocAssumption DEF Touched
<1> HIDE DEF b
<1> SUFFICES ASSUME NEW k \in 0 .. b[u] - 1 PROVE \E w \in S : b[w] = k
  BY DEF b
<1>2. k \in Nat /\ k < b[u]
  BY <1>1
<1>3. CASE k = 0
  BY <1>1, <1>3
<1>4. CASE k # 0 /\ k <= a[t]
  <2>1. k - 1 \in 0 .. a[u] - 1 /\ k - 1 < a[t]
    BY <1>1, <1>2, <1>4
  <2>2. PICK w \in S : a[w] = k - 1
    BY <2>1
  <2>3. b[w] = k
    BY <1>1, <1>2, <2>1, <2>2
  <2> QED  BY <2>3
<1>5. CASE k # 0 /\ ~ (k <= a[t])
  <2>1. k \in 0 .. a[u] - 1
    BY <1>1, <1>2, <1>5
  <2>2. PICK w \in S : a[w] = k
    BY <2>1
  <2>3. b[w] = k
    BY <1>1, <1>2, <1>5, <2>2
  <2> QED  BY <2>3
<1> QED  BY <1>3, <1>4, <1>5

\* An access of the program: pa follows.
LEMMA TouchExplains ==
  ASSUME NEW a \in [Lines -> 0 .. Assoc], LruStack(a), NEW pa, Explains(a, pa), NEW t \in Tags
  PROVE  Explains(Touch(a, t), Touched(Tags, pa, t))
<1> DEFINE b == Touch(a, t)
           pb == Touched(Tags, pa, t)
<1>1. b = Touched(Lines, a, t) /\ Distinct(Lines, a) /\ t \in Lines /\ Tags \subseteq Lines
  BY DEF Touch, Touched, LruStack, Distinct, Lines
<1>2. pa \in [Tags -> 0 .. Assoc] /\ Distinct(Tags, pa)
  BY DEF Explains
<1>3. /\ pb \in [Tags -> 0 .. Assoc] /\ Distinct(Tags, pb)
      /\ \A u \in Tags : u # t => pb[u] > 0
      /\ \A u, w \in Tags : pa[u] < pa[w] /\ pa[w] < Assoc /\ w # t => pb[u] < pb[w]
  BY <1>2, TouchedStack
<1>4. /\ b \in [Lines -> 0 .. Assoc] /\ b[t] = 0
      /\ \A u, w \in Lines : a[u] <= a[w] /\ w # t => b[u] <= b[w]
  <2>1. b[t] = 0
    BY <1>1 DEF Touched
  <2> HIDE DEF b
  <2> QED  BY <1>1, <2>1, TouchedStack
<1>5. /\ pb[t] = 0
      /\ \A u \in Tags : pa[u] \in Nat /\ pa[u] <= Assoc /\ (u # t /\ pb[u] < Assoc => pa[u] < Assoc)
  BY <1>2, AssocAssumption DEF Touched
<1> SUFFICES ASSUME NEW u \in Tags, pb[u] < Assoc
             PROVE  /\ \A k \in 0 .. b[u] - 1 : \E w \in Lines : b[w] = k
                    /\ \A w \in Tags \ Foreign : b[w] < b[u] => pb[w] < pb[u]
  BY <1>3 DEF Explains
<1> HIDE DEF b, pb
<1>6. CASE u = t
  <2>1. 0 .. b[u] - 1 = {}
    BY <1>4, <1>6
  <2>2. \A w \in Tags \ Foreign : ~ (b[w] < b[u])
    BY <1>1, <1>4, <1>6, AssocAssumption
  <2> QED  BY <2>1, <2>2
<1>7. CASE u # t
  <2>1. /\ \A k \in 0 .. a[u] - 1 : \E w \in Lines : a[w] = k
        /\ \A w \in Tags \ Foreign : a[w] < a[u] => pa[w] < pa[u]
    BY <1>5, <1>7 DEF Explains
  <2>2. \A k \in 0 .. b[u] - 1 : \E w \in Lines : b[w] = k
    BY <1>1, <1>7, <2>1, TouchedWithoutGap
  <2>3. ASSUME NEW w \in Tags \ Foreign, b[w] < b[u] PROVE pb[w] < pb[u]
    <3>1. CASE w = t
      BY <1>3, <1>5, <1>7, <3>1
    <3>2. CASE w # t
      <4>1. ~ (a[u] <= a[w])
        <5>1. w \in Lines /\ u \in Lines /\ b[w] \in 0 .. Assoc /\ b[u] \in 0 .. Assoc
          BY <1>1, <1>4
        <5> QED  BY <1>4, <2>3, <3>2, <5>1, AssocAssumption
      <4>2. a[w] < a[u]
        BY <1>1, <4>1, AssocAssumption
      <4> QED  BY <1>3, <1>5, <1>7, <2>1, <4>2
    <3> QED  BY <3>1, <3>2
  <2> QED  BY <2>2, <2>3
<1> QED  BY <1>6, <1>7

\* An access of another core: pa stays.
LEMMA ForeignExplains ==
  ASSUME NEW a \in [Lines -> 0 .. Assoc], LruStack(a), NEW pa, Explains(a, pa), NEW f \in Foreign
  PROVE  Explains(Touch(a, f), pa)
<1> DEFINE b == Touch(a, f)
<1>1. b = Touched(Lines, a, f) /\ Distinct(Lines, a) /\ f \in Lines /\ Tags \subseteq Lines
  BY DEF Touch, Touched, LruStack, Distinct, Lines
<1>2. /\ b \in [Lines -> 0 .. Assoc] /\ b[f] = 0
      /\ \A u, w \in Lines : a[u] <= a[w] /\ w # f => b[u] <= b[w]
  <2>1. b[f] = 0
    BY <1>1 DEF Touched
  <2> HIDE DEF b
  <2> QED  BY <1>1, <2>1, TouchedStack
<1>3. pa \in [Tags -> 0 .. Assoc] /\ Distinct(Tags, pa)
  BY DEF Explains
<1> SUFFICES ASSUME NEW u \in Tags, pa[u] < Assoc
             PROVE  /\ \A k \in 0 .. b[u] - 1 : \E w \in Lines : b[w] = k
                    /\ \A w \in Tags \ Foreign : b[w] < b[u] => pa[w] < pa[u]
  BY <1>3 DEF Explains
<1> HIDE DEF b
<1>4. /\ \A k \in 0 .. a[u] - 1 : \E w \in Lines : a[w] = k
      /\ \A w \in Tags \ Foreign : a[w] < a[u] => pa[w] < pa[u]
  BY DEF Explains
<1>5. CASE u = f
  <2>1. 0 .. b[u] - 1 = {}
    BY <1>2, <1>5
  <2>2. \A w \in Tags \ Foreign : ~ (b[w] < b[u])
    BY <1>1, <1>2, <1>5, AssocAssumption
  <2> QED  BY <2>1, <2>2
<1>6. CASE u # f
  <2>2. \A k \in 0 .. b[u] - 1 : \E w \in Lines : b[w] = k
    BY <1>1, <1>4, <1>6, TouchedWithoutGap
  <2>3. ASSUME NEW w \in Tags \ Foreign, b[w] < b[u] PROVE pa[w] < pa[u]
    <3>1. w # f
      OBVIOUS
    <3>2. ~ (a[u] <= a[w])
      <4>1. w \in Lines /\ u \in Lines /\ b[w] \in 0 .. Assoc /\ b[u] \in 0 .. Assoc
        BY <1>1, <1>2
      <4> QED  BY <1>2, <2>3, <3>1, <4>1, AssocAssumption
    <3>3. a[w] < a[u]
      BY <1>1, <3>2, AssocAssumption
    <3> QED  BY <1>4, <3>3
  <2> QED  BY <2>2, <2>3
<1> QED  BY <1>5, <1>6

\* Between the age that counts the program's lines alone and the age in the shared set lie
\* no more lines than the other cores have in conflict.
LEMMA AgeInSharedSet ==
  ASSUME NEW a \in [Lines -> 0 .. Assoc], LruStack(a), NEW pa, Explains(a, pa),
         NEW t \in Tags, pa[t] < Assoc
  PROVE  a[t] <= pa[t] + Cardinality(Foreign \ {t})
<1> DEFINE N == {w \in Lines : a[w] < a[t]}
           F == N \cap Foreign
           O == N \ Foreign
           C == Foreign \ {t}
<1>0. /\ a[t] \in Nat /\ a[t] <= Assoc /\ pa[t] \in Nat /\ Assoc \in Nat
      /\ \A w \in Lines : a[w] \in Nat
      /\ \A w \in Tags : pa[w] \in Nat
  BY AssocAssumption DEF Explains, Lines
<1>1. /\ \A k \in 0 .. a[t] - 1 : \E w \in Lines : a[w] = k
      /\ \A w \in Tags \ Foreign : a[w] < a[t] => pa[w] < pa[t]
      /\ \A u, w \in Tags : pa[u] = pa[w] /\ pa[u] < Assoc => u = w
  BY DEF Explains, Distinct
<1>2. IsFiniteSet(C) /\ IsFiniteSet(F) /\ Cardinality(F) <= Cardinality(C)
  <2>1. IsFiniteSet(C)
    BY ForeignAssumption, FS_Subset
  <2>2. F \subseteq C
    BY <1>0
  <2> HIDE DEF F, C
  <2> QED  BY <2>1, <2>2, FS_Subset
<1>3. IsFiniteSet(O) /\ Cardinality(O) <= pa[t]
  <2> DEFINE f == [w \in O |-> pa[w]]
  <2>1. \A w \in O : w \in Tags /\ pa[w] < pa[t]
    BY <1>1 DEF Lines
  <2> HIDE DEF O
  <2>2. f \in [O -> 0 .. pa[t] - 1]
    <3>1. \A w \in O : pa[w] \in 0 .. pa[t] - 1
      BY <1>0, <2>1
    <3> QED  BY <3>1
  <2>3. \A u, w \in O : f[u] = f[w] => u = w
    <3> SUFFICES ASSUME NEW u \in O, NEW w \in O, f[u] = f[w] PROVE u = w
      OBVIOUS
    <3>1. pa[u] = pa[w] /\ pa[u] < Assoc
      <4>1. pa[u] \in Nat /\ pa[u] < pa[t]
        BY <1>0, <2>1
      <4> QED  BY <1>0, <4>1
    <3> QED  BY <1>1, <2>1, <3>1
  <2> HIDE DEF f
  <2> QED  BY <1>0, <2>2, <2>3, YoungLinesFit
<1>4. IsFiniteSet(N) /\ Cardinality(N) <= Cardinality(F) + Cardinality(O)
  <2>1. N = F \cup O
    OBVIOUS
  <2> HIDE DEF N, F, O
  <2>2. /\ IsFiniteSet(F \cup O)
        /\ Cardinality(F \cup O) = Cardinality(F) + Cardinality(O) - Cardinality(F \cap O)
    BY <1>2, <1>3, FS_Union
  <2>3. IsFiniteSet(F \cap O)
    BY <1>2, FS_Subset
  <2>4. Cardinality(F) \in Nat /\ Cardinality(O) \in Nat /\ Cardinality(F \cap O) \in Nat
    BY <1>2, <1>3, <2>3, FS_CardinalityType
  <2> QED  BY <2>1, <2>2, <2>4
<1>5. a[t] <= Cardinality(N)
  <2> DEFINE K == 0 .. a[t] - 1
             g == [k \in K |-> CHOOSE w \in Lines : a[w] = k]
  <2>1. \A k \in K : g[k] \in Lines /\ a[g[k]] = k
    <3> TAKE k \in K
    <3>1. \E w \in Lines : a[w] = k
      BY <1>1
    <3> HIDE DEF K
    <3>2. g[k] = CHOOSE w \in Lines : a[w] = k
      OBVIOUS
    <3> HIDE DEF g
    <3> QED  BY <3>1, <3>2
  <2>2. g \in [K -> N]
    <3>1. \A k \in K : g[k] \in N
      BY <1>0, <2>1
    <3>2. g = [k \in K |-> g[k]]
      OBVIOUS
    <3> HIDE DEF g, N, K
    <3> QED  BY <3>1, <3>2
  <2>3. \A i, k \in K : g[i] = g[k] => i = k
    <3> HIDE DEF g, K
    <3> QED  BY <2>1
  <2>4. g \in Injection(K, N)
    <3> HIDE DEF g, K, N
    <3> QED  BY <2>2, <2>3 DEF Injection, IsInjective
  <2>5. Cardinality(K) = a[t]
    <3>1. 0 \in Int /\ a[t] - 1 \in Int
      BY <1>0
    <3>2. Cardinality(K) = IF 0 > a[t] - 1 THEN 0 ELSE (a[t] - 1) - 0 + 1
      BY <3>1, FS_Interval
    <3> QED  BY <1>0, <3>2
  <2>6. Cardinality(K) <= Cardinality(N)
    <3> HIDE DEF g, K, N
    <3> QED  BY <1>4, <2>4, FS_Injection
  <2> QED  BY <2>5, <2>6
<1>6. /\ Cardinality(N) \in Nat /\ Cardinality(F) \in Nat /\ Cardinality(O) \in Nat
      /\ Cardinality(C) \in Nat
  BY <1>2, <1>3, <1>4, FS_CardinalityType
<1> HIDE DEF N, F, O
<1>7. a[t] <= pa[t] + Cardinality(C)
  <2> HIDE DEF C
  <2> QED  BY <1>0, <1>2, <1>3, <1>4, <1>5, <1>6
<1> QED  BY <1>7

-----------------------------------------------------------------------------
\* A path stays good.

\* When the other cores share the set, the must bounds below Assoc - 1 hold for ages that count the lines of
\* the program alone, and these explain the ages in the set.
Explained(a, v) ==
  \E pa \in [Tags -> 0 .. Assoc] :
    Explains(a, pa) /\ \A u \in Tags : MustAge(v, u) < Assoc - 1 => pa[u] <= MustAge(v, u)

\* A path of the exploration: the ages a in the set it stands for, its must vector v of lines
\* of the set and its may state s.
Good(isShared, a, v, s) ==
  /\ a \in [Lines -> 0 .. Assoc] /\ LruStack(a)
  /\ MustVector(v) /\ MayState(s)
  /\ \A u \in Nat \ Tags : MustAge(v, u) = Assoc
  /\ isShared => Explained(a, v)
  /\ ~ isShared => Between(a, v, s)

\* While the other cores leave the set alone, the bounds enclose the ages.
LEMMA GoodIsEnclosed ==
  ASSUME NEW a, NEW v, NEW s, Good(FALSE, a, v, s)
  PROVE  Enclosed(Lines, a, v, s)
  BY DEF Good, Enclosed, LruStack, Distinct, Lines

\* An LRU stack stays one.
LEMMA TouchStack ==
  ASSUME NEW a \in [Lines -> 0 .. Assoc], LruStack(a), NEW t \in Lines
  PROVE  /\ Touch(a, t) \in [Lines -> 0 .. Assoc] /\ LruStack(Touch(a, t))
         /\ \A u \in Lines : Touch(a, t)[u] = IF u = t THEN 0
                                              ELSE IF a[u] < a[t] THEN a[u] + 1 ELSE a[u]
<1>1. Touch(a, t) = Touched(Lines, a, t) /\ Distinct(Lines, a)
  BY DEF Touch, Touched, LruStack, Distinct
<1>2. Touched(Lines, a, t) \in [Lines -> 0 .. Assoc] /\ Distinct(Lines, Touched(Lines, a, t))
  BY <1>1, TouchedStack
<1>3. \A u \in Lines : Touched(Lines, a, t)[u] = IF u = t THEN 0
                                                 ELSE IF a[u] < a[t] THEN a[u] + 1 ELSE a[u]
  BY DEF Touched
<1> QED  BY <1>1, <1>2, <1>3 DEF LruStack, Distinct

\* The numbers a path is about.
LEMMA GoodNumbers ==
  ASSUME NEW isShared, NEW a, NEW v, NEW s, Good(isShared, a, v, s), NEW u \in Tags
  PROVE  /\ u \in Nat /\ u \in Lines /\ Assoc \in Nat \ {0}
         /\ a[u] \in Nat /\ a[u] <= Assoc
         /\ MustAge(v, u) \in Nat /\ MustAge(v, u) <= Assoc
         /\ MinAge(s, u) \in Nat /\ MinAge(s, u) <= Assoc
<1>1. u \in Nat /\ u \in Lines /\ Assoc \in Nat \ {0}
  BY TagsAssumption, AssocAssumption DEF Lines
<1>2. a[u] \in 0 .. Assoc
  BY <1>1 DEF Good
<1>3. MustAge(v, u) \in 0 .. Assoc
  BY MustAges DEF Good
<1>4. MinAge(s, u) \in 0 .. Assoc
  BY MayAges DEF Good
<1> QED  BY <1>1, <1>2, <1>3, <1>4

\* The must bounds of w are those of v after an access to t, the bound of which is n.
MustTouched(w, v, t, n) ==
  \A u \in Tags : MustAge(w, u) =
     IF u = t THEN 0 ELSE IF MustAge(v, u) < n THEN MustAge(v, u) + 1 ELSE MustAge(v, u)

\* An access keeps the must bounds explained.
LEMMA AccessExplained ==
  ASSUME NEW a \in [Lines -> 0 .. Assoc], LruStack(a), NEW v, NEW s, Good(TRUE, a, v, s),
         NEW t \in Tags, NEW n \in 0 .. Assoc, n < Assoc - 1 => n = MustAge(v, t),
         NEW w, MustTouched(w, v, t, n)
  PROVE  Explained(Touch(a, t), w)
<1>1. PICK pa \in [Tags -> 0 .. Assoc] :
        Explains(a, pa) /\ \A u \in Tags : MustAge(v, u) < Assoc - 1 => pa[u] <= MustAge(v, u)
  BY DEF Good, Explained
<1> DEFINE pb == Touched(Tags, pa, t)
<1>2. Explains(Touch(a, t), pb)
  BY <1>1, TouchExplains
<1>3. pb \in [Tags -> 0 .. Assoc]
  <2> HIDE DEF pb
  <2> QED  BY <1>2 DEF Explains
<1>4. ASSUME NEW u \in Tags, MustAge(w, u) < Assoc - 1 PROVE pb[u] <= MustAge(w, u)
  <2>0. n \in Nat
    BY AssocAssumption
  <2>1. /\ Assoc \in Nat /\ MustAge(v, u) \in Nat /\ MustAge(v, t) \in Nat
        /\ pa[u] \in Nat /\ pa[t] \in Nat
    <3>1. Assoc \in Nat /\ MustAge(v, u) \in Nat /\ MustAge(v, t) \in Nat
      BY GoodNumbers
    <3> HIDE DEF pb
    <3> QED  BY <3>1
  <2>2. pb[u] = IF u = t THEN 0 ELSE IF pa[u] < pa[t] THEN pa[u] + 1 ELSE pa[u]
    BY DEF Touched
  <2>3. MustAge(w, u) = IF u = t THEN 0 ELSE IF MustAge(v, u) < n THEN MustAge(v, u) + 1
                        ELSE MustAge(v, u)
    BY DEF MustTouched
  <2> HIDE DEF pb
  <2>4. CASE u = t
    BY <2>2, <2>3, <2>4
  <2>5. CASE u # t
    <3>1. MustAge(v, u) < Assoc - 1
      BY <1>4, <2>0, <2>1, <2>3, <2>5
    <3>2. pa[u] <= MustAge(v, u)
      BY <1>1, <3>1
    <3>3. CASE MustAge(v, u) < n
      BY <2>1, <2>2, <2>3, <2>5, <3>2, <3>3
    <3>4. CASE ~ (MustAge(v, u) < n)
      <4>1. n < Assoc - 1 /\ n = MustAge(v, t)
        BY <2>0, <2>1, <3>1, <3>4
      <4>2. pa[t] <= n
        BY <1>1, <4>1
      <4> QED  BY <2>0, <2>1, <2>2, <2>3, <2>5, <3>2, <3>4, <4>2
    <3> QED  BY <3>3, <3>4
  <2> QED  BY <2>4, <2>5
<1> HIDE DEF pb
<1> QED  BY <1>2, <1>3, <1>4 DEF Explained

\* An access to a known line.
LEMMA GoodAccess ==
  ASSUME NEW isShared \in BOOLEAN, NEW a, NEW v, NEW s, Good(isShared, a, v, s),
         NEW t \in Tags, NEW hit \in BOOLEAN,
         hit => t \in TagsOf(v) \/ (Len(v) < Assoc /\ a[t] < Assoc)
  PROVE  Good(isShared, Touch(a, t), MustUpdate(v, t, hit), MayUpdate(s, t))
<1> DEFINE b == Touch(a, t)
           w == MustUpdate(v, t, hit)
           r == MayUpdate(s, t)
           n == AccessedAge(v, t, hit)
<1>0. t \in Nat /\ t \in Lines /\ Assoc \in Nat \ {0} /\ a \in [Lines -> 0 .. Assoc] /\ LruStack(a)
      /\ MustVector(v) /\ MayState(s) /\ \A u \in Nat \ Tags : MustAge(v, u) = Assoc
  BY TagsAssumption, AssocAssumption DEF Good, Lines
<1>1. b \in [Lines -> 0 .. Assoc] /\ LruStack(b)
  BY <1>0, TouchStack
<1>2. ASSUME NEW u
      PROVE  /\ MustVector(w) /\ n \in 0 .. Assoc
             /\ MustAge(w, u) = IF u = t THEN 0 ELSE IF MustAge(v, u) < n THEN MustAge(v, u) + 1
                                ELSE MustAge(v, u)
  <2>1. hit => t \in TagsOf(v) \/ Len(v) < Assoc
    OBVIOUS
  <2> QED  BY <1>0, <2>1, MustUpdateAges
<1>3. /\ MayState(r)
      /\ \A u \in Nat : MinAge(r, u) = IF u = t THEN 0 ELSE AgesWith(MinAge(s, u), MinAge(s, t))
  BY <1>0, MayUpdateAges
<1>4. n \in 0 .. Assoc /\ n \in Nat /\ n <= Assoc
  BY <1>0, <1>2
<1>5. t \in TagsOf(v) <=> MustAge(v, t) < Assoc
  BY <1>0, MustAges
<1>6. n = IF t \in TagsOf(v) THEN MustAge(v, t) ELSE IF hit THEN Assoc - 1 ELSE Assoc
  BY DEF AccessedAge
<1> HIDE DEF b, w, r, n
<1>7. \A u \in Nat \ Tags : MustAge(w, u) = Assoc
  <2> TAKE u \in Nat \ Tags
  <2>1. MustAge(v, u) = Assoc /\ u # t
    BY <1>0
  <2>2. ~ (MustAge(v, u) < n)
    BY <1>0, <1>4, <2>1
  <2> QED  BY <1>2, <2>1, <2>2
<1>8. Tags \subseteq Nat
  BY TagsAssumption
<1>9. MustTouched(w, v, t, n)
  BY <1>2 DEF MustTouched
<1>10. ASSUME isShared PROVE Explained(b, w)
  <2>1. Good(TRUE, a, v, s)
    BY <1>10
  <2>2. n < Assoc - 1 => n = MustAge(v, t)
    <3>1. t \notin TagsOf(v) => n = Assoc - 1 \/ n = Assoc
      BY <1>6
    <3> QED  BY <1>0, <1>4, <1>6, <3>1
  <2>4. Explained(Touch(a, t), w)
    BY <1>0, <1>4, <1>9, <2>1, <2>2, AccessExplained
  <2> QED  BY <2>4 DEF b
<1>11. ASSUME ~ isShared PROVE Between(b, w, r)
  <2>1. Good(FALSE, a, v, s)
    BY <1>11
  <2>2. Enclosed(Lines, a, v, s)
    BY <2>1, GoodIsEnclosed
  <2>3. Enclosed(Lines, Touched(Lines, a, t), MustUpdate(v, t, hit), MayUpdate(s, t))
    BY <2>2, EnclosedAccess
  <2>4. Touch(a, t) = Touched(Lines, a, t)
    BY DEF Touch, Touched
  <2> QED  BY <2>3, <2>4 DEF Enclosed, b, w, r
<1> QED  BY <1>1, <1>2, <1>3, <1>7, <1>10, <1>11 DEF Good, b, w, r

\* An access of another core to the shared set.
LEMMA GoodForeign ==
  ASSUME NEW a, NEW v, NEW s, Good(TRUE, a, v, s), NEW f \in Foreign
  PROVE  Good(TRUE, Touch(a, f), v, s)
<1>1. a \in [Lines -> 0 .. Assoc] /\ LruStack(a) /\ f \in Lines
  BY DEF Good, Lines
<1>2. Touch(a, f) \in [Lines -> 0 .. Assoc] /\ LruStack(Touch(a, f))
  BY <1>1, TouchStack
<1>3. PICK pa \in [Tags -> 0 .. Assoc] :
        Explains(a, pa) /\ \A u \in Tags : MustAge(v, u) < Assoc - 1 => pa[u] <= MustAge(v, u)
  BY DEF Good, Explained
<1>4. Explains(Touch(a, f), pa)
  BY <1>1, <1>3, ForeignExplains
<1>5. Explained(Touch(a, f), v)
  BY <1>3, <1>4 DEF Explained
<1> QED  BY <1>2, <1>5 DEF Good

\* An access to one of the tags from low to high, or to another set.
LEMMA GoodPotential ==
  ASSUME NEW isShared \in BOOLEAN, NEW a, NEW v, NEW s, Good(isShared, a, v, s),
         NEW low \in Tags, NEW high \in Tags, low <= high,
         NEW b, b = a \/ \E t \in Tags \cap low .. high : b = Touch(a, t)
  PROVE  Good(isShared, b, MustPotentialUpdate(v), MayPotentialUpdate(s, low, high))
<1> DEFINE w == MustPotentialUpdate(v)
           r == MayPotentialUpdate(s, low, high)
<1>0. /\ Assoc \in Nat \ {0} /\ a \in [Lines -> 0 .. Assoc] /\ LruStack(a) /\ Tags \subseteq Lines
      /\ low \in Nat /\ high \in Nat
      /\ MustVector(v) /\ MayState(s) /\ \A u \in Nat \ Tags : MustAge(v, u) = Assoc
  BY TagsAssumption, AssocAssumption DEF Good, Lines
<1>1. ASSUME NEW u
      PROVE  /\ MustVector(w)
             /\ MustAge(w, u) = IF MustAge(v, u) < Assoc THEN MustAge(v, u) + 1 ELSE MustAge(v, u)
  BY <1>0, MustPotentialUpdateAges
<1>2. /\ MayState(r)
      /\ \A u \in Nat : MinAge(r, u) =
           IF s.implicit = 0 \/ high - low + 1 > MaxWorthwhileTags \/ u \in low .. high
           THEN 0 ELSE MinAge(s, u)
  BY <1>0, MayPotentialUpdateAges
<1> HIDE DEF w, r
<1>3. /\ b \in [Lines -> 0 .. Assoc] /\ LruStack(b)
      /\ b = a \/ \E t \in Tags \cap low .. high : \A u \in Lines :
           b[u] = IF u = t THEN 0 ELSE IF a[u] < a[t] THEN a[u] + 1 ELSE a[u]
  <2>1. CASE b = a
    BY <1>0, <2>1
  <2>2. CASE \E t \in Tags \cap low .. high : b = Touch(a, t)
    <3>1. PICK t \in Tags \cap low .. high : b = Touch(a, t)
      BY <2>2
    <3>2. t \in Lines
      BY <1>0
    <3>3. /\ b \in [Lines -> 0 .. Assoc] /\ LruStack(b)
          /\ \A u \in Lines : b[u] = IF u = t THEN 0 ELSE IF a[u] < a[t] THEN a[u] + 1 ELSE a[u]
      BY <1>0, <3>1, <3>2, TouchStack
    <3> QED  BY <3>3
  <2> QED  BY <2>1, <2>2
<1>4. \A u \in Nat \ Tags : MustAge(w, u) = Assoc
  BY <1>0, <1>1
<1>5. ASSUME isShared PROVE Explained(b, w)
  <2>0. Good(TRUE, a, v, s)
    BY <1>5
  <2>1. PICK pa \in [Tags -> 0 .. Assoc] :
          Explains(a, pa) /\ \A u \in Tags : MustAge(v, u) < Assoc - 1 => pa[u] <= MustAge(v, u)
    BY <2>0 DEF Good, Explained
  <2>2. \E pb : /\ Explains(b, pb)
                /\ \A u \in Tags : pb[u] \in {0, pa[u], pa[u] + 1}
    <3>1. CASE b = a
      BY <2>1, <3>1
    <3>2. CASE \E t \in Tags \cap low .. high : b = Touch(a, t)
      <4>1. PICK t \in Tags \cap low .. high : b = Touch(a, t)
        BY <3>2
      <4>2. Explains(b, Touched(Tags, pa, t))
        BY <1>0, <2>1, <4>1, TouchExplains
      <4>3. \A u \in Tags : Touched(Tags, pa, t)[u] \in {0, pa[u], pa[u] + 1}
        BY DEF Touched
      <4> QED  BY <4>2, <4>3
    <3> QED  BY <3>1, <3>2
  <2>3. PICK pb : Explains(b, pb) /\ \A u \in Tags : pb[u] \in {0, pa[u], pa[u] + 1}
    BY <2>2
  <2>4. ASSUME NEW u \in Tags, MustAge(w, u) < Assoc - 1 PROVE pb[u] <= MustAge(w, u)
    <3>1. MustAge(v, u) \in Nat /\ MustAge(v, u) <= Assoc
      BY <2>0, GoodNumbers
    <3>2. pa[u] \in Nat
      BY <1>0, <2>1
    <3>3. MustAge(w, u) = MustAge(v, u) + 1 /\ MustAge(v, u) < Assoc - 1
      BY <1>0, <1>1, <2>4, <3>1
    <3>4. pa[u] <= MustAge(v, u) /\ pb[u] \in {0, pa[u], pa[u] + 1}
      BY <2>1, <2>3, <3>3
    <3> QED  BY <3>1, <3>2, <3>3, <3>4
  <2>5. pb \in [Tags -> 0 .. Assoc]
    BY <2>3 DEF Explains
  <2> QED  BY <2>3, <2>4, <2>5 DEF Explained
<1>6. ASSUME ~ isShared PROVE Between(b, w, r)
  <2>1. Good(FALSE, a, v, s)
    BY <1>6
  <2>2. Enclosed(Lines, a, v, s)
    BY <2>1, GoodIsEnclosed
  <2>3. b = a \/ \E t \in Tags \cap low .. high : b = Touched(Lines, a, t)
    BY DEF Touch, Touched
  <2>4. Enclosed(Lines, b, MustPotentialUpdate(v), MayPotentialUpdate(s, low, high))
    BY <2>2, <2>3, EnclosedPotential
  <2> QED  BY <2>4 DEF Enclosed, w, r
<1> QED  BY <1>1, <1>2, <1>3, <1>4, <1>5, <1>6 DEF Good, w, r

\* A join stands for the ages of either path.
LEMMA GoodJoin ==
  ASSUME NEW isShared \in BOOLEAN, NEW a, NEW v, NEW s, Good(isShared, a, v, s),
         NEW b, NEW w, NEW r, Good(isShared, b, w, r),
         NEW c \in {a, b}
  PROVE  Good(isShared, c, MustJoin(v, w), MayJoin(s, r))
<1> DEFINE j == MustJoin(v, w)
           i == MayJoin(s, r)
<1>0. /\ Assoc \in Nat \ {0} /\ MustVector(v) /\ MayState(s) /\ MustVector(w) /\ MayState(r)
      /\ \A u \in Nat \ Tags : MustAge(v, u) = Assoc /\ MustAge(w, u) = Assoc
      /\ c \in [Lines -> 0 .. Assoc] /\ LruStack(c)
  BY AssocAssumption DEF Good
<1>1. /\ MustVector(j)
      /\ \A u : MustAge(j, u) = IF MustAge(v, u) < MustAge(w, u) THEN MustAge(w, u) ELSE MustAge(v, u)
  BY <1>0, MustJoinAges
<1>2. /\ MayState(i)
      /\ \A u : MinAge(i, u) = IF MinAge(s, u) <= MinAge(r, u) THEN MinAge(s, u) ELSE MinAge(r, u)
  BY <1>0, MayJoinAges
<1> HIDE DEF i, j
<1>3. ASSUME NEW u \in Tags
      PROVE  /\ MustAge(v, u) \in Nat /\ MustAge(w, u) \in Nat
             /\ MustAge(v, u) <= MustAge(j, u) /\ MustAge(w, u) <= MustAge(j, u)
             /\ MinAge(s, u) \in Nat /\ MinAge(r, u) \in Nat
             /\ MinAge(i, u) <= MinAge(s, u) /\ MinAge(i, u) <= MinAge(r, u)
             /\ a[u] \in Nat /\ b[u] \in Nat /\ MustAge(j, u) \in Nat /\ MinAge(i, u) \in Nat
  <2>1. /\ MustAge(v, u) \in Nat /\ MustAge(w, u) \in Nat /\ a[u] \in Nat /\ b[u] \in Nat
        /\ MinAge(s, u) \in Nat /\ MinAge(r, u) \in Nat
    BY GoodNumbers
  <2> QED  BY <1>1, <1>2, <2>1
<1>4. \A u \in Nat \ Tags : MustAge(j, u) = Assoc
  BY <1>0, <1>1
<1>5. ASSUME isShared PROVE Explained(c, j)
  <2>1. ASSUME NEW d, NEW x, Explained(d, x), \A u \in Tags : MustAge(x, u) \in Nat /\ MustAge(j, u) \in Nat
                                                /\ MustAge(x, u) <= MustAge(j, u)
        PROVE  Explained(d, j)
    <3>1. PICK pa \in [Tags -> 0 .. Assoc] :
            Explains(d, pa) /\ \A u \in Tags : MustAge(x, u) < Assoc - 1 => pa[u] <= MustAge(x, u)
      BY <2>1 DEF Explained
    <3>2. ASSUME NEW u \in Tags, MustAge(j, u) < Assoc - 1 PROVE pa[u] <= MustAge(j, u)
      <4>1. MustAge(x, u) \in Nat /\ MustAge(j, u) \in Nat /\ MustAge(x, u) <= MustAge(j, u)
        BY <2>1
      <4>2. pa[u] \in Nat
        BY <1>0
      <4>3. pa[u] <= MustAge(x, u)
        BY <1>0, <3>1, <3>2, <4>1
      <4> QED  BY <4>1, <4>2, <4>3
    <3> QED  BY <3>1, <3>2 DEF Explained
  <2>2. Explained(a, v) /\ Explained(b, w)
    BY <1>5 DEF Good
  <2> QED  BY <1>3, <2>1, <2>2
<1>6. ASSUME ~ isShared PROVE Between(c, j, i)
  <2>1. Good(FALSE, a, v, s) /\ Good(FALSE, b, w, r)
    BY <1>6
  <2>2. Enclosed(Lines, a, v, s) /\ Enclosed(Lines, b, w, r)
    BY <2>1, GoodIsEnclosed
  <2>3. Enclosed(Lines, c, MustJoin(v, w), MayJoin(s, r))
    BY <2>2, EnclosedJoin
  <2> QED  BY <2>3 DEF Enclosed, i, j
<1> QED  BY <1>0, <1>1, <1>2, <1>4, <1>5, <1>6 DEF Good, i, j

\* The unknown set.
LEMMA GoodInit ==
  ASSUME NEW isShared \in BOOLEAN, NEW a \in [Lines -> 0 .. Assoc], LruStack(a)
  PROVE  Good(isShared, a, MustInit, MayInit(FALSE))
<1>1. Assoc \in Nat \ {0} /\ Tags \subseteq Lines /\ Distinct(Lines, a)
  BY AssocAssumption DEF Lines, LruStack, Distinct
<1>2. Enclosed(Lines, a, MustInit, MayInit(FALSE))
  BY <1>1, EnclosedInit
<1>3. Explained(a, MustInit)
  <2> DEFINE pa == [t \in Tags |-> Assoc]
  <2>1. pa \in [Tags -> 0 .. Assoc] /\ \A t \in Tags : ~ (pa[t] < Assoc)
    BY <1>1
  <2> HIDE DEF pa
  <2>2. Explains(a, pa)
    BY <2>1 DEF Explains, Distinct
  <2>3. \A u \in Tags : ~ (MustAge(MustInit, u) < Assoc - 1)
    BY <1>1, UnknownAges
  <2> QED  BY <2>1, <2>2, <2>3 DEF Explained
<1> QED  BY <1>2, <1>3 DEF Good, Enclosed

-----------------------------------------------------------------------------
\* The inductive invariant.

\* The inductive invariant.
IInv ==
  /\ shared \in BOOLEAN
  /\ age = [p \in Paths |-> age[p]]
  /\ analysis1 = [p \in Paths |-> analysis1[p]] /\ analysis2 = [p \in Paths |-> analysis2[p]]
  /\ \A p \in Paths : Good(shared, age[p], analysis1[p], analysis2[p])

\* The exploration starts from the unknown set.
LEMMA InitIInv == Init => IInv
<1> SUFFICES ASSUME Init PROVE IInv
  OBVIOUS
<1>1. shared \in BOOLEAN
  BY DEF Init
<1>2. /\ age \in [Paths -> {a \in [Lines -> 0 .. Assoc] : LruStack(a)}]
      /\ analysis1 = [p \in Paths |-> MustInit] /\ analysis2 = [p \in Paths |-> MayInit(FALSE)]
  BY DEF Init
<1>3. /\ age = [p \in Paths |-> age[p]]
      /\ analysis1 = [p \in Paths |-> analysis1[p]] /\ analysis2 = [p \in Paths |-> analysis2[p]]
  BY <1>2
<1>4. ASSUME NEW p \in Paths PROVE Good(shared, age[p], analysis1[p], analysis2[p])
  <2>1. age[p] \in [Lines -> 0 .. Assoc] /\ LruStack(age[p])
    BY <1>2
  <2>2. analysis1[p] = MustInit /\ analysis2[p] = MayInit(FALSE)
    BY <1>2
  <2>3. Good(shared, age[p], MustInit, MayInit(FALSE))
    BY <1>1, <2>1, GoodInit
  <2> QED  BY <2>2, <2>3
<1> QED  BY <1>1, <1>3, <1>4 DEF IInv

\* A step changes one path.
LEMMA OnePathSteps ==
  ASSUME IInv, NEW p \in Paths, NEW a, NEW v, NEW s, Good(shared, a, v, s), shared' = shared,
         age' = [age EXCEPT ![p] = a],
         analysis1' = [analysis1 EXCEPT ![p] = v], analysis2' = [analysis2 EXCEPT ![p] = s]
  PROVE  IInv'
<1>1. \A q \in Paths : /\ age'[q] = IF q = p THEN a ELSE age[q]
                       /\ analysis1'[q] = IF q = p THEN v ELSE analysis1[q]
                       /\ analysis2'[q] = IF q = p THEN s ELSE analysis2[q]
  BY DEF IInv
<1>2. /\ age' = [q \in Paths |-> age'[q]]
      /\ analysis1' = [q \in Paths |-> analysis1'[q]] /\ analysis2' = [q \in Paths |-> analysis2'[q]]
  BY DEF IInv
<1>3. \A q \in Paths : Good(shared, age'[q], analysis1'[q], analysis2'[q])
  BY <1>1 DEF IInv
<1>4. shared' \in BOOLEAN
  BY DEF IInv
<1> QED  BY <1>2, <1>3, <1>4 DEF IInv

\* The case a path follows on an access: a hit is assumed of a line whose must bound says
\* so, or with room for it, and then the line is in the set.
LEMMA AssumedHit ==
  ASSUME IInv, NEW p \in Paths, NEW t \in Tags, NEW assumption \in {"UNKNOWN", "HIT", "MISS"},
         Access(p, t, assumption)
  PROVE  \E hit \in BOOLEAN :
           /\ hit => \/ t \in TagsOf(analysis1[p])
                     \/ Len(analysis1[p]) < Assoc /\ age[p][t] < Assoc
           /\ analysis1' = [analysis1 EXCEPT ![p] = MustUpdate(analysis1[p], t, hit)]
<1> DEFINE v == analysis1[p]
           cl == IF assumption = "UNKNOWN" THEN Classify(p, t) ELSE assumption
           hit == cl = "HIT"
<1>1. analysis1' = [analysis1 EXCEPT ![p] = MustUpdate(v, t, hit)] /\ hit \in BOOLEAN
  BY DEF Access
<1>2. MustVector(v) /\ Assoc \in Nat
  BY AssocAssumption DEF IInv, Good
<1>3. Len(v) \in Nat /\ Len(v) <= Assoc
  <2> HIDE DEF v
  <2> QED  BY <1>2, MustVectorFits, VectorEntries DEF MustVector
<1>4. Classify(p, t) = "HIT" => t \in TagsOf(v)
  BY DEF Classify, MustClassify, MayClassify
<1>5. ASSUME hit PROVE t \in TagsOf(v) \/ (Len(v) < Assoc /\ age[p][t] < Assoc)
  <2>1. CASE Classify(p, t) = "HIT"
    BY <1>4, <2>1
  <2>2. CASE Classify(p, t) # "HIT"
    <3>1. assumption = "HIT" /\ age[p][t] < Assoc /\ Classify(p, t) = "UNKNOWN"
      BY <1>5, <2>2 DEF Access
    <3>2. t \in TagsOf(v) \/ Len(v) # Assoc
      BY <3>1 DEF Classify, MustClassify
    <3> HIDE DEF v
    <3> QED  BY <1>2, <1>3, <3>1, <3>2
  <2> QED  BY <2>1, <2>2
<1> HIDE DEF hit
<1> QED  BY <1>1, <1>5

\* An access keeps the invariant ...
LEMMA AccessIInv ==
  ASSUME IInv, NEW p \in Paths, NEW t \in Tags, NEW assumption \in {"UNKNOWN", "HIT", "MISS"},
         Access(p, t, assumption), shared' = shared
  PROVE  IInv'
<1>1. PICK hit \in BOOLEAN :
        /\ hit => \/ t \in TagsOf(analysis1[p])
                  \/ Len(analysis1[p]) < Assoc /\ age[p][t] < Assoc
        /\ analysis1' = [analysis1 EXCEPT ![p] = MustUpdate(analysis1[p], t, hit)]
  BY AssumedHit
<1> DEFINE a == Touch(age[p], t)
           v == MustUpdate(analysis1[p], t, hit)
           s == MayUpdate(analysis2[p], t)
<1>2. /\ age' = [age EXCEPT ![p] = a] /\ analysis1' = [analysis1 EXCEPT ![p] = v]
      /\ analysis2' = [analysis2 EXCEPT ![p] = s]
  BY <1>1 DEF Access
<1>3. Good(shared, age[p], analysis1[p], analysis2[p]) /\ shared \in BOOLEAN
  BY DEF IInv
<1>4. Good(shared, a, v, s)
  BY <1>1, <1>3, GoodAccess
<1> HIDE DEF a, v, s
<1> QED  BY <1>2, <1>4, OnePathSteps

\* ... and so does one to an unknown address, ...
LEMMA PotentialAccessIInv ==
  ASSUME IInv, NEW p \in Paths, NEW low \in Tags, NEW high \in Tags,
         PotentialAccess(p, low, high), shared' = shared
  PROVE  IInv'
<1> DEFINE v == MustPotentialUpdate(analysis1[p])
           s == MayPotentialUpdate(analysis2[p], low, high)
<1>1. low <= high /\ analysis1' = [analysis1 EXCEPT ![p] = v] /\ analysis2' = [analysis2 EXCEPT ![p] = s]
  BY DEF PotentialAccess
<1>2. PICK b : /\ b = age[p] \/ \E t \in Tags \cap low .. high : b = Touch(age[p], t)
               /\ age' = [age EXCEPT ![p] = b]
  <2>1. CASE UNCHANGED age
    <3>1. age' = [age EXCEPT ![p] = age[p]]
      BY <2>1 DEF IInv
    <3> QED  BY <3>1
  <2>2. CASE \E t \in Tags \cap low .. high : age' = [age EXCEPT ![p] = Touch(@, t)]
    BY <2>2
  <2> QED  BY <2>1, <2>2 DEF PotentialAccess
<1>3. Good(shared, age[p], analysis1[p], analysis2[p]) /\ shared \in BOOLEAN
  BY DEF IInv
<1>4. Good(shared, b, v, s)
  BY <1>1, <1>2, <1>3, GoodPotential
<1> HIDE DEF v, s
<1> QED  BY <1>1, <1>2, <1>4, OnePathSteps

\* ... a join of two paths ...
LEMMA JoinIInv ==
  ASSUME IInv, NEW p \in Paths, NEW q \in Paths, Join(p, q), shared' = shared
  PROVE  IInv'
<1> DEFINE v == MustJoin(analysis1[p], analysis1[q])
           s == MayJoin(analysis2[p], analysis2[q])
<1>1. PICK r \in {p, q} : age' = [age EXCEPT ![p] = age[r]]
  BY DEF Join
<1>2. analysis1' = [analysis1 EXCEPT ![p] = v] /\ analysis2' = [analysis2 EXCEPT ![p] = s]
  BY DEF Join
<1>3. /\ shared \in BOOLEAN
      /\ Good(shared, age[p], analysis1[p], analysis2[p])
      /\ Good(shared, age[q], analysis1[q], analysis2[q])
  BY DEF IInv
<1>4. age[r] \in {age[p], age[q]}
  OBVIOUS
<1>5. Good(shared, age[r], v, s)
  BY <1>3, <1>4, GoodJoin
<1> HIDE DEF v, s
<1> QED  BY <1>1, <1>2, <1>5, OnePathSteps

\* ... and an access of another core to the shared set.
LEMMA ForeignAccessIInv ==
  ASSUME IInv, NEW p \in Paths, NEW f \in Foreign, ForeignAccess(p, f), shared' = shared
  PROVE  IInv'
<1> DEFINE a == Touch(age[p], f)
<1>1. shared = TRUE /\ Good(shared, age[p], analysis1[p], analysis2[p])
  BY DEF IInv, ForeignAccess
<1>2. Good(TRUE, a, analysis1[p], analysis2[p])
  BY <1>1, GoodForeign
<1>3. /\ age' = [age EXCEPT ![p] = a]
      /\ analysis1' = [analysis1 EXCEPT ![p] = analysis1[p]]
      /\ analysis2' = [analysis2 EXCEPT ![p] = analysis2[p]]
  BY DEF IInv, ForeignAccess
<1> HIDE DEF a
<1> QED  BY <1>1, <1>2, <1>3, OnePathSteps

\* Every step keeps the invariant.
LEMMA StepIInv == IInv /\ [Next]_vars => IInv'
<1> SUFFICES ASSUME IInv, [Next]_vars PROVE IInv'
  OBVIOUS
<1>1. ASSUME NEW p \in Paths, NEW t \in Tags, NEW assumption \in {"UNKNOWN", "HIT", "MISS"},
             Access(p, t, assumption), shared' = shared
      PROVE  IInv'
  BY <1>1, AccessIInv
<1>2. ASSUME NEW p \in Paths, NEW low \in Tags, NEW high \in Tags,
             PotentialAccess(p, low, high), shared' = shared
      PROVE  IInv'
  BY <1>2, PotentialAccessIInv
<1>3. ASSUME NEW p \in Paths, NEW q \in Paths, Join(p, q), shared' = shared PROVE IInv'
  BY <1>3, JoinIInv
<1>4. ASSUME NEW p \in Paths, NEW f \in Foreign, ForeignAccess(p, f), shared' = shared PROVE IInv'
  BY <1>4, ForeignAccessIInv
<1>5. CASE UNCHANGED vars
  BY <1>5 DEF IInv, vars
<1>6. CASE Next
  BY <1>6, <1>1, <1>2, <1>3, <1>4 DEF Next
<1> QED  BY <1>5, <1>6

\* On every path, the ages, the must vector and the may state stay as Good says.
THEOREM AlwaysIInv == Spec => []IInv
BY InitIInv, StepIInv, PTL DEF Spec

-----------------------------------------------------------------------------
\* What the runs check.

\* The vectors keep the documented order, by age and then by tag, and hold a tag once; the
\* must vector holds no more lines than the set; the concrete set is an LRU stack: whatever
\* accesses, splits, joins and accesses of other cores led there.
THEOREM TypeCorrect == Spec => []TypeOK
<1>1. IInv => TypeOK
  <2> SUFFICES ASSUME IInv PROVE TypeOK
    OBVIOUS
  <2>1. \A p \in Paths : Good(shared, age[p], analysis1[p], analysis2[p])
    BY DEF IInv
  <2>2. age \in [Paths -> {a \in [Lines -> 0 .. Assoc] : LruStack(a)}]
    <3>1. \A p \in Paths : age[p] \in {a \in [Lines -> 0 .. Assoc] : LruStack(a)}
      BY <2>1 DEF Good
    <3>2. age = [p \in Paths |-> age[p]]
      BY DEF IInv
    <3> QED  BY <3>1, <3>2
  <2>3. ASSUME NEW v, Vector(v) PROVE Canonical(v) /\ Cardinality(TagsOf(v)) = Len(v)
    <3>1. DOMAIN v = 1 .. Len(v) /\ \A i, j \in 1 .. Len(v) : i < j => Precedes(v[i], v[j])
      BY <2>3, VectorEntries
    <3>2. Cardinality(TagsOf(v)) = Len(v)
      BY <2>3, TagsCount
    <3> QED  BY <3>1, <3>2 DEF Canonical
  <2>4. ASSUME NEW p \in Paths
        PROVE  /\ Len(analysis1[p]) <= Assoc /\ analysis2[p].implicit \in 0 .. Assoc
               /\ \A v \in {analysis1[p], analysis2[p].explicit} :
                    Canonical(v) /\ Cardinality(TagsOf(v)) = Len(v)
    <3>1. MustVector(analysis1[p]) /\ MayState(analysis2[p])
      BY <2>1 DEF Good
    <3>2. Vector(analysis1[p]) /\ Vector(analysis2[p].explicit)
          /\ analysis2[p].implicit \in 0 .. Assoc
      BY <3>1 DEF MustVector, MayState
    <3> QED  BY <2>3, <3>1, <3>2, MustVectorFits
  <2> QED  BY <2>2, <2>4 DEF TypeOK
<1> QED  BY <1>1, AlwaysIInv, PTL

\* classify() says CL_HIT only of a line that is in the set, also while other cores put lines
\* of theirs into it.
LEMMA HitsAreCached == IInv => HitIsCached
<1> SUFFICES ASSUME IInv, NEW p \in Paths, NEW t \in Tags,
                    shared => CNN(t) > 0, Classify(p, t) = "HIT"
             PROVE  age[p][t] < Assoc
  BY DEF HitIsCached
<1> DEFINE a == age[p]
           v == analysis1[p]
           s == analysis2[p]
<1>1. shared \in BOOLEAN /\ Good(shared, a, v, s)
  BY DEF IInv
<1>2. MustAge(v, t) + CNN(t) < Assoc
  <2>1. MustClassify(v, t, CNN(t)) = "HIT"
    BY DEF Classify, MayClassify
  <2>2. ~ (MustAge(v, t) + CNN(t) >= Assoc)
    BY <2>1 DEF MustClassify
  <2>3. CNN(t) \in Nat
    <3>1. IsFiniteSet(Foreign \ {t})
      BY ForeignAssumption, FS_Subset
    <3> QED  BY <3>1, FS_CardinalityType DEF CNN
  <2>4. MustAge(v, t) \in Nat /\ Assoc \in Nat
    BY <1>1, GoodNumbers
  <2> HIDE DEF v
  <2> QED  BY <2>2, <2>3, <2>4
<1> HIDE DEF v, s
<1>3. a[t] \in Nat /\ MustAge(v, t) \in Nat /\ Assoc \in Nat
  BY <1>1, GoodNumbers
<1>4. CASE ~ shared
  <2>1. CNN(t) = 0
    BY <1>4 DEF CNN
  <2>2. a[t] <= MustAge(v, t)
    BY <1>1, <1>4 DEF Good, Between
  <2> QED  BY <1>2, <1>3, <2>1, <2>2
<1>5. CASE shared
  <2>0. CNN(t) = Cardinality(Foreign \ {t}) /\ CNN(t) > 0 /\ CNN(t) \in Nat
    <3>1. IsFiniteSet(Foreign \ {t})
      BY ForeignAssumption, FS_Subset
    <3> QED  BY <1>5, <3>1, FS_CardinalityType DEF CNN
  <2>1. PICK pa \in [Tags -> 0 .. Assoc] :
          Explains(a, pa) /\ \A u \in Tags : MustAge(v, u) < Assoc - 1 => pa[u] <= MustAge(v, u)
    BY <1>1, <1>5 DEF Good, Explained
  <2>2. MustAge(v, t) < Assoc - 1
    BY <1>2, <1>3, <2>0
  <2>3. pa[t] \in Nat /\ pa[t] <= MustAge(v, t) /\ pa[t] < Assoc
    <3>1. pa[t] \in 0 .. Assoc
      BY <2>1
    <3> QED  BY <1>3, <2>1, <2>2, <3>1
  <2>4. a \in [Lines -> 0 .. Assoc] /\ LruStack(a)
    BY <1>1 DEF Good
  <2>5. a[t] <= pa[t] + CNN(t)
    BY <2>0, <2>1, <2>3, <2>4, AgeInSharedSet
  <2> QED  BY <1>2, <1>3, <2>0, <2>3, <2>5
<1> QED  BY <1>4, <1>5

\* classify() says CL_MISS of a set of the program alone only if the line is not in the set.
LEMMA MissesAreNotCached == IInv /\ ~ shared => MissIsNotCached
<1> SUFFICES ASSUME IInv, ~ shared, NEW p \in Paths, NEW t \in Tags, Classify(p, t) = "MISS"
             PROVE  age[p][t] = Assoc
  BY DEF MissIsNotCached
<1>1. Good(FALSE, age[p], analysis1[p], analysis2[p]) /\ CNN(t) = 0
  BY DEF IInv, CNN
<1>2. MustClassify(analysis1[p], t, 0) = "MISS" \/ MayClassify(analysis2[p], t, 0) = "MISS"
  BY <1>1 DEF Classify
<1> QED  BY <1>1, <1>2, GoodIsEnclosed, EnclosedMiss

\* What classify() says of a line is true in every set the path may stand for.
THEOREM ClassificationIsSound == Spec => []ClassificationSound
<1>1. IInv => ClassificationSound
  BY HitsAreCached, MissesAreNotCached DEF ClassificationSound
<1> QED  BY <1>1, AlwaysIInv, PTL

\* The greater and the lesser of two numbers.
LEMMA OfTwo ==
  ASSUME NEW m \in Nat, NEW n \in Nat
  PROVE  /\ Max({m, n}) = IF m <= n THEN n ELSE m
         /\ Min({m, n}) = IF m <= n THEN m ELSE n
<1>1. m \in Int /\ n \in Int
  OBVIOUS
<1> DEFINE x == Max({m, n})
           y == Min({m, n})
<1>2. x \in Int /\ m <= x /\ n <= x /\ (x = m \/ x = n)
  BY <1>1, MaxOfTwo
<1>3. y \in Int /\ y <= m /\ y <= n /\ (y = m \/ y = n)
  BY <1>1, MinOfTwo
<1> HIDE DEF x, y
<1>4. x = (IF m <= n THEN n ELSE m) /\ y = (IF m <= n THEN m ELSE n)
  BY <1>1, <1>2, <1>3
<1> QED  BY <1>4 DEF x, y

\* The join gives every line the weaker of its two bounds, whichever state is joined into the
\* other, and lessequal() agrees that it stands for both.
THEOREM JoinIsALeastUpperBound == Spec => []JoinIsLeastUpperBound
<1>1. IInv => JoinIsLeastUpperBound
  <2> SUFFICES ASSUME IInv, NEW p \in Paths, NEW q \in Paths \ {p}
               PROVE  LET must == MustJoin(analysis1[p], analysis1[q])
                          may == MayJoin(analysis2[p], analysis2[q])
                      IN  /\ must = MustJoin(analysis1[q], analysis1[p])
                          /\ may = MayJoin(analysis2[q], analysis2[p])
                          /\ MustLessEqual(analysis1[p], must)
                          /\ MayLessEqual(analysis2[p], may)
                          /\ \A t \in Tags :
                               /\ MustAge(must, t) = Max({MustAge(analysis1[p], t),
                                                          MustAge(analysis1[q], t)})
                               /\ MinAge(may, t) = Min({MinAge(analysis2[p], t),
                                                        MinAge(analysis2[q], t)})
    BY DEF JoinIsLeastUpperBound
  <2> DEFINE v == analysis1[p]
             w == analysis1[q]
             s == analysis2[p]
             r == analysis2[q]
             must == MustJoin(v, w)
             may == MayJoin(s, r)
  <2>1. MustVector(v) /\ MustVector(w) /\ MayState(s) /\ MayState(r)
    BY DEF IInv, Good
  <2> HIDE DEF v, w, s, r
  <2>2. /\ MustVector(must)
        /\ \A u : MustAge(must, u) = IF MustAge(v, u) < MustAge(w, u) THEN MustAge(w, u) ELSE MustAge(v, u)
    BY <2>1, MustJoinAges
  <2>3. /\ MayState(may) /\ may.implicit = Lowest(s, r)
        /\ \A u : MinAge(may, u) = IF MinAge(s, u) <= MinAge(r, u) THEN MinAge(s, u) ELSE MinAge(r, u)
    BY <2>1, MayJoinAges
  <2>4. must = MustJoin(w, v) /\ may = MayJoin(r, s)
    BY <2>1, MustJoinCommutes, MayJoinCommutes
  <2> HIDE DEF must, may
  <2>5. ASSUME NEW u
        PROVE  /\ MustAge(v, u) \in Nat /\ MustAge(w, u) \in Nat
               /\ MinAge(s, u) \in Nat /\ MinAge(r, u) \in Nat
    <3>1. /\ MustAge(v, u) \in 0 .. Assoc /\ MustAge(w, u) \in 0 .. Assoc
          /\ MinAge(s, u) \in 0 .. Assoc /\ MinAge(r, u) \in 0 .. Assoc
      BY <2>1, MustAges, MayAges
    <3> QED  BY <3>1, AssocAssumption
  <2>6. s.implicit \in Nat /\ r.implicit \in Nat
    <3>1. s.implicit \in 0 .. Assoc /\ r.implicit \in 0 .. Assoc
      BY <2>1 DEF MayState
    <3> QED  BY <3>1, AssocAssumption
  <2>7. MustLessEqual(v, must)
    <3>1. \A u \in Nat : MustAge(v, u) <= MustAge(must, u)
      BY <2>2, <2>5
    <3> QED  BY <2>1, <2>2, <3>1, MustLessEqualAges
  <2>8. MayLessEqual(s, may)
    <3>1. \A u \in Nat : MinAge(may, u) <= MinAge(s, u)
      BY <2>3, <2>5
    <3>2. may.implicit <= s.implicit
      BY <2>3, <2>6 DEF Lowest
    <3> QED  BY <2>1, <2>3, <3>1, <3>2, MayLessEqualAges
  <2>9. ASSUME NEW t \in Tags
        PROVE  /\ MustAge(must, t) = Max({MustAge(v, t), MustAge(w, t)})
               /\ MinAge(may, t) = Min({MinAge(s, t), MinAge(r, t)})
    <3> DEFINE m == MustAge(v, t)
               n == MustAge(w, t)
               i == MinAge(s, t)
               j == MinAge(r, t)
    <3>1. /\ m \in Nat /\ n \in Nat /\ i \in Nat /\ j \in Nat
          /\ MustAge(must, t) = (IF m < n THEN n ELSE m)
          /\ MinAge(may, t) = (IF i <= j THEN i ELSE j)
      BY <2>2, <2>3, <2>5
    <3> HIDE DEF m, n, i, j
    <3>2. Max({m, n}) = IF m <= n THEN n ELSE m
      BY <3>1, OfTwo
    <3>3. Min({i, j}) = IF i <= j THEN i ELSE j
      BY <3>1, OfTwo
    <3>4. MustAge(must, t) = Max({m, n})
      BY <3>1, <3>2
    <3>5. MinAge(may, t) = Min({i, j})
      BY <3>1, <3>3
    <3> QED  BY <3>4, <3>5 DEF m, n, i, j
  <2> QED  BY <2>4, <2>7, <2>8, <2>9 DEF must, may, v, w, s, r
<1> QED  BY <1>1, AlwaysIInv, PTL

\* The same access keeps the order of two states of the exploration.
THEOREM UpdatesAreMonotone == Spec => []UpdateIsMonotone
<1>1. IInv => UpdateIsMonotone
  <2> SUFFICES ASSUME IInv, NEW p \in Paths, NEW q \in Paths \ {p}, NEW t \in Tags
               PROVE  /\ MustLessEqual(analysis1[p], analysis1[q]) =>
                           \A hit \in BOOLEAN :
                             (hit => \A r \in {p, q} : MustClassify(analysis1[r], t, 0) # "MISS") =>
                               MustLessEqual(MustUpdate(analysis1[p], t, hit),
                                             MustUpdate(analysis1[q], t, hit))
                      /\ MayLessEqual(analysis2[p], analysis2[q]) =>
                           MayLessEqual(MayUpdate(analysis2[p], t), MayUpdate(analysis2[q], t))
    BY DEF UpdateIsMonotone
  <2>1. /\ MustVector(analysis1[p]) /\ MustVector(analysis1[q])
        /\ MayState(analysis2[p]) /\ MayState(analysis2[q]) /\ t \in Nat
    BY TagsAssumption DEF IInv, Good
  <2>2. ASSUME NEW v, MustVector(v), MustClassify(v, t, 0) # "MISS"
        PROVE  t \in TagsOf(v) \/ Len(v) < Assoc
    <3>1. Len(v) \in Nat /\ Len(v) <= Assoc /\ Assoc \in Nat
      BY <2>2, MustVectorFits, AssocAssumption DEF MustVector, Vector
    <3>2. t \in TagsOf(v) \/ Len(v) # Assoc
      BY <2>2 DEF MustClassify
    <3> QED  BY <3>1, <3>2
  <2>3. ASSUME MustLessEqual(analysis1[p], analysis1[q]), NEW hit \in BOOLEAN,
               hit => \A r \in {p, q} : MustClassify(analysis1[r], t, 0) # "MISS"
        PROVE  MustLessEqual(MustUpdate(analysis1[p], t, hit), MustUpdate(analysis1[q], t, hit))
    <3>1. \A z \in {analysis1[p], analysis1[q]} : hit => t \in TagsOf(z) \/ Len(z) < Assoc
      BY <2>1, <2>2, <2>3
    <3> QED  BY <2>1, <2>3, <3>1, MustUpdateIsMonotone
  <2> QED  BY <2>1, <2>3, MayUpdateIsMonotone
<1> QED  BY <1>1, AlwaysIInv, PTL

-----------------------------------------------------------------------------
\* The refinement of AgeBounds.

\* What AgeBounds sees of the ages, of a must vector and of a may state.
AgesHeld(a) == [t \in Tags |-> a[t]]
MustBounds(v) == [t \in Tags |-> MustAge(v, t)]
MayBounds(s) == [t \in Tags |-> MinAge(s, t)]
AgesSeen(f) == [q \in Paths |-> AgesHeld(f[q])]
MustSeen(f) == [q \in Paths |-> MustBounds(f[q])]
MaySeen(f) == [q \in Paths |-> MayBounds(f[q])]

\* Nothing bounds an age at first.
LEMMA UnknownBounds ==
  \A t \in Tags : MustAge(MustInit, t) = Assoc /\ MinAge(MayInit(FALSE), t) = 0
<1> SUFFICES ASSUME NEW t \in Tags
             PROVE  MustAge(MustInit, t) = Assoc /\ MinAge(MayInit(FALSE), t) = 0
  OBVIOUS
<1> DEFINE a == [u \in Lines |-> Assoc]
           i == [explicit |-> << >>, implicit |-> 0]
<1>0. MayInit(FALSE) = i /\ i.implicit = 0 /\ Assoc \in Nat /\ t \in Lines
  BY AssocAssumption DEF MayInit, Lines
<1>1. a \in [Lines -> 0 .. Assoc] /\ LruStack(a) /\ a[t] = Assoc
  BY AssocAssumption DEF LruStack, Lines
<1> HIDE DEF a, i
<1>2. Good(FALSE, a, MustInit, i)
  <2>1. Good(FALSE, a, MustInit, MayInit(FALSE))
    BY <1>1, GoodInit
  <2> QED  BY <1>0, <2>1
<1>3. MustAge(MustInit, t) \in Nat /\ MustAge(MustInit, t) <= Assoc /\ a[t] <= MustAge(MustInit, t)
  BY <1>2, GoodNumbers DEF Good, Between
<1>4. MinAge(i, t) \in Nat /\ MinAge(i, t) <= 0
  <2>1. MayState(i)
    BY <1>2 DEF Good
  <2>2. MinAge(i, t) <= i.implicit
    BY <2>1, MayAges
  <2> QED  BY <1>0, <1>2, <2>2, GoodNumbers
<1>5. MustAge(MustInit, t) = Assoc /\ MinAge(i, t) = 0
  BY <1>0, <1>1, <1>3, <1>4
<1> QED  BY <1>0, <1>5

\* The first states are first states of AgeBounds.
LEMMA InitBounds == Init => Bounds!Init
<1> SUFFICES ASSUME Init PROVE Bounds!Init
  OBVIOUS
<1>1. age \in [Paths -> {a \in [Lines -> 0 .. Assoc] : LruStack(a)}] /\ Tags \subseteq Lines
  BY DEF Init, Lines
<1>2. analysis1 = [p \in Paths |-> MustInit] /\ analysis2 = [p \in Paths |-> MayInit(FALSE)]
  BY DEF Init
<1>3. [p \in Paths |-> [t \in Tags |-> MustAge(analysis1[p], t)]] =
      [p \in Paths |-> [t \in Tags |-> Assoc]]
  BY <1>2, UnknownBounds
<1>4. [p \in Paths |-> [t \in Tags |-> MinAge(analysis2[p], t)]] =
      [p \in Paths |-> [t \in Tags |-> 0]]
  BY <1>2, UnknownBounds
<1>5. [p \in Paths |-> [t \in Tags |-> age[p][t]]] \in
      [Paths -> {a \in Bounds!AgeMap : Bounds!DistinctLines(a)}]
  <2> SUFFICES ASSUME NEW p \in Paths
               PROVE  [t \in Tags |-> age[p][t]] \in Bounds!AgeMap
                      /\ Bounds!DistinctLines([t \in Tags |-> age[p][t]])
    OBVIOUS
  <2>1. age[p] \in [Lines -> 0 .. Assoc] /\ LruStack(age[p])
    BY <1>1
  <2>2. [t \in Tags |-> age[p][t]] \in Bounds!AgeMap
    BY <1>1, <2>1 DEF Bounds!AgeMap, Bounds!Ages
  <2>3. Bounds!DistinctLines([t \in Tags |-> age[p][t]])
    BY <1>1, <2>1 DEF LruStack, Bounds!DistinctLines
  <2> QED  BY <2>2, <2>3
<1> QED  BY <1>3, <1>4, <1>5 DEF Bounds!Init

\* A step of path p, which then has the ages a, the must vector v and the may state s.
PathSteps(p, a, v, s) ==
  /\ age' = [age EXCEPT ![p] = a]
  /\ analysis1' = [analysis1 EXCEPT ![p] = v] /\ analysis2' = [analysis2 EXCEPT ![p] = s]

\* How a step of one path looks to AgeBounds.
LEMMA OnePathSeen ==
  ASSUME IInv, NEW p \in Paths, NEW a, NEW v, NEW s, PathSteps(p, a, v, s)
  PROVE  /\ AgesSeen(age') = [AgesSeen(age) EXCEPT ![p] = AgesHeld(a)]
         /\ MustSeen(analysis1') = [MustSeen(analysis1) EXCEPT ![p] = MustBounds(v)]
         /\ MaySeen(analysis2') = [MaySeen(analysis2) EXCEPT ![p] = MayBounds(s)]
<1>1. \A q \in Paths : /\ age'[q] = IF q = p THEN a ELSE age[q]
                       /\ analysis1'[q] = IF q = p THEN v ELSE analysis1[q]
                       /\ analysis2'[q] = IF q = p THEN s ELSE analysis2[q]
  BY DEF IInv, PathSteps
<1>2. ASSUME NEW q \in Paths
      PROVE  /\ AgesHeld(age'[q]) = IF q = p THEN AgesHeld(a) ELSE AgesHeld(age[q])
             /\ MustBounds(analysis1'[q]) = IF q = p THEN MustBounds(v) ELSE MustBounds(analysis1[q])
             /\ MayBounds(analysis2'[q]) = IF q = p THEN MayBounds(s) ELSE MayBounds(analysis2[q])
  BY <1>1
<1> HIDE DEF AgesHeld, MustBounds, MayBounds
<1>3. AgesSeen(age') = [AgesSeen(age) EXCEPT ![p] = AgesHeld(a)]
  BY <1>2 DEF AgesSeen, MustSeen, MaySeen
<1>4. MustSeen(analysis1') = [MustSeen(analysis1) EXCEPT ![p] = MustBounds(v)]
  BY <1>2 DEF AgesSeen, MustSeen, MaySeen
<1>5. MaySeen(analysis2') = [MaySeen(analysis2) EXCEPT ![p] = MayBounds(s)]
  BY <1>2 DEF AgesSeen, MustSeen, MaySeen
<1> QED  BY <1>3, <1>4, <1>5

\* An access, to AgeBounds.
LEMMA AccessSeen ==
  ASSUME NEW a \in [Lines -> 0 .. Assoc], NEW v, MustVector(v), NEW s, MayState(s),
         NEW t \in Tags, NEW hit \in BOOLEAN, hit => t \in TagsOf(v) \/ Len(v) < Assoc
  PROVE  /\ AgesHeld(Touch(a, t)) = Bounds!Touch(AgesHeld(a), t)
         /\ MustBounds(MustUpdate(v, t, hit)) =
              Bounds!TouchMax(MustBounds(v), t, Bounds!HitBound(MustBounds(v), t, hit))
         /\ MayBounds(MayUpdate(s, t)) = Bounds!TouchMin(MayBounds(s), t)
<1> DEFINE w == MustUpdate(v, t, hit)
           r == MayUpdate(s, t)
           n == AccessedAge(v, t, hit)
<1>0. Tags \subseteq Nat /\ Tags \subseteq Lines /\ t \in Nat /\ Assoc \in Nat \ {0}
  BY TagsAssumption, AssocAssumption DEF Lines
<1>1. AgesHeld(Touch(a, t)) = Bounds!Touch(AgesHeld(a), t)
  BY <1>0 DEF AgesHeld, Touch, Bounds!Touch
<1>2. \A u \in Tags :
        MustAge(w, u) = IF u = t THEN 0 ELSE IF MustAge(v, u) < n THEN MustAge(v, u) + 1
                        ELSE MustAge(v, u)
  BY <1>0, MustUpdateAges
<1>3. /\ n = IF t \in TagsOf(v) THEN MustAge(v, t) ELSE IF hit THEN Assoc - 1 ELSE Assoc
      /\ n \in Nat /\ n <= Assoc
      /\ t \in TagsOf(v) <=> MustAge(v, t) < Assoc
  <2>1. n \in 0 .. Assoc
    BY <1>0, MustUpdateAges
  <2> QED  BY <1>0, <2>1, MustAges DEF AccessedAge
<1>4. \A u \in Tags : MinAge(r, u) = IF u = t THEN 0 ELSE AgesWith(MinAge(s, u), MinAge(s, t))
  BY <1>0, MayUpdateAges
<1> HIDE DEF w, r, n
<1>5. \A u \in Tags : MustAge(v, u) \in Nat /\ MustAge(v, u) <= Assoc
                      /\ MinAge(s, u) \in Nat /\ MinAge(s, u) <= Assoc
  <2> TAKE u \in Tags
  <2>1. MustAge(v, u) \in 0 .. Assoc /\ MinAge(s, u) \in 0 .. Assoc
    BY MustAges, MayAges
  <2> QED  BY <1>0, <2>1
<1>6. Bounds!HitBound(MustBounds(v), t, hit) = n
  <2>1. MustBounds(v)[t] = MustAge(v, t)
    BY DEF MustBounds
  <2>2. CASE hit
    BY <1>0, <1>3, <1>5, <2>1, <2>2 DEF Bounds!HitBound, Bounds!LesserOf
  <2>3. CASE ~ hit
    BY <1>0, <1>3, <1>5, <2>1, <2>3 DEF Bounds!HitBound
  <2> QED  BY <2>2, <2>3
<1>7. MustBounds(w) = Bounds!TouchMax(MustBounds(v), t, n)
  <2>1. \A u \in Tags : MustBounds(w)[u] = Bounds!TouchMax(MustBounds(v), t, n)[u]
    BY <1>0, <1>2, <1>3, <1>5 DEF MustBounds, Bounds!TouchMax, Bounds!Older
  <2> QED  BY <2>1 DEF MustBounds, Bounds!TouchMax
<1>8. MayBounds(r) = Bounds!TouchMin(MayBounds(s), t)
  <2>1. \A u \in Tags : MayBounds(r)[u] = Bounds!TouchMin(MayBounds(s), t)[u]
    BY <1>0, <1>4, <1>5 DEF MayBounds, Bounds!TouchMin, Bounds!Older, AgesWith
  <2> QED  BY <2>1 DEF MayBounds, Bounds!TouchMin
<1> QED  BY <1>1, <1>6, <1>7, <1>8 DEF w, r

\* While the other cores leave the set alone, an access is one of AgeBounds.
LEMMA AccessBounds ==
  ASSUME IInv, ~ shared, NEW p \in Paths, NEW t \in Tags,
         NEW assumption \in {"UNKNOWN", "HIT", "MISS"}, Access(p, t, assumption)
  PROVE  \E hit \in BOOLEAN : Bounds!Access(p, t, hit)
<1>1. PICK hit \in BOOLEAN :
        /\ hit => \/ t \in TagsOf(analysis1[p])
                  \/ Len(analysis1[p]) < Assoc /\ age[p][t] < Assoc
        /\ analysis1' = [analysis1 EXCEPT ![p] = MustUpdate(analysis1[p], t, hit)]
  BY AssumedHit
<1> DEFINE a == age[p]
           v == analysis1[p]
           s == analysis2[p]
           b == Touch(a, t)
           w == MustUpdate(v, t, hit)
           r == MayUpdate(s, t)
<1>2. /\ age' = [age EXCEPT ![p] = Touch(a, t)] /\ analysis2' = [analysis2 EXCEPT ![p] = MayUpdate(s, t)]
      /\ analysis1' = [analysis1 EXCEPT ![p] = MustUpdate(v, t, hit)]
  BY <1>1 DEF Access
<1>3. Good(FALSE, a, v, s)
  BY DEF IInv
<1>4. a \in [Lines -> 0 .. Assoc] /\ MustVector(v) /\ MayState(s)
  BY <1>3 DEF Good
<1>5. hit => a[t] < Assoc
  <2>1. ASSUME t \in TagsOf(v) PROVE a[t] < Assoc
    <3>1. MustAge(v, t) < Assoc /\ a[t] <= MustAge(v, t)
      BY <1>3, <1>4, <2>1, MustAges DEF Good, Between
    <3>2. a[t] \in Nat /\ MustAge(v, t) \in Nat /\ Assoc \in Nat
      BY <1>3, GoodNumbers
    <3> QED  BY <3>1, <3>2
  <2> QED  BY <1>1, <2>1
<1>6. /\ AgesSeen(age') = [AgesSeen(age) EXCEPT ![p] = AgesHeld(b)]
      /\ MustSeen(analysis1') = [MustSeen(analysis1) EXCEPT ![p] = MustBounds(w)]
      /\ MaySeen(analysis2') = [MaySeen(analysis2) EXCEPT ![p] = MayBounds(r)]
  <2>1. PathSteps(p, b, w, r)
    BY <1>2 DEF PathSteps
  <2> HIDE DEF b, w, r
  <2> QED  BY <2>1, OnePathSeen
<1>7. /\ AgesHeld(Touch(a, t)) = Bounds!Touch(AgesHeld(a), t)
      /\ MustBounds(MustUpdate(v, t, hit)) =
           Bounds!TouchMax(MustBounds(v), t, Bounds!HitBound(MustBounds(v), t, hit))
      /\ MayBounds(MayUpdate(s, t)) = Bounds!TouchMin(MayBounds(s), t)
  <2>1. hit => t \in TagsOf(v) \/ Len(v) < Assoc
    BY <1>1
  <2> HIDE DEF a, v, s
  <2> QED  BY <1>4, <2>1, AccessSeen
<1>8. /\ hit => AgesSeen(age)[p][t] < Assoc
      /\ AgesSeen(age') = [AgesSeen(age) EXCEPT ![p] = Bounds!Touch(@, t)]
      /\ MustSeen(analysis1') = [MustSeen(analysis1)
              EXCEPT ![p] = Bounds!TouchMax(@, t, Bounds!HitBound(@, t, hit))]
      /\ MaySeen(analysis2') = [MaySeen(analysis2) EXCEPT ![p] = Bounds!TouchMin(@, t)]
  <2>1. hit => AgesSeen(age)[p][t] < Assoc
    BY <1>5 DEF AgesHeld, AgesSeen
  <2>2. AgesSeen(age)[p] = AgesHeld(a) /\ MustSeen(analysis1)[p] = MustBounds(v)
        /\ MaySeen(analysis2)[p] = MayBounds(s)
    BY DEF AgesSeen, MustSeen, MaySeen
  <2> QED  BY <1>6, <1>7, <2>1, <2>2
<1>9. Bounds!Access(p, t, hit)
  BY <1>8 DEF Bounds!Access, AgesSeen, MustSeen, MaySeen, AgesHeld, MustBounds, MayBounds
<1> QED  BY <1>9

\* While the other cores leave the set alone, an access to an unknown address is one of
\* AgeBounds, and may be to any tag when there are too many to insert.
LEMMA PotentialAccessBounds ==
  ASSUME IInv, ~ shared, NEW p \in Paths, NEW low \in Tags, NEW high \in Tags,
         PotentialAccess(p, low, high)
  PROVE  \E S \in SUBSET Tags : Bounds!PotentialAccess(p, S)
<1> DEFINE v == analysis1[p]
           s == analysis2[p]
           w == MustPotentialUpdate(v)
           r == MayPotentialUpdate(s, low, high)
           S == IF high - low + 1 > MaxWorthwhileTags THEN Tags ELSE Tags \cap low .. high
<1>1. low <= high /\ low \in Nat /\ high \in Nat /\ Tags \subseteq Nat /\ Tags \subseteq Lines
      /\ Assoc \in Nat \ {0}
  BY TagsAssumption, AssocAssumption DEF PotentialAccess, Lines
<1>2. Good(FALSE, age[p], v, s)
  BY DEF IInv
<1>3. age[p] \in [Lines -> 0 .. Assoc] /\ MustVector(v) /\ MayState(s)
  BY <1>2 DEF Good
<1>4. PICK b : /\ b = age[p] \/ \E t \in Tags \cap low .. high : b = Touch(age[p], t)
               /\ PathSteps(p, b, w, r)
  <2>1. PICK c : /\ c = age[p] \/ \E t \in Tags \cap low .. high : c = Touch(age[p], t)
                 /\ age' = [age EXCEPT ![p] = c]
    <3>1. CASE UNCHANGED age
      <4>1. age' = [age EXCEPT ![p] = age[p]]
        BY <3>1 DEF IInv
      <4> QED  BY <4>1
    <3>2. CASE \E t \in Tags \cap low .. high : age' = [age EXCEPT ![p] = Touch(@, t)]
      BY <3>2
    <3> QED  BY <3>1, <3>2 DEF PotentialAccess
  <2>2. PathSteps(p, c, w, r)
    BY <2>1 DEF PotentialAccess, PathSteps
  <2> HIDE DEF w, r
  <2> QED  BY <2>1, <2>2
<1>5. /\ AgesSeen(age') = [AgesSeen(age) EXCEPT ![p] = AgesHeld(b)]
      /\ MustSeen(analysis1') = [MustSeen(analysis1) EXCEPT ![p] = MustBounds(w)]
      /\ MaySeen(analysis2') = [MaySeen(analysis2) EXCEPT ![p] = MayBounds(r)]
  <2> HIDE DEF w, r
  <2> QED  BY <1>4, OnePathSeen
<1>6. ASSUME NEW u \in Tags
      PROVE  /\ MustAge(w, u) = IF MustAge(v, u) < Assoc THEN MustAge(v, u) + 1 ELSE MustAge(v, u)
             /\ MinAge(r, u) = IF u \in S THEN 0 ELSE MinAge(s, u)
  <2>1. MustAge(w, u) = IF MustAge(v, u) < Assoc THEN MustAge(v, u) + 1 ELSE MustAge(v, u)
    BY <1>3, MustPotentialUpdateAges
  <2>2. MinAge(r, u) = IF s.implicit = 0 \/ high - low + 1 > MaxWorthwhileTags \/ u \in low .. high
                       THEN 0 ELSE MinAge(s, u)
    <3>1. u \in Nat
      BY <1>1
    <3>2. \A x \in Nat : MinAge(r, x) = IF \/ s.implicit = 0 \/ high - low + 1 > MaxWorthwhileTags
                                             \/ x \in low .. high
                                          THEN 0 ELSE MinAge(s, x)
      <4> HIDE DEF s, v, w, S
      <4> QED  BY <1>1, <1>3, MayPotentialUpdateAges
    <3> HIDE DEF S, r
    <3> QED  BY <3>1, <3>2
  <2>3. s.implicit = 0 => MinAge(s, u) = 0
    <3>1. MinAge(s, u) \in Nat /\ MinAge(s, u) <= s.implicit
      BY <1>2, <1>3, MayAges, GoodNumbers
    <3> HIDE DEF s, S
    <3> QED  BY <3>1
  <2>4. u \in S <=> high - low + 1 > MaxWorthwhileTags \/ u \in low .. high
    OBVIOUS
  <2> HIDE DEF w, r, S, v, s
  <2> QED  BY <2>1, <2>2, <2>3, <2>4
<1>7. /\ MustBounds(w) = [t \in Tags |-> Bounds!Older(MustBounds(v)[t])]
      /\ MayBounds(r) = [t \in Tags |-> IF t \in S THEN 0 ELSE MayBounds(s)[t]]
  <2> HIDE DEF w, r, S, v, s
  <2> QED  BY <1>6 DEF MustBounds, MayBounds, Bounds!Older
<1>8. \/ \E t \in S : AgesSeen(age') = [AgesSeen(age) EXCEPT ![p] = Bounds!Touch(@, t)]
      \/ AgesSeen(age') = AgesSeen(age)
  <2>1. CASE b = age[p]
    <3>1. AgesSeen(age)[p] = AgesHeld(age[p]) /\ AgesSeen(age) = [q \in Paths |-> AgesSeen(age)[q]]
      BY DEF AgesSeen
    <3>2. AgesSeen(age') = AgesSeen(age)
      BY <1>5, <2>1, <3>1
    <3> QED  BY <3>2
  <2>2. CASE \E t \in Tags \cap low .. high : b = Touch(age[p], t)
    <3>1. PICK t \in Tags \cap low .. high : b = Touch(age[p], t)
      BY <2>2
    <3>2. AgesHeld(b) = Bounds!Touch(AgesHeld(age[p]), t)
      BY <1>1, <1>3, <3>1 DEF AgesHeld, Touch, Bounds!Touch
    <3>3. AgesSeen(age)[p] = AgesHeld(age[p])
      BY DEF AgesSeen
    <3>4. t \in S
      BY <3>1
    <3>5. AgesSeen(age') = [AgesSeen(age) EXCEPT ![p] = Bounds!Touch(@, t)]
      BY <1>5, <3>2, <3>3
    <3> HIDE DEF S
    <3> QED  BY <3>4, <3>5
  <2> QED  BY <1>4, <2>1, <2>2
<1>9. /\ MustSeen(analysis1') = [MustSeen(analysis1) EXCEPT ![p] = [t \in Tags |-> Bounds!Older(@[t])]]
      /\ MaySeen(analysis2') = [MaySeen(analysis2) EXCEPT ![p] =
                                  [t \in Tags |-> IF t \in S THEN 0 ELSE @[t]]]
  <2>1. MustSeen(analysis1)[p] = MustBounds(v) /\ MaySeen(analysis2)[p] = MayBounds(s)
    BY DEF MustSeen, MaySeen
  <2> HIDE DEF w, r, S, v, s
  <2> QED  BY <1>5, <1>7, <2>1
<1>10. S \in SUBSET Tags
  OBVIOUS
<1> HIDE DEF S
<1>11. Bounds!PotentialAccess(p, S)
  BY <1>8, <1>9 DEF Bounds!PotentialAccess, AgesSeen, MustSeen, MaySeen, AgesHeld, MustBounds,
                    MayBounds
<1> QED  BY <1>10, <1>11

\* While the other cores leave the set alone, a join is one of AgeBounds.
LEMMA JoinBounds ==
  ASSUME IInv, ~ shared, NEW p \in Paths, NEW q \in Paths, Join(p, q)
  PROVE  Bounds!Join(p, q)
<1> DEFINE v == MustJoin(analysis1[p], analysis1[q])
           s == MayJoin(analysis2[p], analysis2[q])
<1>1. PICK r \in {p, q} : PathSteps(p, age[r], v, s)
  BY DEF Join, PathSteps
<1>2. /\ AgesSeen(age') = [AgesSeen(age) EXCEPT ![p] = AgesHeld(age[r])]
      /\ MustSeen(analysis1') = [MustSeen(analysis1) EXCEPT ![p] = MustBounds(v)]
      /\ MaySeen(analysis2') = [MaySeen(analysis2) EXCEPT ![p] = MayBounds(s)]
  <2> HIDE DEF v, s
  <2> QED  BY <1>1, OnePathSeen
<1>3. /\ MustVector(analysis1[p]) /\ MustVector(analysis1[q])
      /\ MayState(analysis2[p]) /\ MayState(analysis2[q])
  BY DEF IInv, Good
<1>4. \A t \in Tags : MustAge(v, t) = IF MustAge(analysis1[p], t) < MustAge(analysis1[q], t)
                                      THEN MustAge(analysis1[q], t) ELSE MustAge(analysis1[p], t)
  BY <1>3, MustJoinAges
<1>5. \A t \in Tags : MinAge(s, t) = IF MinAge(analysis2[p], t) <= MinAge(analysis2[q], t)
                                     THEN MinAge(analysis2[p], t) ELSE MinAge(analysis2[q], t)
  BY <1>3, MayJoinAges
<1> HIDE DEF v, s
<1>6. \A t \in Tags : MustAge(analysis1[p], t) \in Nat /\ MustAge(analysis1[q], t) \in Nat
  <2>1. \A x : x \in 0 .. Assoc => x \in Nat
    BY AssocAssumption
  <2> QED  BY <1>3, <2>1, MustAges
<1>7. /\ MustBounds(v) = [t \in Tags |-> Bounds!GreaterOf(MustBounds(analysis1[p])[t],
                                                          MustBounds(analysis1[q])[t])]
      /\ MayBounds(s) = [t \in Tags |-> Bounds!LesserOf(MayBounds(analysis2[p])[t],
                                                        MayBounds(analysis2[q])[t])]
  <2>1. \A t \in Tags : MustAge(v, t) = Bounds!GreaterOf(MustAge(analysis1[p], t),
                                                         MustAge(analysis1[q], t))
    BY <1>4, <1>6 DEF Bounds!GreaterOf
  <2>2. \A t \in Tags : MinAge(s, t) = Bounds!LesserOf(MinAge(analysis2[p], t),
                                                       MinAge(analysis2[q], t))
    BY <1>5 DEF Bounds!LesserOf
  <2> QED  BY <2>1, <2>2 DEF MustBounds, MayBounds
<1>8. /\ \A x \in Paths : /\ AgesSeen(age)[x] = AgesHeld(age[x])
                          /\ MustSeen(analysis1)[x] = MustBounds(analysis1[x])
                          /\ MaySeen(analysis2)[x] = MayBounds(analysis2[x])
  BY DEF AgesSeen, MustSeen, MaySeen
<1>9. AgesSeen(age') = [AgesSeen(age) EXCEPT ![p] = AgesSeen(age)[r]]
  BY <1>2, <1>8
<1>10. MustSeen(analysis1') = [MustSeen(analysis1) EXCEPT ![p] =
         [t \in Tags |-> Bounds!GreaterOf(@[t], MustSeen(analysis1)[q][t])]]
  BY <1>2, <1>7, <1>8
<1>11. MaySeen(analysis2') = [MaySeen(analysis2) EXCEPT ![p] =
         [t \in Tags |-> Bounds!LesserOf(@[t], MaySeen(analysis2)[q][t])]]
  BY <1>2, <1>7, <1>8
<1> QED  BY <1>9, <1>10, <1>11 DEF Bounds!Join, AgesSeen, MustSeen, MaySeen, AgesHeld, MustBounds,
                                   MayBounds

\* A step is one of AgeBounds, unless the other cores use the set too.
LEMMA StepBounds ==
  IInv /\ [Next]_vars => [shared \/ [Bounds!Next]_(Bounds!vars)]_vars
<1> SUFFICES ASSUME IInv, Next, ~ shared PROVE Bounds!Next
  OBVIOUS
<1>1. ASSUME NEW p \in Paths, NEW t \in Tags, NEW assumption \in {"UNKNOWN", "HIT", "MISS"},
             Access(p, t, assumption)
      PROVE  Bounds!Next
  BY <1>1, AccessBounds DEF Bounds!Next
<1>2. ASSUME NEW p \in Paths, NEW low \in Tags, NEW high \in Tags, PotentialAccess(p, low, high)
      PROVE  Bounds!Next
  BY <1>2, PotentialAccessBounds DEF Bounds!Next
<1>3. ASSUME NEW p \in Paths, NEW q \in Paths, Join(p, q) PROVE Bounds!Next
  BY <1>3, JoinBounds DEF Bounds!Next
<1>4. ASSUME NEW p \in Paths, NEW f \in Foreign, ForeignAccess(p, f) PROVE FALSE
  BY <1>4 DEF ForeignAccess
<1> QED  BY <1>1, <1>2, <1>3, <1>4 DEF Next

\* The vectors implement the age bounds of AgeBounds while the other cores leave the set
\* alone: what holds of the bounds holds of update(), potentialUpdate() and join().
THEOREM VectorsImplementBounds == Spec => BoundsSpec
<1>1. Init => shared \/ Bounds!Init
  BY InitBounds
<1> QED  BY <1>1, AlwaysIInv, StepBounds, PTL DEF Spec, BoundsSpec
=============================================================================
