--------------------------- MODULE AgeBoundsProofs ---------------------------
(***************************************************************************)
(* Theorems about AgeBounds for every set of tags, every associativity and *)
(* every set of paths.                                                     *)
(*                                                                         *)
(* Sound is not inductive alone: the may analysis ages a line whose lower  *)
(* bound equals that of the accessed line, which is right only because two *)
(* lines of a set never have the same age.  The inductive invariant is     *)
(* TypeOK /\ Stack /\ Sound.                                               *)
(***************************************************************************)
EXTENDS AgeBounds, FiniteSetTheorems, TLAPS

IInv == TypeOK /\ Stack /\ Sound

-----------------------------------------------------------------------------
\* Types of the operators the actions are built from.

\* An LRU access maps age maps to age maps.
LEMMA TouchType ==
  ASSUME NEW a \in AgeMap, NEW t \in Tags
  PROVE  Touch(a, t) \in AgeMap
  BY AssocAssumption DEF AgeMap, Ages, Touch

\* The must update maps bounds to bounds, and an assumed hit only lowers the
\* bound of the accessed line.
LEMMA TouchMaxType ==
  ASSUME NEW m \in AgeMap, NEW t \in Tags, NEW hit \in BOOLEAN
  PROVE  /\ HitBound(m, t, hit) \in Ages
         /\ TouchMax(m, t, HitBound(m, t, hit)) \in AgeMap
<1>1. HitBound(m, t, hit) \in Ages
  BY AssocAssumption DEF AgeMap, Ages, HitBound, LesserOf
<1>2. \A u \in Tags : Older(m[u]) \in Ages
  BY AssocAssumption DEF AgeMap, Ages, Older
<1> QED  BY <1>1, <1>2, AssocAssumption DEF AgeMap, Ages, TouchMax

\* The may update maps bounds to bounds.
LEMMA TouchMinType ==
  ASSUME NEW m \in AgeMap, NEW t \in Tags
  PROVE  TouchMin(m, t) \in AgeMap
<1>1. \A u \in Tags : Older(m[u]) \in Ages
  BY AssocAssumption DEF AgeMap, Ages, Older
<1> QED  BY <1>1, AssocAssumption DEF AgeMap, Ages, TouchMin

-----------------------------------------------------------------------------
\* What one access does to the concrete set and to the bounds.

\* An access leaves every position of the LRU set taken at most once.
LEMMA TouchDistinct ==
  ASSUME NEW a \in AgeMap, NEW t \in Tags, DistinctLines(a)
  PROVE  DistinctLines(Touch(a, t))
<1> DEFINE b == Touch(a, t)
<1> SUFFICES ASSUME NEW u \in Tags, NEW v \in Tags
             PROVE  b[u] = b[v] /\ b[u] < Assoc => u = v
  BY DEF DistinctLines
<1>1. a[t] \in Ages /\ a[u] \in Ages /\ a[v] \in Ages
  BY DEF AgeMap
<1>2. b[u] = IF u = t THEN 0 ELSE IF a[u] < a[t] THEN a[u] + 1 ELSE a[u]
  BY DEF Touch
<1>3. b[v] = IF v = t THEN 0 ELSE IF a[v] < a[t] THEN a[v] + 1 ELSE a[v]
  BY DEF Touch
<1>4. /\ a[u] = a[v] /\ a[u] < Assoc => u = v
      /\ a[u] = a[t] /\ a[u] < Assoc => u = t
      /\ a[v] = a[t] /\ a[v] < Assoc => v = t
  BY DEF DistinctLines
<1> HIDE DEF b
<1> QED  BY <1>1, <1>2, <1>3, <1>4, AssocAssumption DEF Ages

\* The must update over-approximates the access, provided the bound it is
\* given for the accessed line is one.
LEMMA TouchMaxSound ==
  ASSUME NEW a \in AgeMap, NEW m \in AgeMap, NEW t \in Tags, NEW n \in Ages,
         \A u \in Tags : a[u] <= m[u],
         a[t] <= n
  PROVE  \A u \in Tags : Touch(a, t)[u] <= TouchMax(m, t, n)[u]
<1> TAKE u \in Tags
<1>1. a[u] \in Ages /\ a[t] \in Ages /\ m[u] \in Ages /\ a[u] <= m[u]
  BY DEF AgeMap
<1>2. Touch(a, t)[u] = IF u = t THEN 0 ELSE IF a[u] < a[t] THEN a[u] + 1 ELSE a[u]
  BY DEF Touch
<1>3. TouchMax(m, t, n)[u] = IF u = t THEN 0
                             ELSE IF m[u] < n THEN Older(m[u]) ELSE m[u]
  BY DEF TouchMax
<1> QED  BY <1>1, <1>2, <1>3, AssocAssumption DEF Ages, Older

\* The may update under-approximates the access; this is where the argument
\* needs that no two lines share an age.
LEMMA TouchMinSound ==
  ASSUME NEW a \in AgeMap, NEW m \in AgeMap, NEW t \in Tags, DistinctLines(a),
         \A u \in Tags : m[u] <= a[u]
  PROVE  \A u \in Tags : TouchMin(m, t)[u] <= Touch(a, t)[u]
<1> TAKE u \in Tags
<1>1. /\ a[u] \in Ages /\ a[t] \in Ages /\ m[u] \in Ages /\ m[t] \in Ages
      /\ m[u] <= a[u] /\ m[t] <= a[t]
  BY DEF AgeMap
<1>2. Touch(a, t)[u] = IF u = t THEN 0 ELSE IF a[u] < a[t] THEN a[u] + 1 ELSE a[u]
  BY DEF Touch
<1>3. TouchMin(m, t)[u] = IF u = t THEN 0
                          ELSE IF m[u] <= m[t] THEN Older(m[u]) ELSE m[u]
  BY DEF TouchMin
<1>4. a[u] = a[t] /\ a[u] < Assoc => u = t
  BY DEF DistinctLines
<1> QED  BY <1>1, <1>2, <1>3, <1>4, AssocAssumption DEF Ages, Older

-----------------------------------------------------------------------------
\* The inductive invariant.

\* An empty cache with unknown bounds.
LEMMA InitIInv == Init => IInv
<1> SUFFICES ASSUME Init PROVE IInv
  OBVIOUS
<1>1. TypeOK
  BY AssocAssumption DEF Init, TypeOK, AgeMap, Ages
<1>2. Stack
  BY <1>1, AssocAssumption DEF Init, TypeOK, Stack, DistinctLines, AgeMap, Ages
<1>3. Sound
  BY <1>1, AssocAssumption DEF Init, TypeOK, Sound, AgeMap, Ages
<1> QED  BY <1>1, <1>2, <1>3 DEF IInv

\* An access to a known address keeps the invariant: the lines that overtake
\* the accessed one grow older in the cache and in the must bound together, and
\* in the may bound only if they surely were younger.
LEMMA AccessIInv ==
  ASSUME IInv, NEW p \in Paths, NEW t \in Tags, NEW hit \in BOOLEAN,
         Access(p, t, hit)
  PROVE  IInv'
<1> DEFINE n == HitBound(maxAge[p], t, hit)
<1>1. age[p] \in AgeMap /\ maxAge[p] \in AgeMap /\ minAge[p] \in AgeMap
  BY DEF IInv, TypeOK
<1>2. age' = [age EXCEPT ![p] = Touch(age[p], t)]
  BY DEF Access
<1>3. maxAge' = [maxAge EXCEPT ![p] = TouchMax(maxAge[p], t, n)]
  BY DEF Access
<1>4. minAge' = [minAge EXCEPT ![p] = TouchMin(minAge[p], t)]
  BY DEF Access
<1>5. TypeOK'
  BY <1>1, <1>2, <1>3, <1>4, TouchType, TouchMaxType, TouchMinType
  DEF IInv, TypeOK
<1>6. Stack'
  BY <1>1, <1>2, TouchDistinct DEF IInv, TypeOK, Stack
<1>7. Sound'
  <2>1. \A u \in Tags : age[p][u] <= maxAge[p][u] /\ minAge[p][u] <= age[p][u]
    BY DEF IInv, Sound
  <2>2. n \in Ages /\ age[p][t] <= n
    BY <1>1, <2>1, TouchMaxType, AssocAssumption
    DEF Access, HitBound, LesserOf, AgeMap, Ages
  <2>3. \A u \in Tags : Touch(age[p], t)[u] <= TouchMax(maxAge[p], t, n)[u]
    <3> HIDE DEF n
    <3> QED  BY <1>1, <2>1, <2>2, TouchMaxSound
  <2>4. \A u \in Tags : TouchMin(minAge[p], t)[u] <= Touch(age[p], t)[u]
    BY <1>1, <2>1, TouchMinSound DEF IInv, Stack
  <2> QED  BY <1>2, <1>3, <1>4, <2>3, <2>4 DEF IInv, TypeOK, Sound
<1> QED  BY <1>5, <1>6, <1>7 DEF IInv

\* An access to an unknown address keeps the invariant, whichever of the
\* possible lines it is, or none of this set.
LEMMA PotentialAccessIInv ==
  ASSUME IInv, NEW p \in Paths, NEW S \in SUBSET Tags, PotentialAccess(p, S)
  PROVE  IInv'
<1> DEFINE older == [t \in Tags |-> Older(maxAge[p][t])]
           fresh == [t \in Tags |-> IF t \in S THEN 0 ELSE minAge[p][t]]
<1>1. age[p] \in AgeMap /\ maxAge[p] \in AgeMap /\ minAge[p] \in AgeMap
  BY DEF IInv, TypeOK
<1>2. maxAge' = [maxAge EXCEPT ![p] = older] /\ minAge' = [minAge EXCEPT ![p] = fresh]
  BY DEF PotentialAccess
<1>3. older \in AgeMap /\ fresh \in AgeMap
  BY <1>1, AssocAssumption DEF AgeMap, Ages, Older
<1>4. PICK new \in AgeMap :
        /\ age' = [age EXCEPT ![p] = new]
        /\ DistinctLines(new)
        /\ new = age[p] \/ \E t \in S : new = Touch(age[p], t)
  <2>1. CASE UNCHANGED age
    BY <1>1, <2>1 DEF IInv, TypeOK, Stack
  <2>2. CASE \E t \in S : age' = [age EXCEPT ![p] = Touch(age[p], t)]
    BY <1>1, <2>2, TouchType, TouchDistinct DEF IInv, Stack
  <2> QED  BY <2>1, <2>2 DEF PotentialAccess
<1>5. TypeOK' /\ Stack'
  BY <1>2, <1>3, <1>4 DEF IInv, TypeOK, Stack
<1>6. \A u \in Tags : fresh[u] <= new[u] /\ new[u] <= older[u]
  <2> TAKE u \in Tags
  <2>1. /\ age[p][u] \in Ages /\ maxAge[p][u] \in Ages /\ minAge[p][u] \in Ages
        /\ minAge[p][u] <= age[p][u] /\ age[p][u] <= maxAge[p][u]
    BY <1>1 DEF IInv, Sound, AgeMap
  <2>2. CASE new = age[p]
    BY <2>1, <2>2, AssocAssumption DEF Ages, Older
  <2>3. CASE \E t \in S : new = Touch(age[p], t)
    <3>1. PICK t \in S : new = Touch(age[p], t)
      BY <2>3
    <3>2. age[p][t] \in Ages
      BY <1>1 DEF AgeMap
    <3>3. new[u] = IF u = t THEN 0
                   ELSE IF age[p][u] < age[p][t] THEN age[p][u] + 1 ELSE age[p][u]
      BY <3>1 DEF Touch
    <3> QED  BY <2>1, <3>2, <3>3, AssocAssumption DEF Ages, Older
  <2> QED  BY <1>4, <2>2, <2>3
<1>7. Sound'
  <2> HIDE DEF older, fresh
  <2> QED  BY <1>2, <1>4, <1>6 DEF IInv, TypeOK, Sound
<1> QED  BY <1>5, <1>7 DEF IInv

\* A join keeps the invariant for the cache of either path.
LEMMA JoinIInv ==
  ASSUME IInv, NEW p \in Paths, NEW q \in Paths, Join(p, q)
  PROVE  IInv'
<1> DEFINE up == [t \in Tags |-> GreaterOf(maxAge[p][t], maxAge[q][t])]
           lo == [t \in Tags |-> LesserOf(minAge[p][t], minAge[q][t])]
<1>1. PICK r \in {p, q} : age' = [age EXCEPT ![p] = age[r]]
  BY DEF Join
<1>2. maxAge' = [maxAge EXCEPT ![p] = up] /\ minAge' = [minAge EXCEPT ![p] = lo]
  BY DEF Join
<1>3. up \in AgeMap /\ lo \in AgeMap
  BY DEF IInv, TypeOK, AgeMap, GreaterOf, LesserOf
<1>4. TypeOK' /\ Stack'
  BY <1>1, <1>2, <1>3 DEF IInv, TypeOK, Stack
<1>5. \A t \in Tags : lo[t] <= age[r][t] /\ age[r][t] <= up[t]
  <2> TAKE t \in Tags
  <2>1. /\ age[r][t] \in Ages
        /\ maxAge[p][t] \in Ages /\ maxAge[q][t] \in Ages
        /\ minAge[p][t] \in Ages /\ minAge[q][t] \in Ages
        /\ minAge[r][t] <= age[r][t] /\ age[r][t] <= maxAge[r][t]
    BY DEF IInv, TypeOK, Sound, AgeMap
  <2> QED  BY <1>1, <2>1 DEF Ages, GreaterOf, LesserOf
<1>6. Sound'
  <2> HIDE DEF up, lo
  <2> QED  BY <1>1, <1>2, <1>5 DEF IInv, TypeOK, Sound
<1> QED  BY <1>4, <1>6 DEF IInv

\* Every step keeps the invariant.
LEMMA StepIInv == IInv /\ [Next]_vars => IInv'
<1> SUFFICES ASSUME IInv, [Next]_vars PROVE IInv'
  OBVIOUS
<1>1. ASSUME NEW p \in Paths, NEW t \in Tags, NEW hit \in BOOLEAN, Access(p, t, hit)
      PROVE  IInv'
  BY <1>1, AccessIInv
<1>2. ASSUME NEW p \in Paths, NEW S \in SUBSET Tags, PotentialAccess(p, S)
      PROVE  IInv'
  BY <1>2, PotentialAccessIInv
<1>3. ASSUME NEW p \in Paths, NEW q \in Paths, Join(p, q)
      PROVE  IInv'
  BY <1>3, JoinIInv
<1>4. CASE UNCHANGED vars
  BY <1>4 DEF vars, IInv, TypeOK, Stack, Sound
<1> QED  BY <1>1, <1>2, <1>3, <1>4 DEF Next

\* The inductive invariant holds in every reachable state.
THEOREM AlwaysIInv == Spec => []IInv
BY InitIInv, StepIInv, PTL DEF Spec

-----------------------------------------------------------------------------
\* The bounds and the concrete ages stay in 0 .. Assoc on every path: the
\* element types of the vectors in both set analyses hold them.
THEOREM TypeCorrect == Spec => []TypeOK
<1>1. IInv => TypeOK
  BY DEF IInv
<1> QED  BY <1>1, AlwaysIInv, PTL

\* On every path, after any accesses, assumed hits, accesses to unknown
\* addresses and joins, the concrete age of a tag lies between the bound of
\* LruMinAgeAbstractCache and that of LruMaxAgeAbstractCache.
THEOREM SoundBounds == Spec => []Sound
<1>1. IInv => Sound
  BY DEF IInv
<1> QED  BY <1>1, AlwaysIInv, PTL

\* What classify() concludes from one bound is right on every path: a tag the
\* must analysis bounds below Assoc hits, one the may analysis bounds by Assoc
\* misses.
THEOREM ClassificationSound == Spec => [](HitSound /\ MissSound)
<1>1. IInv => HitSound /\ MissSound
  BY AssocAssumption DEF IInv, TypeOK, Sound, HitSound, MissSound, AgeMap, Ages
<1> QED  BY <1>1, AlwaysIInv, PTL

-----------------------------------------------------------------------------
\* A set of lines that are all cached fits into the set: their ages are
\* distinct positions below Assoc.
LEMMA CachedLinesFit ==
  ASSUME NEW a \in AgeMap, DistinctLines(a),
         NEW S \in SUBSET Tags, \A t \in S : a[t] < Assoc
  PROVE  IsFiniteSet(S) /\ Cardinality(S) <= Assoc
<1> DEFINE f == [t \in S |-> a[t]]
           W == 0 .. (Assoc - 1)
<1>1. f \in [S -> W]
  BY AssocAssumption DEF AgeMap, Ages
<1>2. \A t, u \in S : f[t] = f[u] => t = u
  BY DEF DistinctLines
<1>3. f \in Injection(S, W)
  BY <1>1, <1>2 DEF Injection, IsInjective
<1>4. IsFiniteSet(W) /\ Cardinality(W) = Assoc
  BY AssocAssumption, FS_Interval
<1> HIDE DEF f, W
<1> QED  BY <1>3, <1>4, FS_Injection

\* The must set never holds more tags than the set has ways, so the
\* assertions on size in LruMaxAgeAbstractCache::update cannot fail.
THEOREM MustSetFits == Spec => []MustFits
<1>1. IInv => MustFits
  <2> SUFFICES ASSUME IInv, NEW p \in Paths
               PROVE  Cardinality(MustTags(p)) <= Assoc
    BY DEF MustFits
  <2>1. age[p] \in AgeMap /\ DistinctLines(age[p])
    BY DEF IInv, TypeOK, Stack
  <2>2. MustTags(p) \in SUBSET Tags
    BY DEF MustTags
  <2>3. \A t \in MustTags(p) : age[p][t] < Assoc
    BY AssocAssumption DEF IInv, TypeOK, Sound, MustTags, AgeMap, Ages
  <2> QED  BY <2>1, <2>2, <2>3, CachedLinesFit
<1> QED  BY <1>1, AlwaysIInv, PTL

\* classify() may call a tag a miss when the must set is full without it.
THEOREM FullMustSetExcludes == Spec => []FullSetMisses
<1>1. IInv => FullSetMisses
  <2> SUFFICES ASSUME IInv, NEW p \in Paths, Cardinality(MustTags(p)) = Assoc,
                      NEW t \in Tags \ MustTags(p), age[p][t] # Assoc
               PROVE  FALSE
    BY DEF FullSetMisses
  <2> DEFINE S == MustTags(p)
             T == S \cup {t}
  <2>1. age[p] \in AgeMap /\ DistinctLines(age[p])
    BY DEF IInv, TypeOK, Stack
  <2>2. S \in SUBSET Tags /\ T \in SUBSET Tags /\ t \notin S
    BY DEF MustTags
  <2>3. \A u \in S : age[p][u] < Assoc
    BY AssocAssumption DEF IInv, TypeOK, Sound, MustTags, AgeMap, Ages
  <2>4. age[p][t] < Assoc
    BY <2>1, AssocAssumption DEF AgeMap, Ages
  <2> HIDE DEF S
  <2>5. IsFiniteSet(S) /\ Cardinality(T) <= Assoc
    BY <2>1, <2>2, <2>3, <2>4, CachedLinesFit
  <2>6. Cardinality(T) = Cardinality(S) + 1
    BY <2>2, <2>5, FS_AddElement
  <2>7. Cardinality(S) = Assoc
    BY DEF S
  <2> QED  BY <2>5, <2>6, <2>7, AssocAssumption
<1> QED  BY <1>1, AlwaysIInv, PTL
=============================================================================
