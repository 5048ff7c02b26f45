------------------------- MODULE ScopedCacheSetProofs -------------------------
(***************************************************************************)
(* Proofs about ScopedCacheSet, for every associativity, set of lines,     *)
(* arrays, scopes and configuration: that the persistence analyses count   *)
(* every conflict and charge a line with one miss per scope entry, and     *)
(* that the dirtiness analysis foresees every write-back.  The second half *)
(* rests on what AgeVectorProofs shows of the bounds on the ages.          *)
(***************************************************************************)
EXTENDS ScopedCacheSet, FiniteSums, AgeVectorProofs

\* The scopes that the followed path is in.
Entered == DOMAIN scopes2info[Followed]
Info(s, n) == scopes2info[Followed][s][n]

\* The lines of the other cores that get into the set.
Interfering == IF config.shared THEN Foreign ELSE {}

Younger(u) == {v \in Lines : age[v] < age[u]}

-----------------------------------------------------------------------------
SetWiseType == [top : BOOLEAN, blocks : SUBSET Tags, arrays : [Arrays -> Nat]]
IsElementWise(e) == e \in [DOMAIN e -> SetWiseType] /\ DOMAIN e \subseteq Tags

\* The conflict set is not greater than the set has ways; when arrays are counted
\* it may be.
Fits(s) == s.top \/ CSS(s) <= Assoc

\* What a path carries under configuration c.
InfoOK(info, c) ==
  \A s \in DOMAIN info :
    /\ DOMAIN info[s] = Analyses(c)
    /\ "SW" \in Analyses(c) =>
         /\ info[s]["SW"] \in SetWiseType
         /\ ~c.arrayAware => Fits(info[s]["SW"])
    /\ "ELE" \in Analyses(c) =>
         /\ IsElementWise(info[s]["ELE"])
         /\ ~c.arrayAware => \A u \in DOMAIN info[s]["ELE"] : Fits(info[s]["ELE"][u])

PathsOK ==
  /\ config \in Configs /\ apart \in Nat
  /\ DOMAIN dirt = IF apart = 0 THEN {Followed} ELSE Paths
  /\ DOMAIN scopes2info = DOMAIN dirt /\ DOMAIN scopes2entercount = DOMAIN dirt
  /\ \A p \in DOMAIN dirt : /\ DOMAIN scopes2info[p] = DOMAIN scopes2entercount[p]
                           /\ InfoOK(scopes2info[p], config)

ConcreteOK ==
  /\ age \in Ages
  /\ accessed \in [Entered -> SUBSET Tags]
  /\ misses \in [Entered -> [Addresses -> Nat]]

\* A line that was accessed in a scope is as old as there are lines that were
\* accessed after it, in the scope too or by another core.
AgesCounted ==
  \A s \in Entered : \A u \in accessed[s] :
    /\ Younger(u) \subseteq accessed[s] \cup Interfering
    /\ age[u] <= Cardinality(Younger(u))

\* The conflict set covers what was accessed: lines one by one, and of each array
\* no more than were counted.
Covers(info, lines) ==
  \E part \in [Arrays -> SUBSET Tags] :
    /\ \A a \in Arrays : part[a] \subseteq a /\ Cardinality(part[a]) <= info.arrays[a]
    /\ lines \subseteq info.blocks \cup UNION {part[a] : a \in Arrays}
AccessesCovered ==
  "SW" \in Analyses(config) =>
    \A s \in Entered : Info(s, "SW").top \/ Covers(Info(s, "SW"), accessed[s])

\* The conflict set of a line covers the lines that are younger.
YoungerCovered(e, u) ==
  /\ u \in DOMAIN e
  /\ e[u].top \/ (u \in e[u].blocks /\ Younger(u) \subseteq e[u].blocks \cup Interfering)

\* Each miss that an account holds was that of a line of its own.
ChargedLines(account, C) ==
  \E own \in [C -> Addresses] :
    /\ \A t \in C : t \in own[t]
    /\ \A x \in Addresses : account[x] = Cardinality({t \in C : own[t] = x})
LinesChargedOnce ==
  \A s \in Entered : \E C \in SUBSET accessed[s] :
    /\ ChargedLines(misses[s], C)
    /\ "ELE" \in Analyses(config) => \A u \in C : YoungerCovered(Info(s, "ELE"), u)

IInv ==
  /\ PathsOK /\ ConcreteOK /\ AgesCounted /\ AccessesCovered
  /\ CountsSoundly => LinesChargedOnce

-----------------------------------------------------------------------------
\* Whatever the constants are, the sets that are counted are finite.
LEMMA Finiteness ==
  /\ IsFiniteSet(Lines) /\ IsFiniteSet(Arrays) /\ IsFiniteSet(Addresses)
  /\ \A U \in SUBSET Lines : IsFiniteSet(U) /\ Cardinality(U) \in Nat
  /\ \A x \in Addresses \cup {{}} : x \subseteq Tags
  /\ CNN = Cardinality(Interfering) /\ Interfering \subseteq Lines
<1>1. IsFiniteSet(Lines)
  BY LinesAssumption, FS_Union DEF Lines
<1>2. IsFiniteSet(SUBSET Tags)
  BY LinesAssumption, FS_SUBSET
<1>3. Arrays \subseteq SUBSET Tags /\ Addresses \subseteq SUBSET Tags
  BY ArraysAssumption DEF Addresses
<1>4. IsFiniteSet(Arrays) /\ IsFiniteSet(Addresses)
  BY <1>2, <1>3, FS_Subset
<1>5. \A U \in SUBSET Lines : IsFiniteSet(U) /\ Cardinality(U) \in Nat
  BY <1>1, FS_Subset, FS_CardinalityType
<1>6. CNN = Cardinality(Interfering) /\ Interfering \subseteq Lines
  BY FS_EmptySet DEF CNN, Interfering, Lines
<1> QED  BY <1>1, <1>3, <1>4, <1>5, <1>6

\* A set of lines is finite and no subset of it is larger.
LEMMA SubsetCounts ==
  ASSUME NEW U \in SUBSET Lines, NEW V \in SUBSET U
  PROVE  /\ Cardinality(V) \in Nat /\ Cardinality(U) \in Nat
         /\ Cardinality(V) <= Cardinality(U)
<1>1. IsFiniteSet(U) /\ V \in SUBSET Lines
  BY Finiteness
<1> QED  BY <1>1, Finiteness, FS_Subset

\* A union of sets of lines has at most as many as both together.
LEMMA UnionCounts ==
  ASSUME NEW U \in SUBSET Lines, NEW V \in SUBSET Lines
  PROVE  /\ Cardinality(U \cup V) \in Nat
         /\ Cardinality(U \cup V) <= Cardinality(U) + Cardinality(V)
<1>1. Cardinality(U \cup V) = Cardinality(U) + Cardinality(V) - Cardinality(U \cap V)
  BY Finiteness, FS_Union
<1>2. /\ Cardinality(U \cup V) \in Nat /\ Cardinality(U) \in Nat /\ Cardinality(V) \in Nat
      /\ Cardinality(U \cap V) \in Nat
  <2>1. U \cup V \in SUBSET Lines /\ U \cap V \in SUBSET Lines
    OBVIOUS
  <2> QED  BY <2>1, Finiteness
<1> QED  BY <1>1, <1>2

\* Of two counts the greatest and the least are counts.
LEMMA CountsOfTwo ==
  ASSUME NEW m \in Nat, NEW n \in Nat
  PROVE  /\ Max({m, n}) \in Nat /\ m <= Max({m, n}) /\ n <= Max({m, n})
         /\ Min({m, n}) \in Nat /\ (Min({m, n}) = m \/ Min({m, n}) = n)
<1>1. m \in Int /\ n \in Int
  OBVIOUS
<1>2. Max({m, n}) = m \/ Max({m, n}) = n
  BY <1>1, MaxOfTwo
<1>3. Min({m, n}) = m \/ Min({m, n}) = n
  BY <1>1, MinOfTwo
<1> QED  BY <1>1, <1>2, <1>3, MaxOfTwo

-----------------------------------------------------------------------------
\* The concrete set: what a touch does to the ages.

\* An access keeps the ages of the cached lines distinct and within the set.
LEMMA TouchType ==
  ASSUME NEW a \in Ages, NEW t \in Lines
  PROVE  Touch(a, t) \in Ages
<1>1. a \in [Lines -> 0 .. Assoc] /\ \A u, v \in Lines : a[u] = a[v] /\ a[u] < Assoc => u = v
  BY DEF Ages
<1>2. \A u \in Lines : a[u] \in Nat /\ a[u] <= Assoc
  BY <1>1, AssocAssumption
<1>3. Touch(a, t) \in [Lines -> 0 .. Assoc]
  BY <1>1, <1>2, AssocAssumption DEF Touch
<1>4. ASSUME NEW u \in Lines, NEW v \in Lines,
             Touch(a, t)[u] = Touch(a, t)[v], Touch(a, t)[u] < Assoc
      PROVE  u = v
  <2>1. CASE u = t \/ v = t
    BY <1>1, <1>2, <1>4, <2>1, AssocAssumption DEF Touch
  <2>2. CASE u # t /\ v # t
    BY <1>1, <1>2, <1>4, <2>2, AssocAssumption DEF Touch
  <2> QED  BY <2>1, <2>2
<1> QED  BY <1>3, <1>4 DEF Ages

\* A line only gets younger lines by the touch of one that was not younger.
LEMMA TouchYounger ==
  ASSUME age \in Ages, NEW t \in Lines, age' = Touch(age, t), NEW u \in Lines
  PROVE  /\ u # t => Younger(u)' \subseteq Younger(u) \cup {t}
         /\ Younger(t)' = {} /\ age'[t] = 0
         /\ age[u] <= Cardinality(Younger(u)) => age'[u] <= Cardinality(Younger(u)')
<1>1. /\ \A v \in Lines : age[v] \in Nat /\ age[v] <= Assoc
      /\ \A v, w \in Lines : age[v] = age[w] /\ age[v] < Assoc => v = w
  BY AssocAssumption DEF Ages
<1>2. \A v \in Lines :
        age'[v] = IF v = t THEN 0 ELSE IF age[v] < age[t] THEN age[v] + 1 ELSE age[v]
  BY DEF Touch
<1>3. Younger(t)' = {} /\ age'[t] = 0
  BY <1>1, <1>2 DEF Younger
<1>4. ASSUME u # t PROVE Younger(u)' \subseteq Younger(u) \cup {t}
  BY <1>1, <1>2, <1>4 DEF Younger
<1>5. ASSUME u # t, age[u] <= Cardinality(Younger(u))
      PROVE  age'[u] <= Cardinality(Younger(u)')
  <2>0. /\ Younger(u) \in SUBSET Lines /\ Younger(u)' \in SUBSET Lines
        /\ Cardinality(Younger(u)) \in Nat /\ Cardinality(Younger(u)') \in Nat
    <3>1. Younger(u) \in SUBSET Lines /\ Younger(u)' \in SUBSET Lines
      BY DEF Younger
    <3> QED  BY <3>1, Finiteness
  <2>1. CASE age[u] < age[t]
    <3>1. Younger(u) \cup {t} \subseteq Younger(u)' /\ t \notin Younger(u)
      BY <1>1, <1>2, <2>1 DEF Younger
    <3>2. Cardinality(Younger(u) \cup {t}) = Cardinality(Younger(u)) + 1
      BY <2>0, <3>1, Finiteness, FS_AddElement
    <3>3. Cardinality(Younger(u) \cup {t}) <= Cardinality(Younger(u)')
      BY <2>0, <3>1, SubsetCounts
    <3> QED  BY <1>1, <1>2, <1>5, <2>0, <2>1, <3>2, <3>3
  <2>2. CASE age[u] > age[t]
    <3>1. Younger(u) \subseteq Younger(u)'
      BY <1>1, <1>2, <2>2 DEF Younger
    <3>2. Cardinality(Younger(u)) <= Cardinality(Younger(u)')
      BY <2>0, <3>1, SubsetCounts
    <3> QED  BY <1>1, <1>2, <1>5, <2>0, <2>2, <3>2
  <2>3. CASE age[u] = age[t]
    <3>1. age[u] = Assoc /\ age'[u] = Assoc
      BY <1>1, <1>2, <1>5, <2>3, AssocAssumption
    <3> DEFINE Eldest == {v \in Lines : age[v] = Assoc - 1}
    <3>2. (Younger(u) \ Eldest) \cup {t} \subseteq Younger(u)' /\ t \notin Younger(u)
      <4>1. ASSUME NEW v \in Lines, age[v] < age[u], age[v] # Assoc - 1
            PROVE  age'[v] < age'[u]
        BY <1>1, <1>2, <2>3, <3>1, <4>1, AssocAssumption
      <4>2. age'[t] < age'[u] /\ ~(age[t] < age[u])
        BY <1>1, <1>2, <2>3, <3>1, AssocAssumption
      <4> QED  BY <4>1, <4>2 DEF Younger
    <3>3. Cardinality(Younger(u)) <= Cardinality(Younger(u) \ Eldest) + 1
      <4>1. PICK w : Eldest \subseteq {w}
        <5>1. CASE Eldest = {}
          BY <5>1
        <5>2. CASE Eldest # {}
          <6>1. PICK w \in Eldest : TRUE
            BY <5>2
          <6>2. Eldest \subseteq {w}
            BY <1>1, <6>1, AssocAssumption
          <6> QED  BY <6>2
        <5> QED  BY <5>1, <5>2
      <4>2. CASE w \in Eldest
        <5>1. w \in Lines /\ {w} \in SUBSET Lines /\ Younger(u) \ Eldest \in SUBSET Lines
          BY <2>0, <4>2
        <5>2. Cardinality((Younger(u) \ Eldest) \cup {w}) <= Cardinality(Younger(u) \ Eldest) + 1
          <6>1. Cardinality((Younger(u) \ Eldest) \cup {w})
                  <= Cardinality(Younger(u) \ Eldest) + Cardinality({w})
            BY <5>1, UnionCounts
          <6> QED  BY <6>1, FS_Singleton
        <5>3. Younger(u) \subseteq (Younger(u) \ Eldest) \cup {w}
          BY <4>1
        <5>4. (Younger(u) \ Eldest) \cup {w} \in SUBSET Lines
          BY <5>1
        <5> HIDE DEF Eldest
        <5>5. /\ Cardinality(Younger(u)) <= Cardinality((Younger(u) \ Eldest) \cup {w})
              /\ Cardinality((Younger(u) \ Eldest) \cup {w}) \in Nat
          BY <5>3, <5>4, SubsetCounts
        <5>6. Cardinality(Younger(u) \ Eldest) \in Nat
          BY <5>1, Finiteness
        <5> QED  BY <2>0, <5>2, <5>5, <5>6
      <4>3. CASE w \notin Eldest
        <5>1. Younger(u) \ Eldest = Younger(u)
          BY <4>1, <4>3
        <5> HIDE DEF Eldest
        <5> QED  BY <2>0, <5>1
      <4> QED  BY <4>2, <4>3
    <3>4. Younger(u) \ Eldest \in SUBSET Lines /\ t \notin Younger(u) \ Eldest
      BY <2>0, <3>2
    <3> HIDE DEF Eldest
    <3>5. /\ Cardinality((Younger(u) \ Eldest) \cup {t}) = Cardinality(Younger(u) \ Eldest) + 1
          /\ Cardinality(Younger(u) \ Eldest) \in Nat
      BY <3>4, Finiteness, FS_AddElement
    <3>6. Cardinality((Younger(u) \ Eldest) \cup {t}) <= Cardinality(Younger(u)')
      BY <2>0, <3>2, SubsetCounts
    <3> QED  BY <1>5, <2>0, <3>1, <3>3, <3>5, <3>6, AssocAssumption
  <2>4. age[u] \in Nat /\ age[t] \in Nat
    BY <1>1
  <2>5. age[u] < age[t] \/ age[u] > age[t] \/ age[u] = age[t]
    BY <2>4
  <2> QED  BY <2>1, <2>2, <2>3, <2>5
<1>6. u = t => age'[u] <= Cardinality(Younger(u)')
  BY <1>3, FS_EmptySet
<1> QED  BY <1>3, <1>4, <1>5, <1>6

\* The invariant about the ages survives the touch of a line, which is one of the
\* lines accessed from now on or belongs to another core.
LEMMA TouchKeepsAges ==
  ASSUME ConcreteOK, AgesCounted, NEW t \in Lines, age' = Touch(age, t),
         config' = config, Entered' = Entered,
         \/ t \in Tags /\ accessed' = [s \in DOMAIN accessed |-> accessed[s] \cup {t}]
         \/ t \in Interfering /\ accessed' = accessed
  PROVE  /\ age' \in Ages /\ AgesCounted'
         /\ accessed' \in [Entered -> SUBSET Tags]
<1>1. age' \in Ages
  BY TouchType DEF ConcreteOK
<1>2. accessed' \in [Entered -> SUBSET Tags] /\ Interfering' = Interfering
  BY DEF ConcreteOK, Interfering
<1>3. ASSUME NEW s \in Entered, NEW u \in accessed'[s]
      PROVE  /\ Younger(u)' \subseteq accessed'[s] \cup Interfering
             /\ age'[u] <= Cardinality(Younger(u)')
  <2>1. u \in Lines
    BY <1>2, <1>3 DEF Lines
  <2>2. CASE u = t
    <3>1. Younger(u)' = {} /\ age'[u] = 0
      BY <2>1, <2>2, TouchYounger DEF ConcreteOK, Younger
    <3> QED  BY <3>1, FS_EmptySet
  <2>3. CASE u # t
    <3>1. u \in accessed[s] /\ accessed[s] \cup {t} \subseteq accessed'[s] \cup Interfering
      BY <1>3, <2>3 DEF ConcreteOK
    <3>2. /\ Younger(u) \subseteq accessed[s] \cup Interfering
          /\ age[u] <= Cardinality(Younger(u))
      BY <3>1 DEF AgesCounted
    <3>3. /\ Younger(u)' \subseteq Younger(u) \cup {t}
          /\ age'[u] <= Cardinality(Younger(u)')
      BY <2>1, <2>3, <3>2, TouchYounger DEF ConcreteOK
    <3>4. accessed[s] \cup Interfering \cup {t} \subseteq accessed'[s] \cup Interfering
      BY <3>1
    <3> QED  BY <3>2, <3>3, <3>4
  <2> QED  BY <2>2, <2>3
<1> QED  BY <1>1, <1>2, <1>3 DEF AgesCounted

-----------------------------------------------------------------------------
\* The set-wise analysis of one scope.

\* getCSS() is a number, at least that of the blocks.
LEMMA ConflictSetSize ==
  ASSUME NEW s \in SetWiseType
  PROVE  /\ CSS(s) \in Nat
         /\ Cardinality(s.blocks) \in Nat /\ Cardinality(s.blocks) <= CSS(s)
<1>1. s.blocks \in SUBSET Tags /\ s.arrays \in [Arrays -> Nat]
  BY DEF SetWiseType
<1>2. Cardinality(s.blocks) \in Nat
  <2>1. s.blocks \in SUBSET Lines
    BY <1>1 DEF Lines
  <2> QED  BY <2>1, Finiteness
<1>3. SumFunctionOnSet(s.arrays, Arrays) \in Nat
  <2> DEFINE none == [a \in Arrays |-> {}]
  <2>1. \A a \in Arrays : /\ s.arrays[a] \in Nat /\ IsFiniteSet(none[a])
                          /\ Cardinality(none[a]) <= s.arrays[a]
    BY <1>1, FS_EmptySet
  <2> HIDE DEF none
  <2> QED  BY <2>1, Finiteness, SumBoundsUnion
<1>4. CSS(s) = Cardinality(s.blocks) + SumFunctionOnSet(s.arrays, Arrays)
  BY <1>1 DEF CSS, SumFunction
<1> QED  BY <1>2, <1>3, <1>4

\* The analysis of a scope that is entered has counted nothing.
LEMMA SetWiseInitFits == SetWiseInit \in SetWiseType /\ CSS(SetWiseInit) = 0
<1> DEFINE none == [a \in Arrays |-> 0]
<1>1. SetWiseInit \in SetWiseType /\ SetWiseInit.blocks = {} /\ SetWiseInit.arrays = none
  BY DEF SetWiseInit, SetWiseType
<1>2. SumFunctionOnSet(none, Arrays) = 0
  <2> DEFINE own == [t \in {} |-> {}]
             C == {t \in {} : own[t] \in Arrays}
  <2>1. \A a \in Arrays : none[a] = Cardinality({t \in {} : own[t] = a})
    <3>1. \A a \in Arrays : {t \in {} : own[t] = a} = {}
      OBVIOUS
    <3> QED  BY <3>1, FS_EmptySet
  <2>2. C = {}
    OBVIOUS
  <2>3. SumFunctionOnSet(none, Arrays) = Cardinality(C)
    <3>1. IsFiniteSet(Arrays) /\ IsFiniteSet({})
      BY Finiteness, FS_EmptySet
    <3> HIDE DEF none, own
    <3> QED  BY <2>1, <3>1, SumOfCounts
  <2> QED  BY <2>2, <2>3, FS_EmptySet
<1>3. CSS(SetWiseInit) = Cardinality({}) + SumFunctionOnSet(none, Arrays)
  BY <1>1 DEF CSS, SumFunction
<1> QED  BY <1>1, <1>2, <1>3, FS_EmptySet

\* gotoTop() gives a well-formed element.
LEMMA GotoTopFits == GotoTop \in SetWiseType /\ GotoTop.top
BY SetWiseInitFits DEF GotoTop, SetWiseType

\* An element that was checked fits the set, and is unchanged unless it is top.
LEMMA CheckedFits ==
  ASSUME NEW s \in SetWiseType
  PROVE  /\ Checked(s) \in SetWiseType /\ Fits(Checked(s))
         /\ Checked(s).top \/ Checked(s) = s
<1>1. CSS(s) \in Nat /\ Assoc \in Nat
  BY ConflictSetSize, AssocAssumption
<1> QED  BY <1>1, GotoTopFits DEF Checked, Fits

\* An update adds the line to the blocks, or gives up.
LEMMA SetWiseUpdated ==
  ASSUME NEW s \in SetWiseType, NEW t \in Tags, NEW r, r = SetWiseUpdate(s, t)
  PROVE  /\ r \in SetWiseType
         /\ Fits(s) => Fits(r)
         /\ r.top \/ (~s.top /\ r.blocks = s.blocks \cup {t} /\ r.arrays = s.arrays)
<1> DEFINE q == [s EXCEPT !.blocks = @ \cup {t}]
<1>1. CASE s.top \/ t \in s.blocks
  BY <1>1 DEF SetWiseUpdate
<1>2. CASE ~(s.top \/ t \in s.blocks)
  <2>1. /\ q \in SetWiseType
        /\ q.blocks = s.blocks \cup {t} /\ q.arrays = s.arrays
    BY DEF SetWiseType
  <2>2. r = Checked(q)
    BY <1>2 DEF SetWiseUpdate
  <2> HIDE DEF q
  <2>3. r \in SetWiseType /\ Fits(r) /\ (r.top \/ r = q)
    BY <2>1, <2>2, CheckedFits
  <2> QED  BY <1>2, <2>1, <2>3
<1> QED  BY <1>1, <1>2

\* r is s with one access more to array a, unless all its lines are counted.
CountedFor(s, a, r) ==
  /\ a \in Arrays /\ r.blocks = s.blocks
  /\ \/ r.arrays = s.arrays /\ s.arrays[a] >= Cardinality(a \ s.blocks)
     \/ r.arrays = [s.arrays EXCEPT ![a] = @ + 1]

\* A potential update counts one more line of the array, or gives up.
LEMMA SetWisePotentiallyUpdated ==
  ASSUME NEW s \in SetWiseType, NEW a \in Arrays \cup {{}}, NEW arrayAware \in BOOLEAN,
         NEW r, r = SetWisePotentialUpdate(s, a, arrayAware)
  PROVE  /\ r \in SetWiseType
         /\ ~arrayAware => r.top
         /\ r.top \/ (~s.top /\ CountedFor(s, a, r))
<1>1. CASE s.top \/ ~arrayAware \/ a = {}
  BY <1>1, GotoTopFits DEF SetWisePotentialUpdate
<1>2. CASE ~(s.top \/ ~arrayAware \/ a = {})
  <2> DEFINE q == [s EXCEPT !.arrays[a] = @ + 1]
  <2>1. a \in Arrays
    BY <1>2
  <2>2. /\ q \in SetWiseType
        /\ q.blocks = s.blocks /\ q.arrays = [s.arrays EXCEPT ![a] = @ + 1]
    BY <2>1 DEF SetWiseType
  <2>3. \/ r = s /\ s.arrays[a] >= PerArrayBound(s, a)
        \/ r = GotoTop
        \/ r = q
    BY <1>2 DEF SetWisePotentialUpdate
  <2> HIDE DEF q
  <2> QED  BY <1>2, <2>1, <2>2, <2>3, GotoTopFits DEF PerArrayBound, CountedFor
<1> QED  BY <1>1, <1>2

\* j counts what s and r count, or at least the lines of an array that are left.
IsJoin(s, r, j) ==
  /\ j \in SetWiseType
  /\ Fits(j)
  /\ j.top \/ (~s.top /\ ~r.top /\ j.blocks = s.blocks \cup r.blocks)
  /\ j.top \/ \A a \in Arrays : \/ j.arrays[a] >= s.arrays[a]
                               \/ j.arrays[a] = Cardinality(a \ j.blocks)

\* A join contains what both elements contain, or gives up.
LEMMA SetWiseJoined ==
  ASSUME NEW s \in SetWiseType, NEW r \in SetWiseType, NEW arrayAware \in BOOLEAN
  PROVE  IsJoin(s, r, SetWiseJoin(s, r, arrayAware))
<1> DEFINE j == SetWiseJoin(s, r, arrayAware)
<1> DEFINE joined == [s EXCEPT !.blocks = @ \cup r.blocks,
                               !.arrays = [a \in Arrays |-> Max({@[a], r.arrays[a]})]]
           cut == [joined EXCEPT !.arrays =
                     [a \in Arrays |-> Min({@[a], PerArrayBound(joined, a)})]]
           kept == [joined EXCEPT !.arrays = s.arrays]
<1>0. \A a \in Arrays : s.arrays[a] \in Nat /\ r.arrays[a] \in Nat
  BY DEF SetWiseType
<1>1. /\ joined \in SetWiseType
      /\ joined.blocks = s.blocks \cup r.blocks /\ joined.top = s.top
      /\ \A a \in Arrays : joined.arrays[a] = Max({s.arrays[a], r.arrays[a]})
  <2> DEFINE most == [a \in Arrays |-> Max({s.arrays[a], r.arrays[a]})]
  <2>1. most \in [Arrays -> Nat]
    BY <1>0, CountsOfTwo
  <2>2. joined = [s EXCEPT !.blocks = s.blocks \cup r.blocks, !.arrays = most]
    BY DEF SetWiseType
  <2>3. \A a \in Arrays : most[a] = Max({s.arrays[a], r.arrays[a]})
    OBVIOUS
  <2> HIDE DEF most, joined
  <2> QED  BY <2>1, <2>2, <2>3 DEF SetWiseType
<1>2. \A a \in Arrays : joined.arrays[a] \in Nat /\ joined.arrays[a] >= s.arrays[a]
  <2>1. \A a \in Arrays : LET most == Max({s.arrays[a], r.arrays[a]})
                          IN  most \in Nat /\ s.arrays[a] <= most
    BY <1>0, CountsOfTwo
  <2>2. \A a \in Arrays : joined.arrays[a] = Max({s.arrays[a], r.arrays[a]})
    BY <1>1
  <2> HIDE DEF joined
  <2> QED  BY <1>0, <2>1, <2>2
<1>3. \A a \in Arrays : PerArrayBound(joined, a) \in Nat
  <2>1. \A a \in Arrays : a \ joined.blocks \in SUBSET Lines
    BY ArraysAssumption DEF Lines
  <2> QED  BY <2>1, Finiteness DEF PerArrayBound
<1> HIDE DEF joined
<1>4. /\ cut \in SetWiseType /\ cut.blocks = joined.blocks
      /\ \A a \in Arrays : \/ cut.arrays[a] >= s.arrays[a]
                           \/ cut.arrays[a] = Cardinality(a \ cut.blocks)
  <2> DEFINE least == [a \in Arrays |-> Min({joined.arrays[a], PerArrayBound(joined, a)})]
  <2>1. \A a \in Arrays : /\ least[a] \in Nat
                          /\ \/ least[a] = joined.arrays[a]
                             \/ least[a] = PerArrayBound(joined, a)
    BY <1>2, <1>3, CountsOfTwo
  <2>2. least \in [Arrays -> Nat]
    BY <2>1
  <2>3. cut = [joined EXCEPT !.arrays = least]
    BY <1>1 DEF SetWiseType
  <2> HIDE DEF least, cut
  <2>4. cut \in SetWiseType /\ cut.blocks = joined.blocks /\ cut.arrays = least
    BY <1>1, <2>2, <2>3 DEF SetWiseType
  <2> QED  BY <1>2, <2>1, <2>4 DEF PerArrayBound
<1>5. /\ kept \in SetWiseType /\ kept.blocks = joined.blocks
      /\ \A a \in Arrays : kept.arrays[a] >= s.arrays[a]
  <2>1. kept \in SetWiseType /\ kept.blocks = joined.blocks /\ kept.arrays = s.arrays
    BY <1>1 DEF SetWiseType
  <2> HIDE DEF kept
  <2> QED  BY <1>0, <2>1
<1>6. j = IF s.top \/ r.top THEN GotoTop ELSE Checked(IF arrayAware THEN cut ELSE kept)
  BY DEF SetWiseJoin, joined
<1> HIDE DEF cut, kept, j
<1>7. ASSUME s.top \/ r.top PROVE IsJoin(s, r, j)
  BY <1>6, <1>7, GotoTopFits DEF Fits, IsJoin
<1>8. ASSUME ~(s.top \/ r.top) PROVE IsJoin(s, r, j)
  <2>1. PICK k \in {cut, kept} : j = Checked(k)
    BY <1>6, <1>8
  <2>2. k \in SetWiseType
    BY <1>4, <1>5
  <2>3. j \in SetWiseType /\ Fits(j) /\ (j.top \/ j = k)
    BY <2>1, <2>2, CheckedFits
  <2> QED  BY <1>1, <1>4, <1>5, <1>8, <2>3 DEF IsJoin
<1> QED  BY <1>7, <1>8 DEF j

-----------------------------------------------------------------------------
\* The conflict set goes on covering the lines accessed.

\* An update covers the line accessed,
LEMMA CoversUpdate ==
  ASSUME NEW s \in SetWiseType, NEW lines, Covers(s, lines), NEW t \in Tags,
         NEW r, r = SetWiseUpdate(s, t), ~r.top
  PROVE  Covers(r, lines \cup {t})
BY SetWiseUpdated DEF Covers

\* and so does an update with an array whose lines include it.
LEMMA CoversPotentialUpdate ==
  ASSUME NEW s \in SetWiseType, NEW lines \in SUBSET Tags, Covers(s, lines),
         NEW a \in Arrays \cup {{}}, NEW t \in Tags, a # {} => t \in a,
         NEW arrayAware \in BOOLEAN,
         NEW r, r = SetWisePotentialUpdate(s, a, arrayAware), ~r.top
  PROVE  Covers(r, lines \cup {t})
<1>1. PICK part \in [Arrays -> SUBSET Tags] :
        /\ \A b \in Arrays : part[b] \subseteq b /\ Cardinality(part[b]) <= s.arrays[b]
        /\ lines \subseteq s.blocks \cup UNION {part[b] : b \in Arrays}
  BY DEF Covers
<1>2. /\ a \in Arrays /\ t \in a /\ a \subseteq Tags /\ r.blocks = s.blocks
      /\ s.arrays \in [Arrays -> Nat]
      /\ \/ r.arrays = s.arrays /\ s.arrays[a] >= Cardinality(a \ s.blocks)
         \/ r.arrays = [s.arrays EXCEPT ![a] = @ + 1]
  <2>1. s.arrays \in [Arrays -> Nat]
    BY DEF SetWiseType
  <2>2. /\ a \in Arrays /\ r.blocks = s.blocks
        /\ \/ r.arrays = s.arrays /\ s.arrays[a] >= Cardinality(a \ s.blocks)
           \/ r.arrays = [s.arrays EXCEPT ![a] = @ + 1]
    <3>1. CountedFor(s, a, r)
      BY SetWisePotentiallyUpdated
    <3> QED  BY <3>1 DEF CountedFor
  <2>3. a # {} /\ a \subseteq Tags
    BY <2>2, ArraysAssumption
  <2> QED  BY <2>1, <2>2, <2>3
<1> DEFINE Enlarged(x) == [part EXCEPT ![a] = x]
<1>3. ASSUME NEW x \in SUBSET a, Cardinality(x) <= r.arrays[a], t \in r.blocks \cup x,
             part[a] \subseteq s.blocks \cup x
      PROVE  Covers(r, lines \cup {t})
  <2>1. Enlarged(x) \in [Arrays -> SUBSET Tags]
    BY <1>2, <1>3
  <2>2. \A b \in Arrays : Enlarged(x)[b] = IF b = a THEN x ELSE part[b]
    OBVIOUS
  <2>3. \A b \in Arrays : Enlarged(x)[b] \subseteq b /\ Cardinality(Enlarged(x)[b]) <= r.arrays[b]
    BY <1>1, <1>2, <1>3, <2>2
  <2>4. lines \cup {t} \subseteq r.blocks \cup UNION {Enlarged(x)[b] : b \in Arrays}
    BY <1>1, <1>2, <1>3, <2>2
  <2> HIDE DEF Enlarged
  <2> QED  BY <2>1, <2>3, <2>4 DEF Covers
<1>4. CASE r.arrays = s.arrays /\ s.arrays[a] >= Cardinality(a \ s.blocks)
  <2>1. a \ s.blocks \in SUBSET Lines
    BY <1>2 DEF Lines
  <2>2. Cardinality(a \ s.blocks) \in Nat
    BY <2>1, Finiteness
  <2>3. part[a] \subseteq s.blocks \cup (a \ s.blocks) /\ t \in r.blocks \cup (a \ s.blocks)
    BY <1>1, <1>2
  <2>4. Cardinality(a \ s.blocks) <= r.arrays[a]
    BY <1>2, <1>4, <2>2
  <2> QED  BY <1>3, <2>3, <2>4
<1>5. CASE r.arrays = [s.arrays EXCEPT ![a] = @ + 1]
  <2>1. part[a] \in SUBSET Lines /\ {t} \in SUBSET Lines
    BY <1>1, <1>2 DEF Lines
  <2>2. /\ Cardinality(part[a] \cup {t}) <= Cardinality(part[a]) + Cardinality({t})
        /\ Cardinality(part[a] \cup {t}) \in Nat /\ Cardinality(part[a]) \in Nat
    BY <2>1, UnionCounts, Finiteness
  <2>3. Cardinality(part[a] \cup {t}) <= r.arrays[a]
    <3>1. Cardinality({t}) = 1
      BY FS_Singleton
    <3>2. s.arrays[a] \in Nat /\ r.arrays[a] = s.arrays[a] + 1
      BY <1>2, <1>5
    <3>3. Cardinality(part[a]) <= s.arrays[a]
      BY <1>1, <1>2
    <3> QED  BY <2>2, <3>1, <3>2, <3>3
  <2>4. part[a] \cup {t} \in SUBSET a
    BY <1>1, <1>2
  <2> QED  BY <1>3, <2>3, <2>4
<1> QED  BY <1>2, <1>4, <1>5

\* A join covers what one of the elements covers.
LEMMA CoversJoin ==
  ASSUME NEW s \in SetWiseType, NEW r \in SetWiseType, NEW lines, Covers(s, lines),
         NEW arrayAware \in BOOLEAN,
         NEW j, j = SetWiseJoin(s, r, arrayAware), ~j.top
  PROVE  Covers(j, lines)
<1>1. PICK part \in [Arrays -> SUBSET Tags] :
        /\ \A a \in Arrays : part[a] \subseteq a /\ Cardinality(part[a]) <= s.arrays[a]
        /\ lines \subseteq s.blocks \cup UNION {part[a] : a \in Arrays}
  BY DEF Covers
<1>2. /\ s.blocks \subseteq j.blocks /\ j.arrays \in [Arrays -> Nat]
      /\ \A a \in Arrays : \/ j.arrays[a] >= s.arrays[a]
                           \/ j.arrays[a] = Cardinality(a \ j.blocks)
  <2>1. IsJoin(s, r, j)
    BY SetWiseJoined
  <2> QED  BY <2>1 DEF IsJoin, SetWiseType
<1> DEFINE left == [a \in Arrays |-> part[a] \ j.blocks]
<1>3. left \in [Arrays -> SUBSET Tags] /\ \A a \in Arrays : left[a] = part[a] \ j.blocks
  BY <1>1
<1> HIDE DEF left
<1>4. ASSUME NEW a \in Arrays
      PROVE  left[a] \subseteq a /\ Cardinality(left[a]) <= j.arrays[a]
  <2>1. /\ part[a] \in SUBSET Lines /\ left[a] \in SUBSET part[a]
        /\ a \ j.blocks \in SUBSET Lines /\ left[a] \in SUBSET (a \ j.blocks)
        /\ left[a] \subseteq a
    BY <1>1, <1>3, ArraysAssumption DEF Lines
  <2>2. /\ Cardinality(left[a]) \in Nat /\ Cardinality(part[a]) \in Nat
        /\ Cardinality(left[a]) <= Cardinality(part[a])
    BY <2>1, SubsetCounts
  <2>3. Cardinality(left[a]) <= Cardinality(a \ j.blocks)
    BY <2>1, SubsetCounts
  <2>4. s.arrays[a] \in Nat /\ Cardinality(part[a]) <= s.arrays[a] /\ j.arrays[a] \in Nat
    BY <1>1, <1>2 DEF SetWiseType
  <2>5. CASE j.arrays[a] >= s.arrays[a]
    BY <2>1, <2>2, <2>4, <2>5
  <2>6. CASE j.arrays[a] = Cardinality(a \ j.blocks)
    BY <2>1, <2>3, <2>6
  <2> QED  BY <1>2, <2>5, <2>6
<1>5. lines \subseteq j.blocks \cup UNION {left[a] : a \in Arrays}
  BY <1>1, <1>2, <1>3
<1> QED  BY <1>3, <1>4, <1>5 DEF Covers

\* What is covered is counted.
LEMMA CoversCounts ==
  ASSUME NEW s \in SetWiseType, NEW lines \in SUBSET Tags, Covers(s, lines)
  PROVE  Cardinality(lines) \in Nat /\ Cardinality(lines) <= CSS(s)
<1>1. PICK part \in [Arrays -> SUBSET Tags] :
        /\ \A a \in Arrays : part[a] \subseteq a /\ Cardinality(part[a]) <= s.arrays[a]
        /\ lines \subseteq s.blocks \cup UNION {part[a] : a \in Arrays}
  BY DEF Covers
<1> DEFINE U == UNION {part[a] : a \in Arrays}
<1>2. s.blocks \in SUBSET Tags /\ s.arrays \in [Arrays -> Nat]
  BY DEF SetWiseType
<1>3. \A a \in Arrays : /\ s.arrays[a] \in Nat /\ IsFiniteSet(part[a])
                        /\ Cardinality(part[a]) <= s.arrays[a]
  <2>1. \A a \in Arrays : part[a] \in SUBSET Lines
    BY <1>1 DEF Lines
  <2> QED  BY <1>1, <1>2, <2>1, Finiteness
<1>4. /\ SumFunctionOnSet(s.arrays, Arrays) \in Nat
      /\ Cardinality(U) <= SumFunctionOnSet(s.arrays, Arrays)
  BY <1>3, Finiteness, SumBoundsUnion
<1>5. U \in SUBSET Lines /\ s.blocks \in SUBSET Lines /\ lines \in SUBSET (s.blocks \cup U)
  BY <1>1, <1>2 DEF Lines
<1>6. CSS(s) = Cardinality(s.blocks) + SumFunctionOnSet(s.arrays, Arrays)
  BY <1>2 DEF CSS, SumFunction
<1> HIDE DEF U
<1>7. /\ Cardinality(s.blocks \cup U) <= Cardinality(s.blocks) + Cardinality(U)
      /\ Cardinality(s.blocks) \in Nat /\ Cardinality(U) \in Nat
  BY <1>5, UnionCounts, Finiteness
<1>8. s.blocks \cup U \in SUBSET Lines
  BY <1>5
<1>9. /\ Cardinality(lines) <= Cardinality(s.blocks \cup U)
      /\ Cardinality(lines) \in Nat /\ Cardinality(s.blocks \cup U) \in Nat
  BY <1>5, <1>8, SubsetCounts
<1> QED  BY <1>4, <1>6, <1>7, <1>9

\* Nothing has been accessed when a scope is entered.
LEMMA CoversInit == Covers(SetWiseInit, {})
<1> DEFINE none == [a \in Arrays |-> {}]
<1>1. SetWiseInit.arrays \in [Arrays -> Nat]
  BY SetWiseInitFits DEF SetWiseType
<1>2. \A a \in Arrays : none[a] \subseteq a /\ Cardinality(none[a]) <= SetWiseInit.arrays[a]
  BY <1>1, FS_EmptySet
<1>3. none \in [Arrays -> SUBSET Tags]
  OBVIOUS
<1> HIDE DEF none
<1> QED  BY <1>2, <1>3 DEF Covers

-----------------------------------------------------------------------------
\* The element-wise analysis: the conflict sets of the lines that were accessed.

\* An update starts the line accessed anew and adds it to the conflict sets of
\* all the others.
LEMMA ElementWiseUpdated ==
  ASSUME NEW e, IsElementWise(e), NEW t \in Tags, NEW g, g = ElementWiseUpdate(e, t)
  PROVE  /\ IsElementWise(g) /\ DOMAIN g = DOMAIN e \cup {t}
         /\ (\A u \in DOMAIN e : Fits(e[u])) => \A u \in DOMAIN g : Fits(g[u])
         /\ g[t].top \/ t \in g[t].blocks
         /\ \A u \in DOMAIN e \ {t} :
              g[u].top \/ (~e[u].top /\ g[u].blocks = e[u].blocks \cup {t})
<1> DEFINE Before(u) == IF u = t THEN SetWiseInit ELSE e[u]
<1>1. /\ DOMAIN g = DOMAIN e \cup {t} /\ DOMAIN g \subseteq Tags
      /\ g = [u \in DOMAIN g |-> SetWiseUpdate(Before(u), t)]
  BY DEF ElementWiseUpdate, IsElementWise
<1>2. \A u \in DOMAIN g : Before(u) \in SetWiseType /\ (u # t => Before(u) = e[u])
  BY <1>1, SetWiseInitFits DEF IsElementWise
<1>3. Fits(Before(t)) /\ Before(t).blocks = {}
  BY SetWiseInitFits, AssocAssumption DEF Fits, SetWiseInit
<1>4. ASSUME NEW u \in DOMAIN g
      PROVE  /\ g[u] \in SetWiseType
             /\ Fits(Before(u)) => Fits(g[u])
             /\ g[u].top \/ (~Before(u).top /\ g[u].blocks = Before(u).blocks \cup {t})
  <2>1. g[u] = SetWiseUpdate(Before(u), t) /\ Before(u) \in SetWiseType
    BY <1>1, <1>2
  <2> HIDE DEF Before
  <2> QED  BY <2>1, SetWiseUpdated
<1>5. IsElementWise(g)
  BY <1>1, <1>4 DEF IsElementWise
<1> HIDE DEF Before
<1>6. ASSUME \A u \in DOMAIN e : Fits(e[u]), NEW u \in DOMAIN g
      PROVE  Fits(g[u])
  <2>1. Fits(Before(u))
    BY <1>1, <1>2, <1>3, <1>6
  <2> QED  BY <1>4, <2>1
<1> QED  BY <1>1, <1>2, <1>4, <1>5, <1>6

\* A potential update keeps the lines that are tracked; without array awareness
\* it gives up on all.
LEMMA ElementWisePotentiallyUpdated ==
  ASSUME NEW e, IsElementWise(e), NEW a \in Arrays \cup {{}}, NEW arrayAware \in BOOLEAN,
         NEW g, g = ElementWisePotentialUpdate(e, a, arrayAware)
  PROVE  /\ IsElementWise(g) /\ DOMAIN g = DOMAIN e
         /\ ~arrayAware => \A u \in DOMAIN g : g[u].top /\ Fits(g[u])
<1>1. /\ DOMAIN g = DOMAIN e
      /\ \A u \in DOMAIN e : g[u] = SetWisePotentialUpdate(e[u], a, arrayAware)
      /\ g = [u \in DOMAIN e |-> g[u]]
  BY DEF ElementWisePotentialUpdate
<1>2. ASSUME NEW u \in DOMAIN e
      PROVE  g[u] \in SetWiseType /\ (~arrayAware => g[u].top)
  <2>1. e[u] \in SetWiseType
    BY DEF IsElementWise
  <2> QED  BY <1>1, <2>1, SetWisePotentiallyUpdated
<1> QED  BY <1>1, <1>2 DEF IsElementWise, Fits

AllFit(e) == \A u \in DOMAIN e : Fits(e[u])

\* The conflict sets of g have what those of e have.
Extends(e, g) ==
  /\ DOMAIN e \subseteq DOMAIN g
  /\ \A u \in DOMAIN e : g[u].top \/ (~e[u].top /\ e[u].blocks \subseteq g[u].blocks)

\* A join tracks the lines of both elements with conflict sets that contain
\* theirs.
LEMMA ElementWiseJoined ==
  ASSUME NEW e, IsElementWise(e), NEW f, IsElementWise(f), NEW arrayAware \in BOOLEAN,
         NEW g, g = ElementWiseJoin(e, f, arrayAware)
  PROVE  /\ IsElementWise(g) /\ Extends(e, g)
         /\ AllFit(e) /\ AllFit(f) => AllFit(g)
<1>1. /\ DOMAIN g = DOMAIN e \cup DOMAIN f /\ DOMAIN g \subseteq Tags
      /\ g = [u \in DOMAIN g |-> g[u]]
      /\ \A u \in DOMAIN e \ DOMAIN f : g[u] = e[u]
      /\ \A u \in DOMAIN f \ DOMAIN e : g[u] = f[u]
      /\ \A u \in DOMAIN e \cap DOMAIN f : g[u] = SetWiseJoin(e[u], f[u], arrayAware)
  BY DEF ElementWiseJoin, IsElementWise
<1>2. /\ \A u \in DOMAIN e : e[u] \in SetWiseType
      /\ \A u \in DOMAIN f : f[u] \in SetWiseType
  BY DEF IsElementWise
<1>3. ASSUME NEW u \in DOMAIN e \cap DOMAIN f
      PROVE  /\ g[u] \in SetWiseType /\ Fits(g[u])
             /\ g[u].top \/ (~e[u].top /\ g[u].blocks = e[u].blocks \cup f[u].blocks)
  <2>1. /\ e[u] \in SetWiseType /\ f[u] \in SetWiseType
        /\ g[u] = SetWiseJoin(e[u], f[u], arrayAware)
    BY <1>1, <1>2
  <2>2. IsJoin(e[u], f[u], g[u])
    BY <2>1, SetWiseJoined
  <2> QED  BY <2>2 DEF IsJoin
<1>4. \A u \in DOMAIN g : g[u] \in SetWiseType
  BY <1>1, <1>2, <1>3
<1>5. IsElementWise(g)
  BY <1>1, <1>4 DEF IsElementWise
<1>6. ASSUME \A u \in DOMAIN e : Fits(e[u]), \A u \in DOMAIN f : Fits(f[u]), NEW u \in DOMAIN g
      PROVE  Fits(g[u])
  BY <1>1, <1>3, <1>6
<1>7. ASSUME NEW u \in DOMAIN e
      PROVE  g[u].top \/ (~e[u].top /\ e[u].blocks \subseteq g[u].blocks)
  BY <1>1, <1>2, <1>3 DEF SetWiseType
<1> QED  BY <1>1, <1>5, <1>6, <1>7 DEF Extends, AllFit

-----------------------------------------------------------------------------
\* What a path carries stays well formed.

\* What an option tells about the analyses that are composed.
LEMMA ConfigType ==
  ASSUME NEW c \in Configs
  PROVE  /\ c.arrayAware \in BOOLEAN /\ c.shared \in BOOLEAN /\ c.writeback \in BOOLEAN
         /\ Analyses(c) \subseteq {"SW", "ELE", "CM"}
         /\ "SW" \in Analyses(c) /\ ~c.arrayAware => c.persType = "SETWISE"
         /\ "ELE" \in Analyses(c) => c.persType = "ELEWISE"
BY ConfigsAssumption DEF Analyses

\* An update is one of every analysis of every scope,
LEMMA InfoUpdated ==
  ASSUME NEW c \in Configs, NEW info, InfoOK(info, c), NEW t \in Tags,
         NEW after, after = PersistenceUpdate(info, t)
  PROVE  /\ InfoOK(after, c) /\ DOMAIN after = DOMAIN info
         /\ \A s \in DOMAIN info :
              /\ "SW" \in Analyses(c) => after[s]["SW"] = SetWiseUpdate(info[s]["SW"], t)
              /\ "ELE" \in Analyses(c) =>
                   after[s]["ELE"] = ElementWiseUpdate(info[s]["ELE"], t)
<1>1. DOMAIN after = DOMAIN info
  BY DEF PersistenceUpdate
<1>2. ASSUME NEW s \in DOMAIN info
      PROVE  /\ DOMAIN after[s] = Analyses(c)
             /\ "SW" \in Analyses(c) => after[s]["SW"] = SetWiseUpdate(info[s]["SW"], t)
             /\ "ELE" \in Analyses(c) =>
                   after[s]["ELE"] = ElementWiseUpdate(info[s]["ELE"], t)
  BY DEF PersistenceUpdate, InfoOK
<1>3. ASSUME NEW s \in DOMAIN info, "SW" \in Analyses(c)
      PROVE  /\ after[s]["SW"] \in SetWiseType
             /\ ~c.arrayAware => Fits(after[s]["SW"])
  <2>1. info[s]["SW"] \in SetWiseType /\ (~c.arrayAware => Fits(info[s]["SW"]))
    BY <1>3 DEF InfoOK
  <2> QED  BY <1>2, <1>3, <2>1, SetWiseUpdated
<1>4. ASSUME NEW s \in DOMAIN info, "ELE" \in Analyses(c)
      PROVE  /\ IsElementWise(after[s]["ELE"])
             /\ ~c.arrayAware =>
                  \A u \in DOMAIN after[s]["ELE"] : Fits(after[s]["ELE"][u])
  <2> DEFINE e == info[s]["ELE"]
             g == after[s]["ELE"]
  <2>1. /\ IsElementWise(e) /\ g = ElementWiseUpdate(e, t)
        /\ ~c.arrayAware => \A u \in DOMAIN e : Fits(e[u])
    BY <1>2, <1>4 DEF InfoOK
  <2> HIDE DEF e, g
  <2>2. IsElementWise(g) /\ (~c.arrayAware => \A u \in DOMAIN g : Fits(g[u]))
    BY <2>1, ElementWiseUpdated
  <2> QED  BY <2>2 DEF g
<1> QED  BY <1>1, <1>2, <1>3, <1>4 DEF InfoOK

IsPotentialUpdate(info, after, a, c) ==
  /\ InfoOK(after, c) /\ DOMAIN after = DOMAIN info
  /\ \A s \in DOMAIN info :
       /\ "SW" \in Analyses(c) =>
            after[s]["SW"] = SetWisePotentialUpdate(info[s]["SW"], a, c.arrayAware)
       /\ "ELE" \in Analyses(c) =>
            after[s]["ELE"] = ElementWisePotentialUpdate(info[s]["ELE"], a, c.arrayAware)

\* a potential update and
LEMMA InfoPotentiallyUpdated ==
  ASSUME NEW c \in Configs, NEW info, InfoOK(info, c), NEW a \in Arrays \cup {{}}
  PROVE  IsPotentialUpdate(info, PersistencePotentialUpdate(info, a, c.arrayAware), a, c)
<1> DEFINE after == PersistencePotentialUpdate(info, a, c.arrayAware)
<1>0. c.arrayAware \in BOOLEAN
  BY ConfigType
<1>1. DOMAIN after = DOMAIN info
  BY DEF PersistencePotentialUpdate
<1>2. ASSUME NEW s \in DOMAIN info
      PROVE  /\ DOMAIN after[s] = Analyses(c)
             /\ "SW" \in Analyses(c) =>
                   after[s]["SW"] = SetWisePotentialUpdate(info[s]["SW"], a, c.arrayAware)
             /\ "ELE" \in Analyses(c) =>
                   after[s]["ELE"] = ElementWisePotentialUpdate(info[s]["ELE"], a, c.arrayAware)
  BY DEF PersistencePotentialUpdate, InfoOK
<1> HIDE DEF after
<1>3. ASSUME NEW s \in DOMAIN info, "SW" \in Analyses(c)
      PROVE  /\ after[s]["SW"] \in SetWiseType
             /\ ~c.arrayAware => Fits(after[s]["SW"])
  <2>1. info[s]["SW"] \in SetWiseType
    BY <1>3 DEF InfoOK
  <2>2. after[s]["SW"] \in SetWiseType /\ (~c.arrayAware => after[s]["SW"].top)
    BY <1>0, <1>2, <1>3, <2>1, SetWisePotentiallyUpdated
  <2> QED  BY <2>2 DEF Fits
<1>4. ASSUME NEW s \in DOMAIN info, "ELE" \in Analyses(c)
      PROVE  /\ IsElementWise(after[s]["ELE"])
             /\ ~c.arrayAware =>
                  \A u \in DOMAIN after[s]["ELE"] : Fits(after[s]["ELE"][u])
  <2>1. IsElementWise(info[s]["ELE"])
    BY <1>4 DEF InfoOK
  <2> QED  BY <1>0, <1>2, <1>4, <2>1, ElementWisePotentiallyUpdated
<1>5. IsPotentialUpdate(info, after, a, c)
  BY <1>1, <1>2, <1>3, <1>4 DEF InfoOK, IsPotentialUpdate
<1> QED  BY <1>5 DEF after

IsInfoJoin(x, y, after, c) ==
  /\ InfoOK(after, c) /\ DOMAIN after = DOMAIN x
  /\ \A s \in DOMAIN x :
       /\ "SW" \in Analyses(c) =>
            after[s]["SW"] = SetWiseJoin(x[s]["SW"], y[s]["SW"], c.arrayAware)
       /\ "ELE" \in Analyses(c) =>
            after[s]["ELE"] = ElementWiseJoin(x[s]["ELE"], y[s]["ELE"], c.arrayAware)

\* a join as well.
LEMMA InfoJoined ==
  ASSUME NEW c \in Configs, NEW x, InfoOK(x, c), NEW y, InfoOK(y, c), DOMAIN x = DOMAIN y
  PROVE  IsInfoJoin(x, y, PersistenceJoin(x, y, c.arrayAware), c)
<1> DEFINE after == PersistenceJoin(x, y, c.arrayAware)
<1>0. c.arrayAware \in BOOLEAN
  BY ConfigType
<1>1. DOMAIN after = DOMAIN x
  BY DEF PersistenceJoin
<1>2. ASSUME NEW s \in DOMAIN x
      PROVE  /\ DOMAIN after[s] = Analyses(c)
             /\ "SW" \in Analyses(c) =>
                   after[s]["SW"] = SetWiseJoin(x[s]["SW"], y[s]["SW"], c.arrayAware)
             /\ "ELE" \in Analyses(c) =>
                   after[s]["ELE"] = ElementWiseJoin(x[s]["ELE"], y[s]["ELE"], c.arrayAware)
  BY DEF PersistenceJoin, InfoOK
<1> HIDE DEF after
<1>3. ASSUME NEW s \in DOMAIN x, "SW" \in Analyses(c)
      PROVE  after[s]["SW"] \in SetWiseType /\ Fits(after[s]["SW"])
  <2>1. /\ x[s]["SW"] \in SetWiseType /\ y[s]["SW"] \in SetWiseType
        /\ after[s]["SW"] = SetWiseJoin(x[s]["SW"], y[s]["SW"], c.arrayAware)
    BY <1>2, <1>3 DEF InfoOK
  <2>2. IsJoin(x[s]["SW"], y[s]["SW"], after[s]["SW"])
    BY <1>0, <2>1, SetWiseJoined
  <2> QED  BY <2>2 DEF IsJoin
<1>4. ASSUME NEW s \in DOMAIN x, "ELE" \in Analyses(c)
      PROVE  /\ IsElementWise(after[s]["ELE"])
             /\ ~c.arrayAware =>
                  \A u \in DOMAIN after[s]["ELE"] : Fits(after[s]["ELE"][u])
  <2> DEFINE e == x[s]["ELE"]
             f == y[s]["ELE"]
             g == after[s]["ELE"]
  <2>1. /\ IsElementWise(e) /\ IsElementWise(f) /\ g = ElementWiseJoin(e, f, c.arrayAware)
        /\ ~c.arrayAware => /\ \A u \in DOMAIN e : Fits(e[u])
                            /\ \A u \in DOMAIN f : Fits(f[u])
    BY <1>2, <1>4 DEF InfoOK
  <2> HIDE DEF e, f, g
  <2>2. IsElementWise(g)
    BY <1>0, <2>1, ElementWiseJoined
  <2>3. ~c.arrayAware => AllFit(g)
    <3>1. ~c.arrayAware => AllFit(e) /\ AllFit(f)
      BY <2>1 DEF AllFit
    <3> QED  BY <1>0, <2>1, <3>1, ElementWiseJoined
  <2> QED  BY <2>2, <2>3 DEF g, AllFit
<1>5. IsInfoJoin(x, y, after, c)
  BY <1>1, <1>2, <1>3, <1>4 DEF InfoOK, IsInfoJoin
<1> QED  BY <1>5 DEF after

\* A scope that is entered starts with the initial elements.
LEMMA InfoEntered ==
  ASSUME NEW c \in Configs
  PROVE  /\ DOMAIN InfoInit(c) = Analyses(c)
         /\ "SW" \in Analyses(c) => InfoInit(c)["SW"] = SetWiseInit
         /\ "ELE" \in Analyses(c) => InfoInit(c)["ELE"] = ElementWiseInit
         /\ \A info, scopes : InfoOK(info, c) => InfoOK(Keep(info, scopes, InfoInit(c)), c)
<1>1. /\ DOMAIN InfoInit(c) = Analyses(c)
      /\ "SW" \in Analyses(c) => InfoInit(c)["SW"] = SetWiseInit
      /\ "ELE" \in Analyses(c) => InfoInit(c)["ELE"] = ElementWiseInit
  BY DEF InfoInit
<1>2. SetWiseInit \in SetWiseType /\ Fits(SetWiseInit)
  BY SetWiseInitFits, AssocAssumption DEF Fits
<1>3. IsElementWise(ElementWiseInit) /\ DOMAIN ElementWiseInit = {}
  BY DEF IsElementWise, ElementWiseInit
<1>4. ASSUME NEW info, NEW scopes, InfoOK(info, c)
      PROVE  InfoOK(Keep(info, scopes, InfoInit(c)), c)
  <2> DEFINE kept == Keep(info, scopes, InfoInit(c))
  <2>1. /\ DOMAIN kept = scopes
        /\ \A s \in scopes : kept[s] = IF s \in DOMAIN info THEN info[s] ELSE InfoInit(c)
    BY DEF Keep
  <2> HIDE DEF kept
  <2>2. ASSUME NEW s \in scopes
        PROVE  /\ DOMAIN kept[s] = Analyses(c)
               /\ "SW" \in Analyses(c) =>
                    /\ kept[s]["SW"] \in SetWiseType
                    /\ ~c.arrayAware => Fits(kept[s]["SW"])
               /\ "ELE" \in Analyses(c) =>
                    /\ IsElementWise(kept[s]["ELE"])
                    /\ ~c.arrayAware => \A u \in DOMAIN kept[s]["ELE"] : Fits(kept[s]["ELE"][u])
    <3>1. CASE s \in DOMAIN info
      BY <1>4, <2>1, <3>1 DEF InfoOK
    <3>2. CASE s \notin DOMAIN info
      BY <1>1, <1>2, <1>3, <2>1, <3>2
    <3> QED  BY <3>1, <3>2
  <2>3. InfoOK(kept, c)
    BY <2>1, <2>2 DEF InfoOK
  <2> QED  BY <2>3 DEF kept
<1> QED  BY <1>1, <1>4

-----------------------------------------------------------------------------
\* What persistence means: a line that was accessed in the scope and is counted
\* is still cached.

\* At most Assoc lines were accessed, so the others cannot have evicted this one.
LEMMA SetWiseHits ==
  ASSUME IInv, CountsSoundly, NEW s \in Entered, "SW" \in Analyses(config),
         ~Info(s, "SW").top, NEW t \in accessed[s]
  PROVE  age[t] < Assoc
<1> DEFINE info == Info(s, "SW")
<1>1. config \in Configs /\ Followed \in DOMAIN dirt
  BY DEF IInv, PathsOK, Paths
<1>2. ~config.arrayAware /\ ~config.shared
  BY <1>1, ConfigType DEF CountsSoundly
<1>3. info \in SetWiseType /\ Fits(info)
  BY <1>1, <1>2 DEF IInv, PathsOK, InfoOK, Entered, Info
<1>4. accessed[s] \in SUBSET Tags /\ Covers(info, accessed[s])
  BY DEF IInv, ConcreteOK, AccessesCovered
<1> HIDE DEF info
<1>5. Cardinality(accessed[s]) \in Nat /\ Cardinality(accessed[s]) <= CSS(info)
  BY <1>3, <1>4, CoversCounts
<1>6. CSS(info) <= Assoc /\ CSS(info) \in Nat
  BY <1>3, ConflictSetSize DEF Fits, info
<1>7. Younger(t) \subseteq accessed[s] \ {t} /\ age[t] <= Cardinality(Younger(t))
  <2>1. /\ Younger(t) \subseteq accessed[s] \cup Interfering
        /\ age[t] <= Cardinality(Younger(t))
    BY DEF IInv, AgesCounted
  <2>2. t \in Lines /\ age[t] \in Nat
    BY <1>4, AssocAssumption DEF IInv, ConcreteOK, Ages, Lines
  <2>3. t \notin Younger(t) /\ Interfering = {}
    BY <1>2, <2>2 DEF Younger, Interfering
  <2> QED  BY <2>1, <2>3
<1>8. Cardinality(accessed[s] \ {t}) = Cardinality(accessed[s]) - 1
  <2>1. IsFiniteSet(accessed[s])
    BY <1>4, LinesAssumption, FS_Subset
  <2> QED  BY <2>1, FS_RemoveElement
<1>9. accessed[s] \ {t} \in SUBSET Lines /\ age[t] \in Nat
  BY <1>4, AssocAssumption DEF Lines, IInv, ConcreteOK, Ages
<1>10. /\ Cardinality(Younger(t)) <= Cardinality(accessed[s] \ {t})
       /\ Cardinality(Younger(t)) \in Nat
  BY <1>7, <1>9, SubsetCounts
<1> QED  BY <1>5, <1>6, <1>7, <1>8, <1>9, <1>10, AssocAssumption

\* At most Assoc lines, with those of the other cores, are as young as this one.
LEMMA ElementWiseHits ==
  ASSUME IInv, CountsSoundly, NEW s \in Entered, "ELE" \in Analyses(config),
         NEW t \in accessed[s], YoungerCovered(Info(s, "ELE"), t),
         ElementWisePersistent(Info(s, "ELE"), t, CNN)
  PROVE  age[t] < Assoc
<1> DEFINE set == Info(s, "ELE")[t]
<1>1. config \in Configs /\ Followed \in DOMAIN dirt
  BY DEF IInv, PathsOK, Paths
<1>2. ~config.arrayAware
  BY DEF CountsSoundly
<1>3. /\ t \in DOMAIN Info(s, "ELE") /\ ~set.top
      /\ CNN > 0 => CSS(set) + CNN <= Assoc
  BY DEF ElementWisePersistent, SetWisePersistent
<1>4. set \in SetWiseType /\ Fits(set)
  BY <1>1, <1>2, <1>3 DEF IInv, PathsOK, InfoOK, Entered, Info, IsElementWise
<1>5. t \in set.blocks /\ Younger(t) \subseteq set.blocks \cup Interfering
  BY <1>3 DEF YoungerCovered
<1> HIDE DEF set
<1>6. /\ CSS(set) \in Nat /\ CSS(set) <= Assoc
      /\ Cardinality(set.blocks) \in Nat /\ Cardinality(set.blocks) <= CSS(set)
  BY <1>3, <1>4, ConflictSetSize DEF Fits
<1>7. age[t] <= Cardinality(Younger(t))
  BY DEF IInv, AgesCounted
<1>8. accessed[s] \in SUBSET Tags /\ t \in Lines /\ age[t] \in Nat
  BY AssocAssumption DEF IInv, ConcreteOK, Ages, Lines
<1> DEFINE others == set.blocks \ {t}
<1>9. Younger(t) \subseteq others \cup Interfering
  <2>1. t \notin Younger(t)
    BY <1>8 DEF Younger
  <2> QED  BY <1>5, <2>1
<1>10. others \in SUBSET Lines /\ Interfering \in SUBSET Lines /\ set.blocks \in SUBSET Tags
  BY <1>4, Finiteness DEF SetWiseType, Lines
<1>11. Cardinality(others) = Cardinality(set.blocks) - 1
  <2>1. IsFiniteSet(set.blocks)
    BY <1>10, LinesAssumption, FS_Subset
  <2> QED  BY <1>5, <2>1, FS_RemoveElement
<1> HIDE DEF others
<1>12. Cardinality(others \cup Interfering) <= Cardinality(others) + Cardinality(Interfering)
  BY <1>10, UnionCounts
<1>13. others \cup Interfering \in SUBSET Lines
  BY <1>10
<1>14. /\ Cardinality(Younger(t)) <= Cardinality(others \cup Interfering)
       /\ Cardinality(Younger(t)) \in Nat /\ Cardinality(others \cup Interfering) \in Nat
  BY <1>9, <1>13, SubsetCounts
<1>15. CNN \in Nat /\ CNN = Cardinality(Interfering)
  BY <1>10, Finiteness
<1> QED  BY <1>3, <1>6, <1>7, <1>8, <1>11, <1>12, <1>14, <1>15, AssocAssumption

\* So a miss that is charged is that of a line that none was charged for before.
LEMMA ChargedMissIsNew ==
  ASSUME IInv, CountsSoundly, NEW s \in Entered, NEW t \in Tags, ~(age[t] < Assoc),
         NEW C \in SUBSET accessed[s],
         "ELE" \in Analyses(config) => \A u \in C : YoungerCovered(Info(s, "ELE"), u),
         \/ s \in PersistentScopes(scopes2info[Followed], t, CNN)
         \/ s \in ArrayPersistentScopes(scopes2info[Followed])
  PROVE  t \notin C
<1>1. config \in Configs /\ Followed \in DOMAIN dirt
  BY DEF IInv, PathsOK, Paths
<1>2. DOMAIN scopes2info[Followed][s] = Analyses(config)
  BY <1>1 DEF IInv, PathsOK, InfoOK, Entered
<1>3. "CM" \notin Analyses(config)
  BY <1>1, ConfigsAssumption DEF CountsSoundly, Analyses
<1>4. \/ "SW" \in Analyses(config) /\ ~Info(s, "SW").top
      \/ "ELE" \in Analyses(config) /\ ElementWisePersistent(Info(s, "ELE"), t, CNN)
  BY <1>2, <1>3 DEF PersistentScopes, ArrayPersistentScopes, SetWisePersistent, Info
<1> QED  BY <1>4, SetWiseHits, ElementWiseHits

-----------------------------------------------------------------------------
\* The accounts.

\* Charging an address for a line that has not been charged.
LEMMA ChargeOne ==
  ASSUME NEW account \in [Addresses -> Nat], NEW C \in SUBSET Tags,
         ChargedLines(account, C), NEW t \in Tags, t \notin C,
         NEW x \in Addresses, t \in x
  PROVE  ChargedLines([account EXCEPT ![x] = @ + 1], C \cup {t})
<1>1. PICK own \in [C -> Addresses] :
        /\ \A u \in C : u \in own[u]
        /\ \A y \in Addresses : account[y] = Cardinality({u \in C : own[u] = y})
  BY DEF ChargedLines
<1> DEFINE next == [u \in C \cup {t} |-> IF u = t THEN x ELSE own[u]]
           now == [account EXCEPT ![x] = @ + 1]
<1>2. /\ next \in [C \cup {t} -> Addresses] /\ next[t] = x
      /\ \A u \in C : next[u] = own[u]
      /\ \A u \in C \cup {t} : u \in next[u]
  BY <1>1
<1>3. now[x] = account[x] + 1 /\ \A y \in Addresses \ {x} : now[y] = account[y]
  OBVIOUS
<1> HIDE DEF next, now
<1>4. ASSUME NEW y \in Addresses
      PROVE  now[y] = Cardinality({u \in C \cup {t} : next[u] = y})
  <2> DEFINE Of == {u \in C : own[u] = y}
  <2>1. account[y] = Cardinality(Of)
    BY <1>1
  <2>2. IsFiniteSet(Of) /\ t \notin Of
    BY LinesAssumption, FS_Subset
  <2>3. CASE y = x
    <3>1. {u \in C \cup {t} : next[u] = y} = Of \cup {t}
      BY <1>2, <2>3
    <3> HIDE DEF Of
    <3>2. Cardinality(Of \cup {t}) = Cardinality(Of) + 1
      BY <2>2, FS_AddElement
    <3> QED  BY <1>3, <2>1, <2>3, <3>1, <3>2
  <2>4. CASE y # x
    <3>1. {u \in C \cup {t} : next[u] = y} = Of
      BY <1>2, <2>4
    <3> QED  BY <1>3, <2>1, <2>4, <3>1
  <2> QED  BY <2>3, <2>4
<1>5. ChargedLines(now, C \cup {t})
  BY <1>2, <1>4 DEF ChargedLines
<1> QED  BY <1>5 DEF now

\* No miss has been charged when a scope is entered.
LEMMA NothingIsCharged ==
  NothingCharged \in [Addresses -> Nat] /\ ChargedLines(NothingCharged, {})
<1> DEFINE own == [t \in {} |-> {}]
<1>1. own \in [{} -> Addresses] /\ \A x \in Addresses : {t \in {} : own[t] = x} = {}
  OBVIOUS
<1>2. NothingCharged \in [Addresses -> Nat] /\ \A x \in Addresses : NothingCharged[x] = 0
  BY DEF NothingCharged
<1> HIDE DEF own
<1> QED  BY <1>1, <1>2, FS_EmptySet DEF ChargedLines

\* An address is charged with no more misses than it has lines.
LEMMA ChargesBounded ==
  ASSUME NEW account, NEW C \in SUBSET Tags, ChargedLines(account, C), NEW x \in Addresses
  PROVE  ChargedTo(account, x) <= Cardinality(x)
<1>1. PICK own \in [C -> Addresses] :
        /\ \A u \in C : u \in own[u]
        /\ \A y \in Addresses : account[y] = Cardinality({u \in C : own[u] = y})
  BY DEF ChargedLines
<1> DEFINE T == {y \in Addresses : y \subseteq x}
           mine == {u \in C : own[u] \in T}
<1>2. IsFiniteSet(T)
  BY Finiteness, FS_Subset
<1>3. \A y \in T : account[y] = Cardinality({u \in C : own[u] = y})
  BY <1>1
<1>4. IsFiniteSet(C)
  BY LinesAssumption, FS_Subset
<1>5. mine \in SUBSET x /\ x \in SUBSET Lines
  BY <1>1, Finiteness DEF Lines
<1>6. ChargedTo(account, x) = SumFunctionOnSet(account, T)
  BY DEF ChargedTo
<1> HIDE DEF T
<1>7. SumFunctionOnSet(account, T) = Cardinality(mine)
  BY <1>2, <1>3, <1>4, SumOfCounts
<1> HIDE DEF mine
<1>8. Cardinality(mine) <= Cardinality(x)
  BY <1>5, SubsetCounts
<1> QED  BY <1>6, <1>7, <1>8

\* A touch of line t that charges its miss to address x in the scopes.
Charges(t, x, scopes) ==
  /\ x \in Addresses \cup {{}} /\ (x # {} => t \in x) /\ (x = {} => scopes = {})
  /\ config' = config /\ Entered' = Entered
  /\ accessed' = [s \in DOMAIN accessed |-> accessed[s] \cup {t}]
  /\ misses' = IF age[t] < Assoc THEN misses ELSE Charged(misses, scopes, x)

\* An access charges a miss only if the line is not cached, and then to the
\* scopes it is persistent in.
LEMMA TouchCharges ==
  ASSUME IInv, NEW t \in Tags, NEW x, NEW scopes, Charges(t, x, scopes)
  PROVE  /\ misses' \in [Entered -> [Addresses -> Nat]]
         /\ \A s \in Entered :
              \/ misses'[s] = misses[s]
              \/ /\ s \in scopes /\ x \in Addresses /\ ~(age[t] < Assoc)
                 /\ misses'[s] = [misses[s] EXCEPT ![x] = @ + 1]
<1> USE DEF Charges
<1>1. misses \in [Entered -> [Addresses -> Nat]]
  BY DEF IInv, ConcreteOK
<1>2. CASE age[t] < Assoc
  BY <1>1, <1>2
<1>3. CASE ~(age[t] < Assoc)
  <2>1. misses' = [s \in Entered |->
                     IF s \in scopes /\ misses[s][x] <= Cardinality(x)
                     THEN [misses[s] EXCEPT ![x] = @ + 1] ELSE misses[s]]
    BY <1>1, <1>3 DEF Charged
  <2>2. ASSUME NEW s \in Entered
        PROVE  \/ misses'[s] = misses[s]
               \/ /\ s \in scopes /\ x \in Addresses
                  /\ misses'[s] = [misses[s] EXCEPT ![x] = @ + 1]
    BY <2>1
  <2>3. \A s \in Entered : misses'[s] \in [Addresses -> Nat]
    <3> TAKE s \in Entered
    <3>1. misses[s] \in [Addresses -> Nat]
      BY <1>1
    <3>2. x \in Addresses => [misses[s] EXCEPT ![x] = @ + 1] \in [Addresses -> Nat]
      BY <3>1
    <3> QED  BY <2>2, <3>1, <3>2
  <2>4. misses' \in [Entered -> [Addresses -> Nat]]
    BY <2>1, <2>3
  <2> QED  BY <1>3, <2>2, <2>4
<1> QED  BY <1>2, <1>3

-----------------------------------------------------------------------------
\* The steps.  First what the paths carry, whichever of them takes the step.

\* A step of one path keeps what is known on all of them well-formed.
LEMMA PathsAfterStep ==
  ASSUME PathsOK, NEW p \in DOMAIN dirt, config' = config, DOMAIN (dirt') = DOMAIN dirt,
         IF apart = 0 THEN apart' = 0 ELSE apart' = apart + 1,
         NEW info, InfoOK(info, config), scopes2info' = [scopes2info EXCEPT ![p] = info],
         \/ /\ scopes2entercount' = scopes2entercount
            /\ DOMAIN info = DOMAIN scopes2info[p]
         \/ scopes2entercount' = [scopes2entercount EXCEPT ![p] = scopes2entercount'[p]]
            /\ DOMAIN info = DOMAIN (scopes2entercount'[p])
  PROVE  /\ PathsOK'
         /\ scopes2info'[p] = info
         /\ p # Followed => scopes2info'[Followed] = scopes2info[Followed]
<1>1. apart' \in Nat /\ (apart' = 0 <=> apart = 0)
  BY DEF PathsOK
<1>2. /\ DOMAIN scopes2info = DOMAIN dirt /\ DOMAIN scopes2entercount = DOMAIN dirt
      /\ Followed \in DOMAIN dirt
  BY DEF PathsOK, Paths
<1>3. /\ DOMAIN (scopes2info') = DOMAIN dirt /\ DOMAIN (scopes2entercount') = DOMAIN dirt
      /\ scopes2info'[p] = info
      /\ \A q \in DOMAIN dirt \ {p} : /\ scopes2info'[q] = scopes2info[q]
                                     /\ scopes2entercount'[q] = scopes2entercount[q]
  BY <1>2
<1>4. ASSUME NEW q \in DOMAIN dirt
      PROVE  /\ DOMAIN (scopes2info'[q]) = DOMAIN (scopes2entercount'[q])
             /\ InfoOK(scopes2info'[q], config)
  BY <1>3 DEF PathsOK
<1> QED  BY <1>1, <1>2, <1>3, <1>4 DEF PathsOK

\* A step that leaves the followed path and the cache alone keeps the
\* invariant.
LEMMA FollowedUntouched ==
  ASSUME IInv, PathsOK', config' = config, scopes2info'[Followed] = scopes2info[Followed],
         age' = age, accessed' = accessed, misses' = misses
  PROVE  IInv'
<1>1. /\ Entered' = Entered /\ Interfering' = Interfering
      /\ \A s, n : Info(s, n)' = Info(s, n)
      /\ \A u : Younger(u)' = Younger(u)
  BY DEF Entered, Info, Interfering, Younger
<1>2. ConcreteOK'
  BY <1>1 DEF IInv, ConcreteOK
<1>3. AgesCounted'
  BY <1>1 DEF IInv, AgesCounted, Younger
<1>4. AccessesCovered'
  BY <1>1 DEF IInv, AccessesCovered, Info
<1>5. CountsSoundly' => LinesChargedOnce'
  <2>1. CountsSoundly' => CountsSoundly
    BY DEF CountsSoundly
  <2> QED  BY <1>1, <2>1 DEF IInv, LinesChargedOnce, YoungerCovered, Younger, Info
<1> QED  BY <1>2, <1>3, <1>4, <1>5 DEF IInv

\* The lines that were charged, after a touch of line t.
LEMMA TouchKeepsCharges ==
  ASSUME IInv, CountsSoundly, NEW t \in Tags, NEW x, NEW scopes, Charges(t, x, scopes),
         \A s \in scopes : \/ s \in PersistentScopes(scopes2info[Followed], t, CNN)
                           \/ s \in ArrayPersistentScopes(scopes2info[Followed]),
         "ELE" \in Analyses(config) =>
           \A s \in Entered :
             /\ \A u \in Tags : YoungerCovered(Info(s, "ELE"), u)
                                  => YoungerCovered(Info(s, "ELE"), u)'
             /\ s \in scopes => YoungerCovered(Info(s, "ELE"), t)'
  PROVE  LinesChargedOnce'
<1>1. ASSUME NEW s \in Entered
      PROVE  \E C \in SUBSET accessed'[s] :
               /\ ChargedLines(misses'[s], C)
               /\ "ELE" \in Analyses(config) => \A u \in C : YoungerCovered(Info(s, "ELE"), u)'
  <2>1. PICK C \in SUBSET accessed[s] :
          /\ ChargedLines(misses[s], C)
          /\ "ELE" \in Analyses(config) => \A u \in C : YoungerCovered(Info(s, "ELE"), u)
    BY DEF IInv, LinesChargedOnce
  <2>2. /\ accessed[s] \in SUBSET Tags /\ misses[s] \in [Addresses -> Nat]
        /\ accessed'[s] = accessed[s] \cup {t}
    BY DEF IInv, ConcreteOK, Charges
  <2>3. \/ misses'[s] = misses[s]
        \/ /\ s \in scopes /\ x \in Addresses /\ ~(age[t] < Assoc)
           /\ misses'[s] = [misses[s] EXCEPT ![x] = @ + 1]
    BY TouchCharges
  <2>4. CASE misses'[s] = misses[s]
    <3>1. C \in SUBSET accessed'[s] /\ ChargedLines(misses'[s], C)
      BY <2>1, <2>2, <2>4
    <3>2. "ELE" \in Analyses(config) => \A u \in C : YoungerCovered(Info(s, "ELE"), u)'
      BY <2>1, <2>2
    <3> QED  BY <3>1, <3>2
  <2>5. CASE /\ s \in scopes /\ x \in Addresses /\ ~(age[t] < Assoc)
             /\ misses'[s] = [misses[s] EXCEPT ![x] = @ + 1]
    <3>1. t \notin C
      BY <2>1, <2>5, ChargedMissIsNew
    <3>2. t \in x
      <4>1. x # {}
        BY <2>5 DEF Charges
      <4> QED  BY <4>1 DEF Charges
    <3>3. C \cup {t} \in SUBSET accessed'[s] /\ C \in SUBSET Tags
      BY <2>1, <2>2
    <3>4. ChargedLines(misses'[s], C \cup {t})
      BY <2>1, <2>2, <2>5, <3>1, <3>2, <3>3, ChargeOne
    <3>5. "ELE" \in Analyses(config) =>
            \A u \in C \cup {t} : YoungerCovered(Info(s, "ELE"), u)'
      <4>1. "ELE" \in Analyses(config) => \A u \in C : YoungerCovered(Info(s, "ELE"), u)'
        BY <2>1, <3>3
      <4>2. "ELE" \in Analyses(config) => YoungerCovered(Info(s, "ELE"), t)'
        BY <2>5
      <4> QED  BY <4>1, <4>2 DEF YoungerCovered, Younger, Info, Interfering
    <3> QED  BY <3>3, <3>4, <3>5
  <2> QED  BY <2>3, <2>4, <2>5
<1> QED  BY <1>1 DEF LinesChargedOnce, Charges

-----------------------------------------------------------------------------
\* The followed path accesses a line,
LEMMA FollowedAccesses ==
  ASSUME IInv, IF apart = 0 THEN apart' = 0 ELSE apart' = apart + 1,
         NEW t \in Tags, NEW store, NEW outcome, NEW split,
         Access(Followed, t, store, outcome, split)
  PROVE  IInv'
<1> DEFINE scopes == PersistentScopes(scopes2info[Followed], t, CNN)
           info == PersistenceUpdate(scopes2info[Followed], t)
<1>1. /\ config' = config /\ DOMAIN (dirt') = DOMAIN dirt
      /\ scopes2entercount' = scopes2entercount
      /\ scopes2info' = [scopes2info EXCEPT ![Followed] = info]
      /\ age' = Touch(age, t)
      /\ accessed' = [s \in DOMAIN accessed |-> accessed[s] \cup {t}]
      /\ misses' = IF age[t] < Assoc THEN misses ELSE Charged(misses, scopes, {t})
  BY DEF Access, Execute
<1>2. config \in Configs /\ Followed \in DOMAIN dirt /\ t \in Lines
  BY DEF IInv, PathsOK, Paths, Lines
<1>3. InfoOK(scopes2info[Followed], config)
  BY <1>2 DEF IInv, PathsOK
<1>4. /\ InfoOK(info, config) /\ DOMAIN info = DOMAIN scopes2info[Followed]
      /\ \A s \in Entered :
           /\ "SW" \in Analyses(config) => info[s]["SW"] = SetWiseUpdate(Info(s, "SW"), t)
           /\ "ELE" \in Analyses(config) => info[s]["ELE"] = ElementWiseUpdate(Info(s, "ELE"), t)
  BY <1>2, <1>3, InfoUpdated DEF Entered, Info
<1> HIDE DEF info, scopes
<1>5. PathsOK' /\ scopes2info'[Followed] = info
  BY <1>1, <1>2, <1>4, PathsAfterStep DEF IInv
<1>6. Entered' = Entered
  BY <1>4, <1>5 DEF Entered
<1>7. age' \in Ages /\ AgesCounted' /\ accessed' \in [Entered -> SUBSET Tags]
  BY <1>1, <1>2, <1>6, TouchKeepsAges DEF IInv
<1>8. misses' \in [Entered -> [Addresses -> Nat]]
  <2>1. Charges(t, {t}, scopes)
    BY <1>1, <1>6 DEF Charges, Addresses
  <2> QED  BY <2>1, TouchCharges
<1>9. AccessesCovered'
  <2> SUFFICES ASSUME NEW s \in Entered, "SW" \in Analyses(config), ~info[s]["SW"].top
               PROVE  Covers(info[s]["SW"], accessed'[s])
    BY <1>1, <1>5, <1>6 DEF AccessesCovered, Info
  <2>1. Info(s, "SW") \in SetWiseType
    BY <1>3 DEF InfoOK, Entered, Info
  <2>2. info[s]["SW"] = SetWiseUpdate(Info(s, "SW"), t)
    BY <1>4
  <2>3. ~Info(s, "SW").top
    BY <2>1, <2>2, SetWiseUpdated
  <2>4. Covers(Info(s, "SW"), accessed[s]) /\ accessed'[s] = accessed[s] \cup {t}
    BY <1>1, <2>3 DEF IInv, AccessesCovered, ConcreteOK
  <2> QED  BY <2>1, <2>2, <2>4, CoversUpdate
<1>10. CountsSoundly' => LinesChargedOnce'
  <2>1. SUFFICES ASSUME CountsSoundly PROVE LinesChargedOnce'
    BY <1>1 DEF CountsSoundly
  <2>2. ASSUME "ELE" \in Analyses(config), NEW s \in Entered
        PROVE  /\ YoungerCovered(Info(s, "ELE"), t)'
               /\ \A u \in Tags : YoungerCovered(Info(s, "ELE"), u)
                                    => YoungerCovered(Info(s, "ELE"), u)'
    <3> DEFINE e == Info(s, "ELE")
               g == info[s]["ELE"]
    <3>1. IsElementWise(e) /\ g = ElementWiseUpdate(e, t)
      BY <1>3, <1>4, <2>2 DEF InfoOK, Entered, Info
    <3>2. Info(s, "ELE")' = g /\ Interfering' = Interfering
      BY <1>1, <1>5 DEF Info, Interfering
    <3> HIDE DEF e, g
    <3>3. /\ DOMAIN g = DOMAIN e \cup {t}
          /\ g[t].top \/ t \in g[t].blocks
          /\ \A u \in DOMAIN e \ {t} :
               g[u].top \/ (~e[u].top /\ g[u].blocks = e[u].blocks \cup {t})
      BY <3>1, ElementWiseUpdated
    <3>4. Younger(t)' = {}
      BY <1>1, <1>2, TouchYounger DEF IInv, ConcreteOK
    <3>5. YoungerCovered(Info(s, "ELE"), t)'
      BY <3>2, <3>3, <3>4 DEF YoungerCovered, Younger
    <3>6. ASSUME NEW u \in Tags, u # t, YoungerCovered(e, u)
          PROVE  YoungerCovered(Info(s, "ELE"), u)'
      <4>1. u \in DOMAIN e /\ u \in DOMAIN g
        BY <3>3, <3>6 DEF YoungerCovered
      <4>2. CASE g[u].top
        BY <3>2, <4>1, <4>2 DEF YoungerCovered
      <4>3. CASE ~g[u].top
        <5>1. ~e[u].top /\ g[u].blocks = e[u].blocks \cup {t}
          BY <3>3, <3>6, <4>1, <4>3
        <5>2. u \in e[u].blocks /\ Younger(u) \subseteq e[u].blocks \cup Interfering
          BY <3>6, <5>1 DEF YoungerCovered
        <5>3. Younger(u)' \subseteq Younger(u) \cup {t}
          <6>1. u \in Lines
            BY DEF Lines
          <6> QED  BY <1>1, <1>2, <3>6, <6>1, TouchYounger DEF IInv, ConcreteOK
        <5> QED  BY <3>2, <4>1, <5>1, <5>2, <5>3 DEF YoungerCovered
      <4> QED  BY <4>2, <4>3
    <3>7. ASSUME NEW u \in Tags, u = t PROVE YoungerCovered(Info(s, "ELE"), u)'
      BY <3>5, <3>7 DEF YoungerCovered, Younger, Info, Interfering
    <3> QED  BY <3>5, <3>6, <3>7 DEF e
  <2>3. Charges(t, {t}, scopes)
    BY <1>1, <1>6 DEF Charges, Addresses
  <2>4. \A s \in scopes : s \in PersistentScopes(scopes2info[Followed], t, CNN)
    BY DEF scopes
  <2> HIDE DEF LinesChargedOnce
  <2> QED  BY <2>1, <2>2, <2>3, <2>4, TouchKeepsCharges
<1> QED  BY <1>5, <1>6, <1>7, <1>8, <1>9, <1>10 DEF IInv, ConcreteOK

\* one of the lines of an interval or an array,
LEMMA FollowedPotentiallyAccesses ==
  ASSUME IInv, IF apart = 0 THEN apart' = 0 ELSE apart' = apart + 1,
         NEW a \in Arrays \cup {{}}, NEW low \in Tags, NEW high \in Tags, NEW store,
         PotentialAccess(Followed, a, low, high, store)
  PROVE  IInv'
<1> DEFINE scopes == IF a = {} THEN {} ELSE ArrayPersistentScopes(scopes2info[Followed])
           info == PersistencePotentialUpdate(scopes2info[Followed], a, config.arrayAware)
           Touches(t) == /\ a # {} => t \in a
                         /\ age' = Touch(age, t)
                         /\ accessed' = [s \in DOMAIN accessed |-> accessed[s] \cup {t}]
                         /\ misses' = IF age[t] < Assoc THEN misses ELSE Charged(misses, scopes, a)
           Untouched == age' = age /\ accessed' = accessed /\ misses' = misses
<1>1. /\ config' = config /\ DOMAIN (dirt') = DOMAIN dirt
      /\ scopes2entercount' = scopes2entercount
      /\ scopes2info' = [scopes2info EXCEPT ![Followed] = info]
  BY DEF PotentialAccess
<1>2. Untouched \/ \E t \in Tags : Touches(t)
  <2>1. CASE UNCHANGED concrete
    BY <2>1 DEF concrete
  <2>2. CASE \E t \in Tags \cap low .. high :
               Execute(t, store, a, scopes, DirtPotentialReport(dirt[Followed], low, high, store))
    <3>1. PICK t \in Tags \cap low .. high :
               Execute(t, store, a, scopes, DirtPotentialReport(dirt[Followed], low, high, store))
      BY <2>2
    <3>2. a # {} => a = low .. high
      BY ArraysAssumption DEF PotentialAccess
    <3>3. Touches(t)
      BY <3>1, <3>2 DEF Execute
    <3> QED  BY <3>1, <3>3
  <2> QED  BY <2>1, <2>2 DEF PotentialAccess
<1>3. /\ config \in Configs /\ config.arrayAware \in BOOLEAN /\ Followed \in DOMAIN dirt
      /\ InfoOK(scopes2info[Followed], config)
  BY ConfigType DEF IInv, PathsOK, Paths
<1>4. /\ InfoOK(info, config) /\ DOMAIN info = DOMAIN scopes2info[Followed]
      /\ \A s \in Entered :
           /\ "SW" \in Analyses(config) =>
                info[s]["SW"] = SetWisePotentialUpdate(Info(s, "SW"), a, config.arrayAware)
           /\ "ELE" \in Analyses(config) =>
                info[s]["ELE"] = ElementWisePotentialUpdate(Info(s, "ELE"), a, config.arrayAware)
  <2>1. IsPotentialUpdate(scopes2info[Followed], info, a, config)
    BY <1>3, InfoPotentiallyUpdated
  <2> HIDE DEF info
  <2> QED  BY <2>1 DEF Entered, Info, IsPotentialUpdate
<1> HIDE DEF info, scopes
<1>5. PathsOK' /\ scopes2info'[Followed] = info
  BY <1>1, <1>3, <1>4, PathsAfterStep DEF IInv
<1>6. Entered' = Entered
  BY <1>4, <1>5 DEF Entered
<1>7. ASSUME NEW s \in Entered, "SW" \in Analyses(config), ~info[s]["SW"].top,
             NEW t \in Tags, a # {} => t \in a
      PROVE  Covers(info[s]["SW"], accessed[s] \cup {t})
  <2>1. Info(s, "SW") \in SetWiseType
    BY <1>3, <1>7 DEF InfoOK, Entered, Info
  <2>2. info[s]["SW"] = SetWisePotentialUpdate(Info(s, "SW"), a, config.arrayAware)
    BY <1>4, <1>7
  <2>3. ~Info(s, "SW").top
    BY <1>3, <1>7, <2>1, <2>2, SetWisePotentiallyUpdated
  <2>4. Covers(Info(s, "SW"), accessed[s]) /\ accessed[s] \in SUBSET Tags
    BY <1>7, <2>3 DEF IInv, AccessesCovered, ConcreteOK
  <2> QED  BY <1>3, <1>7, <2>1, <2>2, <2>4, CoversPotentialUpdate
<1>8. ASSUME CountsSoundly, "ELE" \in Analyses(config), NEW s \in Entered, NEW u \in Tags,
             YoungerCovered(Info(s, "ELE"), u)
      PROVE  YoungerCovered(Info(s, "ELE"), u)'
  <2> DEFINE e == Info(s, "ELE")
             g == info[s]["ELE"]
  <2>1. IsElementWise(e) /\ g = ElementWisePotentialUpdate(e, a, config.arrayAware)
    BY <1>3, <1>4, <1>8 DEF InfoOK, Entered, Info
  <2>2. Info(s, "ELE")' = g
    BY <1>5 DEF Info
  <2>3. u \in DOMAIN e
    BY <1>8 DEF YoungerCovered
  <2> HIDE DEF e, g
  <2>4. u \in DOMAIN g /\ g[u].top
    BY <1>3, <1>8, <2>1, <2>3, ElementWisePotentiallyUpdated DEF CountsSoundly
  <2> QED  BY <2>2, <2>4 DEF YoungerCovered
<1>9. CASE Untouched
  <2>1. ConcreteOK' /\ AgesCounted'
    BY <1>1, <1>6, <1>9 DEF IInv, ConcreteOK, AgesCounted, Younger, Interfering
  <2>2. AccessesCovered'
    <3> SUFFICES ASSUME NEW s \in Entered, "SW" \in Analyses(config), ~info[s]["SW"].top
                 PROVE  Covers(info[s]["SW"], accessed[s])
      BY <1>1, <1>5, <1>6, <1>9 DEF AccessesCovered, Info
    <3>1. PICK t \in Tags : a # {} => t \in a
      BY ArraysAssumption
    <3>2. Covers(info[s]["SW"], accessed[s] \cup {t})
      BY <1>7, <3>1
    <3> QED  BY <3>2 DEF Covers
  <2>3. CountsSoundly' => LinesChargedOnce'
    <3>1. SUFFICES ASSUME CountsSoundly, NEW s \in Entered
                   PROVE  \E C \in SUBSET accessed[s] :
                            /\ ChargedLines(misses[s], C)
                            /\ "ELE" \in Analyses(config) =>
                                 \A u \in C : YoungerCovered(Info(s, "ELE"), u)'
      BY <1>1, <1>6, <1>9 DEF CountsSoundly, LinesChargedOnce
    <3>2. PICK C \in SUBSET accessed[s] :
            /\ ChargedLines(misses[s], C)
            /\ "ELE" \in Analyses(config) => \A u \in C : YoungerCovered(Info(s, "ELE"), u)
      BY <3>1 DEF IInv, LinesChargedOnce
    <3>3. accessed[s] \in SUBSET Tags
      BY DEF IInv, ConcreteOK
    <3>4. "ELE" \in Analyses(config) => \A u \in C : YoungerCovered(Info(s, "ELE"), u)'
      BY <1>8, <3>1, <3>2, <3>3
    <3> QED  BY <3>2, <3>4
  <2> QED  BY <1>5, <2>1, <2>2, <2>3 DEF IInv
<1>10. ASSUME NEW t \in Tags, Touches(t)
       PROVE  IInv'
  <2>1. Charges(t, a, scopes)
    BY <1>1, <1>6, <1>10 DEF Charges, Addresses, scopes
  <2>2. age' \in Ages /\ AgesCounted' /\ accessed' \in [Entered -> SUBSET Tags]
    <3>1. t \in Lines
      BY DEF Lines
    <3> QED  BY <1>1, <1>6, <1>10, <3>1, TouchKeepsAges DEF IInv
  <2>3. misses' \in [Entered -> [Addresses -> Nat]]
    BY <2>1, TouchCharges
  <2>4. AccessesCovered'
    <3> SUFFICES ASSUME NEW s \in Entered, "SW" \in Analyses(config), ~info[s]["SW"].top
                 PROVE  Covers(info[s]["SW"], accessed'[s])
      BY <1>1, <1>5, <1>6 DEF AccessesCovered, Info
    <3>1. accessed'[s] = accessed[s] \cup {t}
      BY <1>10 DEF IInv, ConcreteOK
    <3> QED  BY <1>7, <1>10, <3>1
  <2>5. CountsSoundly' => LinesChargedOnce'
    <3>1. SUFFICES ASSUME CountsSoundly PROVE LinesChargedOnce'
      BY <1>1 DEF CountsSoundly
    <3>2. "ELE" \in Analyses(config) => scopes = {}
      <4>1. "ELE" \in Analyses(config) => "SW" \notin Analyses(config)
        BY <1>3, <3>1, ConfigType DEF CountsSoundly
      <4>2. \A s \in Entered : DOMAIN scopes2info[Followed][s] = Analyses(config)
        BY <1>3 DEF InfoOK, Entered
      <4> QED  BY <4>1, <4>2 DEF scopes, ArrayPersistentScopes, Entered
    <3>3. \A s \in scopes : s \in ArrayPersistentScopes(scopes2info[Followed])
      BY DEF scopes
    <3>4. "ELE" \in Analyses(config) =>
            \A s \in Entered :
              /\ \A u \in Tags : YoungerCovered(Info(s, "ELE"), u)
                                   => YoungerCovered(Info(s, "ELE"), u)'
              /\ s \in scopes => YoungerCovered(Info(s, "ELE"), t)'
      BY <1>8, <3>1, <3>2
    <3> HIDE DEF LinesChargedOnce
    <3> QED  BY <2>1, <3>1, <3>3, <3>4, TouchKeepsCharges
  <2> QED  BY <1>5, <1>6, <2>2, <2>3, <2>4, <2>5 DEF IInv, ConcreteOK
<1> QED  BY <1>2, <1>9, <1>10

\* or enters or leaves scopes.
LEMMA FollowedCrossesScope ==
  ASSUME IInv, IF apart = 0 THEN apart' = 0 ELSE apart' = apart + 1,
         NEW counts, CrossScope(Followed, counts)
  PROVE  IInv'
<1> DEFINE info == Keep(scopes2info[Followed], DOMAIN counts, InfoInit(config))
<1>1. /\ config' = config /\ dirt' = dirt /\ age' = age
      /\ scopes2entercount' = [scopes2entercount EXCEPT ![Followed] = counts]
      /\ scopes2info' = [scopes2info EXCEPT ![Followed] = info]
      /\ accessed' = Keep(accessed, DOMAIN counts, {})
      /\ misses' = Keep(misses, DOMAIN counts, NothingCharged)
  BY DEF CrossScope
<1>2. /\ config \in Configs /\ Followed \in DOMAIN dirt
      /\ InfoOK(scopes2info[Followed], config)
      /\ DOMAIN scopes2entercount = DOMAIN dirt
  BY DEF IInv, PathsOK, Paths
<1>3. /\ InfoOK(info, config) /\ DOMAIN info = DOMAIN counts
      /\ \A s \in DOMAIN counts :
           info[s] = IF s \in Entered THEN scopes2info[Followed][s] ELSE InfoInit(config)
  BY <1>2, InfoEntered DEF Keep, Entered
<1> HIDE DEF info
<1>4. PathsOK' /\ scopes2info'[Followed] = info
  <2>1. scopes2entercount'[Followed] = counts
    BY <1>1, <1>2
  <2> QED  BY <1>1, <1>2, <1>3, <2>1, PathsAfterStep DEF IInv
<1>5. Entered' = DOMAIN counts
  BY <1>3, <1>4 DEF Entered
<1>6. /\ DOMAIN accessed = Entered /\ DOMAIN misses = Entered
      /\ \A s \in Entered' :
           /\ accessed'[s] = IF s \in Entered THEN accessed[s] ELSE {}
           /\ misses'[s] = IF s \in Entered THEN misses[s] ELSE NothingCharged
      /\ accessed' = [s \in Entered' |-> accessed'[s]]
      /\ misses' = [s \in Entered' |-> misses'[s]]
  BY <1>1, <1>5 DEF IInv, ConcreteOK, Keep
<1>7. ConcreteOK'
  <2>1. \A s \in Entered' : accessed'[s] \in SUBSET Tags /\ misses'[s] \in [Addresses -> Nat]
    BY <1>6, NothingIsCharged DEF IInv, ConcreteOK
  <2> QED  BY <1>1, <1>6, <2>1 DEF IInv, ConcreteOK
<1>8. AgesCounted'
  BY <1>1, <1>6 DEF IInv, AgesCounted, Younger, Interfering
<1>9. \A s \in Entered' \cap Entered, n \in {"SW", "ELE"} : Info(s, n)' = Info(s, n)
  BY <1>3, <1>4, <1>5 DEF Info
<1>10. AccessesCovered'
  <2> SUFFICES ASSUME NEW s \in Entered', "SW" \in Analyses(config), ~Info(s, "SW")'.top
               PROVE  Covers(Info(s, "SW")', accessed'[s])
    BY <1>1 DEF AccessesCovered
  <2>1. CASE s \in Entered
    BY <1>6, <1>9, <2>1 DEF IInv, AccessesCovered
  <2>2. CASE s \notin Entered
    <3>1. Info(s, "SW")' = SetWiseInit
      BY <1>2, <1>3, <1>4, <1>5, <2>2, InfoEntered DEF Info
    <3> QED  BY <1>6, <2>2, <3>1, CoversInit
  <2> QED  BY <2>1, <2>2
<1>11. CountsSoundly' => LinesChargedOnce'
  <2>1. SUFFICES ASSUME CountsSoundly, NEW s \in Entered'
                 PROVE  \E C \in SUBSET accessed'[s] :
                          /\ ChargedLines(misses'[s], C)
                          /\ "ELE" \in Analyses(config) =>
                               \A u \in C : YoungerCovered(Info(s, "ELE"), u)'
    BY <1>1 DEF CountsSoundly, LinesChargedOnce
  <2>2. CASE s \in Entered
    <3>1. PICK C \in SUBSET accessed[s] :
            /\ ChargedLines(misses[s], C)
            /\ "ELE" \in Analyses(config) => \A u \in C : YoungerCovered(Info(s, "ELE"), u)
      BY <2>1, <2>2 DEF IInv, LinesChargedOnce
    <3>2. accessed'[s] = accessed[s] /\ misses'[s] = misses[s] /\ Info(s, "ELE")' = Info(s, "ELE")
      BY <1>6, <1>9, <2>1, <2>2
    <3>3. \A u : YoungerCovered(Info(s, "ELE"), u) => YoungerCovered(Info(s, "ELE"), u)'
      BY <1>1, <3>2 DEF YoungerCovered, Younger, Interfering
    <3> QED  BY <3>1, <3>2, <3>3
  <2>3. CASE s \notin Entered
    <3>1. ChargedLines(misses'[s], {})
      BY <1>6, <2>1, <2>3, NothingIsCharged
    <3> QED  BY <3>1
  <2> QED  BY <2>2, <2>3
<1> QED  BY <1>4, <1>7, <1>8, <1>10, <1>11 DEF IInv

\* Every step of a path keeps the invariant,
LEMMA StepKeepsInvariant ==
  ASSUME IInv, NEW p \in Paths, Step(p)
  PROVE  IInv'
<1>1. /\ p \in DOMAIN dirt
      /\ IF apart = 0 THEN apart' = 0 ELSE apart' = apart + 1
  BY DEF Step
<1>2. \/ \E t \in Tags, store \in Stores, outcome \in {"HIT", "MISS"}, split \in BOOLEAN :
           Access(p, t, store, outcome, split)
      \/ \E a \in Arrays \cup {{}}, low, high \in Tags, store \in Stores :
           PotentialAccess(p, a, low, high, store)
      \/ \E counts : CrossScope(p, counts)
  BY DEF Step, Enter, Leave
<1>3. CASE p = Followed
  <2>1. ASSUME NEW t \in Tags, NEW store, NEW outcome, NEW split,
               Access(Followed, t, store, outcome, split)
        PROVE  IInv'
    BY <1>1, <2>1, FollowedAccesses
  <2>2. ASSUME NEW a \in Arrays \cup {{}}, NEW low \in Tags, NEW high \in Tags, NEW store,
               PotentialAccess(Followed, a, low, high, store)
        PROVE  IInv'
    BY <1>1, <2>2, FollowedPotentiallyAccesses
  <2>3. ASSUME NEW counts, CrossScope(Followed, counts)
        PROVE  IInv'
    BY <1>1, <2>3, FollowedCrossesScope
  <2> QED  BY <1>2, <1>3, <2>1, <2>2, <2>3
<1>4. CASE p # Followed
  <2>0. /\ config \in Configs /\ InfoOK(scopes2info[p], config)
        /\ DOMAIN scopes2entercount = DOMAIN dirt
    BY <1>1 DEF IInv, PathsOK
  <2>1. ASSUME NEW t \in Tags, NEW store, NEW outcome, NEW split,
               Access(p, t, store, outcome, split)
        PROVE  IInv'
    <3> DEFINE info == PersistenceUpdate(scopes2info[p], t)
    <3>1. /\ config' = config /\ DOMAIN (dirt') = DOMAIN dirt
          /\ scopes2entercount' = scopes2entercount
          /\ scopes2info' = [scopes2info EXCEPT ![p] = info]
          /\ age' = age /\ accessed' = accessed /\ misses' = misses
      BY <1>4, <2>1 DEF Access, concrete
    <3>2. InfoOK(info, config) /\ DOMAIN info = DOMAIN scopes2info[p]
      BY <2>0, InfoUpdated
    <3> HIDE DEF info
    <3>3. PathsOK' /\ scopes2info'[Followed] = scopes2info[Followed]
      BY <1>1, <1>4, <3>1, <3>2, PathsAfterStep DEF IInv
    <3> QED  BY <3>1, <3>3, FollowedUntouched
  <2>2. ASSUME NEW a \in Arrays \cup {{}}, NEW low, NEW high, NEW store,
               PotentialAccess(p, a, low, high, store)
        PROVE  IInv'
    <3> DEFINE info == PersistencePotentialUpdate(scopes2info[p], a, config.arrayAware)
    <3>1. /\ config' = config /\ DOMAIN (dirt') = DOMAIN dirt
          /\ scopes2entercount' = scopes2entercount
          /\ scopes2info' = [scopes2info EXCEPT ![p] = info]
          /\ age' = age /\ accessed' = accessed /\ misses' = misses
      BY <1>4, <2>2 DEF PotentialAccess, concrete
    <3>2. InfoOK(info, config) /\ DOMAIN info = DOMAIN scopes2info[p]
      <4>1. IsPotentialUpdate(scopes2info[p], info, a, config)
        BY <2>0, InfoPotentiallyUpdated
      <4> HIDE DEF info
      <4> QED  BY <4>1 DEF IsPotentialUpdate
    <3> HIDE DEF info
    <3>3. PathsOK' /\ scopes2info'[Followed] = scopes2info[Followed]
      BY <1>1, <1>4, <3>1, <3>2, PathsAfterStep DEF IInv
    <3> QED  BY <3>1, <3>3, FollowedUntouched
  <2>3. ASSUME NEW counts, CrossScope(p, counts)
        PROVE  IInv'
    <3> DEFINE info == Keep(scopes2info[p], DOMAIN counts, InfoInit(config))
    <3>1. /\ config' = config /\ dirt' = dirt
          /\ scopes2entercount' = [scopes2entercount EXCEPT ![p] = counts]
          /\ scopes2info' = [scopes2info EXCEPT ![p] = info]
          /\ age' = age /\ accessed' = accessed /\ misses' = misses
      BY <1>4, <2>3 DEF CrossScope
    <3>2. InfoOK(info, config) /\ DOMAIN info = DOMAIN counts
      BY <2>0, InfoEntered DEF Keep
    <3> HIDE DEF info
    <3>3. scopes2entercount'[p] = counts
      BY <1>1, <2>0, <3>1
    <3>4. PathsOK' /\ scopes2info'[Followed] = scopes2info[Followed]
      BY <1>1, <1>4, <3>1, <3>2, <3>3, PathsAfterStep DEF IInv
    <3> QED  BY <3>1, <3>4, FollowedUntouched
  <2> QED  BY <1>2, <2>1, <2>2, <2>3
<1> QED  BY <1>3, <1>4

\* as does the access of another core to the shared set,
LEMMA ForeignAccessKeepsInvariant ==
  ASSUME IInv, ForeignAccess
  PROVE  IInv'
<1>1. PICK t \in Foreign : age' = Touch(age, t)
  BY DEF ForeignAccess
<1>2. /\ config.shared /\ config' = config /\ apart' = apart
      /\ scopes2info' = scopes2info /\ scopes2entercount' = scopes2entercount /\ dirt' = dirt
      /\ accessed' = accessed /\ misses' = misses
  BY DEF ForeignAccess
<1>3. /\ t \in Lines /\ t \in Interfering /\ t \notin Tags
      /\ Interfering' = Interfering
  BY <1>2, LinesAssumption DEF Lines, Interfering
<1>4. PathsOK' /\ Entered' = Entered
  BY <1>2 DEF IInv, PathsOK, Entered
<1>5. age' \in Ages /\ AgesCounted' /\ accessed' \in [Entered -> SUBSET Tags]
  BY <1>1, <1>2, <1>3, <1>4, TouchKeepsAges DEF IInv
<1>6. AccessesCovered'
  BY <1>2, <1>4 DEF IInv, AccessesCovered, Info
<1>7. CountsSoundly' => LinesChargedOnce'
  <2>1. SUFFICES ASSUME CountsSoundly, NEW s \in Entered
                 PROVE  \E C \in SUBSET accessed[s] :
                          /\ ChargedLines(misses[s], C)
                          /\ "ELE" \in Analyses(config) =>
                               \A u \in C : YoungerCovered(Info(s, "ELE"), u)'
    BY <1>2, <1>4 DEF CountsSoundly, LinesChargedOnce
  <2>2. PICK C \in SUBSET accessed[s] :
          /\ ChargedLines(misses[s], C)
          /\ "ELE" \in Analyses(config) => \A u \in C : YoungerCovered(Info(s, "ELE"), u)
    BY <2>1 DEF IInv, LinesChargedOnce
  <2>3. accessed[s] \in SUBSET Tags
    BY DEF IInv, ConcreteOK
  <2>4. ASSUME NEW u \in C, YoungerCovered(Info(s, "ELE"), u)
        PROVE  YoungerCovered(Info(s, "ELE"), u)'
    <3>1. u \in Lines /\ u # t
      BY <1>3, <2>3 DEF Lines
    <3>2. Younger(u)' \subseteq Younger(u) \cup {t}
      BY <1>1, <1>3, <3>1, TouchYounger DEF IInv, ConcreteOK
    <3>3. Info(s, "ELE")' = Info(s, "ELE")
      BY <1>2 DEF Info
    <3> QED  BY <1>3, <2>4, <3>2, <3>3 DEF YoungerCovered
  <2> QED  BY <2>2, <2>4
<1> QED  BY <1>2, <1>4, <1>5, <1>6, <1>7 DEF IInv, ConcreteOK

\* the split of the paths
LEMMA SplitOffKeepsInvariant ==
  ASSUME IInv, SplitOff
  PROVE  IInv'
<1>1. /\ config' = config /\ apart' = 1
      /\ scopes2info' = [p \in Paths |-> scopes2info[Followed]]
      /\ scopes2entercount' = [p \in Paths |-> scopes2entercount[Followed]]
      /\ dirt' = [p \in Paths |-> dirt[Followed]]
      /\ age' = age /\ accessed' = accessed /\ misses' = misses
  BY DEF SplitOff, concrete
<1>2. Followed \in DOMAIN dirt /\ Followed \in Paths
  BY DEF IInv, PathsOK, Paths
<1>3. PathsOK'
  BY <1>1, <1>2 DEF IInv, PathsOK
<1> QED  BY <1>1, <1>2, <1>3, FollowedUntouched

\* and their join.
LEMMA JoinKeepsInvariant ==
  ASSUME IInv, Join
  PROVE  IInv'
<1>1. /\ config' = config /\ apart' = 0 /\ apart > 0
      /\ scopes2entercount' = [p \in {Followed} |-> scopes2entercount[p]]
      /\ DOMAIN (dirt') = {Followed}
      /\ age' = age /\ accessed' = accessed /\ misses' = misses
  BY DEF Join, concrete
<1>2. /\ config \in Configs /\ config.arrayAware \in BOOLEAN /\ DOMAIN dirt = Paths
      /\ \A p \in Paths : /\ InfoOK(scopes2info[p], config)
                         /\ DOMAIN scopes2info[p] = DOMAIN scopes2entercount[p]
  BY <1>1, ConfigType DEF IInv, PathsOK
<1>3. ASSUME NEW info, scopes2info' = [p \in {Followed} |-> info], InfoOK(info, config),
             DOMAIN info = DOMAIN scopes2entercount[Followed]
      PROVE  PathsOK' /\ scopes2info'[Followed] = info /\ Entered' = Entered
  BY <1>1, <1>2, <1>3 DEF PathsOK, Entered, Paths
<1>4. CASE scopes2info' = [p \in {Followed} |-> scopes2info[p]]
  <2>1. PathsOK' /\ scopes2info'[Followed] = scopes2info[Followed]
    BY <1>2, <1>3, <1>4 DEF Paths
  <2> QED  BY <1>1, <2>1, FollowedUntouched
<1>5. CASE /\ scopes2entercount[Followed] = scopes2entercount[Other]
           /\ scopes2info' = [p \in {Followed} |->
                PersistenceJoin(scopes2info[p], scopes2info[Other], config.arrayAware)]
  <2> DEFINE x == scopes2info[Followed]
             y == scopes2info[Other]
             info == PersistenceJoin(x, y, config.arrayAware)
  <2>1. InfoOK(x, config) /\ InfoOK(y, config) /\ DOMAIN x = DOMAIN y /\ DOMAIN x = Entered
    BY <1>2, <1>5 DEF Paths, Entered
  <2> HIDE DEF x, y
  <2>2. /\ InfoOK(info, config) /\ DOMAIN info = DOMAIN x
        /\ \A s \in DOMAIN x :
             /\ "SW" \in Analyses(config) =>
                  info[s]["SW"] = SetWiseJoin(x[s]["SW"], y[s]["SW"], config.arrayAware)
             /\ "ELE" \in Analyses(config) =>
                  info[s]["ELE"] = ElementWiseJoin(x[s]["ELE"], y[s]["ELE"], config.arrayAware)
    <3>1. IsInfoJoin(x, y, info, config)
      BY <1>2, <2>1, InfoJoined
    <3> HIDE DEF info
    <3> QED  BY <3>1 DEF IsInfoJoin
  <2>3. PathsOK' /\ scopes2info'[Followed] = info /\ Entered' = Entered
    BY <1>2, <1>3, <1>5, <2>2 DEF x, y, Paths
  <2> HIDE DEF info
  <2>4. \A s, n : Info(s, n) = x[s][n] /\ Info(s, n)' = info[s][n]
    BY <2>3 DEF Info, x
  <2>5. ConcreteOK' /\ AgesCounted'
    BY <1>1, <2>3 DEF IInv, ConcreteOK, AgesCounted, Younger, Interfering
  <2>6. AccessesCovered'
    <3> SUFFICES ASSUME NEW s \in Entered, "SW" \in Analyses(config), ~info[s]["SW"].top
                 PROVE  Covers(info[s]["SW"], accessed[s])
      BY <1>1, <2>3, <2>4 DEF AccessesCovered
    <3>1. /\ x[s]["SW"] \in SetWiseType /\ y[s]["SW"] \in SetWiseType
          /\ info[s]["SW"] = SetWiseJoin(x[s]["SW"], y[s]["SW"], config.arrayAware)
      BY <2>1, <2>2 DEF InfoOK
    <3>2. IsJoin(x[s]["SW"], y[s]["SW"], info[s]["SW"])
      BY <1>2, <3>1, SetWiseJoined
    <3>3. Covers(x[s]["SW"], accessed[s])
      BY <2>4, <3>2 DEF IsJoin, IInv, AccessesCovered
    <3> QED  BY <1>2, <3>1, <3>3, CoversJoin
  <2>7. CountsSoundly' => LinesChargedOnce'
    <3>1. SUFFICES ASSUME CountsSoundly, NEW s \in Entered
                   PROVE  \E C \in SUBSET accessed[s] :
                            /\ ChargedLines(misses[s], C)
                            /\ "ELE" \in Analyses(config) =>
                                 \A u \in C : YoungerCovered(Info(s, "ELE"), u)'
      BY <1>1, <2>3 DEF CountsSoundly, LinesChargedOnce
    <3>2. PICK C \in SUBSET accessed[s] :
            /\ ChargedLines(misses[s], C)
            /\ "ELE" \in Analyses(config) => \A u \in C : YoungerCovered(Info(s, "ELE"), u)
      BY <3>1 DEF IInv, LinesChargedOnce
    <3>3. ASSUME "ELE" \in Analyses(config), NEW u, YoungerCovered(Info(s, "ELE"), u)
          PROVE  YoungerCovered(Info(s, "ELE"), u)'
      <4> DEFINE e == x[s]["ELE"]
                 g == info[s]["ELE"]
      <4>1. /\ IsElementWise(e) /\ IsElementWise(y[s]["ELE"])
            /\ g = ElementWiseJoin(e, y[s]["ELE"], config.arrayAware)
        BY <2>1, <2>2, <3>3 DEF InfoOK
      <4>2. Info(s, "ELE") = e /\ Info(s, "ELE")' = g
        BY <2>4
      <4> HIDE DEF e, g
      <4>3. Extends(e, g)
        BY <1>2, <4>1, ElementWiseJoined
      <4>4. Younger(u)' = Younger(u) /\ Interfering' = Interfering
        BY <1>1 DEF Younger, Interfering
      <4> QED  BY <3>3, <4>2, <4>3, <4>4 DEF YoungerCovered, Extends
    <3> QED  BY <3>2, <3>3
  <2> QED  BY <2>3, <2>5, <2>6, <2>7 DEF IInv
<1> QED  BY <1>4, <1>5 DEF Join

-----------------------------------------------------------------------------
\* The invariant holds in a set of which nothing is known.
LEMMA InitEstablishesInvariant ==
  ASSUME Init
  PROVE  IInv
<1>1. /\ config \in Configs /\ apart = 0 /\ DOMAIN dirt = {Followed}
      /\ DOMAIN scopes2info = {Followed} /\ DOMAIN scopes2entercount = {Followed}
      /\ DOMAIN scopes2info[Followed] = {} /\ DOMAIN scopes2entercount[Followed] = {}
      /\ accessed = [s \in {} |-> {}] /\ misses = [s \in {} |-> NothingCharged]
  BY DEF Init
<1>2. Entered = {}
  BY <1>1 DEF Entered
<1>3. NotCached \in Ages
  BY AssocAssumption DEF NotCached, Ages
<1>4. age \in Ages
  BY <1>3 DEF Init
<1>5. PathsOK
  BY <1>1 DEF PathsOK, InfoOK
<1>6. ConcreteOK
  BY <1>1, <1>2, <1>4 DEF ConcreteOK
<1>7. AgesCounted /\ AccessesCovered /\ LinesChargedOnce
  BY <1>2 DEF AgesCounted, AccessesCovered, LinesChargedOnce
<1> QED  BY <1>5, <1>6, <1>7 DEF IInv

\* The inductive invariant: every path carries well-formed information, the lines
\* accessed in a scope are covered by what was counted, are as old as lines were
\* accessed after them, and each charged miss was that of a line of its own.
THEOREM Invariant == Spec => []IInv
<1>1. Init => IInv
  BY InitEstablishesInvariant
<1>2. IInv /\ [Next]_vars => IInv'
  <2> SUFFICES ASSUME IInv, [Next]_vars PROVE IInv'
    OBVIOUS
  <2>1. CASE SplitOff
    BY <2>1, SplitOffKeepsInvariant
  <2>2. CASE Join
    BY <2>2, JoinKeepsInvariant
  <2>3. CASE ForeignAccess
    BY <2>3, ForeignAccessKeepsInvariant
  <2>4. CASE \E p \in Paths : Step(p)
    BY <2>4, StepKeepsInvariant
  <2>5. CASE UNCHANGED vars
    <3>1. PathsOK'
      BY <2>5 DEF vars, IInv, PathsOK
    <3> QED  BY <2>5, <3>1, FollowedUntouched DEF vars, concrete
  <2> QED  BY <2>1, <2>2, <2>3, <2>4, <2>5 DEF Next
<1> QED  BY <1>1, <1>2, PTL DEF Spec

\* The conflict set of the set-wise analysis is never smaller than the number of
\* lines accessed in the set since the scope was entered (getCSS).
THEOREM ConflictsAreCounted == Spec => []ConflictsCounted
<1>1. IInv => ConflictsCounted
  <2> SUFFICES ASSUME IInv, "SW" \in Analyses(config), NEW s \in DOMAIN accessed,
                      ~scopes2info[Followed][s]["SW"].top
               PROVE  Cardinality(accessed[s]) <= CSS(scopes2info[Followed][s]["SW"])
    BY DEF ConflictsCounted
  <2>1. s \in Entered /\ accessed[s] \in SUBSET Tags /\ Followed \in DOMAIN dirt
    BY DEF IInv, ConcreteOK, PathsOK, Paths
  <2>2. Info(s, "SW") \in SetWiseType /\ Covers(Info(s, "SW"), accessed[s])
    BY <2>1 DEF IInv, PathsOK, InfoOK, AccessesCovered, Entered, Info
  <2> QED  BY <2>1, <2>2, CoversCounts DEF Info
<1> QED  BY <1>1, Invariant, PTL

\* The persistence constraints of the path analysis leave out no execution: per
\* entry of a scope an address misses at most once for each of its lines while it
\* is called persistent (StateGraphCacheMissProvider).
THEOREM OneMissPerLine == Spec => []OneMissPerEntry
<1>1. IInv => OneMissPerEntry
  <2> SUFFICES ASSUME IInv, CountsSoundly, NEW s \in DOMAIN misses, NEW x \in Addresses
               PROVE  ChargedTo(misses[s], x) <= Cardinality(x)
    BY DEF OneMissPerEntry, PersistenceConstraints
  <2>1. s \in Entered /\ accessed[s] \in SUBSET Tags
    BY DEF IInv, ConcreteOK
  <2>2. PICK C \in SUBSET accessed[s] : ChargedLines(misses[s], C)
    BY <2>1 DEF IInv, LinesChargedOnce
  <2> QED  BY <2>1, <2>2, ChargesBounded
<1> QED  BY <1>1, Invariant, PTL

-----------------------------------------------------------------------------
\* The dirtiness analysis: what its updates do to the status of a line.

Statuses == {"CLEAN", "DIRTY", "UNKNOWN"}

\* A state is made of these parts, the map of which is about some lines.
DirtType(d) ==
  /\ d = [must |-> d.must, may |-> d.may, implicitDirty |-> d.implicitDirty,
          dirtiness |-> d.dirtiness]
  /\ MustVector(d.must) /\ MayState(d.may) /\ d.implicitDirty \in BOOLEAN
  /\ DOMAIN d.dirtiness \subseteq Nat /\ d.dirtiness \in [DOMAIN d.dirtiness -> Statuses]

\* A state as the operations leave it: the assertions hold, and while lines that are not
\* in the map may be dirty they may be cached.
DirtState(d) ==
  DirtType(d) /\ CheckInvariants(d) /\ (d.implicitDirty => d.may.implicit < Assoc)

\* The status of each line in the map is that which DirtinessOf gives.
LEMMA StatusType ==
  ASSUME NEW d, DirtType(d), NEW u
  PROVE  /\ DirtinessOf(d, u) \in Statuses
         /\ u \in DOMAIN d.dirtiness => DirtinessOf(d, u) = d.dirtiness[u]
         /\ u \notin DOMAIN d.dirtiness =>
              DirtinessOf(d, u) = IF d.implicitDirty THEN "UNKNOWN" ELSE "CLEAN"
BY DEF DirtType, DirtinessOf, Implied, Statuses

\* The state with other dirtiness, and the state with other bounds.
WithMap(d, implicitDirty, f) ==
  [must |-> d.must, may |-> d.may, implicitDirty |-> implicitDirty, dirtiness |-> f]
WithBounds(d, v, s, f) ==
  [must |-> v, may |-> s, implicitDirty |-> d.implicitDirty, dirtiness |-> f]

\* incorporate() of the reports drops the lines ma that may have been evicted, and those
\* the last unknown line has left behind; a line of me is no longer surely dirty.
Staying(d, ma, just) ==
  {u \in DOMAIN d.dirtiness \ ma : just => d.dirtiness[u] # "CLEAN" /\ MinAge(d.may, u) < Assoc}
Incorporated(d, me, ma, just) ==
  [u \in Staying(d, ma, just) |->
     IF u \in me /\ d.dirtiness[u] = "DIRTY" THEN "UNKNOWN" ELSE d.dirtiness[u]]
\* What incorporate() does is to leave such a map.
LEMMA IncorporateIs ==
  ASSUME NEW d, NEW v, NEW s, NEW n, NEW f,
         d = [must |-> v, may |-> s, implicitDirty |-> n, dirtiness |-> f],
         NEW me, NEW ma, NEW just \in BOOLEAN
  PROVE  Incorporate(d, me, ma, just) = WithMap(d, n /\ ~just, Incorporated(d, me, ma, just))
<1> DEFINE known == IF just THEN {t \in DOMAIN d.dirtiness :
                                    d.dirtiness[t] # "CLEAN" /\ MinAge(d.may, t) < Assoc}
                    ELSE DOMAIN d.dirtiness
           g == [t \in known \ ma |-> IF t \in me /\ d.dirtiness[t] = "DIRTY" THEN "UNKNOWN"
                                      ELSE d.dirtiness[t]]
<1>1. Incorporate(d, me, ma, just) =
        [d EXCEPT !.implicitDirty = d.implicitDirty /\ ~just, !.dirtiness = g]
  BY DEF Incorporate
<1>2. known \ ma = Staying(d, ma, just)
  BY DEF Staying
<1>3. g = Incorporated(d, me, ma, just)
  BY <1>2 DEF Incorporated
<1> HIDE DEF g
<1>4. d.implicitDirty = n
  OBVIOUS
<1> QED  BY <1>1, <1>3, <1>4 DEF WithMap

\* The map when the line is accessed.
AccessedMap(d, t, store) ==
  [u \in DOMAIN d.dirtiness \cup {t} |-> IF store /\ u = t THEN "DIRTY" ELSE DirtinessOf(d, u)]
\* The state, the reports about which update() incorporates, is this one.
LEMMA AccessedIs ==
  ASSUME NEW d, DirtType(d), NEW t, NEW store \in BOOLEAN, NEW hit
  PROVE  Accessed(d, t, store, hit) =
           WithBounds(d, MustUpdate(d.must, t, hit), MayUpdate(d.may, t), AccessedMap(d, t, store))
<1> DEFINE f == IF store THEN [Tracked(d, {t}) EXCEPT ![t] = "DIRTY"] ELSE Tracked(d, {t})
<1>1. f = AccessedMap(d, t, store)
  BY DEF AccessedMap, Tracked
<1>2. Accessed(d, t, store, hit) =
        [d EXCEPT !.dirtiness = f, !.must = MustUpdate(d.must, t, hit), !.may = MayUpdate(d.may, t)]
  BY DEF Accessed
<1> HIDE DEF f
<1>3. d = [must |-> d.must, may |-> d.may, implicitDirty |-> d.implicitDirty,
          dirtiness |-> d.dirtiness]
  BY DEF DirtType
<1> QED  BY <1>1, <1>2, <1>3 DEF WithBounds

\* The oldest lines of a must vector are those of the last age.
LEMMA OldestMust ==
  ASSUME NEW v, MustVector(v), NEW u
  PROVE  u \in Oldest(v) <=> MustAge(v, u) = Assoc - 1
<1>1. MustAge(v, u) \in 0 .. Assoc /\ (u \in TagsOf(v) <=> MustAge(v, u) < Assoc)
  BY MustAges
<1> QED  BY <1>1, AssocAssumption DEF Oldest

\* The lines of a may state with a bound of the last age.
LEMMA OldestMay ==
  ASSUME NEW s, MayState(s), NEW u
  PROVE  u \in Oldest(s.explicit) <=> MinAge(s, u) = Assoc - 1 /\ s.implicit = Assoc
<1> DEFINE v == s.explicit
<1>1. /\ MinAge(s, u) \in 0 .. Assoc /\ s.implicit \in 0 .. Assoc
      /\ u \in TagsOf(v) <=> MinAge(s, u) < s.implicit
  BY MayAges DEF MayState
<1>2. u \in TagsOf(v) => MustAge(v, u) = MinAge(s, u)
  <2>1. ASSUME u \in TagsOf(v) PROVE Position(v, u) # 0
    <3>1. Vector(v)
      BY DEF MayState
    <3> HIDE DEF v
    <3>2. Position(v, u) \in 1 .. Len(v)
      BY <2>1, <3>1, PositionFinds
    <3>3. Len(v) \in Nat
      BY <3>1, VectorEntries
    <3> QED  BY <3>2, <3>3
  <2> QED  BY <2>1 DEF MustAge, MinAge
<1>3. u \in Oldest(v) <=> u \in TagsOf(v) /\ MustAge(v, u) = Assoc - 1
  BY DEF Oldest
<1> HIDE DEF v
<1> QED  BY <1>1, <1>2, <1>3, AssocAssumption DEF v

\* What the reports of the may analysis say: the lines that are evicted if they have been
\* cached, and whether all the lines are that it does not know.
LEMMA MayReports ==
  ASSUME NEW d, DirtType(d), NEW t, NEW u
  PROVE  /\ u \in MayEvicted(d, t) <=>
              /\ u # t /\ MinAge(d.may, u) = Assoc - 1
              /\ d.may.implicit = Assoc /\ MinAge(d.may, t) >= Assoc - 1
         /\ JustEvictedUnknowns(d, t) <=>
              d.may.implicit = Assoc - 1 /\ MinAge(d.may, t) = Assoc - 1
<1> DEFINE s == d.may
<1>1. /\ MinAge(s, t) \in 0 .. Assoc /\ s.implicit \in 0 .. Assoc /\ MinAge(s, t) <= s.implicit
      /\ t \in TagsOf(s.explicit) <=> MinAge(s, t) < s.implicit
      /\ u \in Oldest(s.explicit) <=> MinAge(s, u) = Assoc - 1 /\ s.implicit = Assoc
  <2>1. MayState(s)
    BY DEF DirtType
  <2> HIDE DEF s
  <2> QED  BY <2>1, MayAges, OldestMay DEF MayState
<1>2. JustEvictedUnknowns(d, t) <=> s.implicit = Assoc - 1 /\ MinAge(s, t) = Assoc - 1
  BY <1>1, AssocAssumption DEF JustEvictedUnknowns, UnknownsAge
<1>3. u \in MayEvicted(d, t) <=>
        /\ u # t /\ MinAge(s, u) = Assoc - 1 /\ s.implicit = Assoc
        /\ t \in TagsOf(s.explicit) => MinAge(s, t) = Assoc - 1
        /\ s.implicit = Assoc \/ JustEvictedUnknowns(d, t)
  BY <1>1 DEF MayEvicted
<1> HIDE DEF s
<1> QED  BY <1>1, <1>2, <1>3, AssocAssumption DEF s

\* What the must analysis reports of it.
LEMMA MustReports ==
  ASSUME NEW d, DirtType(d), NEW t, NEW hit \in BOOLEAN, NEW u
  PROVE  u \in MustEvicted(d, t, hit) <=>
           MustAge(d.must, u) = Assoc - 1 /\ AccessedAge(d.must, t, hit) = Assoc
<1>1. /\ u \in Oldest(d.must) <=> MustAge(d.must, u) = Assoc - 1
      /\ MustAge(d.must, t) \in 0 .. Assoc
      /\ t \in TagsOf(d.must) <=> MustAge(d.must, t) < Assoc
  BY OldestMust, MustAges DEF DirtType
<1>2. AccessedAge(d.must, t, hit) = Assoc <=> ~(t \in TagsOf(d.must) \/ hit)
  BY <1>1, AssocAssumption DEF AccessedAge
<1> QED  BY <1>1, <1>2 DEF MustEvicted

\* The bounds of line u after an access to t.
LEMMA UpdatedBounds ==
  ASSUME NEW d, DirtType(d), NEW t \in Nat, NEW hit \in BOOLEAN,
         hit => t \in TagsOf(d.must) \/ Len(d.must) < Assoc
  PROVE  LET v == MustUpdate(d.must, t, hit)
             s == MayUpdate(d.may, t)
             n == AccessedAge(d.must, t, hit)
         IN  /\ MustVector(v) /\ MayState(s) /\ n \in 0 .. Assoc
             /\ s.implicit = AgesWith(d.may.implicit, MinAge(d.may, t))
             /\ \A u \in Nat :
                  /\ MustAge(d.must, u) \in 0 .. Assoc /\ MinAge(d.may, u) \in 0 .. Assoc
                  /\ MinAge(d.may, u) <= d.may.implicit /\ d.may.implicit \in 0 .. Assoc
                  /\ MustAge(v, u) = IF u = t THEN 0
                                     ELSE IF MustAge(d.must, u) < n THEN MustAge(d.must, u) + 1
                                     ELSE MustAge(d.must, u)
                  /\ MinAge(s, u) = IF u = t THEN 0
                                    ELSE AgesWith(MinAge(d.may, u), MinAge(d.may, t))
<1> DEFINE v == MustUpdate(d.must, t, hit)
           s == MayUpdate(d.may, t)
           n == AccessedAge(d.must, t, hit)
<1>1. MustVector(d.must) /\ MayState(d.may)
  BY DEF DirtType
<1>2. ASSUME NEW u
      PROVE  /\ MustVector(v) /\ n \in 0 .. Assoc
             /\ MustAge(v, u) = IF u = t THEN 0
                                ELSE IF MustAge(d.must, u) < n THEN MustAge(d.must, u) + 1
                                ELSE MustAge(d.must, u)
             /\ MustAge(d.must, u) \in 0 .. Assoc /\ MinAge(d.may, u) \in 0 .. Assoc
             /\ MinAge(d.may, u) <= d.may.implicit
  <2>1. /\ MustVector(v) /\ n \in 0 .. Assoc
        /\ MustAge(v, u) = IF u = t THEN 0
                           ELSE IF MustAge(d.must, u) < n THEN MustAge(d.must, u) + 1
                           ELSE MustAge(d.must, u)
    BY <1>1, MustUpdateAges
  <2>2. MustAge(d.must, u) \in 0 .. Assoc
    BY <1>1, MustAges
  <2>3. MinAge(d.may, u) \in 0 .. Assoc /\ MinAge(d.may, u) <= d.may.implicit
    BY <1>1, MayAges
  <2> HIDE DEF v, n
  <2> QED  BY <2>1, <2>2, <2>3
<1>3. /\ MayState(s) /\ s.implicit = AgesWith(d.may.implicit, MinAge(d.may, t))
      /\ \A u \in Nat : MinAge(s, u) = IF u = t THEN 0
                                       ELSE AgesWith(MinAge(d.may, u), MinAge(d.may, t))
  BY <1>1, MayUpdateAges
<1>4. d.may.implicit \in 0 .. Assoc
  BY <1>1 DEF MayState
<1> HIDE DEF v, s, n
<1>5. /\ MustVector(v) /\ MayState(s) /\ n \in 0 .. Assoc
      /\ s.implicit = AgesWith(d.may.implicit, MinAge(d.may, t))
      /\ \A u \in Nat :
           /\ MustAge(d.must, u) \in 0 .. Assoc /\ MinAge(d.may, u) \in 0 .. Assoc
           /\ MinAge(d.may, u) <= d.may.implicit /\ d.may.implicit \in 0 .. Assoc
           /\ MustAge(v, u) = IF u = t THEN 0
                              ELSE IF MustAge(d.must, u) < n THEN MustAge(d.must, u) + 1
                              ELSE MustAge(d.must, u)
           /\ MinAge(s, u) = IF u = t THEN 0
                             ELSE AgesWith(MinAge(d.may, u), MinAge(d.may, t))
  BY <1>2, <1>3, <1>4
<1> QED  BY <1>5 DEF v, s, n

\* The status of each line after an access to t.
LEMMA UpdatedStatus ==
  ASSUME NEW d, DirtType(d), NEW t \in Nat, NEW store \in BOOLEAN, NEW hit \in BOOLEAN,
         hit => t \in TagsOf(d.must) \/ Len(d.must) < Assoc
  PROVE  LET e == DirtUpdate(d, t, store, hit)
             just == JustEvictedUnknowns(d, t)
             Status(u) == IF store /\ u = t THEN "DIRTY" ELSE DirtinessOf(d, u)
         IN  /\ DirtType(e)
             /\ e.must = MustUpdate(d.must, t, hit) /\ e.may = MayUpdate(d.may, t)
             /\ e.implicitDirty = (d.implicitDirty /\ ~just)
             /\ \A u : /\ u \in DOMAIN e.dirtiness <=>
                            /\ u \in DOMAIN d.dirtiness \/ u = t
                            /\ u \notin MayEvicted(d, t)
                            /\ just => Status(u) # "CLEAN" /\ MinAge(e.may, u) < Assoc
                       /\ u \in DOMAIN e.dirtiness =>
                            e.dirtiness[u] =
                              IF u \in MustEvicted(d, t, hit) /\ Status(u) = "DIRTY"
                              THEN "UNKNOWN" ELSE Status(u)
<1> DEFINE v == MustUpdate(d.must, t, hit)
           s == MayUpdate(d.may, t)
           f == AccessedMap(d, t, store)
           c == WithBounds(d, v, s, f)
           me == MustEvicted(d, t, hit)
           ma == MayEvicted(d, t)
           just == JustEvictedUnknowns(d, t)
           g == Incorporated(c, me, ma, just)
           e == DirtUpdate(d, t, store, hit)
           Status(u) == IF store /\ u = t THEN "DIRTY" ELSE DirtinessOf(d, u)
<1>1. MustVector(v) /\ MayState(s)
  BY UpdatedBounds
<1>2. /\ DOMAIN f = DOMAIN d.dirtiness \cup {t} /\ DOMAIN f \subseteq Nat
      /\ \A u \in DOMAIN f : f[u] = Status(u) /\ Status(u) \in Statuses
  BY StatusType DEF AccessedMap, DirtType, Statuses
<1>3. just \in BOOLEAN /\ d.implicitDirty \in BOOLEAN
  BY DEF JustEvictedUnknowns, DirtType, UnknownsAge
<1> HIDE DEF v, s, f, me, ma, just
<1>4. /\ c = [must |-> v, may |-> s, implicitDirty |-> d.implicitDirty, dirtiness |-> f]
      /\ c.may = s /\ c.dirtiness = f
  BY DEF WithBounds
<1>5. e = Incorporate(c, me, ma, just)
  BY AccessedIs DEF DirtUpdate, v, s, f, me, ma, just
<1> HIDE DEF c, e
<1>6. e = WithMap(c, d.implicitDirty /\ ~just, g)
  BY <1>3, <1>4, <1>5, IncorporateIs
<1>7. /\ DOMAIN g = {u \in DOMAIN f \ ma : just => f[u] # "CLEAN" /\ MinAge(s, u) < Assoc}
      /\ \A u \in DOMAIN g : g[u] = IF u \in me /\ f[u] = "DIRTY" THEN "UNKNOWN" ELSE f[u]
      /\ g = [u \in DOMAIN g |-> g[u]]
  BY <1>4 DEF Incorporated, Staying
<1> HIDE DEF g
<1>8. \A u \in DOMAIN g : g[u] \in Statuses
  BY <1>2, <1>7 DEF Statuses
<1>9. /\ e = [must |-> v, may |-> s, implicitDirty |-> d.implicitDirty /\ ~just, dirtiness |-> g]
      /\ e.must = v /\ e.may = s /\ e.implicitDirty = (d.implicitDirty /\ ~just) /\ e.dirtiness = g
  BY <1>4, <1>6 DEF WithMap
<1>10. g \in [DOMAIN g -> Statuses] /\ DOMAIN g \subseteq Nat
  BY <1>2, <1>7, <1>8
<1>11. DirtType(e)
  BY <1>1, <1>3, <1>9, <1>10 DEF DirtType
<1>12. ASSUME NEW u
       PROVE  /\ u \in DOMAIN e.dirtiness <=>
                   /\ u \in DOMAIN d.dirtiness \/ u = t
                   /\ u \notin ma
                   /\ just => Status(u) # "CLEAN" /\ MinAge(e.may, u) < Assoc
              /\ u \in DOMAIN e.dirtiness =>
                   e.dirtiness[u] = IF u \in me /\ Status(u) = "DIRTY" THEN "UNKNOWN" ELSE Status(u)
  <2> HIDE DEF Status
  <2> QED  BY <1>2, <1>7, <1>9
<1> QED  BY <1>9, <1>11, <1>12 DEF e, v, s, me, ma, just

\* An access leaves a state, and reaches none of the assertions of update().
LEMMA DirtStateUpdated ==
  ASSUME NEW d, DirtState(d), NEW t \in Nat, NEW store \in BOOLEAN, NEW hit \in BOOLEAN,
         hit => t \in TagsOf(d.must) \/ Len(d.must) < Assoc
  PROVE  DirtState(DirtUpdate(d, t, store, hit))
<1> DEFINE e == DirtUpdate(d, t, store, hit)
           v == MustUpdate(d.must, t, hit)
           s == MayUpdate(d.may, t)
           n == AccessedAge(d.must, t, hit)
           just == JustEvictedUnknowns(d, t)
           me == MustEvicted(d, t, hit)
           ma == MayEvicted(d, t)
           Status(u) == IF store /\ u = t THEN "DIRTY" ELSE DirtinessOf(d, u)
<1>0. DirtType(d) /\ CheckInvariants(d) /\ (d.implicitDirty => d.may.implicit < Assoc)
  BY DEF DirtState
<1>1. /\ n \in 0 .. Assoc
      /\ s.implicit = AgesWith(d.may.implicit, MinAge(d.may, t))
      /\ \A u \in Nat :
           /\ MustAge(d.must, u) \in 0 .. Assoc /\ MinAge(d.may, u) \in 0 .. Assoc
           /\ MinAge(d.may, u) <= d.may.implicit /\ d.may.implicit \in 0 .. Assoc
           /\ MustAge(v, u) = IF u = t THEN 0
                              ELSE IF MustAge(d.must, u) < n THEN MustAge(d.must, u) + 1
                              ELSE MustAge(d.must, u)
           /\ MinAge(s, u) = IF u = t THEN 0
                             ELSE AgesWith(MinAge(d.may, u), MinAge(d.may, t))
  BY <1>0, UpdatedBounds
<1>2. /\ DirtType(e) /\ e.must = v /\ e.may = s /\ e.implicitDirty = (d.implicitDirty /\ ~just)
      /\ \A u : /\ u \in DOMAIN e.dirtiness <=>
                     /\ u \in DOMAIN d.dirtiness \/ u = t
                     /\ u \notin ma
                     /\ just => Status(u) # "CLEAN" /\ MinAge(e.may, u) < Assoc
                /\ u \in DOMAIN e.dirtiness =>
                     e.dirtiness[u] = IF u \in me /\ Status(u) = "DIRTY" THEN "UNKNOWN"
                                      ELSE Status(u)
  BY <1>0, UpdatedStatus
<1>3. ASSUME NEW u
      PROVE  /\ u \in ma <=> /\ u # t /\ MinAge(d.may, u) = Assoc - 1
                             /\ d.may.implicit = Assoc /\ MinAge(d.may, t) >= Assoc - 1
             /\ just <=> d.may.implicit = Assoc - 1 /\ MinAge(d.may, t) = Assoc - 1
             /\ u \in me <=> MustAge(d.must, u) = Assoc - 1 /\ n = Assoc
  BY <1>0, MayReports, MustReports
<1>4. ASSUME NEW u
      PROVE  /\ u \in DOMAIN d.dirtiness =>
                  /\ DirtinessOf(d, u) = d.dirtiness[u] /\ u \in Nat
                  /\ DirtinessOf(d, u) = "DIRTY" => MustAge(d.must, u) < Assoc
                  /\ DirtinessOf(d, u) # "CLEAN" => MinAge(d.may, u) < Assoc
             /\ u \notin DOMAIN d.dirtiness =>
                  DirtinessOf(d, u) = IF d.implicitDirty THEN "UNKNOWN" ELSE "CLEAN"
  BY <1>0, StatusType DEF CheckInvariants, DirtType
<1> HIDE DEF e, v, s, n, just, me, ma
<1>5. ASSUME NEW u \in DOMAIN e.dirtiness
      PROVE  /\ e.dirtiness[u] = "DIRTY" => MustAge(e.must, u) < Assoc
             /\ e.dirtiness[u] # "CLEAN" => MinAge(e.may, u) < Assoc
  <2>1. u \in Nat /\ Assoc \in Nat \ {0}
    BY <1>2, <1>4, AssocAssumption
  <2>2. CASE u = t
    BY <1>1, <1>2, <2>1, <2>2
  <2>3. CASE u # t
    <3>1. /\ u \in DOMAIN d.dirtiness /\ u \notin ma
          /\ just => MinAge(s, u) < Assoc
          /\ e.dirtiness[u] = IF u \in me /\ DirtinessOf(d, u) = "DIRTY" THEN "UNKNOWN"
                              ELSE DirtinessOf(d, u)
      BY <1>2, <2>3
    <3>2. e.dirtiness[u] = "DIRTY" => DirtinessOf(d, u) = "DIRTY" /\ u \notin me
      BY <3>1
    <3>3. e.dirtiness[u] # "CLEAN" => DirtinessOf(d, u) # "CLEAN"
      BY <3>1
    <3>4. ASSUME e.dirtiness[u] = "DIRTY" PROVE MustAge(v, u) < Assoc
      <4>1. MustAge(d.must, u) < Assoc /\ u \notin me
        BY <1>4, <3>1, <3>2, <3>4
      <4>2. u \in me <=> MustAge(d.must, u) = Assoc - 1 /\ n = Assoc
        BY <1>3
      <4>3. /\ MustAge(d.must, u) \in 0 .. Assoc /\ n \in 0 .. Assoc
            /\ MustAge(v, u) = IF MustAge(d.must, u) < n THEN MustAge(d.must, u) + 1
                               ELSE MustAge(d.must, u)
        BY <1>1, <2>1, <2>3
      <4> QED  BY <2>1, <4>1, <4>2, <4>3
    <3>5. ASSUME e.dirtiness[u] # "CLEAN" PROVE MinAge(s, u) < Assoc
      <4>1. MinAge(d.may, u) < Assoc
        BY <1>4, <3>1, <3>3, <3>5
      <4>2. MinAge(s, u) = AgesWith(MinAge(d.may, u), MinAge(d.may, t))
        BY <1>1, <2>1, <2>3
      <4>3. /\ MinAge(d.may, u) \in 0 .. Assoc /\ MinAge(d.may, t) \in 0 .. Assoc
            /\ MinAge(d.may, u) <= d.may.implicit /\ MinAge(d.may, t) <= d.may.implicit
            /\ d.may.implicit \in 0 .. Assoc
        BY <1>1, <2>1
      <4> QED  BY <1>3, <2>1, <2>3, <3>1, <4>1, <4>2, <4>3 DEF AgesWith
    <3> QED  BY <1>2, <3>4, <3>5
  <2> QED  BY <2>2, <2>3
<1>6. e.implicitDirty => e.may.implicit < Assoc
  <2>1. /\ MinAge(d.may, t) \in 0 .. Assoc /\ MinAge(d.may, t) <= d.may.implicit
        /\ d.may.implicit \in 0 .. Assoc
    BY <1>1
  <2>2. just <=> d.may.implicit = Assoc - 1 /\ MinAge(d.may, t) = Assoc - 1
    BY <1>3
  <2>3. e.implicitDirty => d.may.implicit < Assoc /\ ~just
    BY <1>0, <1>2
  <2>4. e.may.implicit = AgesWith(d.may.implicit, MinAge(d.may, t))
    BY <1>1, <1>2
  <2>5. /\ Assoc \in Nat \ {0} /\ d.may.implicit \in Int /\ MinAge(d.may, t) \in Int
    BY <2>1, AssocAssumption
  <2> QED  BY <2>1, <2>2, <2>3, <2>4, <2>5 DEF AgesWith
<1> QED  BY <1>2, <1>5, <1>6 DEF DirtState, CheckInvariants, e

\* A line that is evicted is only known when the others are, too.
LEMMA UnreachableIncorporation ==
  ASSUME NEW d, DirtState(d), NEW t
  PROVE  ~IncorporateUnreachable(d, t)
<1>1. DirtType(d) /\ (d.implicitDirty => d.may.implicit < Assoc)
  BY DEF DirtState
<1>2. ASSUME NEW u \in MayEvicted(d, t) PROVE d.may.implicit = Assoc
  BY <1>1, <1>2, MayReports
<1>3. ~ (Assoc < Assoc)
  BY AssocAssumption
<1>4. MayEvicted(d, t) # {} => d.may.implicit = Assoc
  BY <1>2
<1>5. MayEvicted(d, t) # {} => ~d.implicitDirty
  BY <1>1, <1>3, <1>4
<1> QED  BY <1>5 DEF IncorporateUnreachable

\* What a state says of the set with the ages a and the dirty lines D is true: and a dirty
\* line that is not in the map is one of those that the may state does not know.
DirtTrue(d, a, D) ==
  /\ D \subseteq {t \in Tags : a[t] < Assoc}
  /\ \A t \in Tags : /\ DirtinessOf(d, t) = "CLEAN" => t \notin D
                     /\ DirtinessOf(d, t) = "DIRTY" => t \in D
  /\ \A t \in D \ DOMAIN d.dirtiness : d.may.implicit <= a[t]

\* The lines that an access to t evicts from the set S with the ages a.
Gone(S, a, t) == IF a[t] < Assoc THEN {} ELSE {u \in S : a[u] = Assoc - 1}

\* How the age of a line goes on.
LEMMA TouchedAge ==
  ASSUME NEW S, NEW a \in [S -> 0 .. Assoc], Distinct(S, a), NEW t \in S, NEW u \in S
  PROVE  /\ a[t] \in 0 .. Assoc /\ a[u] \in 0 .. Assoc /\ Touched(S, a, t)[u] \in 0 .. Assoc
         /\ Touched(S, a, t)[t] = 0
         /\ u # t => /\ a[u] <= Touched(S, a, t)[u] /\ Touched(S, a, t)[u] <= a[u] + 1
                     /\ \A m \in 0 .. Assoc :
                          m <= a[u] /\ m <= a[t] /\ m < Assoc => m + 1 <= Touched(S, a, t)[u]
         /\ t \notin Gone(S, a, t)
<1> DEFINE b == Touched(S, a, t)
<1>1. a[t] \in 0 .. Assoc /\ a[u] \in 0 .. Assoc /\ Assoc \in Nat \ {0}
  BY AssocAssumption
<1>2. b[t] = 0 /\ (u # t => b[u] = IF a[u] < a[t] THEN a[u] + 1 ELSE a[u])
  BY DEF Touched
<1>3. u # t => a[u] # a[t] \/ a[u] = Assoc
  BY <1>1 DEF Distinct
<1>4. t \notin Gone(S, a, t)
  BY <1>1 DEF Gone
<1> HIDE DEF b
<1>5. b[u] \in 0 .. Assoc
  BY <1>1, <1>2
<1>6. u # t => a[u] <= b[u] /\ b[u] <= a[u] + 1
  BY <1>1, <1>2
<1>7. ASSUME u # t, NEW m \in 0 .. Assoc, m <= a[u] /\ m <= a[t] /\ m < Assoc
      PROVE  m + 1 <= b[u]
  BY <1>1, <1>2, <1>3, <1>7
<1> QED  BY <1>1, <1>2, <1>4, <1>5, <1>6, <1>7 DEF b

\* A line is evicted when it reaches the age Assoc.
LEMMA EvictedAge ==
  ASSUME NEW S, NEW a \in [S -> 0 .. Assoc], NEW t \in S, NEW u \in S, u # t
  PROVE  u \in Gone(S, a, t) <=> a[u] < Assoc /\ Touched(S, a, t)[u] = Assoc
<1>1. a[t] \in 0 .. Assoc /\ a[u] \in 0 .. Assoc /\ Assoc \in Nat \ {0}
  BY AssocAssumption
<1>2. Touched(S, a, t)[u] = IF a[u] < a[t] THEN a[u] + 1 ELSE a[u]
  BY DEF Touched
<1>3. u \in Gone(S, a, t) <=> a[t] = Assoc /\ a[u] = Assoc - 1
  BY <1>1 DEF Gone
<1> QED  BY <1>1, <1>2, <1>3

\* An access to t, which the analysis may take for a hit only if it is one, leaves what it
\* says true,
LEMMA DirtTrueUpdated ==
  ASSUME NEW S, NEW d, DirtState(d), NEW a, Enclosed(S, a, d.must, d.may),
         NEW D, DirtTrue(d, a, D),
         NEW t \in Tags, NEW store \in BOOLEAN, NEW hit \in BOOLEAN, hit => a[t] < Assoc,
         hit => t \in TagsOf(d.must) \/ Len(d.must) < Assoc
  PROVE  DirtTrue(DirtUpdate(d, t, store, hit), Touched(S, a, t),
                  (D \ Gone(S, a, t)) \cup (IF store THEN {t} ELSE {}))
<1> DEFINE e == DirtUpdate(d, t, store, hit)
           v == MustUpdate(d.must, t, hit)
           s == MayUpdate(d.may, t)
           n == AccessedAge(d.must, t, hit)
           just == JustEvictedUnknowns(d, t)
           me == MustEvicted(d, t, hit)
           ma == MayEvicted(d, t)
           b == Touched(S, a, t)
           E == (D \ Gone(S, a, t)) \cup (IF store THEN {t} ELSE {})
           Status(u) == IF store /\ u = t THEN "DIRTY" ELSE DirtinessOf(d, u)
<1>0. /\ DirtType(d) /\ t \in Nat /\ t \in S /\ Tags \subseteq S /\ Tags \subseteq Nat
      /\ a \in [S -> 0 .. Assoc] /\ Distinct(S, a) /\ Assoc \in Nat \ {0}
  BY TagsAssumption, AssocAssumption DEF DirtState, Enclosed
<1>1. /\ n \in 0 .. Assoc
      /\ s.implicit = AgesWith(d.may.implicit, MinAge(d.may, t))
      /\ \A u \in Nat :
           /\ MustAge(d.must, u) \in 0 .. Assoc /\ MinAge(d.may, u) \in 0 .. Assoc
           /\ MinAge(d.may, u) <= d.may.implicit /\ d.may.implicit \in 0 .. Assoc
           /\ MustAge(v, u) = IF u = t THEN 0
                              ELSE IF MustAge(d.must, u) < n THEN MustAge(d.must, u) + 1
                              ELSE MustAge(d.must, u)
           /\ MinAge(s, u) = IF u = t THEN 0
                             ELSE AgesWith(MinAge(d.may, u), MinAge(d.may, t))
  BY <1>0, UpdatedBounds
<1>2. /\ e.must = v /\ e.may = s /\ e.implicitDirty = (d.implicitDirty /\ ~just)
      /\ \A u : /\ u \in DOMAIN e.dirtiness <=>
                     /\ u \in DOMAIN d.dirtiness \/ u = t
                     /\ u \notin ma
                     /\ just => Status(u) # "CLEAN" /\ MinAge(e.may, u) < Assoc
                /\ u \in DOMAIN e.dirtiness =>
                     e.dirtiness[u] = IF u \in me /\ Status(u) = "DIRTY" THEN "UNKNOWN"
                                      ELSE Status(u)
  BY <1>0, UpdatedStatus
<1>3. ASSUME NEW u
      PROVE  /\ u \in ma <=> /\ u # t /\ MinAge(d.may, u) = Assoc - 1
                             /\ d.may.implicit = Assoc /\ MinAge(d.may, t) >= Assoc - 1
             /\ just <=> d.may.implicit = Assoc - 1 /\ MinAge(d.may, t) = Assoc - 1
             /\ u \in me <=> MustAge(d.must, u) = Assoc - 1 /\ n = Assoc
  BY <1>0, MayReports, MustReports
<1>4. DirtType(e) /\ CheckInvariants(e)
  BY <1>0, DirtStateUpdated DEF DirtState
<1>5. ASSUME NEW u \in Tags
      PROVE  /\ MinAge(s, u) <= b[u] /\ b[u] <= MustAge(v, u) /\ b[u] \in 0 .. Assoc
             /\ MinAge(d.may, u) <= a[u] /\ MinAge(d.may, t) <= a[t]
  <2>1. Enclosed(S, b, v, s)
    BY EnclosedAccess
  <2> HIDE DEF b, v, s
  <2>2. MinAge(s, u) <= b[u] /\ b[u] <= MustAge(v, u)
    BY <2>1, EnclosedNumbers
  <2>3. MinAge(d.may, u) <= a[u] /\ MinAge(d.may, t) <= a[t]
    BY EnclosedNumbers
  <2>4. b[u] \in 0 .. Assoc
    BY <1>0, <2>1 DEF Enclosed
  <2> QED  BY <2>2, <2>3, <2>4
<1>6. ASSUME NEW u \in Tags
      PROVE  /\ a[t] \in 0 .. Assoc /\ a[u] \in 0 .. Assoc
             /\ b[t] = 0 /\ t \notin Gone(S, a, t)
             /\ u # t => /\ a[u] <= b[u]
                         /\ u \in Gone(S, a, t) <=> a[u] < Assoc /\ b[u] = Assoc
                         /\ \A m \in 0 .. Assoc :
                              m <= a[u] /\ m <= a[t] /\ m < Assoc => m + 1 <= b[u]
  <2>1. u \in S
    BY <1>0
  <2> HIDE DEF b
  <2>2. b[t] = 0 /\ t \notin Gone(S, a, t) /\ a[t] \in 0 .. Assoc /\ a[u] \in 0 .. Assoc
    BY <1>0, <2>1, TouchedAge DEF b
  <2>3. ASSUME u # t
        PROVE  /\ a[u] <= b[u]
               /\ u \in Gone(S, a, t) <=> a[u] < Assoc /\ b[u] = Assoc
    <3>1. a[u] <= b[u]
      BY <1>0, <2>1, <2>3, TouchedAge DEF b
    <3>2. u \in Gone(S, a, t) <=> a[u] < Assoc /\ Touched(S, a, t)[u] = Assoc
      BY <1>0, <2>1, <2>3, EvictedAge
    <3> QED  BY <3>1, <3>2 DEF b
  <2>4. ASSUME u # t, NEW m \in 0 .. Assoc, m <= a[u] /\ m <= a[t] /\ m < Assoc
        PROVE  m + 1 <= b[u]
    BY <1>0, <2>1, <2>4, TouchedAge DEF b
  <2> QED  BY <2>2, <2>3, <2>4
<1>7. ASSUME NEW u \in Tags
      PROVE  /\ u \in D => a[u] < Assoc
             /\ DirtinessOf(d, u) = "CLEAN" => u \notin D
             /\ DirtinessOf(d, u) = "DIRTY" => u \in D
             /\ u \in D /\ u \notin DOMAIN d.dirtiness => d.may.implicit <= a[u]
  BY DEF DirtTrue
<1>8. /\ t \in E <=> store \/ t \in D
      /\ \A u \in E : u # t => u \in D /\ u \notin Gone(S, a, t)
      /\ \A u \in D : u \in E \/ u \in Gone(S, a, t)
      /\ E \subseteq Tags
  <2>1. D \subseteq Tags
    BY DEF DirtTrue
  <2>2. t \notin Gone(S, a, t)
    BY <1>6
  <2> QED  BY <2>1, <2>2
<1> HIDE DEF e, v, s, n, just, me, ma, b, E
<1>9. ASSUME NEW u \in E PROVE b[u] < Assoc
  <2>1. CASE u = t
    BY <1>0, <1>6, <2>1
  <2>2. CASE u # t
    <3>1. u \in D /\ u \notin Gone(S, a, t) /\ u \in Tags
      BY <1>8, <2>2
    <3>2. a[u] < Assoc /\ b[u] \in 0 .. Assoc
      BY <1>5, <1>7, <3>1
    <3>3. b[u] # Assoc
      BY <1>6, <2>2, <3>1, <3>2
    <3> QED  BY <1>0, <3>2, <3>3
  <2> QED  BY <2>1, <2>2
<1>10. ASSUME NEW u \in Tags, u # t, u \in E
       PROVE  /\ u \notin ma
              /\ u \in DOMAIN d.dirtiness => u \in DOMAIN e.dirtiness
              /\ u \notin DOMAIN d.dirtiness => ~just /\ s.implicit <= b[u]
  <2>1. /\ u \in D /\ u \notin Gone(S, a, t) /\ b[u] < Assoc /\ u \in Nat
        /\ MinAge(s, u) < Assoc /\ DirtinessOf(d, u) # "CLEAN"
    <3>1. u \in D /\ u \notin Gone(S, a, t) /\ b[u] < Assoc /\ u \in Nat
      BY <1>0, <1>8, <1>9, <1>10
    <3>2. MinAge(s, u) <= b[u] /\ b[u] \in 0 .. Assoc
      BY <1>5
    <3>3. MinAge(s, u) \in Int
      BY <1>0, <1>1, <1>10, <3>1 DEF AgesWith
    <3> QED  BY <1>0, <1>7, <3>1, <3>2, <3>3
  <2>2. /\ MinAge(s, u) = AgesWith(MinAge(d.may, u), MinAge(d.may, t))
        /\ MinAge(d.may, u) \in 0 .. Assoc /\ MinAge(d.may, t) \in 0 .. Assoc
        /\ d.may.implicit \in 0 .. Assoc
    BY <1>0, <1>1, <1>10, <2>1
  <2>3. u \notin ma
    <3>1. u \in ma => MinAge(d.may, u) = Assoc - 1 /\ MinAge(d.may, t) >= Assoc - 1
      BY <1>3
    <3> QED  BY <1>0, <2>1, <2>2, <3>1 DEF AgesWith
  <2>4. u \in DOMAIN d.dirtiness => u \in DOMAIN e.dirtiness
    BY <1>2, <1>10, <2>1, <2>3
  <2>5. ASSUME u \notin DOMAIN d.dirtiness
        PROVE  ~just /\ s.implicit <= b[u]
    <3>1. /\ d.may.implicit <= a[u] /\ a[u] \in 0 .. Assoc /\ a[t] \in 0 .. Assoc
          /\ MinAge(d.may, t) <= a[t] /\ a[u] <= b[u] /\ b[u] \in 0 .. Assoc
      BY <1>5, <1>6, <1>7, <1>10, <2>1, <2>5
    <3>2. d.may.implicit <= MinAge(d.may, t) /\ d.may.implicit < Assoc => d.may.implicit + 1 <= b[u]
      <4>1. d.may.implicit <= MinAge(d.may, t) => d.may.implicit <= a[t]
        BY <1>0, <2>2, <3>1
      <4> QED  BY <1>6, <1>10, <2>2, <3>1, <4>1
    <3>3. s.implicit = AgesWith(d.may.implicit, MinAge(d.may, t))
      BY <1>1
    <3>4. s.implicit <= b[u]
      BY <1>0, <2>2, <3>1, <3>2, <3>3 DEF AgesWith
    <3>5. just => d.may.implicit = Assoc - 1 /\ MinAge(d.may, t) = Assoc - 1
      BY <1>3
    <3> QED  BY <1>0, <2>1, <2>2, <3>1, <3>2, <3>4, <3>5
  <2> QED  BY <2>3, <2>4, <2>5
<1>11. Status(t) # "CLEAN" => t \in DOMAIN e.dirtiness
  <2>1. t \notin ma
    BY <1>3
  <2>2. MinAge(e.may, t) = 0
    BY <1>0, <1>1, <1>2
  <2>3. 0 < Assoc
    BY <1>0
  <2> QED  BY <1>2, <2>1, <2>2, <2>3
<1>12. ASSUME NEW u \in E \ DOMAIN e.dirtiness PROVE e.may.implicit <= b[u]
  <2>1. t \in E => t \in DOMAIN e.dirtiness
    BY <1>7, <1>8, <1>11
  <2>2. u # t /\ u \in Tags
    BY <1>8, <1>12, <2>1
  <2> QED  BY <1>2, <1>10, <1>12, <2>2
<1>13. ASSUME NEW u \in Tags, DirtinessOf(e, u) = "CLEAN"
       PROVE  u \notin E
  <2> SUFFICES ASSUME u \in E PROVE FALSE
    OBVIOUS
  <2>1. CASE u = t
    <3>1. Status(t) # "CLEAN"
      BY <1>7, <1>8, <2>1
    <3>2. t \in DOMAIN e.dirtiness
      BY <1>11, <3>1
    <3>3. e.dirtiness[t] # "CLEAN"
      BY <1>2, <3>1, <3>2
    <3> QED  BY <1>4, <1>13, <2>1, <3>2, <3>3, StatusType
  <2>2. CASE u # t
    <3>1. /\ u \in DOMAIN d.dirtiness => u \in DOMAIN e.dirtiness
          /\ u \notin DOMAIN d.dirtiness => ~just
          /\ u \in D
      BY <1>8, <1>10, <2>2
    <3>2. DirtinessOf(d, u) # "CLEAN" /\ Status(u) # "CLEAN"
      BY <1>7, <2>2, <3>1
    <3>3. u \in DOMAIN e.dirtiness => e.dirtiness[u] # "CLEAN"
      BY <1>2, <3>2
    <3>4. u \notin DOMAIN e.dirtiness => d.implicitDirty /\ ~just
      BY <1>0, <3>1, <3>2, StatusType
    <3> QED  BY <1>2, <1>4, <1>13, <3>3, <3>4, StatusType
  <2> QED  BY <2>1, <2>2
<1>14. ASSUME NEW u \in Tags, DirtinessOf(e, u) = "DIRTY"
       PROVE  u \in E
  <2>1. u \in DOMAIN e.dirtiness /\ e.dirtiness[u] = "DIRTY"
    BY <1>4, <1>14, StatusType
  <2>2. MustAge(v, u) < Assoc
    BY <1>2, <1>4, <2>1 DEF CheckInvariants
  <2>3. Status(u) = "DIRTY"
    BY <1>2, <2>1
  <2>4. CASE u = t
    BY <1>7, <1>8, <2>3, <2>4
  <2>5. CASE u # t
    <3>1. u \in D
      BY <1>7, <2>3, <2>5
    <3>2. b[u] # Assoc
      <4>1. b[u] <= MustAge(v, u) /\ b[u] \in 0 .. Assoc
        BY <1>5
      <4>2. MustAge(v, u) \in Int
        <5>1. /\ u \in Nat /\ n \in 0 .. Assoc /\ MustAge(d.must, u) \in 0 .. Assoc
              /\ MustAge(v, u) = IF MustAge(d.must, u) < n THEN MustAge(d.must, u) + 1
                                 ELSE MustAge(d.must, u)
          BY <1>0, <1>1, <2>5
        <5> QED  BY <5>1
      <4> QED  BY <1>0, <2>2, <4>1, <4>2
    <3>3. u \notin Gone(S, a, t)
      BY <1>6, <2>5, <3>2
    <3> QED  BY <1>8, <3>1, <3>3
  <2> QED  BY <2>4, <2>5
<1> QED  BY <1>8, <1>9, <1>12, <1>13, <1>14 DEF DirtTrue, e, b, E

\* and the report foresees the write-back of a dirty line and the store to a clean one.
LEMMA ReportForesees ==
  ASSUME NEW S, NEW d, DirtState(d), NEW a, Enclosed(S, a, d.must, d.may),
         NEW D, DirtTrue(d, a, D),
         NEW t \in Tags, NEW store \in BOOLEAN, NEW hit \in BOOLEAN, hit => a[t] < Assoc,
         hit => t \in TagsOf(d.must) \/ Len(d.must) < Assoc
  PROVE  /\ Gone(S, a, t) \cap D # {} => DirtReport(d, t, store, hit).wbPossible
         /\ store /\ t \notin D => DirtReport(d, t, store, hit).dirtifyingStore
<1> DEFINE v == MustUpdate(d.must, t, hit)
           b == Touched(S, a, t)
           f == AccessedMap(d, t, store)
           c == Accessed(d, t, store, hit)
<1>1. DirtType(d) /\ c.must = v /\ c.implicitDirty = d.implicitDirty /\ c.dirtiness = f
  BY AccessedIs DEF DirtState, WithBounds
<1>2. ASSUME store, t \notin D PROVE DirtinessOf(d, t) # "DIRTY"
  BY <1>2 DEF DirtTrue
<1>3. ASSUME NEW u \in Gone(S, a, t) \cap D PROVE ExistsDirtyVictim(c)
  <2>1. u \in Tags /\ u \in D /\ u \in Gone(S, a, t) /\ DirtinessOf(d, u) # "CLEAN"
    BY <1>3 DEF DirtTrue
  <2>2. /\ t \in S /\ u \in S /\ t \in Nat /\ u \in Nat /\ Assoc \in Nat \ {0}
        /\ a \in [S -> 0 .. Assoc] /\ Distinct(S, a)
    BY <2>1, TagsAssumption, AssocAssumption DEF Enclosed
  <2>3. u # t
    BY <2>1, <2>2, TouchedAge
  <2>4. b[u] = Assoc
    BY <2>1, <2>2, <2>3, EvictedAge
  <2>5. Enclosed(S, b, v, MayUpdate(d.may, t))
    BY EnclosedAccess
  <2> HIDE DEF b, v, c
  <2>6. b[u] <= MustAge(v, u) /\ MustAge(v, u) \in Nat /\ MustAge(v, u) <= Assoc
    BY <2>1, <2>5, EnclosedNumbers
  <2>7. MustAge(v, u) = Assoc
    BY <2>2, <2>4, <2>6
  <2>8. CASE u \in DOMAIN d.dirtiness
    <3>1. u \in DOMAIN f /\ f[u] = DirtinessOf(d, u)
      BY <2>3, <2>8 DEF AccessedMap
    <3> HIDE DEF f
    <3> QED  BY <1>1, <2>1, <2>7, <3>1 DEF ExistsDirtyVictim
  <2>9. CASE u \notin DOMAIN d.dirtiness
    <3>1. d.implicitDirty
      BY <1>1, <2>1, <2>9, StatusType
    <3> QED  BY <1>1, <3>1 DEF ExistsDirtyVictim
  <2> QED  BY <2>8, <2>9
<1> HIDE DEF v, b, f
<1>4. DirtReport(d, t, store, hit) =
        [wbPossible |-> ExistsDirtyVictim(c),
         dirtifyingStore |-> store /\ DirtinessOf(d, t) # "DIRTY"]
  BY DEF DirtReport
<1> HIDE DEF c
<1>5. Gone(S, a, t) \cap D # {} => ExistsDirtyVictim(c)
  BY <1>3
<1> QED  BY <1>2, <1>4, <1>5

-----------------------------------------------------------------------------
\* An access of which the line is not known.

\* The state with the bounds after such an access.
Aged(d, low, high) ==
  WithBounds(d, MustPotentialUpdate(d.must), MayPotentialUpdate(d.may, low, high), d.dirtiness)
\* It is what potentialUpdate() begins with,
LEMMA PotentiallyAccessedIs ==
  ASSUME NEW d, DirtType(d), NEW low, NEW high
  PROVE  PotentiallyAccessed(d, low, high) = Aged(d, low, high)
<1> DEFINE v == MustPotentialUpdate(d.must)
           s == MayPotentialUpdate(d.may, low, high)
<1>1. PotentiallyAccessed(d, low, high) = [d EXCEPT !.must = v, !.may = s]
  BY DEF PotentiallyAccessed
<1>2. d = [must |-> d.must, may |-> d.may, implicitDirty |-> d.implicitDirty,
          dirtiness |-> d.dirtiness]
  BY DEF DirtType
<1> HIDE DEF v, s
<1> DEFINE e == [d EXCEPT !.must = v, !.may = s]
<1>3. e \in [must : {v}, may : {s}, implicitDirty : {d.implicitDirty}, dirtiness : {d.dirtiness}]
  BY <1>2
<1>4. /\ e.must = v /\ e.may = s
      /\ e.implicitDirty = d.implicitDirty /\ e.dirtiness = d.dirtiness
  BY <1>2
<1> HIDE DEF e
<1>5. e = [must |-> e.must, may |-> e.may, implicitDirty |-> e.implicitDirty,
          dirtiness |-> e.dirtiness]
  BY <1>3
<1> QED  BY <1>1, <1>4, <1>5 DEF Aged, WithBounds, v, s, e

\* The bounds of line u then.
LEMMA PotentiallyUpdatedBounds ==
  ASSUME NEW d, DirtType(d), NEW low \in Nat, NEW high \in Nat, low <= high
  PROVE  LET v == MustPotentialUpdate(d.must)
             s == MayPotentialUpdate(d.may, low, high)
             many == high - low + 1 > MaxWorthwhileTags
         IN  /\ MustVector(v) /\ MayState(s)
             /\ s.implicit \in 0 .. Assoc /\ s.implicit <= d.may.implicit
             /\ many => s.implicit = 0
             /\ \A u \in Nat :
                  /\ MustAge(d.must, u) \in 0 .. Assoc /\ MinAge(d.may, u) \in 0 .. Assoc
                  /\ MinAge(s, u) \in 0 .. Assoc /\ MinAge(s, u) <= MinAge(d.may, u)
                  /\ u \in low .. high => MinAge(s, u) = 0
                  /\ MustAge(v, u) = IF MustAge(d.must, u) < Assoc THEN MustAge(d.must, u) + 1
                                     ELSE MustAge(d.must, u)
<1> DEFINE v == MustPotentialUpdate(d.must)
           s == MayPotentialUpdate(d.may, low, high)
           many == high - low + 1 > MaxWorthwhileTags
<1>0. MustVector(d.must) /\ MayState(d.may) /\ d.may.implicit \in 0 .. Assoc /\ Assoc \in Nat \ {0}
  BY AssocAssumption DEF DirtType, MayState
<1>1. ASSUME NEW u
      PROVE  /\ MustVector(v)
             /\ MustAge(v, u) = IF MustAge(d.must, u) < Assoc THEN MustAge(d.must, u) + 1
                                ELSE MustAge(d.must, u)
  BY <1>0, MustPotentialUpdateAges
<1>2. /\ MayState(s)
      /\ \A u \in Nat : MinAge(s, u) =
           IF d.may.implicit = 0 \/ many \/ u \in low .. high THEN 0 ELSE MinAge(d.may, u)
  <2>1. MayState(s)
    BY <1>0, MayPotentialUpdateAges
  <2>2. ASSUME NEW u \in Nat
        PROVE  MinAge(s, u) =
                 IF d.may.implicit = 0 \/ many \/ u \in low .. high THEN 0 ELSE MinAge(d.may, u)
    BY <1>0, <2>2, MayPotentialUpdateAges
  <2> HIDE DEF s, many
  <2> QED  BY <2>1, <2>2
<1>3. /\ s.implicit = 0 \/ s.implicit = d.may.implicit
      /\ many => s.implicit = 0
  <2>1. s = IF d.may.implicit = 0 THEN d.may
            ELSE IF many THEN MayInit(FALSE)
            ELSE [d.may EXCEPT !.explicit = s.explicit]
    BY DEF MayPotentialUpdate
  <2>2. d.may = [explicit |-> d.may.explicit, implicit |-> d.may.implicit]
    BY <1>0 DEF MayState
  <2>3. MayInit(FALSE).implicit = 0
    BY DEF MayInit
  <2> HIDE DEF s, many
  <2> QED  BY <2>1, <2>2, <2>3
<1> HIDE DEF v, s, many
<1>4. ASSUME NEW u \in Nat
      PROVE  /\ MustAge(d.must, u) \in 0 .. Assoc /\ MinAge(d.may, u) \in 0 .. Assoc
             /\ MinAge(s, u) \in 0 .. Assoc /\ MinAge(s, u) <= MinAge(d.may, u)
             /\ u \in low .. high => MinAge(s, u) = 0
  <2>1. MustAge(d.must, u) \in 0 .. Assoc
    BY <1>0, MustAges
  <2>2. MinAge(d.may, u) \in 0 .. Assoc
    BY <1>0, MayAges
  <2>3. MinAge(s, u) =
          IF d.may.implicit = 0 \/ many \/ u \in low .. high THEN 0 ELSE MinAge(d.may, u)
    BY <1>2
  <2> QED  BY <1>0, <2>1, <2>2, <2>3
<1>5. s.implicit \in 0 .. Assoc /\ s.implicit <= d.may.implicit
  BY <1>0, <1>3
<1>6. /\ MustVector(v) /\ MayState(s)
      /\ s.implicit \in 0 .. Assoc /\ s.implicit <= d.may.implicit
      /\ many => s.implicit = 0
      /\ \A u \in Nat :
           /\ MustAge(d.must, u) \in 0 .. Assoc /\ MinAge(d.may, u) \in 0 .. Assoc
           /\ MinAge(s, u) \in 0 .. Assoc /\ MinAge(s, u) <= MinAge(d.may, u)
           /\ u \in low .. high => MinAge(s, u) = 0
           /\ MustAge(v, u) = IF MustAge(d.must, u) < Assoc THEN MustAge(d.must, u) + 1
                              ELSE MustAge(d.must, u)
  BY <1>1, <1>2, <1>3, <1>4, <1>5
<1> QED  BY <1>6 DEF v, s, many

\* The state when the reports about such an access are incorporated.
AgedMap(d) ==
  [u \in DOMAIN d.dirtiness |->
     IF MustAge(d.must, u) = Assoc - 1 /\ d.dirtiness[u] = "DIRTY" THEN "UNKNOWN"
     ELSE d.dirtiness[u]]
AgedState(d, low, high) == Incorporate(PotentiallyAccessed(d, low, high), Oldest(d.must), {}, FALSE)
\* and this is a state of the analysis whose map holds the same lines.
LEMMA AgedStateIs ==
  ASSUME NEW d, DirtState(d), NEW low \in Nat, NEW high \in Nat, low <= high
  PROVE  /\ AgedState(d, low, high) =
              WithBounds(d, MustPotentialUpdate(d.must), MayPotentialUpdate(d.may, low, high),
                         AgedMap(d))
         /\ DirtState(AgedState(d, low, high))
<1> DEFINE v == MustPotentialUpdate(d.must)
           s == MayPotentialUpdate(d.may, low, high)
           c == PotentiallyAccessed(d, low, high)
           me == Oldest(d.must)
           g == Incorporated(c, me, {}, FALSE)
           f == AgedMap(d)
           e == AgedState(d, low, high)
<1>0. /\ DirtType(d) /\ CheckInvariants(d) /\ (d.implicitDirty => d.may.implicit < Assoc)
      /\ Assoc \in Nat \ {0} /\ d.implicitDirty \in BOOLEAN
      /\ DOMAIN d.dirtiness \subseteq Nat
      /\ \A u \in DOMAIN d.dirtiness : d.dirtiness[u] \in Statuses
  BY AssocAssumption DEF DirtState, DirtType
<1>1. /\ MustVector(v) /\ MayState(s)
      /\ s.implicit \in 0 .. Assoc /\ s.implicit <= d.may.implicit
      /\ \A u \in Nat :
           /\ MustAge(d.must, u) \in 0 .. Assoc /\ MinAge(d.may, u) \in 0 .. Assoc
           /\ MinAge(s, u) \in 0 .. Assoc /\ MinAge(s, u) <= MinAge(d.may, u)
           /\ MustAge(v, u) = IF MustAge(d.must, u) < Assoc THEN MustAge(d.must, u) + 1
                              ELSE MustAge(d.must, u)
  BY <1>0, PotentiallyUpdatedBounds
<1>2. c = [must |-> v, may |-> s, implicitDirty |-> d.implicitDirty, dirtiness |-> d.dirtiness]
  BY <1>0, PotentiallyAccessedIs DEF Aged, WithBounds
<1>3. \A u : u \in me <=> MustAge(d.must, u) = Assoc - 1
  BY <1>0, OldestMust DEF DirtType
<1> HIDE DEF v, s, c, me
<1>4. g = f
  BY <1>2, <1>3 DEF Incorporated, Staying, AgedMap
<1>5. DOMAIN f = DOMAIN d.dirtiness
      /\ \A u \in DOMAIN f : f[u] = IF MustAge(d.must, u) = Assoc - 1 /\ d.dirtiness[u] = "DIRTY"
                                    THEN "UNKNOWN" ELSE d.dirtiness[u]
  BY DEF AgedMap
<1>6. f = [u \in DOMAIN f |-> f[u]]
  BY DEF AgedMap
<1> HIDE DEF f, g
<1>7. Incorporate(c, me, {}, FALSE) = WithMap(c, d.implicitDirty /\ ~FALSE, g)
  <2>1. ASSUME NEW ma, NEW just \in BOOLEAN
        PROVE  Incorporate(c, me, ma, just) =
                 WithMap(c, d.implicitDirty /\ ~just, Incorporated(c, me, ma, just))
    BY <1>2, IncorporateIs
  <2>2. FALSE \in BOOLEAN
    OBVIOUS
  <2> QED  BY <2>1, <2>2 DEF g
<1>8. e = [must |-> v, may |-> s, implicitDirty |-> d.implicitDirty, dirtiness |-> f]
  <2>1. c.must = v /\ c.may = s
    BY <1>2
  <2>2. (d.implicitDirty /\ ~FALSE) = d.implicitDirty
    BY <1>0
  <2> QED  BY <1>4, <1>7, <2>1, <2>2 DEF WithMap, AgedState, c, me
<1> HIDE DEF e
<1>9. e.must = v /\ e.may = s /\ e.implicitDirty = d.implicitDirty /\ e.dirtiness = f
  BY <1>8
<1>10. DirtType(e)
  <2>1. \A u \in DOMAIN f : f[u] \in Statuses
    BY <1>0, <1>5 DEF Statuses
  <2>2. f \in [DOMAIN f -> Statuses] /\ DOMAIN f \subseteq Nat
    BY <1>0, <1>5, <1>6, <2>1
  <2> QED  BY <1>0, <1>1, <1>8, <1>9, <2>2 DEF DirtType
<1>11. ASSUME NEW u \in DOMAIN f
       PROVE  /\ f[u] = "DIRTY" => MustAge(v, u) < Assoc
              /\ f[u] # "CLEAN" => MinAge(s, u) < Assoc
  <2>1. /\ d.dirtiness[u] = "DIRTY" => MustAge(d.must, u) < Assoc
        /\ d.dirtiness[u] # "CLEAN" => MinAge(d.may, u) < Assoc
        /\ u \in Nat
    BY <1>0, <1>5 DEF CheckInvariants
  <2>2. /\ MustAge(d.must, u) \in 0 .. Assoc /\ MinAge(d.may, u) \in 0 .. Assoc
        /\ MinAge(s, u) \in 0 .. Assoc /\ MinAge(s, u) <= MinAge(d.may, u)
        /\ MustAge(v, u) = IF MustAge(d.must, u) < Assoc THEN MustAge(d.must, u) + 1
                           ELSE MustAge(d.must, u)
    BY <1>1, <2>1
  <2>3. f[u] = "DIRTY" => d.dirtiness[u] = "DIRTY" /\ MustAge(d.must, u) # Assoc - 1
    BY <1>5
  <2>4. f[u] # "CLEAN" => d.dirtiness[u] # "CLEAN"
    BY <1>5
  <2> QED  BY <1>0, <2>1, <2>2, <2>3, <2>4
<1>12. CheckInvariants(e)
  BY <1>9, <1>11 DEF CheckInvariants
<1>13. e.implicitDirty => e.may.implicit < Assoc
  <2>1. d.may.implicit \in 0 .. Assoc
    BY <1>0 DEF DirtType, MayState
  <2> QED  BY <1>0, <1>1, <1>9, <2>1
<1> QED  BY <1>8, <1>10, <1>12, <1>13 DEF WithBounds, DirtState, e, v, s, f

\* The map when the access is a store to one of the lines low .. high, or no store.
PotentialMap(d, low, high, store) ==
  [u \in DOMAIN d.dirtiness \cup low .. high |->
     IF store /\ u \in low .. high THEN JoinOf(DirtinessOf(d, u), "DIRTY") ELSE DirtinessOf(d, u)]
NotClean(d) == [u \in {t \in DOMAIN d.dirtiness : d.dirtiness[t] # "CLEAN"} |-> d.dirtiness[u]]
\* Assigning to two components.
LEMMA WithAnother ==
  ASSUME NEW e, NEW y, NEW h,
         e = [must |-> e.must, may |-> e.may, implicitDirty |-> e.implicitDirty,
              dirtiness |-> e.dirtiness]
  PROVE  [e EXCEPT !.implicitDirty = y, !.dirtiness = h] = WithMap(e, y, h)
<1> DEFINE x == [e EXCEPT !.implicitDirty = y, !.dirtiness = h]
<1>1. x \in [must : {e.must}, may : {e.may}, implicitDirty : {y}, dirtiness : {h}]
  OBVIOUS
<1>2. x.must = e.must /\ x.may = e.may /\ x.implicitDirty = y /\ x.dirtiness = h
  OBVIOUS
<1> HIDE DEF x
<1>3. x = [must |-> x.must, may |-> x.may, implicitDirty |-> x.implicitDirty,
          dirtiness |-> x.dirtiness]
  BY <1>1
<1> QED  BY <1>2, <1>3 DEF WithMap, x

\* Such an access leaves a state, which says of no line more than before; nothing of the
\* target of a store; and takes lines from the map only when nothing is known of ages.
LEMMA DirtStatePotentiallyUpdated ==
  ASSUME NEW d, DirtState(d), NEW low \in Nat, NEW high \in Nat, low <= high, NEW store \in BOOLEAN
  PROVE  LET e == DirtPotentialUpdate(d, low, high, store)
         IN  /\ DirtState(e)
             /\ e.must = MustPotentialUpdate(d.must) /\ e.may = MayPotentialUpdate(d.may, low, high)
             /\ \A u : /\ DirtinessOf(e, u) = "DIRTY" => DirtinessOf(d, u) = "DIRTY"
                       /\ DirtinessOf(e, u) = "CLEAN" =>
                            DirtinessOf(d, u) = "CLEAN" /\ (store => u \notin low .. high)
                       /\ u \notin DOMAIN e.dirtiness =>
                            u \notin DOMAIN d.dirtiness \cup low .. high \/ e.may.implicit = 0
<1> DEFINE v == MustPotentialUpdate(d.must)
           s == MayPotentialUpdate(d.may, low, high)
           many == high - low + 1 > MaxWorthwhileTags
           i == AgedState(d, low, high)
           f == AgedMap(d)
           e == DirtPotentialUpdate(d, low, high, store)
<1>0. DirtType(d) /\ Assoc \in Nat \ {0} /\ low .. high \subseteq Nat
  BY AssocAssumption DEF DirtState
<1>1. /\ many => s.implicit = 0
      /\ \A u \in Nat : u \in low .. high => MinAge(s, u) = 0
  BY <1>0, PotentiallyUpdatedBounds
<1>2. i = WithBounds(d, v, s, f) /\ DirtState(i)
  BY AgedStateIs
<1>3. i = [must |-> v, may |-> s, implicitDirty |-> d.implicitDirty, dirtiness |-> f]
  BY <1>2 DEF WithBounds
<1>4. i.must = v /\ i.may = s /\ i.implicitDirty = d.implicitDirty /\ i.dirtiness = f
  BY <1>3
<1>5. /\ DirtType(i) /\ CheckInvariants(i) /\ (i.implicitDirty => i.may.implicit < Assoc)
      /\ MustVector(v) /\ MayState(s) /\ DOMAIN f \subseteq Nat
  BY <1>2, <1>4 DEF DirtState, DirtType
<1>6. ASSUME NEW u
      PROVE  /\ DirtinessOf(i, u) = "DIRTY" => DirtinessOf(d, u) = "DIRTY"
             /\ DirtinessOf(i, u) = "CLEAN" => DirtinessOf(d, u) = "CLEAN"
             /\ u \in DOMAIN i.dirtiness <=> u \in DOMAIN d.dirtiness
             /\ DirtinessOf(i, u) \in Statuses
             /\ u \in DOMAIN i.dirtiness => DirtinessOf(i, u) = i.dirtiness[u]
  <2>1. /\ DirtinessOf(i, u) \in Statuses
        /\ u \in DOMAIN i.dirtiness => DirtinessOf(i, u) = i.dirtiness[u]
        /\ u \notin DOMAIN i.dirtiness =>
             DirtinessOf(i, u) = IF i.implicitDirty THEN "UNKNOWN" ELSE "CLEAN"
    BY <1>5, StatusType
  <2>2. /\ u \in DOMAIN d.dirtiness => DirtinessOf(d, u) = d.dirtiness[u]
        /\ u \notin DOMAIN d.dirtiness =>
             DirtinessOf(d, u) = IF d.implicitDirty THEN "UNKNOWN" ELSE "CLEAN"
    BY <1>0, StatusType
  <2>3. /\ DOMAIN f = DOMAIN d.dirtiness
        /\ u \in DOMAIN f => f[u] = IF MustAge(d.must, u) = Assoc - 1 /\ d.dirtiness[u] = "DIRTY"
                                    THEN "UNKNOWN" ELSE d.dirtiness[u]
    BY DEF AgedMap
  <2> HIDE DEF i, f
  <2> QED  BY <1>4, <2>1, <2>2, <2>3
<1>7. e = IF many THEN IF ~store THEN i ELSE WithMap(i, TRUE, NotClean(i))
          ELSE WithMap(i, d.implicitDirty, PotentialMap(i, low, high, store))
  <2> DEFINE tracked == Tracked(i, low .. high)
             g == [t \in DOMAIN tracked |-> IF store /\ t \in low .. high
                                            THEN JoinOf(tracked[t], "DIRTY") ELSE tracked[t]]
             h == Restrict(i.dirtiness, {t \in DOMAIN i.dirtiness : i.dirtiness[t] # "CLEAN"})
  <2>1. e = IF many
            THEN IF ~store THEN i ELSE [i EXCEPT !.implicitDirty = TRUE, !.dirtiness = h]
            ELSE [i EXCEPT !.dirtiness = g]
    BY DEF DirtPotentialUpdate, AgedState
  <2> HIDE DEF i, e, many
  <2>2. g = PotentialMap(i, low, high, store)
    BY DEF PotentialMap, Tracked
  <2>3. h = NotClean(i)
    BY DEF NotClean, Restrict
  <2> HIDE DEF g, h
  <2>4. i = [must |-> i.must, may |-> i.may, implicitDirty |-> i.implicitDirty,
             dirtiness |-> i.dirtiness]
    BY <1>5 DEF DirtType
  <2>5. [i EXCEPT !.dirtiness = g] = WithMap(i, i.implicitDirty, g)
    BY <2>4 DEF WithMap
  <2>6. [i EXCEPT !.implicitDirty = TRUE, !.dirtiness = h] = WithMap(i, TRUE, h)
    BY <2>4, WithAnother
  <2> QED  BY <1>4, <2>1, <2>2, <2>3, <2>5, <2>6
<1> DEFINE SaysNoMore(x) ==
             /\ DirtState(x) /\ x.must = v /\ x.may = s
             /\ \A u : /\ DirtinessOf(x, u) = "DIRTY" => DirtinessOf(d, u) = "DIRTY"
                       /\ DirtinessOf(x, u) = "CLEAN" =>
                            DirtinessOf(d, u) = "CLEAN" /\ (store => u \notin low .. high)
                       /\ u \notin DOMAIN x.dirtiness =>
                            u \notin DOMAIN d.dirtiness \cup low .. high \/ x.may.implicit = 0
<1> HIDE DEF v, s, many, i, f, e
<1>8. ASSUME many, ~store PROVE SaysNoMore(i)
  BY <1>1, <1>2, <1>4, <1>6, <1>8
<1>9. ASSUME many, store, NEW x, x = WithMap(i, TRUE, NotClean(i)) PROVE SaysNoMore(x)
  <2>1. /\ x = [must |-> v, may |-> s, implicitDirty |-> TRUE, dirtiness |-> NotClean(i)]
        /\ x.must = v /\ x.may = s /\ x.implicitDirty /\ x.dirtiness = NotClean(i)
    BY <1>4, <1>9 DEF WithMap
  <2>2. /\ DOMAIN NotClean(i) = {u \in DOMAIN i.dirtiness : i.dirtiness[u] # "CLEAN"}
        /\ \A u \in DOMAIN NotClean(i) :
             NotClean(i)[u] = i.dirtiness[u] /\ i.dirtiness[u] \in Statuses
        /\ NotClean(i) = [u \in DOMAIN NotClean(i) |-> NotClean(i)[u]]
    BY <1>6 DEF NotClean
  <2>3. NotClean(i) \in [DOMAIN NotClean(i) -> Statuses] /\ DOMAIN NotClean(i) \subseteq Nat
    BY <1>4, <1>5, <2>2
  <2>4. DirtType(x)
    <3>1. x = [must |-> x.must, may |-> x.may, implicitDirty |-> x.implicitDirty,
               dirtiness |-> x.dirtiness] /\ x.implicitDirty \in BOOLEAN
      BY <2>1
    <3> QED  BY <1>5, <2>1, <2>3, <3>1 DEF DirtType
  <2>5. CheckInvariants(x)
    BY <1>4, <1>5, <2>1, <2>2 DEF CheckInvariants
  <2>6. s.implicit = 0 /\ s.implicit < Assoc
    BY <1>0, <1>1, <1>9
  <2>7. ASSUME NEW u
        PROVE  /\ DirtinessOf(x, u) # "CLEAN"
               /\ DirtinessOf(x, u) = "DIRTY" => DirtinessOf(d, u) = "DIRTY"
    <3>1. CASE u \in DOMAIN x.dirtiness
      BY <1>6, <2>1, <2>2, <2>4, <3>1, StatusType
    <3>2. CASE u \notin DOMAIN x.dirtiness
      BY <2>1, <2>4, <3>2, StatusType
    <3> QED  BY <3>1, <3>2
  <2> QED  BY <2>1, <2>4, <2>5, <2>6, <2>7 DEF DirtState
<1>10. ASSUME ~many, NEW x, x = WithMap(i, d.implicitDirty, PotentialMap(i, low, high, store))
       PROVE  SaysNoMore(x)
  <2> DEFINE g == PotentialMap(i, low, high, store)
  <2>1. /\ x = [must |-> v, may |-> s, implicitDirty |-> d.implicitDirty, dirtiness |-> g]
        /\ x.must = v /\ x.may = s /\ x.implicitDirty = d.implicitDirty /\ x.dirtiness = g
    BY <1>4, <1>10 DEF WithMap
  <2>2. /\ DOMAIN g = DOMAIN i.dirtiness \cup low .. high
        /\ g = [u \in DOMAIN g |-> g[u]]
        /\ \A u \in DOMAIN g :
             g[u] = IF store /\ u \in low .. high THEN JoinOf(DirtinessOf(i, u), "DIRTY")
                    ELSE DirtinessOf(i, u)
    BY DEF PotentialMap
  <2> HIDE DEF g
  <2>3. ASSUME NEW u \in DOMAIN g
        PROVE  /\ g[u] \in Statuses
               /\ g[u] = "DIRTY" => DirtinessOf(i, u) = "DIRTY"
               /\ g[u] = "CLEAN" =>
                    DirtinessOf(i, u) = "CLEAN" /\ (store => u \notin low .. high)
               /\ u \notin low .. high => g[u] = DirtinessOf(i, u)
    BY <1>6, <2>2 DEF JoinOf, Statuses
  <2>4. g \in [DOMAIN g -> Statuses] /\ DOMAIN g \subseteq Nat
    BY <1>0, <1>4, <1>5, <2>2, <2>3
  <2>5. DirtType(x)
    <3>1. x = [must |-> x.must, may |-> x.may, implicitDirty |-> x.implicitDirty,
               dirtiness |-> x.dirtiness] /\ x.implicitDirty \in BOOLEAN
      BY <1>0, <2>1 DEF DirtType
    <3> QED  BY <1>5, <2>1, <2>4, <3>1 DEF DirtType
  <2>6. ASSUME NEW u \in DOMAIN g
        PROVE  /\ g[u] = "DIRTY" => MustAge(v, u) < Assoc
               /\ g[u] # "CLEAN" => MinAge(s, u) < Assoc
    <3>1. ASSUME u \in DOMAIN i.dirtiness
          PROVE  /\ DirtinessOf(i, u) = "DIRTY" => MustAge(v, u) < Assoc
                 /\ DirtinessOf(i, u) # "CLEAN" => MinAge(s, u) < Assoc
      BY <1>4, <1>5, <1>6, <3>1 DEF CheckInvariants
    <3>2. u \notin DOMAIN i.dirtiness => DirtinessOf(i, u) # "DIRTY"
      BY <1>5, StatusType
    <3>3. u \in low .. high => MinAge(s, u) = 0 /\ MinAge(s, u) < Assoc
      BY <1>0, <1>1
    <3>4. u \notin low .. high => u \in DOMAIN i.dirtiness
      BY <2>2
    <3> QED  BY <2>3, <3>1, <3>2, <3>3, <3>4
  <2>7. CheckInvariants(x)
    BY <2>1, <2>6 DEF CheckInvariants
  <2>8. DirtState(x)
    BY <1>4, <1>5, <2>1, <2>5, <2>7 DEF DirtState
  <2>9. ASSUME NEW u
        PROVE  /\ DirtinessOf(x, u) = "DIRTY" => DirtinessOf(d, u) = "DIRTY"
               /\ DirtinessOf(x, u) = "CLEAN" =>
                    DirtinessOf(d, u) = "CLEAN" /\ (store => u \notin low .. high)
               /\ u \notin DOMAIN x.dirtiness => u \notin DOMAIN d.dirtiness \cup low .. high
    <3>1. CASE u \in DOMAIN g
      <4>1. DirtinessOf(x, u) = g[u]
        BY <2>1, <2>5, <3>1, StatusType
      <4> QED  BY <1>6, <2>1, <2>3, <3>1, <4>1
    <3>2. CASE u \notin DOMAIN g
      <4>1. u \notin DOMAIN i.dirtiness /\ u \notin low .. high
        BY <2>2, <3>2
      <4>2. DirtinessOf(x, u) = DirtinessOf(i, u)
        BY <1>4, <1>5, <2>1, <2>5, <3>2, <4>1, StatusType
      <4> QED  BY <1>6, <2>1, <3>2, <4>1, <4>2
    <3> QED  BY <3>1, <3>2
  <2> QED  BY <2>1, <2>8, <2>9
<1>11. SaysNoMore(e)
  <2> HIDE DEF SaysNoMore
  <2>1. CASE many /\ ~store
    BY <1>7, <1>8, <2>1
  <2>2. CASE many /\ store
    BY <1>7, <1>9, <2>2
  <2>3. CASE ~many
    BY <1>7, <1>10, <2>3
  <2> QED  BY <2>1, <2>2, <2>3
<1> QED  BY <1>11 DEF v, s, e

\* Such an access, which touches one of the lines low .. high or none of the set, leaves what
\* the state says true,
LEMMA DirtTruePotentiallyUpdated ==
  ASSUME NEW S, NEW d, DirtState(d), NEW a, Enclosed(S, a, d.must, d.may),
         NEW D, DirtTrue(d, a, D),
         NEW low \in Tags, NEW high \in Tags, low <= high, NEW store \in BOOLEAN,
         NEW t \in Tags \cap low .. high,
         NEW b, NEW E,
         \/ b = a /\ E = D
         \/ b = Touched(S, a, t) /\ E = (D \ Gone(S, a, t)) \cup (IF store THEN {t} ELSE {})
  PROVE  DirtTrue(DirtPotentialUpdate(d, low, high, store), b, E)
<1> DEFINE v == MustPotentialUpdate(d.must)
           s == MayPotentialUpdate(d.may, low, high)
           e == DirtPotentialUpdate(d, low, high, store)
<1>0. /\ DirtType(d) /\ t \in Nat /\ t \in S /\ low \in Nat /\ high \in Nat
      /\ Tags \subseteq S /\ Tags \subseteq Nat
      /\ a \in [S -> 0 .. Assoc] /\ Distinct(S, a) /\ Assoc \in Nat \ {0}
  BY TagsAssumption, AssocAssumption DEF DirtState, Enclosed
<1>1. /\ DirtState(e) /\ e.must = v /\ e.may = s
      /\ \A u : /\ DirtinessOf(e, u) = "DIRTY" => DirtinessOf(d, u) = "DIRTY"
                /\ DirtinessOf(e, u) = "CLEAN" =>
                     DirtinessOf(d, u) = "CLEAN" /\ (store => u \notin low .. high)
                /\ u \notin DOMAIN e.dirtiness =>
                     u \notin DOMAIN d.dirtiness \cup low .. high \/ e.may.implicit = 0
  <2>1. low \in Nat /\ high \in Nat
    BY <1>0
  <2> QED  BY <2>1, DirtStatePotentiallyUpdated
<1>2. DirtType(e) /\ CheckInvariants(e)
  BY <1>1 DEF DirtState
<1>3. s.implicit \in 0 .. Assoc /\ s.implicit <= d.may.implicit /\ d.may.implicit \in 0 .. Assoc
  <2>1. d.may.implicit \in 0 .. Assoc
    BY <1>0 DEF DirtType, MayState
  <2> QED  BY <1>0, <2>1, PotentiallyUpdatedBounds
<1>4. Enclosed(S, b, v, s)
  BY EnclosedPotential
<1>5. ASSUME NEW u \in Tags
      PROVE  /\ b[u] \in 0 .. Assoc /\ a[u] \in 0 .. Assoc
             /\ b[u] <= MustAge(v, u) /\ MustAge(v, u) \in Nat
  <2> HIDE DEF v, s
  <2>1. b[u] <= MustAge(v, u) /\ MustAge(v, u) \in Nat /\ b[u] \in Nat /\ b[u] <= Assoc
    BY <1>4, EnclosedNumbers
  <2>2. a[u] \in Nat /\ a[u] <= Assoc
    BY EnclosedNumbers
  <2> QED  BY <1>0, <2>1, <2>2
<1>6. ASSUME NEW u \in Tags
      PROVE  /\ u \in D => a[u] < Assoc
             /\ DirtinessOf(d, u) = "CLEAN" => u \notin D
             /\ DirtinessOf(d, u) = "DIRTY" => u \in D
             /\ u \in D /\ u \notin DOMAIN d.dirtiness => d.may.implicit <= a[u]
  BY DEF DirtTrue
<1>7. D \subseteq Tags
  BY DEF DirtTrue
<1>8. ASSUME NEW u \in Tags
      PROVE  /\ u \in E => u \in D \/ (store /\ u \in low .. high)
             /\ u \in E => b[u] < Assoc
             /\ u \in D /\ u \notin E => b[u] = Assoc
             /\ u \notin low .. high => a[u] <= b[u]
  <2>1. CASE b = a /\ E = D
    BY <1>0, <1>5, <1>6, <2>1
  <2>2. CASE b = Touched(S, a, t) /\ E = (D \ Gone(S, a, t)) \cup (IF store THEN {t} ELSE {})
    <3>1. u \in S
      BY <1>0
    <3>2. Touched(S, a, t)[t] = 0 /\ t \notin Gone(S, a, t)
      BY <1>0, TouchedAge
    <3>3. CASE u = t
      <4>1. b[u] = 0
        BY <2>2, <3>2, <3>3
      <4> QED  BY <1>0, <2>2, <3>2, <3>3, <4>1
    <3>4. CASE u # t
      <4>1. a[u] <= Touched(S, a, t)[u]
        BY <1>0, <3>1, <3>4, TouchedAge
      <4>2. u \in Gone(S, a, t) <=> a[u] < Assoc /\ Touched(S, a, t)[u] = Assoc
        BY <1>0, <3>1, <3>4, EvictedAge
      <4>3. u \in E <=> u \in D /\ u \notin Gone(S, a, t)
        BY <2>2, <3>4
      <4>4. b[u] \in 0 .. Assoc /\ a[u] \in 0 .. Assoc /\ b[u] = Touched(S, a, t)[u]
        BY <1>5, <2>2
      <4>5. u \in D => a[u] < Assoc
        BY <1>6
      <4> HIDE DEF v, s, e
      <4> QED  BY <1>0, <4>1, <4>2, <4>3, <4>4, <4>5
    <3> QED  BY <3>3, <3>4
  <2> QED  BY <2>1, <2>2
<1>9. E \subseteq Tags
  BY <1>7
<1> HIDE DEF v, s, e
<1>10. ASSUME NEW u \in Tags
       PROVE  /\ DirtinessOf(e, u) = "CLEAN" => u \notin E
              /\ DirtinessOf(e, u) = "DIRTY" => u \in E
  <2>1. DirtinessOf(e, u) = "CLEAN" => u \notin E
    BY <1>1, <1>6, <1>8
  <2>2. ASSUME DirtinessOf(e, u) = "DIRTY" PROVE u \in E
    <3>1. u \in DOMAIN e.dirtiness /\ e.dirtiness[u] = "DIRTY"
      BY <1>2, <2>2, StatusType
    <3>2. MustAge(v, u) < Assoc
      BY <1>1, <1>2, <3>1 DEF CheckInvariants
    <3>3. u \in D
      BY <1>1, <1>6, <2>2
    <3>4. b[u] # Assoc
      BY <1>0, <1>5, <3>2
    <3> QED  BY <1>8, <3>3, <3>4
  <2> QED  BY <2>1, <2>2
<1>11. ASSUME NEW u \in E \ DOMAIN e.dirtiness PROVE e.may.implicit <= b[u]
  <2>1. u \in Tags /\ b[u] \in 0 .. Assoc /\ a[u] \in 0 .. Assoc
    BY <1>5, <1>9, <1>11
  <2>2. CASE e.may.implicit = 0
    BY <2>1, <2>2
  <2>3. CASE e.may.implicit # 0
    <3>1. u \notin DOMAIN d.dirtiness /\ u \notin low .. high
      BY <1>1, <1>11, <2>3
    <3>2. u \in D /\ a[u] <= b[u]
      BY <1>8, <1>11, <2>1, <3>1
    <3>3. d.may.implicit <= a[u]
      BY <1>6, <2>1, <3>1, <3>2
    <3> QED  BY <1>0, <1>1, <1>3, <2>1, <3>2, <3>3
  <2> QED  BY <2>2, <2>3
<1>12. E \subseteq {u \in Tags : b[u] < Assoc}
  BY <1>8, <1>9
<1> QED  BY <1>10, <1>11, <1>12 DEF DirtTrue, e

\* and its report foresees the write-back of a dirty line and the store to a clean one.
LEMMA PotentialReportForesees ==
  ASSUME NEW S, NEW d, DirtState(d), NEW a, Enclosed(S, a, d.must, d.may),
         NEW D, DirtTrue(d, a, D),
         NEW low \in Tags, NEW high \in Tags, low <= high, NEW store \in BOOLEAN,
         NEW t \in Tags \cap low .. high
  PROVE  /\ Gone(S, a, t) \cap D # {} => DirtPotentialReport(d, low, high, store).wbPossible
         /\ store /\ t \notin D => DirtPotentialReport(d, low, high, store).dirtifyingStore
<1> DEFINE v == MustPotentialUpdate(d.must)
           s == MayPotentialUpdate(d.may, low, high)
           b == Touched(S, a, t)
           c == PotentiallyAccessed(d, low, high)
           i == AgedState(d, low, high)
           dirtifies == store /\ (\/ high - low + 1 > MaxWorthwhileTags
                                  \/ \E u \in low .. high : DirtinessOf(i, u) # "DIRTY")
<1>0. DirtType(d) /\ low \in Nat /\ high \in Nat
  BY TagsAssumption DEF DirtState
<1>1. c.must = v /\ c.implicitDirty = d.implicitDirty /\ c.dirtiness = d.dirtiness
  BY <1>0, PotentiallyAccessedIs DEF Aged, WithBounds
<1>2. ASSUME store, t \notin D PROVE dirtifies
  <2>1. DirtinessOf(d, t) # "DIRTY"
    BY <1>2 DEF DirtTrue
  <2>2. i = WithBounds(d, v, s, AgedMap(d)) /\ DirtState(i)
    BY <1>0, AgedStateIs
  <2>3. i.implicitDirty = d.implicitDirty /\ i.dirtiness = AgedMap(d) /\ DirtType(i)
    BY <2>2 DEF WithBounds, DirtState
  <2> HIDE DEF i
  <2>4. /\ t \in DOMAIN d.dirtiness <=> t \in DOMAIN i.dirtiness
        /\ t \in DOMAIN i.dirtiness =>
             i.dirtiness[t] = IF MustAge(d.must, t) = Assoc - 1 /\ d.dirtiness[t] = "DIRTY"
                              THEN "UNKNOWN" ELSE d.dirtiness[t]
    BY <2>3 DEF AgedMap
  <2>5. DirtinessOf(i, t) # "DIRTY"
    <3>1. CASE t \in DOMAIN i.dirtiness
      BY <1>0, <2>1, <2>3, <2>4, <3>1, StatusType
    <3>2. CASE t \notin DOMAIN i.dirtiness
      BY <2>3, <3>2, StatusType
    <3> QED  BY <3>1, <3>2
  <2> QED  BY <1>2, <2>5
<1>3. ASSUME NEW u \in Gone(S, a, t) \cap D PROVE ExistsDirtyVictim(c)
  <2>1. u \in Tags /\ u \in D /\ u \in Gone(S, a, t) /\ DirtinessOf(d, u) # "CLEAN"
    BY <1>3 DEF DirtTrue
  <2>2. /\ t \in S /\ u \in S /\ t \in Nat /\ u \in Nat /\ Assoc \in Nat \ {0}
        /\ a \in [S -> 0 .. Assoc] /\ Distinct(S, a)
    BY <2>1, TagsAssumption, AssocAssumption DEF Enclosed
  <2>3. u # t
    BY <2>1, <2>2, TouchedAge
  <2>4. b[u] = Assoc
    BY <2>1, <2>2, <2>3, EvictedAge
  <2>5. Enclosed(S, b, v, s)
    BY EnclosedPotential
  <2> HIDE DEF b, v, s, c
  <2>6. b[u] <= MustAge(v, u) /\ MustAge(v, u) \in Nat /\ MustAge(v, u) <= Assoc
    BY <2>1, <2>5, EnclosedNumbers
  <2>7. MustAge(v, u) = Assoc
    BY <2>2, <2>4, <2>6
  <2>8. CASE u \in DOMAIN d.dirtiness
    <3>1. d.dirtiness[u] # "CLEAN"
      BY <1>0, <2>1, <2>8, StatusType
    <3> QED  BY <1>1, <2>7, <2>8, <3>1 DEF ExistsDirtyVictim
  <2>9. CASE u \notin DOMAIN d.dirtiness
    <3>1. d.implicitDirty
      BY <1>0, <2>1, <2>9, StatusType
    <3> QED  BY <1>1, <3>1 DEF ExistsDirtyVictim
  <2> QED  BY <2>8, <2>9
<1>4. DirtPotentialReport(d, low, high, store) =
        [wbPossible |-> ExistsDirtyVictim(c), dirtifyingStore |-> dirtifies]
  BY DEF DirtPotentialReport, AgedState
<1> HIDE DEF c, dirtifies
<1>5. Gone(S, a, t) \cap D # {} => ExistsDirtyVictim(c)
  BY <1>3
<1> QED  BY <1>2, <1>4, <1>5

-----------------------------------------------------------------------------
\* The join.

\* The join of two states is one, and says of no line more than each of them.
LEMMA DirtStateJoined ==
  ASSUME NEW d, DirtState(d), NEW e, DirtState(e)
  PROVE  LET j == DirtJoin(d, e)
         IN  /\ DirtState(j)
             /\ j.must = MustJoin(d.must, e.must) /\ j.may = MayJoin(d.may, e.may)
             /\ \A u : /\ DirtinessOf(j, u) = "DIRTY" =>
                            DirtinessOf(d, u) = "DIRTY" /\ DirtinessOf(e, u) = "DIRTY"
                       /\ DirtinessOf(j, u) = "CLEAN" =>
                            DirtinessOf(d, u) = "CLEAN" /\ DirtinessOf(e, u) = "CLEAN"
                       /\ u \notin DOMAIN j.dirtiness =>
                            u \notin DOMAIN d.dirtiness /\ u \notin DOMAIN e.dirtiness
             /\ j.may.implicit <= d.may.implicit /\ j.may.implicit <= e.may.implicit
<1> DEFINE v == MustJoin(d.must, e.must)
           s == MayJoin(d.may, e.may)
           f == [t \in DOMAIN d.dirtiness \cup DOMAIN e.dirtiness |->
                   JoinOf(DirtinessOf(d, t), DirtinessOf(e, t))]
           j == DirtJoin(d, e)
<1>0. /\ DirtType(d) /\ CheckInvariants(d) /\ (d.implicitDirty => d.may.implicit < Assoc)
      /\ DirtType(e) /\ CheckInvariants(e) /\ (e.implicitDirty => e.may.implicit < Assoc)
      /\ Assoc \in Nat \ {0}
  BY AssocAssumption DEF DirtState
<1>1. /\ MustVector(d.must) /\ MayState(d.may) /\ d.may.implicit \in 0 .. Assoc
      /\ MustVector(e.must) /\ MayState(e.may) /\ e.may.implicit \in 0 .. Assoc
      /\ d.implicitDirty \in BOOLEAN /\ e.implicitDirty \in BOOLEAN
      /\ DOMAIN d.dirtiness \subseteq Nat /\ DOMAIN e.dirtiness \subseteq Nat
  BY <1>0 DEF DirtType, MayState
<1>2. /\ MustVector(v)
      /\ \A u : MustAge(v, u) =
                  IF MustAge(d.must, u) < MustAge(e.must, u) THEN MustAge(e.must, u)
                  ELSE MustAge(d.must, u)
  BY <1>1, MustJoinAges
<1>3. /\ MayState(s) /\ s.implicit = Lowest(d.may, e.may)
      /\ \A u : MinAge(s, u) =
                  IF MinAge(d.may, u) <= MinAge(e.may, u) THEN MinAge(d.may, u)
                  ELSE MinAge(e.may, u)
  BY <1>1, MayJoinAges
<1>4. s.implicit <= d.may.implicit /\ s.implicit <= e.may.implicit
  BY <1>1, <1>3 DEF Lowest
<1>5. ASSUME NEW u
      PROVE  /\ MustAge(d.must, u) \in 0 .. Assoc /\ MustAge(e.must, u) \in 0 .. Assoc
             /\ MinAge(d.may, u) \in 0 .. Assoc /\ MinAge(e.may, u) \in 0 .. Assoc
             /\ MinAge(d.may, u) <= d.may.implicit /\ MinAge(e.may, u) <= e.may.implicit
  <2>1. MustAge(d.must, u) \in 0 .. Assoc /\ MustAge(e.must, u) \in 0 .. Assoc
    BY <1>1, MustAges
  <2>2. /\ MinAge(d.may, u) \in 0 .. Assoc /\ MinAge(e.may, u) \in 0 .. Assoc
        /\ MinAge(d.may, u) <= d.may.implicit /\ MinAge(e.may, u) <= e.may.implicit
    BY <1>1, MayAges
  <2> QED  BY <2>1, <2>2
<1> HIDE DEF v, s
<1>6. /\ DOMAIN f = DOMAIN d.dirtiness \cup DOMAIN e.dirtiness /\ DOMAIN f \subseteq Nat
      /\ \A u \in DOMAIN f : f[u] = JoinOf(DirtinessOf(d, u), DirtinessOf(e, u))
      /\ f = [u \in DOMAIN f |-> f[u]]
  BY <1>1
<1> HIDE DEF f
<1>7. /\ j = [must |-> v, may |-> s, implicitDirty |-> d.implicitDirty \/ e.implicitDirty,
              dirtiness |-> f]
      /\ j.must = v /\ j.may = s /\ j.implicitDirty = (d.implicitDirty \/ e.implicitDirty)
      /\ j.dirtiness = f
  BY DEF DirtJoin, v, s, f
<1> HIDE DEF j
<1>8. ASSUME NEW u
      PROVE  /\ DirtinessOf(d, u) \in Statuses /\ DirtinessOf(e, u) \in Statuses
             /\ u \notin DOMAIN d.dirtiness =>
                  DirtinessOf(d, u) = IF d.implicitDirty THEN "UNKNOWN" ELSE "CLEAN"
             /\ u \notin DOMAIN e.dirtiness =>
                  DirtinessOf(e, u) = IF e.implicitDirty THEN "UNKNOWN" ELSE "CLEAN"
  BY <1>0, StatusType
<1>9. \A u \in DOMAIN f : f[u] \in Statuses
  BY <1>6, <1>8 DEF JoinOf, Statuses
<1>10. DirtType(j)
  <2>1. f \in [DOMAIN f -> Statuses]
    BY <1>6, <1>9
  <2>2. j = [must |-> j.must, may |-> j.may, implicitDirty |-> j.implicitDirty,
             dirtiness |-> j.dirtiness] /\ j.implicitDirty \in BOOLEAN
    BY <1>7
  <2> QED  BY <1>2, <1>3, <1>6, <1>7, <2>1, <2>2 DEF DirtType
<1>11. ASSUME NEW u \in DOMAIN f
       PROVE  /\ f[u] = "DIRTY" => DirtinessOf(d, u) = "DIRTY" /\ DirtinessOf(e, u) = "DIRTY"
              /\ f[u] = "CLEAN" => DirtinessOf(d, u) = "CLEAN" /\ DirtinessOf(e, u) = "CLEAN"
              /\ f[u] # "CLEAN" => DirtinessOf(d, u) # "CLEAN" \/ DirtinessOf(e, u) # "CLEAN"
  BY <1>6 DEF JoinOf
<1>12. ASSUME NEW u
       PROVE  /\ DirtinessOf(d, u) = "DIRTY" => MustAge(d.must, u) < Assoc
              /\ DirtinessOf(e, u) = "DIRTY" => MustAge(e.must, u) < Assoc
              /\ DirtinessOf(d, u) # "CLEAN" => MinAge(d.may, u) < Assoc
              /\ DirtinessOf(e, u) # "CLEAN" => MinAge(e.may, u) < Assoc
  <2>1. ASSUME NEW x, DirtType(x), CheckInvariants(x), x.implicitDirty => x.may.implicit < Assoc
        PROVE  /\ DirtinessOf(x, u) = "DIRTY" => MustAge(x.must, u) < Assoc
               /\ DirtinessOf(x, u) # "CLEAN" => MinAge(x.may, u) < Assoc
    <3>1. CASE u \in DOMAIN x.dirtiness
      BY <2>1, <3>1, StatusType DEF CheckInvariants
    <3>2. CASE u \notin DOMAIN x.dirtiness
      <4>1. DirtinessOf(x, u) = IF x.implicitDirty THEN "UNKNOWN" ELSE "CLEAN"
        BY <2>1, <3>2, StatusType
      <4>2. MinAge(x.may, u) \in 0 .. Assoc /\ MinAge(x.may, u) <= x.may.implicit
        BY <2>1, MayAges DEF DirtType
      <4>3. x.may.implicit \in 0 .. Assoc
        BY <2>1 DEF DirtType, MayState
      <4> QED  BY <1>0, <2>1, <4>1, <4>2, <4>3
    <3> QED  BY <3>1, <3>2
  <2>2. /\ DirtinessOf(d, u) = "DIRTY" => MustAge(d.must, u) < Assoc
        /\ DirtinessOf(d, u) # "CLEAN" => MinAge(d.may, u) < Assoc
    BY <1>0, <2>1
  <2>3. /\ DirtinessOf(e, u) = "DIRTY" => MustAge(e.must, u) < Assoc
        /\ DirtinessOf(e, u) # "CLEAN" => MinAge(e.may, u) < Assoc
    BY <1>0, <2>1
  <2> QED  BY <2>2, <2>3
<1>13. ASSUME NEW u \in DOMAIN j.dirtiness
       PROVE  /\ j.dirtiness[u] = "DIRTY" => MustAge(j.must, u) < Assoc
              /\ j.dirtiness[u] # "CLEAN" => MinAge(j.may, u) < Assoc
  <2>1. u \in DOMAIN f /\ j.dirtiness[u] = f[u]
    BY <1>7, <1>13
  <2>2. j.dirtiness[u] = "DIRTY" => MustAge(j.must, u) < Assoc
    BY <1>2, <1>7, <1>11, <1>12, <2>1
  <2>3. ASSUME j.dirtiness[u] # "CLEAN" PROVE MinAge(j.may, u) < Assoc
    <3>1. MinAge(d.may, u) < Assoc \/ MinAge(e.may, u) < Assoc
      BY <1>11, <1>12, <2>1, <2>3
    <3>2. MinAge(s, u) = IF MinAge(d.may, u) <= MinAge(e.may, u) THEN MinAge(d.may, u)
                         ELSE MinAge(e.may, u)
      BY <1>3
    <3>3. MinAge(d.may, u) \in 0 .. Assoc /\ MinAge(e.may, u) \in 0 .. Assoc
      BY <1>5
    <3> QED  BY <1>0, <1>7, <3>1, <3>2, <3>3
  <2> QED  BY <2>2, <2>3
<1>14. DirtState(j)
  <2>1. j.implicitDirty => j.may.implicit < Assoc
    <3>1. s.implicit \in 0 .. Assoc
      BY <1>3 DEF MayState
    <3> QED  BY <1>0, <1>1, <1>4, <1>7, <3>1
  <2> QED  BY <1>10, <1>13, <2>1 DEF DirtState, CheckInvariants
<1>15. ASSUME NEW u
       PROVE  /\ DirtinessOf(j, u) = "DIRTY" =>
                   DirtinessOf(d, u) = "DIRTY" /\ DirtinessOf(e, u) = "DIRTY"
              /\ DirtinessOf(j, u) = "CLEAN" =>
                   DirtinessOf(d, u) = "CLEAN" /\ DirtinessOf(e, u) = "CLEAN"
              /\ u \notin DOMAIN j.dirtiness =>
                   u \notin DOMAIN d.dirtiness /\ u \notin DOMAIN e.dirtiness
  <2>1. CASE u \in DOMAIN f
    <3>1. DirtinessOf(j, u) = f[u]
      BY <1>7, <1>10, <2>1, StatusType
    <3> QED  BY <1>7, <1>11, <2>1, <3>1
  <2>2. CASE u \notin DOMAIN f
    <3>1. DirtinessOf(j, u) = IF j.implicitDirty THEN "UNKNOWN" ELSE "CLEAN"
      BY <1>7, <1>10, <2>2, StatusType
    <3>2. u \notin DOMAIN d.dirtiness /\ u \notin DOMAIN e.dirtiness
      BY <1>6, <2>2
    <3>3. /\ DirtinessOf(d, u) = IF d.implicitDirty THEN "UNKNOWN" ELSE "CLEAN"
          /\ DirtinessOf(e, u) = IF e.implicitDirty THEN "UNKNOWN" ELSE "CLEAN"
      BY <1>8, <3>2
    <3> QED  BY <1>1, <1>7, <3>1, <3>2, <3>3
  <2> QED  BY <2>1, <2>2
<1>16. /\ j.must = v /\ j.may = s
       /\ j.may.implicit <= d.may.implicit /\ j.may.implicit <= e.may.implicit
  BY <1>4, <1>7
<1> QED  BY <1>14, <1>15, <1>16 DEF j, v, s

\* What one of two states says truly, their join does.
LEMMA DirtTrueJoined ==
  ASSUME NEW S, NEW d, DirtState(d), NEW a, Enclosed(S, a, d.must, d.may), NEW D, DirtTrue(d, a, D),
         NEW e, DirtState(e), \A u \in Nat \ Tags : MustAge(e.must, u) = Assoc
  PROVE  /\ Enclosed(S, a, DirtJoin(d, e).must, DirtJoin(d, e).may)
         /\ DirtTrue(DirtJoin(d, e), a, D)
<1> DEFINE j == DirtJoin(d, e)
           v == MustJoin(d.must, e.must)
           s == MayJoin(d.may, e.may)
<1>0. /\ MustVector(d.must) /\ MayState(d.may) /\ MustVector(e.must) /\ MayState(e.may)
      /\ Tags \subseteq S /\ a \in [S -> 0 .. Assoc] /\ Distinct(S, a) /\ Assoc \in Nat \ {0}
      /\ \A u \in Nat \ Tags : MustAge(d.must, u) = Assoc
  BY AssocAssumption DEF DirtState, DirtType, Enclosed
<1>1. /\ j.must = v /\ j.may = s
      /\ \A u : /\ DirtinessOf(j, u) = "DIRTY" => DirtinessOf(d, u) = "DIRTY"
                /\ DirtinessOf(j, u) = "CLEAN" => DirtinessOf(d, u) = "CLEAN"
                /\ u \notin DOMAIN j.dirtiness => u \notin DOMAIN d.dirtiness
      /\ j.may.implicit <= d.may.implicit
  BY DirtStateJoined
<1>2. /\ MustVector(v)
      /\ \A u : MustAge(v, u) =
                  IF MustAge(d.must, u) < MustAge(e.must, u) THEN MustAge(e.must, u)
                  ELSE MustAge(d.must, u)
  BY <1>0, MustJoinAges
<1>3. /\ MayState(s)
      /\ \A u : MinAge(s, u) =
                  IF MinAge(d.may, u) <= MinAge(e.may, u) THEN MinAge(d.may, u)
                  ELSE MinAge(e.may, u)
  BY <1>0, MayJoinAges
<1> HIDE DEF j, v, s
<1>4. ASSUME NEW u \in Tags
      PROVE  MinAge(s, u) <= a[u] /\ a[u] <= MustAge(v, u)
  <2>1. /\ MinAge(d.may, u) <= a[u] /\ a[u] <= MustAge(d.must, u)
        /\ MinAge(d.may, u) \in Nat /\ a[u] \in Nat /\ MustAge(d.must, u) \in Nat
    BY EnclosedNumbers
  <2>2. MustAge(e.must, u) \in 0 .. Assoc
    BY <1>0, MustAges
  <2>3. MinAge(e.may, u) \in 0 .. Assoc
    BY <1>0, MayAges
  <2> QED  BY <1>0, <1>2, <1>3, <2>1, <2>2, <2>3
<1>5. ASSUME NEW u \in Nat \ Tags PROVE MustAge(v, u) = Assoc
  BY <1>0, <1>2
<1>6. Enclosed(S, a, v, s)
  BY <1>0, <1>2, <1>3, <1>4, <1>5 DEF Enclosed, Between
<1>7. DirtTrue(j, a, D)
  <2>1. ASSUME NEW u \in D \ DOMAIN j.dirtiness PROVE j.may.implicit <= a[u]
    <3>1. u \in Tags /\ d.may.implicit <= a[u]
      BY <1>1, <2>1 DEF DirtTrue
    <3>2. a[u] \in Nat /\ d.may.implicit \in 0 .. Assoc
      BY <1>0, <3>1, EnclosedNumbers DEF MayState
    <3>3. j.may.implicit \in 0 .. Assoc
      BY <1>1, <1>3 DEF MayState
    <3> QED  BY <1>0, <1>1, <3>1, <3>2, <3>3
  <2>2. D \subseteq {u \in Tags : a[u] < Assoc}
    BY DEF DirtTrue
  <2>3. \A u \in Tags : /\ DirtinessOf(j, u) = "CLEAN" => u \notin D
                        /\ DirtinessOf(j, u) = "DIRTY" => u \in D
    BY <1>1 DEF DirtTrue
  <2> QED  BY <2>1, <2>2, <2>3 DEF DirtTrue
<1> QED  BY <1>1, <1>6, <1>7 DEF j

\* Before the first access the state says nothing, but what is assumed of the set.
LEMMA DirtInitially ==
  ASSUME NEW clean \in BOOLEAN,
         NEW S, Tags \subseteq S, NEW a \in [S -> 0 .. Assoc], Distinct(S, a),
         NEW D, D \subseteq {t \in Tags : a[t] < Assoc}, clean => D = {}
  PROVE  LET d == DirtInit(FALSE, clean)
         IN  DirtState(d) /\ Enclosed(S, a, d.must, d.may) /\ DirtTrue(d, a, D)
<1> DEFINE d == DirtInit(FALSE, clean)
           none == [t \in {} |-> "CLEAN"]
<1>1. /\ d = [must |-> MustInit, may |-> MayInit(FALSE), implicitDirty |-> ~clean,
              dirtiness |-> none]
      /\ d.must = MustInit /\ d.may = MayInit(FALSE)
      /\ d.implicitDirty = ~clean /\ d.dirtiness = none
  BY DEF DirtInit
<1>2. DOMAIN none = {} /\ none \in [{} -> Statuses]
  OBVIOUS
<1>3. MayInit(FALSE).implicit = 0 /\ Assoc \in Nat \ {0} /\ 0 < Assoc
  BY AssocAssumption DEF MayInit
<1> HIDE DEF d, none
<1>4. DirtType(d)
  <2>1. d = [must |-> d.must, may |-> d.may, implicitDirty |-> d.implicitDirty,
             dirtiness |-> d.dirtiness] /\ d.implicitDirty \in BOOLEAN
    BY <1>1
  <2>2. MustVector(d.must) /\ MayState(d.may)
    BY <1>1, UnknownAges
  <2> QED  BY <1>1, <1>2, <2>1, <2>2 DEF DirtType
<1>5. DirtState(d)
  BY <1>1, <1>2, <1>3, <1>4 DEF DirtState, CheckInvariants
<1>6. ASSUME NEW u \in Tags PROVE DirtinessOf(d, u) = IF clean THEN "CLEAN" ELSE "UNKNOWN"
  BY <1>1, <1>2, <1>4, StatusType
<1>7. \A u \in D \ DOMAIN d.dirtiness : d.may.implicit <= a[u]
  <2>1. ASSUME NEW u \in D PROVE a[u] \in Int /\ 0 <= a[u]
    <3>1. u \in S
      OBVIOUS
    <3>2. a[u] \in 0 .. Assoc
      BY <3>1
    <3> QED  BY <1>3, <3>2
  <2> QED  BY <1>1, <1>3, <2>1
<1>8. DirtTrue(d, a, D)
  BY <1>6, <1>7 DEF DirtTrue
<1>9. Enclosed(S, a, d.must, d.may)
  BY <1>1, EnclosedInit
<1> QED  BY <1>5, <1>8, <1>9 DEF d

-----------------------------------------------------------------------------
\* The states of the paths.

\* What each path carries: a state with lines of the program only;
PathDirt(d) == DirtState(d) /\ \A u \in Nat \ Tags : MustAge(d.must, u) = Assoc

\* and the followed one's, which describes the set with the ages a and the dirty lines D.
Describes(d, a, D) == Enclosed(Lines, a, d.must, d.may) /\ DirtTrue(d, a, D)

\* No other core accesses the write-back set.
Alone == ~(config.writeback /\ config.shared)

\* What DirtinessSound says of the lines.
DirtinessTrue ==
  config.writeback =>
    \A t \in Tags : /\ DirtinessOf(dirt[Followed], t) = "CLEAN" => t \notin dirty
                    /\ DirtinessOf(dirt[Followed], t) = "DIRTY" => t \in dirty

\* Each path carries a state, the followed one's is true, and nothing has been a surprise.
DirtInv ==
  /\ config.writeback => \A p \in DOMAIN dirt : PathDirt(dirt[p])
  /\ config.writeback /\ ~config.shared => Describes(dirt[Followed], age, dirty)
  /\ Alone => surprises = {}

\* A path that goes on with a hit may do so: the line is in its must vector or there is
\* room for it.
LEMMA HitsAreLegal ==
  ASSUME NEW d, DirtState(d), NEW t \in Tags, NEW outcome, NEW split \in BOOLEAN,
         DirtClassify(d, t) \in {"UNKNOWN", outcome}, split => DirtClassify(d, t) = "UNKNOWN",
         NEW hit \in BOOLEAN,
         hit = (IF split THEN outcome = "HIT" ELSE DirtClassify(d, t) = "HIT")
  PROVE  /\ hit => outcome = "HIT"
         /\ hit => t \in TagsOf(d.must) \/ Len(d.must) < Assoc
<1>1. MustVector(d.must)
  BY DEF DirtState, DirtType
<1>2. Len(d.must) \in Nat /\ Len(d.must) <= Assoc /\ Assoc \in Nat \ {0}
  BY <1>1, MustVectorFits, VectorEntries, AssocAssumption DEF MustVector
<1>3. MayClassify(d.may, t, 0) # "HIT"
  BY DEF MayClassify
<1>4. /\ DirtClassify(d, t) = "HIT" => MustClassify(d.must, t, 0) = "HIT"
      /\ DirtClassify(d, t) = "UNKNOWN" => MustClassify(d.must, t, 0) = "UNKNOWN"
  BY <1>3 DEF DirtClassify
<1>5. /\ MustClassify(d.must, t, 0) = "HIT" => t \in TagsOf(d.must)
      /\ MustClassify(d.must, t, 0) = "UNKNOWN" => Len(d.must) # Assoc
  BY DEF MustClassify
<1> QED  BY <1>2, <1>4, <1>5

\* An access to a line of the program leaves such a state,
LEMMA PathUpdated ==
  ASSUME NEW d, PathDirt(d), NEW t \in Tags, NEW store \in BOOLEAN, NEW hit \in BOOLEAN,
         hit => t \in TagsOf(d.must) \/ Len(d.must) < Assoc
  PROVE  /\ PathDirt(DirtUpdate(d, t, store, hit))
         /\ DirtUpdate(d, t, store, hit).must = MustUpdate(d.must, t, hit)
         /\ DirtUpdate(d, t, store, hit).may = MayUpdate(d.may, t)
<1> DEFINE e == DirtUpdate(d, t, store, hit)
           v == MustUpdate(d.must, t, hit)
           s == MayUpdate(d.may, t)
           n == AccessedAge(d.must, t, hit)
<1>0. DirtState(d) /\ DirtType(d) /\ t \in Nat /\ Assoc \in Nat
  BY TagsAssumption, AssocAssumption DEF PathDirt, DirtState
<1>1. DirtState(e)
  BY <1>0, DirtStateUpdated
<1>2. e.must = v /\ e.may = s
  BY <1>0, UpdatedStatus
<1>3. ASSUME NEW u \in Nat \ Tags PROVE MustAge(v, u) = Assoc
  <2>1. /\ n \in 0 .. Assoc
        /\ MustAge(v, u) = IF u = t THEN 0
                           ELSE IF MustAge(d.must, u) < n THEN MustAge(d.must, u) + 1
                           ELSE MustAge(d.must, u)
    BY <1>0, UpdatedBounds
  <2>2. MustAge(d.must, u) = Assoc /\ u # t
    BY DEF PathDirt
  <2> HIDE DEF v, n
  <2> QED  BY <1>0, <2>1, <2>2
<1> HIDE DEF e, v, s
<1>4. \A u \in Nat \ Tags : MustAge(e.must, u) = Assoc
  BY <1>2, <1>3
<1>5. PathDirt(e)
  BY <1>1, <1>4 DEF PathDirt
<1> QED  BY <1>2, <1>5 DEF e, v, s

\* as does one to a line that is not known,
LEMMA PathPotentiallyUpdated ==
  ASSUME NEW d, PathDirt(d), NEW low \in Tags, NEW high \in Tags, low <= high,
         NEW store \in BOOLEAN
  PROVE  /\ PathDirt(DirtPotentialUpdate(d, low, high, store))
         /\ DirtPotentialUpdate(d, low, high, store).must = MustPotentialUpdate(d.must)
         /\ DirtPotentialUpdate(d, low, high, store).may = MayPotentialUpdate(d.may, low, high)
<1> DEFINE e == DirtPotentialUpdate(d, low, high, store)
           v == MustPotentialUpdate(d.must)
           s == MayPotentialUpdate(d.may, low, high)
<1>0. DirtState(d) /\ MustVector(d.must) /\ low \in Nat /\ high \in Nat /\ Assoc \in Nat
  BY TagsAssumption, AssocAssumption DEF PathDirt, DirtState, DirtType
<1>1. DirtState(e) /\ e.must = v /\ e.may = s
  BY <1>0, DirtStatePotentiallyUpdated
<1>2. ASSUME NEW u \in Nat \ Tags PROVE MustAge(v, u) = Assoc
  <2>1. MustAge(v, u) = IF MustAge(d.must, u) < Assoc THEN MustAge(d.must, u) + 1
                        ELSE MustAge(d.must, u)
    BY <1>0, MustPotentialUpdateAges
  <2>2. MustAge(d.must, u) = Assoc
    BY DEF PathDirt
  <2> HIDE DEF v
  <2> QED  BY <1>0, <2>1, <2>2
<1> HIDE DEF e, v, s
<1>3. PathDirt(e)
  BY <1>1, <1>2 DEF PathDirt
<1> QED  BY <1>1, <1>3 DEF e, v, s

\* and the join of two.
LEMMA PathJoined ==
  ASSUME NEW d, PathDirt(d), NEW e, PathDirt(e)
  PROVE  PathDirt(DirtJoin(d, e))
<1> DEFINE j == DirtJoin(d, e)
           v == MustJoin(d.must, e.must)
<1>0. DirtState(d) /\ DirtState(e) /\ MustVector(d.must) /\ MustVector(e.must)
  BY DEF PathDirt, DirtState, DirtType
<1>1. DirtState(j) /\ j.must = v
  BY <1>0, DirtStateJoined
<1>2. ASSUME NEW u \in Nat \ Tags PROVE MustAge(v, u) = Assoc
  <2>1. MustAge(v, u) = IF MustAge(d.must, u) < MustAge(e.must, u) THEN MustAge(e.must, u)
                        ELSE MustAge(d.must, u)
    BY <1>0, MustJoinAges
  <2>2. MustAge(d.must, u) = Assoc /\ MustAge(e.must, u) = Assoc
    BY DEF PathDirt
  <2> QED  BY <2>1, <2>2
<1> HIDE DEF j, v
<1> QED  BY <1>1, <1>2 DEF PathDirt, j

-----------------------------------------------------------------------------
\* The steps of the paths: which of them a step changes, and how.

\* The concrete set is touched as the lemmas about it say.
LEMMA TouchIsTouched ==
  \A t : Touch(age, t) = Touched(Lines, age, t) /\ Evicted(t) = Gone(Lines, age, t)
BY DEF Touch, Touched, Evicted, Gone

\* Whatever the path is, an access to a known line keeps the invariant,
LEMMA AccessKeepsDirt ==
  ASSUME DirtInv, config \in Configs, NEW p \in DOMAIN dirt, Followed \in DOMAIN dirt,
         NEW t \in Tags, NEW store \in Stores, NEW outcome \in {"HIT", "MISS"},
         NEW split \in BOOLEAN, Access(p, t, store, outcome, split)
  PROVE  DirtInv'
<1> DEFINE cl == DirtClassify(dirt[p], t)
           hit == IF split THEN outcome = "HIT" ELSE cl = "HIT"
           e == DirtUpdate(dirt[p], t, store, hit)
           report == DirtReport(dirt[p], t, store, hit)
<1>1. /\ config' = config /\ (config.writeback => cl \in {"UNKNOWN", outcome})
      /\ split => cl = "UNKNOWN"
      /\ config.writeback => dirt' = [dirt EXCEPT ![p] = e]
      /\ p # Followed => age' = age /\ dirty' = dirty /\ surprises' = surprises
      /\ p = Followed => /\ (age[t] < Assoc) = (outcome = "HIT") /\ age' = Touch(age, t)
                         /\ config.writeback =>
                              /\ dirty' = (dirty \ Evicted(t)) \cup (IF store THEN {t} ELSE {})
                              /\ surprises' = surprises \cup Surprise(t, store, report)
                         /\ ~config.writeback => surprises' = surprises
  BY DEF Access, Execute, concrete
<1>2. Lines' = Lines /\ hit \in BOOLEAN
  BY DEF Lines
<1> HIDE DEF cl, hit, e, report
<1>3. CASE ~config.writeback
  BY <1>1, <1>3 DEF DirtInv, Alone
<1>4. CASE config.writeback
  <2>0. store \in BOOLEAN
    BY <1>4 DEF Stores
  <2>1. PathDirt(dirt[p]) /\ DirtState(dirt[p])
    BY <1>4 DEF DirtInv, PathDirt
  <2>2. /\ hit => outcome = "HIT"
        /\ hit => t \in TagsOf(dirt[p].must) \/ Len(dirt[p].must) < Assoc
    BY <1>1, <1>2, <1>4, <2>1, HitsAreLegal DEF cl, hit
  <2>3. /\ PathDirt(e) /\ e.must = MustUpdate(dirt[p].must, t, hit)
        /\ e.may = MayUpdate(dirt[p].may, t)
    BY <1>2, <2>0, <2>1, <2>2, PathUpdated DEF e
  <2>4. \A q \in DOMAIN dirt' : PathDirt(dirt'[q])
    BY <1>1, <1>4, <2>3 DEF DirtInv
  <2>5. CASE config.shared
    BY <1>1, <2>4, <2>5 DEF DirtInv, Alone
  <2>6. CASE ~config.shared
    <3>1. Describes(dirt[Followed], age, dirty) /\ surprises = {}
      BY <1>4, <2>6 DEF DirtInv, Alone
    <3>2. CASE p # Followed
      <4>1. dirt'[Followed] = dirt[Followed]
        BY <1>1, <1>4, <3>2
      <4> QED  BY <1>1, <2>4, <3>1, <3>2, <4>1, <1>2 DEF DirtInv, Describes
    <3>3. CASE p = Followed
      <4> DEFINE d == dirt[p]
                 E == (dirty \ Gone(Lines, age, t)) \cup (IF store THEN {t} ELSE {})
      <4>1. Enclosed(Lines, age, d.must, d.may) /\ DirtTrue(d, age, dirty)
        BY <3>1, <3>3 DEF Describes
      <4>2. hit => age[t] < Assoc
        BY <1>1, <2>2, <3>3
      <4>3. dirt'[Followed] = e /\ age' = Touched(Lines, age, t) /\ dirty' = E
        BY <1>1, <1>4, <3>3, TouchIsTouched
      <4>4. Enclosed(Lines, age', e.must, e.may)
        BY <1>2, <2>3, <4>1, <4>2, <4>3, EnclosedAccess
      <4>5. DirtTrue(e, age', dirty')
        <5>1. DirtTrue(DirtUpdate(d, t, store, hit), Touched(Lines, age, t), E)
          BY <1>2, <2>0, <2>1, <2>2, <4>1, <4>2, DirtTrueUpdated
        <5> HIDE DEF E
        <5> QED  BY <4>3, <5>1 DEF e
      <4>6. Surprise(t, store, report) = {}
        <5>1. /\ Gone(Lines, age, t) \cap dirty # {} => report.wbPossible
              /\ store /\ t \notin dirty => report.dirtifyingStore
          BY <1>2, <2>0, <2>1, <2>2, <4>1, <4>2, ReportForesees DEF report
        <5>2. Evicted(t) = Gone(Lines, age, t)
          BY TouchIsTouched
        <5> QED  BY <5>1, <5>2 DEF Surprise
      <4>7. surprises' = {}
        BY <1>1, <1>4, <3>1, <3>3, <4>6
      <4> HIDE DEF d, E
      <4> QED  BY <1>1, <1>2, <2>4, <4>3, <4>4, <4>5, <4>7 DEF DirtInv, Describes
    <3> QED  BY <3>2, <3>3
  <2> QED  BY <2>5, <2>6
<1> QED  BY <1>3, <1>4

\* and so does one to a line that is not known, or in another set.
LEMMA PotentialAccessKeepsDirt ==
  ASSUME DirtInv, config \in Configs, NEW p \in DOMAIN dirt, Followed \in DOMAIN dirt,
         NEW a, NEW low \in Tags, NEW high \in Tags, NEW store \in Stores,
         PotentialAccess(p, a, low, high, store)
  PROVE  DirtInv'
<1> DEFINE e == DirtPotentialUpdate(dirt[p], low, high, store)
           report == DirtPotentialReport(dirt[p], low, high, store)
<1>1. /\ low <= high /\ config' = config
      /\ config.writeback => dirt' = [dirt EXCEPT ![p] = e]
      /\ \/ age' = age /\ dirty' = dirty /\ surprises' = surprises
         \/ /\ p = Followed
            /\ \E t \in Tags \cap low .. high :
                 /\ age' = Touch(age, t)
                 /\ config.writeback =>
                      /\ dirty' = (dirty \ Evicted(t)) \cup (IF store THEN {t} ELSE {})
                      /\ surprises' = surprises \cup Surprise(t, store, report)
                 /\ ~config.writeback => surprises' = surprises
  BY DEF PotentialAccess, Execute, concrete
<1>2. Lines' = Lines
  BY DEF Lines
<1> HIDE DEF e, report
<1>3. CASE ~config.writeback
  BY <1>1, <1>3 DEF DirtInv, Alone
<1>4. CASE config.writeback
  <2>0. store \in BOOLEAN
    BY <1>4 DEF Stores
  <2>1. PathDirt(dirt[p]) /\ DirtState(dirt[p])
    BY <1>4 DEF DirtInv, PathDirt
  <2>2. /\ PathDirt(e) /\ e.must = MustPotentialUpdate(dirt[p].must)
        /\ e.may = MayPotentialUpdate(dirt[p].may, low, high)
    BY <1>1, <2>0, <2>1, PathPotentiallyUpdated DEF e
  <2>3. \A q \in DOMAIN dirt' : PathDirt(dirt'[q])
    BY <1>1, <1>4, <2>2 DEF DirtInv
  <2>4. CASE config.shared
    BY <1>1, <2>3, <2>4 DEF DirtInv, Alone
  <2>5. CASE ~config.shared
    <3>1. Describes(dirt[Followed], age, dirty) /\ surprises = {}
      BY <1>4, <2>5 DEF DirtInv, Alone
    <3>2. CASE p # Followed
      <4>1. dirt'[Followed] = dirt[Followed]
        BY <1>1, <1>4, <3>2
      <4> QED  BY <1>1, <1>2, <2>3, <3>1, <3>2, <4>1 DEF DirtInv, Describes
    <3>3. CASE p = Followed
      <4> DEFINE d == dirt[p]
      <4>1. /\ Enclosed(Lines, age, d.must, d.may) /\ DirtTrue(d, age, dirty)
            /\ dirt'[Followed] = e
        BY <1>1, <1>4, <3>1, <3>3 DEF Describes
      <4>2. PICK t \in Tags \cap low .. high :
              \/ age' = age /\ dirty' = dirty /\ surprises' = surprises
              \/ /\ age' = Touched(Lines, age, t)
                 /\ dirty' = (dirty \ Gone(Lines, age, t)) \cup (IF store THEN {t} ELSE {})
                 /\ surprises' = surprises \cup Surprise(t, store, report)
        <5>1. low \in Tags \cap low .. high
          BY <1>1, TagsAssumption
        <5> QED  BY <1>1, <1>4, <5>1, TouchIsTouched
      <4>3. Enclosed(Lines, age', e.must, e.may)
        <5>1. age' = age \/ \E u \in Tags \cap low .. high : age' = Touched(Lines, age, u)
          BY <4>2
        <5>2. Enclosed(Lines, age', MustPotentialUpdate(d.must),
                       MayPotentialUpdate(d.may, low, high))
          BY <1>1, <4>1, <5>1, EnclosedPotential
        <5> QED  BY <2>2, <5>2
      <4>4. DirtTrue(e, age', dirty')
        <5>1. \/ age' = age /\ dirty' = dirty
              \/ /\ age' = Touched(Lines, age, t)
                 /\ dirty' = (dirty \ Gone(Lines, age, t)) \cup (IF store THEN {t} ELSE {})
          BY <4>2
        <5>2. DirtTrue(DirtPotentialUpdate(d, low, high, store), age', dirty')
          BY <1>1, <2>0, <2>1, <4>1, <5>1, DirtTruePotentiallyUpdated
        <5> QED  BY <5>2 DEF e
      <4>5. Surprise(t, store, report) = {}
        <5>1. /\ Gone(Lines, age, t) \cap dirty # {} => report.wbPossible
              /\ store /\ t \notin dirty => report.dirtifyingStore
          BY <1>1, <2>0, <2>1, <4>1, PotentialReportForesees DEF report
        <5>2. Evicted(t) = Gone(Lines, age, t)
          BY TouchIsTouched
        <5> QED  BY <5>1, <5>2 DEF Surprise
      <4>6. surprises' = {}
        BY <3>1, <4>2, <4>5
      <4> HIDE DEF d
      <4> QED  BY <1>1, <1>2, <2>3, <4>1, <4>3, <4>4, <4>6 DEF DirtInv, Describes
    <3> QED  BY <3>2, <3>3
  <2> QED  BY <2>4, <2>5
<1> QED  BY <1>3, <1>4

\* The invariant of the persistence analyses says which paths there are; with it every step
\* of the specification keeps this one.
LEMMA NextKeepsDirt ==
  ASSUME IInv, DirtInv, [Next]_vars
  PROVE  DirtInv'
<1>0. /\ config \in Configs /\ Followed \in DOMAIN dirt /\ Lines' = Lines
      /\ apart \in Nat /\ (apart > 0 => DOMAIN dirt = Paths)
  BY DEF IInv, PathsOK, Paths, Lines
<1>1. ASSUME config' = config, dirt' = dirt, dirty' = dirty, surprises' = surprises,
             age' = age \/ config.shared
      PROVE  DirtInv'
  BY <1>0, <1>1 DEF DirtInv, Describes, Alone
<1>2. CASE SplitOff
  <2>1. /\ config' = config /\ age' = age /\ dirty' = dirty /\ surprises' = surprises
        /\ dirt' = [p \in Paths |-> dirt[Followed]]
    BY <1>2 DEF SplitOff, concrete
  <2>2. dirt'[Followed] = dirt[Followed]
    BY <2>1 DEF Paths
  <2> QED  BY <1>0, <2>1, <2>2 DEF DirtInv, Describes, Alone
<1>3. CASE Join
  <2>1. /\ config' = config /\ age' = age /\ dirty' = dirty /\ surprises' = surprises
        /\ Other \in DOMAIN dirt
        /\ \/ dirt' = [p \in {Followed} |-> DirtJoin(dirt[p], dirt[Other])]
           \/ dirt' = [p \in {Followed} |-> dirt[p]]
    BY <1>0, <1>3 DEF Join, concrete, Paths
  <2>2. CASE dirt' = [p \in {Followed} |-> dirt[p]]
    BY <1>0, <2>1, <2>2 DEF DirtInv, Describes, Alone
  <2>3. CASE dirt' = [p \in {Followed} |-> DirtJoin(dirt[p], dirt[Other])]
    <3> DEFINE d == dirt[Followed]
               e == dirt[Other]
               j == DirtJoin(d, e)
    <3>1. DOMAIN dirt' = {Followed} /\ dirt'[Followed] = j
      BY <2>3
    <3>2. ASSUME config.writeback PROVE PathDirt(d) /\ PathDirt(e) /\ PathDirt(j)
      <4>1. PathDirt(d) /\ PathDirt(e)
        BY <1>0, <2>1, <3>2 DEF DirtInv
      <4> HIDE DEF d, e
      <4> QED  BY <4>1, PathJoined
    <3>3. ASSUME config.writeback, ~config.shared PROVE Describes(j, age, dirty)
      <4>1. Enclosed(Lines, age, d.must, d.may) /\ DirtTrue(d, age, dirty)
        BY <3>3 DEF DirtInv, Describes
      <4>2. DirtState(d) /\ DirtState(e) /\ \A u \in Nat \ Tags : MustAge(e.must, u) = Assoc
        BY <3>2, <3>3 DEF PathDirt
      <4> HIDE DEF d, e
      <4> QED  BY <4>1, <4>2, DirtTrueJoined DEF Describes
    <3> HIDE DEF d, e, j
    <3> QED  BY <1>0, <2>1, <3>1, <3>2, <3>3 DEF DirtInv, Describes, Alone
  <2> QED  BY <2>1, <2>2, <2>3
<1>4. CASE ForeignAccess
  BY <1>1, <1>4 DEF ForeignAccess
<1>5. ASSUME NEW p \in Paths, Step(p) PROVE DirtInv'
  <2>1. p \in DOMAIN dirt
    BY <1>5 DEF Step
  <2>2. ASSUME NEW t \in Tags, NEW store \in Stores, NEW outcome \in {"HIT", "MISS"},
               NEW split \in BOOLEAN, Access(p, t, store, outcome, split)
        PROVE  DirtInv'
    BY <1>0, <2>1, <2>2, AccessKeepsDirt
  <2>3. ASSUME NEW a, NEW low \in Tags, NEW high \in Tags, NEW store \in Stores,
               PotentialAccess(p, a, low, high, store)
        PROVE  DirtInv'
    BY <1>0, <2>1, <2>3, PotentialAccessKeepsDirt
  <2>4. ASSUME NEW counts, CrossScope(p, counts)
        PROVE  DirtInv'
    BY <1>1, <2>4 DEF CrossScope
  <2> QED  BY <1>5, <2>2, <2>3, <2>4 DEF Step, Enter, Leave
<1>6. CASE UNCHANGED vars
  BY <1>1, <1>6 DEF vars, concrete
<1> QED  BY <1>2, <1>3, <1>4, <1>5, <1>6 DEF Next

\* Whatever the set holds at the start and whether it is assumed to be clean.
LEMMA InitEstablishesDirt ==
  ASSUME Init
  PROVE  DirtInv
<1>1. /\ config \in Configs /\ surprises = {}
      /\ dirt = [p \in {Followed} |-> DirtInit(FALSE, config.assumeCleanCache)]
  BY DEF Init
<1>2. config.assumeCleanCache \in BOOLEAN
  BY <1>1, ConfigsAssumption
<1>3. ASSUME config.writeback
      PROVE  PathDirt(dirt[Followed]) /\ Describes(dirt[Followed], age, dirty)
  <2> DEFINE d == DirtInit(FALSE, config.assumeCleanCache)
  <2>1. age \in [Lines -> 0 .. Assoc] /\ Distinct(Lines, age) /\ Tags \subseteq Lines
    BY <1>3 DEF Init, Ages, Distinct, Lines
  <2>2. /\ dirty \subseteq {t \in Tags : age[t] < Assoc}
        /\ config.assumeCleanCache => dirty = {}
    BY <1>3 DEF Init
  <2>3. DirtState(d) /\ Enclosed(Lines, age, d.must, d.may) /\ DirtTrue(d, age, dirty)
    BY <1>2, <2>1, <2>2, DirtInitially
  <2>4. dirt[Followed] = d
    BY <1>1
  <2> HIDE DEF d
  <2>5. \A u \in Nat \ Tags : MustAge(d.must, u) = Assoc
    BY <2>3 DEF Enclosed
  <2> QED  BY <2>3, <2>4, <2>5 DEF PathDirt, Describes
<1>4. DOMAIN dirt = {Followed}
  BY <1>1
<1> QED  BY <1>1, <1>3, <1>4 DEF DirtInv

\* The inductive invariant of the dirtiness analysis: each path carries a well-formed state,
\* what the followed one's says of the concrete set is true, and it has foreseen everything.
THEOREM DirtInvariant == Spec => []DirtInv
<1>1. Init => DirtInv
  BY InitEstablishesDirt
<1>2. IInv /\ DirtInv /\ [Next]_vars => DirtInv'
  BY NextKeepsDirt
<1> QED  BY <1>1, <1>2, Invariant, PTL DEF Spec

\* In a set that no other core accesses, no dirty line is written back and no clean line
\* becomes dirty in an access whose WritebackReport says that this cannot be: the counters
\* of the write-back costs leave out nothing (DirtinessAnalysis::update, potentialUpdate).
THEOREM WritebacksAreForeseen == Spec => [](Alone => WritebacksForeseen)
<1>1. DirtInv => (Alone => WritebacksForeseen)
  BY DEF DirtInv, WritebacksForeseen
<1> QED  BY <1>1, DirtInvariant, PTL

\* Whatever accesses the set, checkInvariants() holds of the state of each path, and
\* incorporate() does not meet an evicted line while others, which may be dirty, are unknown.
THEOREM DirtinessAssertionsHold ==
  Spec => [](config.writeback =>
               \A p \in DOMAIN dirt : /\ CheckInvariants(dirt[p])
                                      /\ \A t \in Tags : ~IncorporateUnreachable(dirt[p], t))
<1>1. DirtInv => (config.writeback =>
                    \A p \in DOMAIN dirt : /\ CheckInvariants(dirt[p])
                                           /\ \A t \in Tags : ~IncorporateUnreachable(dirt[p], t))
  <2> SUFFICES ASSUME DirtInv, config.writeback, NEW p \in DOMAIN dirt
               PROVE  /\ CheckInvariants(dirt[p])
                      /\ \A t \in Tags : ~IncorporateUnreachable(dirt[p], t)
    OBVIOUS
  <2>1. DirtState(dirt[p])
    BY DEF DirtInv, PathDirt
  <2> QED  BY <2>1, UnreachableIncorporation DEF DirtState
<1> QED  BY <1>1, DirtInvariant, PTL

\* In a set that no other core accesses, a line that is called clean is clean and one that
\* is called dirty is dirty.
THEOREM DirtinessIsSound == Spec => [](Alone => DirtinessSound)
<1>1. DirtInv => (Alone => DirtinessTrue)
  BY DEF DirtInv, Alone, Describes, DirtTrue, DirtinessTrue
<1>2. (config.writeback =>
         \A p \in DOMAIN dirt : /\ CheckInvariants(dirt[p])
                                /\ \A t \in Tags : ~IncorporateUnreachable(dirt[p], t))
      /\ (Alone => DirtinessTrue) => (Alone => DirtinessSound)
  BY DEF DirtinessSound, DirtinessTrue
<1> QED  BY <1>1, <1>2, DirtInvariant, DirtinessAssertionsHold, PTL
=============================================================================
