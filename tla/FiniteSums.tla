------------------------------ MODULE FiniteSums ------------------------------
(***************************************************************************)
(* Sums over finite sets, folds over them and their extremes, as the       *)
(* community modules compute them: the facts that proofs about counters    *)
(* and bounds need.  They are shown by induction over subsets, which is    *)
(* stated here over a set of sets, so that it can be cited.                *)
(***************************************************************************)
EXTENDS Functions, FiniteSetsExt, FiniteSetTheorems, TLAPS

\* Induction over the subsets of a finite set: what holds of a subset whenever it
\* holds of it without any one of its elements holds of the whole set.
LEMMA FiniteSubsetInduction ==
  ASSUME NEW S, IsFiniteSet(S), NEW G \in SUBSET SUBSET S,
         \A U \in SUBSET S : (\A x \in U : U \ {x} \in G) => U \in G
  PROVE  S \in G
<1> SUFFICES ASSUME S \notin G PROVE FALSE
  OBVIOUS
<1> DEFINE B == (SUBSET S) \ G
           R == StrictSubsetOrdering(S)
<1>1. IsWellFoundedOn(R, SUBSET S)
  <2>1. FiniteSubsetsOf(S) = SUBSET S
    BY FS_FiniteSubsetsOfFinite
  <2>2. IsWellFoundedOn(R, FiniteSubsetsOf(S))
    BY FS_StrictSubsetOrderingWellFounded
  <2> QED  BY <2>1, <2>2
<1>2. PICK U \in B : \A V \in B : ~ (<<V, U>> \in R)
  <2>1. B \subseteq SUBSET S /\ B # {}
    OBVIOUS
  <2> HIDE DEF B, R
  <2> QED  BY <1>1, <2>1, WFMin
<1>3. ASSUME NEW x \in U PROVE U \ {x} \in G
  <2>1. <<U \ {x}, U>> \in R
    BY <1>2, <1>3 DEF StrictSubsetOrdering
  <2> QED  BY <1>2, <2>1
<1> QED  BY <1>2, <1>3

\* What SumFunctionOnSet stands for: there is a function that adds up the elements
\* of every subset, one after the other in some order.
LEMMA SumIteration ==
  ASSUME NEW T, IsFiniteSet(T), NEW f, \A x \in T : f[x] \in Nat
  PROVE  \E it : /\ it = [s \in SUBSET T |->
                          IF s = {} THEN 0
                          ELSE f[CHOOSE x \in s : TRUE] + it[s \ {CHOOSE x \in s : TRUE}]]
                 /\ SumFunctionOnSet(f, T) = it[T]
<1> DEFINE Eq(it) == it = [s \in SUBSET T |->
                          IF s = {} THEN 0
                          ELSE f[CHOOSE x \in s : TRUE] + it[s \ {CHOOSE x \in s : TRUE}]]
<1>1. \E it : Eq(it)
  <2> DEFINE pick(s) == CHOOSE x \in s : TRUE
             Holds(it, s) == it[s] = IF s = {} THEN 0 ELSE f[pick(s)] + it[s \ {pick(s)}]
             \* The sets up to which there is a function that is as it should be.
             G == {U \in SUBSET T : \E it \in [SUBSET T -> Nat] :
                     \A s \in SUBSET T : Cardinality(s) <= Cardinality(U) => Holds(it, s)}
  <2>0. \A s \in SUBSET T : /\ IsFiniteSet(s) /\ Cardinality(s) \in Nat
                            /\ Cardinality(s) <= Cardinality(T)
                            /\ Cardinality(s) = 0 <=> s = {}
    BY FS_Subset, FS_CardinalityType, FS_EmptySet
  <2>1. ASSUME NEW U \in SUBSET T, U = {}
        PROVE  U \in G
    <3> DEFINE zero == [s \in SUBSET T |-> 0]
    <3>1. zero \in [SUBSET T -> Nat]
      OBVIOUS
    <3>2. \A s \in SUBSET T : Cardinality(s) <= Cardinality(U) => Holds(zero, s)
      BY <2>0, <2>1, FS_EmptySet
    <3> HIDE DEF zero, Holds
    <3> QED  BY <3>1, <3>2
  <2>2. ASSUME NEW U \in SUBSET T, NEW x \in T, U \in G, x \notin U
        PROVE  U \cup {x} \in G
    <3>1. PICK it \in [SUBSET T -> Nat] :
            \A s \in SUBSET T : Cardinality(s) <= Cardinality(U) => Holds(it, s)
      BY <2>2
    <3>2. Cardinality(U \cup {x}) = Cardinality(U) + 1
      BY <2>0, <2>2, FS_AddElement
    <3> DEFINE next == [s \in SUBSET T |->
                          IF Cardinality(s) <= Cardinality(U) THEN it[s]
                          ELSE f[pick(s)] + it[s \ {pick(s)}]]
    <3>3. ASSUME NEW s \in SUBSET T, s # {}
          PROVE  /\ pick(s) \in s /\ f[pick(s)] \in Nat
                 /\ s \ {pick(s)} \in SUBSET T
                 /\ Cardinality(s \ {pick(s)}) = Cardinality(s) - 1
      <4>1. pick(s) \in s
        BY <3>3
      <4> QED  BY <2>0, <4>1, FS_RemoveElement
    <3> HIDE DEF pick
    <3>4. ASSUME NEW s \in SUBSET T, ~ Cardinality(s) <= Cardinality(U)
          PROVE  s # {}
      BY <2>0, <3>4
    <3>5. next \in [SUBSET T -> Nat]
      <4>1. ASSUME NEW s \in SUBSET T PROVE next[s] \in Nat
        BY <3>1, <3>3, <3>4
      <4> QED  BY <4>1
    <3>6. ASSUME NEW s \in SUBSET T, Cardinality(s) <= Cardinality(U) + 1
          PROVE  Holds(next, s)
      <4>1. CASE s = {}
        <5>1. Cardinality(s) <= Cardinality(U)
          BY <2>0, <4>1
        <5>2. Holds(it, s)
          BY <3>1, <5>1
        <5> QED  BY <4>1, <5>1, <5>2
      <4>2. CASE s # {}
        <5>1. next[s \ {pick(s)}] = it[s \ {pick(s)}]
          BY <2>0, <3>3, <3>6, <4>2
        <5>2. next[s] = f[pick(s)] + it[s \ {pick(s)}]
          <6>1. Cardinality(s) <= Cardinality(U) => Holds(it, s)
            BY <3>1
          <6> QED  BY <4>2, <6>1
        <5> QED  BY <4>2, <5>1, <5>2
      <4> QED  BY <4>1, <4>2
    <3> HIDE DEF Holds, next
    <3> QED  BY <3>2, <3>5, <3>6
  <2>3. T \in G
    <3>1. G \in SUBSET SUBSET T
      OBVIOUS
    <3>2. ASSUME NEW U \in SUBSET T, \A x \in U : U \ {x} \in G
          PROVE  U \in G
      <4>1. CASE U = {}
        BY <2>1, <4>1
      <4>2. CASE U # {}
        <5>1. PICK x \in U : TRUE
          BY <4>2
        <5>2. U \ {x} \in SUBSET T /\ x \in T /\ x \notin U \ {x} /\ U \ {x} \in G
          BY <3>2, <5>1
        <5>3. (U \ {x}) \cup {x} = U
          BY <5>1
        <5> HIDE DEF G
        <5> QED  BY <2>2, <5>2, <5>3
      <4> QED  BY <4>1, <4>2
    <3> HIDE DEF G
    <3> QED  BY <3>1, <3>2, FiniteSubsetInduction
  <2>4. PICK it \in [SUBSET T -> Nat] : \A s \in SUBSET T : Holds(it, s)
    BY <2>0, <2>3
  <2>5. Eq(it)
    BY <2>4
  <2> QED  BY <2>5
<1>2. SumFunctionOnSet(f, T) = (CHOOSE it : Eq(it))[T]
  BY DEF SumFunctionOnSet, FoldFunctionOnSet, MapThenFoldSet
<1> QED  BY <1>1, <1>2

\* Disjoint sets: the size of the union is the sum of the sizes.
LEMMA DisjointCardinality ==
  ASSUME NEW A, NEW B, IsFiniteSet(A), IsFiniteSet(B), A \cap B = {}
  PROVE  Cardinality(A \cup B) = Cardinality(A) + Cardinality(B)
<1>1. Cardinality(A) \in Nat /\ Cardinality(B) \in Nat /\ Cardinality(A \cap B) = 0
  BY FS_CardinalityType, FS_EmptySet
<1>2. Cardinality(A \cup B) = Cardinality(A) + Cardinality(B) - Cardinality(A \cap B)
  BY FS_Union
<1> QED  BY <1>1, <1>2

\* If each number counts the elements of C that belong to it, the sum over T counts
\* those that belong to any of T.
LEMMA SumOfCounts ==
  ASSUME NEW T, IsFiniteSet(T), NEW C, IsFiniteSet(C), NEW own, NEW f,
         \A y \in T : f[y] = Cardinality({t \in C : own[t] = y})
  PROVE  SumFunctionOnSet(f, T) = Cardinality({t \in C : own[t] \in T})
<1> DEFINE Of(U) == {t \in C : own[t] \in U}
<1>0. \A U : IsFiniteSet(Of(U)) /\ Cardinality(Of(U)) \in Nat
  BY FS_Subset, FS_CardinalityType
<1>1. \A y \in T : f[y] = Cardinality(Of({y})) /\ f[y] \in Nat
  <2> TAKE y \in T
  <2>1. Of({y}) = {t \in C : own[t] = y}
    OBVIOUS
  <2> QED  BY <1>0, <2>1
<1>2. PICK it : /\ it = [s \in SUBSET T |->
                     IF s = {} THEN 0
                     ELSE f[CHOOSE x \in s : TRUE] + it[s \ {CHOOSE x \in s : TRUE}]]
                /\ SumFunctionOnSet(f, T) = it[T]
  BY <1>1, SumIteration
<1> DEFINE G == {U \in SUBSET T : it[U] = Cardinality(Of(U))}
<1>3. ASSUME NEW U \in SUBSET T, \A x \in U : U \ {x} \in G
      PROVE  U \in G
  <2>1. CASE U = {}
    <3>1. Of(U) = {}
      BY <2>1
    <3>2. it[U] = 0
      BY <1>2, <2>1
    <3> HIDE DEF Of
    <3> QED  BY <2>1, <3>1, <3>2, FS_EmptySet
  <2>2. CASE U # {}
    <3> DEFINE x == CHOOSE y \in U : TRUE
    <3>1. x \in U /\ x \in T
      BY <2>2
    <3>2. it[U] = f[x] + it[U \ {x}]
      BY <1>2, <2>2
    <3> HIDE DEF x
    <3>3. it[U \ {x}] = Cardinality(Of(U \ {x}))
      BY <1>3, <3>1
    <3>4. /\ Of(U) = Of({x}) \cup Of(U \ {x})
          /\ Of({x}) \cap Of(U \ {x}) = {}
      BY <3>1
    <3> HIDE DEF Of
    <3>5. Cardinality(Of(U)) = Cardinality(Of({x})) + Cardinality(Of(U \ {x}))
      <4>1. IsFiniteSet(Of({x})) /\ IsFiniteSet(Of(U \ {x}))
        BY <1>0
      <4>2. Cardinality(Of({x}) \cup Of(U \ {x}))
              = Cardinality(Of({x})) + Cardinality(Of(U \ {x}))
        BY <3>4, <4>1, DisjointCardinality
      <4> QED  BY <3>4, <4>2
    <3>6. it[U] = Cardinality(Of(U))
      <4>1. f[x] = Cardinality(Of({x}))
        BY <1>1, <3>1
      <4> QED  BY <3>2, <3>3, <3>5, <4>1
    <3> QED  BY <3>6
  <2> QED  BY <2>1, <2>2
<1>4. T \in G
  <2>1. G \in SUBSET SUBSET T
    OBVIOUS
  <2> HIDE DEF G
  <2> QED  BY <1>3, <2>1, FiniteSubsetInduction
<1> QED  BY <1>2, <1>4

\* A union of sets has no more elements than the numbers that bound them add up to.
LEMMA SumBoundsUnion ==
  ASSUME NEW T, IsFiniteSet(T), NEW f, NEW part,
         \A y \in T : /\ f[y] \in Nat /\ IsFiniteSet(part[y])
                      /\ Cardinality(part[y]) <= f[y]
  PROVE  /\ SumFunctionOnSet(f, T) \in Nat
         /\ IsFiniteSet(UNION {part[y] : y \in T})
         /\ Cardinality(UNION {part[y] : y \in T}) <= SumFunctionOnSet(f, T)
<1> DEFINE Parts(U) == UNION {part[y] : y \in U}
<1>1. PICK it : /\ it = [s \in SUBSET T |->
                     IF s = {} THEN 0
                     ELSE f[CHOOSE x \in s : TRUE] + it[s \ {CHOOSE x \in s : TRUE}]]
                /\ SumFunctionOnSet(f, T) = it[T]
  BY SumIteration
<1> DEFINE G == {U \in SUBSET T : /\ it[U] \in Nat /\ IsFiniteSet(Parts(U))
                                 /\ Cardinality(Parts(U)) <= it[U]}
<1>2. ASSUME NEW U \in SUBSET T, \A x \in U : U \ {x} \in G
      PROVE  U \in G
  <2>1. CASE U = {}
    <3>1. Parts(U) = {}
      BY <2>1
    <3>2. it[U] = 0
      BY <1>1, <2>1
    <3> HIDE DEF Parts
    <3> QED  BY <2>1, <3>1, <3>2, FS_EmptySet
  <2>2. CASE U # {}
    <3> DEFINE x == CHOOSE y \in U : TRUE
    <3>1. x \in U /\ x \in T
      BY <2>2
    <3>2. it[U] = f[x] + it[U \ {x}]
      BY <1>1, <2>2
    <3> HIDE DEF x
    <3>3. /\ it[U \ {x}] \in Nat /\ IsFiniteSet(Parts(U \ {x}))
          /\ Cardinality(Parts(U \ {x})) <= it[U \ {x}]
      BY <1>2, <3>1
    <3>4. Parts(U) = part[x] \cup Parts(U \ {x})
      BY <3>1
    <3> HIDE DEF Parts
    <3>5. /\ IsFiniteSet(Parts(U))
          /\ Cardinality(Parts(U)) <= Cardinality(part[x]) + Cardinality(Parts(U \ {x}))
      <4>1. /\ IsFiniteSet(Parts(U))
            /\ Cardinality(Parts(U)) = Cardinality(part[x]) + Cardinality(Parts(U \ {x}))
                                         - Cardinality(part[x] \cap Parts(U \ {x}))
        BY <3>1, <3>3, <3>4, FS_Union
      <4>2. Cardinality(part[x] \cap Parts(U \ {x})) \in Nat
        BY <3>1, FS_Intersection, FS_CardinalityType
      <4>3. Cardinality(part[x]) \in Nat /\ Cardinality(Parts(U \ {x})) \in Nat
        BY <3>1, <3>3, FS_CardinalityType
      <4> QED  BY <4>1, <4>2, <4>3
    <3>6. /\ Cardinality(part[x]) \in Nat /\ Cardinality(Parts(U)) \in Nat
          /\ Cardinality(Parts(U \ {x})) \in Nat
      BY <3>1, <3>3, <3>5, FS_CardinalityType
    <3> QED  BY <3>1, <3>2, <3>3, <3>5, <3>6
  <2> QED  BY <2>1, <2>2
<1>3. T \in G
  <2>1. G \in SUBSET SUBSET T
    OBVIOUS
  <2> HIDE DEF G
  <2> QED  BY <1>2, <2>1, FiniteSubsetInduction
<1> QED  BY <1>1, <1>3

\* A finite set of integers that is not empty has a greatest and a least element.
LEMMA MaxMin ==
  ASSUME NEW S \in SUBSET Int, IsFiniteSet(S), S # {}
  PROVE  /\ Max(S) \in S /\ \A x \in S : x <= Max(S)
         /\ Min(S) \in S /\ \A x \in S : Min(S) <= x
<1> DEFINE G == {U \in SUBSET S : U # {} => /\ \E m \in U : \A x \in U : x <= m
                                            /\ \E m \in U : \A x \in U : m <= x}
<1>1. ASSUME NEW U \in SUBSET S, \A x \in U : U \ {x} \in G
      PROVE  U \in G
  <2> SUFFICES ASSUME U # {}
               PROVE  /\ \E m \in U : \A x \in U : x <= m
                      /\ \E m \in U : \A x \in U : m <= x
    OBVIOUS
  <2>1. PICK y \in U : TRUE
    OBVIOUS
  <2>2. CASE U \ {y} = {}
    <3>1. \A x \in U : x = y
      BY <2>2
    <3>2. y \in Int
      BY <2>1
    <3> QED  BY <2>1, <3>1, <3>2
  <2>3. CASE U \ {y} # {}
    <3>1. /\ \E m \in U \ {y} : \A x \in U \ {y} : x <= m
          /\ \E m \in U \ {y} : \A x \in U \ {y} : m <= x
      BY <1>1, <2>1, <2>3
    <3>2. PICK m \in U \ {y} : \A x \in U \ {y} : x <= m
      BY <3>1
    <3>3. PICK n \in U \ {y} : \A x \in U \ {y} : n <= x
      BY <3>1
    <3>4. y \in Int /\ m \in Int /\ n \in Int
      BY <2>1
    <3>5. \E k \in U : \A x \in U : x <= k
      <4>1. CASE y <= m
        BY <2>1, <3>2, <4>1
      <4>2. CASE ~ (y <= m)
        BY <2>1, <3>2, <3>4, <4>2
      <4> QED  BY <4>1, <4>2
    <3>6. \E k \in U : \A x \in U : k <= x
      <4>1. CASE n <= y
        BY <2>1, <3>3, <4>1
      <4>2. CASE ~ (n <= y)
        BY <2>1, <3>3, <3>4, <4>2
      <4> QED  BY <4>1, <4>2
    <3> QED  BY <3>5, <3>6
  <2> QED  BY <2>2, <2>3
<1>2. S \in G
  <2>1. G \in SUBSET SUBSET S
    OBVIOUS
  <2> HIDE DEF G
  <2> QED  BY <1>1, <2>1, FiniteSubsetInduction
<1>3. PICK m \in S, n \in S : (\A x \in S : x <= m) /\ (\A x \in S : n <= x)
  BY <1>2
<1>4. Max(S) \in S /\ \A x \in S : Max(S) >= x
  <2>1. m \in S /\ \A x \in S : m >= x
    BY <1>3
  <2> QED  BY <2>1 DEF Max
<1>5. Min(S) \in S /\ \A x \in S : Min(S) <= x
  BY <1>3 DEF Min
<1> QED  BY <1>4, <1>5

\* The image of a finite set is finite.
LEMMA FiniteImage ==
  ASSUME NEW S, IsFiniteSet(S), NEW f, NEW T, \A y \in T : \E x \in S : y = f[x]
  PROVE  IsFiniteSet(T)
<1> DEFINE U == {f[x] : x \in S}
           g == [x \in S |-> f[x]]
<1>1. g \in Surjection(S, U)
  BY DEF Surjection
<1>2. T \in SUBSET U
  OBVIOUS
<1> HIDE DEF U, g
<1>3. IsFiniteSet(U)
  BY <1>1, FS_Surjection
<1> QED  BY <1>2, <1>3, FS_Subset

Iterations(T, D, base, g, pick) ==
  {it \in [SUBSET T -> D] :
     \A s \in SUBSET T : it[s] = IF s = {} THEN base ELSE g[it[s \ {pick[s]}]]}

\* What FoldSet stands for if the operator takes D to D and pays no heed to the elements
\* of the set: g is applied as often as the set has elements.
LEMMA FoldIteration ==
  ASSUME NEW T, IsFiniteSet(T), NEW D, NEW base \in D, NEW g \in [D -> D],
         NEW pick, \A s \in SUBSET T : s # {} => pick[s] \in s
  PROVE  Iterations(T, D, base, g, pick) # {}
<1> DEFINE Holds(it, s) == it[s] = IF s = {} THEN base ELSE g[it[s \ {pick[s]}]]
           G == {U \in SUBSET T : \E it \in [SUBSET T -> D] :
                   \A s \in SUBSET T : Cardinality(s) <= Cardinality(U) => Holds(it, s)}
<1>0. \A s \in SUBSET T : /\ IsFiniteSet(s) /\ Cardinality(s) \in Nat
                          /\ Cardinality(s) <= Cardinality(T)
                          /\ Cardinality(s) = 0 <=> s = {}
  BY FS_Subset, FS_CardinalityType, FS_EmptySet
<1>1. ASSUME NEW U \in SUBSET T, U = {}
      PROVE  U \in G
  <2> DEFINE const == [s \in SUBSET T |-> base]
  <2>1. const \in [SUBSET T -> D]
    OBVIOUS
  <2>2. \A s \in SUBSET T : Cardinality(s) <= Cardinality(U) => Holds(const, s)
    BY <1>0, <1>1, FS_EmptySet
  <2> HIDE DEF const, Holds
  <2> QED  BY <2>1, <2>2
<1>2. ASSUME NEW U \in SUBSET T, NEW x \in T, U \in G, x \notin U
      PROVE  U \cup {x} \in G
  <2>1. PICK it \in [SUBSET T -> D] :
          \A s \in SUBSET T : Cardinality(s) <= Cardinality(U) => Holds(it, s)
    BY <1>2
  <2>2. Cardinality(U \cup {x}) = Cardinality(U) + 1
    BY <1>0, <1>2, FS_AddElement
  <2> DEFINE next == [s \in SUBSET T |->
                        IF Cardinality(s) <= Cardinality(U) THEN it[s] ELSE g[it[s \ {pick[s]}]]]
  <2>3. ASSUME NEW s \in SUBSET T, s # {}
        PROVE  /\ s \ {pick[s]} \in SUBSET T
               /\ Cardinality(s \ {pick[s]}) = Cardinality(s) - 1
    <3>1. pick[s] \in s
      BY <2>3
    <3> QED  BY <1>0, <3>1, FS_RemoveElement
  <2>4. ASSUME NEW s \in SUBSET T, ~ Cardinality(s) <= Cardinality(U)
        PROVE  s # {}
    BY <1>0, <2>4
  <2>5. next \in [SUBSET T -> D]
    <3>1. ASSUME NEW s \in SUBSET T PROVE next[s] \in D
      BY <2>1, <2>3, <2>4
    <3> QED  BY <3>1
  <2>6. ASSUME NEW s \in SUBSET T, Cardinality(s) <= Cardinality(U) + 1
        PROVE  Holds(next, s)
    <3>1. CASE s = {}
      <4>1. Cardinality(s) <= Cardinality(U)
        BY <1>0, <3>1
      <4>2. Holds(it, s)
        BY <2>1, <4>1
      <4> QED  BY <3>1, <4>1, <4>2
    <3>2. CASE s # {}
      <4>1. next[s \ {pick[s]}] = it[s \ {pick[s]}]
        BY <1>0, <2>3, <2>6, <3>2
      <4>2. next[s] = g[it[s \ {pick[s]}]]
        <5>1. Cardinality(s) <= Cardinality(U) => Holds(it, s)
          BY <2>1
        <5> QED  BY <3>2, <5>1
      <4> QED  BY <3>2, <4>1, <4>2
    <3> QED  BY <3>1, <3>2
  <2> HIDE DEF Holds, next
  <2> QED  BY <2>2, <2>5, <2>6
<1>3. T \in G
  <2>1. G \in SUBSET SUBSET T
    OBVIOUS
  <2>2. ASSUME NEW U \in SUBSET T, \A x \in U : U \ {x} \in G
        PROVE  U \in G
    <3>1. CASE U = {}
      BY <1>1, <3>1
    <3>2. CASE U # {}
      <4>1. PICK x \in U : TRUE
        BY <3>2
      <4>2. U \ {x} \in SUBSET T /\ x \in T /\ x \notin U \ {x} /\ U \ {x} \in G
        BY <2>2, <4>1
      <4>3. (U \ {x}) \cup {x} = U
        BY <4>1
      <4> HIDE DEF G
      <4> QED  BY <1>2, <4>2, <4>3
    <3> QED  BY <3>1, <3>2
  <2> HIDE DEF G
  <2> QED  BY <2>1, <2>2, FiniteSubsetInduction
<1>4. PICK it \in [SUBSET T -> D] : \A s \in SUBSET T : Holds(it, s)
  BY <1>0, <1>3
<1> QED  BY <1>4 DEF Iterations

\* Sums grow with what is added up; two sums of which one is bound by the other element
\* for element are equal only if all elements are.
LEMMA SumMonotone ==
  ASSUME NEW T, IsFiniteSet(T), NEW f, NEW g,
         \A x \in T : f[x] \in Nat /\ g[x] \in Nat /\ f[x] <= g[x]
  PROVE  /\ SumFunctionOnSet(f, T) \in Nat /\ SumFunctionOnSet(g, T) \in Nat
         /\ SumFunctionOnSet(f, T) <= SumFunctionOnSet(g, T)
         /\ SumFunctionOnSet(f, T) = SumFunctionOnSet(g, T) => \A x \in T : f[x] = g[x]
<1>1. PICK it : /\ it = [s \in SUBSET T |->
                     IF s = {} THEN 0
                     ELSE f[CHOOSE x \in s : TRUE] + it[s \ {CHOOSE x \in s : TRUE}]]
                /\ SumFunctionOnSet(f, T) = it[T]
  BY SumIteration
<1>2. PICK jt : /\ jt = [s \in SUBSET T |->
                     IF s = {} THEN 0
                     ELSE g[CHOOSE x \in s : TRUE] + jt[s \ {CHOOSE x \in s : TRUE}]]
                /\ SumFunctionOnSet(g, T) = jt[T]
  BY SumIteration
<1> DEFINE Ordered(U) == it[U] \in Nat /\ jt[U] \in Nat /\ it[U] <= jt[U]
           Equal(U) == it[U] = jt[U] => \A y \in U : f[y] = g[y]
           G == {U \in SUBSET T : Ordered(U) /\ Equal(U)}
<1>3. ASSUME NEW U \in SUBSET T, \A x \in U : U \ {x} \in G
      PROVE  U \in G
  <2>1. CASE U = {}
    <3>1. it[U] = 0 /\ jt[U] = 0
      BY <1>1, <1>2, <2>1
    <3> QED  BY <2>1, <3>1
  <2>2. CASE U # {}
    <3> DEFINE x == CHOOSE y \in U : TRUE
    <3>1. x \in U /\ x \in T
      BY <2>2
    <3>2. it[U] = f[x] + it[U \ {x}] /\ jt[U] = g[x] + jt[U \ {x}]
      BY <1>1, <1>2, <2>2
    <3> HIDE DEF x
    <3>3. Ordered(U \ {x}) /\ Equal(U \ {x})
      <4> HIDE DEF Ordered, Equal
      <4> QED  BY <1>3, <3>1
    <3>4. f[x] \in Nat /\ g[x] \in Nat /\ f[x] <= g[x]
      BY <3>1
    <3>5. /\ it[U \ {x}] \in Nat /\ jt[U \ {x}] \in Nat /\ it[U \ {x}] <= jt[U \ {x}]
          /\ it[U \ {x}] = jt[U \ {x}] => \A y \in U \ {x} : f[y] = g[y]
      BY <3>3
    <3>6. it[U] \in Nat /\ jt[U] \in Nat /\ it[U] <= jt[U]
      BY <3>2, <3>4, <3>5
    <3>7. ASSUME it[U] = jt[U] PROVE \A y \in U : f[y] = g[y]
      <4>1. f[x] = g[x] /\ it[U \ {x}] = jt[U \ {x}]
        BY <3>2, <3>4, <3>5, <3>7
      <4> QED  BY <3>5, <4>1
    <3> QED  BY <3>6, <3>7
  <2> QED  BY <2>1, <2>2
<1>4. T \in G
  <2>1. G \in SUBSET SUBSET T
    OBVIOUS
  <2> HIDE DEF G
  <2> QED  BY <1>3, <2>1, FiniteSubsetInduction
<1> QED  BY <1>1, <1>2, <1>4

\* A factor common to what is added up.
LEMMA SumScaled ==
  ASSUME NEW T, IsFiniteSet(T), NEW f, NEW g, NEW k \in Nat,
         \A x \in T : f[x] \in Nat /\ g[x] = k * f[x]
  PROVE  /\ SumFunctionOnSet(f, T) \in Nat
         /\ SumFunctionOnSet(g, T) = k * SumFunctionOnSet(f, T)
<1>0. \A x \in T : g[x] \in Nat
  OBVIOUS
<1>1. PICK it : /\ it = [s \in SUBSET T |->
                     IF s = {} THEN 0
                     ELSE f[CHOOSE x \in s : TRUE] + it[s \ {CHOOSE x \in s : TRUE}]]
                /\ SumFunctionOnSet(f, T) = it[T]
  BY SumIteration
<1>2. PICK jt : /\ jt = [s \in SUBSET T |->
                     IF s = {} THEN 0
                     ELSE g[CHOOSE x \in s : TRUE] + jt[s \ {CHOOSE x \in s : TRUE}]]
                /\ SumFunctionOnSet(g, T) = jt[T]
  BY <1>0, SumIteration
<1> DEFINE G == {U \in SUBSET T : it[U] \in Nat /\ jt[U] = k * it[U]}
<1>3. ASSUME NEW U \in SUBSET T, \A x \in U : U \ {x} \in G
      PROVE  U \in G
  <2>1. CASE U = {}
    <3>1. it[U] = 0 /\ jt[U] = 0
      BY <1>1, <1>2, <2>1
    <3> QED  BY <2>1, <3>1
  <2>2. CASE U # {}
    <3> DEFINE x == CHOOSE y \in U : TRUE
    <3>1. x \in U /\ x \in T
      BY <2>2
    <3>2. it[U] = f[x] + it[U \ {x}] /\ jt[U] = g[x] + jt[U \ {x}]
      BY <1>1, <1>2, <2>2
    <3> HIDE DEF x
    <3>3. it[U \ {x}] \in Nat /\ jt[U \ {x}] = k * it[U \ {x}]
      BY <1>3, <3>1
    <3>4. f[x] \in Nat /\ g[x] = k * f[x]
      BY <3>1
    <3>5. \A m, n \in Nat : m + n \in Nat /\ k * m + k * n = k * (m + n)
      OBVIOUS
    <3>6. it[U] \in Nat /\ jt[U] = k * it[U]
      BY <3>2, <3>3, <3>4, <3>5
    <3> QED  BY <3>6
  <2> QED  BY <2>1, <2>2
<1>4. T \in G
  <2>1. G \in SUBSET SUBSET T
    OBVIOUS
  <2> HIDE DEF G
  <2> QED  BY <1>3, <2>1, FiniteSubsetInduction
<1> QED  BY <1>1, <1>2, <1>4

\* The sum of a constant.
LEMMA SumConstant ==
  ASSUME NEW T, IsFiniteSet(T), NEW f, NEW k \in Nat, \A x \in T : f[x] = k
  PROVE  SumFunctionOnSet(f, T) = k * Cardinality(T)
<1>1. PICK it : /\ it = [s \in SUBSET T |->
                     IF s = {} THEN 0
                     ELSE f[CHOOSE x \in s : TRUE] + it[s \ {CHOOSE x \in s : TRUE}]]
                /\ SumFunctionOnSet(f, T) = it[T]
  BY SumIteration
<1> DEFINE G == {U \in SUBSET T : it[U] = k * Cardinality(U)}
<1>2. ASSUME NEW U \in SUBSET T, \A x \in U : U \ {x} \in G
      PROVE  U \in G
  <2>1. CASE U = {}
    BY <1>1, <2>1, FS_EmptySet
  <2>2. CASE U # {}
    <3> DEFINE x == CHOOSE y \in U : TRUE
    <3>1. x \in U /\ x \in T
      BY <2>2
    <3>2. it[U] = f[x] + it[U \ {x}]
      BY <1>1, <2>2
    <3> HIDE DEF x
    <3>3. it[U \ {x}] = k * Cardinality(U \ {x})
      BY <1>2, <3>1
    <3>4. IsFiniteSet(U) /\ Cardinality(U) \in Nat /\ Cardinality(U) # 0
      BY <3>1, FS_Subset, FS_CardinalityType, FS_EmptySet
    <3>5. Cardinality(U \ {x}) = Cardinality(U) - 1
      BY <3>1, <3>4, FS_RemoveElement
    <3>6. \A n \in Nat : k + k * (n - 1) = k * n
      OBVIOUS
    <3>7. it[U] = k * Cardinality(U)
      BY <3>1, <3>2, <3>3, <3>4, <3>5, <3>6
    <3> QED  BY <3>7
  <2> QED  BY <2>1, <2>2
<1>3. T \in G
  <2>1. G \in SUBSET SUBSET T
    OBVIOUS
  <2> HIDE DEF G
  <2> QED  BY <1>2, <2>1, FiniteSubsetInduction
<1> QED  BY <1>1, <1>3

\* Two values and three are finitely many.
LEMMA FinitePair ==
  ASSUME NEW x, NEW y
  PROVE  IsFiniteSet({x, y})
<1>1. IsFiniteSet({x}) /\ {x, y} = {x} \cup {y}
  BY FS_Singleton
<1>2. IsFiniteSet({x} \cup {y})
  BY <1>1, FS_AddElement
<1> QED  BY <1>1, <1>2

\* The least of two numbers ...
LEMMA MinOfTwo ==
  ASSUME NEW x \in Int, NEW y \in Int
  PROVE  /\ Min({x, y}) \in Int /\ Min({x, y}) <= x /\ Min({x, y}) <= y
         /\ Min({x, y}) = x \/ Min({x, y}) = y
<1>1. {x, y} \in SUBSET Int /\ {x, y} # {} /\ IsFiniteSet({x, y})
  BY FinitePair
<1> DEFINE m == Min({x, y})
<1>2. m \in {x, y} /\ \A z \in {x, y} : m <= z
  BY <1>1, MaxMin
<1> HIDE DEF m
<1>3. m \in Int /\ m <= x /\ m <= y /\ (m = x \/ m = y)
  BY <1>2
<1> QED  BY <1>3 DEF m

\* ... and the greatest of them.
LEMMA MaxOfTwo ==
  ASSUME NEW x \in Int, NEW y \in Int
  PROVE  /\ Max({x, y}) \in Int /\ x <= Max({x, y}) /\ y <= Max({x, y})
         /\ Max({x, y}) = x \/ Max({x, y}) = y
<1>1. {x, y} \in SUBSET Int /\ {x, y} # {} /\ IsFiniteSet({x, y})
  BY FinitePair
<1> DEFINE m == Max({x, y})
<1>2. m \in {x, y} /\ \A z \in {x, y} : z <= m
  BY <1>1, MaxMin
<1> HIDE DEF m
<1>3. m \in Int /\ x <= m /\ y <= m /\ (m = x \/ m = y)
  BY <1>2
<1> QED  BY <1>3 DEF m

\* The least of three.
LEMMA MinOfThree ==
  ASSUME NEW x \in Int, NEW y \in Int, NEW z \in Int
  PROVE  /\ Min({x, y, z}) \in Int /\ Min({x, y, z}) <= x /\ Min({x, y, z}) <= y /\ Min({x, y, z}) <= z
         /\ Min({x, y, z}) = x \/ Min({x, y, z}) = y \/ Min({x, y, z}) = z
<1>1. {x, y, z} \in SUBSET Int /\ {x, y, z} # {} /\ IsFiniteSet({x, y, z})
  <2>1. {x, y, z} = {x, y} \cup {z}
    OBVIOUS
  <2>2. IsFiniteSet({x, y})
    BY FinitePair
  <2>3. IsFiniteSet({x, y, z})
    BY <2>1, <2>2, FS_AddElement
  <2> QED  BY <2>3
<1> DEFINE m == Min({x, y, z})
<1>2. m \in {x, y, z} /\ \A u \in {x, y, z} : m <= u
  BY <1>1, MaxMin
<1> HIDE DEF m
<1>3. m \in Int /\ m <= x /\ m <= y /\ m <= z /\ (m = x \/ m = y \/ m = z)
  BY <1>2
<1> QED  BY <1>3 DEF m
===============================================================================
