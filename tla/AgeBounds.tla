------------------------------ MODULE AgeBounds ------------------------------
(***************************************************************************)
(* What the LRU cache-set analysis of llvm-ta promises.  A path is one     *)
(* state of the exploration: it simulates one concrete LRU cache set and   *)
(* keeps, for every tag, an upper and a lower bound on the age the tag has *)
(* in that set.  Age 0 is the most recently used line; age Assoc means     *)
(* that the line is not in the set.                                        *)
(*                                                                         *)
(* The representation (sorted vectors of must entries, explicit and        *)
(* implicit tags of the may analysis) is the business of LruMaxAge,        *)
(* LruMinAge and CacheSet, which implement this specification.             *)
(***************************************************************************)
EXTENDS Integers, FiniteSets

CONSTANTS Tags,     \* the tags whose lines map to the set
          Assoc,    \* T->ASSOCIATIVITY
          Paths     \* the exploration's states that are live at once

ASSUME AssocAssumption == Assoc \in Nat \ {0}

VARIABLES age,      \* age[p][t]: concrete age of t in the set p simulates
          maxAge,   \* maxAge[p][t]: the must analysis's bound
          minAge    \* minAge[p][t]: the may analysis's bound

vars == <<age, maxAge, minAge>>

Ages == 0 .. Assoc
AgeMap == [Tags -> Ages]

\* Two lines of a set never have the same position.
DistinctLines(a) ==
  \A t, u \in Tags : a[t] = a[u] /\ a[t] < Assoc => t = u

Older(n) == IF n < Assoc THEN n + 1 ELSE n
LesserOf(m, n) == IF m <= n THEN m ELSE n
GreaterOf(m, n) == IF m <= n THEN n ELSE m

-----------------------------------------------------------------------------
\* The LRU set: t moves to the front, the lines in front of it age by one.
Touch(a, t) ==
  [u \in Tags |-> IF u = t THEN 0
                  ELSE IF a[u] < a[t] THEN a[u] + 1 ELSE a[u]]

\* Mutant: no line is overtaken.
TouchMaxNoAging(m, t, bound) == [m EXCEPT ![t] = 0]

\* Must: only a line whose bound is below the accessed one can be overtaken.
\* bound is the accessed line's own bound before the access.
TouchMax(m, t, bound) ==
  [u \in Tags |-> IF u = t THEN 0
                  ELSE IF m[u] < bound THEN Older(m[u]) ELSE m[u]]

\* May: a line whose bound is not above the accessed one is surely overtaken.
TouchMin(m, t) ==
  [u \in Tags |-> IF u = t THEN 0
                  ELSE IF m[u] <= m[t] THEN Older(m[u]) ELSE m[u]]

\* An access that a hit is assumed for finds its line at an age below Assoc.
HitBound(m, t, hit) == IF hit THEN LesserOf(m[t], Assoc - 1) ELSE m[t]

-----------------------------------------------------------------------------
\* A set analysis starts from an unknown set, or from an empty one.
Init ==
  /\ maxAge = [p \in Paths |-> [t \in Tags |-> Assoc]]
  /\ \/ /\ minAge = [p \in Paths |-> [t \in Tags |-> 0]]
        /\ age \in [Paths -> {a \in AgeMap : DistinctLines(a)}]
     \/ /\ minAge = [p \in Paths |-> [t \in Tags |-> Assoc]]
        /\ age = minAge

\* Path p accesses the line of t; hit is TRUE when the access is known, or
\* assumed after a split of the path, to hit.
Access(p, t, hit) ==
  /\ hit => age[p][t] < Assoc
  /\ age' = [age EXCEPT ![p] = Touch(@, t)]
  /\ maxAge' = [maxAge EXCEPT ![p] = TouchMax(@, t, HitBound(@, t, hit))]
  /\ minAge' = [minAge EXCEPT ![p] = TouchMin(@, t)]

\* Path p accesses an address of which only a set of candidate tags is known,
\* and which may also map to another set.
PotentialAccess(p, S) ==
  /\ \/ \E t \in S : age' = [age EXCEPT ![p] = Touch(@, t)]
     \/ UNCHANGED age
  /\ maxAge' = [maxAge EXCEPT ![p] = [t \in Tags |-> Older(@[t])]]
  /\ minAge' = [minAge EXCEPT ![p] = [t \in Tags |-> IF t \in S THEN 0 ELSE @[t]]]

\* Path p becomes the join of p and q.  Its bounds now stand for both
\* concrete sets; the path goes on with either of them.
Join(p, q) ==
  /\ \E r \in {p, q} : age' = [age EXCEPT ![p] = age[r]]
  /\ maxAge' = [maxAge EXCEPT ![p] = [t \in Tags |-> GreaterOf(@[t], maxAge[q][t])]]
  /\ minAge' = [minAge EXCEPT ![p] = [t \in Tags |-> LesserOf(@[t], minAge[q][t])]]

Next ==
  \E p \in Paths :
    \/ \E t \in Tags, hit \in BOOLEAN : Access(p, t, hit)
    \/ \E S \in SUBSET Tags : PotentialAccess(p, S)
    \/ \E q \in Paths : Join(p, q)

Spec == Init /\ [][Next]_vars

-----------------------------------------------------------------------------
TypeOK ==
  /\ age \in [Paths -> AgeMap]
  /\ maxAge \in [Paths -> AgeMap]
  /\ minAge \in [Paths -> AgeMap]

\* The concrete set is an LRU stack on every path.
Stack == \A p \in Paths : DistinctLines(age[p])

\* Soundness of both analyses: on every path the concrete age of every tag
\* lies between the bounds of LruMinAgeAbstractCache and
\* LruMaxAgeAbstractCache, whatever accesses, splits and joins led there.
Sound ==
  \A p \in Paths, t \in Tags :
    minAge[p][t] <= age[p][t] /\ age[p][t] <= maxAge[p][t]

\* A tag with a must bound below Assoc is cached, one with a may bound of
\* Assoc is not: what classify() concludes from one bound.
HitSound ==
  \A p \in Paths, t \in Tags : maxAge[p][t] < Assoc => age[p][t] < Assoc
MissSound ==
  \A p \in Paths, t \in Tags : minAge[p][t] = Assoc => age[p][t] = Assoc

\* The tags the must analysis knows to be cached.
MustTags(p) == {t \in Tags : maxAge[p][t] < Assoc}

\* classify() calls a tag a miss when the must set is full without it: then
\* the known lines fill the set and the tag cannot be cached.
FullSetMisses ==
  \A p \in Paths :
    Cardinality(MustTags(p)) = Assoc =>
      \A t \in Tags \ MustTags(p) : age[p][t] = Assoc

\* The must set never claims more lines than the set has ways: the assertion
\* "Illegal must cache set size" of LruMaxAgeAbstractCache::update.
MustFits == \A p \in Paths : Cardinality(MustTags(p)) <= Assoc
=============================================================================
