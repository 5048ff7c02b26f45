------------------------------- MODULE CacheSet -------------------------------
(***************************************************************************)
(* CompositionalAbstractCache<LruMaxAgeAbstractCache,                      *)
(* LruMinAgeAbstractCache>: the must and the may analysis of one cache     *)
(* set, on every path that explores the program.  Each path also carries   *)
(* the concrete LRU set it simulates (age), which the code does not keep:  *)
(* it is what the two analyses talk about.                                 *)
(*                                                                         *)
(* Foreign holds the lines the other cores may put into the set when it is *)
(* one of a shared L2 and the multi-core type is LiangY; the set is shared *)
(* or not from the start.                                                  *)
(***************************************************************************)
EXTENDS LruMaxAge, LruMinAge, FiniteSets

CONSTANTS Paths,    \* the exploration's states that are live at once
          Foreign   \* the lines of the other cores that map to the set

ASSUME ForeignAssumption == IsFiniteSet(Foreign)

VARIABLES shared,      \* the other cores use the set too
          age,         \* age[p][t]: concrete age of t, Assoc when not cached
          analysis1,   \* analysis1[p]: the must vector
          analysis2    \* analysis2[p]: the may state

vars == <<shared, age, analysis1, analysis2>>

Lines == Tags \cup Foreign

LruStack(a) == \A t, u \in Lines : a[t] = a[u] /\ a[t] < Assoc => t = u

\* The concrete set: t moves to the front, the lines before it age by one.
Touch(a, t) ==
  [u \in Lines |-> IF u = t THEN 0 ELSE IF a[u] < a[t] THEN a[u] + 1 ELSE a[u]]

\* CNN, the number of conflicting lines of the other cores.
CNN(t) == IF shared THEN Cardinality(Foreign \ {t}) ELSE 0

Classify(p, t) ==
  LET must == MustClassify(analysis1[p], t, CNN(t))
  IN  IF must # "UNKNOWN" THEN must ELSE MayClassify(analysis2[p], t, CNN(t))

-----------------------------------------------------------------------------
\* The analysis starts from a set of which nothing is known.
Init ==
  /\ shared \in (IF Foreign = {} THEN {FALSE} ELSE BOOLEAN)
  /\ age \in [Paths -> {a \in [Lines -> 0 .. Assoc] : LruStack(a)}]
  /\ ~shared => \A p \in Paths, f \in Foreign \ Tags : age[p][f] = Assoc
  /\ analysis1 = [p \in Paths |-> MustInit]
  /\ analysis2 = [p \in Paths |-> MayInit(FALSE)]

\* Path p accesses t.  A caller that has split the path on an unknown
\* classification passes the case it follows as the assumption.
Access(p, t, assumption) ==
  LET cl == IF assumption = "UNKNOWN" THEN Classify(p, t) ELSE assumption
  IN  /\ assumption # "UNKNOWN" => Classify(p, t) \in {"UNKNOWN", assumption}
      /\ assumption = "HIT" => age[p][t] < Assoc
      /\ assumption = "MISS" => age[p][t] = Assoc
      /\ age' = [age EXCEPT ![p] = Touch(@, t)]
      /\ analysis1' = [analysis1 EXCEPT ![p] = MustUpdate(@, t, cl = "HIT")]
      /\ analysis2' = [analysis2 EXCEPT ![p] = MayUpdate(@, t)]

\* Path p accesses an address that may lie in the set, under one of the tags
\* from low to high.
PotentialAccess(p, low, high) ==
  /\ low <= high
  /\ \/ \E t \in Tags \cap low .. high : age' = [age EXCEPT ![p] = Touch(@, t)]
     \/ UNCHANGED age
  /\ analysis1' = [analysis1 EXCEPT ![p] = MustPotentialUpdate(@)]
  /\ analysis2' = [analysis2 EXCEPT ![p] = MayPotentialUpdate(@, low, high)]

\* Path p becomes the join of p and q and stands for either concrete set.
Join(p, q) ==
  /\ p # q
  /\ \E r \in {p, q} : age' = [age EXCEPT ![p] = age[r]]
  /\ analysis1' = [analysis1 EXCEPT ![p] = MustJoin(@, analysis1[q])]
  /\ analysis2' = [analysis2 EXCEPT ![p] = MayJoin(@, analysis2[q])]

\* Another core accesses its line f of the shared set; no analysis sees it.
ForeignAccess(p, f) ==
  /\ shared
  /\ age' = [age EXCEPT ![p] = Touch(@, f)]
  /\ UNCHANGED <<analysis1, analysis2>>

Next ==
  /\ UNCHANGED shared
  /\ \E p \in Paths :
       \/ \E t \in Tags, assumption \in {"UNKNOWN", "HIT", "MISS"} :
            Access(p, t, assumption)
       \/ \E low, high \in Tags : PotentialAccess(p, low, high)
       \/ \E q \in Paths : Join(p, q)
       \/ \E f \in Foreign : ForeignAccess(p, f)

Spec == Init /\ [][Next]_vars

-----------------------------------------------------------------------------
\* The concrete set is an LRU stack; both vectors keep the documented order, by age
\* and then by tag, and hold a tag once.
TypeOK ==
  /\ age \in [Paths -> {a \in [Lines -> 0 .. Assoc] : LruStack(a)}]
  /\ \A p \in Paths :
       /\ Len(analysis1[p]) <= Assoc /\ analysis2[p].implicit \in 0 .. Assoc
       /\ \A v \in {analysis1[p], analysis2[p].explicit} :
            Canonical(v) /\ Cardinality(TagsOf(v)) = Len(v)

\* classify() says CL_HIT only of a line that is in the set, for every access
\* order, path split, join and interference of the other cores, and CL_MISS only
\* of a line that is not in the set, unless the other cores use it too.  A line
\* of the program that is the only one the other cores have in a shared set is
\* left out: it has no conflicting line, yet their accesses to it age the others.
HitIsCached ==
  \A p \in Paths, t \in Tags :
    (shared => CNN(t) > 0) /\ Classify(p, t) = "HIT" => age[p][t] < Assoc
MissIsNotCached ==
  \A p \in Paths, t \in Tags : Classify(p, t) = "MISS" => age[p][t] = Assoc
ClassificationSound == HitIsCached /\ (shared \/ MissIsNotCached)

\* lessequal() and join() agree: the join is an upper bound of both states,
\* does not depend on which of them is joined into which, and is the least one:
\* it gives every line the weaker of its two bounds, as AgeBounds!Join does.
JoinIsLeastUpperBound ==
  \A p \in Paths : \A q \in Paths \ {p} :
    LET must == MustJoin(analysis1[p], analysis1[q])
        may == MayJoin(analysis2[p], analysis2[q])
    IN  /\ must = MustJoin(analysis1[q], analysis1[p])
        /\ may = MayJoin(analysis2[q], analysis2[p])
        /\ MustLessEqual(analysis1[p], must)
        /\ MayLessEqual(analysis2[p], may)
        /\ \A t \in Tags :
             /\ MustAge(must, t) = Max({MustAge(analysis1[p], t), MustAge(analysis1[q], t)})
             /\ MinAge(may, t) = Min({MinAge(analysis2[p], t), MinAge(analysis2[q], t)})

\* update() is monotone: a state that stands for more sets still does after
\* the same access.  Worklist iteration relies on it to reach a fixpoint.
UpdateIsMonotone ==
  \A p \in Paths : \A q \in Paths \ {p} :
    /\ MustLessEqual(analysis1[p], analysis1[q]) =>
         \A t \in Tags, hit \in BOOLEAN :
           (hit => \A r \in {p, q} : MustClassify(analysis1[r], t, 0) # "MISS") =>
             MustLessEqual(MustUpdate(analysis1[p], t, hit),
                           MustUpdate(analysis1[q], t, hit))
    /\ MayLessEqual(analysis2[p], analysis2[q]) =>
         \A t \in Tags : MayLessEqual(MayUpdate(analysis2[p], t),
                                      MayUpdate(analysis2[q], t))

\* As long as the other cores leave the set alone, the vectors implement the
\* age bounds of AgeBounds: they start as these do, and every access and join
\* changes them as these are changed.
Bounds == INSTANCE AgeBounds WITH
  age <- [p \in Paths |-> [t \in Tags |-> age[p][t]]],
  maxAge <- [p \in Paths |-> [t \in Tags |-> MustAge(analysis1[p], t)]],
  minAge <- [p \in Paths |-> [t \in Tags |-> MinAge(analysis2[p], t)]]
BoundsSpec ==
  (shared \/ Bounds!Init) /\ [][shared \/ [Bounds!Next]_(Bounds!vars)]_vars

-----------------------------------------------------------------------------
\* Paths differ in nothing but what they have accessed.
Symmetry == Permutations(Paths)
=============================================================================
