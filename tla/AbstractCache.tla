---------------------------- MODULE AbstractCache ----------------------------
(***************************************************************************)
(* AbstractCacheImpl over CompositionalAbstractCache sets: what a topology *)
(* calls an L1 or L2 cache.  It splits an address into set and tag, joins  *)
(* the classifications of an address interval, and updates the one set a   *)
(* precise address maps to, or every set an imprecise one may map to.      *)
(*                                                                         *)
(* Addresses count words of four bytes.  Each path carries the concrete    *)
(* cache it simulates (age), which the code does not keep.                 *)
(***************************************************************************)
EXTENDS LruMaxAge, LruMinAge, FiniteSets

CONSTANTS Paths,      \* the exploration's states that are live at once
          N_SETS,     \* T->N_SETS
          LINE_SIZE,  \* T->LINE_SIZE, in words
          Intervals   \* what the address analysis may say of an access

ASSUME GeometryAssumption == N_SETS \in Nat \ {0} /\ LINE_SIZE \in Nat \ {0}
ASSUME TagRangeAssumption == \E n \in Tags : Tags = 0 .. n

VARIABLES age,        \* age[p][i][t]: concrete age of tag t in set i
          cacheSets,  \* cacheSets[p][i]: the must and the may analysis of set i
          failed      \* the assertion of update() has failed

vars == <<age, cacheSets, failed>>

Index == 0 .. N_SETS - 1
Addresses == 0 .. (Max(Tags) + 1) * N_SETS * LINE_SIZE - 1
AllIntervals == {itv \in Addresses \X Addresses : itv[1] <= itv[2]}
UnknownAddress == <<0, Max(Addresses)>>

ASSUME IntervalsAssumption == Intervals \subseteq AllIntervals

\* Those that begin and end in the first or the last word of a line: an interval is told
\* by the lines of its ends and by whether it is as long as the cache.
LineEnds ==
  {itv \in AllIntervals : \A k \in 1 .. 2 : itv[k] % LINE_SIZE \in {0, LINE_SIZE - 1}}

BlockOf(addr) == addr \div LINE_SIZE
TagOf(addr) == BlockOf(addr) \div N_SETS
IndexOf(addr) == BlockOf(addr) % N_SETS

LruSet == {a \in [Tags -> 0 .. Assoc] :
             \A t, u \in Tags : a[t] = a[u] /\ a[t] < Assoc => t = u}
Touch(a, t) ==
  [u \in Tags |-> IF u = t THEN 0 ELSE IF a[u] < a[t] THEN a[u] + 1 ELSE a[u]]
Cached(p, addr) == age[p][IndexOf(addr)][TagOf(addr)] < Assoc

-----------------------------------------------------------------------------
\* CompositionalAbstractCache::classify of one set.
ClassifyInSet(set, t) ==
  LET must == MustClassify(set.must, t, 0)
  IN  IF must # "UNKNOWN" THEN must ELSE MayClassify(set.may, t, 0)

\* The join of the classifications of all lines the interval touches.
Classify(p, itv) ==
  LET found == {ClassifyInSet(cacheSets[p][b % N_SETS], b \div N_SETS) :
                  b \in BlockOf(itv[1]) .. BlockOf(itv[2])}
  IN  IF itv # UnknownAddress /\ Cardinality(found) = 1
      THEN CHOOSE cl \in found : TRUE ELSE "UNKNOWN"

\* CompositionalAbstractCache::update and potentialUpdate of one set.
UpdateSet(set, t, assumption) ==
  LET cl == IF assumption = "UNKNOWN" THEN ClassifyInSet(set, t) ELSE assumption
  IN  [must |-> MustUpdate(set.must, t, cl = "HIT"), may |-> MayUpdate(set.may, t)]
PotentialUpdateSet(set, low, high) ==
  [must |-> MustPotentialUpdate(set.must),
   may |-> MayPotentialUpdate(set.may, low, high)]

\* The first and the last set an interval may map to, by its two ends alone
\* unless the interval is long enough to cover the cache.
CacheSetInterval(itv) ==
  IF itv[2] + 1 - itv[1] >= N_SETS * LINE_SIZE
  THEN <<0, N_SETS - 1>> ELSE <<IndexOf(itv[1]), IndexOf(itv[2])>>

\* Mutant: the wraparound is forgotten.
SetsToTheEnd(itv) ==
  CacheSetInterval(itv)[1] ..
    (IF CacheSetInterval(itv)[1] <= CacheSetInterval(itv)[2]
     THEN CacheSetInterval(itv)[2] ELSE N_SETS - 1)

\* The sets from the first to the last, around the end of the cache if need be.
UnknownSets(itv) ==
  LET lower == CacheSetInterval(itv)[1]
      upper == CacheSetInterval(itv)[2]
  IN  IF lower <= upper THEN lower .. upper
      ELSE (lower .. N_SETS - 1) \cup (0 .. upper)

\* "Could have performed precise update".
AssertionFails(itv) ==
  N_SETS # 1 /\ CacheSetInterval(itv)[1] = CacheSetInterval(itv)[2]

IsPrecise(itv) == BlockOf(itv[1]) = BlockOf(itv[2])

Init ==
  /\ age \in [Paths -> [Index -> LruSet]]
  /\ cacheSets = [p \in Paths |-> [i \in Index |->
                    [must |-> MustInit, may |-> MayInit(FALSE)]]]
  /\ failed = FALSE

\* Path p accesses the word addr, of which the analysis knows that it is in
\* itv.  A caller that has split the path passes the case it follows.
Update(p, itv, addr, assumption) ==
  /\ addr \in itv[1] .. itv[2]
  /\ assumption # "UNKNOWN" => Classify(p, itv) \in {"UNKNOWN", assumption}
  /\ assumption = "HIT" => Cached(p, addr)
  /\ assumption = "MISS" => ~Cached(p, addr)
  /\ age' = [age EXCEPT ![p][IndexOf(addr)] = Touch(@, TagOf(addr))]
  /\ \/ /\ IsPrecise(itv)
        /\ cacheSets' = [cacheSets EXCEPT ![p][IndexOf(itv[1])] =
                           UpdateSet(@, TagOf(itv[1]), assumption)]
        /\ UNCHANGED failed
     \/ /\ ~IsPrecise(itv)
        /\ failed' = AssertionFails(itv)
        /\ cacheSets' = [cacheSets EXCEPT ![p] =
             [i \in Index |->
                IF i \in UnknownSets(itv)
                THEN PotentialUpdateSet(@[i], TagOf(itv[1]), TagOf(itv[2]))
                ELSE @[i]]]

\* Path p becomes the join of p and q, set by set.
Join(p, q) ==
  /\ p # q
  /\ \E r \in {p, q} : age' = [age EXCEPT ![p] = age[r]]
  /\ cacheSets' = [cacheSets EXCEPT ![p] =
       [i \in Index |->
          [must |-> MustJoin(@[i].must, cacheSets[q][i].must),
           may |-> MayJoin(@[i].may, cacheSets[q][i].may)]]]
  /\ UNCHANGED failed

\* A failed assertion ends the program.
Aborted == failed /\ UNCHANGED vars

Next ==
  \/ /\ ~failed
     /\ \E p \in Paths :
          \/ \E itv \in Intervals, assumption \in {"UNKNOWN", "HIT", "MISS"} :
               \E addr \in itv[1] .. itv[2] : Update(p, itv, addr, assumption)
          \/ \E q \in Paths : Join(p, q)
  \/ Aborted

Spec == Init /\ [][Next]_vars

-----------------------------------------------------------------------------
\* Every concrete set is an LRU stack and every must vector fits its set.
TypeOK ==
  /\ age \in [Paths -> [Index -> LruSet]]
  /\ failed \in BOOLEAN
  /\ \A p \in Paths, i \in Index :
       /\ Len(cacheSets[p][i].must) <= Assoc
       /\ Range(cacheSets[p][i].must \o cacheSets[p][i].may.explicit)
            \subseteq Entry
       /\ cacheSets[p][i].may.implicit \in 0 .. Assoc

\* classify() says CL_HIT of an interval only when every line it touches is
\* cached, after any sequence of precise and imprecise accesses and joins: an
\* imprecise access must have aged every set it may have reached.
HitIsCached ==
  \A p \in Paths, itv \in Intervals :
    Classify(p, itv) = "HIT" => \A addr \in itv[1] .. itv[2] : Cached(p, addr)

\* classify() says CL_MISS of an interval only when no line of it is cached.
MissIsNotCached ==
  \A p \in Paths, itv \in Intervals :
    Classify(p, itv) = "MISS" => \A addr \in itv[1] .. itv[2] : ~Cached(p, addr)

\* The classifications are sound for as long as the program runs: until an access aborts it
\* whose interval is too short to cover the cache and has its ends in two lines of
\* one set. In between lie all the other sets, so that a program that went on would not
\* age them.
ClassificationSound == failed \/ (HitIsCached /\ MissIsNotCached)
=============================================================================
