-------------------------- MODULE AbstractCacheProofs --------------------------
(***************************************************************************)
(* Theorems about AbstractCache for every number of sets, line size,       *)
(* associativity and number of paths.                                      *)
(*                                                                         *)
(* The inductive invariant IInv says of every set of every path what       *)
(* Enclosed says of one. What is new is where an access may go: that the   *)
(* sets which an imprecise one ages (UnknownSets) are all that it may      *)
(* reach, which holds as long as the assertion of update() does.           *)
(***************************************************************************)
EXTENDS AbstractCache, AgeVectorProofs

-----------------------------------------------------------------------------
\* Division.

\* Division by a positive number.
LEMMA Division ==
  ASSUME NEW a \in Int, NEW n \in Nat \ {0}
  PROVE  /\ a \div n \in Int /\ a % n \in 0 .. n - 1 /\ a = n * (a \div n) + (a % n)
         /\ a >= 0 => a \div n >= 0
  OBVIOUS

\* A quotient is the only one of its remainder.
LEMMA DivisionIsUnique ==
  ASSUME NEW n \in Nat \ {0}, NEW q \in Int, NEW r \in 0 .. n - 1
  PROVE  (n * q + r) \div n = q /\ (n * q + r) % n = r
  OBVIOUS

\* Division is monotone.
LEMMA DivisionIsMonotone ==
  ASSUME NEW n \in Nat \ {0}, NEW a \in Int, NEW b \in Int, a <= b
  PROVE  a \div n <= b \div n
  OBVIOUS

\* What lies below a product.
LEMMA DivisionBelow ==
  ASSUME NEW n \in Nat \ {0}, NEW a \in Int, NEW k \in Int, a < k * n
  PROVE  a \div n < k
  OBVIOUS

\* Two numbers that are closer than the product of n and l, in units of l.
LEMMA DivisionOfDifference ==
  ASSUME NEW l \in Nat \ {0}, NEW n \in Nat \ {0}, NEW a \in Int, NEW b \in Int,
         a <= b, b + 1 - a < n * l
  PROVE  b \div l <= a \div l + n
<1> DEFINE q == a \div l
           r == a % l
<1>1. q \in Int /\ r \in 0 .. l - 1 /\ a = l * q + r
  BY Division
<1> HIDE DEF q, r
<1>2. b < (q + n + 1) * l
  <2>1. l * q = q * l /\ (q + n + 1) * l = q * l + n * l + l
    BY <1>1
  <2> QED  BY <1>1, <2>1
<1>3. q + n + 1 \in Int
  BY <1>1
<1>4. b \div l < q + n + 1
  BY <1>2, <1>3, DivisionBelow
<1>5. b \div l \in Int
  BY Division
<1> QED  BY <1>1, <1>4, <1>5 DEF q

\* The remainders from a to b lie between those of the two, around the end if need be.
LEMMA Remainders ==
  ASSUME NEW n \in Nat \ {0}, NEW a \in Int, NEW b \in Int, NEW c \in Int,
         a <= c, c <= b, b <= a + n, n = 1 \/ a % n # b % n
  PROVE  IF a % n <= b % n THEN c % n \in a % n .. b % n
         ELSE c % n \in (a % n .. n - 1) \cup (0 .. b % n)
<1> DEFINE q == a \div n
           s == a % n
<1>1. q \in Int /\ s \in 0 .. n - 1 /\ a = n * q + s
  BY Division
<1>2. c % n \in 0 .. n - 1 /\ b % n \in 0 .. n - 1
  BY Division
<1>3. ASSUME NEW d \in Int, a <= d, d <= a + n
      PROVE  d % n = IF d - a + s < n THEN d - a + s
                     ELSE IF d - a + s < n + n THEN d - a + s - n ELSE 0
  <2> HIDE DEF s, q
  <2>1. PICK k \in Nat : k = d - a + s
    BY <1>1, <1>3
  <2>2. d = n * q + k /\ k < n + n /\ n * (q + 1) = n * q + n /\ q + 1 \in Int
    BY <1>1, <1>3, <2>1
  <2>3. CASE k < n
    <3>1. k \in 0 .. n - 1
      BY <2>1, <2>3
    <3>2. d % n = k
      BY <1>1, <2>2, <3>1, DivisionIsUnique
    <3> QED  BY <2>1, <2>3, <3>2
  <2>4. CASE k >= n
    <3>1. PICK r \in 0 .. n - 1 : r = k - n
      BY <2>1, <2>2, <2>4
    <3>2. d = n * (q + 1) + r
      BY <1>1, <2>2, <3>1
    <3>3. (n * (q + 1) + r) % n = r
      BY <2>2, DivisionIsUnique
    <3>4. d % n = k - n
      BY <3>1, <3>2, <3>3
    <3>5. s \in Int
      BY <1>1
    <3> QED  BY <2>1, <2>2, <2>4, <3>4, <3>5
  <2> QED  BY <2>1, <2>3, <2>4
<1> DEFINE cm == c % n
           bm == b % n
<1>4. a <= c /\ c <= a + n /\ a <= b /\ b <= a + n
  OBVIOUS
<1> HIDE DEF q, s
<1>5. /\ cm = IF c - a + s < n THEN c - a + s ELSE IF c - a + s < n + n THEN c - a + s - n ELSE 0
      /\ bm = IF b - a + s < n THEN b - a + s ELSE IF b - a + s < n + n THEN b - a + s - n ELSE 0
  BY <1>3, <1>4
<1>6. n = 1 \/ s # bm
  BY DEF s
<1>7. s \in Int /\ 0 <= s /\ s <= n - 1 /\ cm \in Int /\ 0 <= cm /\ cm <= n - 1 /\ bm \in Int
      /\ 0 <= bm /\ bm <= n - 1
  BY <1>1, <1>2
<1> HIDE DEF cm, bm, s
<1>8. IF s <= bm THEN cm \in s .. bm ELSE cm \in (s .. n - 1) \cup (0 .. bm)
  <2>1. CASE s <= bm
    BY <1>5, <1>6, <1>7, <2>1
  <2>2. CASE ~ (s <= bm)
    BY <1>5, <1>6, <1>7, <2>2
  <2> QED  BY <2>1, <2>2
<1> QED  BY <1>8 DEF cm, bm, s

-----------------------------------------------------------------------------
\* Addresses, lines, sets and tags.

\* The lines of the memory are those of the sets, tag by tag.
Lines == 0 .. (Max(Tags) + 1) * N_SETS - 1

\* The constants.
LEMMA Geometry ==
  /\ N_SETS \in Nat \ {0} /\ LINE_SIZE \in Nat \ {0} /\ Assoc \in Nat \ {0}
  /\ Max(Tags) \in Nat /\ Tags = 0 .. Max(Tags)
<1>1. PICK n \in Tags : Tags = 0 .. n
  BY TagRangeAssumption
<1>2. n \in Nat
  BY <1>1, TagsAssumption
<1>3. Tags \in SUBSET Int /\ Tags # {} /\ IsFiniteSet(Tags)
  <2>1. 0 \in Int /\ n \in Int
    BY <1>2
  <2>2. IsFiniteSet(0 .. n)
    BY <2>1, FS_Interval
  <2> QED  BY <1>1, <1>2, <2>2
<1>4. Max(Tags) \in Tags /\ \A k \in Tags : k <= Max(Tags)
  BY <1>3, MaxMin
<1>5. Max(Tags) = n
  BY <1>1, <1>2, <1>4
<1> QED  BY <1>1, <1>2, <1>5, GeometryAssumption, AssocAssumption

\* A line has a set and a tag.
LEMMA LinesFit ==
  ASSUME NEW b \in Lines
  PROVE  b \in Nat /\ b % N_SETS \in Index /\ b \div N_SETS \in Tags
<1> DEFINE m == Max(Tags)
<1>1. m \in Nat /\ N_SETS \in Nat \ {0} /\ Tags = 0 .. m
  BY Geometry
<1>2. b \in Nat /\ b < (m + 1) * N_SETS
  <2>1. (m + 1) * N_SETS \in Nat
    BY <1>1
  <2> HIDE DEF m
  <2> QED  BY <2>1 DEF Lines, m
<1> HIDE DEF m
<1>3. b % N_SETS \in 0 .. N_SETS - 1 /\ b \div N_SETS \in Int /\ b \div N_SETS >= 0
  <2>1. b \in Int /\ b >= 0
    BY <1>2
  <2> QED  BY <1>1, <2>1, Division
<1>4. m + 1 \in Int
  BY <1>1
<1>5. b \div N_SETS < m + 1
  BY <1>1, <1>2, <1>4, DivisionBelow
<1> QED  BY <1>1, <1>2, <1>3, <1>5 DEF Index

\* An address lies in a line; the lines of an interval are those from its first to its last.
LEMMA BlocksFit ==
  ASSUME NEW itv \in AllIntervals
  PROVE  /\ itv[1] \in Int /\ itv[2] \in Int /\ itv[1] <= itv[2]
         /\ BlockOf(itv[1]) \in Int /\ BlockOf(itv[2]) \in Int
         /\ BlockOf(itv[1]) .. BlockOf(itv[2]) \subseteq Lines
         /\ \A addr \in itv[1] .. itv[2] :
              /\ addr \in Int
              /\ BlockOf(addr) \in BlockOf(itv[1]) .. BlockOf(itv[2])
<1> DEFINE k == (Max(Tags) + 1) * N_SETS
<1>1. k \in Nat /\ LINE_SIZE \in Nat \ {0} /\ Addresses = 0 .. k * LINE_SIZE - 1 /\ Lines = 0 .. k - 1
  BY Geometry DEF Addresses, Lines
<1> HIDE DEF k
<1>2. k * LINE_SIZE \in Int
  BY <1>1
<1>3. /\ itv[1] \in Nat /\ itv[2] \in Nat /\ itv[1] <= itv[2]
      /\ itv[2] < k * LINE_SIZE
  BY <1>1, <1>2 DEF AllIntervals
<1>4. ASSUME NEW addr \in itv[1] .. itv[2]
      PROVE  /\ BlockOf(addr) \in Int /\ BlockOf(addr) >= 0 /\ BlockOf(addr) < k
             /\ addr \in Int /\ itv[1] <= addr /\ addr <= itv[2]
  <2>1. addr \in Int /\ addr >= 0 /\ addr < k * LINE_SIZE /\ itv[1] <= addr /\ addr <= itv[2]
    BY <1>2, <1>3
  <2>2. addr \div LINE_SIZE \in Int /\ addr \div LINE_SIZE >= 0
    BY <1>1, <2>1, Division
  <2>3. addr \div LINE_SIZE < k
    BY <1>1, <2>1, DivisionBelow
  <2> QED  BY <2>1, <2>2, <2>3 DEF BlockOf
<1>5. itv[1] \in itv[1] .. itv[2] /\ itv[2] \in itv[1] .. itv[2]
  BY <1>3
<1>6. ASSUME NEW addr \in itv[1] .. itv[2]
      PROVE  BlockOf(itv[1]) <= BlockOf(addr) /\ BlockOf(addr) <= BlockOf(itv[2])
  <2>1. itv[1] \in Int /\ itv[2] \in Int /\ addr \in Int /\ itv[1] <= addr /\ addr <= itv[2]
    BY <1>3, <1>4
  <2>2. itv[1] \div LINE_SIZE <= addr \div LINE_SIZE
    BY <1>1, <2>1, DivisionIsMonotone
  <2>3. addr \div LINE_SIZE <= itv[2] \div LINE_SIZE
    BY <1>1, <2>1, DivisionIsMonotone
  <2> QED  BY <2>2, <2>3 DEF BlockOf
<1>7. BlockOf(itv[1]) .. BlockOf(itv[2]) \subseteq Lines
  BY <1>1, <1>4, <1>5
<1> QED  BY <1>3, <1>4, <1>5, <1>6, <1>7

\* An address lies in a set, under a tag.
LEMMA AddressFits ==
  ASSUME NEW itv \in AllIntervals, NEW addr \in itv[1] .. itv[2]
  PROVE  IndexOf(addr) \in Index /\ TagOf(addr) \in Tags
<1>1. BlockOf(addr) \in Lines
  BY BlocksFit
<1> QED  BY <1>1, LinesFit DEF IndexOf, TagOf

\* What an imprecise access may reach: the sets that are aged, under the tags from that of the
\* first address to that of the last.
LEMMA ReachedIsUnknown ==
  ASSUME NEW itv \in AllIntervals, NEW addr \in itv[1] .. itv[2], ~ AssertionFails(itv)
  PROVE  /\ IndexOf(addr) \in UnknownSets(itv)
         /\ TagOf(itv[1]) \in Tags /\ TagOf(itv[2]) \in Tags /\ TagOf(itv[1]) <= TagOf(itv[2])
         /\ TagOf(addr) \in TagOf(itv[1]) .. TagOf(itv[2])
<1> DEFINE a == BlockOf(itv[1])
           b == BlockOf(itv[2])
           c == BlockOf(addr)
<1>1. /\ a \in Int /\ b \in Int /\ c \in Int /\ a <= c /\ c <= b
      /\ a \in Lines /\ b \in Lines /\ c \in Lines
      /\ itv[1] \in Int /\ itv[2] \in Int /\ itv[1] <= itv[2]
  <2>1. c \in a .. b /\ a \in Int /\ b \in Int /\ a .. b \subseteq Lines
    BY BlocksFit
  <2>2. itv[1] \in Int /\ itv[2] \in Int /\ itv[1] <= itv[2]
    BY BlocksFit
  <2> HIDE DEF a, b, c
  <2> QED  BY <2>1, <2>2
<1>2. N_SETS \in Nat \ {0} /\ LINE_SIZE \in Nat \ {0}
  BY Geometry
<1>3. /\ TagOf(itv[1]) = a \div N_SETS /\ TagOf(itv[2]) = b \div N_SETS /\ TagOf(addr) = c \div N_SETS
      /\ IndexOf(itv[1]) = a % N_SETS /\ IndexOf(itv[2]) = b % N_SETS /\ IndexOf(addr) = c % N_SETS
  BY DEF TagOf, IndexOf
<1>4. b <= a + N_SETS \/ itv[2] + 1 - itv[1] >= N_SETS * LINE_SIZE
  <2>1. N_SETS * LINE_SIZE \in Int
    BY <1>2
  <2>2. ASSUME itv[2] + 1 - itv[1] < N_SETS * LINE_SIZE PROVE b <= a + N_SETS
    BY <1>1, <1>2, <2>2, DivisionOfDifference DEF BlockOf
  <2> QED  BY <1>1, <2>1, <2>2
<1> HIDE DEF a, b, c
<1>5. /\ a \div N_SETS <= c \div N_SETS /\ c \div N_SETS <= b \div N_SETS
      /\ a \div N_SETS \in Tags /\ b \div N_SETS \in Tags /\ c \div N_SETS \in Tags
      /\ c % N_SETS \in Index
  BY <1>1, <1>2, DivisionIsMonotone, LinesFit
<1>6. TagOf(addr) \in TagOf(itv[1]) .. TagOf(itv[2]) /\ TagOf(itv[1]) <= TagOf(itv[2])
  <2>1. a \div N_SETS \in Int /\ b \div N_SETS \in Int /\ c \div N_SETS \in Int
    BY <1>5, Geometry
  <2> QED  BY <1>3, <1>5, <2>1
<1>7. IndexOf(addr) \in UnknownSets(itv)
  <2>1. CASE itv[2] + 1 - itv[1] >= N_SETS * LINE_SIZE
    <3>1. CacheSetInterval(itv) = <<0, N_SETS - 1>>
      BY <2>1 DEF CacheSetInterval
    <3>2. UnknownSets(itv) = 0 .. N_SETS - 1
      BY <1>2, <3>1 DEF UnknownSets
    <3> QED  BY <1>3, <1>5, <3>2 DEF Index
  <2>2. CASE ~ (itv[2] + 1 - itv[1] >= N_SETS * LINE_SIZE)
    <3>1. CacheSetInterval(itv) = <<a % N_SETS, b % N_SETS>>
      BY <1>3, <2>2 DEF CacheSetInterval
    <3>2. N_SETS = 1 \/ a % N_SETS # b % N_SETS
      BY <3>1 DEF AssertionFails
    <3>3. IF a % N_SETS <= b % N_SETS THEN c % N_SETS \in a % N_SETS .. b % N_SETS
          ELSE c % N_SETS \in (a % N_SETS .. N_SETS - 1) \cup (0 .. b % N_SETS)
      BY <1>1, <1>2, <1>4, <2>2, <3>2, Remainders
    <3> DEFINE first == a % N_SETS
               last == b % N_SETS
    <3>4. UnknownSets(itv) = IF first <= last THEN first .. last
                             ELSE (first .. N_SETS - 1) \cup (0 .. last)
      <4> HIDE DEF first, last
      <4>1. CacheSetInterval(itv)[1] = first /\ CacheSetInterval(itv)[2] = last
        BY <3>1 DEF first, last
      <4> QED  BY <4>1 DEF UnknownSets
    <3> HIDE DEF first, last
    <3>5. c % N_SETS \in UnknownSets(itv)
      BY <3>3, <3>4 DEF first, last
    <3> QED  BY <1>3, <3>5
  <2> QED  BY <2>1, <2>2
<1> QED  BY <1>3, <1>5, <1>6, <1>7

-----------------------------------------------------------------------------
\* The inductive invariant.

\* The concrete sets are LRU sets of the tags.
LEMMA TouchIsTouched ==
  ASSUME NEW a \in LruSet, NEW t \in Tags
  PROVE  a \in [Tags -> 0 .. Assoc] /\ Distinct(Tags, a) /\ Touch(a, t) = Touched(Tags, a, t)
  BY DEF LruSet, Distinct, Touch, Touched

\* One set of a path: its analyses describe the concrete set.
SetOK(a, set) ==
  /\ set = [must |-> set.must, may |-> set.may]
  /\ Enclosed(Tags, a, set.must, set.may)

\* The inductive invariant: as long as the assertion has not failed, the analyses of every set
\* of every path describe it.
IInv ==
  /\ failed \in BOOLEAN
  /\ age \in [Paths -> [Index -> LruSet]]
  /\ cacheSets = [p \in Paths |-> [i \in Index |-> cacheSets[p][i]]]
  /\ ~ failed => \A p \in Paths, i \in Index : SetOK(age[p][i], cacheSets[p][i])

\* The ages in an enclosed set are those of an LRU set.
LEMMA EnclosedIsLru ==
  ASSUME NEW a, NEW set, SetOK(a, set)
  PROVE  a \in LruSet
  BY DEF SetOK, Enclosed, LruSet, Distinct

\* The exploration starts from sets of which nothing is known.
LEMMA InitIInv == Init => IInv
<1> SUFFICES ASSUME Init PROVE IInv
  OBVIOUS
<1> DEFINE new == [must |-> MustInit, may |-> MayInit(FALSE)]
<1>1. /\ failed = FALSE /\ age \in [Paths -> [Index -> LruSet]]
      /\ cacheSets = [p \in Paths |-> [i \in Index |-> new]]
  BY DEF Init
<1>2. new.must = MustInit /\ new.may = MayInit(FALSE) /\ new = [must |-> new.must, may |-> new.may]
  OBVIOUS
<1> HIDE DEF new
<1>3. ASSUME NEW p \in Paths, NEW i \in Index PROVE SetOK(age[p][i], cacheSets[p][i])
  <2>1. age[p][i] \in LruSet
    BY <1>1
  <2>2. age[p][i] \in [Tags -> 0 .. Assoc] /\ Distinct(Tags, age[p][i])
    BY <2>1 DEF LruSet, Distinct
  <2>3. Enclosed(Tags, age[p][i], MustInit, MayInit(FALSE))
    BY <2>2, EnclosedInit
  <2>4. cacheSets[p][i] = new
    BY <1>1
  <2> QED  BY <1>2, <2>3, <2>4 DEF SetOK
<1>4. cacheSets = [p \in Paths |-> [i \in Index |-> cacheSets[p][i]]]
  BY <1>1
<1> QED  BY <1>1, <1>3, <1>4 DEF IInv

\* What classify() says of one set is true.
LEMMA ClassifiedSet ==
  ASSUME NEW a, NEW set, SetOK(a, set), NEW t \in Tags
  PROVE  /\ ClassifyInSet(set, t) \in {"HIT", "MISS", "UNKNOWN"}
         /\ ClassifyInSet(set, t) = "HIT" => a[t] < Assoc
         /\ ClassifyInSet(set, t) = "MISS" => ~ (a[t] < Assoc)
<1> DEFINE v == set.must
           s == set.may
<1>1. Enclosed(Tags, a, v, s)
  BY DEF SetOK
<1>2. /\ MustClassify(v, t, 0) \in {"HIT", "MISS", "UNKNOWN"}
      /\ MayClassify(s, t, 0) \in {"MISS", "UNKNOWN"}
      /\ ClassifyInSet(set, t) = IF MustClassify(v, t, 0) # "UNKNOWN" THEN MustClassify(v, t, 0)
                                 ELSE MayClassify(s, t, 0)
  BY DEF MustClassify, MayClassify, ClassifyInSet
<1> HIDE DEF v, s
<1>3. ClassifyInSet(set, t) = "HIT" => MustClassify(v, t, 0) = "HIT"
  BY <1>2
<1>4. ClassifyInSet(set, t) = "MISS" => MustClassify(v, t, 0) = "MISS" \/ MayClassify(s, t, 0) = "MISS"
  BY <1>2
<1>5. MustClassify(v, t, 0) = "HIT" => a[t] < Assoc
  BY <1>1, EnclosedHit
<1>6. ASSUME MustClassify(v, t, 0) = "MISS" \/ MayClassify(s, t, 0) = "MISS" PROVE a[t] = Assoc
  BY <1>1, <1>6, EnclosedMiss
<1>7. ~ (Assoc < Assoc)
  BY AssocAssumption
<1> QED  BY <1>2, <1>3, <1>4, <1>5, <1>6, <1>7

\* An access to a line of one set.
LEMMA SetAccess ==
  ASSUME NEW a, NEW set, SetOK(a, set), NEW t \in Tags, NEW assumption,
         assumption = "HIT" => a[t] < Assoc
  PROVE  SetOK(Touch(a, t), UpdateSet(set, t, assumption))
<1> DEFINE cl == IF assumption = "UNKNOWN" THEN ClassifyInSet(set, t) ELSE assumption
           hit == cl = "HIT"
           new == [must |-> MustUpdate(set.must, t, hit), may |-> MayUpdate(set.may, t)]
<1>1. cl = "HIT" => a[t] < Assoc
  BY ClassifiedSet
<1>2. UpdateSet(set, t, assumption) = new
  BY DEF UpdateSet
<1>3. /\ new.must = MustUpdate(set.must, t, hit) /\ new.may = MayUpdate(set.may, t)
      /\ new = [must |-> new.must, may |-> new.may]
  OBVIOUS
<1> HIDE DEF new
<1>4. hit \in BOOLEAN /\ (hit => a[t] < Assoc)
  BY <1>1
<1> HIDE DEF hit
<1>5. Enclosed(Tags, a, set.must, set.may)
  BY DEF SetOK
<1>6. Enclosed(Tags, Touched(Tags, a, t), MustUpdate(set.must, t, hit), MayUpdate(set.may, t))
  BY <1>4, <1>5, EnclosedAccess
<1>7. Touch(a, t) = Touched(Tags, a, t)
  BY EnclosedIsLru, TouchIsTouched
<1> QED  BY <1>2, <1>3, <1>6, <1>7 DEF SetOK

\* An access that may be to one set, under a tag from low to high.
LEMMA SetPotentialAccess ==
  ASSUME NEW a, NEW set, SetOK(a, set), NEW low \in Tags, NEW high \in Tags, low <= high,
         NEW b, b = a \/ \E t \in Tags \cap low .. high : b = Touch(a, t)
  PROVE  SetOK(b, PotentialUpdateSet(set, low, high))
<1> DEFINE new == [must |-> MustPotentialUpdate(set.must),
                   may |-> MayPotentialUpdate(set.may, low, high)]
<1>1. /\ new.must = MustPotentialUpdate(set.must) /\ new.may = MayPotentialUpdate(set.may, low, high)
      /\ new = [must |-> new.must, may |-> new.may]
  OBVIOUS
<1>2. PotentialUpdateSet(set, low, high) = new
  BY DEF PotentialUpdateSet
<1> HIDE DEF new
<1>3. Enclosed(Tags, a, set.must, set.may)
  BY DEF SetOK
<1>4. b = a \/ \E t \in Tags \cap low .. high : b = Touched(Tags, a, t)
  BY EnclosedIsLru, TouchIsTouched
<1>5. Enclosed(Tags, b, MustPotentialUpdate(set.must), MayPotentialUpdate(set.may, low, high))
  BY <1>3, <1>4, EnclosedPotential
<1> QED  BY <1>1, <1>2, <1>5 DEF SetOK

\* An access changes the ages of one set.
LEMMA AgesAfter ==
  ASSUME age \in [Paths -> [Index -> LruSet]], NEW p \in Paths, NEW k \in Index, NEW t \in Tags,
         age' = [age EXCEPT ![p][k] = Touch(@, t)]
  PROVE  /\ age' \in [Paths -> [Index -> LruSet]]
         /\ \A q \in Paths, i \in Index :
              age'[q][i] = IF q = p /\ i = k THEN Touch(age[q][i], t) ELSE age[q][i]
<1> DEFINE b == Touch(age[p][k], t)
<1>1. b \in LruSet
  <2>1. age[p][k] \in LruSet
    OBVIOUS
  <2>2. /\ age[p][k] \in [Tags -> 0 .. Assoc] /\ Distinct(Tags, age[p][k])
        /\ b = Touched(Tags, age[p][k], t)
    BY <2>1, TouchIsTouched
  <2>3. b \in [Tags -> 0 .. Assoc] /\ Distinct(Tags, b)
    BY <2>2, TouchedStack
  <2> QED  BY <2>3 DEF LruSet, Distinct
<1>2. age' = [age EXCEPT ![p] = [age[p] EXCEPT ![k] = b]]
  OBVIOUS
<1> HIDE DEF b
<1>3. [age[p] EXCEPT ![k] = b] \in [Index -> LruSet]
  BY <1>1
<1>4. age' \in [Paths -> [Index -> LruSet]]
  BY <1>2, <1>3
<1>5. \A q \in Paths, i \in Index : age'[q][i] = IF q = p /\ i = k THEN b ELSE age[q][i]
  BY <1>2, <1>3
<1> QED  BY <1>4, <1>5 DEF b

\* The sets of the cache of one path change.
LEMMA CacheSetsAfter ==
  ASSUME IInv, NEW p \in Paths, NEW c, c = [i \in Index |-> c[i]],
         cacheSets' = [cacheSets EXCEPT ![p] = c]
  PROVE  /\ cacheSets' = [q \in Paths |-> [i \in Index |-> cacheSets'[q][i]]]
         /\ \A q \in Paths, i \in Index :
              cacheSets'[q][i] = IF q = p THEN c[i] ELSE cacheSets[q][i]
<1>1. cacheSets = [q \in Paths |-> [i \in Index |-> cacheSets[q][i]]]
  BY DEF IInv
<1>2. DOMAIN cacheSets = Paths
  BY <1>1
<1>3. cacheSets' = [q \in Paths |-> IF q = p THEN c ELSE cacheSets[q]]
  BY <1>2
<1>4. \A q \in Paths, i \in Index :
        cacheSets'[q][i] = IF q = p THEN c[i] ELSE cacheSets[q][i]
  BY <1>3
<1>5. \A q \in Paths : cacheSets'[q] = [i \in Index |-> cacheSets'[q][i]]
  <2> TAKE q \in Paths
  <2>1. CASE q = p
    BY <1>3, <2>1
  <2>2. CASE q # p
    <3>1. cacheSets'[q] = cacheSets[q]
      BY <1>3, <2>2
    <3>2. cacheSets[q] = [i \in Index |-> cacheSets[q][i]]
      BY <1>1
    <3> QED  BY <3>1, <3>2
  <2> QED  BY <2>1, <2>2
<1> QED  BY <1>3, <1>4, <1>5

\* An access keeps the invariant, precise or not.
LEMMA UpdateIInv ==
  ASSUME IInv, ~ failed, NEW p \in Paths, NEW itv \in AllIntervals, NEW addr \in itv[1] .. itv[2],
         NEW assumption \in {"UNKNOWN", "HIT", "MISS"}, Update(p, itv, addr, assumption)
  PROVE  IInv'
<1> DEFINE k == IndexOf(addr)
           t == TagOf(addr)
<1>1. k \in Index /\ t \in Tags
  BY AddressFits
<1>2. /\ age' \in [Paths -> [Index -> LruSet]]
      /\ \A q \in Paths, i \in Index :
           age'[q][i] = IF q = p /\ i = k THEN Touch(age[q][i], t) ELSE age[q][i]
  <2>1. age \in [Paths -> [Index -> LruSet]] /\ age' = [age EXCEPT ![p][k] = Touch(@, t)]
    BY DEF IInv, Update
  <2> HIDE DEF k, t
  <2> QED  BY <1>1, <2>1, AgesAfter
<1>3. failed \in BOOLEAN /\ (~ failed => \A q \in Paths, i \in Index : SetOK(age[q][i], cacheSets[q][i]))
  BY DEF IInv
<1>4. CASE IsPrecise(itv)
  <2> DEFINE c == [i \in Index |-> IF i = k THEN UpdateSet(cacheSets[p][i], t, assumption)
                                   ELSE cacheSets[p][i]]
  <2>1. IndexOf(itv[1]) = k /\ TagOf(itv[1]) = t
    <3>1. /\ BlockOf(addr) \in BlockOf(itv[1]) .. BlockOf(itv[2])
          /\ BlockOf(itv[1]) \in Int /\ BlockOf(itv[2]) = BlockOf(itv[1])
      BY <1>4, BlocksFit DEF IsPrecise
    <3>2. BlockOf(addr) = BlockOf(itv[1])
      BY <3>1
    <3> QED  BY <3>2 DEF IndexOf, TagOf
  <2>2. /\ cacheSets' = [cacheSets EXCEPT ![p][k] = UpdateSet(@, t, assumption)]
        /\ failed' = failed
    BY <1>4, <2>1 DEF Update
  <2> HIDE DEF k, t
  <2>3. cacheSets' = [cacheSets EXCEPT ![p] = c] /\ c = [i \in Index |-> c[i]]
    <3>1. cacheSets[p] = [i \in Index |-> cacheSets[p][i]]
      BY DEF IInv
    <3>2. [cacheSets[p] EXCEPT ![k] = UpdateSet(cacheSets[p][k], t, assumption)] = c
      BY <3>1
    <3> QED  BY <2>2, <3>2
  <2>4. /\ cacheSets' = [q \in Paths |-> [i \in Index |-> cacheSets'[q][i]]]
        /\ \A q \in Paths, i \in Index : cacheSets'[q][i] = IF q = p THEN c[i] ELSE cacheSets[q][i]
    <3> HIDE DEF c
    <3> QED  BY <2>3, CacheSetsAfter
  <2>5. ASSUME ~ failed, NEW q \in Paths, NEW i \in Index
        PROVE  SetOK(age'[q][i], cacheSets'[q][i])
    <3>1. SetOK(age[q][i], cacheSets[q][i])
      BY <1>3, <2>5
    <3>2. CASE q = p /\ i = k
      <4>1. assumption = "HIT" => age[q][i][t] < Assoc
        BY <3>2 DEF Update, Cached, k, t
      <4>2. SetOK(Touch(age[q][i], t), UpdateSet(cacheSets[q][i], t, assumption))
        BY <1>1, <3>1, <4>1, SetAccess
      <4>3. age'[q][i] = Touch(age[q][i], t)
        BY <1>2, <3>2
      <4>4. cacheSets'[q][i] = UpdateSet(cacheSets[q][i], t, assumption)
        BY <2>4, <3>2
      <4> QED  BY <4>2, <4>3, <4>4
    <3>3. CASE ~ (q = p /\ i = k)
      <4>1. age'[q][i] = age[q][i]
        BY <1>2, <3>3
      <4>2. cacheSets'[q][i] = cacheSets[q][i]
        BY <2>4, <3>3
      <4> QED  BY <3>1, <4>1, <4>2
    <3> QED  BY <3>2, <3>3
  <2> QED  BY <1>2, <1>3, <2>2, <2>4, <2>5 DEF IInv
<1>5. CASE ~ IsPrecise(itv)
  <2> DEFINE low == TagOf(itv[1])
             high == TagOf(itv[2])
             c == [i \in Index |-> IF i \in UnknownSets(itv)
                                   THEN PotentialUpdateSet(cacheSets[p][i], low, high)
                                   ELSE cacheSets[p][i]]
  <2>1. cacheSets' = [cacheSets EXCEPT ![p] = c] /\ c = [i \in Index |-> c[i]]
        /\ failed' = AssertionFails(itv)
    BY <1>5 DEF Update
  <2>2. /\ cacheSets' = [q \in Paths |-> [i \in Index |-> cacheSets'[q][i]]]
        /\ \A q \in Paths, i \in Index : cacheSets'[q][i] = IF q = p THEN c[i] ELSE cacheSets[q][i]
    <3> HIDE DEF c
    <3> QED  BY <2>1, CacheSetsAfter
  <2>3. ASSUME ~ failed, ~ AssertionFails(itv), NEW q \in Paths, NEW i \in Index
        PROVE  SetOK(age'[q][i], cacheSets'[q][i])
    <3>1. SetOK(age[q][i], cacheSets[q][i])
      BY <1>3, <2>3
    <3>2. k \in UnknownSets(itv) /\ low \in Tags /\ high \in Tags /\ low <= high /\ t \in low .. high
      BY <2>3, ReachedIsUnknown
    <3> HIDE DEF k, t, low, high
    <3>3. CASE q = p /\ i \in UnknownSets(itv)
      <4>1. age'[q][i] = age[q][i] \/ \E u \in Tags \cap low .. high : age'[q][i] = Touch(age[q][i], u)
        BY <1>1, <1>2, <3>2
      <4>2. SetOK(age'[q][i], PotentialUpdateSet(cacheSets[q][i], low, high))
        BY <3>1, <3>2, <4>1, SetPotentialAccess
      <4>3. cacheSets'[q][i] = PotentialUpdateSet(cacheSets[q][i], low, high)
        BY <2>2, <3>3
      <4> QED  BY <4>2, <4>3
    <3>4. CASE ~ (q = p /\ i \in UnknownSets(itv))
      <4>1. age'[q][i] = age[q][i]
        BY <1>2, <3>2, <3>4
      <4>2. cacheSets'[q][i] = cacheSets[q][i]
        BY <2>2, <3>4
      <4> QED  BY <3>1, <4>1, <4>2
    <3> QED  BY <3>3, <3>4
  <2>4. failed' \in BOOLEAN /\ (~ failed' => ~ failed /\ ~ AssertionFails(itv))
    BY <1>3, <2>1 DEF AssertionFails
  <2> QED  BY <1>2, <2>2, <2>3, <2>4 DEF IInv
<1> QED  BY <1>4, <1>5

\* A join keeps the invariant.
LEMMA JoinIInv ==
  ASSUME IInv, NEW p \in Paths, NEW q \in Paths, Join(p, q)
  PROVE  IInv'
<1> DEFINE c == [i \in Index |->
                   [must |-> MustJoin(cacheSets[p][i].must, cacheSets[q][i].must),
                    may |-> MayJoin(cacheSets[p][i].may, cacheSets[q][i].may)]]
<1>1. PICK r \in {p, q} : age' = [age EXCEPT ![p] = age[r]]
  BY DEF Join
<1>2. /\ failed \in BOOLEAN /\ age \in [Paths -> [Index -> LruSet]]
      /\ ~ failed => \A z \in Paths, i \in Index : SetOK(age[z][i], cacheSets[z][i])
  BY DEF IInv
<1>3. /\ age' \in [Paths -> [Index -> LruSet]]
      /\ \A z \in Paths, i \in Index : age'[z][i] = IF z = p THEN age[r][i] ELSE age[z][i]
  BY <1>1, <1>2
<1>4. cacheSets' = [cacheSets EXCEPT ![p] = c] /\ c = [i \in Index |-> c[i]] /\ failed' = failed
  BY DEF Join
<1>5. /\ cacheSets' = [z \in Paths |-> [i \in Index |-> cacheSets'[z][i]]]
      /\ \A z \in Paths, i \in Index : cacheSets'[z][i] = IF z = p THEN c[i] ELSE cacheSets[z][i]
  <2> HIDE DEF c
  <2> QED  BY <1>4, CacheSetsAfter
<1>6. ASSUME ~ failed, NEW z \in Paths, NEW i \in Index
      PROVE  SetOK(age'[z][i], cacheSets'[z][i])
  <2>1. CASE z = p
    <3> DEFINE x == cacheSets[p][i]
               y == cacheSets[q][i]
               new == [must |-> MustJoin(x.must, y.must), may |-> MayJoin(x.may, y.may)]
    <3>1. SetOK(age[p][i], x) /\ SetOK(age[q][i], y)
      BY <1>2, <1>6
    <3>2. Enclosed(Tags, age[p][i], x.must, x.may) /\ Enclosed(Tags, age[q][i], y.must, y.may)
      BY <3>1 DEF SetOK
    <3>3. cacheSets'[z][i] = new
      BY <1>5, <2>1
    <3>4. /\ new.must = MustJoin(x.must, y.must) /\ new.may = MayJoin(x.may, y.may)
          /\ new = [must |-> new.must, may |-> new.may]
      OBVIOUS
    <3> HIDE DEF x, y, new
    <3>5. age'[z][i] \in {age[p][i], age[q][i]}
      BY <1>3, <2>1
    <3>6. Enclosed(Tags, age'[z][i], MustJoin(x.must, y.must), MayJoin(x.may, y.may))
      BY <3>2, <3>5, EnclosedJoin
    <3> QED  BY <3>3, <3>4, <3>6 DEF SetOK
  <2>2. CASE z # p
    <3>1. age'[z][i] = age[z][i]
      BY <1>3, <2>2
    <3>2. cacheSets'[z][i] = cacheSets[z][i]
      BY <1>5, <2>2
    <3> QED  BY <1>2, <1>6, <3>1, <3>2
  <2> QED  BY <2>1, <2>2
<1> QED  BY <1>2, <1>3, <1>4, <1>5, <1>6 DEF IInv

\* Every step keeps the invariant.
LEMMA StepIInv == IInv /\ [Next]_vars => IInv'
<1> SUFFICES ASSUME IInv, [Next]_vars PROVE IInv'
  OBVIOUS
<1>1. CASE UNCHANGED vars
  BY <1>1 DEF vars, IInv
<1>2. CASE Next
  <2>1. CASE Aborted
    BY <2>1 DEF Aborted, vars, IInv
  <2>2. CASE ~ Aborted
    <3>1. ~ failed
      BY <1>2, <2>2 DEF Next
    <3>2. PICK p \in Paths :
            \/ \E itv \in Intervals, assumption \in {"UNKNOWN", "HIT", "MISS"} :
                 \E addr \in itv[1] .. itv[2] : Update(p, itv, addr, assumption)
            \/ \E q \in Paths : Join(p, q)
      BY <1>2, <2>2 DEF Next
    <3>3. ASSUME NEW itv \in Intervals, NEW assumption \in {"UNKNOWN", "HIT", "MISS"},
                 NEW addr \in itv[1] .. itv[2], Update(p, itv, addr, assumption)
          PROVE  IInv'
      <4>1. itv \in AllIntervals
        BY IntervalsAssumption
      <4> QED  BY <3>1, <3>3, <4>1, UpdateIInv
    <3>4. ASSUME NEW q \in Paths, Join(p, q) PROVE IInv'
      BY <3>4, JoinIInv
    <3> QED  BY <3>2, <3>3, <3>4
  <2> QED  BY <2>1, <2>2
<1> QED  BY <1>1, <1>2

-----------------------------------------------------------------------------
\* What the run checks.

\* The analyses of every set describe it, in every state before the assertion fails.
THEOREM AlwaysIInv == Spec => []IInv
<1> QED  BY InitIInv, StepIInv, PTL DEF Spec

\* An interval is classified as its lines are.
LEMMA ClassifiedLines ==
  ASSUME IInv, ~ failed, NEW p \in Paths, NEW itv \in AllIntervals, Classify(p, itv) # "UNKNOWN",
         NEW addr \in itv[1] .. itv[2]
  PROVE  /\ Classify(p, itv) = "HIT" => Cached(p, addr)
         /\ Classify(p, itv) = "MISS" => ~ Cached(p, addr)
<1> DEFINE of(b) == ClassifyInSet(cacheSets[p][b % N_SETS], b \div N_SETS)
           found == {of(b) : b \in BlockOf(itv[1]) .. BlockOf(itv[2])}
           k == IndexOf(addr)
           t == TagOf(addr)
           set == cacheSets[p][k]
<1>1. k \in Index /\ t \in Tags
  BY AddressFits
<1>2. \A b \in BlockOf(itv[1]) .. BlockOf(itv[2]) : of(b) \in {"HIT", "MISS", "UNKNOWN"}
  <2> TAKE b \in BlockOf(itv[1]) .. BlockOf(itv[2])
  <2>1. b % N_SETS \in Index /\ b \div N_SETS \in Tags
    <3>1. b \in Lines
      BY BlocksFit
    <3> QED  BY <3>1, LinesFit
  <2>2. SetOK(age[p][b % N_SETS], cacheSets[p][b % N_SETS])
    BY <2>1 DEF IInv
  <2> QED  BY <2>1, <2>2, ClassifiedSet
<1>3. ClassifyInSet(set, t) \in found
  <2>1. BlockOf(addr) \in BlockOf(itv[1]) .. BlockOf(itv[2])
    BY BlocksFit
  <2>2. ClassifyInSet(set, t) = of(BlockOf(addr))
    BY DEF IndexOf, TagOf
  <2> HIDE DEF of, set, k, t
  <2> QED  BY <2>1, <2>2
<1>4. IsFiniteSet(found)
  <2>1. found \subseteq {"HIT", "MISS", "UNKNOWN"}
    BY <1>2
  <2>2. IsFiniteSet({"HIT", "MISS", "UNKNOWN"})
    <3>1. IsFiniteSet({"HIT"})
      BY FS_Singleton
    <3>2. IsFiniteSet({"HIT"} \cup {"MISS"})
      BY <3>1, FS_AddElement
    <3>3. IsFiniteSet({"HIT"} \cup {"MISS"} \cup {"UNKNOWN"})
      BY <3>2, FS_AddElement
    <3>4. {"HIT", "MISS", "UNKNOWN"} = {"HIT"} \cup {"MISS"} \cup {"UNKNOWN"}
      OBVIOUS
    <3> QED  BY <3>3, <3>4
  <2> HIDE DEF found
  <2> QED  BY <2>1, <2>2, FS_Subset
<1>5. Classify(p, itv) = ClassifyInSet(set, t)
  <2>1. Cardinality(found) = 1 /\ Classify(p, itv) = CHOOSE cl \in found : TRUE
    BY DEF Classify
  <2> HIDE DEF found
  <2>2. PICK x : found = {x}
    BY <1>4, <2>1, FS_Singleton
  <2> QED  BY <1>3, <2>1, <2>2
<1>6. SetOK(age[p][k], set)
  BY <1>1 DEF IInv
<1> HIDE DEF set
<1>7. /\ ClassifyInSet(set, t) = "HIT" => age[p][k][t] < Assoc
      /\ ClassifyInSet(set, t) = "MISS" => ~ (age[p][k][t] < Assoc)
  BY <1>1, <1>6, ClassifiedSet
<1> QED  BY <1>5, <1>7 DEF Cached

\* What classify() says of an interval is true of each of its lines, for every geometry of the
\* cache, until the assertion of update() aborts the program.
THEOREM ClassificationIsSound == Spec => []ClassificationSound
<1>1. IInv => ClassificationSound
  <2> SUFFICES ASSUME IInv, ~ failed PROVE HitIsCached /\ MissIsNotCached
    BY DEF ClassificationSound
  <2>1. HitIsCached
    <3> SUFFICES ASSUME NEW p \in Paths, NEW itv \in Intervals, Classify(p, itv) = "HIT",
                        NEW addr \in itv[1] .. itv[2]
                 PROVE  Cached(p, addr)
      BY DEF HitIsCached
    <3> QED  BY ClassifiedLines, IntervalsAssumption
  <2>2. MissIsNotCached
    <3> SUFFICES ASSUME NEW p \in Paths, NEW itv \in Intervals, Classify(p, itv) = "MISS",
                        NEW addr \in itv[1] .. itv[2]
                 PROVE  ~ Cached(p, addr)
      BY DEF MissIsNotCached
    <3> QED  BY ClassifiedLines, IntervalsAssumption
  <2> QED  BY <2>1, <2>2
<1> QED  BY <1>1, AlwaysIInv, PTL

-----------------------------------------------------------------------------
\* When the assertion fails.

\* An interval of several lines makes update() fail exactly if it is shorter than the cache and
\* ends in the line that lies a cache's number of sets behind the one it begins in: both ends
\* are in one set then, and in between is every other one.
THEOREM AssertionFailsExactly ==
  ASSUME NEW itv \in AllIntervals, ~ IsPrecise(itv)
  PROVE  AssertionFails(itv) <=>
           /\ N_SETS # 1 /\ itv[2] + 1 - itv[1] < N_SETS * LINE_SIZE
           /\ BlockOf(itv[2]) = BlockOf(itv[1]) + N_SETS
<1> DEFINE a == BlockOf(itv[1])
           b == BlockOf(itv[2])
           q == a \div N_SETS
           r == b \div N_SETS
           m == a % N_SETS
<1>1. N_SETS \in Nat \ {0} /\ LINE_SIZE \in Nat \ {0} /\ N_SETS * LINE_SIZE \in Int
  BY Geometry
<1>2. itv[1] \in Int /\ itv[2] \in Int /\ itv[1] <= itv[2] /\ a \in Int /\ b \in Int
  BY BlocksFit
<1>3. a < b
  <2>1. a <= b
    BY <1>1, <1>2, DivisionIsMonotone DEF BlockOf
  <2>2. a # b
    BY DEF IsPrecise
  <2> HIDE DEF a, b
  <2> QED  BY <1>2, <2>1, <2>2
<1>4. CASE itv[2] + 1 - itv[1] >= N_SETS * LINE_SIZE
  <2>1. CacheSetInterval(itv) = <<0, N_SETS - 1>>
    BY <1>4 DEF CacheSetInterval
  <2>2. ~ AssertionFails(itv)
    BY <1>1, <2>1 DEF AssertionFails
  <2> QED  BY <1>1, <1>2, <1>4, <2>2
<1>5. CASE itv[2] + 1 - itv[1] < N_SETS * LINE_SIZE
  <2>1. ~ (itv[2] + 1 - itv[1] >= N_SETS * LINE_SIZE)
    BY <1>1, <1>2, <1>5
  <2>2. CacheSetInterval(itv) = <<a % N_SETS, b % N_SETS>>
    BY <2>1 DEF CacheSetInterval, IndexOf
  <2>3. AssertionFails(itv) <=> N_SETS # 1 /\ m = b % N_SETS
    BY <2>2 DEF AssertionFails
  <2>4. b <= a + N_SETS
    BY <1>1, <1>2, <1>5, DivisionOfDifference DEF BlockOf
  <2>5. /\ q \in Int /\ m \in 0 .. N_SETS - 1 /\ a = N_SETS * q + m
        /\ r \in Int /\ b % N_SETS \in 0 .. N_SETS - 1 /\ b = N_SETS * r + (b % N_SETS)
    <3> HIDE DEF a, b
    <3> QED  BY <1>1, <1>2, Division
  <2>6. ASSUME m = b % N_SETS PROVE b = a + N_SETS
    <3> HIDE DEF a, b, q, r, m
    <3>1. m \in Int /\ b = N_SETS * r + m
      BY <1>1, <2>5, <2>6
    <3>2. q < r
      <4> SUFFICES ASSUME r <= q PROVE FALSE
        BY <2>5
      <4>1. N_SETS * r <= N_SETS * q
        BY <1>1, <2>5
      <4> QED  BY <1>1, <1>2, <1>3, <2>5, <3>1, <4>1
    <3>3. N_SETS * (q + 1) <= N_SETS * r /\ N_SETS * (q + 1) = N_SETS * q + N_SETS
      BY <1>1, <2>5, <3>2
    <3> QED  BY <1>1, <1>2, <2>4, <2>5, <3>1, <3>3
  <2>7. ASSUME b = a + N_SETS PROVE m = b % N_SETS
    <3> HIDE DEF a, b, q, r, m
    <3>1. q + 1 \in Int /\ N_SETS * (q + 1) = N_SETS * q + N_SETS
      BY <1>1, <2>5
    <3>2. b = N_SETS * (q + 1) + m
      BY <1>1, <1>2, <2>5, <2>7, <3>1
    <3>3. (N_SETS * (q + 1) + m) % N_SETS = m
      BY <1>1, <2>5, <3>1, DivisionIsUnique
    <3> QED  BY <3>2, <3>3
  <2> QED  BY <1>5, <2>3, <2>6, <2>7
<1> QED  BY <1>1, <1>2, <1>4, <1>5

\* "Could have performed precise update" holds whatever the program accesses if and only if
\* lines have one or two words, there is one set, or memory is no larger than the cache.
THEOREM AssertionHoldsForShortLinesOnly ==
  (\A itv \in AllIntervals : ~ IsPrecise(itv) => ~ AssertionFails(itv)) <=>
    LINE_SIZE <= 2 \/ N_SETS = 1 \/ Max(Tags) = 0
<1>1. /\ N_SETS \in Nat \ {0} /\ LINE_SIZE \in Nat \ {0} /\ N_SETS * LINE_SIZE \in Nat
      /\ Max(Tags) \in Nat
  BY Geometry
<1>2. ASSUME NEW itv \in AllIntervals, ~ IsPrecise(itv), AssertionFails(itv)
      PROVE  ~ (LINE_SIZE <= 2 \/ N_SETS = 1 \/ Max(Tags) = 0)
  <2> DEFINE a == BlockOf(itv[1])
             b == BlockOf(itv[2])
  <2>1. /\ N_SETS # 1 /\ itv[2] + 1 - itv[1] < N_SETS * LINE_SIZE
        /\ b = a + N_SETS
    BY <1>2, AssertionFailsExactly
  <2>2. /\ itv[1] \in Int /\ itv[2] \in Int /\ a \in Int /\ b \in Int /\ itv[1] <= itv[2]
        /\ a .. b \subseteq Lines
    BY BlocksFit
  <2>3. LINE_SIZE > 2
    <3>1. itv[2] >= LINE_SIZE * b /\ itv[1] <= LINE_SIZE * a + LINE_SIZE - 1
      <4>1. itv[2] % LINE_SIZE \in 0 .. LINE_SIZE - 1 /\ itv[2] = LINE_SIZE * b + (itv[2] % LINE_SIZE)
        BY <1>1, <2>2, Division DEF BlockOf
      <4>2. itv[1] % LINE_SIZE \in 0 .. LINE_SIZE - 1 /\ itv[1] = LINE_SIZE * a + (itv[1] % LINE_SIZE)
        BY <1>1, <2>2, Division DEF BlockOf
      <4>3. LINE_SIZE * a \in Int /\ LINE_SIZE * b \in Int
        BY <1>1, <2>2
      <4> HIDE DEF a, b
      <4> QED  BY <1>1, <2>2, <4>1, <4>2, <4>3
    <3> HIDE DEF a, b
    <3>2. LINE_SIZE * b = LINE_SIZE * a + N_SETS * LINE_SIZE
      <4>1. LINE_SIZE * (a + N_SETS) = LINE_SIZE * a + N_SETS * LINE_SIZE
        BY <1>1, <2>2
      <4> QED  BY <2>1, <4>1
    <3>3. LINE_SIZE * a \in Int /\ LINE_SIZE * b \in Int
      BY <1>1, <2>2
    <3> QED  BY <1>1, <2>1, <2>2, <3>1, <3>2, <3>3
  <2>4. Max(Tags) # 0
    <3> SUFFICES ASSUME Max(Tags) = 0 PROVE FALSE
      OBVIOUS
    <3>1. Lines = 0 .. N_SETS - 1
      BY <1>1 DEF Lines
    <3> HIDE DEF a, b
    <3>2. a \in Lines /\ b \in Lines
      BY <1>1, <2>1, <2>2
    <3> QED  BY <1>1, <2>1, <2>2, <3>1, <3>2
  <2> QED  BY <1>1, <2>1, <2>3, <2>4
<1>3. ASSUME LINE_SIZE > 2, N_SETS # 1, Max(Tags) # 0
      PROVE  \E itv \in AllIntervals : ~ IsPrecise(itv) /\ AssertionFails(itv)
  <2> DEFINE size == N_SETS * LINE_SIZE
             itv == <<LINE_SIZE - 1, size>>
  <2>1. itv \in AllIntervals
    <3>1. (Max(Tags) + 1) * N_SETS * LINE_SIZE \in Int /\ (Max(Tags) + 1) * N_SETS * LINE_SIZE >= 2 * size
      <4>1. (Max(Tags) + 1) * N_SETS * LINE_SIZE = (Max(Tags) + 1) * size
        BY <1>1
      <4> HIDE DEF size
      <4>2. size \in Nat /\ Max(Tags) + 1 \in Nat /\ Max(Tags) + 1 >= 2
        BY <1>1, <1>3 DEF size
      <4>3. (Max(Tags) + 1) * size \in Int /\ (Max(Tags) + 1) * size >= 2 * size
        BY <4>2
      <4> QED  BY <4>1, <4>3
    <3>2. size \in Nat /\ size >= LINE_SIZE
      BY <1>1
    <3> HIDE DEF size
    <3>3. LINE_SIZE - 1 \in Addresses /\ size \in Addresses
      BY <1>1, <1>3, <3>1, <3>2 DEF Addresses
    <3> QED  BY <1>1, <3>2, <3>3 DEF AllIntervals
  <2>2. BlockOf(itv[1]) = 0 /\ BlockOf(itv[2]) = N_SETS
    <3>1. (LINE_SIZE * 0 + (LINE_SIZE - 1)) \div LINE_SIZE = 0
      <4>1. LINE_SIZE - 1 \in 0 .. LINE_SIZE - 1
        BY <1>1
      <4> QED  BY <1>1, <4>1, DivisionIsUnique
    <3>2. (LINE_SIZE * N_SETS + 0) \div LINE_SIZE = N_SETS
      <4>1. 0 \in 0 .. LINE_SIZE - 1
        BY <1>1
      <4> QED  BY <1>1, <4>1, DivisionIsUnique
    <3>3. LINE_SIZE * 0 + (LINE_SIZE - 1) = LINE_SIZE - 1 /\ LINE_SIZE * N_SETS + 0 = size
      BY <1>1
    <3> QED  BY <3>1, <3>2, <3>3 DEF BlockOf
  <2>3. ~ IsPrecise(itv)
    BY <1>1, <2>2 DEF IsPrecise
  <2>4. itv[2] + 1 - itv[1] < N_SETS * LINE_SIZE
    <3>1. itv[2] = size /\ itv[1] = LINE_SIZE - 1
      OBVIOUS
    <3> HIDE DEF itv
    <3> QED  BY <1>1, <1>3, <3>1
  <2> HIDE DEF itv
  <2>5. BlockOf(itv[2]) = BlockOf(itv[1]) + N_SETS
    BY <1>1, <2>2
  <2>6. AssertionFails(itv)
    BY <1>3, <2>1, <2>3, <2>4, <2>5, AssertionFailsExactly
  <2> QED  BY <2>1, <2>3, <2>6
<1>4. LINE_SIZE > 2 <=> ~ (LINE_SIZE <= 2)
  BY <1>1
<1> QED  BY <1>2, <1>3, <1>4
=============================================================================
