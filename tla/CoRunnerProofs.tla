---------------------------- MODULE CoRunnerProofs ----------------------------
(***************************************************************************)
(* For any cores, programs, periods and options: the bounds of the co-     *)
(* runner sensitive analyses only ever move in the direction of the        *)
(* iteration, and they are a fixed point when all analyses are done.       *)
(*                                                                         *)
(* The first half is about the data: the longest run grows with the        *)
(* blocking it is allowed, the arrival curves grow with the window, and    *)
(* the blocking grows with what the others may use of the bus.  The second *)
(* half is about the rounds: analyses that run at their own speed never    *)
(* read a line of another round.                                           *)
(***************************************************************************)
EXTENDS CoRunnerExecution, FiniteSums

-----------------------------------------------------------------------------
(* Division *)

\* A number, its quotient and its remainder.
LEMMA Division ==
  ASSUME NEW n \in Nat, NEW d \in Nat \ {0}
  PROVE  /\ n \div d \in Nat /\ n % d \in 0 .. d - 1
         /\ n = d * (n \div d) + (n % d)
  OBVIOUS

\* A quotient that is rounded up.
LEMMA CeilDivBounds ==
  ASSUME NEW n \in Nat, NEW d \in Nat \ {0}
  PROVE  /\ CeilDiv(n, d) \in Nat
         /\ d * CeilDiv(n, d) >= n
         /\ d * CeilDiv(n, d) <= n + d - 1
<1>1. n + d - 1 \in Nat
  OBVIOUS
<1>2. CeilDiv(n, d) \in Nat /\ (n + d - 1) % d \in 0 .. d - 1
      /\ n + d - 1 = d * CeilDiv(n, d) + ((n + d - 1) % d)
  BY <1>1, Division DEF CeilDiv
<1> DEFINE x == d * CeilDiv(n, d)
           r == (n + d - 1) % d
<1>3. x \in Int /\ r \in 0 .. d - 1 /\ n + d - 1 = x + r
  BY <1>2
<1> HIDE DEF x, r
<1>4. x >= n /\ x <= n + d - 1
  BY <1>3
<1> QED  BY <1>2, <1>4, Zenon DEF x

\* The quotient is the least number that is large enough.
LEMMA CeilDivIsLeast ==
  ASSUME NEW n \in Nat, NEW d \in Nat \ {0}, NEW q \in Nat, n <= d * q
  PROVE  CeilDiv(n, d) <= q
<1> DEFINE x == CeilDiv(n, d)
<1>1. x \in Nat /\ d * x <= n + d - 1
  BY CeilDivBounds
<1> HIDE DEF x
<1>2. ASSUME q + 1 <= x PROVE FALSE
  <2>1. d * (q + 1) <= d * x /\ d * (q + 1) = d * q + d
    BY <1>1, <1>2
  <2>2. d * q \in Int /\ d * x \in Int
    BY <1>1
  <2> QED  BY <1>1, <2>1, <2>2
<1>3. x <= q
  BY <1>1, <1>2
<1> QED  BY <1>3 DEF x

-----------------------------------------------------------------------------
(* Weights *)

WeightOK(x) ==
  /\ x.lbBlocking <= x.ubTime
  /\ BusLatency * x.lbConcAccesses <= x.ubTime
  /\ x.lbBlocking + x.ubBlockedCycleLoop <= MaxBlockingPerAccess * x.ubAccesses
  /\ x.lbConcAccesses <= NumConcurrentCores * x.ubAccesses
Undisturbed(x) == x.lbBlocking = 0 /\ x.lbConcAccesses = 0

EdgeType ==
  [from : Nat, to : Nat, ubTime : Nat, lbTime : Nat, lbBlocking : Nat, lbConcAccesses : Nat,
   ubAccesses : Nat, ubAccessCycles : Nat, ubBlockedCycleLoop : Nat]
EdgeFromTo(b, from, to) == b \in EdgeType /\ b.from = from /\ b.to = to /\ WeightOK(b)

\* What the assumptions say of the cores and of the bus.
LEMMA CoresBasics ==
  /\ NumConcurrentCores \in Nat \ {0} /\ MaxBlockingPerAccess \in Nat
  /\ BusLatency \in Nat \ {0} /\ MaxBlockingPerAccess = NumConcurrentCores * BusLatency
  /\ \A c \in Cores : IsFiniteSet(Conc(c)) /\ Cardinality(Conc(c)) = NumConcurrentCores
<1>1. /\ IsFiniteSet(Cores) /\ Cardinality(Cores) \in Nat /\ Cardinality(Cores) >= 2
      /\ BusLatency \in Nat \ {0}
  BY PathAssumption, FS_CardinalityType
<1>2. NumConcurrentCores \in Nat \ {0}
  BY <1>1 DEF NumConcurrentCores
<1>3. MaxBlockingPerAccess \in Nat
  BY <1>1, <1>2 DEF MaxBlockingPerAccess
<1>4. ASSUME NEW c \in Cores
      PROVE  IsFiniteSet(Conc(c)) /\ Cardinality(Conc(c)) = NumConcurrentCores
  BY <1>1, FS_RemoveElement DEF Conc, NumConcurrentCores
<1> QED  BY <1>1, <1>2, <1>3, <1>4 DEF MaxBlockingPerAccess

\* What they say of the edges of the programs.
LEMMA EdgeBasics ==
  ASSUME NEW c \in Cores, NEW e \in Program[c]
  PROVE  /\ e.from \in Nat /\ e.to \in Nat /\ e.lo \in Nat /\ e.hi \in Nat
         /\ e.kind \in {"compute", "access", "forwarded"}
         /\ e.kind # "compute" => e.lo = BusLatency /\ e.hi = BusLatency
  BY PathAssumption

\* The edge of an access that is blocked for k cycles carries no more blocking and no
\* more concurrent accesses than its time holds.
LEMMA BlockedForOK ==
  ASSUME NEW c \in Cores, NEW e \in Program[c], e.kind # "compute",
         NEW k \in 0 .. MaxBlockingPerAccess
  PROVE  /\ EdgeFromTo(BlockedFor(e, k), e.from, e.to)
         /\ k = 0 => Undisturbed(BlockedFor(e, k))
<1> DEFINE q == CeilDiv(k, BusLatency)
<1>1. k \in Nat /\ BusLatency \in Nat \ {0} /\ NumConcurrentCores \in Nat /\ MaxBlockingPerAccess \in Nat
      /\ k <= BusLatency * NumConcurrentCores
  BY CoresBasics
<1>2. q \in Nat /\ BusLatency * q <= k + BusLatency - 1
  BY <1>1, CeilDivBounds
<1>3. q <= NumConcurrentCores
  BY <1>1, CeilDivIsLeast
<1>4. k = 0 => q = 0
  <2> SUFFICES ASSUME k = 0 PROVE q = 0
    OBVIOUS
  <2>1. 0 <= BusLatency * 0
    BY <1>1
  <2>2. q <= 0
    BY <1>1, <2>1, CeilDivIsLeast
  <2> QED  BY <1>2, <2>2
<1>5. e.from \in Nat /\ e.to \in Nat /\ e.lo = BusLatency /\ e.hi = BusLatency
  BY EdgeBasics
<1>6. BlockedFor(e, k) = [from |-> e.from, to |-> e.to, ubTime |-> BusLatency + k, lbTime |-> BusLatency + k,
                          lbBlocking |-> k, lbConcAccesses |-> q, ubAccesses |-> 1,
                          ubAccessCycles |-> BusLatency, ubBlockedCycleLoop |-> 0]
  BY <1>5 DEF BlockedFor
<1> HIDE DEF q
<1>7. BlockedFor(e, k) \in EdgeType
  BY <1>1, <1>2, <1>5, <1>6 DEF EdgeType
<1>8. WeightOK(BlockedFor(e, k))
  <2>1. k <= BusLatency + k
    BY <1>1
  <2>2. BusLatency * q <= BusLatency + k
    BY <1>1, <1>2
  <2>3. k + 0 <= MaxBlockingPerAccess * 1
    BY <1>1
  <2>4. q <= NumConcurrentCores * 1
    BY <1>1, <1>2, <1>3
  <2> QED  BY <1>6, <2>1, <2>2, <2>3, <2>4 DEF WeightOK
<1> QED  BY <1>4, <1>6, <1>7, <1>8 DEF EdgeFromTo, Undisturbed

\* The edges an edge of the program is split into, one of which knows no interference.
LEMMA SplitOK ==
  ASSUME NEW c \in Cores, NEW e \in Program[c]
  PROVE  /\ IsFiniteSet(Split(e))
         /\ \A b \in Split(e) : EdgeFromTo(b, e.from, e.to)
         /\ \E b \in Split(e) : Undisturbed(b)
<1>1. e.from \in Nat /\ e.to \in Nat /\ e.lo \in Nat /\ e.hi \in Nat
  BY EdgeBasics
<1>2. CASE e.kind = "compute"
  <2> DEFINE b == [from |-> e.from, to |-> e.to, ubTime |-> e.hi, lbTime |-> e.lo, lbBlocking |-> 0,
                   lbConcAccesses |-> 0, ubAccesses |-> 0, ubAccessCycles |-> 0, ubBlockedCycleLoop |-> 0]
  <2>1. Split(e) = {b}
    BY <1>2 DEF Split, Computation
  <2>2. b \in EdgeType
    BY <1>1 DEF EdgeType
  <2>3. WeightOK(b) /\ Undisturbed(b)
    BY <1>1, CoresBasics DEF WeightOK, Undisturbed
  <2>4. EdgeFromTo(b, e.from, e.to)
    BY <2>2, <2>3 DEF EdgeFromTo
  <2> HIDE DEF b
  <2> QED  BY <2>1, <2>3, <2>4, FS_Singleton
<1>3. CASE e.kind = "forwarded"
  <2> DEFINE a == BlockedFor(e, 0)
             b == [a EXCEPT !.ubBlockedCycleLoop = MaxBlockingPerAccess]
  <2>1. MaxBlockingPerAccess \in Nat /\ 0 \in 0 .. MaxBlockingPerAccess
    BY CoresBasics
  <2>2. Split(e) = {b}
    BY <1>3 DEF Split, FastForwarded
  <2>3. EdgeFromTo(a, e.from, e.to) /\ Undisturbed(a)
    BY <1>3, <2>1, BlockedForOK
  <2>4. a.ubAccesses = 1
    BY DEF BlockedFor
  <2> HIDE DEF a
  <2>5. b \in EdgeType /\ b.from = e.from /\ b.to = e.to
    BY <2>1, <2>3 DEF EdgeFromTo, EdgeType
  <2>6. Undisturbed(b)
    BY <2>3 DEF EdgeFromTo, EdgeType, Undisturbed
  <2>7. WeightOK(b)
    <3>1. b.ubBlockedCycleLoop = MaxBlockingPerAccess /\ b.ubAccesses = 1 /\ b.lbBlocking = 0
          /\ b.lbConcAccesses = 0 /\ b.ubTime = a.ubTime /\ a.ubTime \in Nat
      BY <2>3, <2>4 DEF EdgeFromTo, EdgeType, Undisturbed
    <3> HIDE DEF b
    <3> QED  BY <2>1, <3>1, CoresBasics DEF WeightOK
  <2>8. EdgeFromTo(b, e.from, e.to)
    BY <2>5, <2>7 DEF EdgeFromTo
  <2> HIDE DEF b
  <2> QED  BY <2>2, <2>6, <2>8, FS_Singleton
<1>4. CASE e.kind # "compute" /\ e.kind # "forwarded"
  <2> DEFINE f == [k \in 0 .. MaxBlockingPerAccess |-> BlockedFor(e, k)]
  <2>1. MaxBlockingPerAccess \in Nat /\ 0 \in 0 .. MaxBlockingPerAccess
    BY CoresBasics
  <2>2. Split(e) = {BlockedFor(e, k) : k \in 0 .. MaxBlockingPerAccess}
    BY <1>4 DEF Split
  <2>3. \A b \in Split(e) : \E k \in 0 .. MaxBlockingPerAccess : b = f[k]
    BY <2>2
  <2>4. IsFiniteSet(0 .. MaxBlockingPerAccess)
    BY <2>1, FS_Interval
  <2> HIDE DEF f
  <2>5. IsFiniteSet(Split(e))
    BY <2>3, <2>4, FiniteImage
  <2>6. \A k \in 0 .. MaxBlockingPerAccess : /\ EdgeFromTo(BlockedFor(e, k), e.from, e.to)
                                             /\ k = 0 => Undisturbed(BlockedFor(e, k))
    BY <1>4, BlockedForOK
  <2> QED  BY <2>1, <2>2, <2>5, <2>6
<1> QED  BY <1>2, <1>3, <1>4

-----------------------------------------------------------------------------
(* Weights of joined edges, and the graphs *)

\* The extremes of one weight of a set of edges.
LEMMA WeightExtremes ==
  ASSUME NEW E, IsFiniteSet(E), E # {}, NEW w, \A x \in E : w[x] \in Nat
  PROVE  /\ Max({w[x] : x \in E}) \in Nat /\ \A x \in E : w[x] <= Max({w[y] : y \in E})
         /\ Min({w[x] : x \in E}) \in Nat /\ \A x \in E : Min({w[y] : y \in E}) <= w[x]
<1> DEFINE W == {w[x] : x \in E}
<1>1. W \in SUBSET Int /\ W # {} /\ W \subseteq Nat
  OBVIOUS
<1>2. \A y \in W : \E x \in E : y = w[x]
  OBVIOUS
<1>3. \A x \in E : w[x] \in W
  OBVIOUS
<1> HIDE DEF W
<1>4. IsFiniteSet(W)
  BY <1>2, FiniteImage
<1>5. /\ Max(W) \in W /\ \A x \in W : x <= Max(W)
      /\ Min(W) \in W /\ \A x \in W : Min(W) <= x
  BY <1>1, <1>4, MaxMin
<1>6. /\ Max(W) \in Nat /\ \A x \in E : w[x] <= Max(W)
      /\ Min(W) \in Nat /\ \A x \in E : Min(W) <= w[x]
  BY <1>1, <1>3, <1>5
<1> QED  BY <1>6 DEF W

\* Joining weights keeps each relation between them: maxima stand on the side of the
\* upper bounds, minima on that of the lower bounds.
LEMMA JoinedEdge ==
  ASSUME NEW E, IsFiniteSet(E), E # {}, NEW from, NEW to, \A b \in E : EdgeFromTo(b, from, to)
  PROVE  /\ EdgeFromTo(JoinEdges(E), from, to)
         /\ (\E b \in E : Undisturbed(b)) => Undisturbed(JoinEdges(E))
<1> DEFINE any == CHOOSE b \in E : TRUE
           j == JoinEdges(E)
           ut == [x \in E |-> x.ubTime]
           lt == [x \in E |-> x.lbTime]
           lb == [x \in E |-> x.lbBlocking]
           lc == [x \in E |-> x.lbConcAccesses]
           ua == [x \in E |-> x.ubAccesses]
           uc == [x \in E |-> x.ubAccessCycles]
           ul == [x \in E |-> x.ubBlockedCycleLoop]
           MaxOf(w) == Max({w[x] : x \in E})
           MinOf(w) == Min({w[x] : x \in E})
<1>1. any \in E
  OBVIOUS
<1>2. \A b \in E : b \in EdgeType /\ b.from = from /\ b.to = to /\ WeightOK(b)
  BY DEF EdgeFromTo
<1>3. \A x \in E : /\ ut[x] = x.ubTime /\ lt[x] = x.lbTime /\ lb[x] = x.lbBlocking
                   /\ lc[x] = x.lbConcAccesses /\ ua[x] = x.ubAccesses
                   /\ uc[x] = x.ubAccessCycles /\ ul[x] = x.ubBlockedCycleLoop
  OBVIOUS
<1>4. \A x \in E : /\ ut[x] \in Nat /\ lt[x] \in Nat /\ lb[x] \in Nat /\ lc[x] \in Nat
                   /\ ua[x] \in Nat /\ uc[x] \in Nat /\ ul[x] \in Nat
  BY <1>2, <1>3 DEF EdgeType
<1>5. j = [from |-> any.from, to |-> any.to, ubTime |-> MaxOf(ut), lbTime |-> MinOf(lt),
           lbBlocking |-> MinOf(lb), lbConcAccesses |-> MinOf(lc), ubAccesses |-> MaxOf(ua),
           ubAccessCycles |-> MaxOf(uc), ubBlockedCycleLoop |-> MaxOf(ul)]
  BY DEF JoinEdges
<1>6. any.from = from /\ any.to = to /\ from \in Nat /\ to \in Nat
  BY <1>1, <1>2 DEF EdgeType
<1> HIDE DEF any, ut, lt, lb, lc, ua, uc, ul
<1>7. /\ MaxOf(ut) \in Nat /\ MaxOf(ua) \in Nat /\ MaxOf(uc) \in Nat /\ MaxOf(ul) \in Nat
      /\ MinOf(lt) \in Nat /\ MinOf(lb) \in Nat /\ MinOf(lc) \in Nat
  BY <1>4, WeightExtremes
<1>8. ASSUME NEW x \in E
      PROVE  /\ x.ubTime <= MaxOf(ut) /\ x.ubAccesses <= MaxOf(ua)
             /\ MinOf(lb) <= x.lbBlocking /\ MinOf(lc) <= x.lbConcAccesses
  <2>1. ut[x] <= MaxOf(ut)
    BY <1>4, WeightExtremes
  <2>2. ua[x] <= MaxOf(ua)
    BY <1>4, WeightExtremes
  <2>3. MinOf(lb) <= lb[x]
    BY <1>4, WeightExtremes
  <2>4. MinOf(lc) <= lc[x]
    BY <1>4, WeightExtremes
  <2> HIDE DEF MaxOf, MinOf
  <2> QED  BY <1>3, <2>1, <2>2, <2>3, <2>4
<1>9. PICK y \in E : y.ubBlockedCycleLoop = MaxOf(ul)
  <2> DEFINE W == {ul[x] : x \in E}
  <2>1. W \in SUBSET Int /\ W # {}
    BY <1>4
  <2>2. \A v \in W : \E x \in E : v = ul[x]
    OBVIOUS
  <2> HIDE DEF W
  <2>3. IsFiniteSet(W)
    BY <2>2, FiniteImage
  <2>4. Max(W) \in W
    BY <2>1, <2>3, MaxMin
  <2>5. PICK y \in E : Max(W) = ul[y]
    BY <2>2, <2>4
  <2> QED  BY <1>3, <2>5 DEF W
<1> HIDE DEF MaxOf, MinOf
<1>10. j \in EdgeType /\ j.from = from /\ j.to = to
  BY <1>5, <1>6, <1>7 DEF EdgeType
<1>11. /\ j.ubTime = MaxOf(ut) /\ j.lbBlocking = MinOf(lb) /\ j.lbConcAccesses = MinOf(lc)
       /\ j.ubAccesses = MaxOf(ua) /\ j.ubBlockedCycleLoop = MaxOf(ul)
  BY <1>5
<1> HIDE DEF j
<1>12. WeightOK(j)
  <2>1. /\ y.ubTime \in Nat /\ y.lbBlocking \in Nat /\ y.lbConcAccesses \in Nat /\ y.ubAccesses \in Nat
        /\ y.ubBlockedCycleLoop \in Nat
    BY <1>2, <1>9 DEF EdgeType
  <2>2. /\ y.lbBlocking <= y.ubTime
        /\ BusLatency * y.lbConcAccesses <= y.ubTime
        /\ y.lbBlocking + y.ubBlockedCycleLoop <= MaxBlockingPerAccess * y.ubAccesses
        /\ y.lbConcAccesses <= NumConcurrentCores * y.ubAccesses
    BY <1>2, <1>9 DEF WeightOK
  <2>3. /\ y.ubTime <= MaxOf(ut) /\ y.ubAccesses <= MaxOf(ua)
        /\ MinOf(lb) <= y.lbBlocking /\ MinOf(lc) <= y.lbConcAccesses
    BY <1>8, <1>9
  <2>4. MaxBlockingPerAccess \in Nat /\ NumConcurrentCores \in Nat /\ BusLatency \in Nat
    BY CoresBasics
  <2>5. MinOf(lb) <= MaxOf(ut)
    BY <1>7, <2>1, <2>2, <2>3
  <2>6. BusLatency * MinOf(lc) <= MaxOf(ut)
    <3>1. BusLatency * MinOf(lc) <= BusLatency * y.lbConcAccesses
      BY <1>7, <2>1, <2>3, <2>4
    <3>2. BusLatency * MinOf(lc) \in Nat /\ BusLatency * y.lbConcAccesses \in Nat
      BY <1>7, <2>1, <2>4
    <3> QED  BY <1>7, <2>1, <2>2, <2>3, <3>1, <3>2
  <2>7. MinOf(lb) + MaxOf(ul) <= MaxBlockingPerAccess * MaxOf(ua)
    <3>1. MaxBlockingPerAccess * y.ubAccesses <= MaxBlockingPerAccess * MaxOf(ua)
      BY <1>7, <2>1, <2>3, <2>4
    <3>2. MaxBlockingPerAccess * y.ubAccesses \in Nat /\ MaxBlockingPerAccess * MaxOf(ua) \in Nat
      BY <1>7, <2>1, <2>4
    <3> QED  BY <1>7, <1>9, <2>1, <2>2, <2>3, <3>1, <3>2
  <2>8. MinOf(lc) <= NumConcurrentCores * MaxOf(ua)
    <3>1. NumConcurrentCores * y.ubAccesses <= NumConcurrentCores * MaxOf(ua)
      BY <1>7, <2>1, <2>3, <2>4
    <3>2. NumConcurrentCores * y.ubAccesses \in Nat /\ NumConcurrentCores * MaxOf(ua) \in Nat
      BY <1>7, <2>1, <2>4
    <3> QED  BY <1>7, <2>1, <2>2, <2>3, <3>1, <3>2
  <2> QED  BY <1>11, <2>5, <2>6, <2>7, <2>8 DEF WeightOK
<1>13. ASSUME NEW b \in E, Undisturbed(b) PROVE Undisturbed(j)
  <2>1. MinOf(lb) <= 0 /\ MinOf(lc) <= 0
    BY <1>8, <1>13 DEF Undisturbed
  <2> QED  BY <1>7, <1>11, <2>1 DEF Undisturbed
<1> QED  BY <1>10, <1>12, <1>13 DEF EdgeFromTo, j

Vertices(c) == {0} \cup {e.to : e \in Program[c]}
EdgeOK(c, x) == x \in EdgeType /\ WeightOK(x) /\ x.to \in Vertices(c)

\* The state graph of a program, and the one for its arrival curves.
LEMMA StateGraphOK ==
  ASSUME NEW c \in Cores
  PROVE  /\ IsFiniteSet(StateGraph[c]) /\ \A x \in StateGraph[c] : EdgeOK(c, x)
         /\ \A v \in Vertices(c) : \E x \in StateGraph[c] : x.from = v /\ Undisturbed(x)
<1> DEFINE Of(e, a) == {b \in Split(e) : AreWeightsJoinable(a, b)}
<1>1. ASSUME NEW e \in Program[c], NEW a \in Split(e)
      PROVE  /\ EdgeFromTo(JoinEdges(Of(e, a)), e.from, e.to)
             /\ Undisturbed(a) => Undisturbed(JoinEdges(Of(e, a)))
  <2>1. IsFiniteSet(Split(e)) /\ \A b \in Split(e) : EdgeFromTo(b, e.from, e.to)
    BY SplitOK
  <2>2. a \in Of(e, a)
    BY DEF AreWeightsJoinable
  <2>3. Of(e, a) \in SUBSET Split(e)
    OBVIOUS
  <2> HIDE DEF Of
  <2>4. IsFiniteSet(Of(e, a))
    BY <2>1, <2>3, FS_Subset
  <2> QED  BY <2>1, <2>2, <2>3, <2>4, JoinedEdge
<1>2. ASSUME NEW e \in Program[c]
      PROVE  /\ IsFiniteSet(EdgesOf(e)) /\ \A x \in EdgesOf(e) : EdgeFromTo(x, e.from, e.to)
             /\ \E x \in EdgesOf(e) : Undisturbed(x)
  <2> DEFINE f == [a \in Split(e) |-> JoinEdges(Of(e, a))]
  <2>1. IsFiniteSet(Split(e)) /\ \E b \in Split(e) : Undisturbed(b)
    BY SplitOK
  <2>2. EdgesOf(e) = {JoinEdges(Of(e, a)) : a \in Split(e)}
    BY DEF EdgesOf
  <2> HIDE DEF Of
  <2>3. \A x \in EdgesOf(e) : \E a \in Split(e) : x = f[a]
    BY <2>2
  <2> HIDE DEF f
  <2>4. IsFiniteSet(EdgesOf(e))
    BY <2>1, <2>3, FiniteImage
  <2>5. \A x \in EdgesOf(e) : EdgeFromTo(x, e.from, e.to)
    BY <1>1, <2>2
  <2>6. \E x \in EdgesOf(e) : Undisturbed(x)
    BY <1>1, <2>1, <2>2
  <2> QED  BY <2>4, <2>5, <2>6
<1>3. StateGraph[c] = UNION {EdgesOf(e) : e \in Program[c]}
  BY DEF StateGraph
<1>4. IsFiniteSet(StateGraph[c])
  <2> DEFINE f == [e \in Program[c] |-> EdgesOf(e)]
             F == {EdgesOf(e) : e \in Program[c]}
  <2>1. IsFiniteSet(Program[c])
    BY PathAssumption
  <2>2. \A x \in F : \E e \in Program[c] : x = f[e]
    OBVIOUS
  <2>3. \A x \in F : IsFiniteSet(x)
    BY <1>2
  <2>4. StateGraph[c] = UNION F
    BY <1>3
  <2> HIDE DEF f, F
  <2>5. IsFiniteSet(F)
    BY <2>1, <2>2, FiniteImage
  <2> QED  BY <2>3, <2>4, <2>5, FS_UNION
<1>5. ASSUME NEW x \in StateGraph[c] PROVE EdgeOK(c, x)
  <2>1. PICK e \in Program[c] : x \in EdgesOf(e)
    BY <1>3
  <2>2. EdgeFromTo(x, e.from, e.to)
    BY <1>2, <2>1
  <2> QED  BY <2>2 DEF EdgeFromTo, EdgeOK, Vertices
<1>6. ASSUME NEW v \in Vertices(c)
      PROVE  \E x \in StateGraph[c] : x.from = v /\ Undisturbed(x)
  <2>1. PICK e \in Program[c] : e.from = v
    BY PathAssumption DEF Vertices
  <2>2. PICK x \in EdgesOf(e) : Undisturbed(x)
    BY <1>2
  <2>3. EdgeFromTo(x, e.from, e.to)
    BY <1>2
  <2>4. x \in StateGraph[c]
    BY <1>3
  <2> QED  BY <2>1, <2>2, <2>3, <2>4 DEF EdgeFromTo
<1> QED  BY <1>4, <1>5, <1>6

\* The graph of the arrival curves also has the edge of idle cycles.
LEMMA ArrivalCurveStateGraphOK ==
  ASSUME NEW c \in Cores
  PROVE  /\ IsFiniteSet(ArrivalCurveStateGraph[c])
         /\ \A x \in ArrivalCurveStateGraph[c] : x \in EdgeType
         /\ Idle \in ArrivalCurveStateGraph[c]
<1> DEFINE F == {JoinEdges(Split(e)) : e \in Program[c]}
           f == [e \in Program[c] |-> JoinEdges(Split(e))]
<1>1. ArrivalCurveStateGraph[c] = F \cup {Idle}
  BY DEF ArrivalCurveStateGraph
<1>2. \A x \in F : \E e \in Program[c] : x = f[e]
  OBVIOUS
<1>3. ASSUME NEW e \in Program[c] PROVE JoinEdges(Split(e)) \in EdgeType
  <2>1. /\ IsFiniteSet(Split(e)) /\ Split(e) # {}
        /\ \A b \in Split(e) : EdgeFromTo(b, e.from, e.to)
    BY SplitOK
  <2>2. EdgeFromTo(JoinEdges(Split(e)), e.from, e.to)
    BY <2>1, JoinedEdge
  <2> QED  BY <2>2 DEF EdgeFromTo
<1>4. \A x \in F : x \in EdgeType
  BY <1>3
<1>5. IsFiniteSet(Program[c])
  BY PathAssumption
<1> HIDE DEF F, f
<1>6. IsFiniteSet(F)
  BY <1>2, <1>5, FiniteImage
<1>7. Idle \in EdgeType
  BY DEF Idle, EdgeType
<1> QED  BY <1>1, <1>4, <1>6, <1>7, FS_AddElement

-----------------------------------------------------------------------------
(* Runs of the program *)

RunType ==
  [at : Nat, ubTime : Nat, lbTime : Nat, lbBlocking : Nat, lbConcAccesses : Nat,
   ubAccesses : Nat, ubBlockedCycleLoop : Nat]
RunOK(c, p) == p \in RunType /\ WeightOK(p) /\ p.at \in Vertices(c)
\* Sets of runs, with one among them that nobody gets in the way of.
GoodRuns(c) ==
  {P \in SUBSET RunType : /\ IsFiniteSet(P) /\ \A p \in P : RunOK(c, p)
                          /\ \E p \in P : Undisturbed(p)}

\* A run that goes on along an edge.
LEMMA AlongOK ==
  ASSUME NEW c \in Cores, NEW p, RunOK(c, p), NEW e, EdgeOK(c, e)
  PROVE  /\ RunOK(c, Along(p, e))
         /\ Undisturbed(p) /\ Undisturbed(e) => Undisturbed(Along(p, e))
<1>1. /\ p \in RunType /\ e \in EdgeType /\ e.to \in Vertices(c) /\ e.to \in Nat
      /\ WeightOK(p) /\ WeightOK(e)
  BY DEF RunOK, EdgeOK, EdgeType
<1>2. /\ p.ubTime \in Nat /\ p.lbTime \in Nat /\ p.lbBlocking \in Nat /\ p.lbConcAccesses \in Nat
      /\ p.ubAccesses \in Nat /\ p.ubBlockedCycleLoop \in Nat
      /\ e.ubTime \in Nat /\ e.lbTime \in Nat /\ e.lbBlocking \in Nat /\ e.lbConcAccesses \in Nat
      /\ e.ubAccesses \in Nat /\ e.ubBlockedCycleLoop \in Nat
  BY <1>1 DEF RunType, EdgeType
<1> DEFINE q == Along(p, e)
<1>3. q = [at |-> e.to, ubTime |-> p.ubTime + e.ubTime, lbTime |-> p.lbTime + e.lbTime,
           lbBlocking |-> p.lbBlocking + e.lbBlocking,
           lbConcAccesses |-> p.lbConcAccesses + e.lbConcAccesses,
           ubAccesses |-> p.ubAccesses + e.ubAccesses,
           ubBlockedCycleLoop |-> p.ubBlockedCycleLoop + e.ubBlockedCycleLoop]
  BY DEF Along
<1> HIDE DEF q
<1>4. q \in RunType /\ q.at = e.to
  BY <1>1, <1>2, <1>3 DEF RunType
<1>5. WeightOK(q)
  <2>1. MaxBlockingPerAccess \in Nat /\ NumConcurrentCores \in Nat /\ BusLatency \in Nat
    BY CoresBasics
  <2>2. \A k, m, n \in Nat : k * m \in Nat /\ k * n \in Nat /\ k * (m + n) = k * m + k * n
    OBVIOUS
  <2>3. /\ p.lbBlocking <= p.ubTime /\ BusLatency * p.lbConcAccesses <= p.ubTime
        /\ p.lbBlocking + p.ubBlockedCycleLoop <= MaxBlockingPerAccess * p.ubAccesses
        /\ p.lbConcAccesses <= NumConcurrentCores * p.ubAccesses
    BY <1>1 DEF WeightOK
  <2>4. /\ e.lbBlocking <= e.ubTime /\ BusLatency * e.lbConcAccesses <= e.ubTime
        /\ e.lbBlocking + e.ubBlockedCycleLoop <= MaxBlockingPerAccess * e.ubAccesses
        /\ e.lbConcAccesses <= NumConcurrentCores * e.ubAccesses
    BY <1>1 DEF WeightOK
  <2>5. p.lbBlocking + e.lbBlocking <= p.ubTime + e.ubTime
    BY <1>2, <2>3, <2>4
  <2>6. BusLatency * (p.lbConcAccesses + e.lbConcAccesses) <= p.ubTime + e.ubTime
    BY <1>2, <2>1, <2>2, <2>3, <2>4
  <2>7. p.lbBlocking + e.lbBlocking + (p.ubBlockedCycleLoop + e.ubBlockedCycleLoop)
          <= MaxBlockingPerAccess * (p.ubAccesses + e.ubAccesses)
    BY <1>2, <2>1, <2>2, <2>3, <2>4
  <2>8. p.lbConcAccesses + e.lbConcAccesses <= NumConcurrentCores * (p.ubAccesses + e.ubAccesses)
    BY <1>2, <2>1, <2>2, <2>3, <2>4
  <2> QED  BY <1>3, <2>5, <2>6, <2>7, <2>8 DEF WeightOK
<1>6. Undisturbed(p) /\ Undisturbed(e) => Undisturbed(q)
  BY <1>3 DEF Undisturbed
<1> QED  BY <1>1, <1>4, <1>5, <1>6 DEF RunOK, q

\* One more round of edges for the runs that are not complete.
LEMMA ExtendRunsOK ==
  ASSUME NEW c \in Cores, NEW P \in GoodRuns(c)
  PROVE  ExtendRuns(StateGraph[c], P) \in GoodRuns(c)
<1> DEFINE E == StateGraph[c]
           Done == {p \in P : p.at = 0 /\ p.ubTime > 0}
           Pairs == {y \in P \X E : y[1].at = y[2].from /\ (y[1].at # 0 \/ y[1].ubTime = 0)}
           Longer == {Along(x[1], x[2]) : x \in Pairs}
           f == [x \in Pairs |-> Along(x[1], x[2])]
<1>1. ExtendRuns(E, P) = Done \cup Longer
  BY DEF ExtendRuns
<1>2. IsFiniteSet(P) /\ (\A p \in P : RunOK(c, p)) /\ P \in SUBSET RunType
  BY DEF GoodRuns
<1>3. /\ IsFiniteSet(E) /\ \A x \in E : EdgeOK(c, x)
      /\ \A v \in Vertices(c) : \E x \in E : x.from = v /\ Undisturbed(x)
  BY StateGraphOK
<1> HIDE DEF E
<1>4. \A x \in Pairs : x[1] \in P /\ x[2] \in E
  OBVIOUS
<1>5. \A q \in Longer : RunOK(c, q)
  BY <1>2, <1>3, <1>4, AlongOK
<1>6. IsFiniteSet(Done)
  BY <1>2, FS_Subset
<1>7. IsFiniteSet(Longer)
  <2>1. IsFiniteSet(P \X E)
    BY <1>2, <1>3, FS_Product
  <2>2. Pairs \in SUBSET (P \X E)
    OBVIOUS
  <2>3. IsFiniteSet(Pairs)
    BY <2>1, <2>2, FS_Subset
  <2>4. \A q \in Longer : \E x \in Pairs : q = f[x]
    OBVIOUS
  <2> HIDE DEF Pairs, Longer, f
  <2> QED  BY <2>3, <2>4, FiniteImage
<1>8. \E q \in Done \cup Longer : Undisturbed(q)
  <2>1. PICK p \in P : Undisturbed(p)
    BY DEF GoodRuns
  <2>2. CASE p.at = 0 /\ p.ubTime > 0
    BY <2>1, <2>2
  <2>3. CASE ~ (p.at = 0 /\ p.ubTime > 0)
    <3>1. p.at \in Vertices(c) /\ p.ubTime \in Nat
      BY <1>2 DEF RunOK, RunType
    <3>2. PICK x \in E : x.from = p.at /\ Undisturbed(x)
      BY <1>3, <3>1
    <3>3. <<p, x>> \in Pairs
      BY <2>3, <3>1, <3>2
    <3>4. Along(p, x) \in Longer
      BY <3>3
    <3>5. Undisturbed(Along(p, x))
      BY <1>2, <1>3, <2>1, <3>2, AlongOK
    <3> QED  BY <3>4, <3>5
  <2> QED  BY <2>2, <2>3
<1> HIDE DEF Longer
<1>9. IsFiniteSet(Done \cup Longer)
  BY <1>6, <1>7, FS_Union
<1>10. \A q \in Done \cup Longer : RunOK(c, q)
  BY <1>2, <1>5
<1>11. Done \cup Longer \in SUBSET RunType
  BY <1>10 DEF RunOK
<1> HIDE DEF Done
<1>12. Done \cup Longer \in GoodRuns(c)
  BY <1>8, <1>9, <1>10, <1>11 DEF GoodRuns
<1> QED  BY <1>1, <1>12 DEF E

\* The runs of a program, which the fold enumerates: there are finitely many, their
\* weights are related as those of edges are, and one of them is undisturbed.
LEMMA RunsOK ==
  ASSUME NEW c \in Cores
  PROVE  Runs[c] \in GoodRuns(c)
<1> DEFINE T == 1 .. Cardinality(Program[c])
           D == GoodRuns(c)
           g == [P \in D |-> ExtendRuns(StateGraph[c], P)]
           Eq(it) == it = [s \in SUBSET T |->
                             IF s = {} THEN {NoEdges}
                             ELSE ExtendRuns(StateGraph[c], it[s \ {CHOOSE x \in s : TRUE}])]
           run == CHOOSE it : Eq(it)
           pick == [s \in SUBSET T |-> CHOOSE x \in s : TRUE]
<1>1. IsFiniteSet(T)
  <2>1. Cardinality(Program[c]) \in Nat
    BY PathAssumption, FS_CardinalityType
  <2> QED  BY <2>1, FS_Interval
<1>2. {NoEdges} \in D
  <2>1. NoEdges \in RunType /\ NoEdges.at \in Vertices(c) /\ Undisturbed(NoEdges)
    BY DEF NoEdges, RunType, Vertices, Undisturbed
  <2>2. WeightOK(NoEdges)
    BY CoresBasics DEF WeightOK, NoEdges
  <2>3. RunOK(c, NoEdges)
    BY <2>1, <2>2 DEF RunOK
  <2> QED  BY <2>1, <2>3, FS_Singleton DEF GoodRuns
<1>3. g \in [D -> D]
  BY ExtendRunsOK
<1>4. Runs[c] = run[T]
  BY DEF Runs, FoldSet, MapThenFoldSet
<1> HIDE DEF T, D, g
<1>5. \A s \in SUBSET T : s # {} => pick[s] \in s
  OBVIOUS
<1> HIDE DEF pick
<1>6. Iterations(T, D, {NoEdges}, g, pick) # {}
  BY <1>1, <1>2, <1>3, <1>5, FoldIteration
<1>7. PICK it \in [SUBSET T -> D] :
        \A s \in SUBSET T : it[s] = IF s = {} THEN {NoEdges} ELSE g[it[s \ {pick[s]}]]
  BY <1>6 DEF Iterations
<1>8. Eq(it)
  <2>1. ASSUME NEW s \in SUBSET T
        PROVE  it[s] = IF s = {} THEN {NoEdges}
                       ELSE ExtendRuns(StateGraph[c], it[s \ {CHOOSE x \in s : TRUE}])
    <3>1. s \ {pick[s]} \in SUBSET T
      OBVIOUS
    <3>2. it[s \ {pick[s]}] \in D
      BY <1>7, <3>1
    <3>3. pick[s] = CHOOSE x \in s : TRUE
      BY DEF pick
    <3>4. it[s] = IF s = {} THEN {NoEdges} ELSE ExtendRuns(StateGraph[c], it[s \ {pick[s]}])
      BY <1>7, <3>2 DEF g
    <3> QED  BY <3>3, <3>4, Zenon
  <2> QED  BY <1>7, <2>1
<1>9. Eq(run)
  BY <1>8
<1> HIDE DEF run
<1>10. T \in {U \in SUBSET T : run[U] \in D}
  <2> DEFINE G == {U \in SUBSET T : run[U] \in D}
  <2>1. ASSUME NEW U \in SUBSET T, \A x \in U : U \ {x} \in G
        PROVE  U \in G
    <3>1. CASE U = {}
      BY <1>2, <1>9, <3>1
    <3>2. CASE U # {}
      <4> DEFINE x == CHOOSE y \in U : TRUE
      <4>1. x \in U
        BY <3>2
      <4>2. run[U] = ExtendRuns(StateGraph[c], run[U \ {x}])
        BY <1>9, <3>2
      <4> HIDE DEF x
      <4>3. run[U \ {x}] \in D
        BY <2>1, <4>1
      <4> QED  BY <4>2, <4>3, ExtendRunsOK DEF D
    <3> QED  BY <3>1, <3>2
  <2>2. G \in SUBSET SUBSET T
    OBVIOUS
  <2> HIDE DEF G
  <2>3. T \in G
    BY <1>1, <2>1, <2>2, FiniteSubsetInduction
  <2> QED  BY <2>3 DEF G
<1> QED  BY <1>4, <1>10 DEF D

-----------------------------------------------------------------------------
(* Paths of the arrival curves *)

PathType ==
  [at : Nat, last : Int \X Int, lbTime : Int, ubAccessCycles : Int, inner : Int,
   innerAccessCycles : Int, starts : Int, sub : Int, since : Int]
\* The paths that are complete and those that go on, with the idle cycle among them.
GoodPaths ==
  {P \in [all : SUBSET PathType, new : SUBSET PathType] :
     IsFiniteSet(P.all) /\ IsFiniteSet(P.new) /\ FirstEdge(Idle) \in P.all \cup P.new}

\* A path begins with an edge.
LEMMA FirstEdgeOK ==
  ASSUME NEW e \in EdgeType
  PROVE  FirstEdge(e) \in PathType
<1>1. e.to \in Nat /\ e.lbTime \in Nat /\ e.ubAccessCycles \in Nat
  BY DEF EdgeType
<1>2. /\ <<e.lbTime, e.ubAccessCycles>> \in Int \X Int /\ -e.lbTime \in Int /\ -e.ubAccessCycles \in Int
      /\ (IF Start(e) THEN 1 ELSE 0) \in Int /\ (IF Start(e) THEN e.lbTime ELSE 0) \in Int
  BY <1>1
<1> QED  BY <1>1, <1>2 DEF FirstEdge, PathType

\* A path goes on along an edge.
LEMMA NextEdgeOK ==
  ASSUME NEW p \in PathType, NEW e \in EdgeType
  PROVE  NextEdge(p, e) \in PathType
<1>1. e.to \in Nat /\ e.lbTime \in Nat /\ e.ubAccessCycles \in Nat
  BY DEF EdgeType
<1>2. /\ p.lbTime \in Int /\ p.ubAccessCycles \in Int /\ p.inner \in Int /\ p.innerAccessCycles \in Int
      /\ p.starts \in Int /\ p.sub \in Int /\ p.since \in Int /\ p.last \in Int \X Int
  BY DEF PathType
<1>3. p.last[1] \in Int /\ p.last[2] \in Int
  BY <1>2
<1> DEFINE inner == IF p.inner < 0 THEN 0 ELSE p.inner + p.last[1]
           cycles == IF p.inner < 0 THEN 0 ELSE p.innerAccessCycles + p.last[2]
           starts == p.starts + (IF Start(e) THEN 1 ELSE 0)
           sub == IF Start(e) /\ p.starts > 0 THEN p.sub + p.since ELSE p.sub
           since == IF Start(e) THEN e.lbTime ELSE IF p.starts > 0 THEN p.since + e.lbTime ELSE 0
<1>4. /\ inner \in Int /\ cycles \in Int /\ starts \in Int /\ sub \in Int /\ since \in Int
      /\ <<e.lbTime, e.ubAccessCycles>> \in Int \X Int
      /\ p.lbTime + e.lbTime \in Int /\ p.ubAccessCycles + e.ubAccessCycles \in Int
  BY <1>1, <1>2, <1>3
<1>5. NextEdge(p, e) =
        [at |-> e.to, last |-> <<e.lbTime, e.ubAccessCycles>>, lbTime |-> p.lbTime + e.lbTime,
         ubAccessCycles |-> p.ubAccessCycles + e.ubAccessCycles, inner |-> inner,
         innerAccessCycles |-> cycles, starts |-> starts, sub |-> sub, since |-> since]
  BY DEF NextEdge
<1> HIDE DEF inner, cycles, starts, sub, since
<1> QED  BY <1>1, <1>4, <1>5 DEF PathType

\* One more edge for the paths that fit into the greatest window.
LEMMA ExtendPathsOK ==
  ASSUME NEW E, IsFiniteSet(E), E \in SUBSET EdgeType, NEW P \in GoodPaths
  PROVE  ExtendPaths(E, P) \in GoodPaths
<1> DEFINE Pairs == {y \in P.new \X E : y[1].at = y[2].from}
           new == {NextEdge(x[1], x[2]) : x \in Pairs}
           short == {p \in new : p.inner <= MaxWindow}
           f == [x \in Pairs |-> NextEdge(x[1], x[2])]
           all == P.all \cup P.new
<1>1. ExtendPaths(E, P) = [all |-> all, new |-> short]
  BY DEF ExtendPaths
<1>2. /\ P.all \in SUBSET PathType /\ P.new \in SUBSET PathType
      /\ IsFiniteSet(P.all) /\ IsFiniteSet(P.new) /\ FirstEdge(Idle) \in P.all \cup P.new
  BY DEF GoodPaths
<1>3. IsFiniteSet(Pairs)
  <2>1. IsFiniteSet(P.new \X E)
    BY <1>2, FS_Product
  <2>2. Pairs \in SUBSET (P.new \X E)
    OBVIOUS
  <2> HIDE DEF Pairs
  <2> QED  BY <2>1, <2>2, FS_Subset
<1>4. \A q \in new : \E x \in Pairs : q = f[x]
  OBVIOUS
<1>5. new \in SUBSET PathType
  <2>1. \A x \in Pairs : x[1] \in PathType /\ x[2] \in EdgeType
    BY <1>2
  <2> HIDE DEF Pairs
  <2> QED  BY <2>1, NextEdgeOK
<1> HIDE DEF Pairs, f, new
<1>6. IsFiniteSet(new)
  BY <1>3, <1>4, FiniteImage
<1>7. short \in SUBSET new
  OBVIOUS
<1> HIDE DEF short
<1>8. IsFiniteSet(short) /\ short \in SUBSET PathType
  BY <1>5, <1>6, <1>7, FS_Subset
<1>9. IsFiniteSet(all) /\ all \in SUBSET PathType /\ FirstEdge(Idle) \in all
  BY <1>2, FS_Union
<1> HIDE DEF all
<1> QED  BY <1>1, <1>8, <1>9 DEF GoodPaths

\* The paths that the fold enumerates.
LEMMA AllPathsOK ==
  ASSUME NEW E, IsFiniteSet(E), E \in SUBSET EdgeType, Idle \in E
  PROVE  /\ IsFiniteSet(AllPaths(E)) /\ AllPaths(E) \in SUBSET PathType
         /\ FirstEdge(Idle) \in AllPaths(E)
<1> DEFINE T == 1 .. MaxWindow + 2
           D == GoodPaths
           first == {FirstEdge(e) : e \in E}
           base == [all |-> {}, new |-> first]
           g == [P \in D |-> ExtendPaths(E, P)]
           Eq(it) == it = [s \in SUBSET T |->
                             IF s = {} THEN base
                             ELSE ExtendPaths(E, it[s \ {CHOOSE x \in s : TRUE}])]
           run == CHOOSE it : Eq(it)
           pick == [s \in SUBSET T |-> CHOOSE x \in s : TRUE]
<1>1. IsFiniteSet(T)
  <2>1. MaxWindow + 2 \in Nat
    BY PathAssumption
  <2> QED  BY <2>1, FS_Interval
<1>2. base \in D
  <2> DEFINE f == [e \in E |-> FirstEdge(e)]
  <2>1. first \in SUBSET PathType
    BY FirstEdgeOK
  <2>2. \A q \in first : \E e \in E : q = f[e]
    OBVIOUS
  <2>3. FirstEdge(Idle) \in first
    OBVIOUS
  <2> HIDE DEF first, f
  <2>4. IsFiniteSet(first)
    BY <2>2, FiniteImage
  <2>5. IsFiniteSet({}) /\ {} \in SUBSET PathType
    BY FS_EmptySet
  <2> QED  BY <2>1, <2>3, <2>4, <2>5 DEF GoodPaths
<1> HIDE DEF first
<1>3. g \in [D -> D]
  BY ExtendPathsOK
<1>4. AllPaths(E) = run[T].all \cup run[T].new
  BY DEF AllPaths, FoldSet, MapThenFoldSet, first
<1> HIDE DEF T, D, g, base
<1>5. \A s \in SUBSET T : s # {} => pick[s] \in s
  OBVIOUS
<1> HIDE DEF pick
<1>6. Iterations(T, D, base, g, pick) # {}
  BY <1>1, <1>2, <1>3, <1>5, FoldIteration
<1>7. PICK it \in [SUBSET T -> D] :
        \A s \in SUBSET T : it[s] = IF s = {} THEN base ELSE g[it[s \ {pick[s]}]]
  BY <1>6 DEF Iterations
<1>8. Eq(it)
  <2>1. ASSUME NEW s \in SUBSET T
        PROVE  it[s] = IF s = {} THEN base ELSE ExtendPaths(E, it[s \ {CHOOSE x \in s : TRUE}])
    <3>1. s \ {pick[s]} \in SUBSET T
      OBVIOUS
    <3>2. it[s \ {pick[s]}] \in D
      BY <1>7, <3>1
    <3>3. pick[s] = CHOOSE x \in s : TRUE
      BY DEF pick
    <3>4. it[s] = IF s = {} THEN base ELSE ExtendPaths(E, it[s \ {pick[s]}])
      BY <1>7, <3>2 DEF g
    <3> QED  BY <3>3, <3>4, Zenon
  <2> QED  BY <1>7, <2>1
<1>9. Eq(run)
  BY <1>8
<1> HIDE DEF run
<1>10. run[T] \in D
  <2> DEFINE G == {U \in SUBSET T : run[U] \in D}
  <2>1. ASSUME NEW U \in SUBSET T, \A x \in U : U \ {x} \in G
        PROVE  U \in G
    <3>1. CASE U = {}
      BY <1>2, <1>9, <3>1
    <3>2. CASE U # {}
      <4> DEFINE x == CHOOSE y \in U : TRUE
      <4>1. x \in U
        BY <3>2
      <4>2. run[U] = ExtendPaths(E, run[U \ {x}])
        BY <1>9, <3>2
      <4> HIDE DEF x
      <4>3. run[U \ {x}] \in D
        BY <2>1, <4>1
      <4> QED  BY <4>2, <4>3, ExtendPathsOK DEF D
    <3> QED  BY <3>1, <3>2
  <2>2. G \in SUBSET SUBSET T
    OBVIOUS
  <2> HIDE DEF G
  <2>3. T \in G
    BY <1>1, <2>1, <2>2, FiniteSubsetInduction
  <2> QED  BY <2>3 DEF G
<1>11. /\ run[T].all \in SUBSET PathType /\ run[T].new \in SUBSET PathType
       /\ IsFiniteSet(run[T].all) /\ IsFiniteSet(run[T].new)
       /\ FirstEdge(Idle) \in run[T].all \cup run[T].new
  BY <1>10 DEF GoodPaths, D
<1>12. IsFiniteSet(run[T].all \cup run[T].new)
  BY <1>11, FS_Union
<1> QED  BY <1>4, <1>11, <1>12

SummaryType ==
  [inner : Int, innerAccessCycles : Int, lbTime : Int, ubAccessCycles : Int, starts : Int, sub : Int]

\* What the arrival curves look at: finitely many paths, one of which is a single idle
\* cycle that fits into each window.
LEMMA PathsOK ==
  ASSUME NEW c \in Cores
  PROVE  /\ IsFiniteSet(Paths[c]) /\ Paths[c] \in SUBSET SummaryType
         /\ \E p \in Paths[c] : /\ p.inner = -1 /\ p.innerAccessCycles = 0 /\ p.lbTime = 1
                                /\ p.ubAccessCycles = 0 /\ p.starts = 0 /\ p.sub = 0
<1> DEFINE A == AllPaths(ArrivalCurveStateGraph[c])
           f == [p \in A |-> Summary(p)]
           idle == FirstEdge(Idle)
<1>1. IsFiniteSet(A) /\ A \in SUBSET PathType /\ idle \in A
  <2>1. /\ IsFiniteSet(ArrivalCurveStateGraph[c]) /\ ArrivalCurveStateGraph[c] \in SUBSET EdgeType
        /\ Idle \in ArrivalCurveStateGraph[c]
    BY ArrivalCurveStateGraphOK
  <2> QED  BY <2>1, AllPathsOK
<1> HIDE DEF A
<1>2. Paths[c] = {Summary(p) : p \in A}
  BY DEF Paths, A
<1>3. \A q \in Paths[c] : \E p \in A : q = f[p]
  BY <1>2
<1> HIDE DEF f
<1>4. IsFiniteSet(Paths[c])
  BY <1>1, <1>3, FiniteImage
<1>5. ASSUME NEW p \in PathType PROVE Summary(p) \in SummaryType
  BY DEF Summary, SummaryType, PathType
<1>6. Paths[c] \in SUBSET SummaryType
  BY <1>1, <1>2, <1>5
<1>7. /\ Summary(idle).inner = -1 /\ Summary(idle).innerAccessCycles = 0 /\ Summary(idle).lbTime = 1
      /\ Summary(idle).ubAccessCycles = 0 /\ Summary(idle).starts = 0 /\ Summary(idle).sub = 0
  <2>1. /\ Idle.from = 0 /\ Idle.to = 0 /\ Idle.lbTime = 1 /\ Idle.ubAccessCycles = 0
    BY DEF Idle
  <2>2. ~Start(Idle)
    BY <2>1 DEF Start
  <2>3. -Idle.lbTime = -1
    BY <2>1
  <2>4. -Idle.ubAccessCycles = 0
    <3>1. \A n \in Int : -n = 0 - n
      OBVIOUS
    <3>2. Idle.ubAccessCycles \in Int
      BY <2>1
    <3>3. -Idle.ubAccessCycles = 0 - Idle.ubAccessCycles
      BY <3>1, <3>2
    <3> QED  BY <2>1, <3>3
  <2>5. ~Start(Idle) /\ -Idle.lbTime = -1 /\ -Idle.ubAccessCycles = 0
    BY <2>2, <2>3, <2>4
  <2>6. /\ idle.inner = -1 /\ idle.innerAccessCycles = 0 /\ idle.lbTime = 1
        /\ idle.ubAccessCycles = 0 /\ idle.starts = 0 /\ idle.sub = 0
    BY <2>1, <2>5 DEF FirstEdge
  <2> HIDE DEF idle
  <2> QED  BY <2>6 DEF Summary
<1>8. Summary(idle) \in Paths[c]
  BY <1>1, <1>2
<1> QED  BY <1>4, <1>6, <1>7, <1>8

-----------------------------------------------------------------------------
(* Path analyses *)

Bound == Nat \cup {infinity}
\* infinity is greater than all others.
NoGreater(x, y) == y = infinity \/ (x # infinity /\ x <= y)

\* A run, and how often its blocked cycle loop is taken, within the bounds.
Admits(c, b, k, p, n) ==
  /\ p \in Runs[c] /\ n \in Nat /\ n <= p.ubBlockedCycleLoop
  /\ Within(p.lbBlocking + n, b) /\ Within(p.lbConcAccesses, k)

\* The same of the runs, field by field.
LEMMA RunsBasics ==
  ASSUME NEW c \in Cores
  PROVE  /\ IsFiniteSet(Runs[c]) /\ Runs[c] # {}
         /\ \E p \in Runs[c] : Undisturbed(p)
         /\ \A p \in Runs[c] :
              /\ p.ubTime \in Nat /\ p.lbTime \in Nat /\ p.lbBlocking \in Nat /\ p.lbConcAccesses \in Nat
              /\ p.ubAccesses \in Nat /\ p.ubBlockedCycleLoop \in Nat /\ WeightOK(p)
<1>1. Runs[c] \in GoodRuns(c)
  BY RunsOK
<1> QED  BY <1>1 DEF GoodRuns, RunOK, RunType

\* The extremes of a number that each run has.
LEMMA RunExtremes ==
  ASSUME NEW c \in Cores, NEW f, \A p \in Runs[c] : f[p] \in Nat
  PROVE  /\ Max({f[p] : p \in Runs[c]}) \in Nat /\ \A p \in Runs[c] : f[p] <= Max({f[q] : q \in Runs[c]})
         /\ Min({f[p] : p \in Runs[c]}) \in Nat /\ \A p \in Runs[c] : Min({f[q] : q \in Runs[c]}) <= f[p]
<1>1. IsFiniteSet(Runs[c]) /\ Runs[c] # {}
  BY RunsBasics
<1> QED  BY <1>1, WeightExtremes

\* The bounds that the runs yield are numbers.
LEMMA RunNumbers ==
  ASSUME NEW c \in Cores
  PROVE  /\ AccessBound(c) \in Nat /\ LbTime(c) \in Nat
         /\ Max({q.ubBlockedCycleLoop : q \in Runs[c]}) \in Nat
         /\ \A p \in Runs[c] : /\ p.ubAccesses <= AccessBound(c)
                               /\ p.ubBlockedCycleLoop <= Max({q.ubBlockedCycleLoop : q \in Runs[c]})
<1> DEFINE ua == [p \in Runs[c] |-> p.ubAccesses]
           lt == [p \in Runs[c] |-> p.lbTime]
           ul == [p \in Runs[c] |-> p.ubBlockedCycleLoop]
           R == Runs[c]
<1>1. \A p \in R : /\ p.ubAccesses \in Nat /\ p.lbTime \in Nat /\ p.ubBlockedCycleLoop \in Nat
  BY RunsBasics
<1>2. \A p \in R : ua[p] = p.ubAccesses /\ lt[p] = p.lbTime /\ ul[p] = p.ubBlockedCycleLoop
  OBVIOUS
<1> HIDE DEF ua, lt, ul
<1>3. {ua[p] : p \in R} = {p.ubAccesses : p \in R}
  BY <1>2
<1>4. {lt[p] : p \in R} = {p.lbTime : p \in R}
  BY <1>2
<1>5. {ul[p] : p \in R} = {p.ubBlockedCycleLoop : p \in R}
  BY <1>2
<1>6. Max({ua[p] : p \in R}) \in Nat /\ \A p \in R : ua[p] <= Max({ua[q] : q \in R})
  BY <1>1, <1>2, RunExtremes
<1>7. Min({lt[p] : p \in R}) \in Nat
  BY <1>1, <1>2, RunExtremes
<1>8. Max({ul[p] : p \in R}) \in Nat /\ \A p \in R : ul[p] <= Max({ul[q] : q \in R})
  BY <1>1, <1>2, RunExtremes
<1>9. AccessBound(c) \in Nat /\ \A p \in R : p.ubAccesses <= AccessBound(c)
  BY <1>2, <1>3, <1>6 DEF AccessBound
<1>10. LbTime(c) \in Nat
  BY <1>4, <1>7 DEF LbTime
<1> QED  BY <1>2, <1>5, <1>8, <1>9, <1>10

\* UbTime is the longest of the runs that the bounds admit.
LEMMA UbTimeIsLongest ==
  ASSUME NEW c \in Cores, NEW b \in Bound, NEW k \in Bound
  PROVE  /\ UbTime(c, b, k) \in Nat
         /\ \E p \in Runs[c], n \in Nat : Admits(c, b, k, p, n) /\ UbTime(c, b, k) = p.ubTime + n
         /\ \A p \in Runs[c], n \in Nat : Admits(c, b, k, p, n) => p.ubTime + n <= UbTime(c, b, k)
<1> DEFINE top == Max({q.ubBlockedCycleLoop : q \in Runs[c]})
           S == {t \in Blocked(c) : /\ Within(t[1].lbBlocking + t[2], b)
                                    /\ Within(t[1].lbConcAccesses, k)}
           f == [s \in S |-> s[1].ubTime + s[2]]
           W == {s[1].ubTime + s[2] : s \in S}
<1>1. /\ IsFiniteSet(Runs[c]) /\ top \in Nat
      /\ \A p \in Runs[c] : p.ubTime \in Nat /\ p.ubBlockedCycleLoop \in Nat /\ p.ubBlockedCycleLoop <= top
  BY RunsBasics, RunNumbers
<1>2. Blocked(c) = {s \in Runs[c] \X (0 .. top) : s[2] <= s[1].ubBlockedCycleLoop}
  BY DEF Blocked
<1> HIDE DEF top
<1>3. \A s \in S : /\ s[1] \in Runs[c] /\ s[2] \in Nat /\ Admits(c, b, k, s[1], s[2])
  BY <1>1, <1>2 DEF Admits
<1>4. \A p \in Runs[c], n \in Nat : Admits(c, b, k, p, n) => <<p, n>> \in S
  <2> SUFFICES ASSUME NEW p \in Runs[c], NEW n \in Nat, Admits(c, b, k, p, n)
               PROVE  <<p, n>> \in S
    OBVIOUS
  <2>1. n <= p.ubBlockedCycleLoop /\ Within(p.lbBlocking + n, b) /\ Within(p.lbConcAccesses, k)
    BY DEF Admits
  <2>2. n \in 0 .. top
    BY <1>1, <2>1
  <2> QED  BY <1>2, <2>1, <2>2
<1>5. IsFiniteSet(S)
  <2>1. IsFiniteSet(0 .. top)
    BY <1>1, FS_Interval
  <2>2. IsFiniteSet(Runs[c] \X (0 .. top))
    BY <1>1, <2>1, FS_Product
  <2>3. S \in SUBSET (Runs[c] \X (0 .. top))
    BY <1>2
  <2> HIDE DEF S
  <2> QED  BY <2>2, <2>3, FS_Subset
<1>6. S # {}
  <2>1. PICK p \in Runs[c] : Undisturbed(p)
    BY RunsBasics
  <2>2. Within(p.lbBlocking + 0, b) /\ Within(p.lbConcAccesses, k)
    BY <2>1 DEF Undisturbed, Within, Bound
  <2>3. Admits(c, b, k, p, 0)
    BY <1>1, <2>2 DEF Admits
  <2> QED  BY <1>4, <2>3
<1>7. UbTime(c, b, k) = Max(W)
  BY DEF UbTime
<1> HIDE DEF S
<1>8. W \in SUBSET Int /\ W # {} /\ W \subseteq Nat
  BY <1>1, <1>3, <1>6
<1>9. \A w \in W : \E s \in S : w = f[s]
  OBVIOUS
<1>10. \A s \in S : s[1].ubTime + s[2] \in W
  OBVIOUS
<1>11. \A w \in W : \E s \in S : w = s[1].ubTime + s[2]
  OBVIOUS
<1> HIDE DEF W, f
<1>12. IsFiniteSet(W)
  BY <1>5, <1>9, FiniteImage
<1>13. Max(W) \in W /\ \A w \in W : w <= Max(W)
  BY <1>8, <1>12, MaxMin
<1>14. \E p \in Runs[c], n \in Nat : Admits(c, b, k, p, n) /\ Max(W) = p.ubTime + n
  <2>1. PICK s \in S : Max(W) = s[1].ubTime + s[2]
    BY <1>11, <1>13
  <2> QED  BY <1>3, <2>1
<1>15. \A p \in Runs[c], n \in Nat : Admits(c, b, k, p, n) => p.ubTime + n <= Max(W)
  <2> SUFFICES ASSUME NEW p \in Runs[c], NEW n \in Nat, Admits(c, b, k, p, n)
               PROVE  p.ubTime + n <= Max(W)
    OBVIOUS
  <2>1. <<p, n>> \in S
    BY <1>4
  <2>2. p.ubTime + n \in W
    BY <1>10, <2>1
  <2> QED  BY <1>13, <2>2
<1> QED  BY <1>7, <1>8, <1>13, <1>14, <1>15

\* More interference never shortens the longest run: the bounds on the blocking admit
\* fewer runs the lower they are.
LEMMA UbTimeMonotone ==
  ASSUME NEW c \in Cores, NEW b1 \in Bound, NEW k1 \in Bound, NEW b2 \in Bound, NEW k2 \in Bound,
         NoGreater(b1, b2), NoGreater(k1, k2)
  PROVE  UbTime(c, b1, k1) <= UbTime(c, b2, k2)
<1>1. PICK p \in Runs[c], n \in Nat : Admits(c, b1, k1, p, n) /\ UbTime(c, b1, k1) = p.ubTime + n
  BY UbTimeIsLongest
<1>2. p.lbBlocking \in Nat /\ p.lbConcAccesses \in Nat
  BY RunsBasics
<1>3. /\ n <= p.ubBlockedCycleLoop /\ Within(p.lbBlocking + n, b1) /\ Within(p.lbConcAccesses, k1)
  BY <1>1 DEF Admits
<1>4. Within(p.lbBlocking + n, b2)
  BY <1>2, <1>3 DEF Within, NoGreater, Bound, infinity
<1>5. Within(p.lbConcAccesses, k2)
  BY <1>2, <1>3 DEF Within, NoGreater, Bound, infinity
<1>6. Admits(c, b2, k2, p, n)
  BY <1>3, <1>4, <1>5 DEF Admits
<1> QED  BY <1>1, <1>6, UbTimeIsLongest

\* A blocking bound that is no less than the time does not shorten it.
LEMMA BlockingWithinTime ==
  ASSUME NEW c \in Cores, NEW b1 \in Nat, NEW k1 \in Nat, NEW b2 \in Bound, NEW k2 \in Bound,
         UbTime(c, b2, k2) <= b1, b1 <= BusLatency * k1
  PROVE  UbTime(c, b2, k2) <= UbTime(c, b1, k1)
<1>1. PICK p \in Runs[c], n \in Nat : Admits(c, b2, k2, p, n) /\ UbTime(c, b2, k2) = p.ubTime + n
  BY UbTimeIsLongest
<1>2. p.lbBlocking \in Nat /\ p.lbConcAccesses \in Nat /\ p.ubTime \in Nat /\ WeightOK(p)
  BY RunsBasics
<1>3. n <= p.ubBlockedCycleLoop
  BY <1>1 DEF Admits
<1>4. p.lbBlocking + n <= b1
  BY <1>1, <1>2 DEF WeightOK
<1>5. p.lbConcAccesses <= k1
  <2>1. BusLatency * p.lbConcAccesses <= BusLatency * k1
    <3>1. BusLatency * p.lbConcAccesses \in Nat /\ BusLatency * k1 \in Nat
      BY <1>2, CoresBasics
    <3> QED  BY <1>1, <1>2, <3>1 DEF WeightOK
  <2>2. SUFFICES ASSUME k1 + 1 <= p.lbConcAccesses PROVE FALSE
    BY <1>2
  <2>3. BusLatency * (k1 + 1) <= BusLatency * p.lbConcAccesses
    BY <1>2, <2>2, CoresBasics
  <2>4. BusLatency * (k1 + 1) = BusLatency * k1 + BusLatency
    BY CoresBasics
  <2>5. BusLatency * k1 \in Nat /\ BusLatency \in Nat \ {0} /\ BusLatency * p.lbConcAccesses \in Nat
    BY <1>2, CoresBasics
  <2> QED  BY <2>1, <2>3, <2>4, <2>5
<1>6. Admits(c, b1, k1, p, n)
  BY <1>3, <1>4, <1>5 DEF Admits, Within
<1>7. b1 \in Bound /\ k1 \in Bound
  BY DEF Bound
<1> QED  BY <1>1, <1>6, <1>7, UbTimeIsLongest

\* Bounds that allow each access of a run to be blocked for as long as it can be do not
\* shorten it either.
LEMMA FullBlocking ==
  ASSUME NEW c \in Cores, NEW b1 \in Nat, NEW k1 \in Nat, NEW b2 \in Bound, NEW k2 \in Bound,
         MaxBlockingPerAccess * AccessBound(c) <= b1, NumConcurrentCores * AccessBound(c) <= k1
  PROVE  UbTime(c, b2, k2) <= UbTime(c, b1, k1)
<1>1. PICK p \in Runs[c], n \in Nat : Admits(c, b2, k2, p, n) /\ UbTime(c, b2, k2) = p.ubTime + n
  BY UbTimeIsLongest
<1>2. /\ p.lbBlocking \in Nat /\ p.lbConcAccesses \in Nat /\ p.ubTime \in Nat /\ WeightOK(p)
      /\ p.ubAccesses \in Nat /\ p.ubBlockedCycleLoop \in Nat
  BY RunsBasics
<1>3. n <= p.ubBlockedCycleLoop
  BY <1>1 DEF Admits
<1>4. /\ MaxBlockingPerAccess \in Nat /\ NumConcurrentCores \in Nat /\ AccessBound(c) \in Nat
      /\ p.ubAccesses <= AccessBound(c)
  BY CoresBasics, RunNumbers
<1>5. \A m \in Nat : /\ m * p.ubAccesses \in Nat /\ m * AccessBound(c) \in Nat
                     /\ m * p.ubAccesses <= m * AccessBound(c)
  BY <1>2, <1>4
<1>6. p.lbBlocking + n <= b1
  <2>1. p.lbBlocking + p.ubBlockedCycleLoop <= MaxBlockingPerAccess * p.ubAccesses
    BY <1>2 DEF WeightOK
  <2>2. MaxBlockingPerAccess * p.ubAccesses <= MaxBlockingPerAccess * AccessBound(c)
    BY <1>4, <1>5
  <2>3. MaxBlockingPerAccess * p.ubAccesses \in Nat /\ MaxBlockingPerAccess * AccessBound(c) \in Nat
    BY <1>4, <1>5
  <2> QED  BY <1>2, <1>3, <2>1, <2>2, <2>3
<1>7. p.lbConcAccesses <= k1
  <2>1. p.lbConcAccesses <= NumConcurrentCores * p.ubAccesses
    BY <1>2 DEF WeightOK
  <2>2. NumConcurrentCores * p.ubAccesses <= NumConcurrentCores * AccessBound(c)
    BY <1>4, <1>5
  <2>3. NumConcurrentCores * p.ubAccesses \in Nat /\ NumConcurrentCores * AccessBound(c) \in Nat
    BY <1>4, <1>5
  <2> QED  BY <1>2, <2>1, <2>2, <2>3
<1>8. Admits(c, b1, k1, p, n)
  BY <1>3, <1>6, <1>7 DEF Admits, Within
<1>9. b1 \in Bound /\ k1 \in Bound
  BY DEF Bound
<1> QED  BY <1>1, <1>8, <1>9, UbTimeIsLongest

-----------------------------------------------------------------------------
(* Blocking *)

\* A concurrent core blocks an access at most once.
LEMMA ContributionOK ==
  ASSUME NEW x \in Bound, NEW m \in Nat
  PROVE  Contribution(x, m) \in Nat /\ Contribution(x, m) <= m
  BY DEF Contribution, Bound

\* It does so no less often the more cycles it may use the bus.
LEMMA ContributionMonotone ==
  ASSUME NEW x \in Bound, NEW y \in Bound, NEW m \in Nat, NoGreater(x, y)
  PROVE  Contribution(x, m) <= Contribution(y, m)
  BY DEF Contribution, Bound, NoGreater

\* Rounding up keeps the order.
LEMMA CeilDivMonotone ==
  ASSUME NEW x \in Nat, NEW y \in Nat, NEW d \in Nat \ {0}, x <= y
  PROVE  CeilDiv(x, d) <= CeilDiv(y, d)
<1>1. CeilDiv(y, d) \in Nat /\ y <= d * CeilDiv(y, d)
  BY CeilDivBounds
<1>2. x <= d * CeilDiv(y, d)
  <2>1. d * CeilDiv(y, d) \in Nat
    BY <1>1
  <2> QED  BY <1>1, <2>1
<1> QED  BY <1>1, <1>2, CeilDivIsLeast

\* What the concurrent cores contribute, in cycles and in accesses.
Cycles(c, accessBound, bounds) == [d \in Conc(c) |-> Contribution(bounds[d], accessBound * BusLatency)]
Accesses(c, accessBound, bounds) ==
  [d \in Conc(c) |-> CeilDiv(Contribution(bounds[d], accessBound * BusLatency), BusLatency)]

\* The bounds on the blocking are sums over the concurrent cores.
LEMMA SumsOfContributions ==
  ASSUME NEW c \in Cores, NEW a, NEW bounds
  PROVE  /\ BlockingBound(c, a, bounds) = SumFunctionOnSet(Cycles(c, a.accessBound, bounds), Conc(c))
         /\ ConcAccessesBound(c, a, bounds) = SumFunctionOnSet(Accesses(c, a.accessBound, bounds), Conc(c))
  BY DEF BlockingBound, ConcAccessesBound, Cycles, Accesses, SumFunction

\* Each contribution, and what it is counted as.
LEMMA Contributions ==
  ASSUME NEW c \in Cores, NEW n \in Nat, NEW bounds, \A d \in Conc(c) : bounds[d] \in Bound,
         NEW d \in Conc(c)
  PROVE  /\ Cycles(c, n, bounds)[d] \in Nat /\ Cycles(c, n, bounds)[d] <= n * BusLatency
         /\ Accesses(c, n, bounds)[d] = CeilDiv(Cycles(c, n, bounds)[d], BusLatency)
         /\ Accesses(c, n, bounds)[d] \in Nat
         /\ Cycles(c, n, bounds)[d] <= BusLatency * Accesses(c, n, bounds)[d]
<1> DEFINE x == Contribution(bounds[d], n * BusLatency)
<1>1. n * BusLatency \in Nat /\ BusLatency \in Nat \ {0}
  BY CoresBasics
<1>2. x \in Nat /\ x <= n * BusLatency
  BY <1>1, ContributionOK
<1>3. Cycles(c, n, bounds)[d] = x /\ Accesses(c, n, bounds)[d] = CeilDiv(x, BusLatency)
  BY DEF Cycles, Accesses
<1> HIDE DEF x
<1>4. CeilDiv(x, BusLatency) \in Nat /\ x <= BusLatency * CeilDiv(x, BusLatency)
  BY <1>1, <1>2, CeilDivBounds
<1> QED  BY <1>2, <1>3, <1>4

\* Blocking is made of accesses of at most a bus latency each.
LEMMA BlockingOK ==
  ASSUME NEW c \in Cores, NEW a, a.accessBound \in Nat,
         NEW bounds, \A d \in Conc(c) : bounds[d] \in Bound
  PROVE  /\ BlockingBound(c, a, bounds) \in Nat /\ ConcAccessesBound(c, a, bounds) \in Nat
         /\ BlockingBound(c, a, bounds) <= BusLatency * ConcAccessesBound(c, a, bounds)
<1> DEFINE f == Cycles(c, a.accessBound, bounds)
           g == Accesses(c, a.accessBound, bounds)
           h == [d \in Conc(c) |-> BusLatency * g[d]]
           T == Conc(c)
<1>1. BlockingBound(c, a, bounds) = SumFunctionOnSet(f, T) /\ ConcAccessesBound(c, a, bounds) = SumFunctionOnSet(g, T)
  BY SumsOfContributions
<1>2. IsFiniteSet(T) /\ BusLatency \in Nat \ {0}
  BY CoresBasics
<1>3. \A d \in T : f[d] \in Nat /\ g[d] \in Nat /\ f[d] <= BusLatency * g[d]
  BY Contributions
<1> HIDE DEF f, g
<1>4. \A d \in T : h[d] = BusLatency * g[d]
  OBVIOUS
<1>5. \A d \in T : h[d] \in Nat /\ f[d] <= h[d]
  BY <1>2, <1>3, <1>4
<1> HIDE DEF h, T
<1>6. SumFunctionOnSet(g, T) \in Nat /\ SumFunctionOnSet(h, T) = BusLatency * SumFunctionOnSet(g, T)
  BY <1>2, <1>3, <1>4, SumScaled
<1>7. SumFunctionOnSet(f, T) \in Nat /\ SumFunctionOnSet(f, T) <= SumFunctionOnSet(h, T)
  BY <1>2, <1>3, <1>5, SumMonotone
<1> QED  BY <1>1, <1>6, <1>7

\* More access cycles of the others mean no less blocking, and no fewer accesses than are
\* counted; the blocking stays the same only if the accesses do.
LEMMA BlockingMonotone ==
  ASSUME NEW c \in Cores, NEW a, a.accessBound \in Nat,
         NEW b1, NEW b2, \A d \in Conc(c) : b1[d] \in Bound /\ b2[d] \in Bound /\ NoGreater(b1[d], b2[d])
  PROVE  /\ BlockingBound(c, a, b1) <= BlockingBound(c, a, b2)
         /\ ConcAccessesBound(c, a, b1) <= ConcAccessesBound(c, a, b2)
         /\ BlockingBound(c, a, b1) = BlockingBound(c, a, b2)
              => ConcAccessesBound(c, a, b1) = ConcAccessesBound(c, a, b2)
<1> DEFINE n == a.accessBound
           f1 == Cycles(c, n, b1)
           g1 == Accesses(c, n, b1)
           f2 == Cycles(c, n, b2)
           g2 == Accesses(c, n, b2)
           T == Conc(c)
<1>1. /\ BlockingBound(c, a, b1) = SumFunctionOnSet(f1, T) /\ ConcAccessesBound(c, a, b1) = SumFunctionOnSet(g1, T)
      /\ BlockingBound(c, a, b2) = SumFunctionOnSet(f2, T) /\ ConcAccessesBound(c, a, b2) = SumFunctionOnSet(g2, T)
  BY SumsOfContributions
<1>2. IsFiniteSet(T) /\ BusLatency \in Nat \ {0} /\ n \in Nat /\ n * BusLatency \in Nat
  BY CoresBasics
<1>3. ASSUME NEW d \in T PROVE f1[d] \in Nat /\ g1[d] \in Nat /\ g1[d] = CeilDiv(f1[d], BusLatency)
  BY <1>2, Contributions
<1>4. ASSUME NEW d \in T PROVE f2[d] \in Nat /\ g2[d] \in Nat /\ g2[d] = CeilDiv(f2[d], BusLatency)
  BY <1>2, Contributions
<1>5. ASSUME NEW d \in T PROVE f1[d] <= f2[d]
  <2>1. Contribution(b1[d], n * BusLatency) <= Contribution(b2[d], n * BusLatency)
    BY <1>2, ContributionMonotone
  <2> QED  BY <2>1 DEF Cycles
<1> HIDE DEF n, f1, g1, f2, g2, T
<1>6. ASSUME NEW d \in T PROVE g1[d] <= g2[d]
  BY <1>2, <1>3, <1>4, <1>5, CeilDivMonotone
<1>7. /\ SumFunctionOnSet(f1, T) <= SumFunctionOnSet(f2, T)
      /\ SumFunctionOnSet(f1, T) = SumFunctionOnSet(f2, T) => \A d \in T : f1[d] = f2[d]
  BY <1>2, <1>3, <1>4, <1>5, SumMonotone
<1>8. SumFunctionOnSet(g1, T) <= SumFunctionOnSet(g2, T)
  BY <1>2, <1>3, <1>4, <1>6, SumMonotone
<1>9. ASSUME \A d \in T : f1[d] = f2[d]
      PROVE  SumFunctionOnSet(g1, T) = SumFunctionOnSet(g2, T)
  <2>1. \A d \in T : g2[d] \in Nat /\ g1[d] \in Nat /\ g2[d] <= g1[d]
    BY <1>3, <1>4, <1>9
  <2>2. SumFunctionOnSet(g2, T) \in Nat /\ SumFunctionOnSet(g1, T) \in Nat
        /\ SumFunctionOnSet(g2, T) <= SumFunctionOnSet(g1, T)
    BY <1>2, <2>1, SumMonotone
  <2> QED  BY <1>8, <2>2
<1> QED  BY <1>1, <1>7, <1>8, <1>9

\* Blocking that is as long as it can be counts as all accesses, no blocking as none.
LEMMA BlockingExtremes ==
  ASSUME NEW c \in Cores, NEW a, a.accessBound \in Nat,
         NEW bounds, \A d \in Conc(c) : bounds[d] \in Bound
  PROVE  /\ a.accessBound * BusLatency * NumConcurrentCores <= BlockingBound(c, a, bounds)
              => NumConcurrentCores * a.accessBound <= ConcAccessesBound(c, a, bounds)
         /\ BlockingBound(c, a, bounds) = 0 => ConcAccessesBound(c, a, bounds) = 0
<1> DEFINE n == a.accessBound
           f == Cycles(c, n, bounds)
           g == Accesses(c, n, bounds)
           T == Conc(c)
           all == [d \in T |-> n * BusLatency]
           none == [d \in T |-> 0]
<1>1. BlockingBound(c, a, bounds) = SumFunctionOnSet(f, T) /\ ConcAccessesBound(c, a, bounds) = SumFunctionOnSet(g, T)
  BY SumsOfContributions
<1>2. /\ IsFiniteSet(T) /\ Cardinality(T) = NumConcurrentCores /\ NumConcurrentCores \in Nat
      /\ BusLatency \in Nat \ {0} /\ n \in Nat /\ n * BusLatency \in Nat
  BY CoresBasics
<1>3. \A d \in T : /\ f[d] \in Nat /\ f[d] <= n * BusLatency /\ g[d] \in Nat
                   /\ g[d] = CeilDiv(f[d], BusLatency) /\ f[d] <= BusLatency * g[d]
  BY <1>2, Contributions
<1>4. \A d \in T : all[d] = n * BusLatency /\ none[d] = 0
  OBVIOUS
<1> HIDE DEF n, f, g, T, all, none
<1>5. /\ SumFunctionOnSet(f, T) \in Nat /\ SumFunctionOnSet(all, T) \in Nat
      /\ SumFunctionOnSet(f, T) <= SumFunctionOnSet(all, T)
      /\ SumFunctionOnSet(f, T) = SumFunctionOnSet(all, T) => \A d \in T : f[d] = all[d]
  BY <1>2, <1>3, <1>4, SumMonotone
<1>6. SumFunctionOnSet(all, T) = n * BusLatency * NumConcurrentCores
  BY <1>2, <1>4, SumConstant
<1>7. ASSUME n * BusLatency * NumConcurrentCores <= SumFunctionOnSet(f, T)
      PROVE  NumConcurrentCores * n <= SumFunctionOnSet(g, T)
  <2>1. \A d \in T : f[d] = n * BusLatency
    <3>1. SumFunctionOnSet(f, T) = SumFunctionOnSet(all, T)
      BY <1>5, <1>6, <1>7
    <3> QED  BY <1>4, <1>5, <3>1
  <2> DEFINE least == [d \in T |-> n]
  <2>2. \A d \in T : least[d] = n
    OBVIOUS
  <2> HIDE DEF least
  <2>3. ASSUME NEW d \in T PROVE n <= g[d]
    <3>1. n * BusLatency <= BusLatency * g[d] /\ g[d] \in Nat
      BY <1>3, <2>1
    <3>2. ASSUME g[d] + 1 <= n PROVE FALSE
      <4>1. BusLatency * (g[d] + 1) <= BusLatency * n
        BY <1>2, <3>1, <3>2
      <4>2. BusLatency * (g[d] + 1) = BusLatency * g[d] + BusLatency /\ n * BusLatency = BusLatency * n
        BY <1>2, <3>1
      <4>3. BusLatency * g[d] \in Nat /\ BusLatency * n \in Nat
        BY <1>2, <3>1
      <4> QED  BY <1>2, <3>1, <4>1, <4>2, <4>3
    <3> QED  BY <1>2, <3>1, <3>2
  <2>4. SumFunctionOnSet(least, T) = n * NumConcurrentCores
    BY <1>2, <2>2, SumConstant
  <2>5. SumFunctionOnSet(least, T) <= SumFunctionOnSet(g, T)
    BY <1>2, <1>3, <2>2, <2>3, SumMonotone
  <2> QED  BY <1>2, <2>4, <2>5
<1>8. ASSUME SumFunctionOnSet(f, T) = 0
      PROVE  SumFunctionOnSet(g, T) = 0
  <2>1. SumFunctionOnSet(none, T) = 0 * NumConcurrentCores
    BY <1>2, <1>4, SumConstant
  <2>2. SumFunctionOnSet(none, T) = SumFunctionOnSet(f, T)
    BY <1>2, <1>8, <2>1
  <2>3. \A d \in T : none[d] = f[d]
    BY <1>2, <1>3, <1>4, <2>2, SumMonotone
  <2>4. ASSUME NEW d \in T PROVE g[d] = 0
    <3>1. f[d] = 0 /\ g[d] = CeilDiv(f[d], BusLatency) /\ g[d] \in Nat
      BY <1>3, <1>4, <2>3
    <3>2. 0 <= BusLatency * 0
      BY <1>2
    <3>3. CeilDiv(0, BusLatency) <= 0
      BY <1>2, <3>2, CeilDivIsLeast
    <3> QED  BY <3>1, <3>3
  <2>5. SumFunctionOnSet(g, T) = 0 * NumConcurrentCores
    BY <1>2, <2>4, SumConstant
  <2> QED  BY <1>2, <2>5
<1> QED  BY <1>1, <1>7, <1>8 DEF n

-----------------------------------------------------------------------------
(* Arrival curves *)

\* Both bounds of the curve at the granularity of programs.
Bound1(r, d, m) == r + d * r + (IF m # 0 THEN r ELSE 0)
Bound2(r, d, m) == r + d * r + m

\* A greater number has a greater quotient, or the same one and a greater remainder.
LEMMA QuotientsGrow ==
  ASSUME NEW x \in Nat, NEW y \in Nat, NEW d \in Nat \ {0}, x <= y
  PROVE  /\ x \div d < y \div d \/ (x \div d = y \div d /\ (x % d) <= (y % d))
<1> DEFINE q1 == x \div d
           q2 == y \div d
           r1 == x % d
           r2 == y % d
<1>1. /\ q1 \in Nat /\ r1 \in Nat /\ r1 < d /\ x = d * q1 + r1
      /\ q2 \in Nat /\ r2 \in Nat /\ r2 < d /\ y = d * q2 + r2
  <2>1. q1 \in Nat /\ r1 \in 0 .. d - 1 /\ x = d * q1 + r1
    BY Division
  <2>2. q2 \in Nat /\ r2 \in 0 .. d - 1 /\ y = d * q2 + r2
    BY Division
  <2> HIDE DEF q1, q2, r1, r2
  <2> QED  BY <2>1, <2>2
<1>2. SUFFICES q1 < q2 \/ (q1 = q2 /\ r1 <= r2)
  OBVIOUS
<1> HIDE DEF q1, q2, r1, r2
<1>3. CASE q2 + 1 <= q1
  <2>1. d * (q2 + 1) <= d * q1 /\ d * (q2 + 1) = d * q2 + d
    BY <1>1, <1>3
  <2>2. d * q2 \in Nat /\ d * q1 \in Nat
    BY <1>1
  <2> QED  BY <1>1, <2>1, <2>2
<1>4. CASE q1 = q2
  <2>1. d * q1 \in Nat /\ d * q1 = d * q2
    BY <1>1, <1>4
  <2> QED  BY <1>1, <1>4, <2>1
<1>5. CASE q1 < q2
  BY <1>5
<1>6. q2 + 1 <= q1 \/ q1 = q2 \/ q1 < q2
  BY <1>1
<1> QED  BY <1>3, <1>4, <1>5, <1>6

\* With less left over the bounds are no greater, or both are bound by the first one of
\* the longer window.
LEMMA BoundsGrow ==
  ASSUME NEW r \in Nat, NEW d1 \in Nat, NEW m1 \in Nat, NEW d2 \in Nat, NEW m2 \in Nat,
         d1 < d2 \/ (d1 = d2 /\ m1 <= m2)
  PROVE  /\ Bound1(r, d1, m1) \in Nat /\ Bound2(r, d1, m1) \in Nat
         /\ Bound1(r, d2, m2) \in Nat /\ Bound2(r, d2, m2) \in Nat
         /\ Bound1(r, d1, m1) <= Bound1(r, d2, m2)
         /\ Bound1(r, d1, m1) <= Bound2(r, d2, m2) \/ Bound2(r, d1, m1) <= Bound2(r, d2, m2)
<1> DEFINE p1 == d1 * r
           p2 == d2 * r
           e1 == IF m1 # 0 THEN r ELSE 0
           e2 == IF m2 # 0 THEN r ELSE 0
<1>1. p1 \in Nat /\ p2 \in Nat /\ e1 \in Nat /\ e2 \in Nat /\ e1 <= r
  OBVIOUS
<1>2. /\ Bound1(r, d1, m1) = r + p1 + e1 /\ Bound2(r, d1, m1) = r + p1 + m1
      /\ Bound1(r, d2, m2) = r + p2 + e2 /\ Bound2(r, d2, m2) = r + p2 + m2
  BY DEF Bound1, Bound2
<1>3. CASE d1 < d2
  <2>1. (d1 + 1) * r <= d2 * r /\ (d1 + 1) * r = d1 * r + r
    BY <1>3
  <2>2. p1 + r <= p2
    BY <2>1
  <2> HIDE DEF p1, p2, e1, e2
  <2> QED  BY <1>1, <1>2, <2>2
<1>4. CASE d1 = d2 /\ m1 <= m2
  <2>1. p1 = p2 /\ e1 <= e2
    BY <1>4
  <2> HIDE DEF p1, p2, e1, e2
  <2> QED  BY <1>1, <1>2, <1>4, <2>1
<1> QED  BY <1>3, <1>4

\* The curve at the granularity of programs is a number of cycles in the window, and
\* grows with it.
LEMMA CurveOfRunsOK ==
  ASSUME NEW c \in Cores, NEW n \in Nat, NEW period \in Nat, NEW t1 \in Nat, NEW t2 \in Nat, t1 <= t2
  PROVE  /\ CurveOfRuns(c, n, period, t1) \in Nat /\ CurveOfRuns(c, n, period, t2) \in Nat
         /\ CurveOfRuns(c, n, period, t1) <= CurveOfRuns(c, n, period, t2)
<1> DEFINE r == n * BusLatency
           E(t) == Max({t - r, 0})
           B1(t) == Bound1(r, E(t) \div period, E(t) % period)
           B2(t) == Bound2(r, E(t) \div period, E(t) % period)
<1>1. r \in Nat
  BY CoresBasics
<1>2. \A t \in Nat : CurveOfRuns(c, n, period, t) =
        IF t = 0 THEN 0 ELSE IF period = 0 THEN t ELSE Min({B1(t), B2(t), t})
  BY DEF CurveOfRuns, Bound1, Bound2
<1> HIDE DEF r
<1>3. ASSUME NEW t \in Nat
      PROVE  E(t) \in Nat /\ t - r <= E(t) /\ (E(t) = t - r \/ E(t) = 0)
  <2> DEFINE z == t - r
  <2>1. z \in Int /\ 0 \in Int
    BY <1>1
  <2> HIDE DEF z
  <2>2. Max({z, 0}) \in Int /\ z <= Max({z, 0}) /\ 0 <= Max({z, 0}) /\ (Max({z, 0}) = z \/ Max({z, 0}) = 0)
    BY <2>1, MaxOfTwo, Zenon
  <2> DEFINE x == Max({z, 0})
  <2> HIDE DEF x
  <2>3. x \in Nat /\ z <= x /\ (x = z \/ x = 0)
    BY <2>2 DEF x
  <2> QED  BY <2>3 DEF x, z
<1>4. E(t1) <= E(t2)
  <2> DEFINE e1 == E(t1)
             e2 == E(t2)
  <2>1. /\ e1 \in Nat /\ t1 - r <= e1 /\ (e1 = t1 - r \/ e1 = 0)
        /\ e2 \in Nat /\ t2 - r <= e2 /\ (e2 = t2 - r \/ e2 = 0)
    BY <1>3
  <2> HIDE DEF e1, e2, E
  <2>2. e1 <= e2
    BY <1>1, <2>1
  <2> QED  BY <2>2 DEF e1, e2
<1>5. CASE period = 0
  BY <1>2, <1>5
<1>6. CASE period # 0
  <2> DEFINE e1 == E(t1)
             e2 == E(t2)
             d1 == e1 \div period
             m1 == e1 % period
             d2 == e2 \div period
             m2 == e2 % period
  <2>1. e1 \in Nat /\ e2 \in Nat /\ e1 <= e2 /\ period \in Nat \ {0}
    BY <1>3, <1>4, <1>6
  <2>2. CurveOfRuns(c, n, period, t1) = IF t1 = 0 THEN 0 ELSE Min({Bound1(r, d1, m1), Bound2(r, d1, m1), t1})
    BY <1>2, <1>6
  <2>3. CurveOfRuns(c, n, period, t2) = IF t2 = 0 THEN 0 ELSE Min({Bound1(r, d2, m2), Bound2(r, d2, m2), t2})
    BY <1>2, <1>6
  <2> HIDE DEF e1, e2, E
  <2>4. /\ d1 \in Nat /\ m1 \in 0 .. period - 1 /\ d2 \in Nat /\ m2 \in 0 .. period - 1
    BY <2>1, Division
  <2>5. m1 \in Nat /\ m2 \in Nat
    BY <2>1, <2>4
  <2>6. d1 < d2 \/ (d1 = d2 /\ m1 <= m2)
    BY <2>1, QuotientsGrow
  <2> HIDE DEF d1, m1, d2, m2
  <2> DEFINE x1 == Bound1(r, d1, m1)
             y1 == Bound2(r, d1, m1)
             x2 == Bound1(r, d2, m2)
             y2 == Bound2(r, d2, m2)
             c1 == Min({x1, y1, t1})
             c2 == Min({x2, y2, t2})
  <2>7. x1 \in Nat /\ y1 \in Nat /\ x2 \in Nat /\ y2 \in Nat /\ x1 <= x2 /\ (x1 <= y2 \/ y1 <= y2)
    BY <1>1, <2>4, <2>5, <2>6, BoundsGrow
  <2> HIDE DEF x1, y1, x2, y2
  <2>8. x1 \in Int /\ y1 \in Int /\ t1 \in Int /\ x2 \in Int /\ y2 \in Int /\ t2 \in Int
    BY <2>7
  <2>9. c1 \in Int /\ c1 <= x1 /\ c1 <= y1 /\ c1 <= t1 /\ (c1 = x1 \/ c1 = y1 \/ c1 = t1)
    BY <2>8, MinOfThree, Zenon
  <2>10. c2 \in Int /\ c2 <= x2 /\ c2 <= y2 /\ c2 <= t2 /\ (c2 = x2 \/ c2 = y2 \/ c2 = t2)
    BY <2>8, MinOfThree, Zenon
  <2>11. CurveOfRuns(c, n, period, t1) = (IF t1 = 0 THEN 0 ELSE c1)
         /\ CurveOfRuns(c, n, period, t2) = (IF t2 = 0 THEN 0 ELSE c2)
    BY <2>2, <2>3 DEF x1, y1, x2, y2
  <2> HIDE DEF c1, c2
  <2> QED  BY <2>7, <2>9, <2>10, <2>11
<1> QED  BY <1>5, <1>6

\* What a path contributes to the arrival curve does not fall as the window grows.
LEMMA ObjectiveOK ==
  ASSUME NEW p \in SummaryType, NEW t1 \in Nat, NEW t2 \in Nat, t1 <= t2
  PROVE  /\ Objective(p, t1) \in Int /\ Objective(p, t2) \in Int
         /\ Objective(p, t1) <= Objective(p, t2)
<1> DEFINE v == p.ubAccessCycles
           w1 == p.innerAccessCycles - p.inner + t1
           w2 == p.innerAccessCycles - p.inner + t2
           m1 == Min({v, w1})
           m2 == Min({v, w2})
<1>1. v \in Int /\ w1 \in Int /\ w2 \in Int /\ w1 <= w2
  BY DEF SummaryType
<1>2. /\ Objective(p, t1) = IF option.objective = "VARIANT1" THEN v
                            ELSE IF option.objective = "VARIANT2" THEN w1 ELSE m1
      /\ Objective(p, t2) = IF option.objective = "VARIANT1" THEN v
                            ELSE IF option.objective = "VARIANT2" THEN w2 ELSE m2
  BY DEF Objective
<1> HIDE DEF v, w1, w2
<1>3. m1 \in Int /\ m1 <= v /\ m1 <= w1 /\ (m1 = v \/ m1 = w1)
  BY <1>1, MinOfTwo, Zenon
<1>4. m2 \in Int /\ m2 <= v /\ m2 <= w2 /\ (m2 = v \/ m2 = w2)
  BY <1>1, MinOfTwo, Zenon
<1> HIDE DEF m1, m2
<1>5. m1 <= m2
  BY <1>1, <1>3, <1>4
<1> QED  BY <1>1, <1>2, <1>3, <1>4, <1>5

\* The curve of the integer program is a number of cycles in the window, and grows with it.
LEMMA CurveOfPathsOK ==
  ASSUME NEW c \in Cores, NEW period \in Nat, NEW t1 \in Nat, NEW t2 \in Nat, t1 <= t2
  PROVE  /\ CurveOfPaths(c, period, t1) \in Nat /\ CurveOfPaths(c, period, t2) \in Nat
         /\ CurveOfPaths(c, period, t1) <= CurveOfPaths(c, period, t2)
<1> DEFINE Q(t) == {q \in Paths[c] : q.inner <= t /\ KeepsPeriod(q, period)}
           O(t) == {Objective(p, t) : p \in Q(t)}
           most(t) == Max(O(t))
           late(t) == IF most(t) > 0 THEN most(t) + 1 ELSE most(t)
<1>1. IsFiniteSet(Paths[c]) /\ Paths[c] \in SUBSET SummaryType
  BY PathsOK
<1>2. PICK idle \in Paths[c] :
        /\ idle.inner = -1 /\ idle.innerAccessCycles = 0 /\ idle.lbTime = 1
        /\ idle.ubAccessCycles = 0 /\ idle.starts = 0 /\ idle.sub = 0
  BY PathsOK
<1>3. KeepsPeriod(idle, period)
  <2>1. period * 0 <= period + 1 /\ ~ 0 > 0
    OBVIOUS
  <2> QED  BY <1>2, <2>1 DEF KeepsPeriod
<1>4. ASSUME NEW t \in Nat
      PROVE  idle \in Q(t) /\ 0 <= Objective(idle, t)
  <2>1. idle.inner <= t
    <3>1. -1 <= t
      OBVIOUS
    <3> QED  BY <1>2, <3>1
  <2>2. idle.innerAccessCycles - idle.inner + t = t + 1
    <3>1. 0 - (-1) + t = t + 1
      OBVIOUS
    <3> QED  BY <1>2, <3>1
  <2> DEFINE m == Min({0, t + 1})
  <2>3. Objective(idle, t) = IF option.objective = "VARIANT1" THEN 0
                             ELSE IF option.objective = "VARIANT2" THEN t + 1 ELSE m
    BY <1>2, <2>2 DEF Objective
  <2>4. 0 \in Int /\ t + 1 \in Int
    OBVIOUS
  <2>5. m = 0 \/ m = t + 1
    BY <2>4, MinOfTwo, Zenon
  <2> HIDE DEF m
  <2>6. 0 <= Objective(idle, t)
    BY <2>3, <2>5
  <2> QED  BY <1>2, <1>3, <2>1, <2>6
<1>5. ASSUME NEW t \in Nat
      PROVE  /\ most(t) \in Nat /\ \A p \in Q(t) : Objective(p, t) <= most(t)
             /\ \E p \in Q(t) : most(t) = Objective(p, t)
  <2> DEFINE f == [p \in Q(t) |-> Objective(p, t)]
             W == O(t)
  <2>1. Q(t) \in SUBSET Paths[c]
    OBVIOUS
  <2>2. \A p \in Q(t) : p \in SummaryType
    BY <1>1, <2>1
  <2>3. \A p \in Q(t) : Objective(p, t) \in Int
    <3>1. t <= t
      OBVIOUS
    <3> QED  BY <2>2, <3>1, ObjectiveOK
  <2>4. \A w \in W : \E p \in Q(t) : w = Objective(p, t)
    OBVIOUS
  <2>5. \A p \in Q(t) : Objective(p, t) \in W
    OBVIOUS
  <2>6. idle \in Q(t) /\ 0 <= Objective(idle, t)
    BY <1>4
  <2>7. \A w \in W : \E p \in Q(t) : w = f[p]
    BY <2>4
  <2> HIDE DEF Q, W, f
  <2>8. W \in SUBSET Int /\ W # {}
    BY <2>3, <2>4, <2>5, <2>6
  <2>9. IsFiniteSet(Q(t))
    BY <1>1, <2>1, FS_Subset
  <2>10. IsFiniteSet(W)
    BY <2>7, <2>9, FiniteImage
  <2>11. Max(W) \in W /\ \A w \in W : w <= Max(W)
    BY <2>8, <2>10, MaxMin
  <2> DEFINE x == Max(W)
  <2> HIDE DEF x
  <2>12. x \in W /\ (\A w \in W : w <= x) /\ x \in Int
    BY <2>8, <2>11 DEF x
  <2>13. x \in Nat
    BY <2>5, <2>6, <2>12, <2>3
  <2>14. most(t) = x
    BY DEF x, W
  <2> HIDE DEF most
  <2> QED  BY <2>4, <2>5, <2>12, <2>13, <2>14
<1>6. most(t1) <= most(t2)
  <2>1. PICK p \in Q(t1) : most(t1) = Objective(p, t1)
    BY <1>5
  <2>2. p \in Paths[c] /\ p.inner <= t1 /\ KeepsPeriod(p, period) /\ p \in SummaryType
    BY <1>1
  <2>3. p.inner <= t2
    BY <2>2 DEF SummaryType
  <2>4. p \in Q(t2)
    BY <2>2, <2>3
  <2>5. Objective(p, t2) <= most(t2)
    BY <1>5, <2>4
  <2>6. /\ Objective(p, t1) \in Int /\ Objective(p, t2) \in Int
        /\ Objective(p, t1) <= Objective(p, t2)
    BY <2>2, ObjectiveOK
  <2>7. most(t2) \in Nat
    BY <1>5
  <2> HIDE DEF most, Q
  <2> QED  BY <2>1, <2>5, <2>6, <2>7
<1>7. most(t1) \in Nat /\ most(t2) \in Nat
  BY <1>5
<1>8. \A t \in Nat : CurveOfPaths(c, period, t) = IF t = 0 THEN 0 ELSE Min({late(t), t})
  BY DEF CurveOfPaths
<1> HIDE DEF most
<1>9. late(t1) \in Nat /\ late(t2) \in Nat /\ late(t1) <= late(t2)
  BY <1>6, <1>7
<1> DEFINE l1 == late(t1)
           l2 == late(t2)
           c1 == Min({l1, t1})
           c2 == Min({l2, t2})
<1>10. /\ CurveOfPaths(c, period, t1) = IF t1 = 0 THEN 0 ELSE c1
       /\ CurveOfPaths(c, period, t2) = IF t2 = 0 THEN 0 ELSE c2
  BY <1>8
<1>11. l1 \in Int /\ l2 \in Int /\ l1 \in Nat /\ l2 \in Nat /\ l1 <= l2 /\ t1 \in Int /\ t2 \in Int
  BY <1>9
<1> HIDE DEF l1, l2
<1>12. c1 \in Int /\ c1 <= l1 /\ c1 <= t1 /\ (c1 = l1 \/ c1 = t1)
  BY <1>11, MinOfTwo, Zenon
<1>13. c2 \in Int /\ c2 <= l2 /\ c2 <= t2 /\ (c2 = l2 \/ c2 = t2)
  BY <1>11, MinOfTwo, Zenon
<1> HIDE DEF c1, c2
<1> QED  BY <1>10, <1>11, <1>12, <1>13

\* maxAccessCyclesPerTimeInterval() grows with the window, whichever way it is computed.
LEMMA CurveMonotone ==
  ASSUME NEW c \in Cores, NEW a, a.accessBound \in Nat, a.effectivePeriod \in Nat,
         NEW t1 \in Bound, NEW t2 \in Bound, NoGreater(t1, t2)
  PROVE  /\ MaxAccessCyclesPer(c, a, t1) \in Bound /\ MaxAccessCyclesPer(c, a, t2) \in Bound
         /\ NoGreater(MaxAccessCyclesPer(c, a, t1), MaxAccessCyclesPer(c, a, t2))
<1> DEFINE r(t) == CurveOfRuns(c, a.accessBound, a.effectivePeriod, t)
           p(t) == CurveOfPaths(c, a.effectivePeriod, t)
<1>1. infinity \notin Nat
  BY DEF infinity
<1>2. \A t : MaxAccessCyclesPer(c, a, t) =
        IF SkipsCurve(c) THEN t ELSE IF t = infinity THEN infinity
        ELSE IF option.curve = "PROGRAM_GRANULARITY" THEN r(t) ELSE p(t)
  BY DEF MaxAccessCyclesPer
<1>3. ASSUME NEW x \in Nat, NEW y \in Nat, x <= y
      PROVE  r(x) \in Nat /\ r(y) \in Nat /\ r(x) <= r(y)
  BY <1>3, CurveOfRunsOK
<1>4. ASSUME NEW x \in Nat, NEW y \in Nat, x <= y
      PROVE  p(x) \in Nat /\ p(y) \in Nat /\ p(x) <= p(y)
  BY <1>4, CurveOfPathsOK
<1> HIDE DEF r, p
<1>5. CASE t1 = infinity
  <2>1. t2 = infinity
    BY <1>5 DEF NoGreater
  <2>2. MaxAccessCyclesPer(c, a, infinity) = infinity
    BY <1>2
  <2> QED  BY <1>5, <2>1, <2>2 DEF Bound, NoGreater
<1>6. CASE t1 # infinity /\ t2 = infinity
  <2>1. t1 \in Nat /\ t1 <= t1
    BY <1>6 DEF Bound
  <2>2. MaxAccessCyclesPer(c, a, t2) = infinity
    BY <1>2, <1>6
  <2>3. MaxAccessCyclesPer(c, a, t1) \in Nat
    BY <1>2, <1>3, <1>4, <1>6, <2>1
  <2> QED  BY <2>2, <2>3 DEF Bound, NoGreater
<1>7. CASE t1 # infinity /\ t2 # infinity
  <2>1. t1 \in Nat /\ t2 \in Nat /\ t1 <= t2
    BY <1>7 DEF Bound, NoGreater
  <2>2. /\ MaxAccessCyclesPer(c, a, t1) \in Nat /\ MaxAccessCyclesPer(c, a, t2) \in Nat
        /\ MaxAccessCyclesPer(c, a, t1) <= MaxAccessCyclesPer(c, a, t2)
    <3>1. r(t1) \in Nat /\ r(t2) \in Nat /\ r(t1) <= r(t2)
      BY <1>3, <2>1
    <3>2. p(t1) \in Nat /\ p(t2) \in Nat /\ p(t1) <= p(t2)
      BY <1>4, <2>1
    <3>3. MaxAccessCyclesPer(c, a, t1) =
            IF SkipsCurve(c) THEN t1 ELSE IF option.curve = "PROGRAM_GRANULARITY" THEN r(t1) ELSE p(t1)
      BY <1>2, <1>7
    <3>4. MaxAccessCyclesPer(c, a, t2) =
            IF SkipsCurve(c) THEN t2 ELSE IF option.curve = "PROGRAM_GRANULARITY" THEN r(t2) ELSE p(t2)
      BY <1>2, <1>7
    <3> QED  BY <2>1, <3>1, <3>2, <3>3, <3>4
  <2> QED  BY <1>1, <2>2 DEF Bound, NoGreater
<1> QED  BY <1>5, <1>6, <1>7

\* The period is a number, relative or not.
LEMMA EffectivePeriodOK ==
  ASSUME NEW c \in Cores, option \in Options
  PROVE  EffectivePeriod(c) \in Nat
<1> DEFINE x == IF HasPeriodRel(c) THEN RelativePeriod(c) ELSE option.period[c]
           y == BcetBound(c)
<1>1. y \in Nat
  BY RunNumbers DEF BcetBound
<1>2. option.period[c] \in Nat /\ option.rel[c].num \in Int /\ option.rel[c].den \in Nat
  BY OptionsAssumption
<1>3. x \in Int
  <2>1. CASE HasPeriodRel(c)
    <3> DEFINE u == UbTime(c, infinity, infinity)
               v == UbTime(c, 0, 0)
               num == option.rel[c].num
               den == option.rel[c].den
    <3>1. u \in Nat /\ v \in Nat
      <4>1. infinity \in Bound /\ 0 \in Bound
        BY DEF Bound
      <4> QED  BY <4>1, UbTimeIsLongest
    <3>2. RelativePeriod(c) =
            IF option.relToIgnoringInterference THEN (num * v) \div den
            ELSE IF num < den THEN (num * (u - v)) \div den + v ELSE (num * u) \div den
      BY DEF RelativePeriod
    <3>3. num \in Int /\ den \in Nat \ {0}
      BY <1>2, <2>1 DEF HasPeriodRel
    <3> HIDE DEF u, v, num, den
    <3>4. num * v \in Int /\ num * (u - v) \in Int /\ num * u \in Int
      BY <3>1, <3>3
    <3>5. \A n \in Int : n \div den \in Int
      BY <3>3
    <3>6. (num * v) \div den \in Int /\ (num * (u - v)) \div den + v \in Int /\ (num * u) \div den \in Int
      BY <3>1, <3>4, <3>5
    <3>7. RelativePeriod(c) \in Int
      BY <3>2, <3>6
    <3> QED  BY <2>1, <3>7
  <2>2. CASE ~HasPeriodRel(c)
    BY <1>2, <2>2
  <2> QED  BY <2>1, <2>2
<1>4. EffectivePeriod(c) = Max({x, y})
  BY DEF EffectivePeriod
<1>5. x \in Int /\ y \in Int
  BY <1>1, <1>3
<1> HIDE DEF x, y
<1> DEFINE m == Max({x, y})
<1>6. m \in Int /\ y <= m
  BY <1>5, MaxOfTwo, Zenon
<1> HIDE DEF m
<1>7. m \in Nat
  BY <1>1, <1>6
<1> QED  BY <1>4, <1>7 DEF m

-----------------------------------------------------------------------------
(* The rounds: the inductive invariant *)

AnalysisType ==
  [pc : {"start", "reads WCET bounds", "reads access cycle bounds", "asks for changes", "done"},
   round : 0 .. 3, wcetBound : Bound, previousWcetBound : Bound, blockingBound : Bound,
   concAccessesBound : Bound, accessBound : Nat, recalculate : BOOLEAN, effectivePeriod : Nat,
   warned : BOOLEAN]
PrintedType ==
  [wcetBound : (0 .. 3) \X Bound, accessCycleBounds : (0 .. 3) \X [Cores -> Bound],
   changed : (0 .. 3) \X BOOLEAN]

Started(c) == analysis[c].pc # "start"
\* How far an analysis is in its round.
Stage(c) ==
  IF analysis[c].pc = "reads WCET bounds" THEN 0
  ELSE IF analysis[c].pc = "reads access cycle bounds" THEN 1 ELSE 2
Preceding(round) == (round + 3) % 4
Reached(c) == analysis[c].round

StartBound == IF Greatest THEN infinity ELSE 0
\* y lies from x in the direction of the iteration.
Towards(x, y) == IF Greatest THEN NoGreater(y, x) ELSE NoGreater(x, y)
\* The arrival curve of d.
Settled(d) == [accessBound |-> AccessBound(d), effectivePeriod |-> EffectivePeriod(d)]
Curve(d, time) == MaxAccessCyclesPer(d, Settled(d), time)

PrintedWcet(c) == printed[c].wcetBound[2]
\* How long d says it can use the bus in the window of c.
AccessCycles(d, c) == printed[d].accessCycleBounds[2][c]
ReadBounds(c) == [d \in Cores |-> AccessCycles(d, c)]

\* Before all analyses have started none of them gets beyond the first exchange.
StartsTogether ==
  (\E c \in Cores : ~Started(c)) =>
    \A c \in Cores : Started(c) => Stage(c) = 0 /\ Reached(c) = 1
NotStarted(c) == analysis[c] = AtStart /\ printed[c] = Nothing

Tags(c) ==
  /\ printed[c].wcetBound[1] = Reached(c)
  /\ printed[c].accessCycleBounds[1] = IF Stage(c) = 0 THEN Preceding(Reached(c)) ELSE Reached(c)
  /\ printed[c].changed[1] = IF Stage(c) = 2 THEN Reached(c) ELSE Preceding(Reached(c))
  /\ Stage(c) = 2 => printed[c].changed[2] = Changed(analysis[c])
  /\ analysis[c].pc = "done" => ~printed[c].changed[2]

OwnBounds(c) ==
  LET a == analysis[c]
  IN  /\ a.accessBound = AccessBound(c) /\ a.effectivePeriod = EffectivePeriod(c)
      /\ ~a.warned
      /\ a.wcetBound = WcetBound(c, a.blockingBound, a.concAccessesBound)
      /\ PrintedWcet(c) = IF Stage(c) = 2 THEN a.previousWcetBound ELSE a.wcetBound
      /\ Stage(c) = 2 => /\ Towards(a.previousWcetBound, a.wcetBound)
                         /\ a.previousWcetBound = infinity <=> a.wcetBound = infinity

\* The bounds on the blocking follow from access cycle bounds that what the others print
\* has since moved on from, and that has in turn moved to what they would print now.
Follows(c, used) ==
  /\ analysis[c].blockingBound = BlockingBound(c, Settled(c), used)
  /\ analysis[c].concAccessesBound = ConcAccessesBound(c, Settled(c), used)
  /\ \A d \in Conc(c) : /\ Towards(used[d], AccessCycles(d, c))
                        /\ Towards(AccessCycles(d, c), Curve(d, PrintedWcet(c)))
UsedBounds(c) ==
  \/ analysis[c].blockingBound = StartBound /\ analysis[c].concAccessesBound = StartBound
  \/ \E used \in [Conc(c) -> Bound] : Follows(c, used)

\* A bound on the blocking that is recalculated is that of the bounds read.
UpToDate(c) ==
  Stage(c) = 2 /\ analysis[c].wcetBound # infinity =>
    /\ analysis[c].blockingBound = BlockingBound(c, Settled(c), ReadBounds(c))
    /\ analysis[c].concAccessesBound = ConcAccessesBound(c, Settled(c), ReadBounds(c))

\* Two analyses are in the same round, or one has gone on to the next one.
Ahead(d, c) == Reached(d) = Following(Reached(c))
InStep(c, d) ==
  \/ /\ Reached(c) = Reached(d)
     /\ ~ (Stage(c) = 0 /\ Stage(d) = 2) /\ ~ (Stage(c) = 2 /\ Stage(d) = 0)
  \/ Ahead(d, c) /\ Stage(d) = 0 /\ Stage(c) # 0
  \/ Ahead(c, d) /\ Stage(c) = 0 /\ Stage(d) # 0

\* In the round of c, d has printed the curve for what c has printed.
Answered(c, d) ==
  printed[d].accessCycleBounds[1] = Reached(c) => AccessCycles(d, c) = Curve(d, PrintedWcet(c))

\* Nobody goes on without a change that the others will see.
SomeChange(c, d) ==
  Ahead(d, c) => \E e \in Cores : printed[e].changed = <<Reached(c), TRUE>>
AllUnchanged(c, d) ==
  analysis[c].pc = "done" => Reached(d) = Reached(c) /\ Stage(d) = 2 /\ ~Changed(analysis[d])

Together(c, d) == InStep(c, d) /\ Answered(c, d) /\ SomeChange(c, d) /\ AllUnchanged(c, d)
Alone(c) == Tags(c) /\ OwnBounds(c) /\ UsedBounds(c) /\ UpToDate(c)

Rounds ==
  /\ analysis \in [Cores -> AnalysisType] /\ printed \in [Cores -> PrintedType]
  /\ StartsTogether
  /\ \A c \in Cores : IF Started(c) THEN Alone(c) ELSE NotStarted(c)
  /\ \A c, d \in Cores : c # d /\ Started(c) /\ Started(d) => Together(c, d)

RoundsInv ==
  /\ option \in Options /\ launched \in Cores \cup {0}
  /\ launched = 0 => Rounds
  /\ launched # 0 => \A c \in Cores : ~Started(c) /\ ~analysis[c].warned

-----------------------------------------------------------------------------
(* The direction of the iteration *)

\* Four numbers tell apart the rounds before and after a round.
LEMMA RoundNumbers ==
  ASSUME NEW r \in 0 .. 3
  PROVE  /\ Following(r) \in 0 .. 3 /\ Preceding(r) \in 0 .. 3
         /\ Preceding(Following(r)) = r /\ Following(Preceding(r)) = r
         /\ Following(r) # r /\ Following(Following(r)) # r /\ Preceding(r) # r
         /\ Preceding(r) # Following(r) /\ Following(Following(r)) = Preceding(Preceding(r))
<1>1. r = 0 \/ r = 1 \/ r = 2 \/ r = 3
  OBVIOUS
<1> QED  BY <1>1 DEF Following, Preceding

\* What stands for infinity is not mistaken for a number of cycles.
LEMMA InfinityIsNoNumber == infinity \notin Nat /\ infinity \in Bound /\ 0 \in Bound
  BY DEF infinity, Bound

\* The direction of the iteration is an order that begins at the start.
LEMMA TowardsOrder ==
  /\ \A x \in Bound : Towards(x, x) /\ Towards(StartBound, x)
  /\ StartBound \in Bound
  /\ \A x, y, z \in Bound : Towards(x, y) /\ Towards(y, z) => Towards(x, z)
  BY DEF Towards, NoGreater, Bound, StartBound, infinity

\* The arrival curve of a core has numbers for parameters.
LEMMA SettledOK ==
  ASSUME NEW c \in Cores, option \in Options
  PROVE  /\ Settled(c).accessBound \in Nat /\ Settled(c).effectivePeriod \in Nat
         /\ Settled(c).accessBound = AccessBound(c) /\ Settled(c).effectivePeriod = EffectivePeriod(c)
  BY RunNumbers, EffectivePeriodOK DEF Settled

\* Windows that move in the direction of the iteration take their access cycles with them.
LEMMA CurveTowards ==
  ASSUME option \in Options, NEW d \in Cores, NEW x \in Bound, NEW y \in Bound
  PROVE  /\ Curve(d, x) \in Bound /\ Curve(d, y) \in Bound
         /\ Towards(x, y) => Towards(Curve(d, x), Curve(d, y))
<1>1. Settled(d).accessBound \in Nat /\ Settled(d).effectivePeriod \in Nat
  BY SettledOK
<1>2. ASSUME NEW u \in Bound, NEW v \in Bound, NoGreater(u, v)
      PROVE  /\ Curve(d, u) \in Bound /\ Curve(d, v) \in Bound
             /\ NoGreater(Curve(d, u), Curve(d, v))
  BY <1>1, <1>2, CurveMonotone DEF Curve
<1>3. ASSUME NEW u \in Bound PROVE NoGreater(u, u)
  BY DEF NoGreater, Bound
<1> QED  BY <1>2, <1>3 DEF Towards

\* A WCET bound is infinite if and only if it is not computed at all.
LEMMA WcetBoundOK ==
  ASSUME NEW c \in Cores, NEW b \in Bound, NEW k \in Bound
  PROVE  /\ WcetBound(c, b, k) \in Bound
         /\ WcetBound(c, b, k) = infinity <=> SkipsWcetBound(c)
         /\ ~SkipsWcetBound(c) => WcetBound(c, b, k) = UbTime(c, b, k) /\ UbTime(c, b, k) \in Nat
<1>1. UbTime(c, b, k) \in Nat
  BY UbTimeIsLongest
<1> QED  BY <1>1, InfinityIsNoNumber DEF WcetBound, Bound

\* Blocking that moves in the direction of the iteration takes the WCET bound with it.
LEMMA WcetBoundTowards ==
  ASSUME NEW c \in Cores, NEW b1 \in Bound, NEW k1 \in Bound, NEW b2 \in Bound, NEW k2 \in Bound,
         Towards(b1, b2), Towards(k1, k2)
  PROVE  Towards(WcetBound(c, b1, k1), WcetBound(c, b2, k2))
<1>1. CASE SkipsWcetBound(c)
  BY <1>1 DEF WcetBound, Towards, NoGreater
<1>2. CASE ~SkipsWcetBound(c)
  <2>1. /\ WcetBound(c, b1, k1) = UbTime(c, b1, k1) /\ UbTime(c, b1, k1) \in Nat
        /\ WcetBound(c, b2, k2) = UbTime(c, b2, k2) /\ UbTime(c, b2, k2) \in Nat
    BY <1>2, WcetBoundOK
  <2>2. CASE Greatest
    <3>1. NoGreater(b2, b1) /\ NoGreater(k2, k1)
      BY <2>2 DEF Towards
    <3>2. UbTime(c, b2, k2) <= UbTime(c, b1, k1)
      BY <3>1, UbTimeMonotone
    <3> QED  BY <2>1, <2>2, <3>2, InfinityIsNoNumber DEF Towards, NoGreater
  <2>3. CASE ~Greatest
    <3>1. NoGreater(b1, b2) /\ NoGreater(k1, k2)
      BY <2>3 DEF Towards
    <3>2. UbTime(c, b1, k1) <= UbTime(c, b2, k2)
      BY <3>1, UbTimeMonotone
    <3> QED  BY <2>1, <2>3, <3>2, InfinityIsNoNumber DEF Towards, NoGreater
  <2> QED  BY <2>2, <2>3
<1> QED  BY <1>1, <1>2

\* The bounds on the blocking that follow from what is read next, as against the ones in
\* use: they lie in the direction of the iteration, and one of them does not change alone.
BlockingMovesOn(c, a, bounds) ==
  /\ Towards(a.blockingBound, BlockingBound(c, a, bounds))
  /\ Towards(a.concAccessesBound, ConcAccessesBound(c, a, bounds))
  /\ a.blockingBound = BlockingBound(c, a, bounds) => a.concAccessesBound = ConcAccessesBound(c, a, bounds)

\* The first bounds on the blocking that are computed are moved on to from the start.
LEMMA FromTheStart ==
  ASSUME NEW c \in Cores, NEW a, a.accessBound \in Nat,
         NEW bounds, \A d \in Conc(c) : bounds[d] \in Bound,
         a.blockingBound = StartBound, a.concAccessesBound = StartBound
  PROVE  BlockingMovesOn(c, a, bounds)
<1>1. /\ BlockingBound(c, a, bounds) \in Nat /\ ConcAccessesBound(c, a, bounds) \in Nat
  BY BlockingOK
<1>2. BlockingBound(c, a, bounds) = 0 => ConcAccessesBound(c, a, bounds) = 0
  BY BlockingExtremes
<1>3. BlockingBound(c, a, bounds) \in Bound /\ ConcAccessesBound(c, a, bounds) \in Bound
  BY <1>1 DEF Bound
<1>4. a.blockingBound = BlockingBound(c, a, bounds) => a.concAccessesBound = ConcAccessesBound(c, a, bounds)
  BY <1>1, <1>2, InfinityIsNoNumber DEF StartBound
<1> QED  BY <1>3, <1>4, TowardsOrder DEF BlockingMovesOn

\* Later ones are moved on to if what they are computed from has moved on.
LEMMA FromUsedBounds ==
  ASSUME NEW c \in Cores, NEW a, a.accessBound \in Nat,
         NEW bounds, NEW used,
         \A d \in Conc(c) : used[d] \in Bound /\ bounds[d] \in Bound /\ Towards(used[d], bounds[d]),
         a.blockingBound = BlockingBound(c, a, used), a.concAccessesBound = ConcAccessesBound(c, a, used)
  PROVE  BlockingMovesOn(c, a, bounds)
<1>1. /\ BlockingBound(c, a, bounds) \in Nat /\ ConcAccessesBound(c, a, bounds) \in Nat
  BY BlockingOK
<1>2. /\ BlockingBound(c, a, used) \in Nat /\ ConcAccessesBound(c, a, used) \in Nat
  BY BlockingOK
<1>3. CASE Greatest
  <2>1. \A d \in Conc(c) : bounds[d] \in Bound /\ used[d] \in Bound /\ NoGreater(bounds[d], used[d])
    BY <1>3 DEF Towards
  <2>2. /\ BlockingBound(c, a, bounds) <= BlockingBound(c, a, used)
        /\ ConcAccessesBound(c, a, bounds) <= ConcAccessesBound(c, a, used)
        /\ BlockingBound(c, a, bounds) = BlockingBound(c, a, used)
              => ConcAccessesBound(c, a, bounds) = ConcAccessesBound(c, a, used)
    BY <2>1, BlockingMonotone
  <2> QED  BY <1>1, <1>2, <1>3, <2>2, InfinityIsNoNumber DEF Towards, NoGreater, BlockingMovesOn
<1>4. CASE ~Greatest
  <2>1. \A d \in Conc(c) : used[d] \in Bound /\ bounds[d] \in Bound /\ NoGreater(used[d], bounds[d])
    BY <1>4 DEF Towards
  <2>2. /\ BlockingBound(c, a, used) <= BlockingBound(c, a, bounds)
        /\ ConcAccessesBound(c, a, used) <= ConcAccessesBound(c, a, bounds)
        /\ BlockingBound(c, a, used) = BlockingBound(c, a, bounds)
              => ConcAccessesBound(c, a, used) = ConcAccessesBound(c, a, bounds)
    BY <2>1, BlockingMonotone
  <2> QED  BY <1>1, <1>2, <1>4, <2>2, InfinityIsNoNumber DEF Towards, NoGreater, BlockingMovesOn
<1> QED  BY <1>3, <1>4

\* What the rest of a round makes of the variables of an analysis.
Recalculated(c, a, n, bounds) ==
  /\ n \in AnalysisType /\ n.round = a.round
  /\ n.accessBound = a.accessBound /\ n.effectivePeriod = a.effectivePeriod
  /\ ~n.warned
  /\ n.wcetBound = WcetBound(c, n.blockingBound, n.concAccessesBound)
  /\ n.previousWcetBound = a.wcetBound
  /\ Towards(a.wcetBound, n.wcetBound)
  /\ a.wcetBound = infinity <=> n.wcetBound = infinity
  /\ IF a.wcetBound = infinity
     THEN n.blockingBound = a.blockingBound /\ n.concAccessesBound = a.concAccessesBound
     ELSE /\ n.blockingBound = BlockingBound(c, a, bounds)
          /\ n.concAccessesBound = ConcAccessesBound(c, a, bounds)

\* A bound is recalculated unless that would yield the same one.
LEMMA NothingIsLost ==
  ASSUME NEW c \in Cores, NEW a \in AnalysisType, a.accessBound = AccessBound(c),
         option \in Options, ~SkipsWcetBound(c),
         NEW bounds, \A d \in Conc(c) : bounds[d] \in Bound,
         a.wcetBound = WcetBound(c, a.blockingBound, a.concAccessesBound),
         BlockingMovesOn(c, a, bounds), ~Recalculates(a, BlockingBound(c, a, bounds))
  PROVE  WcetBound(c, BlockingBound(c, a, bounds), ConcAccessesBound(c, a, bounds)) = a.wcetBound
<1> DEFINE b == BlockingBound(c, a, bounds)
           k == ConcAccessesBound(c, a, bounds)
           b0 == a.blockingBound
           k0 == a.concAccessesBound
           limit == a.accessBound * BusLatency * NumConcurrentCores
<1>1. a.accessBound \in Nat /\ b0 \in Bound /\ k0 \in Bound
  BY DEF AnalysisType
<1>2. b \in Nat /\ k \in Nat /\ b <= BusLatency * k
  BY <1>1, BlockingOK
<1>3. limit <= b => NumConcurrentCores * a.accessBound <= k
  BY <1>1, BlockingExtremes
<1>4. Towards(b0, b) /\ Towards(k0, k) /\ (b0 = b => k0 = k)
  BY DEF BlockingMovesOn
<1>5. limit \in Nat /\ limit = MaxBlockingPerAccess * AccessBound(c)
  <2>1. BusLatency \in Nat /\ NumConcurrentCores \in Nat /\ a.accessBound \in Nat
        /\ MaxBlockingPerAccess = NumConcurrentCores * BusLatency
    BY <1>1, CoresBasics
  <2>2. \A x, y, z \in Nat : x * y * z \in Nat /\ x * y * z = (z * y) * x
    OBVIOUS
  <2> QED  BY <2>1, <2>2
<1>6. b \in Bound /\ k \in Bound
  BY <1>2 DEF Bound
<1> HIDE DEF b, k, b0, k0, limit
<1>7. /\ a.wcetBound = UbTime(c, b0, k0) /\ UbTime(c, b0, k0) \in Nat
      /\ WcetBound(c, b, k) = UbTime(c, b, k) /\ UbTime(c, b, k) \in Nat
  BY <1>1, <1>6, WcetBoundOK DEF b0, k0
<1>8. SUFFICES UbTime(c, b, k) = UbTime(c, b0, k0)
  BY <1>7 DEF b, k
<1>9. CASE b0 = b
  BY <1>4, <1>9
<1>10. CASE b0 # b /\ Greatest
  <2>1. b0 = infinity \/ b < b0
    BY <1>1, <1>2, <1>4, <1>10 DEF Towards, NoGreater, Bound
  <2>2. ~ (b < a.wcetBound) \/ ~ (b < limit)
    BY <1>2, <1>10, <2>1, InfinityIsNoNumber DEF Recalculates, b, b0, limit
  <2>3. UbTime(c, b0, k0) <= UbTime(c, b, k)
    <3>1. CASE ~ (b < a.wcetBound)
      <4>1. UbTime(c, b0, k0) <= b
        BY <1>2, <1>7, <3>1
      <4> QED  BY <1>1, <1>2, <4>1, BlockingWithinTime
    <3>2. CASE ~ (b < limit)
      <4>1. MaxBlockingPerAccess * AccessBound(c) <= b
        BY <1>2, <1>5, <3>2
      <4>2. NumConcurrentCores * AccessBound(c) <= k
        BY <1>2, <1>3, <1>5, <4>1
      <4> QED  BY <1>1, <1>2, <4>1, <4>2, FullBlocking
    <3> QED  BY <2>2, <3>1, <3>2
  <2>4. UbTime(c, b, k) <= UbTime(c, b0, k0)
    <3>1. NoGreater(b, b0) /\ NoGreater(k, k0)
      BY <1>4, <1>10 DEF Towards
    <3> QED  BY <1>1, <1>6, <3>1, UbTimeMonotone
  <2> QED  BY <1>7, <2>3, <2>4
<1>11. CASE b0 # b /\ ~Greatest
  <2>1. b0 < b
    BY <1>1, <1>2, <1>4, <1>11, InfinityIsNoNumber DEF Towards, NoGreater, Bound
  <2> QED  BY <1>1, <1>2, <1>11, <2>1 DEF Recalculates, b, b0
<1> QED  BY <1>9, <1>10, <1>11

\* calcBlockingBound() and calcWCETBound() move the WCET bound in the direction of the
\* iteration, without a warning, and to what the bounds read yield.
LEMMA RecalculatedOK ==
  ASSUME NEW c \in Cores, NEW a \in AnalysisType, a.accessBound = AccessBound(c), ~a.warned,
         option \in Options,
         NEW bounds, \A d \in Conc(c) : bounds[d] \in Bound,
         a.wcetBound = WcetBound(c, a.blockingBound, a.concAccessesBound),
         BlockingMovesOn(c, a, bounds)
  PROVE  Recalculated(c, a, CalcWcetBound(c, CalcBlockingBound(c, a, bounds)), bounds)
<1> DEFINE a1 == CalcBlockingBound(c, a, bounds)
           n == CalcWcetBound(c, a1)
           b == BlockingBound(c, a, bounds)
           k == ConcAccessesBound(c, a, bounds)
           new == IF a1.recalculate THEN WcetBound(c, a1.blockingBound, a1.concAccessesBound) ELSE a1.wcetBound
           kept == IF Retreats(a1.wcetBound, new) THEN a1.wcetBound ELSE new
           warned == a1.warned \/ Retreats(a1.wcetBound, new)
<1>1. /\ a.accessBound \in Nat /\ a.blockingBound \in Bound /\ a.concAccessesBound \in Bound
      /\ a.wcetBound \in Bound /\ a.warned \in BOOLEAN
  BY DEF AnalysisType
<1>2. b \in Nat /\ k \in Nat /\ b \in Bound /\ k \in Bound
  BY <1>1, BlockingOK DEF Bound
<1>3. n = [a1 EXCEPT !.previousWcetBound = a1.wcetBound, !.wcetBound = kept, !.warned = warned]
  BY DEF CalcWcetBound
<1>4. \A x \in Bound : ~Retreats(x, x)
  BY DEF Bound, Retreats, infinity
<1>5. CASE a.wcetBound = infinity
  <2>1. a1 = [a EXCEPT !.recalculate = FALSE]
    BY <1>5 DEF CalcBlockingBound
  <2>2. /\ a1 \in AnalysisType /\ ~a1.recalculate /\ a1.round = a.round /\ ~a1.warned
        /\ a1.accessBound = a.accessBound /\ a1.effectivePeriod = a.effectivePeriod
        /\ a1.wcetBound = a.wcetBound /\ a1.blockingBound = a.blockingBound
        /\ a1.concAccessesBound = a.concAccessesBound
    BY <2>1 DEF AnalysisType
  <2> HIDE DEF a1, n
  <2>3. new = a.wcetBound
    BY <2>2
  <2>4. kept = a.wcetBound /\ warned = FALSE
    BY <1>1, <1>4, <2>2, <2>3
  <2> HIDE DEF new, kept, warned
  <2>5. n \in AnalysisType
    BY <1>1, <1>3, <2>2, <2>4 DEF AnalysisType
  <2>6. /\ n.round = a.round /\ n.accessBound = a.accessBound /\ n.effectivePeriod = a.effectivePeriod
        /\ ~n.warned /\ n.wcetBound = a.wcetBound /\ n.previousWcetBound = a.wcetBound
        /\ n.blockingBound = a.blockingBound /\ n.concAccessesBound = a.concAccessesBound
    BY <1>3, <2>2, <2>4 DEF AnalysisType
  <2>7. Towards(a.wcetBound, a.wcetBound)
    BY <1>1, TowardsOrder
  <2> QED  BY <1>5, <2>5, <2>6, <2>7 DEF Recalculated, n, a1
<1>6. CASE a.wcetBound # infinity
  <2>1. ~SkipsWcetBound(c) /\ a.wcetBound \in Nat
    BY <1>1, <1>6, WcetBoundOK DEF Bound
  <2>2. a1 = [a EXCEPT !.recalculate = Recalculates(a, b), !.blockingBound = b, !.concAccessesBound = k]
    BY <1>6 DEF CalcBlockingBound
  <2>3. Recalculates(a, b) \in BOOLEAN
    BY DEF Recalculates
  <2> DEFINE rec == Recalculates(a, b)
  <2> HIDE DEF rec, b, k
  <2>4. /\ a1 \in AnalysisType /\ a1.round = a.round /\ ~a1.warned
        /\ a1.accessBound = a.accessBound /\ a1.effectivePeriod = a.effectivePeriod
        /\ a1.wcetBound = a.wcetBound /\ a1.blockingBound = b /\ a1.concAccessesBound = k
        /\ a1.recalculate = rec
    BY <1>2, <2>2, <2>3 DEF AnalysisType, rec
  <2> DEFINE w == WcetBound(c, b, k)
  <2>5. w \in Nat /\ w \in Bound /\ w # infinity
    BY <1>2, <2>1, WcetBoundOK DEF Bound
  <2>6. Towards(a.wcetBound, w)
    <3>1. Towards(a.blockingBound, b) /\ Towards(a.concAccessesBound, k)
      BY DEF BlockingMovesOn, b, k
    <3> QED  BY <1>1, <1>2, <3>1, WcetBoundTowards
  <2>7. ~rec => w = a.wcetBound
    BY <2>1, NothingIsLost DEF rec, b, k
  <2> HIDE DEF a1, n
  <2>8. new = w
    BY <2>4, <2>7
  <2>9. ~Retreats(a.wcetBound, w)
    <3>1. (Greatest => w <= a.wcetBound) /\ (~Greatest => a.wcetBound <= w)
      BY <2>1, <2>5, <2>6, InfinityIsNoNumber DEF Towards, NoGreater
    <3>2. Least => ~Greatest
      BY DEF Least, Greatest
    <3> QED  BY <2>1, <2>5, <3>1, <3>2 DEF Retreats
  <2>10. kept = w /\ warned = FALSE
    BY <1>1, <2>4, <2>8, <2>9
  <2> HIDE DEF new, kept, warned, w
  <2>11. n \in AnalysisType
    BY <1>1, <1>3, <2>4, <2>5, <2>10 DEF AnalysisType
  <2>12. /\ n.round = a.round /\ n.accessBound = a.accessBound /\ n.effectivePeriod = a.effectivePeriod
         /\ ~n.warned /\ n.wcetBound = w /\ n.previousWcetBound = a.wcetBound
         /\ n.blockingBound = b /\ n.concAccessesBound = k
    BY <1>3, <2>4, <2>10 DEF AnalysisType
  <2> QED  BY <1>6, <2>5, <2>6, <2>11, <2>12 DEF Recalculated, n, a1, w, b, k
<1> QED  BY <1>5, <1>6

-----------------------------------------------------------------------------
(* What a step of another one leaves alone *)

\* Nothing of the options changes, and nothing that follows from them.
LEMMA OptionUnchanged ==
  ASSUME option' = option
  PROVE  /\ Greatest' = Greatest /\ StartBound' = StartBound
         /\ \A x, y : Towards(x, y)' = Towards(x, y)
         /\ \A c : EffectivePeriod(c)' = EffectivePeriod(c) /\ Settled(c)' = Settled(c)
         /\ \A c, b, k : WcetBound(c, b, k)' = WcetBound(c, b, k)
         /\ \A a : Changed(a)' = Changed(a)
         /\ AtStart' = AtStart
<1>1. Greatest' = Greatest /\ Least' = Least
  BY DEF Greatest, Least
<1>2. \A x, y : Towards(x, y)' = Towards(x, y)
  BY <1>1 DEF Towards
<1>3. \A c : EffectivePeriod(c)' = EffectivePeriod(c)
  BY DEF EffectivePeriod, HasPeriodRel, RelativePeriod, BcetBound, CalculatesBcet, SkipsCurve
<1>4. \A c : Settled(c)' = Settled(c)
  BY <1>3 DEF Settled
<1>5. \A c, b, k : WcetBound(c, b, k)' = WcetBound(c, b, k)
  BY DEF WcetBound, SkipsWcetBound
<1>6. \A a : Changed(a)' = Changed(a)
  BY <1>1 DEF Changed
<1>7. AtStart' = AtStart /\ StartBound' = StartBound
  BY <1>1 DEF AtStart, StartBound
<1> QED  BY <1>1, <1>2, <1>3, <1>4, <1>5, <1>6, <1>7

\* So are the arrival curves, which look at the options for the period and the objective.
LEMMA CurveUnchanged ==
  ASSUME option' = option, NEW d, NEW t
  PROVE  Curve(d, t)' = Curve(d, t)
<1>1. Settled(d)' = Settled(d)
  BY OptionUnchanged
<1>2. \A p, period : KeepsPeriod(p, period)' <=> KeepsPeriod(p, period)
  BY DEF KeepsPeriod
<1>3. \A p, time : Objective(p, time)' = Objective(p, time)
  BY DEF Objective
<1>4. ASSUME NEW period, NEW time PROVE CurveOfPaths(d, period, time)' = CurveOfPaths(d, period, time)
  <2>1. {Objective(p, time)' : p \in {q \in Paths[d] : q.inner <= time /\ KeepsPeriod(q, period)'}}
          = {Objective(p, time) : p \in {q \in Paths[d] : q.inner <= time /\ KeepsPeriod(q, period)}}
    BY <1>2, <1>3
  <2> QED  BY <2>1 DEF CurveOfPaths
<1>5. ASSUME NEW a PROVE MaxAccessCyclesPer(d, a, t)' = MaxAccessCyclesPer(d, a, t)
  BY <1>4 DEF MaxAccessCyclesPer, SkipsCurve
<1> QED  BY <1>1, <1>5 DEF Curve

\* Only one analysis takes a step.
StepOf(c) ==
  /\ option' = option
  /\ analysis' \in [Cores -> AnalysisType] /\ printed' \in [Cores -> PrintedType]
  /\ \A d \in Cores \ {c} : analysis'[d] = analysis[d] /\ printed'[d] = printed[d]

\* The types of what an analysis keeps and prints.
LEMMA TypesUse ==
  ASSUME Rounds, NEW c \in Cores
  PROVE  /\ analysis[c] \in AnalysisType /\ Reached(c) \in 0 .. 3 /\ Stage(c) \in {0, 1, 2}
         /\ analysis[c].wcetBound \in Bound /\ analysis[c].previousWcetBound \in Bound
         /\ printed[c] \in PrintedType /\ printed[c].wcetBound \in (0 .. 3) \X Bound
         /\ printed[c].accessCycleBounds \in (0 .. 3) \X [Cores -> Bound]
         /\ printed[c].changed \in (0 .. 3) \X BOOLEAN
         /\ PrintedWcet(c) \in Bound /\ \A d \in Cores : AccessCycles(c, d) \in Bound
<1>1. analysis[c] \in AnalysisType /\ printed[c] \in PrintedType
  BY DEF Rounds
<1>2. /\ analysis[c].round \in 0 .. 3 /\ analysis[c].wcetBound \in Bound
      /\ analysis[c].previousWcetBound \in Bound
  BY <1>1 DEF AnalysisType
<1>3. /\ printed[c].wcetBound \in (0 .. 3) \X Bound
      /\ printed[c].accessCycleBounds \in (0 .. 3) \X [Cores -> Bound]
      /\ printed[c].changed \in (0 .. 3) \X BOOLEAN
  BY <1>1 DEF PrintedType
<1>4. printed[c].accessCycleBounds[2] \in [Cores -> Bound]
  BY <1>3
<1> QED  BY <1>1, <1>2, <1>3, <1>4 DEF Reached, Stage, PrintedWcet, AccessCycles

\* What an analysis prints.
LEMMA OutputOK ==
  ASSUME NEW c \in Cores, NEW q \in PrintedType, printed \in [Cores -> PrintedType],
         printed' = [printed EXCEPT ![c] = q]
  PROVE  printed' \in [Cores -> PrintedType] /\ printed'[c] = q /\ \A d \in Cores \ {c} : printed'[d] = printed[d]
  OBVIOUS

\* What an analysis makes of its variables.
LEMMA AnalysisStepOK ==
  ASSUME NEW c \in Cores, NEW n \in AnalysisType, analysis \in [Cores -> AnalysisType],
         analysis' = [analysis EXCEPT ![c] = n]
  PROVE  analysis' \in [Cores -> AnalysisType] /\ analysis'[c] = n /\ \A d \in Cores \ {c} : analysis'[d] = analysis[d]
  OBVIOUS

\* The parts of a step of c that leave another one alone.
LEMMA OthersUnchanged ==
  ASSUME NEW c \in Cores, StepOf(c), NEW d \in Cores \ {c}
  PROVE  /\ Started(d)' = Started(d) /\ Stage(d)' = Stage(d) /\ Reached(d)' = Reached(d)
         /\ PrintedWcet(d)' = PrintedWcet(d)
         /\ \A e : AccessCycles(d, e)' = AccessCycles(d, e)
         /\ printed'[d] = printed[d] /\ analysis'[d] = analysis[d]
         /\ Tags(d)' = Tags(d) /\ OwnBounds(d)' = OwnBounds(d) /\ NotStarted(d)' = NotStarted(d)
<1>1. analysis'[d] = analysis[d] /\ printed'[d] = printed[d] /\ option' = option
  BY DEF StepOf
<1>2. /\ Started(d)' = Started(d) /\ Stage(d)' = Stage(d) /\ Reached(d)' = Reached(d)
      /\ PrintedWcet(d)' = PrintedWcet(d)
      /\ \A e : AccessCycles(d, e)' = AccessCycles(d, e)
  BY <1>1 DEF Started, Stage, Reached, PrintedWcet, AccessCycles
<1>3. Tags(d)' = Tags(d)
  BY <1>1, <1>2, OptionUnchanged DEF Tags
<1>4. OwnBounds(d)' = OwnBounds(d)
  BY <1>1, <1>2, OptionUnchanged DEF OwnBounds
<1>5. NotStarted(d)' = NotStarted(d)
  <2>1. AtStart' = AtStart
    BY <1>1, OptionUnchanged
  <2> QED  BY <1>1, <2>1 DEF NotStarted, Nothing
<1> QED  BY <1>1, <1>2, <1>3, <1>4, <1>5

\* If c does not print another curve, others keep what they compute from it.
LEMMA OthersKeepBlocking ==
  ASSUME NEW c \in Cores, StepOf(c), NEW d \in Cores \ {c}, AccessCycles(c, d)' = AccessCycles(c, d),
         UsedBounds(d), UpToDate(d)
  PROVE  UsedBounds(d)' /\ UpToDate(d)'
<1>1. /\ analysis'[d] = analysis[d] /\ PrintedWcet(d)' = PrintedWcet(d) /\ Stage(d)' = Stage(d)
  BY OthersUnchanged
<1>2. \A e \in Cores : AccessCycles(e, d)' = AccessCycles(e, d)
  BY OthersUnchanged
<1>3. /\ Settled(d)' = Settled(d) /\ StartBound' = StartBound /\ \A x, y : Towards(x, y)' = Towards(x, y)
  BY OptionUnchanged DEF StepOf
<1>4. \A e, t : Curve(e, t)' = Curve(e, t)
  BY CurveUnchanged DEF StepOf
<1>5. ReadBounds(d)' = ReadBounds(d)
  BY <1>2 DEF ReadBounds
<1>6. UpToDate(d)'
  BY <1>1, <1>3, <1>5 DEF UpToDate
<1>7. \A used : Follows(d, used)' <=> Follows(d, used)
  BY <1>1, <1>2, <1>3, <1>4 DEF Follows, Conc
<1>8. UsedBounds(d)'
  BY <1>1, <1>3, <1>7 DEF UsedBounds
<1> QED  BY <1>6, <1>8

-----------------------------------------------------------------------------
(* Lines that are printed, and what follows from new variables *)

\* Printing replaces one of the three lines.
LEMMA OutputWcetBound ==
  ASSUME NEW c \in Cores, printed \in [Cores -> PrintedType],
         NEW what \in Bound, NEW r \in 0 .. 3, analysis'[c].round = r,
         Output(c, "wcetBound", what)
  PROVE  /\ printed' \in [Cores -> PrintedType] /\ \A d \in Cores \ {c} : printed'[d] = printed[d]
         /\ printed'[c].wcetBound = <<r, what>>
         /\ printed'[c].accessCycleBounds = printed[c].accessCycleBounds
         /\ printed'[c].changed = printed[c].changed
<1> DEFINE q == [printed[c] EXCEPT !["wcetBound"] = <<r, what>>]
<1>1. printed' = [printed EXCEPT ![c] = q]
  BY DEF Output
<1>2. <<r, what>> \in (0 .. 3) \X Bound /\ printed[c] \in PrintedType
  OBVIOUS
<1>3. /\ q \in PrintedType /\ q.wcetBound = <<r, what>>
      /\ q.accessCycleBounds = printed[c].accessCycleBounds /\ q.changed = printed[c].changed
  BY <1>2 DEF PrintedType
<1> HIDE DEF q
<1> QED  BY <1>1, <1>3, OutputOK

\* The same for the line with the access cycle bounds ...
LEMMA OutputAccessCycleBounds ==
  ASSUME NEW c \in Cores, printed \in [Cores -> PrintedType],
         NEW what \in [Cores -> Bound], NEW r \in 0 .. 3, analysis'[c].round = r,
         Output(c, "accessCycleBounds", what)
  PROVE  /\ printed' \in [Cores -> PrintedType] /\ \A d \in Cores \ {c} : printed'[d] = printed[d]
         /\ printed'[c].accessCycleBounds = <<r, what>>
         /\ printed'[c].wcetBound = printed[c].wcetBound
         /\ printed'[c].changed = printed[c].changed
<1> DEFINE q == [printed[c] EXCEPT !["accessCycleBounds"] = <<r, what>>]
<1>1. printed' = [printed EXCEPT ![c] = q]
  BY DEF Output
<1>2. <<r, what>> \in (0 .. 3) \X [Cores -> Bound] /\ printed[c] \in PrintedType
  OBVIOUS
<1>3. /\ q \in PrintedType /\ q.accessCycleBounds = <<r, what>>
      /\ q.wcetBound = printed[c].wcetBound /\ q.changed = printed[c].changed
  BY <1>2 DEF PrintedType
<1> HIDE DEF q
<1> QED  BY <1>1, <1>3, OutputOK

\* ... and for the one about changes.
LEMMA OutputChanged ==
  ASSUME NEW c \in Cores, printed \in [Cores -> PrintedType],
         NEW what \in BOOLEAN, NEW r \in 0 .. 3, analysis'[c].round = r,
         Output(c, "changed", what)
  PROVE  /\ printed' \in [Cores -> PrintedType] /\ \A d \in Cores \ {c} : printed'[d] = printed[d]
         /\ printed'[c].changed = <<r, what>>
         /\ printed'[c].wcetBound = printed[c].wcetBound
         /\ printed'[c].accessCycleBounds = printed[c].accessCycleBounds
<1> DEFINE q == [printed[c] EXCEPT !["changed"] = <<r, what>>]
<1>1. printed' = [printed EXCEPT ![c] = q]
  BY DEF Output
<1>2. <<r, what>> \in (0 .. 3) \X BOOLEAN /\ printed[c] \in PrintedType
  OBVIOUS
<1>3. /\ q \in PrintedType /\ q.changed = <<r, what>>
      /\ q.wcetBound = printed[c].wcetBound /\ q.accessCycleBounds = printed[c].accessCycleBounds
  BY <1>2 DEF PrintedType
<1> HIDE DEF q
<1> QED  BY <1>1, <1>3, OutputOK

\* The bounds of c itself, from its new variables n.
LEMMA OwnBoundsAfter ==
  ASSUME option' = option, NEW c, NEW n, analysis'[c] = n,
         n.accessBound = AccessBound(c), n.effectivePeriod = EffectivePeriod(c), ~n.warned,
         n.wcetBound = WcetBound(c, n.blockingBound, n.concAccessesBound),
         PrintedWcet(c)' = IF Stage(c)' = 2 THEN n.previousWcetBound ELSE n.wcetBound,
         Stage(c)' = 2 => /\ Towards(n.previousWcetBound, n.wcetBound)
                          /\ n.previousWcetBound = infinity <=> n.wcetBound = infinity
  PROVE  OwnBounds(c)'
<1>1. /\ EffectivePeriod(c)' = EffectivePeriod(c)
      /\ \A x, y : Towards(x, y)' = Towards(x, y)
      /\ \A b, k : WcetBound(c, b, k)' = WcetBound(c, b, k)
  BY OptionUnchanged
<1> QED  BY <1>1 DEF OwnBounds

\* What c has used to bound its blocking, likewise.
LEMMA UsedBoundsAfter ==
  ASSUME option' = option, NEW c, NEW n, analysis'[c] = n, NEW used \in [Conc(c) -> Bound],
         n.blockingBound = BlockingBound(c, Settled(c), used),
         n.concAccessesBound = ConcAccessesBound(c, Settled(c), used),
         \A d \in Conc(c) : Towards(used[d], AccessCycles(d, c)')
                            /\ Towards(AccessCycles(d, c)', Curve(d, PrintedWcet(c)'))
  PROVE  UsedBounds(c)'
<1>1. Settled(c)' = Settled(c) /\ \A x, y : Towards(x, y)' = Towards(x, y)
  BY OptionUnchanged
<1>2. \A d, t : Curve(d, t)' = Curve(d, t)
  BY CurveUnchanged
<1>3. \A d \in Conc(c) : Curve(d, PrintedWcet(c))' = Curve(d, PrintedWcet(c)')
  BY <1>2
<1>4. /\ BlockingBound(c, Settled(c), used)' = BlockingBound(c, Settled(c), used)
      /\ ConcAccessesBound(c, Settled(c), used)' = ConcAccessesBound(c, Settled(c), used)
  BY <1>1 DEF BlockingBound, ConcAccessesBound
<1>5. Follows(c, used)'
  BY <1>1, <1>3, <1>4 DEF Follows
<1> QED  BY <1>5 DEF UsedBounds

\* The windows of the others stay, and so do the bounds of c on its blocking: what c has
\* used is still what the others have moved on from.
LEMMA UsedBoundsKept ==
  ASSUME option' = option, NEW c, UsedBounds(c), NEW n, analysis'[c] = n,
         n.blockingBound = analysis[c].blockingBound, n.concAccessesBound = analysis[c].concAccessesBound,
         \A d \in Conc(c) : \A x \in Bound :
            Towards(x, AccessCycles(d, c)) /\ Towards(AccessCycles(d, c), Curve(d, PrintedWcet(c)))
              => Towards(x, AccessCycles(d, c)') /\ Towards(AccessCycles(d, c)', Curve(d, PrintedWcet(c)'))
  PROVE  UsedBounds(c)'
<1>1. CASE analysis[c].blockingBound = StartBound /\ analysis[c].concAccessesBound = StartBound
  <2>1. StartBound' = StartBound
    BY OptionUnchanged
  <2> QED  BY <1>1, <2>1 DEF UsedBounds
<1>2. CASE \E used \in [Conc(c) -> Bound] : Follows(c, used)
  <2>1. PICK used \in [Conc(c) -> Bound] : Follows(c, used)
    BY <1>2
  <2> QED  BY <2>1, UsedBoundsAfter DEF Follows
<1> QED  BY <1>1, <1>2 DEF UsedBounds

-----------------------------------------------------------------------------
(* The steps *)

\* Two others stay together.
LEMMA OthersStayTogether ==
  ASSUME NEW c \in Cores, StepOf(c), NEW x \in Cores \ {c}, NEW y \in Cores \ {c}, Together(x, y),
         Ahead(y, x) /\ printed[c].changed = <<Reached(x), TRUE>> => printed'[c].changed = <<Reached(x), TRUE>>
  PROVE  Together(x, y)'
<1>1. /\ Started(x)' = Started(x) /\ Stage(x)' = Stage(x) /\ Reached(x)' = Reached(x)
      /\ PrintedWcet(x)' = PrintedWcet(x) /\ analysis'[x] = analysis[x]
  BY OthersUnchanged
<1>2. /\ Started(y)' = Started(y) /\ Stage(y)' = Stage(y) /\ Reached(y)' = Reached(y)
      /\ (\A e : AccessCycles(y, e)' = AccessCycles(y, e))
      /\ printed'[y] = printed[y] /\ analysis'[y] = analysis[y]
  BY OthersUnchanged
<1>3. option' = option /\ \A d \in Cores \ {c} : printed'[d] = printed[d]
  BY DEF StepOf
<1>4. Ahead(y, x)' = Ahead(y, x) /\ Ahead(x, y)' = Ahead(x, y)
  BY <1>1, <1>2 DEF Ahead
<1>5. InStep(x, y)'
  BY <1>1, <1>2, <1>4 DEF InStep, Together
<1>6. Answered(x, y)'
  <2>1. \A t : Curve(y, t)' = Curve(y, t)
    BY <1>3, CurveUnchanged
  <2> QED  BY <1>1, <1>2, <2>1 DEF Answered, Together
<1>7. SomeChange(x, y)'
  <2> SUFFICES ASSUME Ahead(y, x)'
               PROVE  \E e \in Cores : printed'[e].changed = <<Reached(x)', TRUE>>
    BY DEF SomeChange
  <2>1. PICK e \in Cores : printed[e].changed = <<Reached(x), TRUE>>
    BY <1>4 DEF SomeChange, Together
  <2>2. CASE e = c
    BY <1>1, <1>4, <2>1, <2>2
  <2>3. CASE e # c
    BY <1>1, <1>3, <2>1, <2>3
  <2> QED  BY <2>2, <2>3
<1>8. AllUnchanged(x, y)'
  <2>1. \A a : Changed(a)' = Changed(a)
    BY <1>3, OptionUnchanged
  <2> QED  BY <1>1, <1>2, <2>1 DEF AllUnchanged, Together
<1> QED  BY <1>5, <1>6, <1>7, <1>8 DEF Together

\* Iteration 0: the others are at most in the first exchange too.
LEMMA IterationZeroKeepsRounds ==
  ASSUME Rounds, option \in Options, NEW c \in Cores, IterationZero(c)
  PROVE  Rounds'
<1> DEFINE one == 1
           a == analysis[c]
           w == WcetBound(c, a.blockingBound, a.concAccessesBound)
           n == [a EXCEPT !.pc = "reads WCET bounds", !.round = one, !.accessBound = AccessBound(c),
                          !.effectivePeriod = EffectivePeriod(c), !.wcetBound = w]
<1>1. /\ a = AtStart /\ printed[c] = Nothing /\ ~Started(c)
  BY DEF Rounds, IterationZero, Started, NotStarted
<1>2. /\ a.blockingBound = StartBound /\ a.concAccessesBound = StartBound /\ ~a.warned
  BY <1>1 DEF AtStart, StartBound
<1>3. a \in AnalysisType /\ printed[c] \in PrintedType
      /\ analysis \in [Cores -> AnalysisType] /\ printed \in [Cores -> PrintedType]
  BY DEF Rounds
<1>4. /\ AccessBound(c) \in Nat /\ EffectivePeriod(c) \in Nat /\ w \in Bound
  BY <1>2, RunNumbers, EffectivePeriodOK, WcetBoundOK, TowardsOrder
<1>5. analysis' = [analysis EXCEPT ![c] = n] /\ option' = option
  BY DEF IterationZero
<1>6. Preceding(one) = 0 /\ Following(one) # one /\ one # 0 /\ one \in 0 .. 3
  BY DEF Preceding, Following
<1>7. \A r : r = 1 <=> r = one
  OBVIOUS
<1> HIDE DEF w, a, one
<1>8. /\ n \in AnalysisType /\ n.pc = "reads WCET bounds" /\ n.round = one
      /\ n.accessBound = AccessBound(c) /\ n.effectivePeriod = EffectivePeriod(c)
      /\ n.wcetBound = w /\ n.blockingBound = a.blockingBound
      /\ n.concAccessesBound = a.concAccessesBound /\ n.warned = a.warned
  <2>1. a \in AnalysisType
    BY <1>3
  <2>2. n \in AnalysisType
    BY <1>4, <1>6, <2>1 DEF AnalysisType
  <2> QED  BY <2>1, <2>2 DEF AnalysisType
<1>9. n \in AnalysisType
  BY <1>8
<1>10. n.pc = "reads WCET bounds"
  BY <1>8
<1>11. n.round = one
  BY <1>8
<1>12. ~n.warned
  BY <1>2, <1>8
<1> HIDE DEF n
<1>13. analysis' \in [Cores -> AnalysisType] /\ analysis'[c] = n /\ \A d \in Cores \ {c} : analysis'[d] = analysis[d]
  BY <1>3, <1>5, <1>8, AnalysisStepOK
<1>14. /\ printed' \in [Cores -> PrintedType] /\ (\A d \in Cores \ {c} : printed'[d] = printed[d])
      /\ printed'[c].wcetBound = <<one, w>>
      /\ printed'[c].accessCycleBounds = printed[c].accessCycleBounds
      /\ printed'[c].changed = printed[c].changed
  <2>1. Output(c, "wcetBound", w)
    BY <1>8, <1>13 DEF IterationZero
  <2>2. analysis'[c].round = one /\ one \in 0 .. 3
    BY <1>8, <1>13, <1>6
  <2> QED  BY <1>3, <1>4, <2>1, <2>2, OutputWcetBound
<1>15. StepOf(c)
  BY <1>5, <1>13, <1>14 DEF StepOf
<1>16. /\ printed[c].accessCycleBounds[1] = 0 /\ printed[c].changed[1] = 0
  BY <1>1 DEF Nothing
<1>17. Started(c)' /\ Stage(c)' = 0 /\ Reached(c)' = one /\ PrintedWcet(c)' = w
  <2>1. analysis'[c] = n
    BY <1>13
  <2>2. Reached(c)' = one
    BY <1>11, <2>1 DEF Reached
  <2>3. Started(c)'
    BY <1>10, <2>1 DEF Started
  <2>4. Stage(c)' = 0
    BY <1>10, <2>1 DEF Stage
  <2>5. PrintedWcet(c)' = w
    BY <1>14 DEF PrintedWcet
  <2> QED  BY <2>2, <2>3, <2>4, <2>5
<1>18. ASSUME NEW d \in Cores \ {c}, Started(d)
       PROVE  Stage(d) = 0 /\ Reached(d) = one
  BY <1>1, <1>18, <1>7 DEF Rounds, StartsTogether
<1>19. StartsTogether'
  <2>1. ASSUME NEW d \in Cores, Started(d)' PROVE Stage(d)' = 0 /\ Reached(d)' = one
    BY <1>15, <1>17, <1>18, <2>1, OthersUnchanged
  <2> QED  BY <1>7, <2>1 DEF StartsTogether
<1>20. Alone(c)'
  <2>1. Tags(c)'
    <3>1. analysis'[c].pc # "done"
      BY <1>13, <1>10
    <3> QED  BY <1>14, <1>16, <1>17, <1>6, <3>1 DEF Tags
  <2>2. OwnBounds(c)'
    <3>1. n.wcetBound = WcetBound(c, n.blockingBound, n.concAccessesBound)
      BY <1>8 DEF w
    <3>2. n.wcetBound = w
      BY <1>8
    <3>3. PrintedWcet(c)' = n.wcetBound /\ Stage(c)' # 2
      BY <1>17, <3>2
    <3>4. analysis'[c] = n /\ option' = option
      BY <1>5, <1>13
    <3>5. n.accessBound = AccessBound(c) /\ n.effectivePeriod = EffectivePeriod(c)
      BY <1>8
    <3>6. /\ PrintedWcet(c)' = IF Stage(c)' = 2 THEN n.previousWcetBound ELSE n.wcetBound
          /\ Stage(c)' = 2 => /\ Towards(n.previousWcetBound, n.wcetBound)
                              /\ n.previousWcetBound = infinity <=> n.wcetBound = infinity
      BY <3>3
    <3> QED  BY <1>12, <3>1, <3>4, <3>5, <3>6, OwnBoundsAfter
  <2>3. UsedBounds(c)'
    BY <1>2, <1>5, <1>8, <1>13, OptionUnchanged DEF UsedBounds
  <2>4. UpToDate(c)'
    BY <1>17 DEF UpToDate
  <2> QED  BY <2>1, <2>2, <2>3, <2>4 DEF Alone
<1>21. ASSUME NEW d \in Cores \ {c}
       PROVE  IF Started(d)' THEN Alone(d)' ELSE NotStarted(d)'
  <2>1. /\ Started(d)' = Started(d) /\ Tags(d)' = Tags(d) /\ OwnBounds(d)' = OwnBounds(d)
        /\ NotStarted(d)' = NotStarted(d)
    BY <1>15, OthersUnchanged
  <2>2. IF Started(d) THEN Alone(d) ELSE NotStarted(d)
    BY DEF Rounds
  <2>3. AccessCycles(c, d)' = AccessCycles(c, d)
    BY <1>14 DEF AccessCycles
  <2>4. UsedBounds(d) /\ UpToDate(d) => UsedBounds(d)' /\ UpToDate(d)'
    BY <1>15, <2>3, OthersKeepBlocking
  <2> QED  BY <2>1, <2>2, <2>4 DEF Alone
<1>22. ASSUME NEW d \in Cores \ {c}, Started(d)'
       PROVE  Together(c, d)' /\ Together(d, c)'
  <2>1. /\ Started(d) /\ Stage(d)' = 0 /\ Reached(d)' = one /\ printed'[d] = printed[d]
        /\ Stage(d) = 0 /\ Reached(d) = one /\ Tags(d)
    BY <1>15, <1>18, <1>22, OthersUnchanged DEF Rounds, Alone
  <2>2. printed'[d].accessCycleBounds[1] = 0 /\ printed'[c].accessCycleBounds[1] = 0
    BY <1>14, <1>16, <1>6, <2>1 DEF Tags
  <2>3. analysis'[c].pc # "done" /\ analysis'[d].pc # "done"
    <3>1. Stage(c)' = 0 /\ Stage(d)' = 0
      BY <1>17, <2>1
    <3>2. ASSUME NEW e, analysis'[e].pc = "done" PROVE Stage(e)' = 2
      BY <3>2 DEF Stage
    <3> QED  BY <3>1, <3>2
  <2>4. InStep(c, d)' /\ InStep(d, c)'
    BY <1>17, <2>1 DEF InStep
  <2>5. ~Ahead(c, d)' /\ ~Ahead(d, c)'
    BY <1>17, <1>6, <2>1 DEF Ahead
  <2>6. Answered(c, d)' /\ Answered(d, c)'
    <3>1. Reached(c)' # 0 /\ Reached(d)' # 0
      BY <1>17, <1>6, <2>1
    <3> QED  BY <2>2, <3>1 DEF Answered
  <2> QED  BY <2>3, <2>4, <2>5, <2>6 DEF Together, SomeChange, AllUnchanged
<1>23. ASSUME NEW x \in Cores \ {c}, NEW y \in Cores \ {c}, x # y, Started(x)', Started(y)'
       PROVE  Together(x, y)'
  <2>1. Started(x) /\ Started(y)
    BY <1>15, <1>23, OthersUnchanged
  <2>2. Together(x, y)
    BY <1>23, <2>1 DEF Rounds
  <2> QED  BY <1>14, <1>15, <2>2, OthersStayTogether
<1> QED  BY <1>13, <1>14, <1>17, <1>19, <1>20, <1>21, <1>22, <1>23 DEF Rounds

\* What a step of c has to keep once all analyses have started.
LEMMA RoundsAfter ==
  ASSUME Rounds, NEW c \in Cores, StepOf(c), \A d \in Cores : Started(d), Started(c)', Alone(c)',
         \A d \in Cores \ {c} : UsedBounds(d)' /\ UpToDate(d)' /\ Together(c, d)' /\ Together(d, c)',
         \A x, y \in Cores \ {c} :
            Ahead(y, x) /\ printed[c].changed = <<Reached(x), TRUE>> => printed'[c].changed = <<Reached(x), TRUE>>
  PROVE  Rounds'
<1>1. ASSUME NEW d \in Cores PROVE Started(d)'
  BY OthersUnchanged
<1>2. ASSUME NEW d \in Cores \ {c} PROVE Alone(d)'
  <2>1. Tags(d)' = Tags(d) /\ OwnBounds(d)' = OwnBounds(d)
    BY OthersUnchanged
  <2>2. Alone(d)
    BY DEF Rounds
  <2> QED  BY <2>1, <2>2 DEF Alone
<1>3. ASSUME NEW x \in Cores \ {c}, NEW y \in Cores \ {c}, x # y PROVE Together(x, y)'
  <2>1. Together(x, y)
    BY <1>3 DEF Rounds
  <2> QED  BY <2>1, OthersStayTogether
<1>4. StartsTogether'
  BY <1>1 DEF StartsTogether
<1>5. analysis' \in [Cores -> AnalysisType] /\ printed' \in [Cores -> PrintedType]
  BY DEF StepOf
<1> QED  BY <1>1, <1>2, <1>3, <1>4, <1>5 DEF Rounds

\* An analysis that gets beyond the first exchange has all the others with it.
LEMMA AllStarted ==
  ASSUME Rounds, NEW c \in Cores, Started(c),
         \/ Stage(c) # 0
         \/ \A d \in Conc(c) : HasPrinted(d, "wcetBound", Reached(c))
  PROVE  \A d \in Cores : Started(d)
<1> SUFFICES ASSUME NEW d \in Cores, ~Started(d) PROVE FALSE
  OBVIOUS
<1>1. Stage(c) = 0 /\ Reached(c) = 1
  BY DEF Rounds, StartsTogether
<1>2. d \in Conc(c) /\ printed[d] = Nothing
  BY DEF Rounds, NotStarted, Conc
<1>3. printed[d]["wcetBound"][1] = 0
  BY <1>2 DEF Nothing
<1> QED  BY <1>1, <1>2, <1>3 DEF HasPrinted, Following

\* The first half of the exchange: c prints what it would do in the windows of the others.
\* The guard makes them be in the same round, so their windows are those of the round.
LEMMA ExchangeKeepsRounds ==
  ASSUME Rounds, option \in Options, NEW c \in Cores, ExchangeWcetBounds(c)
  PROVE  Rounds'
<1> DEFINE a == analysis[c]
           n == [a EXCEPT !.pc = "reads access cycle bounds"]
           r == Reached(c)
           answer == [d \in Cores |-> IF d = c THEN infinity
                                      ELSE MaxAccessCyclesPer(c, a, printed[d].wcetBound[2])]
<1>1. /\ a \in AnalysisType /\ analysis \in [Cores -> AnalysisType]
      /\ printed \in [Cores -> PrintedType] /\ r \in 0 .. 3
  BY TypesUse DEF Rounds
<1>2. Started(c) /\ Stage(c) = 0
  BY DEF ExchangeWcetBounds, Started, Stage
<1>3. \A d \in Conc(c) : HasPrinted(d, "wcetBound", r)
  BY DEF ExchangeWcetBounds, Reached
<1>4. \A d \in Cores : Started(d)
  BY <1>2, <1>3, AllStarted
<1>5. Alone(c) /\ \A d \in Cores \ {c} : Alone(d) /\ Together(c, d) /\ Together(d, c)
  BY <1>4 DEF Rounds
<1>6. a.accessBound = AccessBound(c) /\ a.effectivePeriod = EffectivePeriod(c)
  BY <1>5 DEF Alone, OwnBounds
<1>7. \A t : MaxAccessCyclesPer(c, a, t) = Curve(c, t)
  <2>1. Settled(c).accessBound = a.accessBound /\ Settled(c).effectivePeriod = a.effectivePeriod
    BY <1>6 DEF Settled
  <2> QED  BY <2>1 DEF MaxAccessCyclesPer, Curve
<1>8. answer \in [Cores -> Bound] /\ \A d \in Cores \ {c} : answer[d] = Curve(c, PrintedWcet(d))
  <2>1. \A d \in Cores : PrintedWcet(d) \in Bound
    BY TypesUse
  <2>2. \A d \in Cores : Curve(c, PrintedWcet(d)) \in Bound
    BY <2>1, CurveTowards
  <2> QED  BY <1>7, <2>2, InfinityIsNoNumber DEF PrintedWcet
<1>9. analysis' = [analysis EXCEPT ![c] = n] /\ option' = option
  BY DEF ExchangeWcetBounds
<1>10. /\ n \in AnalysisType /\ n.pc = "reads access cycle bounds"
       /\ n.accessBound = a.accessBound /\ n.effectivePeriod = a.effectivePeriod
       /\ n.wcetBound = a.wcetBound /\ n.blockingBound = a.blockingBound
       /\ n.concAccessesBound = a.concAccessesBound /\ n.warned = a.warned
  BY <1>1 DEF AnalysisType
<1>11. n.round = r
  BY <1>1 DEF AnalysisType, Reached
<1>12. n.pc = "reads access cycle bounds"
  BY <1>10
<1> HIDE DEF n, r
<1>13. analysis' \in [Cores -> AnalysisType] /\ analysis'[c] = n /\ \A d \in Cores \ {c} : analysis'[d] = analysis[d]
  BY <1>1, <1>9, <1>10, AnalysisStepOK
<1>14. Output(c, "accessCycleBounds", answer)
  BY DEF ExchangeWcetBounds
<1> HIDE DEF a, answer
<1>15. /\ printed' \in [Cores -> PrintedType] /\ (\A d \in Cores \ {c} : printed'[d] = printed[d])
       /\ printed'[c].accessCycleBounds = <<r, answer>>
       /\ printed'[c].wcetBound = printed[c].wcetBound
       /\ printed'[c].changed = printed[c].changed
  <2>1. analysis'[c].round = r
    BY <1>11, <1>13
  <2> QED  BY <1>1, <1>8, <1>14, <2>1, OutputAccessCycleBounds
<1>16. StepOf(c)
  BY <1>9, <1>13, <1>15 DEF StepOf
<1>17. Started(c)' /\ Stage(c)' = 1
  BY <1>12, <1>13 DEF Started, Stage
<1>18. Reached(c)' = r /\ PrintedWcet(c)' = PrintedWcet(c)
  BY <1>11, <1>13, <1>15 DEF Reached, PrintedWcet
<1>19. \A d : AccessCycles(c, d)' = answer[d]
  BY <1>15 DEF AccessCycles
<1>20. ASSUME NEW d \in Cores \ {c}
       PROVE  Reached(d) = r /\ Stage(d) # 2
  <2>1. Reached(d) \in {r, Following(r)} /\ Reached(d) \in 0 .. 3
    BY <1>3, <1>5, TypesUse DEF HasPrinted, Alone, Tags, Conc
  <2>2. InStep(c, d) /\ (Following(Reached(d)) # r \/ Reached(d) = r)
    BY <1>1, <1>5, <2>1, RoundNumbers DEF Together
  <2> QED  BY <1>2, <1>1, <2>1, <2>2, RoundNumbers DEF InStep, Ahead, r
<1>21. Alone(c)'
  <2>1. Tags(c)'
    <3>1. analysis'[c].pc # "done"
      BY <1>12, <1>13
    <3> QED  BY <1>2, <1>5, <1>15, <1>17, <1>18, <3>1 DEF Tags, Alone, r
  <2>2. OwnBounds(c)'
    <3>1. /\ ~a.warned /\ a.wcetBound = WcetBound(c, a.blockingBound, a.concAccessesBound)
          /\ PrintedWcet(c) = a.wcetBound
      BY <1>2, <1>5 DEF Alone, OwnBounds, a
    <3>2. /\ n.wcetBound = a.wcetBound /\ n.blockingBound = a.blockingBound
          /\ n.concAccessesBound = a.concAccessesBound
      BY <1>10
    <3>3. ~n.warned
      BY <1>10, <3>1
    <3>4. /\ ~n.warned /\ n.wcetBound = WcetBound(c, n.blockingBound, n.concAccessesBound)
          /\ PrintedWcet(c) = n.wcetBound
      BY <3>1, <3>2, <3>3
    <3>5. PrintedWcet(c)' = n.wcetBound /\ Stage(c)' # 2
      BY <1>17, <1>18, <3>4
    <3>6. analysis'[c] = n /\ option' = option
      BY <1>9, <1>13
    <3>7. n.accessBound = AccessBound(c) /\ n.effectivePeriod = EffectivePeriod(c)
      BY <1>6, <1>10
    <3> QED  BY <3>4, <3>5, <3>6, <3>7, OwnBoundsAfter
  <2>3. UsedBounds(c)'
    <3>1. \A d \in Conc(c) : AccessCycles(d, c)' = AccessCycles(d, c)
      BY <1>16, OthersUnchanged DEF Conc
    <3>2. n.blockingBound = analysis[c].blockingBound /\ n.concAccessesBound = analysis[c].concAccessesBound
      BY <1>10 DEF a
    <3>3. analysis'[c] = n /\ option' = option /\ UsedBounds(c)
      BY <1>5, <1>9, <1>13 DEF Alone
    <3> QED  BY <1>18, <3>1, <3>2, <3>3, UsedBoundsKept
  <2>4. UpToDate(c)'
    BY <1>17 DEF UpToDate
  <2> QED  BY <2>1, <2>2, <2>3, <2>4 DEF Alone
<1>22. ASSUME NEW d \in Cores \ {c}
       PROVE  UsedBounds(d)' /\ UpToDate(d)'
  <2>1. UsedBounds(d)'
    <3>1. analysis'[d] = analysis[d] /\ PrintedWcet(d)' = PrintedWcet(d) /\ option' = option /\ UsedBounds(d)
      BY <1>5, <1>9, <1>16, OthersUnchanged DEF Alone
    <3>2. \A e \in Conc(d) : e # c => AccessCycles(e, d)' = AccessCycles(e, d)
      BY <1>16, OthersUnchanged DEF Conc
    <3>3. AccessCycles(c, d)' = Curve(c, PrintedWcet(d)) /\ AccessCycles(c, d) \in Bound
      BY <1>8, <1>19, TypesUse
    <3>4. Curve(c, PrintedWcet(d)) \in Bound
      BY TypesUse, CurveTowards
    <3>5. ASSUME NEW e \in Conc(d), NEW x \in Bound, Towards(x, AccessCycles(e, d)),
                 Towards(AccessCycles(e, d), Curve(e, PrintedWcet(d)))
          PROVE  Towards(x, AccessCycles(e, d)') /\ Towards(AccessCycles(e, d)', Curve(e, PrintedWcet(d)'))
      <4>1. CASE e # c
        BY <3>1, <3>2, <3>5, <4>1
      <4>2. CASE e = c
        BY <3>1, <3>3, <3>4, <3>5, <4>2, TowardsOrder
      <4> QED  BY <4>1, <4>2
    <3> QED  BY <3>1, <3>5, UsedBoundsKept
  <2>2. UpToDate(d)'
    BY <1>16, <1>20, OthersUnchanged DEF UpToDate
  <2> QED  BY <2>1, <2>2
<1>23. ASSUME NEW d \in Cores \ {c}
       PROVE  Together(c, d)' /\ Together(d, c)'
  <2>1. /\ Reached(d)' = r /\ Stage(d)' # 2 /\ PrintedWcet(d)' = PrintedWcet(d)
        /\ printed'[d] = printed[d] /\ AccessCycles(d, c)' = AccessCycles(d, c)
    BY <1>16, <1>20, OthersUnchanged
  <2>2. ~Ahead(c, d)' /\ ~Ahead(d, c)'
    BY <1>1, <1>18, <2>1, RoundNumbers DEF Ahead
  <2>3. InStep(c, d)' /\ InStep(d, c)'
    BY <1>17, <1>18, <2>1 DEF InStep
  <2>4. \A e, t : Curve(e, t)' = Curve(e, t)
    BY <1>9, CurveUnchanged
  <2>5. Answered(c, d)'
    <3>1. Answered(c, d)
      BY <1>5 DEF Together
    <3>2. Curve(d, PrintedWcet(c))' = Curve(d, PrintedWcet(c))
      BY <1>18, <2>4
    <3> QED  BY <1>18, <2>1, <3>1, <3>2 DEF Answered, r
  <2>6. Answered(d, c)'
    <3>1. Curve(c, PrintedWcet(d))' = Curve(c, PrintedWcet(d))
      BY <2>1, <2>4
    <3> QED  BY <1>8, <1>19, <3>1 DEF Answered
  <2>7. analysis'[c].pc # "done" /\ analysis'[d].pc # "done"
    <3>1. ASSUME NEW e, analysis'[e].pc = "done" PROVE Stage(e)' = 2
      BY <3>1 DEF Stage
    <3> QED  BY <1>17, <2>1, <3>1
  <2> QED  BY <2>2, <2>3, <2>5, <2>6, <2>7 DEF Together, SomeChange, AllUnchanged
<1> QED  BY <1>4, <1>15, <1>16, <1>17, <1>21, <1>22, <1>23, RoundsAfter

\* The bounds on the blocking only look at the bound on the accesses and at the others.
LEMMA BlockingDependsOn ==
  ASSUME NEW c, NEW a, NEW b, a.accessBound = b.accessBound,
         NEW s, NEW t, \A d \in Conc(c) : s[d] = t[d]
  PROVE  /\ BlockingBound(c, a, s) = BlockingBound(c, b, t)
         /\ ConcAccessesBound(c, a, s) = ConcAccessesBound(c, b, t)
<1>1. [d \in Conc(c) |-> Contribution(s[d], a.accessBound * BusLatency)]
        = [d \in Conc(c) |-> Contribution(t[d], b.accessBound * BusLatency)]
  OBVIOUS
<1>2. [d \in Conc(c) |-> CeilDiv(Contribution(s[d], a.accessBound * BusLatency), BusLatency)]
        = [d \in Conc(c) |-> CeilDiv(Contribution(t[d], b.accessBound * BusLatency), BusLatency)]
  OBVIOUS
<1> QED  BY <1>1, <1>2 DEF BlockingBound, ConcAccessesBound

\* What c reads when it recalculates has been printed for its window.
LEMMA ReadInTime ==
  ASSUME Rounds, NEW c \in Cores, \A d \in Cores : Started(d), Stage(c) = 1,
         \A d \in Conc(c) : HasPrinted(d, "accessCycleBounds", Reached(c)),
         NEW d \in Cores \ {c}
  PROVE  /\ (Reached(d) = Reached(c) /\ Stage(d) # 0) \/ (Ahead(d, c) /\ Stage(d) = 0)
         /\ ~Ahead(c, d) /\ AccessCycles(d, c) = Curve(d, PrintedWcet(c))
<1> DEFINE r == Reached(c)
<1>1. Tags(d) /\ Together(c, d)
  <2>1. d \in Cores /\ c # d /\ Started(c) /\ Started(d)
    OBVIOUS
  <2>2. Tags(d)
    BY <2>1 DEF Rounds, Alone
  <2>3. Together(c, d)
    BY <2>1 DEF Rounds
  <2> QED  BY <2>2, <2>3
<1>2. r \in 0 .. 3 /\ Reached(d) \in 0 .. 3
  BY TypesUse
<1>3. printed[d].accessCycleBounds[1] \in {r, Following(r)}
  BY DEF HasPrinted, Conc
<1>4. /\ Preceding(r) # r /\ Preceding(r) # Following(r) /\ Preceding(Following(r)) = r
  BY <1>2, RoundNumbers
<1>5. printed[d].accessCycleBounds[1] = IF Stage(d) = 0 THEN Preceding(Reached(d)) ELSE Reached(d)
  BY <1>1 DEF Tags
<1>6. (Reached(d) = r /\ Stage(d) # 0) \/ (Ahead(d, c) /\ Stage(d) = 0)
  <2>1. CASE Reached(d) = r
    BY <1>3, <1>4, <1>5, <2>1
  <2>2. CASE Ahead(d, c) /\ Stage(d) = 0
    BY <2>2
  <2>3. CASE Ahead(c, d) /\ Stage(c) = 0
    BY <2>3
  <2> QED  BY <1>1, <2>1, <2>2, <2>3 DEF InStep, Together
<1>7. printed[d].accessCycleBounds[1] = r
  BY <1>4, <1>6, <1>5 DEF Ahead
<1>8. ~Ahead(c, d)
  BY <1>2, <1>6, RoundNumbers DEF Ahead
<1> QED  BY <1>1, <1>6, <1>7, <1>8 DEF Together, Answered

\* The same of the bounds it may have used before.
LEMMA ReadMovesOn ==
  ASSUME Rounds, option \in Options, NEW c \in Cores, Alone(c)
  PROVE  BlockingMovesOn(c, analysis[c], ReadBounds(c))
<1> DEFINE a == analysis[c]
<1>1. a.accessBound \in Nat /\ a.accessBound = AccessBound(c) /\ UsedBounds(c)
  BY TypesUse DEF Alone, OwnBounds, AnalysisType
<1>2. \A d \in Conc(c) : ReadBounds(c)[d] \in Bound /\ ReadBounds(c)[d] = AccessCycles(d, c)
  BY TypesUse DEF ReadBounds, Conc
<1>3. CASE a.blockingBound = StartBound /\ a.concAccessesBound = StartBound
  BY <1>1, <1>2, <1>3, FromTheStart
<1>4. CASE \E used \in [Conc(c) -> Bound] : Follows(c, used)
  <2>1. PICK used \in [Conc(c) -> Bound] : Follows(c, used)
    BY <1>4
  <2>2. Settled(c).accessBound = a.accessBound
    BY <1>1 DEF Settled
  <2>3. /\ BlockingBound(c, Settled(c), used) = BlockingBound(c, a, used)
        /\ ConcAccessesBound(c, Settled(c), used) = ConcAccessesBound(c, a, used)
    BY <2>2, BlockingDependsOn
  <2>4. a.blockingBound = BlockingBound(c, a, used) /\ a.concAccessesBound = ConcAccessesBound(c, a, used)
    BY <2>1, <2>3 DEF Follows
  <2>5. \A d \in Conc(c) : used[d] \in Bound /\ ReadBounds(c)[d] \in Bound /\ Towards(used[d], ReadBounds(c)[d])
    BY <1>2, <2>1 DEF Follows
  <2> QED  BY <1>1, <2>4, <2>5, FromUsedBounds
<1> QED  BY <1>1, <1>3, <1>4 DEF UsedBounds

\* The rest of the round.  Everything read belongs to the round, also where the other has
\* gone on already, and what c printed about changes before is about the round before.
LEMMA RecalculateKeepsRounds ==
  ASSUME Rounds, option \in Options, NEW c \in Cores, Recalculate(c)
  PROVE  Rounds'
<1> DEFINE a == analysis[c]
           bounds == ReadBounds(c)
           m == CalcWcetBound(c, CalcBlockingBound(c, a, bounds))
           n == [m EXCEPT !.pc = "asks for changes"]
           r == Reached(c)
<1>1. /\ a \in AnalysisType /\ analysis \in [Cores -> AnalysisType]
      /\ printed \in [Cores -> PrintedType] /\ r \in 0 .. 3
  BY TypesUse DEF Rounds
<1>2. Started(c) /\ Stage(c) = 1
  BY DEF Recalculate, Started, Stage
<1>3. \A d \in Conc(c) : HasPrinted(d, "accessCycleBounds", r)
  BY DEF Recalculate, Reached
<1>4. \A d \in Cores : Started(d)
  BY <1>2, AllStarted
<1>5. Alone(c) /\ \A d \in Cores \ {c} : Alone(d) /\ Together(c, d) /\ Together(d, c)
  BY <1>4 DEF Rounds
<1>6. ASSUME NEW d \in Cores \ {c}
      PROVE  /\ (Reached(d) = r /\ Stage(d) # 0) \/ (Ahead(d, c) /\ Stage(d) = 0)
             /\ ~Ahead(c, d) /\ AccessCycles(d, c) = Curve(d, PrintedWcet(c))
  BY <1>2, <1>3, <1>4, ReadInTime
<1>7. analysis' = [analysis EXCEPT ![c] = n] /\ option' = option
  BY DEF Recalculate, ReadBounds, AccessCycles
<1>8. Output(c, "changed", Changed(analysis'[c]))
  BY DEF Recalculate
<1>9. /\ a.accessBound = AccessBound(c) /\ a.effectivePeriod = EffectivePeriod(c) /\ ~a.warned
      /\ a.wcetBound = WcetBound(c, a.blockingBound, a.concAccessesBound)
      /\ PrintedWcet(c) = a.wcetBound
  BY <1>2, <1>5 DEF Alone, OwnBounds
<1>10. \A d \in Conc(c) : bounds[d] \in Bound /\ bounds[d] = AccessCycles(d, c)
  BY TypesUse DEF ReadBounds, Conc
<1>11. BlockingMovesOn(c, a, bounds)
  BY <1>5, ReadMovesOn
<1> HIDE DEF a, bounds
<1>12. Recalculated(c, a, m, bounds)
  BY <1>1, <1>9, <1>10, <1>11, RecalculatedOK
<1> HIDE DEF m
<1>13. m \in AnalysisType
  BY <1>12 DEF Recalculated
<1>14. /\ n.accessBound = m.accessBound /\ n.effectivePeriod = m.effectivePeriod
       /\ n.wcetBound = m.wcetBound /\ n.blockingBound = m.blockingBound
       /\ n.concAccessesBound = m.concAccessesBound /\ n.warned = m.warned
       /\ n.previousWcetBound = m.previousWcetBound /\ n.round = m.round
  BY <1>13 DEF AnalysisType
<1>15. n \in AnalysisType
  BY <1>13 DEF AnalysisType
<1>16. n.pc = "asks for changes"
  BY <1>13 DEF AnalysisType
<1> HIDE DEF n
<1>17. n.round = r
  BY <1>12, <1>14 DEF Recalculated, Reached, a, r
<1>18. n.accessBound = AccessBound(c) /\ n.effectivePeriod = EffectivePeriod(c)
  BY <1>9, <1>12, <1>14 DEF Recalculated
<1>19. ~n.warned
  BY <1>12, <1>14 DEF Recalculated
<1>20. /\ n.wcetBound = WcetBound(c, n.blockingBound, n.concAccessesBound)
       /\ n.previousWcetBound = a.wcetBound /\ Towards(n.previousWcetBound, n.wcetBound)
       /\ n.previousWcetBound = infinity <=> n.wcetBound = infinity
  BY <1>12, <1>14 DEF Recalculated
<1>21. IF a.wcetBound = infinity
       THEN n.blockingBound = a.blockingBound /\ n.concAccessesBound = a.concAccessesBound
       ELSE /\ n.blockingBound = BlockingBound(c, a, bounds)
            /\ n.concAccessesBound = ConcAccessesBound(c, a, bounds)
  BY <1>12, <1>14 DEF Recalculated
<1> HIDE DEF r
<1>22. analysis' \in [Cores -> AnalysisType] /\ analysis'[c] = n /\ \A d \in Cores \ {c} : analysis'[d] = analysis[d]
  BY <1>1, <1>7, <1>15, AnalysisStepOK
<1>23. /\ printed' \in [Cores -> PrintedType] /\ (\A d \in Cores \ {c} : printed'[d] = printed[d])
       /\ printed'[c].changed = <<r, Changed(n)>>
       /\ printed'[c].wcetBound = printed[c].wcetBound
       /\ printed'[c].accessCycleBounds = printed[c].accessCycleBounds
  <2>1. analysis'[c].round = r /\ Output(c, "changed", Changed(n))
    BY <1>8, <1>17, <1>22
  <2>2. Changed(n) \in BOOLEAN
    BY DEF Changed
  <2> QED  BY <1>1, <2>1, <2>2, OutputChanged
<1>24. StepOf(c)
  BY <1>7, <1>22, <1>23 DEF StepOf
<1>25. Started(c)' /\ Stage(c)' = 2
  BY <1>16, <1>22 DEF Started, Stage
<1>26. Reached(c)' = r /\ PrintedWcet(c)' = PrintedWcet(c) /\ \A d : AccessCycles(c, d)' = AccessCycles(c, d)
  BY <1>17, <1>22, <1>23 DEF Reached, PrintedWcet, AccessCycles
<1>27. ReadBounds(c)' = ReadBounds(c)
  <2>1. \A d \in Cores : AccessCycles(d, c)' = AccessCycles(d, c)
    BY <1>24, <1>26, OthersUnchanged
  <2> QED  BY <2>1 DEF ReadBounds
<1>28. printed[c].changed[1] = Preceding(r) /\ Preceding(r) # r /\ Following(Preceding(r)) = r
  BY <1>1, <1>2, <1>5, RoundNumbers DEF Alone, Tags, r
<1>29. Settled(c).accessBound = a.accessBound
  BY <1>9 DEF Settled
<1>30. Alone(c)'
  <2>1. Tags(c)'
    <3>1. Changed(analysis[c])' = Changed(n)
      BY <1>7, <1>22, OptionUnchanged
    <3>2. printed[c].wcetBound[1] = r /\ printed[c].accessCycleBounds[1] = r
      BY <1>2, <1>5 DEF Alone, Tags, r
    <3>3. analysis'[c].pc # "done"
      BY <1>16, <1>22
    <3> QED  BY <1>23, <1>25, <1>26, <3>1, <3>2, <3>3 DEF Tags
  <2>2. OwnBounds(c)'
    <3>1. PrintedWcet(c)' = n.previousWcetBound
      BY <1>9, <1>20, <1>26
    <3>2. analysis'[c] = n /\ option' = option
      BY <1>7, <1>22
    <3> QED  BY <1>18, <1>19, <1>20, <1>25, <3>1, <3>2, OwnBoundsAfter
  <2>3. UsedBounds(c)'
    <3>1. analysis'[c] = n /\ option' = option /\ UsedBounds(c)
      BY <1>5, <1>7, <1>22 DEF Alone
    <3>2. \A d \in Conc(c) : AccessCycles(d, c)' = AccessCycles(d, c)
      BY <1>24, OthersUnchanged DEF Conc
    <3>3. CASE a.wcetBound = infinity
      <4>1. n.blockingBound = analysis[c].blockingBound /\ n.concAccessesBound = analysis[c].concAccessesBound
        BY <1>21, <3>3 DEF a
      <4> QED  BY <1>26, <3>1, <3>2, <4>1, UsedBoundsKept
    <3>4. CASE a.wcetBound # infinity
      <4> DEFINE used == [d \in Conc(c) |-> AccessCycles(d, c)]
      <4>1. used \in [Conc(c) -> Bound] /\ \A d \in Conc(c) : used[d] = AccessCycles(d, c) /\ used[d] = bounds[d]
        BY <1>10
      <4> HIDE DEF used
      <4>2. /\ BlockingBound(c, Settled(c), used) = BlockingBound(c, a, bounds)
            /\ ConcAccessesBound(c, Settled(c), used) = ConcAccessesBound(c, a, bounds)
        BY <1>29, <4>1, BlockingDependsOn
      <4>3. /\ n.blockingBound = BlockingBound(c, Settled(c), used)
            /\ n.concAccessesBound = ConcAccessesBound(c, Settled(c), used)
        BY <1>21, <3>4, <4>2
      <4>4. \A d \in Conc(c) : /\ Towards(used[d], AccessCycles(d, c)')
                               /\ Towards(AccessCycles(d, c)', Curve(d, PrintedWcet(c)'))
        <5> SUFFICES ASSUME NEW d \in Conc(c)
                     PROVE  /\ Towards(used[d], AccessCycles(d, c)')
                            /\ Towards(AccessCycles(d, c)', Curve(d, PrintedWcet(c)'))
          OBVIOUS
        <5>1. used[d] = AccessCycles(d, c)' /\ used[d] = Curve(d, PrintedWcet(c)') /\ used[d] \in Bound
          BY <1>6, <1>26, <3>2, <4>1 DEF Conc
        <5> QED  BY <5>1, TowardsOrder
      <4> QED  BY <3>1, <4>1, <4>3, <4>4, UsedBoundsAfter
    <3> QED  BY <3>3, <3>4
  <2>4. UpToDate(c)'
    <3> SUFFICES ASSUME n.wcetBound # infinity
                 PROVE  /\ n.blockingBound = BlockingBound(c, Settled(c), ReadBounds(c))'
                        /\ n.concAccessesBound = ConcAccessesBound(c, Settled(c), ReadBounds(c))'
      BY <1>22 DEF UpToDate
    <3>1. /\ BlockingBound(c, Settled(c), bounds) = BlockingBound(c, a, bounds)
          /\ ConcAccessesBound(c, Settled(c), bounds) = ConcAccessesBound(c, a, bounds)
      BY <1>29, BlockingDependsOn
    <3>2. /\ n.blockingBound = BlockingBound(c, Settled(c), bounds)
          /\ n.concAccessesBound = ConcAccessesBound(c, Settled(c), bounds)
      BY <1>20, <1>21, <3>1
    <3>3. Settled(c)' = Settled(c) /\ ReadBounds(c)' = bounds
      BY <1>7, <1>27, OptionUnchanged DEF bounds
    <3>4. /\ BlockingBound(c, Settled(c), ReadBounds(c))' = BlockingBound(c, Settled(c), bounds)
          /\ ConcAccessesBound(c, Settled(c), ReadBounds(c))' = ConcAccessesBound(c, Settled(c), bounds)
      BY <3>3 DEF BlockingBound, ConcAccessesBound
    <3> QED  BY <3>2, <3>4
  <2> QED  BY <2>1, <2>2, <2>3, <2>4 DEF Alone
<1>31. ASSUME NEW d \in Cores \ {c}
       PROVE  UsedBounds(d)' /\ UpToDate(d)'
  <2>1. AccessCycles(c, d)' = AccessCycles(c, d) /\ UsedBounds(d) /\ UpToDate(d)
    BY <1>5, <1>26 DEF Alone
  <2> QED  BY <1>24, <2>1, OthersKeepBlocking
<1>32. ASSUME NEW d \in Cores \ {c}
       PROVE  Together(c, d)' /\ Together(d, c)'
  <2>1. /\ Reached(d)' = Reached(d) /\ Stage(d)' = Stage(d) /\ PrintedWcet(d)' = PrintedWcet(d)
        /\ printed'[d] = printed[d] /\ AccessCycles(d, c)' = AccessCycles(d, c)
        /\ analysis'[d] = analysis[d]
    BY <1>24, OthersUnchanged
  <2>2. Ahead(d, c)' = Ahead(d, c) /\ ~Ahead(c, d)' /\ (Ahead(d, c) => Reached(d) # r)
    <3>1. Following(r) # r
      BY <1>1, RoundNumbers
    <3> QED  BY <1>6, <1>26, <2>1, <3>1 DEF Ahead, r
  <2>3. InStep(c, d)' /\ InStep(d, c)'
    BY <1>6, <1>25, <1>26, <2>1, <2>2 DEF InStep, r
  <2>4. \A e, t : Curve(e, t)' = Curve(e, t)
    BY <1>7, CurveUnchanged
  <2>5. Answered(c, d)'
    <3>1. Answered(c, d)
      BY <1>5 DEF Together
    <3>2. Curve(d, PrintedWcet(c))' = Curve(d, PrintedWcet(c))
      BY <1>26, <2>4
    <3> QED  BY <1>26, <2>1, <3>1, <3>2 DEF Answered, r
  <2>6. Answered(d, c)'
    <3>1. Answered(d, c)
      BY <1>5 DEF Together
    <3>2. Curve(c, PrintedWcet(d))' = Curve(c, PrintedWcet(d))
      BY <2>1, <2>4
    <3> QED  BY <1>23, <1>26, <2>1, <3>1, <3>2 DEF Answered
  <2>7. SomeChange(c, d)' /\ SomeChange(d, c)'
    <3>1. SomeChange(d, c)'
      BY <2>2 DEF SomeChange
    <3>2. SomeChange(c, d)'
      <4> SUFFICES ASSUME Ahead(d, c)
                   PROVE  \E e \in Cores : printed'[e].changed = <<r, TRUE>>
        BY <1>26, <2>2 DEF SomeChange
      <4>1. PICK e \in Cores : printed[e].changed = <<r, TRUE>>
        BY <1>5 DEF SomeChange, Together, r
      <4>2. e # c
        BY <1>28, <4>1
      <4> QED  BY <1>23, <4>1, <4>2
    <3> QED  BY <3>1, <3>2
  <2>8. AllUnchanged(c, d)' /\ AllUnchanged(d, c)'
    <3>1. analysis'[c].pc # "done"
      BY <1>16, <1>22
    <3>2. AllUnchanged(d, c)
      BY <1>5 DEF Together
    <3>3. analysis'[d].pc # "done"
      BY <1>2, <2>1, <3>2 DEF AllUnchanged
    <3> QED  BY <3>1, <3>3 DEF AllUnchanged
  <2> QED  BY <2>3, <2>5, <2>6, <2>7, <2>8 DEF Together
<1>33. ASSUME NEW x \in Cores \ {c}, NEW y \in Cores \ {c}, printed[c].changed = <<Reached(x), TRUE>>
       PROVE  FALSE
  <2>1. Reached(x) = Preceding(r)
    BY <1>28, <1>33
  <2>2. Ahead(c, x)
    BY <1>28, <2>1 DEF Ahead, r
  <2> QED  BY <1>6, <2>2
<1> QED  BY <1>4, <1>24, <1>25, <1>30, <1>31, <1>32, <1>33, RoundsAfter

\* At the end of its round c finds the others at most a little behind or ahead, and what
\* they print about changes is about its round.
LEMMA AskedInTime ==
  ASSUME Rounds, NEW c \in Cores, \A d \in Cores : Started(d), Stage(c) = 2, NEW d \in Cores \ {c}
  PROVE  /\ (Reached(d) = Reached(c) /\ Stage(d) # 0) \/ (Ahead(d, c) /\ Stage(d) = 0)
         /\ ~Ahead(c, d)
         /\ HasPrinted(d, "changed", Reached(c)) =>
              /\ printed[d].changed = <<Reached(c), printed[d].changed[2]>> /\ printed[d].changed[2] \in BOOLEAN
              /\ Stage(d) # 1
<1> DEFINE r == Reached(c)
<1>1. Tags(d) /\ Together(c, d)
  <2>1. d \in Cores /\ c # d /\ Started(c) /\ Started(d)
    OBVIOUS
  <2>2. Tags(d)
    BY <2>1 DEF Rounds, Alone
  <2>3. Together(c, d)
    BY <2>1 DEF Rounds
  <2> QED  BY <2>2, <2>3
<1>2. /\ r \in 0 .. 3 /\ Reached(d) \in 0 .. 3 /\ Stage(d) \in {0, 1, 2}
      /\ printed[d].changed \in (0 .. 3) \X BOOLEAN
  BY TypesUse
<1>3. /\ Preceding(r) # r /\ Preceding(r) # Following(r) /\ Preceding(Following(r)) = r
  BY <1>2, RoundNumbers
<1>4. (Reached(d) = r /\ Stage(d) # 0) \/ (Ahead(d, c) /\ Stage(d) = 0)
  BY <1>1 DEF InStep, Together
<1>5. ~Ahead(c, d)
  BY <1>2, <1>4, RoundNumbers DEF Ahead
<1>6. printed[d].changed[1] = IF Stage(d) = 2 THEN Reached(d) ELSE Preceding(Reached(d))
  BY <1>1 DEF Tags
<1>7. ASSUME HasPrinted(d, "changed", r)
      PROVE  printed[d].changed[1] = r /\ Stage(d) # 1
  <2>1. printed[d].changed[1] \in {r, Following(r)}
    BY <1>7 DEF HasPrinted
  <2>2. CASE Reached(d) = r /\ Stage(d) # 0
    BY <1>3, <1>6, <2>1, <2>2
  <2>3. CASE Ahead(d, c) /\ Stage(d) = 0
    BY <1>3, <1>6, <2>3 DEF Ahead
  <2> QED  BY <1>4, <2>2, <2>3
<1> QED  BY <1>2, <1>4, <1>5, <1>7

\* Someone has a new bound in this round.
Announced(round) == \E e \in Cores : printed[e].changed = <<round, TRUE>>

\* The next round begins where someone has a new bound.
LEMMA NextRoundKeepsRounds ==
  ASSUME Rounds, option \in Options, NEW c \in Cores, Started(c), Stage(c) = 2, NextRound(c),
         Announced(Reached(c))
  PROVE  Rounds'
<1> DEFINE a == analysis[c]
           r == Reached(c)
           s == Following(r)
           n == [a EXCEPT !.pc = "reads WCET bounds", !.round = s]
<1>1. /\ a \in AnalysisType /\ analysis \in [Cores -> AnalysisType]
      /\ printed \in [Cores -> PrintedType] /\ r \in 0 .. 3
  BY TypesUse DEF Rounds
<1>2. Started(c) /\ Stage(c) = 2
  OBVIOUS
<1>3. \A d \in Cores : Started(d)
  BY <1>2, AllStarted
<1>4. Alone(c) /\ \A d \in Cores \ {c} : Alone(d) /\ Together(c, d) /\ Together(d, c)
  BY <1>3 DEF Rounds
<1>5. ASSUME NEW d \in Cores \ {c}
      PROVE  (Reached(d) = r /\ Stage(d) # 0) \/ (Ahead(d, c) /\ Stage(d) = 0)
  BY <1>2, <1>3, AskedInTime
<1>6. analysis' = [analysis EXCEPT ![c] = n] /\ option' = option
  BY <1>1 DEF NextRound, Reached
<1>7. Output(c, "wcetBound", a.wcetBound)
  BY DEF NextRound
<1>8. /\ a.accessBound = AccessBound(c) /\ a.effectivePeriod = EffectivePeriod(c) /\ ~a.warned
      /\ a.wcetBound = WcetBound(c, a.blockingBound, a.concAccessesBound)
      /\ PrintedWcet(c) = a.previousWcetBound /\ Towards(a.previousWcetBound, a.wcetBound)
  BY <1>2, <1>4 DEF Alone, OwnBounds
<1>9. a.wcetBound \in Bound /\ a.previousWcetBound \in Bound
  BY <1>1 DEF AnalysisType
<1>10. s \in 0 .. 3 /\ Preceding(s) = r /\ s # r /\ Following(s) # r /\ Following(s) # s
  BY <1>1, RoundNumbers
<1> HIDE DEF a, s
<1>11. /\ n.accessBound = a.accessBound /\ n.effectivePeriod = a.effectivePeriod
       /\ n.wcetBound = a.wcetBound /\ n.blockingBound = a.blockingBound
       /\ n.concAccessesBound = a.concAccessesBound /\ n.warned = a.warned
       /\ n.previousWcetBound = a.previousWcetBound
  BY <1>1 DEF AnalysisType
<1>12. n \in AnalysisType
  BY <1>1, <1>10 DEF AnalysisType
<1>13. n.pc = "reads WCET bounds"
  BY <1>1 DEF AnalysisType
<1>14. n.round = s
  BY <1>1 DEF AnalysisType
<1> HIDE DEF n, r
<1>15. analysis' \in [Cores -> AnalysisType] /\ analysis'[c] = n /\ \A d \in Cores \ {c} : analysis'[d] = analysis[d]
  BY <1>1, <1>6, <1>12, AnalysisStepOK
<1>16. /\ printed' \in [Cores -> PrintedType] /\ (\A d \in Cores \ {c} : printed'[d] = printed[d])
       /\ printed'[c].wcetBound = <<s, a.wcetBound>>
       /\ printed'[c].changed = printed[c].changed
       /\ printed'[c].accessCycleBounds = printed[c].accessCycleBounds
  <2>1. analysis'[c].round = s
    BY <1>14, <1>15
  <2> QED  BY <1>1, <1>7, <1>9, <1>10, <2>1, OutputWcetBound
<1>17. StepOf(c)
  BY <1>6, <1>15, <1>16 DEF StepOf
<1>18. Started(c)' /\ Stage(c)' = 0
  BY <1>13, <1>15 DEF Started, Stage
<1>19. Reached(c)' = s /\ PrintedWcet(c)' = a.wcetBound /\ \A d : AccessCycles(c, d)' = AccessCycles(c, d)
  BY <1>14, <1>15, <1>16 DEF Reached, PrintedWcet, AccessCycles
<1>20. analysis'[c].pc # "done"
  BY <1>13, <1>15
<1>21. Alone(c)'
  <2>1. Tags(c)'
    <3>1. printed[c].accessCycleBounds[1] = r /\ printed[c].changed[1] = r
      BY <1>2, <1>4 DEF Alone, Tags, r
    <3> QED  BY <1>10, <1>16, <1>18, <1>19, <1>20, <3>1 DEF Tags
  <2>2. OwnBounds(c)'
    <3>1. PrintedWcet(c)' = n.wcetBound /\ ~n.warned /\ Stage(c)' # 2
      BY <1>8, <1>11, <1>18, <1>19
    <3>2. analysis'[c] = n /\ option' = option
      BY <1>6, <1>15
    <3>3. n.accessBound = AccessBound(c) /\ n.effectivePeriod = EffectivePeriod(c)
      BY <1>8, <1>11
    <3>4. n.wcetBound = WcetBound(c, n.blockingBound, n.concAccessesBound)
      BY <1>8, <1>11
    <3> QED  BY <3>1, <3>2, <3>3, <3>4, OwnBoundsAfter
  <2>3. UsedBounds(c)'
    <3>1. analysis'[c] = n /\ option' = option /\ UsedBounds(c)
      BY <1>4, <1>6, <1>15 DEF Alone
    <3>2. n.blockingBound = analysis[c].blockingBound /\ n.concAccessesBound = analysis[c].concAccessesBound
      BY <1>11 DEF a
    <3>3. ASSUME NEW d \in Conc(c), NEW x \in Bound, Towards(x, AccessCycles(d, c)),
                 Towards(AccessCycles(d, c), Curve(d, PrintedWcet(c)))
          PROVE  Towards(x, AccessCycles(d, c)') /\ Towards(AccessCycles(d, c)', Curve(d, PrintedWcet(c)'))
      <4>1. d \in Cores /\ AccessCycles(d, c)' = AccessCycles(d, c) /\ AccessCycles(d, c) \in Bound
        BY <1>17, OthersUnchanged, TypesUse DEF Conc
      <4>2. /\ Curve(d, PrintedWcet(c)) \in Bound /\ Curve(d, PrintedWcet(c)') \in Bound
            /\ Towards(Curve(d, PrintedWcet(c)), Curve(d, PrintedWcet(c)'))
        BY <1>8, <1>9, <1>19, <4>1, CurveTowards
      <4> QED  BY <3>3, <4>1, <4>2, TowardsOrder
    <3> QED  BY <3>1, <3>2, <3>3, UsedBoundsKept
  <2>4. UpToDate(c)'
    BY <1>18 DEF UpToDate
  <2> QED  BY <2>1, <2>2, <2>3, <2>4 DEF Alone
<1>22. ASSUME NEW d \in Cores \ {c}
       PROVE  UsedBounds(d)' /\ UpToDate(d)'
  <2>1. AccessCycles(c, d)' = AccessCycles(c, d) /\ UsedBounds(d) /\ UpToDate(d)
    BY <1>4, <1>19 DEF Alone
  <2> QED  BY <1>17, <2>1, OthersKeepBlocking
<1>23. ASSUME NEW d \in Cores \ {c}
       PROVE  Together(c, d)' /\ Together(d, c)'
  <2>1. /\ Reached(d)' = Reached(d) /\ Stage(d)' = Stage(d) /\ PrintedWcet(d)' = PrintedWcet(d)
        /\ printed'[d] = printed[d] /\ AccessCycles(d, c)' = AccessCycles(d, c)
        /\ analysis'[d] = analysis[d] /\ Tags(d)
    BY <1>4, <1>17, OthersUnchanged DEF Alone
  <2>2. (Reached(d) = r /\ Stage(d) # 0) \/ (Reached(d) = s /\ Stage(d) = 0)
    BY <1>5 DEF Ahead, s, r
  <2>3. InStep(c, d)' /\ InStep(d, c)'
    BY <1>18, <1>19, <2>1, <2>2 DEF InStep, Ahead, s
  <2>4. \A f, t : Curve(f, t)' = Curve(f, t)
    BY <1>6, CurveUnchanged
  <2>5. Answered(c, d)'
    <3>1. printed[d].accessCycleBounds[1] = IF Stage(d) = 0 THEN Preceding(Reached(d)) ELSE Reached(d)
      BY <2>1 DEF Tags
    <3>2. printed'[d].accessCycleBounds[1] # s
      BY <1>10, <2>1, <2>2, <3>1
    <3> QED  BY <1>19, <3>2 DEF Answered
  <2>6. Answered(d, c)'
    <3>1. Answered(d, c)
      BY <1>4 DEF Together
    <3>2. Curve(c, PrintedWcet(d))' = Curve(c, PrintedWcet(d))
      BY <2>1, <2>4
    <3> QED  BY <1>16, <1>19, <2>1, <3>1, <3>2 DEF Answered
  <2>7. SomeChange(c, d)' /\ SomeChange(d, c)'
    <3>1. SomeChange(c, d)'
      BY <1>10, <1>19, <2>1, <2>2 DEF SomeChange, Ahead
    <3>2. \E e \in Cores : printed'[e].changed = <<r, TRUE>>
      <4>1. PICK e \in Cores : printed[e].changed = <<r, TRUE>>
        BY DEF Announced, r
      <4>2. printed'[e].changed = <<r, TRUE>>
        BY <1>16, <4>1
      <4> QED  BY <4>2
    <3>3. Ahead(c, d)' => Reached(d)' = r
      BY <1>10, <1>19, <2>1, <2>2 DEF Ahead
    <3>4. SomeChange(d, c)'
      BY <3>2, <3>3 DEF SomeChange
    <3> QED  BY <3>1, <3>4
  <2>8. AllUnchanged(c, d)' /\ AllUnchanged(d, c)'
    <3>1. ASSUME analysis[d].pc = "done" PROVE FALSE
      <4>1. AllUnchanged(d, c) /\ Reached(d) = r /\ ~printed[d].changed[2]
        BY <1>4, <2>1, <3>1 DEF Together, AllUnchanged, Tags, r
      <4>2. PICK e \in Cores : printed[e].changed = <<r, TRUE>>
        BY DEF Announced, r
      <4>3. printed[e].changed[2] = TRUE
        BY <4>2
      <4>4. e # d /\ e # c
        <5>1. e # d
          BY <4>1, <4>3
        <5>2. Stage(c) = 2 /\ ~Changed(analysis[c])
          BY <3>1, <4>1 DEF AllUnchanged
        <5>3. Tags(c)
          BY <1>4 DEF Alone
        <5>4. ~printed[c].changed[2]
          BY <5>2, <5>3 DEF Tags
        <5> QED  BY <4>3, <5>1, <5>4
      <4>5. Together(d, e) /\ Alone(e)
        BY <1>3, <4>4 DEF Rounds
      <4>6. Stage(e) = 2 /\ ~Changed(analysis[e])
        BY <3>1, <4>5 DEF Together, AllUnchanged
      <4>7. ~printed[e].changed[2]
        BY <4>5, <4>6 DEF Alone, Tags
      <4> QED  BY <4>7, <4>3
    <3> QED  BY <1>20, <2>1, <3>1 DEF AllUnchanged
  <2> QED  BY <2>3, <2>5, <2>6, <2>7, <2>8 DEF Together
<1> QED  BY <1>3, <1>16, <1>17, <1>18, <1>21, <1>22, <1>23, RoundsAfter

\* The last step of an analysis.
Stops(c) ==
  /\ \A d \in Conc(c) : HasPrinted(d, "changed", Reached(c)) /\ ~printed[d].changed[2]
  /\ analysis' = [analysis EXCEPT ![c].pc = "done"]
  /\ UNCHANGED <<option, printed>>

\* Where nobody has one the others will stop as well: none of them has gone on, since
\* that would need a change, and each has answered that there is none.
LEMMA StopKeepsRounds ==
  ASSUME Rounds, option \in Options, NEW c \in Cores, Started(c), Stage(c) = 2, ~Changed(analysis[c]), Stops(c)
  PROVE  Rounds'
<1> DEFINE a == analysis[c]
           n == [a EXCEPT !.pc = "done"]
           r == Reached(c)
<1>1. /\ a \in AnalysisType /\ analysis \in [Cores -> AnalysisType]
      /\ printed \in [Cores -> PrintedType] /\ r \in 0 .. 3
  BY TypesUse DEF Rounds
<1>2. \A d \in Cores : Started(d)
  BY AllStarted
<1>3. Alone(c) /\ \A d \in Cores \ {c} : Alone(d) /\ Together(c, d) /\ Together(d, c)
  BY <1>2 DEF Rounds
<1>4. ~printed[c].changed[2]
  BY <1>3 DEF Alone, Tags
<1>5. analysis' = [analysis EXCEPT ![c] = n] /\ option' = option /\ printed' = printed
  BY DEF Stops
<1>6. ASSUME NEW d \in Cores \ {c}
      PROVE  /\ Reached(d) = r /\ Stage(d) = 2 /\ ~Ahead(c, d) /\ ~Ahead(d, c)
             /\ ~Changed(analysis[d])
  <2>1. d \in Conc(c) /\ HasPrinted(d, "changed", r) /\ ~printed[d].changed[2]
    BY DEF Stops, Conc
  <2>2. /\ (Reached(d) = r /\ Stage(d) # 0) \/ (Ahead(d, c) /\ Stage(d) = 0)
        /\ ~Ahead(c, d) /\ Stage(d) # 1
    BY <1>2, <2>1, AskedInTime
  <2>3. ASSUME Ahead(d, c) PROVE FALSE
    <3>1. PICK e \in Cores : printed[e].changed = <<r, TRUE>>
      BY <1>3, <2>3 DEF SomeChange, Together
    <3>2. printed[e].changed[2] = TRUE
      BY <3>1
    <3>3. ~printed[e].changed[2]
      BY <1>4 DEF Stops, Conc
    <3> QED  BY <3>2, <3>3
  <2>4. Stage(d) \in {0, 1, 2} /\ Tags(d)
    BY <1>3, TypesUse DEF Alone
  <2>5. Reached(d) = r /\ Stage(d) = 2
    BY <2>2, <2>3, <2>4
  <2>6. ~Changed(analysis[d])
    BY <2>1, <2>4, <2>5 DEF Tags
  <2> QED  BY <2>2, <2>3, <2>5, <2>6
<1>7. /\ a.accessBound = AccessBound(c) /\ a.effectivePeriod = EffectivePeriod(c) /\ ~a.warned
      /\ a.wcetBound = WcetBound(c, a.blockingBound, a.concAccessesBound)
      /\ PrintedWcet(c) = a.previousWcetBound /\ Towards(a.previousWcetBound, a.wcetBound)
      /\ a.previousWcetBound = infinity <=> a.wcetBound = infinity
  BY <1>3 DEF Alone, OwnBounds
<1>8. a.wcetBound \in Bound /\ a.previousWcetBound \in Bound
  BY <1>1 DEF AnalysisType
<1> HIDE DEF a
<1>9. /\ n.accessBound = a.accessBound /\ n.effectivePeriod = a.effectivePeriod
       /\ n.wcetBound = a.wcetBound /\ n.blockingBound = a.blockingBound
       /\ n.concAccessesBound = a.concAccessesBound /\ n.warned = a.warned
       /\ n.previousWcetBound = a.previousWcetBound /\ n.round = a.round
  BY <1>1 DEF AnalysisType
<1>10. n \in AnalysisType
  BY <1>1 DEF AnalysisType
<1>11. n.pc = "done"
  BY <1>1 DEF AnalysisType
<1>12. n.round = r
  BY <1>9 DEF Reached, a
<1>13. Changed(n) = Changed(a)
  BY <1>9 DEF Changed
<1> HIDE DEF n, r
<1>14. analysis' \in [Cores -> AnalysisType] /\ analysis'[c] = n /\ \A d \in Cores \ {c} : analysis'[d] = analysis[d]
  BY <1>1, <1>5, <1>10, AnalysisStepOK
<1>15. StepOf(c)
  BY <1>1, <1>5, <1>14 DEF StepOf
<1>16. Started(c)' /\ Stage(c)' = 2
  BY <1>11, <1>14 DEF Started, Stage
<1>17. Reached(c)' = r /\ PrintedWcet(c)' = PrintedWcet(c) /\ \A d, e : AccessCycles(e, d)' = AccessCycles(e, d)
  BY <1>5, <1>12, <1>14 DEF Reached, PrintedWcet, AccessCycles
<1>18. Changed(analysis[c])' = Changed(a)
  <2>1. Changed(analysis[c])' = Changed(n)
    BY <1>5, <1>14, OptionUnchanged
  <2> QED  BY <1>13, <2>1
<1>19. Alone(c)'
  <2>1. Tags(c)'
    <3>1. /\ printed[c].wcetBound[1] = r /\ printed[c].accessCycleBounds[1] = r
          /\ printed[c].changed[1] = r /\ printed[c].changed[2] = Changed(a)
      BY <1>3 DEF Alone, Tags, r, a
    <3> QED  BY <1>4, <1>5, <1>16, <1>17, <1>18, <3>1 DEF Tags
  <2>2. OwnBounds(c)'
    <3>1. PrintedWcet(c)' = n.previousWcetBound /\ ~n.warned
      BY <1>7, <1>9, <1>17
    <3>2. analysis'[c] = n /\ option' = option
      BY <1>5, <1>14
    <3>3. n.accessBound = AccessBound(c) /\ n.effectivePeriod = EffectivePeriod(c)
      BY <1>7, <1>9
    <3>4. /\ n.wcetBound = WcetBound(c, n.blockingBound, n.concAccessesBound)
          /\ Towards(n.previousWcetBound, n.wcetBound)
          /\ n.previousWcetBound = infinity <=> n.wcetBound = infinity
      BY <1>7, <1>9
    <3> QED  BY <1>16, <3>1, <3>2, <3>3, <3>4, OwnBoundsAfter
  <2>3. n.blockingBound = analysis[c].blockingBound /\ n.concAccessesBound = analysis[c].concAccessesBound
    BY <1>9 DEF a
  <2>4. UsedBounds(c)'
    <3>1. analysis'[c] = n /\ option' = option /\ UsedBounds(c)
      BY <1>3, <1>5, <1>14 DEF Alone
    <3> QED  BY <1>17, <2>3, <3>1, UsedBoundsKept
  <2>5. UpToDate(c)'
    <3>1. UpToDate(c) /\ n.wcetBound = analysis[c].wcetBound
      BY <1>3, <1>9 DEF Alone, a
    <3>2. Settled(c)' = Settled(c)
      BY <1>5, OptionUnchanged
    <3>3. ReadBounds(c)' = ReadBounds(c)
      BY <1>17 DEF ReadBounds
    <3>4. /\ BlockingBound(c, Settled(c), ReadBounds(c))' = BlockingBound(c, Settled(c), ReadBounds(c))
          /\ ConcAccessesBound(c, Settled(c), ReadBounds(c))' = ConcAccessesBound(c, Settled(c), ReadBounds(c))
      BY <3>2, <3>3 DEF BlockingBound, ConcAccessesBound
    <3> QED  BY <1>14, <2>3, <3>1, <3>4 DEF UpToDate
  <2> QED  BY <2>1, <2>2, <2>4, <2>5 DEF Alone
<1>20. ASSUME NEW d \in Cores \ {c}
       PROVE  UsedBounds(d)' /\ UpToDate(d)'
  <2>1. AccessCycles(c, d)' = AccessCycles(c, d) /\ UsedBounds(d) /\ UpToDate(d)
    BY <1>3, <1>17 DEF Alone
  <2> QED  BY <1>15, <2>1, OthersKeepBlocking
<1>21. ASSUME NEW d \in Cores \ {c}
       PROVE  Together(c, d)' /\ Together(d, c)'
  <2>1. /\ Reached(d)' = r /\ Stage(d)' = 2 /\ PrintedWcet(d)' = PrintedWcet(d)
        /\ analysis'[d] = analysis[d]
    BY <1>6, <1>15, OthersUnchanged
  <2>2. ~Ahead(d, c)' /\ ~Ahead(c, d)'
    BY <1>6, <1>17, <2>1 DEF Ahead, r
  <2>3. InStep(c, d)' /\ InStep(d, c)'
    BY <1>16, <1>17, <2>1 DEF InStep
  <2>4. \A f, t : Curve(f, t)' = Curve(f, t)
    BY <1>5, CurveUnchanged
  <2>5. Answered(c, d)'
    <3>1. Answered(c, d)
      BY <1>3 DEF Together
    <3>2. Curve(d, PrintedWcet(c))' = Curve(d, PrintedWcet(c))
      BY <1>17, <2>4
    <3> QED  BY <1>5, <1>17, <3>1, <3>2 DEF Answered, r
  <2>6. Answered(d, c)'
    <3>1. Answered(d, c) /\ Reached(d) = r
      BY <1>3, <1>6 DEF Together
    <3>2. Curve(c, PrintedWcet(d))' = Curve(c, PrintedWcet(d))
      BY <2>1, <2>4
    <3> QED  BY <1>5, <1>17, <2>1, <3>1, <3>2 DEF Answered
  <2>7. ~Changed(analysis[c])' /\ ~Changed(analysis[d])'
    <3>1. Changed(analysis[d])' = Changed(analysis[d])
      BY <1>5, <2>1, OptionUnchanged
    <3> QED  BY <1>6, <1>18, <3>1 DEF a
  <2>8. AllUnchanged(c, d)' /\ AllUnchanged(d, c)'
    BY <1>16, <1>17, <2>1, <2>7 DEF AllUnchanged
  <2> QED  BY <2>2, <2>3, <2>5, <2>6, <2>8 DEF Together, SomeChange
<1> QED  BY <1>2, <1>5, <1>15, <1>16, <1>19, <1>20, <1>21, RoundsAfter

\* A bound of its own that changed is such a new bound.
LEMMA GoOnKeepsRounds ==
  ASSUME Rounds, option \in Options, NEW c \in Cores, GoOn(c)
  PROVE  Rounds'
<1>1. Started(c) /\ Stage(c) = 2
  BY DEF GoOn, Started, Stage
<1>2. Changed(analysis[c]) /\ NextRound(c)
  BY DEF GoOn
<1>3. Tags(c) /\ printed[c].changed \in (0 .. 3) \X BOOLEAN
  BY <1>1, TypesUse DEF Rounds, Alone
<1>4. printed[c].changed[1] = Reached(c) /\ printed[c].changed[2] = Changed(analysis[c])
  BY <1>1, <1>3 DEF Tags
<1>5. Changed(analysis[c]) = TRUE
  BY <1>2 DEF Changed
<1>6. printed[c].changed = <<Reached(c), TRUE>>
  <2>1. printed[c].changed \in (0 .. 3) \X BOOLEAN
    BY <1>3
  <2>2. printed[c].changed = <<printed[c].changed[1], printed[c].changed[2]>>
    BY <2>1
  <2> QED  BY <1>4, <1>5, <2>2
<1> QED  BY <1>1, <1>2, <1>6, NextRoundKeepsRounds DEF Announced

\* So is that of another one, and what is read about it belongs to the round.
LEMMA AskOthersKeepsRounds ==
  ASSUME Rounds, option \in Options, NEW c \in Cores, AskOthers(c)
  PROVE  Rounds'
<1>1. Started(c) /\ Stage(c) = 2
  BY DEF AskOthers, Started, Stage
<1>2. /\ ~Changed(analysis[c]) /\ \A d \in Conc(c) : HasPrinted(d, "changed", Reached(c))
  BY DEF AskOthers, Reached
<1>3. CASE \E d \in Conc(c) : printed[d].changed[2]
  <2>1. NextRound(c)
    BY <1>3 DEF AskOthers
  <2>2. PICK d \in Conc(c) : printed[d].changed[2]
    BY <1>3
  <2>3. /\ printed[d].changed = <<Reached(c), printed[d].changed[2]>> /\ printed[d].changed[2] \in BOOLEAN
    BY <1>1, <1>2, AllStarted, AskedInTime DEF Conc
  <2>4. printed[d].changed = <<Reached(c), TRUE>>
    BY <2>2, <2>3
  <2>5. Announced(Reached(c))
    BY <2>4 DEF Announced, Conc
  <2> QED  BY <1>1, <2>1, <2>5, NextRoundKeepsRounds
<1>4. CASE ~ \E d \in Conc(c) : printed[d].changed[2]
  <2>1. Stops(c)
    BY <1>2, <1>4 DEF AskOthers, Stops
  <2> QED  BY <1>1, <1>2, <2>1, StopKeepsRounds
<1> QED  BY <1>3, <1>4

\* All steps of an analysis.
LEMMA StepKeepsRounds ==
  ASSUME Rounds, option \in Options, NEW c \in Cores, Step(c)
  PROVE  Rounds' /\ option' = option
<1>1. CASE IterationZero(c)
  BY <1>1, IterationZeroKeepsRounds DEF IterationZero
<1>2. CASE ExchangeWcetBounds(c)
  BY <1>2, ExchangeKeepsRounds DEF ExchangeWcetBounds
<1>3. CASE Recalculate(c)
  BY <1>3, RecalculateKeepsRounds DEF Recalculate
<1>4. CASE GoOn(c)
  BY <1>4, GoOnKeepsRounds DEF GoOn, NextRound
<1>5. CASE AskOthers(c)
  BY <1>5, AskOthersKeepsRounds DEF AskOthers, NextRound
<1> QED  BY <1>1, <1>2, <1>3, <1>4, <1>5 DEF Step

-----------------------------------------------------------------------------
(* The invariant, and what follows from it *)

\* The invariant holds before anything has started ...
LEMMA InitialRounds == InitAll => RoundsInv
<1> SUFFICES ASSUME InitAll PROVE RoundsInv
  OBVIOUS
<1>1. AtStart \in AnalysisType
  <2>1. StartBound \in Bound /\ infinity \in Bound
    BY TowardsOrder, InfinityIsNoNumber
  <2> QED  BY <2>1 DEF AtStart, AnalysisType, StartBound
<1>2. Nothing \in PrintedType
  <2> DEFINE none == [d \in Cores |-> infinity]
             w == <<0, infinity>>
             b == <<0, none>>
             no == FALSE
             k == <<0, no>>
  <2>1. none \in [Cores -> Bound] /\ infinity \in Bound
    BY InfinityIsNoNumber
  <2>2. Nothing = [wcetBound |-> w, accessCycleBounds |-> b, changed |-> k]
    BY DEF Nothing
  <2> HIDE DEF none
  <2>3. w \in (0 .. 3) \X Bound
    BY <2>1
  <2>4. b \in (0 .. 3) \X [Cores -> Bound]
    BY <2>1
  <2>5. no \in BOOLEAN
    OBVIOUS
  <2> HIDE DEF no
  <2>6. k \in (0 .. 3) \X BOOLEAN
    BY <2>5
  <2> HIDE DEF w, b, k
  <2> QED  BY <2>2, <2>3, <2>4, <2>6 DEF PrintedType
<1>3. /\ option \in Options /\ launched = 0
      /\ analysis = [c \in Cores |-> AtStart] /\ printed = [c \in Cores |-> Nothing]
  BY DEF InitAll, Init
<1>4. analysis \in [Cores -> AnalysisType] /\ printed \in [Cores -> PrintedType]
  BY <1>1, <1>2, <1>3
<1>5. \A c \in Cores : ~Started(c) /\ NotStarted(c)
  <2>1. AtStart.pc = "start"
    BY DEF AtStart
  <2> QED  BY <1>3, <2>1 DEF Started, NotStarted
<1> QED  BY <1>3, <1>4, <1>5 DEF RoundsInv, Rounds, StartsTogether

\* Nothing changes while nothing changes.
LEMMA StutterKeepsRounds ==
  ASSUME Rounds, UNCHANGED vars
  PROVE  Rounds'
<1>1. option' = option /\ analysis' = analysis /\ printed' = printed
  BY DEF vars
<1>2. /\ \A c : /\ Started(c)' = Started(c) /\ Stage(c)' = Stage(c) /\ Reached(c)' = Reached(c)
                /\ PrintedWcet(c)' = PrintedWcet(c) /\ ReadBounds(c)' = ReadBounds(c)
      /\ \A c, d : AccessCycles(d, c)' = AccessCycles(d, c)
  BY <1>1 DEF Started, Stage, Reached, PrintedWcet, ReadBounds, AccessCycles
<1>3. \A d, t : Curve(d, t)' = Curve(d, t)
  BY <1>1, CurveUnchanged
<1>4. /\ \A x, y : Towards(x, y)' = Towards(x, y)
      /\ \A c : EffectivePeriod(c)' = EffectivePeriod(c) /\ Settled(c)' = Settled(c)
      /\ \A c, b, k : WcetBound(c, b, k)' = WcetBound(c, b, k)
      /\ \A a : Changed(a)' = Changed(a)
      /\ AtStart' = AtStart /\ StartBound' = StartBound
  BY <1>1, OptionUnchanged
<1>5. \A c : Tags(c)' <=> Tags(c)
  BY <1>1, <1>2, <1>4 DEF Tags
<1>6. \A c : OwnBounds(c)' <=> OwnBounds(c)
  BY <1>1, <1>2, <1>4 DEF OwnBounds
<1>7. \A c, used : Follows(c, used)' <=> Follows(c, used)
  <2> SUFFICES ASSUME NEW c, NEW used PROVE Follows(c, used)' <=> Follows(c, used)
    OBVIOUS
  <2>1. /\ BlockingBound(c, Settled(c), used)' = BlockingBound(c, Settled(c), used)
        /\ ConcAccessesBound(c, Settled(c), used)' = ConcAccessesBound(c, Settled(c), used)
    BY <1>4 DEF BlockingBound, ConcAccessesBound
  <2>2. \A d : Curve(d, PrintedWcet(c))' = Curve(d, PrintedWcet(c))
    BY <1>2, <1>3
  <2> QED  BY <1>1, <1>2, <1>4, <2>1, <2>2 DEF Follows
<1>8. \A c : UsedBounds(c)' <=> UsedBounds(c)
  BY <1>1, <1>4, <1>7 DEF UsedBounds
<1>9. \A c : UpToDate(c)' <=> UpToDate(c)
  <2> SUFFICES ASSUME NEW c PROVE UpToDate(c)' <=> UpToDate(c)
    OBVIOUS
  <2>1. /\ BlockingBound(c, Settled(c), ReadBounds(c))' = BlockingBound(c, Settled(c), ReadBounds(c))
        /\ ConcAccessesBound(c, Settled(c), ReadBounds(c))' = ConcAccessesBound(c, Settled(c), ReadBounds(c))
    BY <1>2, <1>4 DEF BlockingBound, ConcAccessesBound
  <2> QED  BY <1>1, <1>2, <2>1 DEF UpToDate
<1>10. \A c : Alone(c)' <=> Alone(c)
  BY <1>5, <1>6, <1>8, <1>9 DEF Alone
<1>11. \A c : NotStarted(c)' <=> NotStarted(c)
  BY <1>1, <1>4 DEF NotStarted, Nothing
<1>12. \A c, d : Together(c, d)' <=> Together(c, d)
  <2> SUFFICES ASSUME NEW c, NEW d PROVE Together(c, d)' <=> Together(c, d)
    OBVIOUS
  <2>1. InStep(c, d)' <=> InStep(c, d)
    BY <1>2 DEF InStep, Ahead
  <2>2. Answered(c, d)' <=> Answered(c, d)
    <3>1. Curve(d, PrintedWcet(c))' = Curve(d, PrintedWcet(c))
      BY <1>2, <1>3
    <3> QED  BY <1>1, <1>2, <3>1 DEF Answered
  <2>3. SomeChange(c, d)' <=> SomeChange(c, d)
    BY <1>1, <1>2 DEF SomeChange, Ahead
  <2>4. AllUnchanged(c, d)' <=> AllUnchanged(c, d)
    BY <1>1, <1>2, <1>4 DEF AllUnchanged
  <2> QED  BY <2>1, <2>2, <2>3, <2>4 DEF Together
<1>13. StartsTogether' <=> StartsTogether
  BY <1>2 DEF StartsTogether
<1> QED  BY <1>1, <1>2, <1>10, <1>11, <1>12, <1>13 DEF Rounds

\* ... and each step keeps it, those of the multi-core because they only look at bounds.
LEMMA NextKeepsRounds == RoundsInv /\ [Next]_allVars => RoundsInv'
<1> SUFFICES ASSUME RoundsInv, [Next]_allVars PROVE RoundsInv'
  OBVIOUS
<1>1. CASE AnalysisStep
  <2>1. PICK c \in Cores : Step(c)
    BY <1>1 DEF AnalysisStep
  <2>2. launched = 0 /\ launched' = launched /\ Rounds /\ option \in Options
    BY <1>1 DEF AnalysisStep, hwVars, RoundsInv
  <2>3. Rounds' /\ option' = option
    BY <2>1, <2>2, StepKeepsRounds
  <2> QED  BY <2>2, <2>3 DEF RoundsInv
<1>2. CASE Launch
  <2>1. launched' \in Cores /\ option' = option /\ launched' # 0
    BY <1>2, PathAssumption DEF Launch
  <2>2. ASSUME NEW c \in Cores PROVE analysis'[c].pc = "start" /\ ~analysis'[c].warned
    <3> DEFINE bound == IF c = launched' THEN analysis[c].wcetBound ELSE infinity
    <3>1. analysis'[c] = [AtStart EXCEPT !.effectivePeriod = Period(c), !.wcetBound = bound]
      BY <1>2 DEF Launch
    <3> HIDE DEF bound
    <3> QED  BY <3>1 DEF AtStart
  <2> QED  BY <2>1, <2>2 DEF RoundsInv, Started
<1>3. CASE launched # 0 /\ UNCHANGED <<vars, launched>>
  BY <1>3 DEF RoundsInv, vars, Started
<1>4. CASE UNCHANGED allVars
  <2>1. UNCHANGED vars /\ launched' = launched
    BY <1>4 DEF allVars, hwVars
  <2>2. CASE launched = 0
    BY <2>1, <2>2, StutterKeepsRounds DEF RoundsInv, vars
  <2>3. CASE launched # 0
    BY <1>3, <2>1, <2>3
  <2> QED  BY <2>2, <2>3
<1>5. ASSUME Tick \/ \E c \in Cores : StartRun(c) \/ Decide(c)
      PROVE  launched # 0 /\ UNCHANGED <<vars, launched>>
  BY <1>5 DEF Tick, StartRun, Decide
<1> QED  BY <1>1, <1>2, <1>3, <1>4, <1>5 DEF Next

\* The rounds of the analyses of all cores hold together, for any programs, any number of
\* cores and all options: doCoRunnerSensitivePathAnalysis() reads what it means to read.
THEOREM RoundsHold == Spec => []RoundsInv
  BY InitialRounds, NextKeepsRounds, PTL DEF Spec

\* An analysis that has started has no warning.
LEMMA RoundsDoNotRetreat == RoundsInv => NeverRetreats
<1> SUFFICES ASSUME RoundsInv, NEW c \in Cores PROVE ~analysis[c].warned
  BY DEF NeverRetreats
<1>1. CASE launched # 0
  BY <1>1 DEF RoundsInv
<1>2. CASE launched = 0 /\ Started(c)
  BY <1>2 DEF RoundsInv, Rounds, Alone, OwnBounds
<1>3. CASE launched = 0 /\ ~Started(c)
  <2>1. analysis[c] = AtStart
    BY <1>3 DEF RoundsInv, Rounds, NotStarted
  <2> QED  BY <2>1 DEF AtStart
<1> QED  BY <1>1, <1>2, <1>3

\* No bound ever moves against the direction of the iteration, so that calcWCETBound()
\* never warns and drops one, whatever the programs, the periods and the interleaving.
THEOREM BoundsNeverRetreat == Spec => []NeverRetreats
  BY RoundsHold, RoundsDoNotRetreat, PTL

\* At the end no bound changed in the last round, so that what was computed from the
\* bounds of that round is what the final ones yield.
LEMMA RoundsReachFixedPoint == RoundsInv => FixedPointReached
<1> SUFFICES ASSUME RoundsInv, AllDone, NEW c \in Cores, analysis[c].wcetBound # infinity
             PROVE  LET a == analysis[c]
                        bounds == [d \in Cores |-> IF d = c THEN infinity ELSE MaxAccessCyclesPer(d, analysis[d], a.wcetBound)]
                    IN  a.wcetBound = WcetBound(c, BlockingBound(c, a, bounds), ConcAccessesBound(c, a, bounds))
  BY DEF FixedPointReached
<1> DEFINE a == analysis[c]
           bounds == [d \in Cores |-> IF d = c THEN infinity ELSE MaxAccessCyclesPer(d, analysis[d], a.wcetBound)]
<1>1. ASSUME NEW d \in Cores PROVE Started(d) /\ Stage(d) = 2
  BY DEF AllDone, Started, Stage
<1>2. Rounds /\ option \in Options
  BY <1>1 DEF RoundsInv
<1>3. Alone(c) /\ \A d \in Cores \ {c} : Alone(d) /\ Together(c, d)
  BY <1>1, <1>2 DEF Rounds
<1>4. a.wcetBound \in Bound /\ a.previousWcetBound \in Bound
  BY <1>2, TypesUse
<1>5. a.wcetBound = a.previousWcetBound /\ PrintedWcet(c) = a.previousWcetBound
  <2>1. ~Changed(a)
    <3>1. analysis[c].pc = "done"
      BY DEF AllDone
    <3> QED  BY <1>1, <1>3, <3>1 DEF Alone, Tags
  <2>2. /\ PrintedWcet(c) = a.previousWcetBound /\ Towards(a.previousWcetBound, a.wcetBound)
        /\ a.previousWcetBound # infinity
    BY <1>1, <1>3 DEF Alone, OwnBounds
  <2>3. Greatest \/ Least
    BY <1>2, OptionsAssumption DEF Greatest, Least
  <2>4. a.wcetBound \in Nat /\ a.previousWcetBound \in Nat
    BY <1>4, <2>2 DEF Bound
  <2>5. Least => ~Greatest
    BY DEF Least, Greatest
  <2> QED  BY <2>1, <2>2, <2>3, <2>4, <2>5 DEF Changed, Towards, NoGreater
<1>6. a.accessBound = AccessBound(c) /\ a.wcetBound = WcetBound(c, a.blockingBound, a.concAccessesBound)
  BY <1>3 DEF Alone, OwnBounds
<1>7. ASSUME NEW d \in Conc(c) PROVE bounds[d] = ReadBounds(c)[d]
  <2>1. d \in Cores /\ d # c
    BY DEF Conc
  <2>2. Alone(d) /\ Together(c, d)
    BY <1>3, <2>1
  <2>3. analysis[d].accessBound = AccessBound(d) /\ analysis[d].effectivePeriod = EffectivePeriod(d)
    BY <2>2 DEF Alone, OwnBounds
  <2>4. MaxAccessCyclesPer(d, analysis[d], a.wcetBound) = Curve(d, a.wcetBound)
    BY <2>3 DEF MaxAccessCyclesPer, Curve, Settled
  <2>5. Reached(d) = Reached(c)
    BY <2>2 DEF AllDone, Together, AllUnchanged
  <2>6. printed[d].accessCycleBounds[1] = Reached(c)
    BY <1>1, <2>1, <2>2, <2>5 DEF Alone, Tags
  <2>7. AccessCycles(d, c) = Curve(d, PrintedWcet(c))
    BY <2>2, <2>6 DEF Together, Answered
  <2> QED  BY <1>5, <2>1, <2>4, <2>7 DEF ReadBounds
<1>8. /\ BlockingBound(c, Settled(c), ReadBounds(c)) = BlockingBound(c, a, bounds)
      /\ ConcAccessesBound(c, Settled(c), ReadBounds(c)) = ConcAccessesBound(c, a, bounds)
  <2>1. Settled(c).accessBound = a.accessBound
    BY <1>6 DEF Settled
  <2> HIDE DEF a, bounds
  <2> QED  BY <1>7, <2>1, BlockingDependsOn
<1>9. /\ a.blockingBound = BlockingBound(c, Settled(c), ReadBounds(c))
      /\ a.concAccessesBound = ConcAccessesBound(c, Settled(c), ReadBounds(c))
  BY <1>1, <1>3 DEF Alone, UpToDate
<1> QED  BY <1>6, <1>8, <1>9

\* When all analyses are done their bounds are a fixed point: each WCET bound is what the
\* final bounds of the others yield, although recalculations were skipped on the way.
THEOREM FixedPointIsReached == Spec => []FixedPointReached
  BY RoundsHold, RoundsReachFixedPoint, PTL
=============================================================================
