---------------------------- MODULE PreemptionDelay ----------------------------
(***************************************************************************)
(* CacheRelatedPreemptionDelay: what a preemption costs a task in          *)
(* additional misses of its instruction cache. GraphIterator runs one      *)
(* analysis after another over the state graph; their results give the     *)
(* useful (UCB) and the definitely cached useful (DC-UCB) blocks, the      *)
(* blocks on its edges the evicting ones (ECB).                            *)
(*                                                                         *)
(* The first part are the domains of these analyses, each with its initial *)
(* state, its update for one access and its join: the must and the may     *)
(* cache, DCUsefulCacheBlocks and TrackLastAccess. All but the last keep   *)
(* one state per cache set.                                                *)
(*                                                                         *)
(* When the analyses are done the task is executed twice in one step: on a *)
(* cache of its own, and on one that another task, whose memory is         *)
(* disjoint, uses once while the task is preempted at a program point, a   *)
(* vertex of the graph. Vertex 0 is the start and the end of the program.  *)
(***************************************************************************)
EXTENDS LruMaxAge, LruMinAge, Functions

CONSTANT N_SETS    \* CacheConfig->N_SETS

ASSUME SetsAssumption == N_SETS \in Nat \ {0}

Index == 0 .. N_SETS - 1
IndexOf(block) == block % N_SETS
TagOf(block) == block \div N_SETS

\* EvictingCacheBlocks collects the tags that are accessed, and gives up when
\* there are more of them than ways.
EvictingInit == [top |-> FALSE, tags |-> {}]

\* Mutant: the tags are forgotten but not that they were too many.
EvictingUpdateWraps(s, t) ==
  IF Cardinality(s.tags \cup {t}) > Assoc THEN EvictingInit
  ELSE [s EXCEPT !.tags = @ \cup {t}]

EvictingUpdate(s, t) ==
  IF s.top THEN s
  ELSE IF Cardinality(s.tags \cup {t}) > Assoc THEN [top |-> TRUE, tags |-> {}]
  ELSE [s EXCEPT !.tags = @ \cup {t}]

NumberOfEvicting(s) == IF s.top THEN Assoc ELSE Cardinality(s.tags)

\* Mutant: a line is useful only up to the next access of its set.
DCUsefulOnlyLast(s, t, must) == {u \in {t} : MustAge(must, u) < Assoc}

\* DCUsefulCacheBlocks: the lines that are accessed later on and surely cached
\* until then.
DCUsefulUpdate(s, t, must) == {u \in s \cup {t} : MustAge(must, u) < Assoc}

-----------------------------------------------------------------------------
\* TrackLastAccess knows the block of the last access, or that none is known.
NoAccess == -1

\* CacheType(true): the program starts with an empty cache.
DomainInit(domain) ==
  IF domain = "LastAccess" THEN NoAccess
  ELSE [i \in Index |->
          CASE domain = "Must" -> MustInit
            [] domain = "May" -> MayInit(TRUE)
            [] domain = "DCUseful" -> {}]

\* Update with an access to block; info is the program point's additional
\* information, the must state of every set.
DomainUpdate(domain, s, block, info) ==
  LET i == IndexOf(block)
      t == TagOf(block)
  IN  IF domain = "LastAccess" THEN block
      ELSE [s EXCEPT ![i] =
        CASE domain = "Must" -> MustUpdate(@, t, FALSE)
          [] domain = "May" -> MayUpdate(@, t)
          [] domain = "DCUseful" -> DCUsefulUpdate(@, t, info[i])]

DomainJoin(domain, s, r) ==
  IF domain = "LastAccess" THEN (IF s = r THEN s ELSE NoAccess)
  ELSE [i \in Index |->
          CASE domain = "Must" -> MustJoin(s[i], r[i])
            [] domain = "May" -> MayJoin(s[i], r[i])
            [] domain = "DCUseful" -> s[i] \cup r[i]]

-----------------------------------------------------------------------------
CONSTANTS Graphs,      \* the state graphs: edges and the blocks each accesses
          UCBClever,   \* the option ta-ucb-clever
          Foreign      \* what a block of the other task is renamed by

VARIABLES graph,       \* the program under analysis
          other,       \* the program that preempts it
          pass,        \* the number of analyses that are done
          worklist,    \* the vertices whose neighbours are to be visited
          cacheStates, \* the running analysis's state of each visited vertex
          results,     \* the cacheStates of the analyses that are done
          at,          \* the vertex the task has reached
          otherAt,     \* the one the other task has reached, -1 if it is not running
          preemptedAt, \* the vertex the task is or was preempted at, -1 before that
          alone,       \* alone[i]: set i of the cache, youngest block first, if
                       \* the task is not preempted
          disturbed,   \* the same if it is
          missed,      \* the accesses per set that hit in one and miss in the other
          missedHits   \* those of them that the must analysis calls a hit

analysisVars == <<pass, worklist, cacheStates, results>>
taskVars == <<at, otherAt, preemptedAt, alone, disturbed, missed, missedHits>>
vars == <<graph, other, analysisVars, taskVars>>

Vertices == UNION {{e[1], e[2]} : e \in DOMAIN graph}
SortedSet(S) == SetToSortSeq(S, LAMBDA x, y : x < y)

\* The analyses in the order in which their results are needed.
Passes == <<[domain |-> "May", backwards |-> FALSE],
            [domain |-> "May", backwards |-> TRUE],
            [domain |-> "LastAccess", backwards |-> FALSE],
            [domain |-> "Must", backwards |-> FALSE],
            [domain |-> "DCUseful", backwards |-> TRUE]>>
Current == Passes[pass + 1]
Result(domain, backwards) == results[[domain |-> domain, backwards |-> backwards]]
Done == pass = Len(Passes)

-----------------------------------------------------------------------------
\* getTagsWithMaxMinAge(ASSOCIATIVITY - 1): the tags that may be cached.
MayHold(s) == {t \in Tags : MinAge(s, t) < Assoc}

\* In clever mode the block that was accessed last is not counted.
WithoutLastAccess(n, useful) ==
  LET last == Result("LastAccess", FALSE)[n]
  IN  IF UCBClever /\ last # NoAccess
      THEN [useful EXCEPT ![IndexOf(last)] = @ \ {TagOf(last)}] ELSE useful

\* computeUCBsPerPP: the blocks that may be cached at the vertex and may be
\* accessed again before they are evicted.
UCBs(n) ==
  WithoutLastAccess(n, [i \in Index |->
    MayHold(Result("May", FALSE)[n][i]) \cap MayHold(Result("May", TRUE)[n][i])])

\* computeDCUCBsPerPP
DCUCBs(n) == WithoutLastAccess(n, Result("DCUseful", TRUE)[n])

Bounded(useful) == [i \in Index |-> Min({Cardinality(useful[i]), Assoc})]

\* computeUCBsPerSet and computeDCUCBsPerSet: the greatest number at any vertex,
\* of each set and (MaxUCBsAtAnyProgramPoint) of all sets together.
GreatestOf(number(_)) == Max({number(n) : n \in DOMAIN Result("May", FALSE)})
UCBsPerSet(i) == GreatestOf(LAMBDA n : Bounded(UCBs(n))[i])
DCUCBsPerSet(i) == GreatestOf(LAMBDA n : Bounded(DCUCBs(n))[i])
MaxUCBs == GreatestOf(LAMBDA n : SumFunction(Bounded(UCBs(n))))
MaxDCUCBs == GreatestOf(LAMBDA n : SumFunction(Bounded(DCUCBs(n))))

\* computeECBsPerSet of a program: the blocks on its edges, in any order.
ECBsPerSet(g) ==
  LET blocks == UNION {ToSet(g[e]) : e \in DOMAIN g}
      tags(i) == SortedSet({TagOf(b) : b \in {c \in blocks : IndexOf(c) = i}})
  IN  [i \in Index |-> NumberOfEvicting(FoldLeft(EvictingUpdate, EvictingInit, tags(i)))]

-----------------------------------------------------------------------------
\* The additional information of vertex n, which DCUsefulCacheBlocks asks for.
AddInfo(n) == IF Current.domain = "DCUseful" THEN Result("Must", FALSE)[n] ELSE << >>

Neighbours(n) ==
  IF Current.backwards THEN {m \in Vertices : <<m, n>> \in DOMAIN graph}
  ELSE {m \in Vertices : <<n, m>> \in DOMAIN graph}

\* The accesses on the edge between n and its neighbour m, in the direction
\* of the analysis.
Accesses(n, m) ==
  IF Current.backwards THEN Reverse(graph[<<m, n>>]) ELSE graph[<<n, m>>]

\* The only element of a set.
Only(S) == CHOOSE x \in S : TRUE

\* Carry cache over the accesses between n and m, with the information of m.
Transfer(n, m, cache) ==
  LET update(s, b) == Only({DomainUpdate(Current.domain, r, b, AddInfo(m)) : r \in {s}})
  IN  FoldLeft(update, cache, Accesses(n, m))

\* Mutant: m is queued again although nothing has changed.
ArrivedQueuesAlways(st, m, cache) ==
  [list |-> st.list \cup {m},
   states |-> IF m \in DOMAIN st.states
              THEN [st.states EXCEPT ![m] = DomainJoin(Current.domain, @, cache)]
              ELSE st.states @@ (m :> cache)]

\* The iteration st after cache has arrived at m.
Arrived(st, m, cache) ==
  IF m \in DOMAIN st.states /\ cache = st.states[m] THEN st
  ELSE [list |-> st.list \cup {m},
        states |-> IF m \in DOMAIN st.states
                   THEN [st.states EXCEPT ![m] = DomainJoin(Current.domain, @, cache)]
                   ELSE st.states @@ (m :> cache)]

\* Mutant: a vertex that has been visited is not updated again.
VisitOnce(st, n, m) ==
  IF m \in DOMAIN st.states THEN st
  ELSE Only({Arrived(st, m, cache) : cache \in {Transfer(n, m, st.states[n])}})

\* Visit m from n.  m is queued again whenever what arrives there differs from
\* what is stored there.
Visit(st, n, m) ==
  Only({Arrived(st, m, cache) : cache \in {Transfer(n, m, st.states[n])}})

\* One round of runFixpointAnalysis: take the least vertex from the worklist
\* and visit all its neighbours but vertex 0.
Iterate ==
  /\ ~Done /\ worklist # {}
  /\ \E n \in {Min(worklist)} : \E visited \in {SortedSet(Neighbours(n) \ {0})} :
       \E st \in {FoldLeft(LAMBDA s, m : Only({Visit(r, n, k) : r \in {s}, k \in {m}}),
                          [states |-> cacheStates, list |-> worklist \ {n}], visited)} :
         cacheStates' = st.states /\ worklist' = st.list
  /\ UNCHANGED <<graph, other, pass, results, taskVars>>

\* The analysis is done; start the next one at vertex 0.
FinishPass ==
  /\ ~Done /\ worklist = {}
  /\ results' = results @@ (Current :> cacheStates)
  /\ pass' = pass + 1
  /\ IF pass' = Len(Passes) THEN worklist' = {} /\ cacheStates' = << >>
     ELSE /\ worklist' = {0}
          /\ cacheStates' = 0 :> DomainInit(Passes[pass' + 1].domain)
  /\ UNCHANGED <<graph, other, taskVars>>

-----------------------------------------------------------------------------
EmptyCache == [i \in Index |-> << >>]

\* An LRU set of the cache: the accessed block moves to the front.
Access(cache, b) ==
  LET i == IndexOf(b)
      rest == SelectSeq(cache[i], LAMBDA c : c # b)
  IN  [cache EXCEPT ![i] = <<b>> \o SubSeq(rest, 1, Min({Len(rest), Assoc - 1}))]
Holds(cache, b) == b \in ToSet(cache[IndexOf(b)])

\* The task and its double access block b; known is the must cache there.
AccessBoth(st, b) ==
  LET i == IndexOf(b)
      additional == Holds(st.alone, b) /\ ~Holds(st.disturbed, b)
      surelyHit == MustClassify(st.known[i], TagOf(b), 0) = "HIT"
  IN  [alone |-> Access(st.alone, b),
       disturbed |-> Access(st.disturbed, b),
       known |-> DomainUpdate("Must", st.known, b, << >>),
       missed |-> [st.missed EXCEPT ![i] = @ + (IF additional THEN 1 ELSE 0)],
       missedHits |-> [st.missedHits EXCEPT ![i] =
                         @ + (IF additional /\ surelyHit THEN 1 ELSE 0)]]

\* The task runs along an edge.  It starts on an empty cache, as the analyses
\* assume, and runs once.
RunEdge ==
  /\ Done /\ otherAt = -1
  /\ \E m \in Vertices :
       /\ <<at, m>> \in DOMAIN graph
       /\ at = 0 => m # 0 /\ alone = EmptyCache
       /\ LET st == FoldLeft(AccessBoth,
                      [alone |-> alone, disturbed |-> disturbed, missed |-> missed,
                       missedHits |-> missedHits, known |-> Result("Must", FALSE)[at]],
                      graph[<<at, m>>])
          IN  /\ at' = m
              /\ alone' = st.alone /\ disturbed' = st.disturbed
              /\ missed' = st.missed /\ missedHits' = st.missedHits
  /\ UNCHANGED <<graph, other, analysisVars, otherAt, preemptedAt>>

\* The task is preempted at a vertex, once.
Preempt ==
  /\ Done /\ at # 0 /\ preemptedAt = -1
  /\ preemptedAt' = at
  /\ otherAt' = 0
  /\ UNCHANGED <<graph, other, analysisVars, at, alone, disturbed, missed, missedHits>>

\* The other task runs along an edge of its graph; at its end the task goes on.
OtherEdge ==
  /\ otherAt # -1
  /\ \E e \in DOMAIN other :
       /\ e[1] = otherAt /\ e # <<0, 0>>
       /\ disturbed' = FoldLeft(LAMBDA cache, b : Access(cache, b + Foreign),
                                disturbed, other[e])
       /\ otherAt' = IF e[2] = 0 THEN -1 ELSE e[2]
  /\ UNCHANGED <<graph, other, analysisVars, at, preemptedAt, alone, missed, missedHits>>

InitTasks ==
  /\ graph \in Graphs /\ other \in Graphs
  /\ pass = 0 /\ results = << >>
  /\ worklist = {0} /\ cacheStates = 0 :> DomainInit(Passes[1].domain)
  /\ at = 0 /\ otherAt = -1 /\ preemptedAt = -1
  /\ alone = EmptyCache /\ disturbed = EmptyCache
  /\ missed = [i \in Index |-> 0] /\ missedHits = missed

Next == Iterate \/ FinishPass \/ RunEdge \/ Preempt \/ OtherEdge

\* The analyses are loops that nothing interrupts.
Spec == InitTasks /\ [][Next]_vars /\ WF_vars(Iterate \/ FinishPass)

-----------------------------------------------------------------------------
\* Every additional miss after a preemption is the reload of a useful block: from
\* the preemption to the end of the program no set misses more often than it has
\* useful blocks where the task was preempted, and the numbers that
\* computeUCBsPerSet reports hold for a preemption at any vertex.
UsefulBlocksBoundMisses ==
  preemptedAt # -1 =>
    /\ \A i \in Index : missed[i] <= Bounded(UCBs(preemptedAt))[i] /\ missed[i] <= UCBsPerSet(i)
    /\ SumFunction(missed) <= MaxUCBs

\* The additional misses that the timing analysis has not counted already, as it
\* took the access for a hit, are bounded by the DC-UCBs in the same way.
DefinitelyCachedBoundMisses ==
  preemptedAt # -1 =>
    /\ \A i \in Index :
         missedHits[i] <= Bounded(DCUCBs(preemptedAt))[i] /\ missedHits[i] <= DCUCBsPerSet(i)
    /\ SumFunction(missedHits) <= MaxDCUCBs

\* So a preemption costs no more than the two numbers that the class reports, of
\* useful blocks (UCB) and of definitely cached ones (DCUCB), whichever is taken.
AdditionalMissesBounded == UsefulBlocksBoundMisses /\ DefinitelyCachedBoundMisses

\* computeECBsPerSet bounds what the other task does to a set: while the task is
\* preempted none of its blocks ages by more than the number of ECBs, whatever
\* path the other task takes.
EvictingBlocksBoundAging ==
  otherAt # -1 => \A i \in Index : \A k \in DOMAIN alone[i] :
    LET older == k + ECBsPerSet(other)[i]
    IN  older <= Assoc =>
          \E l \in DOMAIN disturbed[i] : l <= older /\ disturbed[i][l] = alone[i][k]

\* An analysis ends with a state of every vertex that stands for whatever
\* arrives over any edge of the graph.
FixpointReached ==
  worklist = {} /\ ~Done =>
    \A n \in DOMAIN cacheStates : \A m \in Neighbours(n) \ {0} :
      /\ m \in DOMAIN cacheStates
      /\ \E arriving \in {Transfer(n, m, cacheStates[n])} :
           DomainJoin(Current.domain, cacheStates[m], arriving) = cacheStates[m]

-----------------------------------------------------------------------------
\* The vertices to which several edges of E lead.
Joins(E) == {m \in Vertices \ {0} : Cardinality({e \in E : e[2] = m}) > 1}

\* The edges of E between the vertices of V form a cycle.
CycleAmong(V, E) ==
  \E S \in (SUBSET V) \ {{}} : \A n \in S : \E m \in S : <<n, m>> \in E

\* What arrives at a vertex from several neighbours may differ from what is stored
\* there, their join, for good, and then the vertex is queued at each visit.
JoinsOnNoCycle ==
  \A E \in {DOMAIN graph, {Reverse(e) : e \in DOMAIN graph}} :
    \A V \in {Joins(E)} : ~CycleAmong(V, E)

\* Every analysis ends if each cycle passes a vertex with one predecessor and one
\* with one successor.  Those of InsensitiveGraph do: between the vertices where
\* a block is entered and left there is a single edge.
TerminatesWithoutCyclesOfJoins == JoinsOnNoCycle => <>Done

\* "Process the worklist.  It contains elements whose predecessors have changed
\* and therefore need to be considered again": the iteration ends, as nothing can
\* change for ever.
Terminates == <>Done
=============================================================================
