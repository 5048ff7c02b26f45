-------------------------- MODULE CoRunnerSensitive --------------------------
(***************************************************************************)
(* doCoRunnerSensitivePathAnalysis(): one analysis for each core of a      *)
(* multi-core with a shared bus, which go on in rounds. In each round an   *)
(* analysis prints the WCET bound of its program, reads those of the       *)
(* concurrent cores, prints how long its program can use the bus in        *)
(* windows of their lengths (the arrival curve), reads the same from them, *)
(* bounds the blocking of its own program by it, and analyses its runs     *)
(* again. The rounds end when no bound changed. What an analysis prints is *)
(* relayed to the others; they are free to differ in speed.                *)
(*                                                                         *)
(* The first part are the questions it asks of the path analysis. A        *)
(* program is a graph of computations and of accesses to the shared bus;   *)
(* its runs lead from vertex 0 back to it. The state graph carries for     *)
(* each edge what the weight providers extract from the metrics of the     *)
(* memory, and a solution of the integer program is the sum of the weights *)
(* along a path.                                                           *)
(***************************************************************************)
EXTENDS Integers, Sequences, FiniteSets, FiniteSetsExt, Functions

CONSTANTS Cores,
          Program,       \* Program[c]: edges [from, to, kind, lo, hi]
          BusLatency,    \* UBbusCyclesPerAccess
          BlockingJoinablePartitionSize,
          MaxWindow      \* the longest window an arrival curve is asked for

\* Cores are numbered from 1: 0 stands for none of them.
ASSUME PathAssumption ==
  /\ IsFiniteSet(Cores) /\ Cardinality(Cores) >= 2 /\ 0 \notin Cores
  /\ BusLatency \in Nat \ {0} /\ BlockingJoinablePartitionSize \in Nat /\ MaxWindow \in Nat
  /\ \A c \in Cores :
       /\ IsFiniteSet(Program[c])
       \* A run goes on until it is back at vertex 0.
       /\ \A v \in {0} \cup {e.to : e \in Program[c]} : \E e \in Program[c] : e.from = v
       /\ \A e \in Program[c] :
            /\ e.from \in Nat /\ e.to \in Nat /\ e.lo \in Nat \ {0} /\ e.hi \in Nat /\ e.lo <= e.hi
            /\ e.kind \in {"compute", "access", "forwarded"}
            /\ e.kind # "compute" => e.lo = BusLatency /\ e.hi = BusLatency
            \* Vertices of a run are numbered in its order.
            /\ IF e.to = 0 THEN e.from # 0 ELSE e.from < e.to

infinity == -1
NumConcurrentCores == Cardinality(Cores) - 1

\* The longest blocking of an access by a round-robin bus.
MaxBlockingPerAccess == NumConcurrentCores * BusLatency
CeilDiv(n, d) == (n + d - 1) \div d

-----------------------------------------------------------------------------
(* Weights.  The cycles an access is blocked are split into one edge each,  *)
(* or fast-forwarded: then they are the blocked cycle loop of the edge.     *)

Computation(e) ==
  {[from |-> e.from, to |-> e.to, ubTime |-> e.hi, lbTime |-> e.lo, lbBlocking |-> 0,
    lbConcAccesses |-> 0, ubAccesses |-> 0, ubAccessCycles |-> 0, ubBlockedCycleLoop |-> 0]}
BlockedFor(e, k) ==
  [from |-> e.from, to |-> e.to, ubTime |-> e.hi + k, lbTime |-> e.lo + k, lbBlocking |-> k,
   lbConcAccesses |-> CeilDiv(k, BusLatency), ubAccesses |-> 1, ubAccessCycles |-> BusLatency,
   ubBlockedCycleLoop |-> 0]
FastForwarded(e) ==
  {[BlockedFor(e, 0) EXCEPT !.ubBlockedCycleLoop = MaxBlockingPerAccess]}
Split(e) ==
  IF e.kind = "compute" THEN Computation(e)
  ELSE IF e.kind = "forwarded" THEN FastForwarded(e)
  ELSE {BlockedFor(e, k) : k \in 0 .. MaxBlockingPerAccess}

\* Edges of the same states are joined, unless the partitions of their
\* blocking keep them apart.
JoinEdges(E) ==
  LET any == CHOOSE e \in E : TRUE
      Most(w) == Max({w[e] : e \in E})
      Least(w) == Min({w[e] : e \in E})
  IN  [from |-> any.from, to |-> any.to,
       ubTime |-> Most([e \in E |-> e.ubTime]), lbTime |-> Least([e \in E |-> e.lbTime]),
       lbBlocking |-> Least([e \in E |-> e.lbBlocking]),
       lbConcAccesses |-> Least([e \in E |-> e.lbConcAccesses]),
       ubAccesses |-> Most([e \in E |-> e.ubAccesses]),
       ubAccessCycles |-> Most([e \in E |-> e.ubAccessCycles]),
       ubBlockedCycleLoop |-> Most([e \in E |-> e.ubBlockedCycleLoop])]
AreWeightsJoinable(a, b) ==
  BlockingJoinablePartitionSize > 0 =>
    a.lbBlocking \div BlockingJoinablePartitionSize = b.lbBlocking \div BlockingJoinablePartitionSize
EdgesOf(e) ==
  {JoinEdges({b \in Split(e) : AreWeightsJoinable(a, b)}) : a \in Split(e)}

StateGraph == [c \in Cores |-> UNION {EdgesOf(e) : e \in Program[c]}]

\* The arrival curves use a graph of their own in which no blocking is kept
\* apart; it has an idle cycle between two runs.
Idle ==
  [from |-> 0, to |-> 0, ubTime |-> 1, lbTime |-> 1, lbBlocking |-> 0, lbConcAccesses |-> 0,
   ubAccesses |-> 0, ubAccessCycles |-> 0, ubBlockedCycleLoop |-> 0]
ArrivalCurveStateGraph == [c \in Cores |-> {JoinEdges(Split(e)) : e \in Program[c]} \cup {Idle}]

-----------------------------------------------------------------------------
(* Runs of the program *)

Along(p, e) ==
  [at |-> e.to, ubTime |-> p.ubTime + e.ubTime, lbTime |-> p.lbTime + e.lbTime,
   lbBlocking |-> p.lbBlocking + e.lbBlocking,
   lbConcAccesses |-> p.lbConcAccesses + e.lbConcAccesses,
   ubAccesses |-> p.ubAccesses + e.ubAccesses,
   ubBlockedCycleLoop |-> p.ubBlockedCycleLoop + e.ubBlockedCycleLoop]
NoEdges ==
  [at |-> 0, ubTime |-> 0, lbTime |-> 0, lbBlocking |-> 0, lbConcAccesses |-> 0,
   ubAccesses |-> 0, ubBlockedCycleLoop |-> 0]
ExtendRuns(E, P) ==
  {p \in P : p.at = 0 /\ p.ubTime > 0} \cup
  {Along(x[1], x[2]) : x \in {y \in P \X E : y[1].at = y[2].from /\ (y[1].at # 0 \/ y[1].ubTime = 0)}}
Runs ==
  [c \in Cores |->
     FoldSet(LAMBDA n, P : ExtendRuns(StateGraph[c], P), {NoEdges}, 1 .. Cardinality(Program[c]))]

\* The blocked cycle loop is taken at most as often as the edges of the run
\* allow; each of its cycles counts as blocking and as time.
Blocked(c) == {s \in Runs[c] \X (0 .. Max({q.ubBlockedCycleLoop : q \in Runs[c]})) :
                 s[2] <= s[1].ubBlockedCycleLoop}
Within(x, bound) == bound = infinity \/ x <= bound

\* The longest run under a blocking bound and a bound on concurrent accesses.
UbTime(c, blockingBound, concAccessesBound) ==
  Max({s[1].ubTime + s[2] :
         s \in {t \in Blocked(c) : /\ Within(t[1].lbBlocking + t[2], blockingBound)
                                   /\ Within(t[1].lbConcAccesses, concAccessesBound)}})
LbTime(c) == Min({p.lbTime : p \in Runs[c]})
AccessBound(c) == Max({p.ubAccesses : p \in Runs[c]})

ASSUME WindowAssumption == \A c \in Cores : UbTime(c, infinity, infinity) <= MaxWindow

-----------------------------------------------------------------------------
(* Paths over the runs and the idle cycles, for the arrival curves: the     *)
(* first and the last edge may lie in the window in part only.              *)

Start(e) == e.from = 0 /\ e.to # 0
FirstEdge(e) ==
  [at |-> e.to, last |-> <<e.lbTime, e.ubAccessCycles>>,
   lbTime |-> e.lbTime, ubAccessCycles |-> e.ubAccessCycles,
   inner |-> -e.lbTime, innerAccessCycles |-> -e.ubAccessCycles,
   starts |-> IF Start(e) THEN 1 ELSE 0, sub |-> 0, since |-> IF Start(e) THEN e.lbTime ELSE 0]
NextEdge(p, e) ==
  [at |-> e.to, last |-> <<e.lbTime, e.ubAccessCycles>>,
   lbTime |-> p.lbTime + e.lbTime, ubAccessCycles |-> p.ubAccessCycles + e.ubAccessCycles,
   inner |-> IF p.inner < 0 THEN 0 ELSE p.inner + p.last[1],
   innerAccessCycles |-> IF p.inner < 0 THEN 0 ELSE p.innerAccessCycles + p.last[2],
   starts |-> p.starts + (IF Start(e) THEN 1 ELSE 0),
   \* the subpath of complete runs ends where the last run starts
   sub |-> IF Start(e) /\ p.starts > 0 THEN p.sub + p.since ELSE p.sub,
   since |-> IF Start(e) THEN e.lbTime ELSE IF p.starts > 0 THEN p.since + e.lbTime ELSE 0]
ExtendPaths(E, P) ==
  LET new == {NextEdge(x[1], x[2]) : x \in {y \in P.new \X E : y[1].at = y[2].from}}
  IN  [all |-> P.all \cup P.new, new |-> {p \in new : p.inner <= MaxWindow}]

\* What the curves ask of a path: the weight of both ends is taken from time
\* and access cycles.
Summary(p) ==
  [inner |-> p.inner, innerAccessCycles |-> p.innerAccessCycles, lbTime |-> p.lbTime,
   ubAccessCycles |-> p.ubAccessCycles, starts |-> p.starts, sub |-> p.sub]
AllPaths(E) ==
  LET P == FoldSet(LAMBDA n, Q : ExtendPaths(E, Q),
                   [all |-> {}, new |-> {FirstEdge(e) : e \in E}], 1 .. MaxWindow + 2)
  IN  P.all \cup P.new
Paths == [c \in Cores |-> {Summary(p) : p \in AllPaths(ArrivalCurveStateGraph[c])}]

-----------------------------------------------------------------------------
CONSTANT Options     \* the settings the analyses may be started with

ASSUME OptionsAssumption ==
  \A o \in Options :
    /\ o.fixedPoint \in {"GREATEST", "LEAST"} /\ o.curve \in {"PROGRAM_GRANULARITY", "ILPBASED"}
    /\ o.objective \in {"VARIANT1", "VARIANT2", "COMBINED"}
    /\ \A c \in Cores : o.period[c] \in Nat /\ o.rel[c].num \in Int /\ o.rel[c].den \in Nat

VARIABLES option,    \* fixedPoint, curve, objective, subpath, ...
          analysis,  \* analysis[c]: the variables of the iteration
          printed    \* printed[c]: what c printed last, of each kind
vars == <<option, analysis, printed>>

Greatest == option.fixedPoint = "GREATEST"
Least == option.fixedPoint = "LEAST"
HasPeriodRel(c) == option.rel[c].den # 0
SkipsWcetBound(c) == c \in option.noWcetBound
SkipsCurve(c) == c \in option.noArrivalCurve

-----------------------------------------------------------------------------
(* Periods *)

\* The bound on the execution time from below is of use only where the
\* period may be shorter.
CalculatesBcet(c) ==
  /\ option.curve = "PROGRAM_GRANULARITY" /\ ~SkipsCurve(c)
  /\ ~ /\ HasPeriodRel(c)
       /\ \/ ~option.relToIgnoringInterference /\ option.rel[c].num >= 0
          \/ option.relToIgnoringInterference /\ option.rel[c].num >= option.rel[c].den
BcetBound(c) == IF CalculatesBcet(c) THEN LbTime(c) ELSE 0

\* A relative period counts from the bound without any interference (0) to
\* the one that knows nothing of the co-runners (1).
RelativePeriod(c) ==
  LET rel == option.rel[c]
      coRunInsens == UbTime(c, infinity, infinity)
      ignoringInterference == UbTime(c, 0, 0)
  IN  IF option.relToIgnoringInterference THEN (rel.num * ignoringInterference) \div rel.den
      ELSE IF rel.num < rel.den
           THEN (rel.num * (coRunInsens - ignoringInterference)) \div rel.den + ignoringInterference
           ELSE (rel.num * coRunInsens) \div rel.den
EffectivePeriod(c) ==
  Max({IF HasPeriodRel(c) THEN RelativePeriod(c) ELSE option.period[c], BcetBound(c)})

-----------------------------------------------------------------------------
(* Arrival curves *)

\* Mutant: a window begins where a run does.
CurveOfAlignedRuns(c, accessBound, period, time) ==
  LET perRun == accessBound * BusLatency
  IN  IF time = 0 THEN 0
      ELSE IF period = 0 THEN time
      ELSE Min({perRun * CeilDiv(time, period), time})

\* At the granularity of programs: the accesses of one run, and those of the
\* periods that fit into what is left.
CurveOfRuns(c, accessBound, period, time) ==
  LET perRun == accessBound * BusLatency
      exceed == Max({time - perRun, 0})
      d == exceed \div period
      m == exceed % period
      bound1 == perRun + d * perRun + (IF m # 0 THEN perRun ELSE 0)
      bound2 == perRun + d * perRun + m
  IN  IF time = 0 THEN 0
      ELSE IF period = 0 THEN time
      ELSE Min({bound1, bound2, time})

\* With an integer program: the paths that fit into the window and keep to
\* the period, also on the subpath of their complete runs.
KeepsPeriod(p, period) ==
  period > 0 =>
    /\ period * p.starts <= period + p.lbTime
    /\ option.subpath /\ p.starts > 0 => period * (p.starts - 1) <= p.sub
Objective(p, time) ==
  LET variant1 == p.ubAccessCycles
      variant2 == p.innerAccessCycles - p.inner + time
  IN  IF option.objective = "VARIANT1" THEN variant1
      ELSE IF option.objective = "VARIANT2" THEN variant2
      ELSE Min({variant1, variant2})

\* One access cycle more: accesses are split late.
CurveOfPaths(c, period, time) ==
  LET result == Max({Objective(p, time) : p \in {q \in Paths[c] : q.inner <= time /\ KeepsPeriod(q, period)}})
  IN  IF time = 0 THEN 0
      ELSE Min({IF result > 0 THEN result + 1 ELSE result, time})

MaxAccessCyclesPer(c, a, time) ==
  IF SkipsCurve(c) THEN time
  ELSE IF time = infinity THEN infinity
  ELSE IF option.curve = "PROGRAM_GRANULARITY"
       THEN CurveOfRuns(c, a.accessBound, a.effectivePeriod, time)
       ELSE CurveOfPaths(c, a.effectivePeriod, time)

-----------------------------------------------------------------------------
(* Blocking *)

Contribution(accessCycleBound, maxBlockingPerCore) ==
  IF accessCycleBound # infinity /\ accessCycleBound < maxBlockingPerCore
  THEN accessCycleBound ELSE maxBlockingPerCore
Conc(c) == Cores \ {c}
BlockingBound(c, a, bounds) ==
  SumFunction([d \in Conc(c) |-> Contribution(bounds[d], a.accessBound * BusLatency)])
ConcAccessesBound(c, a, bounds) ==
  SumFunction([d \in Conc(c) |->
                 CeilDiv(Contribution(bounds[d], a.accessBound * BusLatency), BusLatency)])

\* Mutant: a blocking bound of half of the time is not worth it.
RecalculatesSeldom(a, new) ==
  IF Greatest
  THEN /\ (a.blockingBound = infinity /\ new # infinity) \/ new < a.blockingBound
       /\ new < a.wcetBound \div 2
  ELSE new > a.blockingBound + 1

\* Whether another path analysis may yield another bound.
Recalculates(a, new) ==
  IF Greatest
  THEN /\ (a.blockingBound = infinity /\ new # infinity) \/ new < a.blockingBound
       /\ new < a.wcetBound
       /\ new < a.accessBound * BusLatency * NumConcurrentCores
  ELSE (a.blockingBound # infinity /\ new = infinity) \/ new > a.blockingBound

WcetBound(c, blockingBound, concAccessesBound) ==
  IF SkipsWcetBound(c) THEN infinity ELSE UbTime(c, blockingBound, concAccessesBound)

CalcBlockingBound(c, a, bounds) ==
  IF a.wcetBound = infinity THEN [a EXCEPT !.recalculate = FALSE]
  ELSE LET new == BlockingBound(c, a, bounds)
       IN  [a EXCEPT !.recalculate = Recalculates(a, new), !.blockingBound = new,
                     !.concAccessesBound = ConcAccessesBound(c, a, bounds)]

\* A bound that moves the wrong way is dropped with a warning.
Retreats(old, new) == (Greatest /\ new > old) \/ (Least /\ new < old)
CalcWcetBound(c, a) ==
  LET new == IF a.recalculate THEN WcetBound(c, a.blockingBound, a.concAccessesBound) ELSE a.wcetBound
  IN  [a EXCEPT !.previousWcetBound = a.wcetBound,
                !.wcetBound = IF Retreats(a.wcetBound, new) THEN a.wcetBound ELSE new,
                !.warned = @ \/ Retreats(a.wcetBound, new)]
\* Mutant: towards the least fixed point, a bound that stayed counts as changed.
ChangedOrKept(a) == (Greatest /\ a.wcetBound < a.previousWcetBound) \/ (Least /\ a.wcetBound >= a.previousWcetBound)

Changed(a) == (Greatest /\ a.wcetBound < a.previousWcetBound) \/ (Least /\ a.wcetBound > a.previousWcetBound)
-----------------------------------------------------------------------------
(* Iteration 0, and the rounds *)

\* Mutant: the iteration starts with unbounded blocking in both directions.
AtStartPessimistic ==
  [pc |-> "start", round |-> 0, wcetBound |-> infinity, previousWcetBound |-> infinity,
   blockingBound |-> infinity, concAccessesBound |-> infinity,
   accessBound |-> 0, recalculate |-> TRUE, effectivePeriod |-> 0, warned |-> FALSE]

AtStart ==
  [pc |-> "start", round |-> 0, wcetBound |-> infinity, previousWcetBound |-> infinity,
   blockingBound |-> IF Greatest THEN infinity ELSE 0,
   concAccessesBound |-> IF Greatest THEN infinity ELSE 0,
   accessBound |-> 0, recalculate |-> TRUE, effectivePeriod |-> 0, warned |-> FALSE]
Nothing == [wcetBound |-> <<0, infinity>>, accessCycleBounds |-> <<0, [d \in Cores |-> infinity]>>,
            changed |-> <<0, FALSE>>]

Init ==
  /\ option \in Options
  /\ analysis = [c \in Cores |-> AtStart]
  /\ printed = [c \in Cores |-> Nothing]

\* An analysis is at most one round ahead of another one, so that rounds are
\* told apart by their numbers modulo 4.
Following(round) == (round + 1) % 4
Output(c, kind, what) == printed' = [printed EXCEPT ![c][kind] = <<analysis'[c].round, what>>]
HasPrinted(d, kind, round) == printed[d][kind][1] \in {round, Following(round)}

IterationZero(c) ==
  LET a == analysis[c]
  IN  /\ a.pc = "start"
      /\ analysis' = [analysis EXCEPT ![c] =
           [a EXCEPT !.pc = "reads WCET bounds", !.round = 1, !.accessBound = AccessBound(c),
                     !.effectivePeriod = EffectivePeriod(c),
                     !.wcetBound = WcetBound(c, a.blockingBound, a.concAccessesBound)]]
      /\ Output(c, "wcetBound", analysis'[c].wcetBound)
      /\ UNCHANGED option

\* The first half of calcAndExchangeAccessCycleBounds()
ExchangeWcetBounds(c) ==
  LET a == analysis[c]
  IN  /\ a.pc = "reads WCET bounds"
      /\ \A d \in Conc(c) : HasPrinted(d, "wcetBound", a.round)
      /\ analysis' = [analysis EXCEPT ![c].pc = "reads access cycle bounds"]
      /\ Output(c, "accessCycleBounds",
               [d \in Cores |-> IF d = c THEN infinity
                                ELSE MaxAccessCyclesPer(c, a, printed[d].wcetBound[2])])
      /\ UNCHANGED option

\* The rest of the round, up to the question whether any bound changed
Recalculate(c) ==
  LET a == analysis[c]
      bounds == [d \in Cores |-> printed[d].accessCycleBounds[2][c]]
  IN  /\ a.pc = "reads access cycle bounds"
      /\ \A d \in Conc(c) : HasPrinted(d, "accessCycleBounds", a.round)
      /\ analysis' = [analysis EXCEPT ![c] =
           [CalcWcetBound(c, CalcBlockingBound(c, a, bounds)) EXCEPT !.pc = "asks for changes"]]
      /\ Output(c, "changed", Changed(analysis'[c]))
      /\ UNCHANGED option

NextRound(c) ==
  /\ analysis' = [analysis EXCEPT ![c].pc = "reads WCET bounds", ![c].round = Following(@)]
  /\ Output(c, "wcetBound", analysis[c].wcetBound)
  /\ UNCHANGED option

\* A bound of its own that changed is reason enough, ...
GoOn(c) == analysis[c].pc = "asks for changes" /\ Changed(analysis[c]) /\ NextRound(c)
\* ... else the answer of the others decides.
AskOthers(c) ==
  LET a == analysis[c]
  IN  /\ a.pc = "asks for changes" /\ ~Changed(a)
      /\ \A d \in Conc(c) : HasPrinted(d, "changed", a.round)
      /\ IF \E d \in Conc(c) : printed[d].changed[2]
         THEN NextRound(c)
         ELSE /\ analysis' = [analysis EXCEPT ![c].pc = "done"]
              /\ UNCHANGED <<option, printed>>

Step(c) == IterationZero(c) \/ ExchangeWcetBounds(c) \/ Recalculate(c) \/ GoOn(c) \/ AskOthers(c)
AllDone == \A c \in Cores : analysis[c].pc = "done"
=============================================================================
