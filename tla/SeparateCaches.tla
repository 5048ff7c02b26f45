--------------------------- MODULE SeparateCaches ---------------------------
(***************************************************************************)
(* JJYSeparateCachesMemoryTopology: an instruction cache, a data cache and *)
(* an L2 cache behind both, in front of a SingleMemoryTopology.  Each side *)
(* works on one access at a time.  An access is classified for L1 and L2   *)
(* when it starts; it then waits for the memory, for L2 and for L1, as far *)
(* down as it has to go, and updates the caches with that classification   *)
(* when it comes back up.                                                  *)
(*                                                                         *)
(* A cache is one set; a line is its tag.  Local metrics and the events of *)
(* the persistence analyses are not modelled.                              *)
(***************************************************************************)
EXTENDS SingleMemoryTopology

CONSTANTS InstrLines, DataLines,        \* what is fetched, loaded and stored
          InstrAssoc, DataAssoc, L2Assoc,
          L1Latency,                    \* LATENCY of both first level caches
          L2Latency,
          LineWords,                    \* the words of a cache line
          UnblockStores                 \* stores do not wait for the memory

ASSUME LinesAssumption == InstrLines \cap DataLines = {}
ASSUME CacheLatencyAssumption == L1Latency \in Nat /\ L2Latency \in Nat
ASSUME LineWordsAssumption == LineWords \in Nat \ {0} /\ UnblockStores \in BOOLEAN

InstrCache == INSTANCE LruAnalysis WITH
  Tags <- InstrLines, Assoc <- InstrAssoc, Level <- 1, MaxWorthwhileTags <- 4
DataCache == INSTANCE LruAnalysis WITH
  Tags <- DataLines, Assoc <- DataAssoc, Level <- 1, MaxWorthwhileTags <- 4
L2Cache == INSTANCE LruAnalysis WITH
  Tags <- InstrLines \cup DataLines, Assoc <- L2Assoc, Level <- 2, MaxWorthwhileTags <- 4

\* The write policy of dcacheConf is "noWriteAllocate", "writeAllocate" or
\* "writeBack", which allocates.  An unknown classification is followed in a mode:
\* by "all" cases that matter (TimingAnomalyAnalysis, the default), by the "worst",
\* or by the "best" (isBCET).

-----------------------------------------------------------------------------
Access(id, line, isStore, numWords) ==
  [id |-> id, line |-> line, isStore |-> isStore, numWords |-> numWords]

Nothing == [access |-> Access(None, 0, FALSE, 0), phase |-> "NONE"]
OngoingAccess(a) ==
  [access |-> a, phase |-> "START", bgmemStall |-> FALSE, bgMemAccessId |-> None,
   bgl2Access |-> "NONE", l1timeBlocked |-> 0, l2timeBlocked |-> 0, cl |-> "BOT"]

MemoryComponent(cache) ==
  [waitingQueue |-> <<>>, ongoing |-> Nothing, finishedId |-> None, cache |-> cache]

\* The topology with caches of which this is known.
CacheTopology(instrSet, dataSet, l2Set) ==
  [memory |-> EmptySingleTopology, currentId |-> 1, instr |-> MemoryComponent(instrSet),
   data |-> MemoryComponent(dataSet), l2 |-> l2Set]

\* A fetch overrides the one still queued, an access is refused while one is.
CachesAccessInstr(t, line) ==
  [t EXCEPT !.instr.waitingQueue = <<Access(t.currentId, line, FALSE, 1)>>,
            !.currentId = @ + 1]
CachesMayAccessData(t) == t.data.waitingQueue = <<>>
CachesAccessData(t, line, isStore) ==
  [t EXCEPT !.data.waitingQueue = <<Access(t.currentId, line, isStore, 1)>>,
            !.currentId = @ + 1]

CachesFinishedInstr(t, id) == t.instr.finishedId = id
CachesFinishedData(t, id) == t.data.finishedId = id

IsAccessing(c) == c.ongoing # Nothing
IsBusyComponent(c) == IsAccessing(c) \/ c.waitingQueue # <<>>
CachesHaveUnfinished(t) ==
  IsBusyComponent(t.instr) \/ IsBusyComponent(t.data) \/ SingleHasUnfinishedAccesses(t.memory)

-----------------------------------------------------------------------------
(* mystartInstructionAccess(), mystartDataAccess() *)

\* Mutant: an unknown L2 is taken for a hit when L1 is unknown too.
CasesOptimistic(l1, l2, mode) ==
  IF l1 = "HIT" \/ (l1 = "UNKNOWN" /\ mode # "all") THEN {"HIT"}
  ELSE IF l2 = "HIT" THEN {"L2HIT", "HIT"}
  ELSE {"L2MISS", "L2HIT", "HIT"}

\* Mutant: a split never considers the hit in L1.
CasesWithoutL1Hit(l1, l2, mode) ==
  LET bestCase == mode = "best"
  IN  IF l1 = "HIT" \/ (l1 = "UNKNOWN" /\ bestCase) THEN {"HIT"}
      ELSE IF l2 = "HIT" \/ (l2 = "UNKNOWN" /\ bestCase) THEN {"L2HIT"}
      ELSE {"L2MISS"} \cup (IF l2 = "UNKNOWN" /\ mode = "all" THEN {"L2HIT"} ELSE {})

\* The cases an access is followed by, given its classifications.
Cases(l1, l2, mode) ==
  LET bestCase == mode = "best"
      l1Hit == IF l1 = "UNKNOWN" /\ mode = "all" THEN {"HIT"} ELSE {}
  IN  IF l1 = "HIT" \/ (l1 = "UNKNOWN" /\ bestCase) THEN {"HIT"}
      ELSE IF l2 = "HIT" \/ (l2 = "UNKNOWN" /\ bestCase) THEN {"L2HIT"} \cup l1Hit
      ELSE {"L2MISS"} \cup
             (IF l2 = "UNKNOWN" /\ mode = "all" THEN {"L2HIT"} \cup l1Hit ELSE {})

\* A hit waits for its cache, a miss for the memory.
ProcessInstr(t, acc, cl) ==
  LET go == [OngoingAccess(acc) EXCEPT !.cl = cl]
  IN  CASE cl = "HIT" -> [t EXCEPT !.instr.ongoing = [go EXCEPT !.l1timeBlocked = L1Latency]]
        [] cl = "L2HIT" ->
             [t EXCEPT !.instr.ongoing =
                [go EXCEPT !.l2timeBlocked = L2Latency, !.bgl2Access = "LINE"]]
        [] OTHER ->
             [t EXCEPT !.instr.ongoing = [go EXCEPT !.bgMemAccessId = t.memory.currentId],
                       !.memory = SingleAccessInstr(@, acc.line, LineWords)]

StartInstruction(t, mode) ==
  IF IsAccessing(t.instr) \/ t.instr.waitingQueue = <<>> THEN {t}
  ELSE LET acc == Head(t.instr.waitingQueue)
           taken == [t EXCEPT !.instr.waitingQueue = <<>>]
       IN  {ProcessInstr(taken, acc, cl) :
              cl \in Cases(InstrCache!ClassifyInSet(t.instr.cache, acc.line),
                           L2Cache!ClassifyInSet(t.l2, acc.line), mode)}

\* The memory takes a data access of access acc, or it must be tried again.
AskMemory(t, acc, numWords) ==
  IF MayAccessData(t.memory)
  THEN [t EXCEPT !.data.ongoing.bgMemAccessId = t.memory.currentId,
                 !.data.ongoing.bgmemStall = FALSE,
                 !.memory = SingleAccessData(@, acc.line, numWords)]
  ELSE [t EXCEPT !.data.ongoing.bgmemStall = TRUE]

\* A store that misses goes by the caches unless it allocates a line.
ProcessData(t, acc, cl, policy) ==
  LET go == [OngoingAccess(acc) EXCEPT !.cl = cl]
      inPhase(phase) == [t EXCEPT !.data.ongoing = [go EXCEPT !.phase = phase]]
      storesThrough == acc.isStore /\ policy = "noWriteAllocate"
  IN  CASE cl = "HIT" -> [inPhase("CACHE") EXCEPT !.data.ongoing.l1timeBlocked = L1Latency]
        [] cl = "L2HIT" -> [inPhase("CACHE") EXCEPT !.data.ongoing.l2timeBlocked = L2Latency,
                                                    !.data.ongoing.bgl2Access = "LINE"]
        [] cl = "L2MISS" /\ storesThrough -> AskMemory(inPhase("STORE"), acc, acc.numWords)
        [] cl = "L2MISS" /\ ~storesThrough -> AskMemory(inPhase("LOAD"), acc, LineWords)

StartData(t, mode, policy) ==
  IF IsAccessing(t.data) \/ t.data.waitingQueue = <<>> THEN {t}
  ELSE LET acc == Head(t.data.waitingQueue)
           taken == [t EXCEPT !.data.waitingQueue = <<>>]
       IN  {ProcessData(taken, acc, cl, policy) :
              cl \in Cases(DataCache!ClassifyInSet(t.data.cache, acc.line),
                           L2Cache!ClassifyInSet(t.l2, acc.line), mode)}

-----------------------------------------------------------------------------
(* checkInstructionPart(), checkDataPart() *)

Less(n) == IF n > 0 THEN n - 1 ELSE 0

L2Updated(t, go) == [t EXCEPT !.l2 = L2Cache!UpdateSet(@, go.access.line, go.cl)]

\* The line has come back to L1, and L2 is updated once more.
InstrDone(t) ==
  LET go == t.instr.ongoing
  IN  [L2Updated(t, go) EXCEPT
         !.instr.cache = InstrCache!UpdateSet(@, go.access.line, go.cl),
         !.instr.finishedId = go.access.id, !.instr.ongoing = Nothing]

CheckInstruction(t) ==
  LET go == t.instr.ongoing
      l2left == Less(go.l2timeBlocked)
      l1left == Less(go.l1timeBlocked)
  IN  IF ~IsAccessing(t.instr) THEN t
      ELSE IF go.bgMemAccessId # None
           THEN IF HasFinished(t.memory, go.bgMemAccessId)
                THEN [t EXCEPT !.memory = Acknowledged(@),
                               !.instr.ongoing = [@ EXCEPT !.bgl2Access = "LINE",
                                 !.bgMemAccessId = None, !.l2timeBlocked = L2Latency]]
                ELSE t
      ELSE IF go.bgl2Access # "NONE"
           THEN LET waited == [t EXCEPT !.instr.ongoing.l2timeBlocked = l2left]
                IN  IF l2left > 0 THEN waited
                    ELSE [L2Updated(waited, go) EXCEPT
                            !.instr.ongoing.bgl2Access = "NONE",
                            !.instr.ongoing.l1timeBlocked = L1Latency]
      ELSE LET waited == [t EXCEPT !.instr.ongoing.l1timeBlocked = l1left]
           IN  IF l1left > 0 THEN waited ELSE InstrDone(waited)

DataDone(t) ==
  [t EXCEPT !.data.finishedId = t.data.ongoing.access.id, !.data.ongoing = Nothing]

LaunchStore(t, acc) ==
  AskMemory([t EXCEPT !.data.ongoing.phase = "STORE"], acc, acc.numWords)

\* L2 holds the line, which is written through, or may have to write a victim
\* back to memory, or is passed on to L1 -- unless L2 was asked to take a
\* victim of L1.
DataFromL2(t, policy) ==
  LET go == t.data.ongoing
      updated == L2Updated(t, go)
      writtenBack == [updated EXCEPT !.data.ongoing.phase = "STORE",
                        !.data.ongoing.bgMemAccessId = updated.memory.currentId,
                        !.memory = SingleAccessData(@, go.access.line, LineWords)]
  IN  CASE go.access.isStore /\ policy # "writeBack" -> {LaunchStore(updated, go.access)}
        [] policy = "writeBack" /\ go.cl = "L2MISS" -> {DataDone(updated), writtenBack}
        [] OTHER ->
             IF go.bgl2Access = "VICTIM" THEN {DataDone(updated)}
             ELSE {[updated EXCEPT !.data.ongoing.l1timeBlocked = L1Latency,
                                   !.data.ongoing.bgl2Access = "NONE"]}

\* L1 holds the line: both caches are updated, and the access is written
\* through, or may have to write a victim back to L2, or is done.
DataFromL1(t, policy) ==
  LET go == t.data.ongoing
      updated == [L2Updated(t, go) EXCEPT
                    !.data.cache = DataCache!UpdateSet(@, go.access.line, go.cl)]
  IN  CASE go.access.isStore /\ policy # "writeBack" -> {LaunchStore(updated, go.access)}
        [] policy = "writeBack" /\ go.cl = "L2MISS" ->
             {DataDone(updated), [updated EXCEPT !.data.ongoing.bgl2Access = "VICTIM"]}
        [] OTHER -> {DataDone(updated)}

\* The data waits in the caches.  The time for a victim starts again in every
\* cycle.
CheckDataCache(t, policy) ==
  LET go == t.data.ongoing
      l2left == Less(IF go.bgl2Access = "VICTIM" THEN L2Latency ELSE go.l2timeBlocked)
      l1left == Less(go.l1timeBlocked)
      inL2 == [t EXCEPT !.data.ongoing.l2timeBlocked = l2left]
      inL1 == [t EXCEPT !.data.ongoing.l1timeBlocked = l1left]
  IN  IF go.bgl2Access # "NONE"
      THEN IF l2left > 0 THEN {inL2} ELSE DataFromL2(inL2, policy)
      ELSE IF l1left > 0 THEN {inL1} ELSE DataFromL1(inL1, policy)

CheckData(t, policy) ==
  LET go == t.data.ongoing
      words == IF go.phase = "LOAD" THEN LineWords ELSE go.access.numWords
      answered == HasFinished(t.memory, go.bgMemAccessId)
  IN  IF ~IsAccessing(t.data) THEN {t}
      ELSE IF go.bgmemStall THEN {AskMemory(t, go.access, words)}
      ELSE CASE go.phase = "LOAD" ->
                  {IF answered
                   THEN [t EXCEPT !.memory = Acknowledged(@),
                                  !.data.ongoing = [@ EXCEPT !.bgl2Access = "LINE",
                                    !.bgMemAccessId = None, !.l2timeBlocked = L2Latency,
                                    !.phase = "CACHE"]]
                   ELSE t}
             [] go.phase = "CACHE" -> CheckDataCache(t, policy)
             [] go.phase = "STORE" ->
                  {IF UnblockStores THEN DataDone(t)
                   ELSE IF answered THEN DataDone([t EXCEPT !.memory = Acknowledged(@)])
                   ELSE t}

\* One cycle: accesses are started, the memory is cycled, and what has come
\* back is passed on.  While the pipeline stalls, so do the caches.
CachesCycle(t, pending, mode, policy) ==
  LET started == UNION {StartData(s, mode, policy) : s \in StartInstruction(t, mode)}
      cycled == UNION {{[s EXCEPT !.memory = m] : m \in SingleTopologyCycle(s.memory, pending, FALSE)}
                         : s \in started}
  IN  UNION {IF SingleShouldPipelineStall(s.memory) THEN {s}
             ELSE CheckData(CheckInstruction(s), policy) : s \in cycled}

-----------------------------------------------------------------------------
\* Mutant: an access waiting to be started is skipped as well.
AllowsFastForwardBusy(t) ==
  \/ IsAccessing(t.instr) /\ t.instr.ongoing.bgMemAccessId # None
  \/ IsAccessing(t.data) /\ t.data.ongoing.phase \in {"LOAD", "STORE"}

\* The memory may be fast-forwarded while both sides do nothing but wait for it.
AllowsFastForward(t) ==
  /\ \/ ~IsBusyComponent(t.instr)
     \/ IsAccessing(t.instr) /\ t.instr.ongoing.bgMemAccessId # None
  /\ \/ ~IsBusyComponent(t.data)
     \/ /\ IsAccessing(t.data)
        /\ \/ t.data.ongoing.phase = "LOAD"
           \/ /\ t.data.ongoing.phase = "STORE"
              /\ ~UnblockStores \/ t.data.ongoing.bgmemStall

CachesFastForward(t) ==
  IF AllowsFastForward(t)
  THEN {[t EXCEPT !.memory = m] : m \in SingleTopologyFastForward(t.memory)} ELSE {t}

\* isJoinable(): all but the caches is equal; of the access in the memory only
\* whether there is one is compared.
WithoutCache(c) ==
  [c EXCEPT !.cache = 0,
            !.ongoing = IF @ = Nothing THEN Nothing
                        ELSE [@ EXCEPT !.bgMemAccessId = IF @ = None THEN None ELSE 1]]
CachesJoinable(t, u) ==
  /\ SingleTopologiesJoinable(t.memory, u.memory)
  /\ WithoutCache(t.instr) = WithoutCache(u.instr)
  /\ WithoutCache(t.data) = WithoutCache(u.data)

JoinCaches(t, u) ==
  [t EXCEPT !.memory = SingleJoinTopologies(@, u.memory),
            !.instr.cache = InstrCache!JoinSets(@, u.instr.cache),
            !.data.cache = DataCache!JoinSets(@, u.data.cache),
            !.l2 = L2Cache!JoinSets(@, u.l2)]

\* Equal topologies with equal ids, which count from base; ids that lie a base
\* behind are all one.
RebasedCaches(t, base) ==
  LET id(n) == IF n = None THEN None
               ELSE IF n - t.currentId + base < 1 THEN 1 ELSE n - t.currentId + base
      memId(n) == Rebase(n, t.memory, base)
      queue(q) == [i \in DOMAIN q |-> [q[i] EXCEPT !.id = id(@)]]
      ongoing(go) == IF go = Nothing THEN Nothing
                     ELSE [go EXCEPT !.access.id = id(@), !.bgMemAccessId = memId(@)]
      component(c) == [c EXCEPT !.waitingQueue = queue(@), !.finishedId = id(@),
                                !.ongoing = ongoing(@)]
  IN  [t EXCEPT !.instr = component(@), !.data = component(@), !.currentId = base,
                !.memory = SingleRebased(@, base)]
=============================================================================
