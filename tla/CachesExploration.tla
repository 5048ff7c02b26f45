-------------------------- MODULE CachesExploration --------------------------
(***************************************************************************)
(* The memory hierarchy under a pipeline.  The analysis is a topology that *)
(* starts from caches of which nothing is known.  The hardware is the same *)
(* topology with caches that are known exactly, so that every access takes *)
(* the one case that is true of it.  Both are given the same accesses, in  *)
(* cycles of the model's choice.                                           *)
(*                                                                         *)
(* When the analysis follows all cases, its path is the one that takes the *)
(* hardware's cases.  When it follows the worst or the best case it has a  *)
(* time of its own, and an access is issued once both have no other left.  *)
(***************************************************************************)
EXTENDS SeparateCaches

CONSTANTS ExploredModes, ExploredPolicies,
          Stores,         \* <<mode, line>>: the lines that are stored as well
          AccessesAhead,  \* bound of the model: accesses issued while one is served
          OverlapLines,   \* what is accessed when the two sides work at once
          Contents   \* <<instr, data, L2>>: lines the hardware's caches start with

VARIABLES mode, policy,
          overlap,    \* the two sides may work at the same time
          topology,   \* topology[r], r \in Runs
          fetching,   \* fetching[r]: the id the pipeline waits for, or None
          accessing,
          covered     \* some path of the analysis takes the hardware's cases

vars == <<mode, policy, overlap, topology, fetching, accessing, covered>>

Runs == {"hardware", "analysis"}
IdBase == 6   \* ids are counted from here after every step

Init ==
  /\ mode \in ExploredModes /\ policy \in ExploredPolicies /\ overlap \in BOOLEAN
  /\ \E lines \in Contents :
       topology = [r \in Runs |->
         RebasedCaches(
           IF r = "hardware"
           THEN CacheTopology(InstrCache!KnownSet(lines[1]), DataCache!KnownSet(lines[2]),
                              L2Cache!KnownSet(lines[3]))
           ELSE CacheTopology(InstrCache!UnknownSet, DataCache!UnknownSet, L2Cache!UnknownSet),
           IdBase)]
  /\ fetching = [r \in Runs |-> None] /\ accessing = [r \in Runs |-> None]
  /\ covered = TRUE

\* Nothing is in progress; accesses that have been issued may wait.
NothingStarted ==
  \A r \in Runs : /\ ~IsAccessing(topology[r].instr) /\ ~IsAccessing(topology[r].data)
                  /\ ~SingleHasUnfinishedAccesses(topology[r].memory)
Resting ==
  NothingStarted /\ \A r \in Runs : fetching[r] = None /\ accessing[r] = None
MayIssue(line) ==
  /\ covered /\ (overlap => line \in OverlapLines)
  /\ \A c \in {topology["hardware"].instr, topology["hardware"].data} :
       IsAccessing(c) => c.ongoing.access.id >= IdBase - AccessesAhead
  /\ mode # "all" => NothingStarted
  /\ ~overlap => Resting

Renewed(id) == IF id = None THEN None ELSE IF id <= 1 THEN 1 ELSE id - 1

\* The pipeline fetches a line; a fetch it waited for is abandoned.
Fetch(line) ==
  /\ MayIssue(line)
  /\ mode = "all" \/ fetching["hardware"] = None
  /\ topology' = [r \in Runs |-> RebasedCaches(CachesAccessInstr(topology[r], line), IdBase)]
  /\ fetching' = [r \in Runs |-> IdBase - 1]
  /\ accessing' = [r \in Runs |-> Renewed(accessing[r])]
  /\ UNCHANGED <<mode, policy, overlap, covered>>

\* It loads or stores one, if it does not wait for another.
LoadStore(line, isStore) ==
  /\ MayIssue(line)
  /\ isStore => <<mode, line>> \in Stores
  /\ \A r \in Runs : accessing[r] = None /\ CachesMayAccessData(topology[r])
  /\ topology' = [r \in Runs |->
                    RebasedCaches(CachesAccessData(topology[r], line, isStore), IdBase)]
  /\ accessing' = [r \in Runs |-> IdBase - 1]
  /\ fetching' = [r \in Runs |-> Renewed(fetching[r])]
  /\ UNCHANGED <<mode, policy, overlap, covered>>

\* The assertion made when an access comes back: a line that hit when it
\* was started can still be assumed to be in the cache ("Full cache and addr
\* not in there, cannot assume a hit (illegal classification)").
MayAssumeHit ==
  LET a == topology["analysis"]
  IN  \A c \in {a.instr, a.data} :
        IsAccessing(c) => L2Cache!UpdateAssertion(a.l2, c.ongoing.access.line, c.ongoing.cl)

\* The path the analysis shares with the hardware.
TakesCasesOf(a, h) == CachesJoinable(a, h)

\* The pipeline is told of what it waits for.
Answered(t, fetch, access) ==
  [t EXCEPT !.instr.finishedId = IF fetch # None /\ @ = fetch THEN None ELSE @,
            !.data.finishedId = IF access # None /\ @ = access THEN None ELSE @]

\* One cycle of both.
Cycled ==
  \E h \in CachesCycle(topology["hardware"], accessing["hardware"] # None, mode, policy) :
    LET successors == CachesCycle(topology["analysis"], accessing["analysis"] # None, mode, policy)
        paths == {a \in successors : mode = "all" => TakesCasesOf(a, h)}
        told(t, r) == Answered(t, fetching[r], accessing[r])
    IN  IF paths = {}
        THEN /\ covered' = FALSE
             /\ UNCHANGED <<mode, policy, overlap, topology, fetching, accessing>>
        ELSE \E a \in paths :
               LET t == [r \in Runs |-> IF r = "hardware" THEN h ELSE a]
               IN  /\ topology' = [r \in Runs |-> told(t[r], r)]
                   /\ fetching' = [r \in Runs |->
                        IF CachesFinishedInstr(t[r], fetching[r]) THEN None ELSE fetching[r]]
                   /\ accessing' = [r \in Runs |->
                        IF CachesFinishedData(t[r], accessing[r]) THEN None ELSE accessing[r]]
                   /\ UNCHANGED <<mode, policy, overlap, covered>>
\* An assertion that fails ends the analysis.
Tick == covered /\ MayAssumeHit /\ Cycled

Next ==
  \/ \E line \in InstrLines : Fetch(line)
  \/ \E line \in DataLines, isStore \in BOOLEAN : LoadStore(line, isStore)
  \/ Tick

Spec == Init /\ [][Next]_vars

-----------------------------------------------------------------------------
TypeOK ==
  \A r \in Runs :
    /\ Len(topology[r].instr.waitingQueue) <= 1 /\ Len(topology[r].data.waitingQueue) <= 1
    /\ topology[r].data.ongoing.phase \in {"NONE", "START", "LOAD", "CACHE", "STORE"}
    /\ fetching[r] \in 0 .. IdBase /\ accessing[r] \in 0 .. IdBase

\* All cases of an access are followed: whatever the hardware's caches hold,
\* some successor of the analysis's path takes the same cases, and so the same
\* time; and what is assumed of the L2 when the access comes back does not
\* contradict what the analysis has learnt since it started.
CasesCovered == covered /\ MayAssumeHit

\* A line classified as hit is in the cache, one classified as miss is not:
\* in L1 and in L2, although both sides update L2 in the order in which their
\* accesses happen to come back, with what was known when they started.  (The
\* best case assumes hits that need not be, and the worst case of a store that
\* allocates no line forgets that it may have renewed one.)
ClassifiedRightly ==
  mode = "all" \/ (mode = "worst" /\ policy = "writeAllocate" /\ Resting) =>
  \A line \in InstrLines \cup DataLines :
    LET h == topology["hardware"]
        a == topology["analysis"]
        right(c, x) == c # "UNKNOWN" => x = c
    IN  /\ right(L2Cache!ClassifyInSet(a.l2, line), L2Cache!ClassifyInSet(h.l2, line))
        /\ line \in InstrLines =>
             right(InstrCache!ClassifyInSet(a.instr.cache, line), InstrCache!ClassifyInSet(h.instr.cache, line))
        /\ line \in DataLines =>
             right(DataCache!ClassifyInSet(a.data.cache, line), DataCache!ClassifyInSet(h.data.cache, line))

\* An access the worst case is followed of is not answered before the hardware
\* has answered it, and one the best case is followed of not after it.  (A
\* store that allocates no line takes longer when it hits L1 than when it goes
\* by the caches, so that a miss is not its worst case; one that allocates a
\* line puts it into L1 only if it hits, so that a hit is not its best case.)
CaseIsABound ==
  LET before(r, s) == /\ fetching[s] # None => fetching[r] # None
                      /\ accessing[s] # None => accessing[r] # None
  IN  /\ mode = "worst" /\ policy = "writeAllocate" => before("analysis", "hardware")
      /\ mode = "best" => before("hardware", "analysis")

\* fastForward() forgets nothing: while it is allowed, a cycle that does not
\* end what the memory does changes nothing but the memory.
ForwardSkipsOnlyWaiting ==
  \A r \in Runs :
    LET t == topology[r]
    IN  AllowsFastForward(t) =>
          /\ SingleTopologyForwardAssertion(t.memory)
          /\ t.memory.memory.memory.timeBlocked > 1 =>
               \A s \in CachesCycle(t, FALSE, mode, policy) : [s EXCEPT !.memory = t.memory] = t

-----------------------------------------------------------------------------
\* The instance that TLC checks: two lines to fetch and two to load and store.

\* Caches that are empty, and that hold lines of both kinds.
SomeContents == { <<<<>>, <<>>, <<>>>>, <<<<1>>, <<3>>, <<3, 1, 5, 2>>>>,
                  <<<<2>>, <<>>, <<2, 4>>>> }

\* Stores to one line leave every line of an L1 in L2.
OneLineStored == {"all", "worst"} \X {4}
=============================================================================
