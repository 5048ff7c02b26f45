------------------------ MODULE PipelineExploration ------------------------
(***************************************************************************)
(* StateExplorationDomain over each of the pipelines.  For every           *)
(* instruction on a path through the program, transfer() cycles a set of   *)
(* states until the instruction has left the pipeline; guard() then keeps  *)
(* the states that assumed the outcome the path takes.                     *)
(*                                                                         *)
(* Beside it runs the processor itself, hw: one state that goes through    *)
(* the successors one by one, neither skipping ahead nor joined.  It waits *)
(* for the exploration at every instruction, and the path is the one it    *)
(* takes.                                                                  *)
(***************************************************************************)
EXTENDS PipelineProgram

CONSTANTS Cores,          \* the pipelines, by their MuArchType; INORDERSPM is INORDER
                          \* with a private instruction memory
          Entry,          \* [Cores -> sets of addresses]: where the programs of a core start
          QueueSize, RobSize,  \* of the out-of-order pipeline
          OneByOne,       \* the cores whose exploration takes the states one by one
          MuJoinEnabled,  \* StateExplorationWithJoinDomain is used
          BlockStarts,    \* the addresses basic blocks start at
          MaxTime         \* no block takes that long unless a fetch is lost

ASSUME ExplorationAssumption ==
  /\ Cores \subseteq {"INORDER", "INORDERSPM", "STRICTINORDER", "OUTOFORDER", "PRET"}
  /\ Entry \in [Cores -> SUBSET DOMAIN Program]
  /\ OneByOne \subseteq Cores /\ MuJoinEnabled \in BOOLEAN
  /\ BlockStarts \subseteq DOMAIN Program
  /\ {QueueSize, RobSize, MaxTime} \subseteq Nat

VARIABLES core,          \* the pipeline
          point,         \* the address of the instruction to be finished
          working,       \* the states still to be cycled
          intermediate,  \* the states that wait to be joined
          results,       \* the states in which it has finished
          hw,            \* the processor
          arrived        \* hw has finished it too

vars == <<core, point, working, intermediate, results, hw, arrived>>

-----------------------------------------------------------------------------
(* The pipelines.  The strictly in-order pipeline stalls while the bus is    *)
(* blocked; the PRET pipeline supports no stalling; the out-of-order         *)
(* pipeline is alone on the bus.                                             *)

IsStrict == core = "STRICTINORDER"
InOrder == INSTANCE InOrderPipeline
             WITH StrictInOrder <- IsStrict,
                  StallOnLocalWorstType <- IF IsStrict THEN {"BUSBLOCKING"} ELSE {},
                  MemTopType <- IF core = "INORDERSPM" THEN "PRIVINSTRSPMDATASHARED" ELSE "SINGLEMEM"
OutOfOrder == INSTANCE OutOfOrderPipeline WITH MaxBlockingPerAccess <- 0
Pret == INSTANCE PretPipeline WITH StallOnLocalWorstType <- {}

IsInOrder == core \in {"INORDER", "INORDERSPM", "STRICTINORDER"}
IsOutOfOrder == core = "OUTOFORDER"

InitialState(entry) ==
  CASE IsInOrder -> InOrder!InOrderInitialState(entry)
    [] IsOutOfOrder -> OutOfOrder!OutOfOrderInitialState(entry)
    [] core = "PRET" -> Pret!PretInitialState(entry)
Rebasing(s) == IF IsOutOfOrder THEN OutOfOrder!OutOfOrderRebasedState(s) ELSE InOrder!InOrderRebasedState(s)
Successors(s) ==
  CASE IsInOrder -> InOrder!InOrderSuccessors(s)
    [] IsOutOfOrder -> OutOfOrder!OutOfOrderSuccessors(s)
    [] core = "PRET" -> Pret!PretSuccessors(s)
Stalls(s) == IsStrict /\ InOrder!ShouldPipelineStall(s.memory)
PipelineCycle(s) ==
  CASE IsInOrder -> InOrder!InOrderPipelineCycle(s)
    [] IsOutOfOrder -> OutOfOrder!OutOfOrderPipelineCycle(s)
    [] core = "PRET" -> Pret!PretPipelineCycle(s)
UpToMemory(s) ==
  CASE IsInOrder -> InOrder!InOrderUpToMemory(s)
    [] IsOutOfOrder -> OutOfOrder!OutOfOrderUpToMemory(s)
    [] core = "PRET" -> Pret!PretUpToMemory(s)
IsJoinable(s, t) ==
  CASE IsInOrder -> InOrder!InOrderIsJoinable(s, t)
    [] IsOutOfOrder -> OutOfOrder!OutOfOrderIsJoinable(s, t)
    [] core = "PRET" -> Pret!PretIsJoinable(s, t)
JoinStates(s, t) ==
  CASE IsInOrder -> InOrder!InOrderJoinStates(s, t)
    [] IsOutOfOrder -> OutOfOrder!OutOfOrderJoinStates(s, t)
    [] core = "PRET" -> Pret!PretJoinStates(s, t)
HasConverged(s, origin) ==
  CASE IsInOrder -> InOrder!InOrderHasConverged(s, origin)
    [] IsOutOfOrder -> OutOfOrder!OutOfOrderHasConverged(s, origin)
    [] core = "PRET" -> Pret!PretHasConverged(s, origin)
IsWaitingForJoin(s) ==
  IF IsOutOfOrder THEN OutOfOrder!IsWaitingForJoin(s) ELSE AwaitsJoin(s.memory)
IsPipelineEmpty(s) ==
  CASE IsInOrder -> InOrder!InOrderIsPipelineEmpty(s)
    [] IsOutOfOrder -> OutOfOrder!OutOfOrderIsPipelineEmpty(s)
    [] core = "PRET" -> Pret!PretIsPipelineEmpty(s)
IsFinal(s, a) ==
  CASE IsInOrder -> InOrder!InOrderIsFinal(s, a)
    [] IsOutOfOrder -> OutOfOrder!OutOfOrderIsFinal(s, a)
    [] core = "PRET" -> Pret!PretIsFinal(s, a)
Finalised(s, a) ==
  CASE IsInOrder -> InOrder!InOrderFinalised(s)
    [] IsOutOfOrder -> OutOfOrder!OutOfOrderFinalised(s, a)
    [] core = "PRET" -> Pret!PretFinalised(s)

-----------------------------------------------------------------------------
(* transfer() *)

\* Mutant: the first state found is kept as it is.
InsertOnInstrFirst(states, s) ==
  IF MuJoinEnabled /\ \E t \in states : IsJoinable(t, s) THEN states
  ELSE states \cup {s}

\* No two states of a set can be joined.
InsertOnInstr(states, s) ==
  IF ~MuJoinEnabled \/ s \in states THEN states \cup {s}
  ELSE LET partners == {t \in states : IsJoinable(t, s)}
       IN  (states \ partners) \cup
             IF partners = {} THEN {s} ELSE {JoinStates(t, s) : t \in partners}
InsertAll(states, news) ==
  FoldSet(LAMBDA s, acc : InsertOnInstr(acc, s), states, news)

Init ==
  /\ core \in Cores /\ point \in Entry[core]
  /\ hw = Rebasing(InitialState(point)) /\ working = {hw}
  /\ intermediate = {} /\ results = {} /\ arrived = FALSE

\* The working set is filled from the intermediate results when it is empty.
Refill(states, waiting) ==
  IF states = {} THEN working' = waiting /\ intermediate' = {}
  ELSE working' = states /\ intermediate' = waiting

\* cycleUntilFinal() for the states of some: the loop takes them one by one, in
\* the order of a hash set.  States do not see each other before they are
\* inserted, and insertion commutes, so a run may also take them all at once.
Explore(some) ==
  /\ \A s \in some : s.time.ub < MaxTime
  /\ LET finals == {s \in some : IsFinal(s, point)}
     IN  /\ results' = InsertAll(results, {Finalised(s, point) : s \in finals})
         /\ \E succs \in {UNION {PipelineCycle(s) : s \in some \ finals}} :
              LET waiting == {t \in succs : IsWaitingForJoin(t)}
              IN  Refill((working \ some) \cup (succs \ waiting), InsertAll(intermediate, waiting))
  /\ UNCHANGED <<core, point, hw, arrived>>

\* The processor goes on by a cycle, until it has finished the instruction.
HwStep ==
  /\ working = {} /\ ~arrived /\ hw.time.ub < MaxTime
  /\ IF IsFinal(hw, point) THEN hw' = Finalised(hw, point) /\ arrived' = TRUE
     ELSE hw' \in Successors(hw) /\ UNCHANGED arrived
  /\ UNCHANGED <<core, point, working, intermediate, results>>

-----------------------------------------------------------------------------
(* guard() and enterBasicBlock() *)

HasOutcome(a) == ~GoesExternal(a) /\ Flow(a) \in {"branch", "table", "return"}
Outcome(s) == Head(s.condBranchAssumptions).outcome
ReturnsTo(s) == Head(s.returnAssumptions)

\* The address at which the processor goes on.
Follows(a) ==
  IF HasOutcome(a)
  THEN CASE Outcome(hw) = None -> a + 1
         [] Outcome(hw) = Taken -> ReturnsTo(hw)
         [] OTHER -> Outcome(hw)
  ELSE IF Flow(a) \in {"jump", "call"} THEN Min(Program[a].targets) ELSE a + 1

\* s assumed what the processor did at a.
AssumedSame(s, a) ==
  HasOutcome(a) =>
    /\ Outcome(s) = Outcome(hw)
    /\ Outcome(s) = Taken => ReturnsTo(s) = ReturnsTo(hw)

\* An assumption is forgotten once it has been used.
Forgotten(s, a) ==
  IF ~HasOutcome(a) THEN s
  ELSE [s EXCEPT !.condBranchAssumptions = Tail(@),
                 !.returnAssumptions = IF Outcome(s) = Taken THEN Tail(@) ELSE @]

ResetLocalMetrics(s) ==
  [s EXCEPT !.time = Zero, !.memory = ResetTopologyMetrics(@)]
EnterBasicBlock(s, a) == IF a \in BlockStarts THEN ResetLocalMetrics(s) ELSE s

GoOn ==
  /\ working = {} /\ arrived /\ point # InitialLinkRegister
  /\ LET next == Follows(point)
         onwards(s) == EnterBasicBlock(Forgotten(s, point), next)
     IN  /\ point' = next
         /\ working' = InsertAll({}, {onwards(s) : s \in {r \in results : AssumedSame(r, point)}})
         /\ hw' = onwards(hw)
  /\ arrived' = FALSE /\ results' = {} /\ UNCHANGED <<core, intermediate>>

\* The program has returned.
Finished ==
  /\ working = {} /\ arrived /\ point = InitialLinkRegister
  /\ UNCHANGED vars

\* A state that has used up MaxTime is one whose instruction never finishes; it is
\* cycled for ever.
CyclesForEver ==
  /\ \E s \in IF working = {} THEN {hw} ELSE working : s.time.ub >= MaxTime
  /\ UNCHANGED vars

Rounds == IF core \in OneByOne THEN {{s} : s \in working} ELSE {working}

Next ==
  \/ working # {} /\ \E some \in Rounds : Explore(some)
  \/ HwStep
  \/ GoOn
  \/ Finished
  \/ CyclesForEver

Spec == Init /\ [][Next]_vars

-----------------------------------------------------------------------------
States == working \cup intermediate \cup results \cup {hw}

\* The processor and the analysis stay states of the pipeline: rebased ids lie below
\* IdBase, and the counters of the processor never spread.
TypeOK ==
  /\ core \in Cores /\ point \in DOMAIN Program \cup {InitialLinkRegister}
  /\ arrived \in BOOLEAN /\ hw.time.lb = hw.time.ub
  /\ \A s \in States :
       {s.instructionAccessId, s.dataAccessId} \cup AccessIds(s.memory) \cup FinishedIds(s.memory)
         \subseteq 0 .. IdBase - 1

\* No execution takes a time that the analysis does not count: whenever the
\* processor finishes an instruction, the exploration has reached a state of
\* the same pipeline and memory, ready to be joined or not and whatever kind the
\* last access was of, whose counters bound the processor's time since the block began, whatever was skipped,
\* split and joined.
SameButCounters(s, t) ==
  /\ UpToMemory(s) = UpToMemory(t)
  /\ LET memory(u) ==
           LET m == ResetTopologyMetrics(u.memory)
           IN  IF IsSeparate(m) THEN m
               ELSE [m EXCEPT !.waitingForJoin = FALSE,
                              !.currentIdAccessesInstr = @ /\ m.currentIdAccessed # None]
     IN  memory(s) = memory(t)
TimeOf(s) ==
  LET b == BackgroundMemory(s.memory) IN Plus(s.time, Plus(b.memory.forwarded, b.blocking))
HardwareCovered ==
  working = {} /\ arrived =>
    \E s \in results : SameButCounters(s, hw) /\ hw.time.lb \in Counts(TimeOf(s))

\* States that may be joined behave alike, although the ids the pipeline waits
\* for and the kind of the running access are not compared: they have the same
\* successors but for the counters.
Shapes(s) == {[ResetLocalMetrics(t) EXCEPT !.fetched = None] : t \in Successors(s)}
JoinableBehaveAlike ==
  \A s, t \in working \cup intermediate :
    s # t /\ IsJoinable(s, t) => Cardinality({Shapes(u) : u \in {s, t}}) = 1

\* "Convergence in this sense means that the abstract pipeline state is
\* guaranteed to stay unchanged" until the memory is no longer busy: a cycle
\* that changed nothing but the memory is followed by no other kind of cycle
\* before.  The cycles that fast-forwarding skips are those the processor makes.
\* Cycles in which the pipeline is stalled are left aside: it does nothing in them.
ConvergedUntilNonBusy ==
  working = {} /\ ~arrived /\ ~IsFinal(hw, point) =>
    \A t \in Successors(hw) :
      HasConverged(t, hw) /\ IsBusy(BackgroundMemory(t.memory)) /\ ~Stalls(t) =>
      \A u \in Successors(t) :
          IsBusy(BackgroundMemory(u.memory)) /\ ~Stalls(u) => HasConverged(u, t)

-----------------------------------------------------------------------------
(* What the assertions and the comments of the pipelines say *)

\* guard() finds the outcome of the very branch it is asked about in front of
\* the assumptions of every state ("No valid assumption about given branch").
AssumptionsFit ==
  working = {} /\ HasOutcome(point) =>
    \A s \in results :
      /\ s.condBranchAssumptions # <<>>
      /\ Head(s.condBranchAssumptions).branch = point

\* What was accessed before a branch changed the pc is never taken for the
\* instruction at the pc.
FetchedAtPc == \A s \in States : s.instructionAccessId # None => s.fetched = s.pc

\* Converged states wait for the memory, unless the pipeline is empty, successors of
\* one state wait for the same kind of access ("Inconsistent convergence
\* situation"), and the memory may be fast-forwarded.
AwaitOneKind(converged) ==
  LET instrOnly == {t \in converged : ~IsBusyAccessingData(t.memory)}
      dataOnly == {t \in converged : ~IsBusyAccessingInstr(t.memory)}
  IN  /\ \A t \in instrOnly \cap dataOnly : IsPipelineEmpty(t)
      /\ instrOnly = {} \/ dataOnly \subseteq instrOnly
      /\ \A t \in converged : TopologyForwardAssertion(t.memory)
ConvergedAwaitsMemory ==
  \A s \in working :
    ~IsFinal(s, point) => AwaitOneKind({t \in Successors(s) : HasConverged(t, s)})

\* No data access is lost: the memory holds only the one that the memory stage or
\* the unit for loads and stores waits for ("Data access could not be processed by
\* the memory topology!").
Accessing(s) ==
  IF ~IsOutOfOrder THEN s.exmem
  ELSE LET tag == s.units[OutOfOrder!LoadStore].tag
       IN  IF tag = None THEN None ELSE OutOfOrder!AddressOf(s, tag)
DataAccessAwaited ==
  \A s \in States :
    /\ \A i \in DOMAIN s.memory.dataQueue : s.memory.dataQueue[i].id = s.dataAccessId
    /\ DataIdAccessed(s.memory) \in {None, s.dataAccessId}
    /\ s.dataAccessId # None => Accessing(s) # None /\ AccessesMemory(Accessing(s))

\* checkTagValidity(): the stations and the units hold the instructions that the
\* reorder buffer says are being executed, each of them once.
Held(s) ==
  FlattenSeq([k \in 1 .. 3 |-> [i \in DOMAIN s.stations[k] |-> s.stations[k][i].tag]])
    \o SelectSeq(FlattenSeq([i \in 1 .. 4 |-> <<s.units[i].tag, s.units[i].finished>>]),
                 LAMBDA t : t # None)
TagsValid ==
  IsOutOfOrder =>
    \A s \in States :
      /\ ToSet(Held(s)) = {t \in DOMAIN s.rob : ~s.rob[t].done}
      /\ IsInjective(Held(s))

\* In the PRET pipeline one instruction is live at a time, the one being fetched
\* included ("More than one instruction live in the PRET pipeline").
OneIsLive ==
  core = "PRET" =>
    \A s \in States : Cardinality({i \in 1 .. 4 :
      <<s.ifid, s.idex, s.exmem, s.instructionAccessId>>[i] # None}) <= 1

\* Instructions leave the pipeline in the order of the path, and none that was
\* fetched on a wrong path leaves it: a state that has finished some other
\* instruction would never be final ("Final should be cleared").
Leaving(s) == IF IsOutOfOrder THEN s.finalInstructions ELSE <<s.wbfin>>
FinalIsCleared ==
  \A s \in working \cup intermediate \cup (IF arrived THEN {} ELSE {hw}) :
    Leaving(s) = <<>> \/ Head(Leaving(s)) \in {None, point}

\* In the strictly in-order pipeline no data access has to wait for the fetch of
\* a later instruction: while the memory serves a fetch, none is queued.
FetchesYieldToData ==
  IsStrict =>
    \A s \in States :
      s.memory.currentIdAccessed # None /\ s.memory.currentIdAccessesInstr =>
        s.memory.dataQueue = <<>>

\* What the assertions and the comments of the pipelines say is so.
AssertionsHold ==
  AssumptionsFit /\ FetchedAtPc /\ ConvergedAwaitsMemory /\ DataAccessAwaited
    /\ TagsValid /\ OneIsLive /\ FinalIsCleared /\ FetchesYieldToData

-----------------------------------------------------------------------------
\* An instruction that a unit of the out-of-order pipeline executes has its
\* operands: the last instruction before it that writes a register it reads is done,
\* whatever has been renamed, committed and flushed in between.
Waiting(s) == UNION {{e.tag : e \in ToSet(s.stations[k])} : k \in 1 .. 3}
OperandsComputed ==
  IsOutOfOrder =>
    \A s \in States : \A t \in DOMAIN s.rob \ Waiting(s) :
      \A r \in Program[s.rob[t].addr].reads :
        LET writers == {i \in 1 .. t - 1 : Program[s.rob[i].addr].dest = r}
        IN  writers # {} => s.rob[Max(writers)].done

\* The fetch that the instruction queue waits for has been announced while the queue
\* was full: nobody took the answer.
FetchLost(s) == IsOutOfOrder /\ ~s.stallFetch /\ s.instructionAccessId = None

\* Every instruction on the path leaves the pipeline: neither the exploration nor
\* the processor spends a time in a block that its latencies and accesses, one
\* after the other, do not add up to, waiting for an access that nobody makes or
\* for an answer that was overridden, flushed or announced when nobody looked. There
\* is one way to wait for ever: a fetch that the full instruction queue of the
\* out-of-order pipeline did not take.
EveryInstructionFinishes == \A s \in States : s.time.ub < MaxTime \/ FetchLost(s)
=============================================================================
