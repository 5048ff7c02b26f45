--------------------------- MODULE InOrderPipeline ---------------------------
(***************************************************************************)
(* InOrderPipelineState over a memory topology: the states of a five-      *)
(* stage in-order pipeline and the successors cycle() gives them.  A stage *)
(* register holds the address of the instruction that left the stage.      *)
(***************************************************************************)
EXTENDS PipelineProgram

CONSTANTS StrictInOrder,   \* MuArchType is STRICTINORDER
          MemTopType       \* "SINGLEMEM" or "PRIVINSTRSPMDATASHARED"

-----------------------------------------------------------------------------
\* dataAccessIds has one element at most: the next access of an instruction is
\* announced when the last one has finished.
InOrderInitialState(entry) ==
  [pc |-> entry, time |-> Zero,
   condBranchAssumptions |-> <<>>, returnAssumptions |-> <<>>,
   ifid |-> None, idex |-> None, exmem |-> None, memwb |-> None, wbfin |-> None,
   remainingExecutionTimes |-> {}, stallMemory |-> FALSE, interlock |-> FALSE,
   flushedFetchStage |-> FALSE,
   memory |-> AccessInstr(EmptyTopology(MemTopType), entry, 1),
   instructionAccessId |-> EmptyTopology(MemTopType).currentId, instructionAccessFinished |-> FALSE,
   currMemoryAccess |-> 0, dataAccessId |-> None, fetched |-> entry]

-----------------------------------------------------------------------------
(* Branches *)

InOrderEmptyPipeline(s) == [s EXCEPT !.flushedFetchStage = TRUE, !.ifid = None]

\* A branch that is not taken goes on with what has been fetched.  In the strictly
\* in-order case nothing has, and the fetch is started now.
InOrderNotTaken(s) == IF StrictInOrder THEN StartFetch(s) ELSE s

\* Branches are taken in the execute stage, those that load the pc in the
\* memory stage.
InOrderDirections(next, a) ==
  {InOrderEmptyPipeline(next.main)} \cup
    {IF Flow(a) \in {"return", "table"} THEN InOrderEmptyPipeline(t) ELSE InOrderNotTaken(t) : t \in next.others}
InOrderCheckForBranches(s, a, inMemoryStage) ==
  IF Flow(a) = "next" \/ inMemoryStage # Program[a].mayLoad THEN {s}
  ELSE InOrderDirections(HandleBranching(s, a), a)

-----------------------------------------------------------------------------
(* The stages *)

PotentialDataMissesPending(s) ==
  \/ s.ifid # None /\ (GoesExternal(s.ifid) \/ AccessesMemory(s.ifid))
  \/ s.idex # None /\ AccessesMemory(s.idex)
  \/ /\ s.exmem # None /\ AccessesMemory(s.exmem)
     /\ s.dataAccessId # None /\ ~FinishedDataAccess(s.memory, s.dataAccessId)

InOrderCycleMemoryTopology(s) ==
  {[s EXCEPT !.memory = t] :
     t \in TopologyCycle(s.memory, PotentialDataMissesPending(s), StrictInOrder)}

InOrderWriteBackStage(s) ==
  IF s.memwb = None THEN s ELSE [s EXCEPT !.wbfin = s.memwb, !.memwb = None]

NeedsDataAccess(s) == s.currMemoryAccess < NumDataAccesses(s.exmem)
InOrderAccessDataFromMemoryTopology(s) ==
  IF ~NeedsDataAccess(s) THEN s
  ELSE [s EXCEPT !.memory = AccessData(@, <<s.exmem, s.currMemoryAccess>>, 1),
                 !.dataAccessId = s.memory.currentId, !.currMemoryAccess = @ + 1]

InOrderDataArrived(s) ==
  IF FinishedDataAccess(s.memory, s.dataAccessId)
  THEN InOrderAccessDataFromMemoryTopology(
         [s EXCEPT !.memory = DataAcknowledged(@), !.dataAccessId = None])
  ELSE s

\* The instruction goes on when its accesses are done and the next stage is free.
InOrderLeaveMemoryStage(s) ==
  LET stall == AccessesMemory(s.exmem) /\ (NeedsDataAccess(s) \/ s.dataAccessId # None)
      loadUse == /\ Program[s.exmem].mayLoad /\ s.idex # None
                 /\ Program[s.exmem].dest \in Program[s.idex].reads
  IN  IF stall \/ s.memwb # None THEN {[s EXCEPT !.stallMemory = stall]}
      ELSE {[t EXCEPT !.exmem = None] :
              t \in InOrderCheckForBranches(
                [s EXCEPT !.stallMemory = FALSE, !.interlock = loadUse, !.memwb = s.exmem],
                s.exmem, TRUE)}
InOrderMemoryStage(s) == IF s.exmem = None THEN {s} ELSE InOrderLeaveMemoryStage(InOrderDataArrived(s))

\* The instruction leaves the execute stage, if the next one is free.
Executed(s) ==
  IF s.exmem # None THEN {[s EXCEPT !.remainingExecutionTimes = {0}]}
  ELSE LET t == InOrderAccessDataFromMemoryTopology(
                  [s EXCEPT !.exmem = s.idex, !.dataAccessId = None,
                            !.currMemoryAccess = 0])
       IN  {[u EXCEPT !.idex = None, !.remainingExecutionTimes = {}] :
              u \in InOrderCheckForBranches(t, s.idex, FALSE)}

\* All the times the execution may still take are kept in one state: it splits
\* into the one that is done and the one that goes on.
InOrderExecuteStage(s) ==
  IF s.idex = None \/ s.interlock THEN {s}
  ELSE LET rest == {n - 1 : n \in s.remainingExecutionTimes \ {0, 1}}
       IN  (IF s.remainingExecutionTimes \cap {0, 1} # {} THEN Executed(s) ELSE {})
             \cup (IF rest # {} THEN {[s EXCEPT !.remainingExecutionTimes = rest]} ELSE {})

InOrderDecodeStage(s) ==
  IF s.ifid = None \/ s.idex # None THEN s
  ELSE IF GoesExternal(s.ifid) THEN [s EXCEPT !.ifid = None]
  ELSE [s EXCEPT !.idex = s.ifid, !.ifid = None,
                 !.remainingExecutionTimes = Program[s.ifid].latencies]

\* Nothing is fetched behind an instruction that always changes the control
\* flow, nor behind any branch in the strictly in-order case.
FetchesBehind(a) ==
  /\ HasMachineInstr(a)
  /\ Flow(a) \notin {"call", "return", "table"}
  /\ StrictInOrder => Flow(a) \notin {"branch", "jump"}

Refetch(s) ==
  StartFetch([s EXCEPT !.instructionAccessFinished = FALSE, !.flushedFetchStage = FALSE])

InstructionArrived(s) ==
  IF FinishedInstrAccess(s.memory, s.instructionAccessId)
  THEN [s EXCEPT !.memory = InstrAcknowledged(@), !.instructionAccessFinished = TRUE,
                 !.instructionAccessId = None]
  ELSE s
LeaveFetchStage(s) ==
  LET t == [s EXCEPT !.ifid = s.pc, !.pc = @ + 1, !.instructionAccessFinished = FALSE]
  IN  IF s.ifid # None \/ ~s.instructionAccessFinished THEN s
      ELSE IF FetchesBehind(s.pc) THEN StartFetch(t) ELSE t

FetchStage(s) ==
  IF s.flushedFetchStage THEN Refetch(s) ELSE LeaveFetchStage(InstructionArrived(s))

-----------------------------------------------------------------------------
(* cycle() *)

\* Ids count from currentId, in the pipeline too.
InOrderRebasedState(s) ==
  [s EXCEPT !.memory = Rebased(@, IdBase),
            !.instructionAccessId = Rebase(@, s.memory, IdBase),
            !.dataAccessId = Rebase(@, s.memory, IdBase)]

Begin(s) ==
  [s EXCEPT !.stallMemory = FALSE, !.interlock = FALSE, !.time = Advance(@, 1)]
InOrderStages(s) ==
  IF ShouldPipelineStall(s.memory) THEN {s}
  ELSE {FetchStage(InOrderDecodeStage(t)) :
          t \in UNION {InOrderExecuteStage(u) : u \in InOrderMemoryStage(InOrderWriteBackStage(s))}}

\* The states after a cycle, before any of them is fast-forwarded.
InOrderSuccessors(s) ==
  {InOrderRebasedState(t) : t \in UNION {InOrderStages(u) : u \in InOrderCycleMemoryTopology(Begin(s))}}

\* Mutant: the progress of the execute stage is left aside as well.
UpToMemoryAndTimes(s) ==
  [s EXCEPT !.time = Zero, !.memory = EmptyTopology(MemTopType), !.instructionAccessId = None,
            !.dataAccessId = None, !.fetched = None, !.remainingExecutionTimes = {}]

\* The fields that are left aside when states are compared: the counters, the
\* memory and the ids, which are compared by way of the memory.
InOrderUpToMemory(s) ==
  [s EXCEPT !.time = Zero, !.memory = EmptyTopology(MemTopType), !.instructionAccessId = None,
            !.dataAccessId = None, !.fetched = None]
InOrderJoinableUpToMemory(s, t) == InOrderUpToMemory(s) = InOrderUpToMemory(t)
InOrderIsJoinable(s, t) == InOrderJoinableUpToMemory(s, t) /\ TopologiesJoinable(s.memory, t.memory)
InOrderJoinStates(s, t) ==
  [s EXCEPT !.time = JoinedCounter(@, t.time),
            !.memory = JoinTopologies(@, t.memory)]

\* A cycle that changed nothing but the memory: nothing will change until the
\* memory is done, and the memory may skip ahead.
InOrderHasConverged(s, origin) == InOrderJoinableUpToMemory(s, origin)

InOrderPipelineCycle(s) ==
  UNION {FastForwarded(t, InOrderHasConverged(t, s)) : t \in InOrderSuccessors(s)}

InOrderIsPipelineEmpty(s) ==
  s.ifid = None /\ s.idex = None /\ s.exmem = None /\ s.memwb = None /\ s.wbfin = None

\* Whether the instruction at a has just left the pipeline; an external address
\* is reached when everything has left it.
InOrderIsFinal(s, a) ==
  IF GoesExternal(a) THEN InOrderIsPipelineEmpty(s) /\ ~HasUnfinishedAccesses(s.memory)
  ELSE s.wbfin = a
InOrderFinalised(s) == [s EXCEPT !.wbfin = None]
=============================================================================
