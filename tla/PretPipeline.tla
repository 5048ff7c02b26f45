----------------------------- MODULE PretPipeline -----------------------------
(***************************************************************************)
(* PretPipelineState over a SingleMemoryTopology: the five stages of the   *)
(* in-order pipeline with one instruction in them at a time, so that its   *)
(* timing depends on nothing before it.                                    *)
(***************************************************************************)
EXTENDS PipelineProgram

PretInitialState(entry) ==
  [pc |-> entry, time |-> Zero,
   condBranchAssumptions |-> <<>>, returnAssumptions |-> <<>>,
   ifid |-> None, idex |-> None, exmem |-> None, memwb |-> None, wbfin |-> None,
   memory |-> AccessInstr(EmptyTopology("SINGLEMEM"), entry, 1),
   instructionAccessId |-> EmptyTopology("SINGLEMEM").currentId,
   currMemoryAccess |-> 0, dataAccessId |-> None, fetched |-> entry]

\* The state and its alternatives when the branch at a is taken, in the memory stage
\* if it loads the pc and in the execute stage otherwise.
PretDirections(next) == {next.main} \cup next.others
PretCheckForBranches(s, a, inMemoryStage) ==
  IF Flow(a) = "next" \/ inMemoryStage # Program[a].mayLoad THEN {s}
  ELSE PretDirections(HandleBranching(s, a))

PretWriteBackStage(s) ==
  IF s.memwb = None THEN s ELSE [s EXCEPT !.wbfin = s.memwb, !.memwb = None]

NeedsDataAccess(s) == s.currMemoryAccess < NumDataAccesses(s.exmem)
PretAccessDataFromMemoryTopology(s) ==
  IF ~NeedsDataAccess(s) THEN s
  ELSE [s EXCEPT !.memory = AccessData(@, <<s.exmem, s.currMemoryAccess>>, 1),
                 !.dataAccessId = s.memory.currentId, !.currMemoryAccess = @ + 1]

PretDataArrived(s) ==
  IF FinishedDataAccess(s.memory, s.dataAccessId)
  THEN PretAccessDataFromMemoryTopology(
         [s EXCEPT !.memory = DataAcknowledged(@), !.dataAccessId = None])
  ELSE s
PretLeaveMemoryStage(s) ==
  IF NeedsDataAccess(s) \/ s.dataAccessId # None THEN {s}
  ELSE {[t EXCEPT !.exmem = None] :
          t \in PretCheckForBranches([s EXCEPT !.memwb = s.exmem], s.exmem, TRUE)}
PretMemoryStage(s) == IF s.exmem = None THEN {s} ELSE PretLeaveMemoryStage(PretDataArrived(s))

PretExecuteStage(s) ==
  IF s.idex = None THEN {s}
  ELSE LET t == PretAccessDataFromMemoryTopology(
                  [s EXCEPT !.exmem = s.idex, !.dataAccessId = None, !.currMemoryAccess = 0])
       IN  {[u EXCEPT !.idex = None] : u \in PretCheckForBranches(t, s.idex, FALSE)}

PretDecodeStage(s) ==
  IF s.ifid = None THEN s
  ELSE [s EXCEPT !.idex = IF HasMachineInstr(s.ifid) THEN s.ifid ELSE @, !.ifid = None]

\* The next instruction is fetched when the last one is done.
MayFetch(s) == s.ifid = None /\ s.idex = None /\ s.exmem = None

FetchStage(s) ==
  IF s.instructionAccessId # None
  THEN IF FinishedInstrAccess(s.memory, s.instructionAccessId)
       THEN [s EXCEPT !.memory = InstrAcknowledged(@), !.instructionAccessId = None,
                      !.ifid = s.pc, !.pc = @ + 1]
       ELSE s
  ELSE IF MayFetch(s) /\ HasMachineInstr(s.pc) THEN StartFetch(s) ELSE s

-----------------------------------------------------------------------------
(* cycle() *)

PretRebasedState(s) ==
  [s EXCEPT !.memory = Rebased(@, IdBase),
            !.instructionAccessId = Rebase(@, s.memory, IdBase),
            !.dataAccessId = Rebase(@, s.memory, IdBase)]

PretCycleMemoryTopology(s) ==
  {[s EXCEPT !.time = Advance(@, 1), !.memory = m] : m \in TopologyCycle(s.memory, FALSE, FALSE)}
PretStages(s) ==
  {FetchStage(PretDecodeStage(t)) :
     t \in UNION {PretExecuteStage(u) : u \in PretMemoryStage(PretWriteBackStage(s))}}
PretSuccessors(s) ==
  {PretRebasedState(t) : t \in UNION {PretStages(u) : u \in PretCycleMemoryTopology(s)}}

PretUpToMemory(s) ==
  [s EXCEPT !.time = Zero, !.memory = EmptyTopology("SINGLEMEM"), !.instructionAccessId = None,
            !.dataAccessId = None, !.fetched = None]
PretJoinableUpToMemory(s, t) == PretUpToMemory(s) = PretUpToMemory(t)
PretIsJoinable(s, t) == PretJoinableUpToMemory(s, t) /\ TopologiesJoinable(s.memory, t.memory)
PretJoinStates(s, t) ==
  [s EXCEPT !.time = JoinedCounter(@, t.time),
            !.memory = JoinTopologies(@, t.memory)]

PretHasConverged(s, origin) == PretJoinableUpToMemory(s, origin)
PretPipelineCycle(s) ==
  UNION {FastForwarded(t, PretHasConverged(t, s)) : t \in PretSuccessors(s)}

PretIsPipelineEmpty(s) ==
  s.ifid = None /\ s.idex = None /\ s.exmem = None /\ s.memwb = None /\ s.wbfin = None
PretIsFinal(s, a) ==
  IF GoesExternal(a) THEN PretIsPipelineEmpty(s) /\ ~HasUnfinishedAccesses(s.memory)
  ELSE s.wbfin = a
PretFinalised(s) == [s EXCEPT !.wbfin = None]
=============================================================================
