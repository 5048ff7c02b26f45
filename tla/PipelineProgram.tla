-------------------------- MODULE PipelineProgram --------------------------
(***************************************************************************)
(* What the pipelines have in common: the program they execute, and what a *)
(* MicroArchitecturalState does at an instruction that changes the control *)
(* flow.  The program is a function from addresses to what a pipeline      *)
(* looks at; contexts and persistence scopes are left out, as the          *)
(* instructions of the model run in one context and the topologies ignore  *)
(* scopes.                                                                 *)
(***************************************************************************)
EXTENDS CyclingMemories, FiniteSetsExt, SequencesExt

CONSTANTS StallOnLocalWorstType,  \* the events that stall the whole pipeline
          Program,              \* [addresses -> instructions]
          InitialLinkRegister,  \* where the program returns to
          IdBase                \* the id that stands for currentId when rebased

-----------------------------------------------------------------------------
(* The memory topology: what a pipeline is compiled for, DispatchInOrder-    *)
(* PipelineTiming.cpp.                                                       *)

Single == INSTANCE SingleMemoryTopology
Separate == INSTANCE SeparateMemoriesTopology

IsSeparate(t) == "instructionMemory" \in DOMAIN t
None == Single!None
EmptyTopology(memTopType) ==
  IF memTopType = "SINGLEMEM" THEN Single!EmptySingleTopology ELSE Separate!EmptySeparateTopology
AccessInstr(t, addr, numWords) == Single!SingleAccessInstr(t, addr, numWords)
AccessData(t, addr, numWords) == Single!SingleAccessData(t, addr, numWords)
TopologyCycle(t, potentialDataMissesPending, strictlyInOrder) ==
  IF IsSeparate(t) THEN Separate!SeparateTopologyCycle(t)
  ELSE Single!SingleTopologyCycle(t, potentialDataMissesPending, strictlyInOrder)
FinishedInstrAccess(t, id) ==
  IF IsSeparate(t) THEN Separate!SeparateFinishedInstrAccess(t, id) ELSE Single!HasFinished(t, id)
FinishedDataAccess(t, id) ==
  IF IsSeparate(t) THEN Separate!SeparateFinishedDataAccess(t, id) ELSE Single!HasFinished(t, id)
InstrAcknowledged(t) ==
  IF IsSeparate(t) THEN Separate!SeparateInstrAcknowledged(t) ELSE Single!Acknowledged(t)
DataAcknowledged(t) ==
  IF IsSeparate(t) THEN Separate!SeparateDataAcknowledged(t) ELSE Single!Acknowledged(t)
HasUnfinishedAccesses(t) ==
  IF IsSeparate(t) THEN Separate!SeparateHasUnfinishedAccesses(t)
  ELSE Single!SingleHasUnfinishedAccesses(t)
IsBusyAccessingInstr(t) ==
  IF IsSeparate(t) THEN Separate!SeparateIsBusyAccessingInstr(t)
  ELSE Single!SingleIsBusyAccessingInstr(t)
IsBusyAccessingData(t) ==
  IF IsSeparate(t) THEN Separate!SeparateIsBusyAccessingData(t)
  ELSE Single!SingleIsBusyAccessingData(t)
ShouldPipelineStall(t) == ~IsSeparate(t) /\ Single!SingleShouldPipelineStall(t)
AwaitsJoin(t) == ~IsSeparate(t) /\ t.waitingForJoin
TopologyForwardAssertion(t) ==
  IF IsSeparate(t) THEN Separate!SeparateTopologyForwardAssertion(t)
  ELSE Single!SingleTopologyForwardAssertion(t)
TopologyFastForward(t) ==
  IF IsSeparate(t) THEN Separate!SeparateTopologyFastForward(t)
  ELSE Single!SingleTopologyFastForward(t)
Rebase(id, t, base) == Single!Rebase(id, t, base)
Rebased(t, base) ==
  IF IsSeparate(t) THEN Separate!SeparateRebased(t, base)
  ELSE Single!SingleRebased(t, base)
TopologiesJoinable(t, u) ==
  IF IsSeparate(t) THEN Separate!SeparateTopologiesJoinable(t, u)
  ELSE Single!SingleTopologiesJoinable(t, u)
JoinTopologies(t, u) ==
  IF IsSeparate(t) THEN Separate!SeparateJoinTopologies(t, u) ELSE Single!SingleJoinTopologies(t, u)

\* The ids of the accesses that the memories work on, the one for data, and those
\* that have just finished.
AccessIds(t) == IF IsSeparate(t) THEN {t.currentInstrIdAccessed, t.currentDataIdAccessed} ELSE {t.currentIdAccessed}
DataIdAccessed(t) ==
  IF IsSeparate(t) THEN t.currentDataIdAccessed
  ELSE IF t.currentIdAccessesInstr THEN None ELSE t.currentIdAccessed
FinishedIds(t) == IF IsSeparate(t) THEN {t.finishedInstrAccessId, t.finishedDataAccessId} ELSE {t.finishedAccess}

\* The background memory, whose counters the path analysis reads.
BackgroundMemory(t) == IF IsSeparate(t) THEN t.dataMemory ELSE t.memory
ResetMemory(b) == [b EXCEPT !.memory.forwarded = Zero, !.blocking = Zero]
ResetTopologyMetrics(t) ==
  IF IsSeparate(t)
  THEN [t EXCEPT !.instructionMemory.forwarded = Zero, !.dataMemory = ResetMemory(@)]
  ELSE [t EXCEPT !.memory = ResetMemory(@)]

-----------------------------------------------------------------------------
(* The program *)

\* An instruction loads or stores accesses words, writes the register dest (0 is
\* none), reads the registers reads, and takes one of latencies cycles to execute.
\* flow is what it does to the control flow, targets where it may branch, jump,
\* call or return to.
Instruction ==
  [mayLoad : BOOLEAN, mayStore : BOOLEAN, accesses : Nat, dest : Nat,
   reads : SUBSET Nat, latencies : SUBSET Nat,
   flow : {"next", "branch", "jump", "table", "call", "return"},
   targets : SUBSET Nat, predicated : BOOLEAN]

ASSUME ProgramAssumption ==
  /\ \A a \in DOMAIN Program :
       /\ a \in Nat \ {None}
       /\ Program[a] \in Instruction
       /\ Program[a].latencies # {} /\ 0 \notin Program[a].latencies
       /\ Program[a].flow = "next" <=> Program[a].targets = {}
       /\ Program[a].predicated => Program[a].flow = "return"
  /\ InitialLinkRegister \notin DOMAIN Program

HasMachineInstr(a) == a \in DOMAIN Program
GoesExternal(a) == ~HasMachineInstr(a)
Flow(a) == Program[a].flow
AccessesMemory(a) == Program[a].mayLoad \/ Program[a].mayStore
NumDataAccesses(a) == IF AccessesMemory(a) THEN Program[a].accesses ELSE 0

-----------------------------------------------------------------------------
(* Control flow: MicroArchitecturalState::handleBranching *)

\* The outcome of a branch: the address taken, or None if it is not taken.  For a
\* return it is only kept that it is taken.
Taken == -1
Assuming(s, a, outcome) ==
  [s EXCEPT !.condBranchAssumptions = Append(@, [branch |-> a, outcome |-> outcome])]
BranchTo(s, a, target) == [Assuming(s, a, target) EXCEPT !.pc = target]
ReturnTo(s, a, target) ==
  [Assuming(s, a, Taken) EXCEPT !.pc = target, !.returnAssumptions = Append(@, target)]

\* The state as if the branch were taken, and the alternatives to it.
Branching(s, a, targets, first) ==
  CASE Flow(a) = "branch" ->
         [main |-> BranchTo(s, a, first), others |-> {Assuming(s, a, None)}]
    [] Flow(a) = "table" ->
         [main |-> BranchTo(s, a, first),
          others |-> {BranchTo(s, a, t) : t \in targets \ {first}}]
    [] Flow(a) \in {"jump", "call"} -> [main |-> [s EXCEPT !.pc = first], others |-> {}]
    [] Flow(a) = "return" /\ ~Program[a].predicated ->
         [main |-> ReturnTo(s, a, first),
          others |-> {ReturnTo(s, a, t) : t \in targets \ {first}}]
    [] OTHER ->
         [main |-> Assuming(s, a, None), others |-> {ReturnTo(s, a, t) : t \in targets}]
HandleBranching(s, a) ==
  LET targets == Program[a].targets IN Branching(s, a, targets, Min(targets))

-----------------------------------------------------------------------------
(* Fetching and fast-forwarding *)

\* fetched is the address behind instructionAccessId, kept for the properties only.
StartFetch(s) ==
  [s EXCEPT !.memory = AccessInstr(@, s.pc, 1),
            !.instructionAccessId = s.memory.currentId, !.fetched = s.pc]

\* A state in which a cycle has changed nothing but the memory has converged, and
\* the memory may skip ahead.
FastForwarded(s, converged) ==
  IF converged THEN {[s EXCEPT !.memory = m] : m \in TopologyFastForward(s.memory)}
  ELSE {s}
=============================================================================
