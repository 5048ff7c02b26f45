------------------------- MODULE OutOfOrderPipeline -------------------------
(***************************************************************************)
(* OutOfOrderPipelineState over a SingleMemoryTopology: instructions are   *)
(* fetched into a queue, issued in order to a reorder buffer and to        *)
(* reservation stations, executed when their operands are there and a unit *)
(* is free, announce their result on the common data bus one at a time,    *)
(* and commit in order.                                                    *)
(*                                                                         *)
(* A tag is a place in the reorder buffer.  Places are counted from the    *)
(* head, as states are compared that way; 1 is the head.                   *)
(***************************************************************************)
EXTENDS PipelineProgram

CONSTANTS QueueSize,   \* places of the instruction queue
          RobSize      \* places of the reorder buffer

\* The reservation stations: for simple instructions, for branches, for loads and
\* stores.  They share the functional units out among them.
StationSize == <<2, 1, 1>>
UnitsOf == <<{1, 2}, {3}, {4}>>
LoadStore == 4

Idling == [tag |-> None, remaining |-> {}, finished |-> None]
IsFree(unit) == unit.tag = None /\ unit.finished = None
Registers == UNION {Program[a].reads \cup {Program[a].dest} : a \in DOMAIN Program}

\* dataAccessIds holds one id at most: the accesses of an instruction are made one
\* by one.  registerStatus says which instruction writes a register.
OutOfOrderInitialState(entry) ==
  [pc |-> entry, time |-> Zero,
   condBranchAssumptions |-> <<>>, returnAssumptions |-> <<>>,
   memory |-> AccessInstr(EmptyTopology("SINGLEMEM"), entry, 1),
   queue |-> <<>>, instructionAccessId |-> EmptyTopology("SINGLEMEM").currentId, stallFetch |-> FALSE,
   rob |-> <<>>, registerStatus |-> [r \in Registers |-> None],
   stations |-> <<<<>>, <<>>, <<>>>>, units |-> [i \in 1 .. LoadStore |-> Idling],
   currMemoryAccess |-> 0, dataAccessId |-> None, commonDataBus |-> None,
   finalInstructions |-> <<>>, fetched |-> entry]

AddressOf(s, tag) == s.rob[tag].addr

\* The instructions behind which another path may be right.
ResolvesBranch(a) == Flow(a) \in {"branch", "call", "return"}
IsUnresolvedBranchBefore(s, tag) == \E i \in 1 .. tag - 1 : ResolvesBranch(AddressOf(s, i))

-----------------------------------------------------------------------------
(* The functional units *)

\* A simple instruction may be done at any of its latencies: the state splits.
SimpleCycle(s, i) ==
  LET rest == {n - 1 : n \in s.units[i].remaining}
  IN  IF rest = {} THEN {s}
      ELSE (IF 0 \in rest
            THEN {[s EXCEPT !.units[i] = [Idling EXCEPT !.finished = s.units[i].tag]]}
            ELSE {})
             \cup (IF rest # {0} THEN {[s EXCEPT !.units[i].remaining = rest \ {0}]} ELSE {})

\* The accesses of an instruction are made when it is known to be on the path.
MayAccess(s) ==
  s.dataAccessId = None /\ ~IsUnresolvedBranchBefore(s, s.units[LoadStore].tag)

OutOfOrderDataArrived(s) ==
  IF FinishedDataAccess(s.memory, s.dataAccessId)
  THEN [s EXCEPT !.memory = DataAcknowledged(@), !.dataAccessId = None] ELSE s
NextDataAccess(s, tag) ==
  IF ~MayAccess(s) THEN s
  ELSE IF s.currMemoryAccess < NumDataAccesses(AddressOf(s, tag))
  THEN [s EXCEPT !.memory = AccessData(@, <<AddressOf(s, tag), s.currMemoryAccess>>, 1),
                 !.dataAccessId = s.memory.currentId, !.currMemoryAccess = @ + 1]
  ELSE [s EXCEPT !.units[LoadStore] = [Idling EXCEPT !.finished = tag], !.currMemoryAccess = 0]
LoadStoreCycle(s) ==
  LET tag == s.units[LoadStore].tag
  IN  IF tag = None THEN s ELSE NextDataAccess(OutOfOrderDataArrived(s), tag)

\* A finished unit takes the common data bus, if no other has.
TakesBus(s, i) ==
  IF s.units[i].finished = None \/ s.commonDataBus # None THEN s
  ELSE [s EXCEPT !.commonDataBus = s.units[i].finished, !.units[i].finished = None]

UnitCycle(s, i) ==
  {TakesBus(t, i) : t \in CASE i \in UnitsOf[1] -> SimpleCycle(s, i)
                            [] i = LoadStore -> {LoadStoreCycle(s)}
                            [] OTHER -> {s}}
UnitsCycle(s) ==
  FoldLeft(LAMBDA states, i : UNION {UnitCycle(t, i) : t \in states}, {s}, <<1, 2, 3, 4>>)

-----------------------------------------------------------------------------
(* The reservation stations *)

StationFor(a) == IF AccessesMemory(a) THEN 3 ELSE IF Flow(a) # "next" THEN 2 ELSE 1

\* A branch is done as soon as it is executed.
ExecuteInstruction(s, i, tag) ==
  CASE i \in UnitsOf[1] ->
         [s EXCEPT !.units[i] = [Idling EXCEPT !.tag = tag,
                                   !.remaining = Program[AddressOf(s, tag)].latencies]]
    [] i = LoadStore -> [s EXCEPT !.units[i].tag = tag, !.currMemoryAccess = 0]
    [] OTHER -> [s EXCEPT !.units[i].finished = tag]

\* What is on the bus is not awaited any more; an instruction that awaits nothing
\* goes to the first free unit.
StationCycle(s, k) ==
  LET served(t, e) ==
        LET sources == e.sources \ {t.commonDataBus}
            free == {i \in UnitsOf[k] : IsFree(t.units[i])}
        IN  IF sources = {} /\ free # {} THEN ExecuteInstruction(t, Min(free), e.tag)
            ELSE [t EXCEPT !.stations[k] = Append(@, [e EXCEPT !.sources = sources])]
  IN  FoldLeft(served, [s EXCEPT !.stations[k] = <<>>], s.stations[k])
StationsCycle(s) == FoldLeft(StationCycle, s, <<1, 2, 3>>)

-----------------------------------------------------------------------------
(* The reorder buffer *)

\* The place that was at tag, when n places have been left at the head.
Shift(tag, n) == IF tag = None THEN None ELSE ((tag - n - 1) % RobSize) + 1

Finish(s) ==
  IF s.commonDataBus = None THEN s ELSE [s EXCEPT !.rob[s.commonDataBus].done = TRUE]

\* How many instructions commit: all that are done, up to a branch.
Committed(s) ==
  Max({n \in 0 .. Len(s.rob) :
         /\ \A i \in 1 .. n : s.rob[i].done
         /\ \A i \in 1 .. n - 1 : ~ResolvesBranch(AddressOf(s, i))})

\* Mutant: the register is free although a later instruction will write it.
WriteResultBackAll(s, n) ==
  [r \in Registers |->
     IF \E i \in 1 .. n : Program[AddressOf(s, i)].dest = r THEN None
     ELSE Shift(s.registerStatus[r], n)]

\* The table forgets the instructions that were the last to write a register.
WriteResultBack(s, n) ==
  [r \in Registers |->
     IF \E i \in 1 .. n : Program[AddressOf(s, i)].dest = r /\ s.registerStatus[r] = i
     THEN None ELSE Shift(s.registerStatus[r], n)]

CommitInstructions(s) ==
  LET n == Committed(s)
      left(e) == [e EXCEPT !.tag = Shift(@, n), !.sources = {Shift(t, n) : t \in @}]
  IN  [s EXCEPT !.registerStatus = WriteResultBack(s, n),
                !.rob = SubSeq(@, n + 1, Len(@)),
                !.stations = [k \in 1 .. 3 |-> [i \in DOMAIN @[k] |-> left(@[k][i])]],
                !.units = [i \in DOMAIN @ |-> [@[i] EXCEPT !.tag = Shift(@, n),
                                                           !.finished = Shift(@, n)]],
                !.commonDataBus = Shift(@, n),
                !.finalInstructions = @ \o [i \in 1 .. n |-> AddressOf(s, i)]]
RobCycle(s) == CommitInstructions(Finish(s))

-----------------------------------------------------------------------------
(* The instruction queue *)

\* The operands that are neither there nor on the bus.
Awaited(s, a) ==
  {t \in {s.registerStatus[r] : r \in Program[a].reads} \ {None, s.commonDataBus} :
     ~s.rob[t].done}

\* One instruction is issued, if there is a place for it.
TryIssueInstr(s) ==
  IF s.queue = <<>> THEN s
  ELSE LET a == Head(s.queue)
           k == StationFor(a)
           tag == Len(s.rob) + 1
       IN  IF tag > RobSize \/ Len(s.stations[k]) = StationSize[k] THEN s
           ELSE [s EXCEPT !.queue = Tail(@),
                          !.rob = Append(@, [addr |-> a, done |-> FALSE]),
                          !.stations[k] = Append(@, [tag |-> tag, sources |-> Awaited(s, a)]),
                          !.registerStatus = [r \in DOMAIN @ |->
                             IF r = Program[a].dest /\ r # 0 THEN tag ELSE @[r]]]

\* What has been fetched is queued, and the next fetch is started: behind a jump
\* or a call at its target.  Fetching stops behind a return or a jump table, and at
\* the end of the program.
FillQueue(s) ==
  IF Len(s.queue) = QueueSize \/ s.stallFetch \/ ~FinishedInstrAccess(s.memory, s.instructionAccessId)
  THEN s
  ELSE LET a == s.pc
           t == [s EXCEPT !.memory = InstrAcknowledged(@), !.pc = @ + 1]
           u == [t EXCEPT !.queue = Append(@, a)]
       IN  CASE GoesExternal(a) -> [t EXCEPT !.stallFetch = TRUE]
             [] HasMachineInstr(a) /\ Flow(a) \in {"return", "table"} ->
                  [u EXCEPT !.stallFetch = TRUE]
             [] HasMachineInstr(a) /\ Flow(a) \in {"jump", "call"} ->
                  StartFetch(HandleBranching(u, a).main)
             [] OTHER -> StartFetch(u)

QueueCycle(s) == FillQueue(TryIssueInstr(s))

-----------------------------------------------------------------------------
(* Branches *)

\* Mutant: the units go on with what was on the wrong path.
EmptyPipelineKeepsUnits(s) ==
  StartFetch([s EXCEPT !.queue = <<>>, !.stallFetch = FALSE, !.rob = <<>>,
                       !.stations = <<<<>>, <<>>, <<>>>>, !.commonDataBus = None,
                       !.registerStatus = [r \in Registers |-> None]])

\* Mutant: fetching stays stopped behind a return on the wrong path.
EmptyPipelineStaysStalled(s) ==
  StartFetch([s EXCEPT !.queue = <<>>, !.rob = <<>>,
                       !.stations = <<<<>>, <<>>, <<>>>>, !.commonDataBus = None,
                       !.registerStatus = [r \in Registers |-> None],
                       !.units = [i \in DOMAIN @ |-> Idling], !.currMemoryAccess = 0])

\* The access that is under way, if any, is not forgotten.
OutOfOrderEmptyPipeline(s) ==
  StartFetch([s EXCEPT !.queue = <<>>, !.stallFetch = FALSE, !.rob = <<>>,
                       !.stations = <<<<>>, <<>>, <<>>>>, !.commonDataBus = None,
                       !.registerStatus = [r \in Registers |-> None],
                       !.units = [i \in DOMAIN @ |-> Idling], !.currMemoryAccess = 0])

\* Branches are taken when they commit: an instruction that does is the last to
\* commit in its cycle.
OutOfOrderDirections(next, a) ==
  {OutOfOrderEmptyPipeline(next.main)} \cup
    {IF Flow(a) = "branch" THEN t ELSE OutOfOrderEmptyPipeline(t) : t \in next.others}
OutOfOrderCheckForBranches(s, committed) ==
  LET a == Last(committed)
  IN  IF committed = <<>> \/ Flow(a) \notin {"branch", "return", "table"} THEN {s}
      ELSE OutOfOrderDirections(HandleBranching(s, a), a)

-----------------------------------------------------------------------------
(* cycle() *)

\* Ids count from currentId.  Those the memory has forgotten are never looked at.
OutOfOrderRebasedState(s) ==
  LET known == AccessIds(s.memory) \cup FinishedIds(s.memory)
                 \cup {r.id : r \in ToSet(s.memory.instructionQueue \o s.memory.dataQueue)}
      id(i) == IF i \in known THEN Rebase(i, s.memory, IdBase) ELSE None
  IN  [s EXCEPT !.memory = Rebased(@, IdBase), !.instructionAccessId = id(@),
                !.dataAccessId = Rebase(@, s.memory, IdBase)]

OutOfOrderCycleMemoryTopology(s) ==
  {[s EXCEPT !.time = Advance(@, 1), !.commonDataBus = None, !.memory = m] :
     m \in TopologyCycle(s.memory, FALSE, FALSE)}

\* t is what s has become; the instructions that have committed meanwhile are at the end.
Issue(s, t) ==
  OutOfOrderCheckForBranches(QueueCycle(t),
    SubSeq(t.finalInstructions, Len(s.finalInstructions) + 1, Len(t.finalInstructions)))
OutOfOrderStages(s) ==
  IF ShouldPipelineStall(s.memory) THEN {s}
  ELSE UNION {Issue(t, RobCycle(StationsCycle(t))) : t \in UnitsCycle(s)}
OutOfOrderSuccessors(s) ==
  {OutOfOrderRebasedState(t) : t \in UNION {OutOfOrderStages(u) : u \in OutOfOrderCycleMemoryTopology(s)}}

\* Of the data accesses it counts whether there is one.
OutOfOrderUpToMemory(s) ==
  [s EXCEPT !.time = Zero, !.memory = EmptyTopology("SINGLEMEM"), !.instructionAccessId = None,
            !.dataAccessId = IF @ = None THEN None ELSE IdBase, !.fetched = None]
OutOfOrderJoinableUpToMemory(s, t) == OutOfOrderUpToMemory(s) = OutOfOrderUpToMemory(t)
OutOfOrderIsJoinable(s, t) == OutOfOrderJoinableUpToMemory(s, t) /\ TopologiesJoinable(s.memory, t.memory)
OutOfOrderJoinStates(s, t) ==
  [s EXCEPT !.time = JoinedCounter(@, t.time),
            !.memory = JoinTopologies(@, t.memory)]

OutOfOrderHasConverged(s, origin) == OutOfOrderJoinableUpToMemory(s, origin)
OutOfOrderPipelineCycle(s) ==
  UNION {FastForwarded(t, OutOfOrderHasConverged(t, s)) : t \in OutOfOrderSuccessors(s)}

\* Where a unit is done, states are joined as well.
IsWaitingForJoin(s) == AwaitsJoin(s.memory) \/ s.commonDataBus # None

OutOfOrderIsPipelineEmpty(s) == s.rob = <<>> /\ s.queue = <<>>
OutOfOrderIsFinal(s, a) ==
  IF GoesExternal(a) THEN OutOfOrderIsPipelineEmpty(s) /\ ~HasUnfinishedAccesses(s.memory)
  ELSE a \in ToSet(s.finalInstructions)

\* The first time the instruction has committed is forgotten.
OutOfOrderFinalised(s, a) ==
  IF GoesExternal(a) THEN s
  ELSE LET i == Min({j \in DOMAIN s.finalInstructions : s.finalInstructions[j] = a})
       IN  [s EXCEPT !.finalInstructions = RemoveAt(@, i)]
=============================================================================
