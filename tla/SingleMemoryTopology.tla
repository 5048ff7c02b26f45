------------------------ MODULE SingleMemoryTopology ------------------------
(***************************************************************************)
(* SingleMemoryTopology: one background memory serves the instruction and  *)
(* the data accesses of a pipeline, data first.  An access is known by its *)
(* id; currentId is the next id, and topologies are compared by how far    *)
(* their ids lie behind it.  Id 0 is no access.                            *)
(***************************************************************************)
EXTENDS CyclingMemories, Sequences

CONSTANT StallOnLocalWorstType  \* the events that stall the whole pipeline

ASSUME StallAssumption == StallOnLocalWorstType \subseteq {"DRAMREFRESH", "BUSBLOCKING"}

None == 0

EmptySingleTopology ==
  [memory |-> Idle, instructionQueue |-> <<>>, dataQueue |-> <<>>,
   currentId |-> 1, currentIdAccessed |-> None, finishedAccess |-> None,
   currentIdAccessesInstr |-> FALSE, waitingForJoin |-> FALSE]

Request(id, addr, numWords) == [id |-> id, addr |-> addr, numWords |-> numWords]

\* An instruction access overrides the one still queued.
SingleAccessInstr(t, addr, numWords) ==
  [t EXCEPT !.instructionQueue = <<Request(t.currentId, addr, numWords)>>,
            !.currentId = @ + 1]

\* A data access is only taken while no other is queued.
MayAccessData(t) == t.dataQueue = <<>>
SingleAccessData(t, addr, numWords) ==
  [t EXCEPT !.dataQueue = <<Request(t.currentId, addr, numWords)>>,
            !.currentId = @ + 1]

Begun(t, request, isInstr) ==
  [t EXCEPT !.memory = AnnounceAccess(@, request.numWords),
            !.currentIdAccessed = request.id, !.currentIdAccessesInstr = isInstr]

\* The memory is given the next access.  In the strictly in-order case a fetch
\* waits for the data accesses of the instructions before it.
NextServed(t, potentialDataMissesPending, strictlyInOrder) ==
  IF t.currentIdAccessed # None THEN t
  ELSE IF t.dataQueue # <<>>
       THEN [Begun(t, Head(t.dataQueue), FALSE) EXCEPT !.dataQueue = <<>>]
  ELSE IF t.instructionQueue # <<>> /\ ~(strictlyInOrder /\ potentialDataMissesPending)
       THEN [Begun(t, Head(t.instructionQueue), TRUE) EXCEPT !.instructionQueue = <<>>]
  ELSE t

FinishAccess(t) ==
  [t EXCEPT !.finishedAccess = t.currentIdAccessed, !.waitingForJoin = TRUE,
            !.currentIdAccessed = None]

SingleTopologyCycle(t, potentialDataMissesPending, strictlyInOrder) ==
  LET served == NextServed(t, potentialDataMissesPending, strictlyInOrder)
      cycled(m) == [served EXCEPT !.memory = m, !.waitingForJoin = FALSE,
                                  !.finishedAccess = None]
  IN  {IF served.currentIdAccessed # None /\ ~IsBusy(m)
       THEN FinishAccess(cycled(m)) ELSE cycled(m) : m \in Cycle(served.memory)}

\* Whether access id has finished; Acknowledged forgets that it has.
HasFinished(t, id) == id # None /\ t.finishedAccess = id
Acknowledged(t) == [t EXCEPT !.finishedAccess = None]

SingleHasUnfinishedAccesses(t) ==
  t.currentIdAccessed # None \/ t.dataQueue # <<>> \/ t.instructionQueue # <<>>
SingleIsBusyAccessingInstr(t) ==
  t.instructionQueue # <<>> \/ (t.currentIdAccessed # None /\ t.currentIdAccessesInstr)
SingleIsBusyAccessingData(t) ==
  t.dataQueue # <<>> \/ (t.currentIdAccessed # None /\ ~t.currentIdAccessesInstr)

\* The memory keeps the pipeline from doing anything while an event lasts whose
\* worst case is assumed locally.
SingleShouldPipelineStall(t) ==
  LET b == t.memory
  IN  \/ /\ "BUSBLOCKING" \in StallOnLocalWorstType
         /\ b.delayedAccess /\ ~SDRAMBusy(b.memory)
      \/ /\ "DRAMREFRESH" \in StallOnLocalWorstType
         /\ b.memory.accessPhase = "REFRESH"

\* What the assertions of fastForward() ask for.
SingleTopologyForwardAssertion(t) ==
  IsBusy(t.memory) => t.currentIdAccessed # None /\ ForwardAssertion(t.memory)
SingleTopologyFastForward(t) ==
  IF IsBusy(t.memory) THEN {[t EXCEPT !.memory = m] : m \in FastForward(t.memory)}
  ELSE {t}

\* Ids count from currentId: Rebased gives equal topologies equal ids.
Rebase(id, t, base) == IF id = None THEN None ELSE id - t.currentId + base
SingleRebased(t, base) ==
  LET queue(q) == [i \in DOMAIN q |-> [q[i] EXCEPT !.id = Rebase(@, t, base)]]
  IN  [t EXCEPT !.instructionQueue = queue(@), !.dataQueue = queue(@),
                !.currentIdAccessed = Rebase(@, t, base),
                !.finishedAccess = Rebase(@, t, base), !.currentId = base]

\* Mutant: only the memories are compared.
TopologiesJoinableAnyIds(t, u) == Joinable(t.memory, u.memory)

\* Rebased topologies may be joined; the kind of the running access and
\* whether they wait for a join are not looked at.
SingleTopologiesJoinable(t, u) ==
  /\ Joinable(t.memory, u.memory)
  /\ t.instructionQueue = u.instructionQueue /\ t.dataQueue = u.dataQueue
  /\ t.currentIdAccessed = u.currentIdAccessed
  /\ t.finishedAccess = u.finishedAccess
SingleJoinTopologies(t, u) ==
  [t EXCEPT !.memory = JoinMemory(@, u.memory),
            !.waitingForJoin = @ \/ u.waitingForJoin]
=============================================================================
