---------------------- MODULE SeparateMemoriesTopology ----------------------
(***************************************************************************)
(* SeparateMemoriesTopology: fetches are served by a private memory, a     *)
(* scratchpad that takes a cycle for a word, and data accesses by the      *)
(* background memory, both at the same time.  The interface is that of     *)
(* SingleMemoryTopology; ids are compared by how far they lie behind       *)
(* currentId, which both kinds of access count up.                         *)
(***************************************************************************)
EXTENDS CyclingMemories, Sequences

Single == INSTANCE SingleMemoryTopology WITH StallOnLocalWorstType <- {}

None == Single!None

EmptySeparateTopology ==
  [instructionMemory |-> FixedIdle, dataMemory |-> Idle, instructionQueue |-> <<>>,
   dataQueue |-> <<>>, currentId |-> 1, currentInstrIdAccessed |-> None,
   currentDataIdAccessed |-> None, finishedInstrAccessId |-> None,
   finishedDataAccessId |-> None]

\* An instruction access overrides the one still queued, a data access is only
\* taken while no other is queued.
SeparateAccessInstr(t, addr, numWords) == Single!SingleAccessInstr(t, addr, numWords)
SeparateAccessData(t, addr, numWords) == Single!SingleAccessData(t, addr, numWords)

\* Each memory that is idle is given the access queued for it.
InstrServed(t) ==
  IF t.currentInstrIdAccessed # None \/ t.instructionQueue = <<>> THEN t
  ELSE LET request == Head(t.instructionQueue)
       IN  [t EXCEPT !.instructionMemory = FixedAccess(@, 0, 1, request.numWords),
                     !.currentInstrIdAccessed = request.id, !.instructionQueue = <<>>]
DataServed(t) ==
  IF t.currentDataIdAccessed # None \/ t.dataQueue = <<>> THEN t
  ELSE LET request == Head(t.dataQueue)
       IN  [t EXCEPT !.dataMemory = AnnounceAccess(@, request.numWords),
                     !.currentDataIdAccessed = request.id, !.dataQueue = <<>>]

FinishInstrAccess(t) ==
  IF t.currentInstrIdAccessed = None \/ FixedBusy(t.instructionMemory) THEN t
  ELSE [t EXCEPT !.finishedInstrAccessId = t.currentInstrIdAccessed,
                 !.currentInstrIdAccessed = None]
FinishDataAccess(t) ==
  IF t.currentDataIdAccessed = None \/ IsBusy(t.dataMemory) THEN t
  ELSE [t EXCEPT !.finishedDataAccessId = t.currentDataIdAccessed,
                 !.currentDataIdAccessed = None]

SeparateTopologyCycle(t) ==
  LET served == DataServed(InstrServed(t))
  IN  {FinishDataAccess(FinishInstrAccess(
         [served EXCEPT !.instructionMemory = FixedCycle(@), !.dataMemory = m,
                        !.finishedInstrAccessId = None, !.finishedDataAccessId = None])) :
         m \in Cycle(served.dataMemory)}

SeparateFinishedInstrAccess(t, id) == id # None /\ t.finishedInstrAccessId = id
SeparateFinishedDataAccess(t, id) == id # None /\ t.finishedDataAccessId = id
SeparateInstrAcknowledged(t) == [t EXCEPT !.finishedInstrAccessId = None]
SeparateDataAcknowledged(t) == [t EXCEPT !.finishedDataAccessId = None]

\* What is queued is not asked for.
SeparateHasUnfinishedAccesses(t) == t.currentInstrIdAccessed # None \/ t.currentDataIdAccessed # None
SeparateIsBusyAccessingInstr(t) == t.instructionQueue # <<>> \/ t.currentInstrIdAccessed # None
SeparateIsBusyAccessingData(t) == t.dataQueue # <<>> \/ t.currentDataIdAccessed # None

\* What the assertions of fastForward() ask for.
SeparateTopologyForwardAssertion(t) ==
  /\ FixedBusy(t.instructionMemory) => t.currentInstrIdAccessed # None
  /\ IsBusy(t.dataMemory) => t.currentDataIdAccessed # None /\ ForwardAssertion(t.dataMemory)

\* A memory may skip ahead if the other has nothing to do: it is not known which of
\* the two would be done first.
SeparateTopologyFastForward(t) ==
  IF SeparateIsBusyAccessingInstr(t) /\ SeparateIsBusyAccessingData(t) THEN {t}
  ELSE IF SeparateIsBusyAccessingInstr(t) /\ FixedBusy(t.instructionMemory)
  THEN {[t EXCEPT !.instructionMemory = FixedFastForward(@)]}
  ELSE IF SeparateIsBusyAccessingData(t) /\ IsBusy(t.dataMemory)
  THEN {[t EXCEPT !.dataMemory = m] : m \in FastForward(t.dataMemory)}
  ELSE {t}

\* Ids count from currentId.
Rebase(id, t, base) == Single!Rebase(id, t, base)
SeparateRebased(t, base) ==
  LET queue(q) == [i \in DOMAIN q |-> [q[i] EXCEPT !.id = Rebase(@, t, base)]]
  IN  [t EXCEPT !.instructionQueue = queue(@), !.dataQueue = queue(@),
                !.currentInstrIdAccessed = Rebase(@, t, base),
                !.currentDataIdAccessed = Rebase(@, t, base),
                !.finishedInstrAccessId = Rebase(@, t, base),
                !.finishedDataAccessId = Rebase(@, t, base), !.currentId = base]

\* Rebased topologies may be joined if they differ in the memories' counters only.
SeparateTopologiesJoinable(t, u) ==
  /\ FixedJoinable(t.instructionMemory, u.instructionMemory)
  /\ Joinable(t.dataMemory, u.dataMemory)
  /\ \A field \in DOMAIN t \ {"instructionMemory", "dataMemory"} : t[field] = u[field]
SeparateJoinTopologies(t, u) ==
  [t EXCEPT !.instructionMemory = FixedJoin(@, u.instructionMemory),
            !.dataMemory = JoinMemory(@, u.dataMemory)]
=============================================================================
