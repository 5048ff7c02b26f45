--------------------------- MODULE CyclingMemories ---------------------------
(***************************************************************************)
(* The cycling memories behind a memory topology.  SimpleSDRAMCyclingMemory*)
(* serves an access in Latency + PerWordLatency * words cycles, after      *)
(* which a refresh may follow; without refreshes (the compositional base   *)
(* bound DRAMREFRESH) it counts as FixedLatencyCyclingMemory does.         *)
(* BlockingCyclingMemory wraps such a memory and adds up to                *)
(* MaxBlockingPerAccess cycles in which the shared bus is taken by others. *)
(*                                                                         *)
(* cycle() and fastForward() return lists of memories: one for each way    *)
(* the hardware may go on.  The operators here return the sets of them.    *)
(***************************************************************************)
EXTENDS Integers, FiniteSets

CONSTANTS Latency, PerWordLatency,  \* of the wrapped memory, in cycles
          DRAMRefreshLatency,       \* the longest refresh
          RefreshesSplit,           \* DRAMREFRESH is not compositional
          MaxBlockingPerAccess,     \* the longest bus blocking
          BlockingSplits            \* SHAREDBUSBLOCKING is not compositional

ASSUME LatencyAssumption ==
  /\ Latency \in Nat \ {0} /\ PerWordLatency \in Nat
  /\ MaxBlockingPerAccess \in Nat
ASSUME SplitAssumption ==
  /\ RefreshesSplit \in BOOLEAN /\ BlockingSplits \in BOOLEAN
\* A refresh of no cycles would never end: see Refreshing below.
ASSUME RefreshAssumption == DRAMRefreshLatency \in Nat \ {0}

-----------------------------------------------------------------------------
(* IntervalCounter<true, true, true>: a count of cycles known up to a lower *)
(* and an upper bound.                                                      *)

CounterType == [lb : Nat, ub : Nat]
Counter(lb, ub) == [lb |-> lb, ub |-> ub]
Zero == Counter(0, 0)

Plus(c, d) == Counter(c.lb + d.lb, c.ub + d.ub)
Advance(c, n) == Plus(c, Counter(n, n))

JoinedCounter(c, d) ==
  Counter(IF c.lb <= d.lb THEN c.lb ELSE d.lb, IF c.ub >= d.ub THEN c.ub ELSE d.ub)

Counts(c) == c.lb .. c.ub

-----------------------------------------------------------------------------
(* SimpleSDRAMCyclingMemory *)

SDRAMType ==
  [accessPhase : {"IDLE", "REFRESH", "ACCESS"}, timeBlocked : Nat,
   hasSeenRefresh : BOOLEAN, forwarded : CounterType]

IdleSDRAM ==
  [accessPhase |-> "IDLE", timeBlocked |-> 0, hasSeenRefresh |-> FALSE,
   forwarded |-> Zero]

SDRAMBusy(m) == m.accessPhase # "IDLE"

SDRAMAccess(m, numWords) ==
  [m EXCEPT !.accessPhase = "ACCESS",
            !.timeBlocked = Latency + PerWordLatency * numWords]

Ended(m) == [m EXCEPT !.accessPhase = "IDLE", !.timeBlocked = 0]

\* Mutant: a refresh that starts with no cycles left.
RefreshingForever(m) == [m EXCEPT !.accessPhase = "REFRESH", !.timeBlocked = 0]

Refreshing(m) ==
  [m EXCEPT !.accessPhase = "REFRESH", !.timeBlocked = DRAMRefreshLatency]

\* One cycle.  A refresh follows an access unless it was counted when the
\* access was fast-forwarded, and may end after any of its cycles.
SDRAMCycle(m) ==
  LET next == [m EXCEPT !.timeBlocked = @ - 1]
      ends == next.timeBlocked = 0
  IN  IF m.timeBlocked = 0 THEN {m}
      ELSE IF m.accessPhase = "ACCESS" /\ ends
      THEN {[Ended(next) EXCEPT !.hasSeenRefresh = FALSE]} \cup
             (IF RefreshesSplit /\ ~m.hasSeenRefresh THEN {Refreshing(next)} ELSE {})
      ELSE IF m.accessPhase = "REFRESH" /\ ends THEN {Ended(next)}
      ELSE {next} \cup
             (IF RefreshesSplit /\ m.accessPhase = "REFRESH" THEN {Ended(next)} ELSE {})

\* Mutant: the cycle that is still to come is counted too.
SkippedAll(m) == m.timeBlocked

\* The cycles skipped: one is left for the next cycle().
Skipped(m) == m.timeBlocked - 1

\* Mutant: the refresh that was counted is not remembered.
LastCycleForgets(m) == [m EXCEPT !.timeBlocked = 1]

\* The last cycle of an access whose refresh has been counted.
LastCycle(m) ==
  [m EXCEPT !.timeBlocked = 1, !.hasSeenRefresh = RefreshesSplit \/ @]

\* Skip to the last cycle of the phase.
SDRAMFastForward(m) ==
  LET skipped == Skipped(m)
      last == LastCycle(m)
  IN  IF m.accessPhase = "ACCESS"
      THEN {[last EXCEPT !.forwarded = Advance(@, skipped)]} \cup
             (IF RefreshesSplit
              THEN {[last EXCEPT !.forwarded =
                       Plus(@, Counter(skipped, skipped + DRAMRefreshLatency))]}
              ELSE {})
      ELSE {[m EXCEPT !.timeBlocked = 1,
                      !.forwarded = Plus(@, Counter(0, skipped))]}

SDRAMJoinable(m, n) == [m EXCEPT !.forwarded = Zero] = [n EXCEPT !.forwarded = Zero]
SDRAMJoin(m, n) == [m EXCEPT !.forwarded = JoinedCounter(@, n.forwarded)]

-----------------------------------------------------------------------------
(* FixedLatencyCyclingMemory: only the cycles left of an access are known. *)

FixedType == [timeBlocked : Nat, forwarded : CounterType]

FixedIdle == [timeBlocked |-> 0, forwarded |-> Zero]
FixedBusy(m) == m.timeBlocked > 0
FixedAccess(m, latency, perWordLatency, numWords) ==
  [m EXCEPT !.timeBlocked = latency + numWords * perWordLatency]
FixedCycle(m) == [m EXCEPT !.timeBlocked = IF FixedBusy(m) THEN @ - 1 ELSE @]
FixedFastForward(m) ==
  [m EXCEPT !.timeBlocked = 1, !.forwarded = Advance(@, m.timeBlocked - 1)]
FixedJoinable(m, n) == m.timeBlocked = n.timeBlocked
FixedJoin(m, n) == [m EXCEPT !.forwarded = JoinedCounter(@, n.forwarded)]

-----------------------------------------------------------------------------
(* BlockingCyclingMemory *)

BlockingType ==
  [memory : SDRAMType, delayedAccess : BOOLEAN, addedBlocking : Nat, blocking : CounterType]

Idle ==
  [memory |-> IdleSDRAM, delayedAccess |-> FALSE, addedBlocking |-> 0,
   blocking |-> Zero]

IsBusy(b) == b.delayedAccess \/ SDRAMBusy(b.memory)

AnnounceAccess(b, numWords) ==
  [b EXCEPT !.memory = SDRAMAccess(@, numWords), !.delayedAccess = TRUE]

\* Either the access stays blocked for one more cycle, or it is done.
PerformSplit(b) ==
  {[b EXCEPT !.delayedAccess = FALSE,
             !.addedBlocking = IF b.delayedAccess THEN 0 ELSE @]} \cup
    (IF b.delayedAccess /\ BlockingSplits /\ b.addedBlocking < MaxBlockingPerAccess
     THEN {[b EXCEPT !.addedBlocking = @ + 1]} ELSE {})

Cycle(b) ==
  UNION {LET c == [b EXCEPT !.memory = m]
         IN  IF SDRAMBusy(m) THEN {c} ELSE PerformSplit(c) :
           m \in SDRAMCycle(b.memory)}

\* The assertions that fastForward() makes of a busy memory.
ForwardAssertion(b) ==
  /\ b.delayedAccess
  /\ IF SDRAMBusy(b.memory)
     THEN /\ b.memory.timeBlocked > 0
          /\ BlockingSplits => b.addedBlocking = 0
     ELSE BlockingSplits

\* Nothing of the budget is left, most cycles of which may have been used.
BudgetSpent(b, most) ==
  [b EXCEPT !.addedBlocking = MaxBlockingPerAccess,
            !.blocking = Plus(@, Counter(0, most))]

\* Skip the wrapped memory's phase and all the blocking that may follow, or
\* what is left of the blocking.
FastForward(b) ==
  IF SDRAMBusy(b.memory)
  THEN {LET c == [b EXCEPT !.memory = m]
        IN  IF BlockingSplits THEN BudgetSpent(c, MaxBlockingPerAccess) ELSE c :
          m \in SDRAMFastForward(b.memory)}
  ELSE {BudgetSpent(b, MaxBlockingPerAccess - b.addedBlocking)}

Joinable(b, c) ==
  /\ b.addedBlocking = c.addedBlocking
  /\ b.delayedAccess = c.delayedAccess
  /\ SDRAMJoinable(b.memory, c.memory)
JoinMemory(b, c) ==
  [b EXCEPT !.blocking = JoinedCounter(@, c.blocking),
            !.memory = SDRAMJoin(@, c.memory)]
=============================================================================
