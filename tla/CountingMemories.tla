--------------------------- MODULE CountingMemories ---------------------------
(***************************************************************************)
(* The wrappers that count, for the path analysis, what happens at the     *)
(* memory on one edge of the state graph: AccessCounterCyclingMemory,      *)
(* BusyCycleCounterCyclingMemory, BlockingCounterCyclingMemory and         *)
(* ConcAccessCounterWrapper, as dispatchSharedBus() stacks them around a   *)
(* background memory for the co-runner-sensitive analysis.  Without it     *)
(* only the accesses are counted.                                          *)
(*                                                                         *)
(* Each counter keeps one bound only: an upper one of accesses and busy    *)
(* cycles, a lower one of the blocked cycles and of the accesses by which  *)
(* the other cores have blocked.  None of them counts what fastForward()   *)
(* skips; the wrapped memories keep that apart.                            *)
(***************************************************************************)
EXTENDS CyclingMemories

CONSTANT AccessLatency  \* cycles for which one access of another core blocks

ASSUME AccessLatencyAssumption == AccessLatency \in Nat \ {0}

CountingType ==
  [memory : BlockingType, accessCounter : Nat, busyCycleCounter : Nat,
   blockingCounter : Nat, concAccesses : Nat]

CountingIdle ==
  [memory |-> Idle, accessCounter |-> 0, busyCycleCounter |-> 0,
   blockingCounter |-> 0, concAccesses |-> 0]

CountedAccess(c, numWords) ==
  [c EXCEPT !.memory = AnnounceAccess(@, numWords), !.accessCounter = @ + 1]

\* The cycle from c to the wrapped memory m is one more blocked cycle.
IsBlockedLonger(c, m) == m.addedBlocking > c.memory.addedBlocking

\* It is the first one of another access of some other core.
StartsConc(m) == m.addedBlocking % AccessLatency = 1

\* A cycle of c that leads the wrapped memory to m.  The cycles of blocking are
\* none of the memory that is wrapped innermost, which alone is asked whether it
\* is busy, before its cycle.
CountedAs(c, m) ==
  [c EXCEPT
     !.memory = m,
     !.busyCycleCounter = IF SDRAMBusy(c.memory.memory) THEN @ + 1 ELSE @,
     !.blockingCounter = IF IsBlockedLonger(c, m) THEN @ + 1 ELSE @,
     !.concAccesses = IF IsBlockedLonger(c, m) /\ StartsConc(m) THEN @ + 1 ELSE @]
CountedCycle(c) == {CountedAs(c, m) : m \in Cycle(c.memory)}

CountedForward(c) == {[c EXCEPT !.memory = m] : m \in FastForward(c.memory)}

\* All counters may be joined.
CountedJoinable(c, d) == Joinable(c.memory, d.memory)

LesserCount(m, n) == IF m <= n THEN m ELSE n
GreaterCount(m, n) == IF m >= n THEN m ELSE n
CountedJoin(c, d) ==
  [memory |-> JoinMemory(c.memory, d.memory),
   accessCounter |-> GreaterCount(c.accessCounter, d.accessCounter),
   busyCycleCounter |-> GreaterCount(c.busyCycleCounter, d.busyCycleCounter),
   blockingCounter |-> LesserCount(c.blockingCounter, d.blockingCounter),
   concAccesses |-> LesserCount(c.concAccesses, d.concAccesses)]

-----------------------------------------------------------------------------
(* What the weight providers of the path analysis read *)

UbAccesses(c) == c.accessCounter
LbBlockingCycles(c) == c.blockingCounter
LbConcAccesses(c) == c.concAccesses
FastForwardedAccessCycles(c) == c.memory.memory.forwarded
FastForwardedBlocking(c) == c.memory.blocking

\* Mutant: the cycles skipped are not counted.
UbAccessCyclesStepped(c) == c.busyCycleCounter

UbAccessCycles(c) == c.busyCycleCounter + FastForwardedAccessCycles(c).ub

\* Bounds on the time of a path that has taken as many cycles as time counts.  The
\* co-runner-sensitive analysis adds the skipped cycles of blocking to the upper
\* one by itself, as many as it finds the path to be blocked for.
LbTime(c, time) == time.lb + FastForwardedAccessCycles(c).lb
UbTime(c, time) == time.ub + FastForwardedAccessCycles(c).ub
UbTimeBlocked(c, time) == UbTime(c, time) + FastForwardedBlocking(c).ub
=============================================================================
