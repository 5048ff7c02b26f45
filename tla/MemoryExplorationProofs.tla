------------------------ MODULE MemoryExplorationProofs ------------------------
(***************************************************************************)
(* Proofs about MemoryExploration, for all latencies, budgets and options. *)
(*                                                                         *)
(* The invariant says of every pending state what may still come: k cycles *)
(* of the wrapped memory, then n cycles of blocking.  A state promises an  *)
(* access if it covers it after some k and n.  Every access the hardware   *)
(* can make is promised by a pending state or covered by a waiting one.    *)
(***************************************************************************)
EXTENDS MemoryExploration, TLAPS

R == IF RefreshesSplit THEN DRAMRefreshLatency ELSE 0
B == IF BlockingSplits THEN MaxBlockingPerAccess ELSE 0

-----------------------------------------------------------------------------
(* The wrapped memory *)

\* Cycles are left exactly while it is busy.
SDRAMOK(m) ==
  /\ m \in SDRAMType
  /\ m.timeBlocked = 0 <=> m.accessPhase = "IDLE"
  /\ m.hasSeenRefresh => RefreshesSplit /\ m.accessPhase = "ACCESS" /\ m.timeBlocked = 1
  /\ m.accessPhase = "REFRESH" => RefreshesSplit /\ m.timeBlocked <= R

\* The numbers of cycles for which it may still be busy.
MemoryCycles(m) ==
  IF m.accessPhase = "ACCESS"
  THEN m.timeBlocked .. m.timeBlocked + (IF m.hasSeenRefresh THEN 0 ELSE R)
  ELSE IF m.accessPhase = "REFRESH" THEN 1 .. m.timeBlocked ELSE {0}
Busy(m) == IF SDRAMBusy(m) THEN 1 ELSE 0

\* A cycle leaves an idle memory alone, ends a phase, turns the end of an
\* access into a refresh, or counts its phase down.
LEMMA SDRAMCycleCases ==
  ASSUME NEW m, SDRAMOK(m), NEW n \in SDRAMCycle(m)
  PROVE  /\ n \in SDRAMType /\ n.forwarded = m.forwarded /\ ~n.hasSeenRefresh
         /\ \/ ~SDRAMBusy(m) /\ n = m
            \/ SDRAMBusy(m) /\ m.timeBlocked = 1 /\ n.accessPhase = "IDLE" /\ n.timeBlocked = 0
            \/ /\ m.accessPhase = "ACCESS" /\ m.timeBlocked = 1 /\ RefreshesSplit
               /\ ~m.hasSeenRefresh
               /\ n.accessPhase = "REFRESH" /\ n.timeBlocked = DRAMRefreshLatency
            \/ /\ SDRAMBusy(m) /\ m.timeBlocked > 1
               /\ n.accessPhase = m.accessPhase /\ n.timeBlocked = m.timeBlocked - 1
            \/ /\ m.accessPhase = "REFRESH"
               /\ n.accessPhase = "IDLE" /\ n.timeBlocked = 0
<1>0. /\ m \in SDRAMType
      /\ m.timeBlocked = 0 <=> m.accessPhase = "IDLE"
      /\ m.hasSeenRefresh => RefreshesSplit /\ m.accessPhase = "ACCESS" /\ m.timeBlocked = 1
      /\ DRAMRefreshLatency \in Nat
  BY RefreshAssumption DEF SDRAMOK
<1>1. CASE m.timeBlocked = 0
  BY <1>0, <1>1 DEF SDRAMCycle, SDRAMBusy, SDRAMType
<1>2. CASE m.timeBlocked # 0
  <2> DEFINE next == [m EXCEPT !.timeBlocked = @ - 1]
             done == [next EXCEPT !.accessPhase = "IDLE", !.timeBlocked = 0]
             over == [done EXCEPT !.hasSeenRefresh = FALSE]
             refresh == [next EXCEPT !.accessPhase = "REFRESH",
                                     !.timeBlocked = DRAMRefreshLatency]
  <2>1. /\ next \in SDRAMType /\ next.forwarded = m.forwarded
        /\ next.accessPhase = m.accessPhase /\ next.timeBlocked = m.timeBlocked - 1
        /\ next.hasSeenRefresh = m.hasSeenRefresh
    BY <1>0, <1>2 DEF SDRAMType
  <2> HIDE DEF next
  <2>2. /\ done \in SDRAMType /\ done.forwarded = m.forwarded
        /\ done.accessPhase = "IDLE" /\ done.timeBlocked = 0
        /\ done.hasSeenRefresh = m.hasSeenRefresh
    BY <2>1 DEF SDRAMType
  <2> HIDE DEF done
  <2>3. /\ over \in SDRAMType /\ over.forwarded = m.forwarded
        /\ over.accessPhase = "IDLE" /\ over.timeBlocked = 0 /\ ~over.hasSeenRefresh
    BY <2>2 DEF SDRAMType
  <2> HIDE DEF over
  <2>4. /\ refresh \in SDRAMType /\ refresh.forwarded = m.forwarded
        /\ refresh.accessPhase = "REFRESH" /\ refresh.timeBlocked = DRAMRefreshLatency
        /\ refresh.hasSeenRefresh = m.hasSeenRefresh
    BY <1>0, <2>1 DEF SDRAMType
  <2> HIDE DEF refresh
  <2>5. \/ m.accessPhase = "ACCESS" /\ m.timeBlocked = 1 /\ n = over
        \/ /\ m.accessPhase = "ACCESS" /\ m.timeBlocked = 1 /\ n = refresh
           /\ RefreshesSplit /\ ~m.hasSeenRefresh
        \/ m.accessPhase = "REFRESH" /\ n = done
        \/ m.timeBlocked > 1 /\ n = next
    BY <1>0, <1>2, <2>1 DEF SDRAMCycle, Ended, Refreshing, next, done, over, refresh, SDRAMType
  <2>6. QED
    BY <1>0, <2>1, <2>2, <2>3, <2>4, <2>5 DEF SDRAMBusy, SDRAMType
<1>3. QED
  BY <1>1, <1>2

\* A cycle leaves it one cycle less, and no number of cycles is given up.
LEMMA SDRAMCycleOK ==
  ASSUME NEW m, SDRAMOK(m), NEW n \in SDRAMCycle(m)
  PROVE  /\ SDRAMOK(n)
         /\ \A k \in MemoryCycles(n) : k + Busy(m) \in MemoryCycles(m)
  BY SDRAMCycleCases, RefreshAssumption
     DEF SDRAMOK, SDRAMType, SDRAMBusy, Busy, R, MemoryCycles

\* Whatever the memory may still take, some outcome of the cycle takes the
\* rest.
LEMMA SDRAMCycleMeets ==
  ASSUME NEW m, SDRAMOK(m), NEW k \in MemoryCycles(m)
  PROVE  \E n \in SDRAMCycle(m) : k - Busy(m) \in MemoryCycles(n)
<1> DEFINE next == [m EXCEPT !.timeBlocked = @ - 1]
           done == [next EXCEPT !.accessPhase = "IDLE", !.timeBlocked = 0]
           over == [done EXCEPT !.hasSeenRefresh = FALSE]
           refresh == [next EXCEPT !.accessPhase = "REFRESH",
                                   !.timeBlocked = DRAMRefreshLatency]
<1>0. /\ m \in SDRAMType /\ R \in Nat /\ m.timeBlocked \in Nat /\ k \in Nat
      /\ m.timeBlocked = 0 <=> m.accessPhase = "IDLE"
      /\ m.hasSeenRefresh => RefreshesSplit /\ m.accessPhase = "ACCESS" /\ m.timeBlocked = 1
      /\ DRAMRefreshLatency \in Nat
  BY RefreshAssumption DEF SDRAMOK, R, SDRAMType, MemoryCycles
<1>n. /\ next.accessPhase = m.accessPhase /\ next.timeBlocked = m.timeBlocked - 1
      /\ next.hasSeenRefresh = m.hasSeenRefresh
      /\ done.accessPhase = "IDLE" /\ over.accessPhase = "IDLE"
      /\ refresh.accessPhase = "REFRESH" /\ refresh.timeBlocked = DRAMRefreshLatency
  BY <1>0 DEF SDRAMType
<1>c. SDRAMCycle(m) =
        IF m.timeBlocked = 0 THEN {m}
        ELSE IF m.accessPhase = "ACCESS" /\ next.timeBlocked = 0
        THEN {over} \cup (IF RefreshesSplit /\ ~m.hasSeenRefresh THEN {refresh} ELSE {})
        ELSE IF m.accessPhase = "REFRESH" /\ next.timeBlocked = 0 THEN {done}
        ELSE {next} \cup
               (IF RefreshesSplit /\ m.accessPhase = "REFRESH" THEN {done} ELSE {})
  BY DEF SDRAMCycle, Ended, Refreshing
<1> HIDE DEF next, done, over, refresh
<1>1. CASE m.timeBlocked = 0
  BY <1>0, <1>c, <1>1 DEF SDRAMBusy, MemoryCycles, Busy
<1>2. CASE m.accessPhase = "ACCESS" /\ m.timeBlocked = 1
  <2>1. CASE k = 1
    BY <1>0, <1>n, <1>c, <1>2, <2>1 DEF MemoryCycles, Busy, SDRAMBusy
  <2>2. CASE k # 1
    <3>1. RefreshesSplit /\ ~m.hasSeenRefresh /\ k \in 2 .. 1 + DRAMRefreshLatency
      BY <1>0, <1>2, <2>2 DEF MemoryCycles, R
    <3>2. refresh \in SDRAMCycle(m)
      BY <1>0, <1>n, <1>c, <1>2, <3>1
    <3>3. k - Busy(m) \in MemoryCycles(refresh)
      BY <1>0, <1>n, <1>2, <3>1 DEF MemoryCycles, Busy, SDRAMBusy
    <3>4. QED
      BY <3>2, <3>3
  <2>3. QED
    BY <2>1, <2>2
<1>3. CASE m.accessPhase = "REFRESH" /\ k = 1
  <2>1. RefreshesSplit
    BY <1>3 DEF SDRAMOK
  <2>2. done \in SDRAMCycle(m)
    BY <1>0, <1>n, <1>c, <1>3, <2>1
  <2>3. k - Busy(m) \in MemoryCycles(done)
    BY <1>n, <1>3 DEF MemoryCycles, Busy, SDRAMBusy
  <2>4. QED
    BY <2>2, <2>3
<1>4. CASE m.timeBlocked > 1 /\ (m.accessPhase = "REFRESH" => k > 1)
  <2>1. m.accessPhase \in {"ACCESS", "REFRESH"}
    BY <1>0, <1>4 DEF SDRAMType
  <2>2. next \in SDRAMCycle(m)
    BY <1>0, <1>n, <1>c, <1>4
  <2>3. k - Busy(m) \in MemoryCycles(next)
    BY <1>0, <1>n, <1>4, <2>1 DEF MemoryCycles, Busy, SDRAMBusy
  <2>4. QED
    BY <2>2, <2>3
<1>5. QED
  BY <1>0, <1>1, <1>2, <1>3, <1>4 DEF SDRAMType, MemoryCycles

\* Skipping ahead leaves one cycle, and counts the others.
LEMMA SDRAMForwardOK ==
  ASSUME NEW m, SDRAMOK(m), SDRAMBusy(m), ~m.hasSeenRefresh,
         NEW n \in SDRAMFastForward(m)
  PROVE  /\ SDRAMOK(n) /\ SDRAMBusy(n) /\ n.timeBlocked = 1
         /\ n.accessPhase = "ACCESS" /\ RefreshesSplit => n.hasSeenRefresh
         /\ MemoryCycles(n) = {1}
         /\ \E k \in MemoryCycles(m) : m.forwarded.lb + k <= n.forwarded.lb + 1
         /\ \E k \in MemoryCycles(m) : n.forwarded.ub + 1 <= m.forwarded.ub + k
<1>0. /\ m \in SDRAMType /\ m.timeBlocked \in Nat \ {0} /\ R \in Nat
      /\ m.forwarded \in CounterType /\ m.accessPhase \in {"ACCESS", "REFRESH"}
      /\ DRAMRefreshLatency \in Nat
  BY RefreshAssumption DEF SDRAMOK, R, SDRAMType, SDRAMBusy
<1>1. CASE m.accessPhase = "REFRESH"
  <2>1. n = [m EXCEPT !.timeBlocked = 1, 
                      !.forwarded = Plus(@, Counter(0, Skipped(m)))]
    BY <1>1 DEF SDRAMFastForward
  <2>2. /\ n \in SDRAMType /\ n.accessPhase = m.accessPhase /\ n.timeBlocked = 1
        /\ n.hasSeenRefresh = m.hasSeenRefresh
        /\ n.forwarded.lb = m.forwarded.lb
        /\ n.forwarded.ub = m.forwarded.ub + m.timeBlocked - 1
    <3> DEFINE f == Plus(m.forwarded, Counter(0, Skipped(m)))
    <3>1. f = [lb |-> m.forwarded.lb, ub |-> m.forwarded.ub + m.timeBlocked - 1]
      BY <1>0 DEF CounterType, Plus, Counter, Skipped
    <3>2. /\ f \in CounterType /\ f.lb = m.forwarded.lb
          /\ f.ub = m.forwarded.ub + m.timeBlocked - 1
      BY <1>0, <3>1 DEF CounterType
    <3> HIDE DEF f
    <3>3. n = [m EXCEPT !.timeBlocked = 1, !.forwarded = f]
      BY <2>1 DEF f
    <3>4. QED
      BY <1>0, <3>2, <3>3 DEF SDRAMType
  <2>3. SDRAMOK(n) /\ SDRAMBusy(n) /\ MemoryCycles(n) = {1}
    BY <1>0, <1>1, <2>2 DEF SDRAMOK, SDRAMBusy, MemoryCycles, R
  <2>4. 1 \in MemoryCycles(m) /\ m.timeBlocked \in MemoryCycles(m)
    BY <1>0, <1>1 DEF MemoryCycles
  <2>5. QED
    BY <1>0, <1>1, <2>2, <2>3, <2>4 DEF CounterType
<1>2. CASE m.accessPhase = "ACCESS"
  <2>1. PICK more \in {0, R} :
          n = [LastCycle(m) EXCEPT
                 !.forwarded = Plus(@, Counter(Skipped(m), Skipped(m) + more))]
    BY <1>0, <1>2 DEF SDRAMFastForward, Advance, R, Skipped
  <2>2. /\ n \in SDRAMType /\ n.accessPhase = m.accessPhase /\ n.timeBlocked = 1
        /\ n.hasSeenRefresh = RefreshesSplit
        /\ n.forwarded.lb = m.forwarded.lb + m.timeBlocked - 1
        /\ n.forwarded.ub = m.forwarded.ub + m.timeBlocked - 1 + more
    <3>1. /\ LastCycle(m) \in SDRAMType /\ LastCycle(m).accessPhase = m.accessPhase
          /\ LastCycle(m).timeBlocked = 1 /\ LastCycle(m).hasSeenRefresh = RefreshesSplit
          /\ LastCycle(m).forwarded = m.forwarded
      BY <1>0, SplitAssumption DEF LastCycle, SDRAMType
    <3>2. QED
      BY <1>0, <2>1, <3>1 DEF SDRAMType, CounterType, Plus, Counter, Skipped
  <2>3. SDRAMOK(n) /\ SDRAMBusy(n) /\ MemoryCycles(n) = {1}
    BY <1>0, <1>2, <2>2, SplitAssumption DEF SDRAMOK, SDRAMBusy, MemoryCycles, R
  <2>4. m.timeBlocked \in MemoryCycles(m) /\ m.timeBlocked + more \in MemoryCycles(m)
    BY <1>0, <1>2 DEF MemoryCycles
  <2>5. QED
    BY <1>0, <1>2, <2>2, <2>3, <2>4 DEF CounterType
<1>3. QED
  BY <1>0, <1>1, <1>2

\* Whatever a busy memory may still take, some outcome of fastForward() has
\* counted it all but for its last cycle.
LEMMA SDRAMForwardMeets ==
  ASSUME NEW m, SDRAMOK(m), SDRAMBusy(m), ~m.hasSeenRefresh, NEW k \in MemoryCycles(m)
  PROVE  \E n \in SDRAMFastForward(m) :
           /\ n.forwarded.lb + 1 <= m.forwarded.lb + k
           /\ m.forwarded.ub + k <= n.forwarded.ub + 1
<1>0. /\ m \in SDRAMType /\ m.timeBlocked \in Nat \ {0} /\ R \in Nat
      /\ m.forwarded \in CounterType /\ m.accessPhase \in {"ACCESS", "REFRESH"}
      /\ DRAMRefreshLatency \in Nat
  BY RefreshAssumption DEF SDRAMOK, R, SDRAMType, SDRAMBusy
<1>1. CASE m.accessPhase = "REFRESH"
  <2> DEFINE n == [m EXCEPT !.timeBlocked = 1,
                            !.forwarded = Plus(@, Counter(0, Skipped(m)))]
  <2>1. n \in SDRAMFastForward(m)
    BY <1>1 DEF SDRAMFastForward
  <2>2. /\ n.forwarded.lb = m.forwarded.lb
        /\ n.forwarded.ub = m.forwarded.ub + m.timeBlocked - 1
    BY <1>0 DEF SDRAMType, CounterType, Plus, Counter, Skipped
  <2>3. k \in 1 .. m.timeBlocked
    BY <1>1 DEF MemoryCycles
  <2> HIDE DEF n
  <2>4. QED
    BY <1>0, <2>1, <2>2, <2>3 DEF CounterType
<1>2. CASE m.accessPhase = "ACCESS"
  <2> DEFINE n == [LastCycle(m) EXCEPT
                     !.forwarded = Plus(@, Counter(Skipped(m), Skipped(m) + R))]
  <2>1. n \in SDRAMFastForward(m)
    BY <1>0, <1>2 DEF SDRAMFastForward, Advance, R, Skipped
  <2>2. /\ n.forwarded.lb = m.forwarded.lb + m.timeBlocked - 1
        /\ n.forwarded.ub = m.forwarded.ub + m.timeBlocked - 1 + R
    <3>1. LastCycle(m) \in SDRAMType /\ LastCycle(m).forwarded = m.forwarded
      BY <1>0, SplitAssumption DEF LastCycle, SDRAMType
    <3>2. QED
      BY <1>0, <3>1 DEF SDRAMType, CounterType, Plus, Counter, Skipped
  <2>3. k \in m.timeBlocked .. m.timeBlocked + R
    BY <1>2 DEF MemoryCycles
  <2> HIDE DEF n
  <2>4. QED
    BY <1>0, <2>1, <2>2, <2>3 DEF CounterType
<1>3. QED
  BY <1>0, <1>1, <1>2

-----------------------------------------------------------------------------
(* The memory on the shared bus *)

\* An access is under way.  Fast-forwarding grants the whole budget at once, and
\* leaves the memory in its last cycle.
BlockingOK(b) ==
  /\ b \in BlockingType /\ SDRAMOK(b.memory)
  /\ b.delayedAccess /\ b.addedBlocking <= B
  /\ SDRAMBusy(b.memory) \/ b.addedBlocking >= 1
  /\ SDRAMBusy(b.memory) /\ b.addedBlocking > 0 =>
       /\ b.addedBlocking = B /\ b.memory.timeBlocked = 1
       /\ b.memory.accessPhase = "ACCESS" /\ RefreshesSplit => b.memory.hasSeenRefresh

\* It has not been fast-forwarded in this phase.
Forwardable(b) ==
  ~b.memory.hasSeenRefresh /\ (SDRAMBusy(b.memory) => b.addedBlocking = 0)

DoneOK(b) ==
  /\ b \in BlockingType /\ SDRAMOK(b.memory) /\ ~SDRAMBusy(b.memory)
  /\ ~b.delayedAccess /\ b.addedBlocking = 0

\* The cycles of blocking that may still come; the one that comes next has been
\* counted already.
BlockedAlready(b) == IF b.delayedAccess /\ ~SDRAMBusy(b.memory) THEN 1 ELSE 0
BlockingCycles(b) ==
  IF b.delayedAccess
  THEN BlockedAlready(b) .. B - b.addedBlocking + BlockedAlready(b) ELSE {0}

\* Both bounds on what may be split are natural numbers.
LEMMA BudgetNat == B \in Nat /\ R \in Nat
  BY LatencyAssumption, RefreshAssumption DEF B, R

\* What becomes of the bus when the wrapped memory has taken its cycle.
LEMMA CycleCases ==
  ASSUME NEW b, BlockingOK(b), NEW c \in Cycle(b)
  PROVE  \E m \in SDRAMCycle(b.memory) :
           /\ c \in BlockingType /\ c.memory = m /\ c.blocking = b.blocking
           /\ \/ /\ SDRAMBusy(m) /\ c.delayedAccess
                 /\ c.addedBlocking = b.addedBlocking
              \/ ~SDRAMBusy(m) /\ ~c.delayedAccess /\ c.addedBlocking = 0
              \/ /\ ~SDRAMBusy(m) /\ c.delayedAccess /\ b.addedBlocking < B
                 /\ c.addedBlocking = b.addedBlocking + 1
<1>0. /\ b \in BlockingType /\ b.delayedAccess /\ SDRAMOK(b.memory)
      /\ b.addedBlocking \in Nat /\ B \in Nat
  BY BudgetNat DEF BlockingOK, BlockingType
<1>1. PICK m \in SDRAMCycle(b.memory) :
        c \in (IF SDRAMBusy(m) THEN {[b EXCEPT !.memory = m]}
                               ELSE PerformSplit([b EXCEPT !.memory = m]))
  BY DEF Cycle
<1> DEFINE d == [b EXCEPT !.memory = m]
<1>2. m \in SDRAMType
  BY <1>0, SDRAMCycleOK DEF SDRAMOK
<1>3. /\ d \in BlockingType /\ d.memory = m /\ d.blocking = b.blocking
      /\ d.delayedAccess /\ d.addedBlocking = b.addedBlocking
  BY <1>0, <1>2 DEF BlockingType
<1> HIDE DEF d
<1>4. CASE SDRAMBusy(m)
  BY <1>0, <1>1, <1>3, <1>4 DEF d
<1>5. CASE ~SDRAMBusy(m)
  <2>1. c \in PerformSplit(d)
    BY <1>1, <1>5 DEF d
  <2>2. CASE c = [d EXCEPT !.delayedAccess = FALSE, !.addedBlocking = 0]
    BY <1>3, <1>5, <2>2 DEF BlockingType
  <2>3. CASE /\ BlockingSplits /\ d.addedBlocking < MaxBlockingPerAccess
             /\ c = [d EXCEPT !.addedBlocking = @ + 1]
    BY <1>0, <1>3, <1>5, <2>3 DEF BlockingType, B
  <2>4. QED
    BY <1>3, <2>1, <2>2, <2>3 DEF PerformSplit
<1>6. QED
  BY <1>4, <1>5

\* A cycle keeps the memory in order; only one in which nothing but the bus
\* blocks counts as blocked.
LEMMA CycleOK ==
  ASSUME NEW b, BlockingOK(b), NEW c \in Cycle(b)
  PROVE  /\ c \in BlockingType /\ c.blocking = b.blocking
         /\ c.memory.forwarded = b.memory.forwarded
         /\ IF IsBusy(c) THEN BlockingOK(c) /\ Forwardable(c) ELSE DoneOK(c)
         /\ BlockedAlready(c) = 1 => b.addedBlocking < B /\ c.addedBlocking = b.addedBlocking + 1
         /\ BlockedAlready(c) = 0 => c.addedBlocking <= b.addedBlocking
         /\ BlockedAlready(c) = 0 /\ IsBusy(c) => c.addedBlocking = b.addedBlocking
<1>1. PICK m \in SDRAMCycle(b.memory) :
           /\ c \in BlockingType /\ c.memory = m /\ c.blocking = b.blocking
           /\ \/ /\ SDRAMBusy(m) /\ c.delayedAccess
                 /\ c.addedBlocking = b.addedBlocking
              \/ ~SDRAMBusy(m) /\ ~c.delayedAccess /\ c.addedBlocking = 0
              \/ /\ ~SDRAMBusy(m) /\ c.delayedAccess /\ b.addedBlocking < B
                 /\ c.addedBlocking = b.addedBlocking + 1
  BY CycleCases
<1>2. SDRAMOK(m) /\ m.forwarded = b.memory.forwarded /\ ~m.hasSeenRefresh
  BY SDRAMCycleOK, SDRAMCycleCases DEF BlockingOK
<1>3. b.addedBlocking \in Nat /\ B \in Nat /\ b.addedBlocking <= B
  BY BudgetNat DEF BlockingOK, BlockingType
<1>4. SDRAMBusy(m) => b.addedBlocking = 0
  <2> SUFFICES ASSUME SDRAMBusy(m), b.addedBlocking # 0 PROVE FALSE
    OBVIOUS
  <2>1. ~SDRAMBusy(b.memory) => m = b.memory
    BY SDRAMCycleCases DEF BlockingOK, SDRAMBusy
  <2>2. SDRAMBusy(b.memory)
    BY <2>1
  <2>3. /\ b.memory.timeBlocked = 1
        /\ b.memory.accessPhase = "ACCESS" /\ RefreshesSplit => b.memory.hasSeenRefresh
    BY <1>3, <2>2 DEF BlockingOK
  <2>4. QED
    BY <2>3, SDRAMCycleCases DEF BlockingOK, SDRAMBusy
<1>5. CASE SDRAMBusy(m)
  BY <1>1, <1>2, <1>3, <1>4, <1>5
     DEF BlockingOK, IsBusy, Forwardable, BlockedAlready
<1>6. CASE ~SDRAMBusy(m) /\ ~c.delayedAccess /\ c.addedBlocking = 0
  BY <1>1, <1>2, <1>3, <1>6 DEF DoneOK, IsBusy, BlockedAlready
<1>7. CASE /\ ~SDRAMBusy(m) /\ c.delayedAccess /\ b.addedBlocking < B
           /\ c.addedBlocking = b.addedBlocking + 1
  BY <1>1, <1>2, <1>3, <1>7 DEF BlockingOK, IsBusy, Forwardable, BlockedAlready
<1>8. QED
  BY <1>1, <1>5, <1>6, <1>7

\* What may come after a cycle might have come before it, one cycle later.
LEMMA CycleLeaves ==
  ASSUME NEW b, BlockingOK(b), NEW c \in Cycle(b),
         NEW k \in MemoryCycles(c.memory), NEW n \in BlockingCycles(c)
  PROVE  /\ k + Busy(b.memory) \in MemoryCycles(b.memory)
         /\ n + 1 - Busy(b.memory) \in BlockingCycles(b)
<1>1. PICK m \in SDRAMCycle(b.memory) :
           /\ c \in BlockingType /\ c.memory = m /\ c.blocking = b.blocking
           /\ \/ /\ SDRAMBusy(m) /\ c.delayedAccess
                 /\ c.addedBlocking = b.addedBlocking
              \/ ~SDRAMBusy(m) /\ ~c.delayedAccess /\ c.addedBlocking = 0
              \/ /\ ~SDRAMBusy(m) /\ c.delayedAccess /\ b.addedBlocking < B
                 /\ c.addedBlocking = b.addedBlocking + 1
  BY CycleCases
<1>2. k + Busy(b.memory) \in MemoryCycles(b.memory)
  BY <1>1, SDRAMCycleOK DEF BlockingOK
<1>3. b.addedBlocking \in Nat /\ B \in Nat /\ b.addedBlocking <= B /\ b.delayedAccess
  BY BudgetNat DEF BlockingOK, BlockingType
<1>4. SDRAMBusy(m) => SDRAMBusy(b.memory)
  BY SDRAMCycleCases DEF BlockingOK, SDRAMBusy
<1>5. QED
  BY <1>1, <1>2, <1>3, <1>4 DEF BlockingCycles, BlockedAlready, Busy

\* Whatever access and blocking may still take, some outcome of the cycle
\* leaves the rest of both.
LEMMA CycleMeets ==
  ASSUME NEW b, BlockingOK(b),
         NEW k \in MemoryCycles(b.memory), NEW n \in BlockingCycles(b)
  PROVE  \E c \in Cycle(b) :
           /\ k - Busy(b.memory) \in MemoryCycles(c.memory)
           /\ n - 1 + Busy(b.memory) \in BlockingCycles(c)
<1>1. PICK m \in SDRAMCycle(b.memory) : k - Busy(b.memory) \in MemoryCycles(m)
  BY SDRAMCycleMeets DEF BlockingOK
<1> DEFINE d == [b EXCEPT !.memory = m]
<1>2. /\ b \in BlockingType /\ b.delayedAccess /\ m \in SDRAMType
      /\ b.addedBlocking \in Nat /\ B \in Nat /\ b.addedBlocking <= B
  BY BudgetNat, SDRAMCycleOK DEF BlockingOK, BlockingType, SDRAMOK
<1>3. /\ d \in BlockingType /\ d.memory = m /\ d.delayedAccess
      /\ d.addedBlocking = b.addedBlocking
  BY <1>2 DEF BlockingType
<1>4. (IF SDRAMBusy(m) THEN {d} ELSE PerformSplit(d)) \subseteq Cycle(b)
  BY DEF Cycle
<1>5. SDRAMBusy(m) => SDRAMBusy(b.memory)
  BY SDRAMCycleCases DEF BlockingOK, SDRAMBusy
<1> HIDE DEF d
<1>6. CASE SDRAMBusy(m)
  <2>1. d \in Cycle(b)
    BY <1>4, <1>6
  <2>2. n - 1 + Busy(b.memory) \in BlockingCycles(d)
    BY <1>2, <1>3, <1>5, <1>6 DEF BlockingCycles, BlockedAlready, Busy
  <2>3. QED
    BY <1>1, <1>3, <2>1, <2>2
<1>7. CASE ~SDRAMBusy(m) /\ n - 1 + Busy(b.memory) = 0
  <2> DEFINE c == [d EXCEPT !.delayedAccess = FALSE, !.addedBlocking = 0]
  <2>1. c \in PerformSplit(d)
    BY <1>3 DEF PerformSplit
  <2>2. c.memory = m /\ ~c.delayedAccess
    BY <1>3 DEF BlockingType
  <2> HIDE DEF c
  <2>3. QED
    BY <1>1, <1>4, <1>7, <2>1, <2>2 DEF BlockingCycles
<1>8. CASE ~SDRAMBusy(m) /\ n - 1 + Busy(b.memory) # 0
  <2> DEFINE c == [d EXCEPT !.addedBlocking = @ + 1]
  <2>1. b.addedBlocking < B /\ n - 1 + Busy(b.memory) \in 1 .. B - b.addedBlocking
    BY <1>2, <1>8 DEF BlockingCycles, BlockedAlready, Busy
  <2>2. BlockingSplits /\ d.addedBlocking < MaxBlockingPerAccess
    BY <1>2, <1>3, <2>1 DEF B
  <2>3. c \in PerformSplit(d)
    BY <1>3, <2>2 DEF PerformSplit
  <2>4. c.memory = m /\ c.delayedAccess /\ c.addedBlocking = b.addedBlocking + 1
    BY <1>2, <1>3 DEF BlockingType
  <2> HIDE DEF c
  <2>5. n - 1 + Busy(b.memory) \in BlockingCycles(c)
    BY <1>2, <1>8, <2>1, <2>4 DEF BlockingCycles, BlockedAlready
  <2>6. QED
    BY <1>1, <1>4, <1>8, <2>3, <2>4, <2>5
<1>9. QED
  BY <1>6, <1>7, <1>8

\* Skipping ahead: the assertions hold, and the whole budget is granted.
LEMMA ForwardAllowed ==
  ASSUME NEW b, BlockingOK(b), Forwardable(b)
  PROVE  ForwardAssertion(b)
<1>1. /\ b.addedBlocking \in Nat /\ b.addedBlocking <= B
      /\ b.memory.timeBlocked \in Nat
  BY DEF BlockingOK, BlockingType, SDRAMOK, SDRAMType
<1>2. QED
  BY <1>1 DEF ForwardAssertion, BlockingOK, Forwardable, SDRAMOK, SDRAMBusy, B

\* fastForward() spends the whole blocking budget, after the phase of the
\* wrapped memory if that is busy.
LEMMA ForwardCases ==
  ASSUME NEW b, BlockingOK(b), Forwardable(b), NEW c \in FastForward(b)
  PROVE  /\ c \in BlockingType /\ c.delayedAccess /\ c.addedBlocking = B
         /\ c.blocking.lb = b.blocking.lb
         /\ c.blocking.ub = b.blocking.ub + B - b.addedBlocking
         /\ IF SDRAMBusy(b.memory) THEN c.memory \in SDRAMFastForward(b.memory)
                                   ELSE c.memory = b.memory
<1>1. /\ b \in BlockingType /\ b.delayedAccess /\ b.addedBlocking \in Nat /\ B \in Nat
      /\ b.blocking \in CounterType /\ b.memory \in SDRAMType /\ b.addedBlocking <= B
      /\ MaxBlockingPerAccess \in Nat
  BY BudgetNat, LatencyAssumption DEF BlockingOK, BlockingType
<1>2. ASSUME NEW d \in BlockingType, NEW most \in Nat, BlockingSplits
      PROVE  LET e == BudgetSpent(d, most)
             IN  /\ e \in BlockingType /\ e.delayedAccess = d.delayedAccess
                 /\ e.addedBlocking = B /\ e.memory = d.memory
                 /\ e.blocking.lb = d.blocking.lb /\ e.blocking.ub = d.blocking.ub + most
  <2> DEFINE f == Plus(d.blocking, Counter(0, most))
  <2>1. d.blocking \in CounterType
    BY DEF BlockingType
  <2>2. /\ f \in CounterType /\ f.lb = d.blocking.lb
        /\ f.ub = d.blocking.ub + most
    BY <2>1 DEF CounterType, Plus, Counter
  <2>3. BudgetSpent(d, most) =
          [d EXCEPT !.addedBlocking = MaxBlockingPerAccess, !.blocking = f]
    BY DEF BudgetSpent
  <2> HIDE DEF f
  <2>4. QED
    BY <1>1, <1>2, <2>2, <2>3 DEF BlockingType, B
<1>3. CASE SDRAMBusy(b.memory)
  <2>1. PICK m \in SDRAMFastForward(b.memory) :
          c = LET d == [b EXCEPT !.memory = m]
              IN  IF BlockingSplits THEN BudgetSpent(d, MaxBlockingPerAccess) ELSE d
    BY <1>3 DEF FastForward
  <2> DEFINE d == [b EXCEPT !.memory = m]
  <2>2. m \in SDRAMType
    BY <1>3, SDRAMForwardOK DEF BlockingOK, Forwardable, SDRAMOK
  <2>3. /\ d \in BlockingType /\ d.delayedAccess /\ d.memory = m
        /\ d.addedBlocking = 0 /\ d.blocking = b.blocking
    BY <1>1, <1>3, <2>2 DEF BlockingType, Forwardable
  <2>4. c = IF BlockingSplits THEN BudgetSpent(d, MaxBlockingPerAccess) ELSE d
    BY <2>1
  <2> HIDE DEF d
  <2>5. b.addedBlocking = 0
    BY <1>3 DEF Forwardable
  <2>6. CASE BlockingSplits
    BY <1>1, <1>2, <1>3, <2>3, <2>4, <2>5, <2>6 DEF B
  <2>7. CASE ~BlockingSplits
    BY <1>1, <1>3, <2>3, <2>4, <2>5, <2>7 DEF B, CounterType
  <2>8. QED
    BY <2>6, <2>7
<1>4. CASE ~SDRAMBusy(b.memory)
  <2>1. /\ b.addedBlocking >= 1 /\ BlockingSplits
    BY <1>1, <1>4 DEF BlockingOK, B
  <2>2. MaxBlockingPerAccess - b.addedBlocking \in Nat /\ B = MaxBlockingPerAccess
    BY <1>1, <2>1 DEF B
  <2>3. c = BudgetSpent(b, MaxBlockingPerAccess - b.addedBlocking)
    BY <1>4 DEF FastForward
  <2>4. QED
    BY <1>1, <1>2, <1>4, <2>1, <2>2, <2>3 DEF CounterType
<1>5. QED
  BY <1>3, <1>4

\* A memory that was fast-forwarded is in order, and no total that it allows
\* was out of reach before.
LEMMA ForwardOK ==
  ASSUME NEW b, BlockingOK(b), Forwardable(b), NEW c \in FastForward(b)
  PROVE  /\ BlockingOK(c) /\ c.addedBlocking = B /\ BlockedAlready(c) = BlockedAlready(b)
         /\ \E k \in MemoryCycles(b.memory) : \A l \in MemoryCycles(c.memory) :
              b.memory.forwarded.lb + k <= c.memory.forwarded.lb + l
         /\ \E k \in MemoryCycles(b.memory), n \in BlockingCycles(b) :
              \A l \in MemoryCycles(c.memory), o \in BlockingCycles(c) :
                c.memory.forwarded.ub + c.blocking.ub + l + o <=
                  b.memory.forwarded.ub + b.blocking.ub + k + n
<1>1. /\ c \in BlockingType /\ c.delayedAccess /\ c.addedBlocking = B
      /\ c.blocking.ub = b.blocking.ub + B - b.addedBlocking
      /\ IF SDRAMBusy(b.memory) THEN c.memory \in SDRAMFastForward(b.memory)
                                ELSE c.memory = b.memory
  BY ForwardCases
<1>2. /\ SDRAMOK(b.memory) /\ ~b.memory.hasSeenRefresh /\ b.delayedAccess
      /\ SDRAMBusy(b.memory) \/ b.addedBlocking >= 1
      /\ SDRAMBusy(b.memory) => b.addedBlocking = 0
      /\ b.addedBlocking \in Nat /\ b.addedBlocking <= B /\ B \in Nat
  BY BudgetNat DEF BlockingOK, Forwardable, BlockingType
<1>3. b.memory.forwarded \in CounterType /\ b.blocking \in CounterType
  BY DEF BlockingOK, BlockingType, SDRAMType
<1>4. CASE SDRAMBusy(b.memory)
  <2>1. /\ SDRAMOK(c.memory) /\ SDRAMBusy(c.memory) /\ c.memory.timeBlocked = 1
        /\ c.memory.accessPhase = "ACCESS" /\ RefreshesSplit => c.memory.hasSeenRefresh
        /\ MemoryCycles(c.memory) = {1}
    BY <1>1, <1>2, <1>4, SDRAMForwardOK
  <2>2. PICK k \in MemoryCycles(b.memory) :
          b.memory.forwarded.lb + k <= c.memory.forwarded.lb + 1
    BY <1>1, <1>2, <1>4, SDRAMForwardOK
  <2>3. PICK k2 \in MemoryCycles(b.memory) :
          c.memory.forwarded.ub + 1 <= b.memory.forwarded.ub + k2
    BY <1>1, <1>2, <1>4, SDRAMForwardOK
  <2>4. BlockingOK(c) /\ BlockedAlready(c) = BlockedAlready(b)
    BY <1>1, <1>2, <1>4, <2>1 DEF BlockingOK, BlockedAlready
  <2>5. BlockingCycles(c) = {0} /\ B \in BlockingCycles(b)
    BY <1>1, <1>2, <1>4, <2>1 DEF BlockingCycles, BlockedAlready
  <2>6. /\ c.memory.forwarded.ub \in Nat /\ b.memory.forwarded.ub \in Nat
        /\ b.blocking.ub \in Nat /\ k2 \in Nat
    BY <1>1, <1>2, <1>3, BudgetNat
       DEF BlockingType, SDRAMType, CounterType, MemoryCycles, SDRAMOK
  <2>7. c.memory.forwarded.ub + c.blocking.ub + 1 + 0 <=
          b.memory.forwarded.ub + b.blocking.ub + k2 + B
    BY <1>1, <1>2, <1>4, <2>3, <2>6
  <2>8. QED
    BY <1>1, <2>1, <2>2, <2>4, <2>5, <2>7
<1>5. CASE ~SDRAMBusy(b.memory)
  <2>1. c.memory = b.memory /\ MemoryCycles(b.memory) = {0}
    BY <1>1, <1>5 DEF MemoryCycles, SDRAMBusy
  <2>2. BlockingCycles(c) = {1} /\ B - b.addedBlocking + 1 \in BlockingCycles(b)
    BY <1>1, <1>2, <1>5, <2>1 DEF BlockingCycles, BlockedAlready
  <2>3. BlockingOK(c) /\ BlockedAlready(c) = BlockedAlready(b)
    BY <1>1, <1>2, <1>5, <2>1 DEF BlockingOK, BlockedAlready
  <2>4. b.memory.forwarded.ub \in Nat /\ b.memory.forwarded.lb \in Nat /\ b.blocking.ub \in Nat
    BY <1>3 DEF CounterType
  <2>5. c.memory.forwarded.ub + c.blocking.ub + 0 + 1 <=
          b.memory.forwarded.ub + b.blocking.ub + 0 + (B - b.addedBlocking + 1)
    BY <1>1, <1>2, <2>1, <2>4
  <2>6. b.memory.forwarded.lb + 0 <= c.memory.forwarded.lb + 0
    BY <2>1, <2>4
  <2>7. QED
    BY <1>1, <2>1, <2>2, <2>3, <2>5, <2>6
<1>6. QED
  BY <1>4, <1>5

\* Whatever the access may still do, one of the memories that have been skipped
\* ahead has counted as much of it as it does not leave.
LEMMA ForwardMeets ==
  ASSUME NEW b, BlockingOK(b), Forwardable(b),
         NEW k \in MemoryCycles(b.memory), NEW n \in BlockingCycles(b)
  PROVE  \E c \in FastForward(b) :
           \E l \in MemoryCycles(c.memory), o \in BlockingCycles(c) :
             /\ c.memory.forwarded.lb + l <= b.memory.forwarded.lb + k
             /\ b.memory.forwarded.ub + k <= c.memory.forwarded.ub + l
             /\ o <= n /\ b.blocking.ub + n <= c.blocking.ub + o
<1>2. /\ SDRAMOK(b.memory) /\ ~b.memory.hasSeenRefresh /\ b.delayedAccess
      /\ SDRAMBusy(b.memory) \/ b.addedBlocking >= 1
      /\ SDRAMBusy(b.memory) => b.addedBlocking = 0
      /\ b.addedBlocking \in Nat /\ b.addedBlocking <= B /\ B \in Nat
  BY BudgetNat DEF BlockingOK, Forwardable, BlockingType
<1>3. b.memory.forwarded \in CounterType /\ b.blocking \in CounterType
  BY DEF BlockingOK, BlockingType, SDRAMType
<1>c. ASSUME NEW c \in FastForward(b)
      PROVE  /\ c \in BlockingType /\ c.delayedAccess /\ c.addedBlocking = B
             /\ c.blocking.ub = b.blocking.ub + B - b.addedBlocking
             /\ ~SDRAMBusy(b.memory) => c.memory = b.memory
  BY <1>c, ForwardCases
<1>4. CASE SDRAMBusy(b.memory)
  <2>1. PICK m \in SDRAMFastForward(b.memory) :
           /\ m.forwarded.lb + 1 <= b.memory.forwarded.lb + k
           /\ b.memory.forwarded.ub + k <= m.forwarded.ub + 1
    BY <1>2, <1>4, SDRAMForwardMeets
  <2> DEFINE d == [b EXCEPT !.memory = m]
             c == IF BlockingSplits THEN BudgetSpent(d, MaxBlockingPerAccess) ELSE d
  <2>2. c \in FastForward(b)
    BY <1>4 DEF FastForward
  <2>3. SDRAMOK(m) /\ SDRAMBusy(m) /\ MemoryCycles(m) = {1} /\ m \in SDRAMType
    BY <1>2, <1>4, SDRAMForwardOK DEF SDRAMOK
  <2>4. c.memory = m
    <3>1. d \in BlockingType /\ d.memory = m
      BY <2>3 DEF BlockingOK, BlockingType
    <3> HIDE DEF d
    <3>2. QED
      BY <3>1 DEF BudgetSpent, BlockingType
  <2> HIDE DEF c
  <2>5. BlockingCycles(c) = {0} /\ n \in 0 .. B
    BY <1>2, <1>4, <1>c, <2>2, <2>3, <2>4 DEF BlockingCycles, BlockedAlready
  <2>6. 0 <= n /\ b.blocking.ub + n <= c.blocking.ub + 0
    BY <1>2, <1>3, <1>4, <1>c, <2>2, <2>5 DEF CounterType
  <2>7. QED
    BY <2>1, <2>2, <2>3, <2>4, <2>5, <2>6
<1>5. CASE ~SDRAMBusy(b.memory)
  <2> DEFINE c == BudgetSpent(b, MaxBlockingPerAccess - b.addedBlocking)
  <2>1. c \in FastForward(b)
    BY <1>5 DEF FastForward
  <2> HIDE DEF c
  <2>2. c.memory = b.memory /\ MemoryCycles(b.memory) = {0}
    BY <1>5, <1>c, <2>1 DEF MemoryCycles, SDRAMBusy
  <2>3. BlockingCycles(c) = {1} /\ n \in 1 .. B - b.addedBlocking + 1
    BY <1>2, <1>5, <1>c, <2>1, <2>2 DEF BlockingCycles, BlockedAlready
  <2>4. 1 <= n /\ b.blocking.ub + n <= c.blocking.ub + 1
    BY <1>2, <1>3, <1>c, <2>1, <2>3 DEF CounterType
  <2>5. k = 0 /\ b.memory.forwarded.lb \in Nat /\ b.memory.forwarded.ub \in Nat
    BY <1>3, <2>2 DEF CounterType
  <2>6. QED
    BY <2>1, <2>2, <2>3, <2>4, <2>5
<1>6. QED
  BY <1>4, <1>5

-----------------------------------------------------------------------------
(* The paths of the exploration *)

Bus(s) == s.memory.memory
Blocked(s) == LbBlockingCycles(s.memory)

\* The accesses of other cores fit into the blocked cycles.
CountersOK(s) ==
  /\ s \in PathType
  /\ LbConcAccesses(s.memory) <= ConcAccesses(Blocked(s))
  /\ UbAccesses(s.memory) >= 1

\* Every cycle of blocking has been counted, as long as none has been skipped.
PendingOK(s) ==
  /\ CountersOK(s) /\ BlockingOK(Bus(s))
  /\ Bus(s).addedBlocking < B => Blocked(s) = Bus(s).addedBlocking

WaitingOK(s) == CountersOK(s) /\ DoneOK(Bus(s))

\* No more and no less time than an access can take has been counted or is still
\* to come.
MayTake(s) ==
  \A k \in MemoryCycles(Bus(s).memory), n \in BlockingCycles(Bus(s)) :
    /\ AccessTime <= LbTime(s.memory, s.time) + k
    /\ UbTimeBlocked(s.memory, s.time) + k + n <= AccessTime + R + B

\* The path covers an access that refreshes and is blocked for the given times
\* when the memory has been busy for k and the bus blocked for n more cycles.
CoversAfter(s, k, n, refresh, blocked) ==
  LET c == s.memory
      total == AccessTime + refresh + blocked
  IN  /\ LbTime(c, s.time) + k + n <= total
      /\ \E skipped \in 0 .. FastForwardedBlocking(c).ub :
           /\ total <= UbTime(c, s.time) + k + n + skipped
           /\ LbBlockingCycles(c) + n - BlockedAlready(Bus(s)) + skipped <= blocked
      /\ AccessTime + refresh <= UbAccessCycles(c) + k

Promises(s, refresh, blocked) ==
  \E k \in MemoryCycles(Bus(s).memory), n \in BlockingCycles(Bus(s)) :
    CoversAfter(s, k, n, refresh, blocked)

\* The weights of a path, field by field.
LEMMA PathTypes ==
  ASSUME NEW s \in PathType
  PROVE  /\ s.memory \in CountingType /\ Bus(s) \in BlockingType /\ s.time \in CounterType
         /\ Bus(s).memory \in SDRAMType
         /\ s.time.lb \in Nat /\ s.time.ub \in Nat
         /\ Bus(s).memory.forwarded.lb \in Nat /\ Bus(s).memory.forwarded.ub \in Nat
         /\ Bus(s).blocking.lb \in Nat /\ Bus(s).blocking.ub \in Nat
         /\ s.memory.accessCounter \in Nat /\ s.memory.busyCycleCounter \in Nat
         /\ Bus(s).addedBlocking \in Nat
         /\ Blocked(s) \in Nat /\ LbConcAccesses(s.memory) \in Nat
         /\ UbAccesses(s.memory) = s.memory.accessCounter
         /\ LbTime(s.memory, s.time) = s.time.lb + Bus(s).memory.forwarded.lb
         /\ UbTime(s.memory, s.time) = s.time.ub + Bus(s).memory.forwarded.ub
         /\ UbTimeBlocked(s.memory, s.time) =
              s.time.ub + Bus(s).memory.forwarded.ub + Bus(s).blocking.ub
         /\ FastForwardedBlocking(s.memory).ub = Bus(s).blocking.ub
         /\ UbAccessCycles(s.memory) =
              s.memory.busyCycleCounter + Bus(s).memory.forwarded.ub
  BY DEF PathType, CountingType, BlockingType, SDRAMType, CounterType, Bus, Blocked,
         UbAccesses, LbTime, UbTime, UbTimeBlocked, FastForwardedBlocking, UbAccessCycles,
         FastForwardedAccessCycles, LbBlockingCycles, LbConcAccesses

\* What a memory may still take are natural numbers, of which the present cycle
\* of blocking is one.
LEMMA CyclesInt ==
  ASSUME NEW b, b \in BlockingType, SDRAMOK(b.memory), b.addedBlocking <= B
  PROVE  /\ \A k \in MemoryCycles(b.memory) : k \in Nat
         /\ \A n \in BlockingCycles(b) : n \in Nat /\ n >= BlockedAlready(b)
         /\ BlockedAlready(b) \in {0, 1} /\ Busy(b.memory) \in {0, 1}
         /\ b.delayedAccess => BlockedAlready(b) = 1 - Busy(b.memory)
<1>1. /\ b.addedBlocking \in Nat /\ B \in Nat /\ R \in Nat
      /\ b.memory.timeBlocked \in Nat
  BY BudgetNat DEF BlockingType, SDRAMType, SDRAMOK
<1>2. QED
  BY <1>1 DEF MemoryCycles, BlockingCycles, BlockedAlready, Busy

\* A longer blocking takes no fewer accesses of other cores.
LEMMA ConcAccessesGrow ==
  ASSUME NEW m \in Nat, NEW n \in Nat, m <= n
  PROVE  ConcAccesses(m) <= ConcAccesses(n) /\ ConcAccesses(m) \in Nat
  BY AccessLatencyAssumption DEF ConcAccesses

\* A cycle in which another access of some other core starts counts it.
LEMMA ConcAccessesStart ==
  ASSUME NEW n \in Nat, (n + 1) % AccessLatency = 1
  PROVE  ConcAccesses(n) + 1 <= ConcAccesses(n + 1)
  BY AccessLatencyAssumption DEF ConcAccesses

\* A cycle in the counters.
LEMMA SuccessorFields ==
  ASSUME NEW s \in PathType, NEW c \in BlockingType, NEW r,
         r = Path(CountedAs(s.memory, c), Advance(s.time, 1))
  PROVE  /\ r \in PathType /\ Bus(r) = c
         /\ r.time.lb = s.time.lb + 1 /\ r.time.ub = s.time.ub + 1
         /\ r.memory.accessCounter = s.memory.accessCounter
         /\ r.memory.busyCycleCounter = s.memory.busyCycleCounter + Busy(Bus(s).memory)
         /\ Blocked(r) = Blocked(s) + (IF c.addedBlocking > Bus(s).addedBlocking THEN 1 ELSE 0)
         /\ LbConcAccesses(r.memory) = LbConcAccesses(s.memory) +
              (IF c.addedBlocking > Bus(s).addedBlocking /\ c.addedBlocking % AccessLatency = 1
               THEN 1 ELSE 0)
<1> DEFINE t == Advance(s.time, 1)
           m == CountedAs(s.memory, c)
<1>1. t \in CounterType /\ t.lb = s.time.lb + 1 /\ t.ub = s.time.ub + 1
  <2>1. t = [lb |-> s.time.lb + 1, ub |-> s.time.ub + 1]
    BY DEF Advance, Plus, Counter
  <2> HIDE DEF t
  <2>2. QED
    BY <2>1, PathTypes DEF CounterType
<1>2. /\ m \in CountingType /\ m.memory = c
      /\ m.accessCounter = s.memory.accessCounter
      /\ m.busyCycleCounter = s.memory.busyCycleCounter + Busy(Bus(s).memory)
      /\ m.blockingCounter = s.memory.blockingCounter +
           (IF c.addedBlocking > Bus(s).addedBlocking THEN 1 ELSE 0)
      /\ m.concAccesses = s.memory.concAccesses +
              (IF c.addedBlocking > Bus(s).addedBlocking /\ c.addedBlocking % AccessLatency = 1
               THEN 1 ELSE 0)
  <2>1. /\ s.memory \in CountingType /\ c.addedBlocking \in Nat
        /\ Bus(s).addedBlocking \in Nat
    BY PathTypes DEF BlockingType
  <2> DEFINE longer == IF c.addedBlocking > Bus(s).addedBlocking THEN 1 ELSE 0
             conc == IF /\ c.addedBlocking > Bus(s).addedBlocking
                        /\ c.addedBlocking % AccessLatency = 1 THEN 1 ELSE 0
             busyCycles == s.memory.busyCycleCounter + Busy(Bus(s).memory)
             blockings == s.memory.blockingCounter + longer
             concs == s.memory.concAccesses + conc
  <2>2. /\ busyCycles = IF SDRAMBusy(s.memory.memory.memory)
                        THEN s.memory.busyCycleCounter + 1 ELSE s.memory.busyCycleCounter
        /\ blockings = IF IsBlockedLonger(s.memory, c)
                       THEN s.memory.blockingCounter + 1 ELSE s.memory.blockingCounter
        /\ concs = IF IsBlockedLonger(s.memory, c) /\ StartsConc(c)
                   THEN s.memory.concAccesses + 1 ELSE s.memory.concAccesses
    BY <2>1 DEF IsBlockedLonger, StartsConc, Bus, Busy, CountingType
  <2>3. busyCycles \in Nat /\ blockings \in Nat /\ concs \in Nat
    BY <2>1 DEF CountingType, Busy
  <2> HIDE DEF busyCycles, blockings, concs
  <2>4. m = [s.memory EXCEPT !.memory = c, !.busyCycleCounter = busyCycles,
                             !.blockingCounter = blockings, !.concAccesses = concs]
    BY <2>1, <2>2 DEF m, CountedAs, CountingType
  <2> HIDE DEF m
  <2>5. /\ m \in CountingType /\ m.memory = c
        /\ m.accessCounter = s.memory.accessCounter /\ m.busyCycleCounter = busyCycles
        /\ m.blockingCounter = blockings /\ m.concAccesses = concs
    BY <2>1, <2>3, <2>4 DEF CountingType
  <2>6. QED
    BY <2>5 DEF busyCycles, blockings, concs
<1> HIDE DEF t, m
<1>3. r = [memory |-> m, time |-> t]
  BY DEF Path, m, t
<1>4. r \in PathType /\ r.memory = m /\ r.time = t
  BY <1>1, <1>2, <1>3 DEF PathType
<1>5. QED
  BY <1>1, <1>2, <1>4 DEF Bus, Blocked, LbBlockingCycles, LbConcAccesses

\* Every successor of a state in order is in order.
LEMMA SuccessorOK ==
  ASSUME NEW s, PendingOK(s), NEW r \in Successors(s)
  PROVE  /\ IF IsBusy(Bus(r)) THEN PendingOK(r) /\ Forwardable(Bus(r)) ELSE WaitingOK(r)
         /\ MayTake(s) => MayTake(r)
<1>1. PICK c \in Cycle(Bus(s)) : r = Path(CountedAs(s.memory, c), Advance(s.time, 1))
  BY DEF Successors, CountedCycle, Bus
<1>2. s \in PathType /\ BlockingOK(Bus(s))
  BY DEF PendingOK, CountersOK
<1>3. /\ c \in BlockingType /\ c.blocking = Bus(s).blocking
      /\ c.memory.forwarded = Bus(s).memory.forwarded
      /\ IF IsBusy(c) THEN BlockingOK(c) /\ Forwardable(c) ELSE DoneOK(c)
      /\ BlockedAlready(c) = 1 =>
           Bus(s).addedBlocking < B /\ c.addedBlocking = Bus(s).addedBlocking + 1
      /\ BlockedAlready(c) = 0 => c.addedBlocking <= Bus(s).addedBlocking
      /\ BlockedAlready(c) = 0 /\ IsBusy(c) => c.addedBlocking = Bus(s).addedBlocking
  BY <1>2, CycleOK
<1>4. /\ r \in PathType /\ Bus(r) = c
      /\ r.time.lb = s.time.lb + 1 /\ r.time.ub = s.time.ub + 1
      /\ r.memory.accessCounter = s.memory.accessCounter
      /\ Blocked(r) = Blocked(s) + (IF c.addedBlocking > Bus(s).addedBlocking THEN 1 ELSE 0)
      /\ LbConcAccesses(r.memory) = LbConcAccesses(s.memory) +
              (IF c.addedBlocking > Bus(s).addedBlocking /\ c.addedBlocking % AccessLatency = 1
               THEN 1 ELSE 0)
  BY <1>1, <1>2, <1>3, SuccessorFields
<1>5. /\ Blocked(s) \in Nat /\ Bus(s).addedBlocking \in Nat /\ c.addedBlocking \in Nat
      /\ LbConcAccesses(s.memory) \in Nat /\ BlockedAlready(c) \in {0, 1}
  BY <1>2, <1>4, PathTypes DEF BlockedAlready
<1>6. CountersOK(r)
  <2>1. UbAccesses(r.memory) >= 1
    BY <1>2, <1>4, PathTypes DEF PendingOK, CountersOK
  <2>2. LbConcAccesses(s.memory) <= ConcAccesses(Blocked(s))
    BY DEF PendingOK, CountersOK
  <2>3. CASE BlockedAlready(c) = 0
    BY <1>3, <1>4, <1>5, <2>1, <2>2, <2>3 DEF CountersOK
  <2>4. CASE BlockedAlready(c) = 1
    <3>1. /\ Blocked(s) = Bus(s).addedBlocking /\ Blocked(r) = Blocked(s) + 1
          /\ c.addedBlocking = Blocked(s) + 1
      BY <1>3, <1>4, <1>5, <2>4 DEF PendingOK
    <3>2. ConcAccesses(Blocked(s)) <= ConcAccesses(Blocked(s) + 1)
          /\ ConcAccesses(Blocked(s)) \in Nat /\ ConcAccesses(Blocked(s) + 1) \in Nat
      BY <1>5, ConcAccessesGrow
    <3>3. (Blocked(s) + 1) % AccessLatency = 1 =>
            ConcAccesses(Blocked(s)) + 1 <= ConcAccesses(Blocked(s) + 1)
      BY <1>5, ConcAccessesStart
    <3>4. LbConcAccesses(r.memory) <= ConcAccesses(Blocked(s) + 1)
      BY <1>4, <1>5, <2>2, <3>1, <3>2, <3>3
    <3>5. QED
      BY <1>4, <2>1, <3>1, <3>4 DEF CountersOK
  <2>5. QED
    BY <1>5, <2>3, <2>4
<1>7. IF IsBusy(Bus(r)) THEN PendingOK(r) /\ Forwardable(Bus(r)) ELSE WaitingOK(r)
  <2>1. CASE IsBusy(c)
    <3>1. c.addedBlocking < B => Blocked(r) = c.addedBlocking
      BY <1>3, <1>4, <1>5, <2>1, BudgetNat DEF PendingOK
    <3>2. QED
      BY <1>3, <1>4, <1>6, <2>1, <3>1 DEF PendingOK
  <2>2. CASE ~IsBusy(c)
    BY <1>3, <1>4, <1>6, <2>2 DEF WaitingOK
  <2>3. QED
    BY <1>4, <2>1, <2>2
<1>8. ASSUME MayTake(s),
             NEW k \in MemoryCycles(c.memory), NEW n \in BlockingCycles(c)
      PROVE  /\ AccessTime <= LbTime(r.memory, r.time) + k
             /\ UbTimeBlocked(r.memory, r.time) + k + n <= AccessTime + R + B
  <2> DEFINE kk == k + Busy(Bus(s).memory)
             nn == n + 1 - Busy(Bus(s).memory)
  <2>1. kk \in MemoryCycles(Bus(s).memory) /\ nn \in BlockingCycles(Bus(s))
    BY <1>2, CycleLeaves
  <2>2. /\ AccessTime <= LbTime(s.memory, s.time) + kk
        /\ UbTimeBlocked(s.memory, s.time) + kk + nn <= AccessTime + R + B
    BY <1>8, <2>1 DEF MayTake
  <2>3. k \in Nat /\ n \in Nat /\ Busy(Bus(s).memory) \in {0, 1}
    <3>1. SDRAMOK(c.memory) /\ c.addedBlocking <= B
      BY <1>3, BudgetNat DEF BlockingOK, DoneOK
    <3>2. QED
      BY <1>3, <3>1, CyclesInt DEF Busy
  <2>4. AccessTime \in Nat
    BY LatencyAssumption, AccessAssumption DEF AccessTime
  <2>5. /\ LbTime(s.memory, s.time) \in Nat /\ UbTimeBlocked(s.memory, s.time) \in Nat
        /\ LbTime(r.memory, r.time) = LbTime(s.memory, s.time) + 1
        /\ UbTimeBlocked(r.memory, r.time) = UbTimeBlocked(s.memory, s.time) + 1
    <3>1. /\ LbTime(s.memory, s.time) = s.time.lb + Bus(s).memory.forwarded.lb
          /\ UbTimeBlocked(s.memory, s.time) =
               s.time.ub + Bus(s).memory.forwarded.ub + Bus(s).blocking.ub
          /\ s.time.lb \in Nat /\ s.time.ub \in Nat
          /\ Bus(s).memory.forwarded.lb \in Nat /\ Bus(s).memory.forwarded.ub \in Nat
          /\ Bus(s).blocking.ub \in Nat
      BY <1>2, PathTypes
    <3>2. /\ LbTime(r.memory, r.time) = r.time.lb + Bus(r).memory.forwarded.lb
          /\ UbTimeBlocked(r.memory, r.time) =
               r.time.ub + Bus(r).memory.forwarded.ub + Bus(r).blocking.ub
      BY <1>4, PathTypes
    <3>3. QED
      BY <1>3, <1>4, <3>1, <3>2
  <2>6. QED
    BY <2>2, <2>3, <2>4, <2>5, BudgetNat
<1>9. QED
  BY <1>4, <1>7, <1>8 DEF MayTake

\* What a state promises of an access, one of its successors promises.
LEMMA SuccessorMeets ==
  ASSUME NEW s, PendingOK(s), NEW refresh \in Nat, NEW blocked \in Nat,
         Promises(s, refresh, blocked)
  PROVE  \E r \in Successors(s) : Promises(r, refresh, blocked)
<1>1. s \in PathType /\ BlockingOK(Bus(s))
  BY DEF PendingOK, CountersOK
<1>2. PICK k \in MemoryCycles(Bus(s).memory), n \in BlockingCycles(Bus(s)) :
        CoversAfter(s, k, n, refresh, blocked)
  BY DEF Promises
<1> DEFINE kk == k - Busy(Bus(s).memory)
           nn == n - 1 + Busy(Bus(s).memory)
<1>3. PICK c \in Cycle(Bus(s)) : kk \in MemoryCycles(c.memory) /\ nn \in BlockingCycles(c)
  BY <1>1, CycleMeets
<1> DEFINE r == Path(CountedAs(s.memory, c), Advance(s.time, 1))
<1>4. r \in Successors(s)
  BY DEF Successors, CountedCycle, Bus
<1>5. /\ c \in BlockingType /\ c.blocking = Bus(s).blocking
      /\ c.memory.forwarded = Bus(s).memory.forwarded
      /\ BlockedAlready(c) = 1 => c.addedBlocking = Bus(s).addedBlocking + 1
      /\ BlockedAlready(c) = 0 => c.addedBlocking <= Bus(s).addedBlocking
  BY <1>1, CycleOK
<1>6. /\ r \in PathType /\ Bus(r) = c
      /\ r.time.lb = s.time.lb + 1 /\ r.time.ub = s.time.ub + 1
      /\ r.memory.busyCycleCounter = s.memory.busyCycleCounter + Busy(Bus(s).memory)
      /\ Blocked(r) = Blocked(s) + (IF c.addedBlocking > Bus(s).addedBlocking THEN 1 ELSE 0)
  BY <1>1, <1>5, SuccessorFields
<1> HIDE DEF r
<1>7. /\ k \in Nat /\ n \in Nat /\ Busy(Bus(s).memory) \in {0, 1}
      /\ BlockedAlready(Bus(s)) = 1 - Busy(Bus(s).memory)
  BY <1>1, CyclesInt DEF BlockingOK
<1>8. Blocked(r) = Blocked(s) + BlockedAlready(c) /\ BlockedAlready(c) \in {0, 1}
  BY <1>1, <1>5, <1>6, PathTypes DEF BlockedAlready
<1>9. /\ LbTime(s.memory, s.time) \in Nat /\ UbTime(s.memory, s.time) \in Nat
      /\ UbAccessCycles(s.memory) \in Nat /\ Blocked(s) \in Nat
      /\ LbTime(r.memory, r.time) = LbTime(s.memory, s.time) + 1
      /\ UbTime(r.memory, r.time) = UbTime(s.memory, s.time) + 1
      /\ UbAccessCycles(r.memory) = UbAccessCycles(s.memory) + Busy(Bus(s).memory)
      /\ FastForwardedBlocking(r.memory).ub = FastForwardedBlocking(s.memory).ub
      /\ FastForwardedBlocking(s.memory).ub \in Nat
  <2>1. /\ LbTime(s.memory, s.time) = s.time.lb + Bus(s).memory.forwarded.lb
        /\ UbTime(s.memory, s.time) = s.time.ub + Bus(s).memory.forwarded.ub
        /\ UbAccessCycles(s.memory) =
              s.memory.busyCycleCounter + Bus(s).memory.forwarded.ub
        /\ FastForwardedBlocking(s.memory).ub = Bus(s).blocking.ub
        /\ s.time.lb \in Nat /\ s.time.ub \in Nat /\ s.memory.busyCycleCounter \in Nat
        /\ Bus(s).memory.forwarded.lb \in Nat /\ Bus(s).memory.forwarded.ub \in Nat
        /\ Bus(s).blocking.ub \in Nat /\ Blocked(s) \in Nat
    BY <1>1, PathTypes
  <2>2. /\ LbTime(r.memory, r.time) = r.time.lb + Bus(r).memory.forwarded.lb
        /\ UbTime(r.memory, r.time) = r.time.ub + Bus(r).memory.forwarded.ub
        /\ UbAccessCycles(r.memory) =
              r.memory.busyCycleCounter + Bus(r).memory.forwarded.ub
        /\ FastForwardedBlocking(r.memory).ub = Bus(r).blocking.ub
    BY <1>6, PathTypes
  <2>3. QED
    BY <1>5, <1>6, <1>7, <2>1, <2>2
<1> DEFINE total == AccessTime + refresh + blocked
<1>10. AccessTime \in Nat /\ total \in Nat
  BY LatencyAssumption, AccessAssumption DEF AccessTime
<1>11. PICK skipped \in 0 .. FastForwardedBlocking(s.memory).ub :
           /\ LbTime(s.memory, s.time) + k + n <= total
           /\ total <= UbTime(s.memory, s.time) + k + n + skipped
           /\ Blocked(s) + n - BlockedAlready(Bus(s)) + skipped <= blocked
           /\ AccessTime + refresh <= UbAccessCycles(s.memory) + k
  BY <1>2 DEF CoversAfter, Blocked
<1> HIDE DEF total
<1>12. /\ LbTime(r.memory, r.time) + kk + nn <= total
       /\ skipped \in 0 .. FastForwardedBlocking(r.memory).ub
       /\ total <= UbTime(r.memory, r.time) + kk + nn + skipped
       /\ Blocked(r) + nn - BlockedAlready(c) + skipped <= blocked
       /\ AccessTime + refresh <= UbAccessCycles(r.memory) + kk
  BY <1>7, <1>8, <1>9, <1>10, <1>11
<1>13. CoversAfter(r, kk, nn, refresh, blocked)
  BY <1>6, <1>12 DEF CoversAfter, Blocked, total
<1>14. QED
  BY <1>3, <1>4, <1>6, <1>13 DEF Promises

\* Skipping ahead in the counters.
LEMMA ForwardFields ==
  ASSUME NEW s \in PathType, NEW c \in BlockingType, NEW r,
         r = Path([s.memory EXCEPT !.memory = c], s.time)
  PROVE  /\ r \in PathType /\ Bus(r) = c /\ r.time = s.time
         /\ r.memory.accessCounter = s.memory.accessCounter
         /\ r.memory.busyCycleCounter = s.memory.busyCycleCounter
         /\ Blocked(r) = Blocked(s)
         /\ LbConcAccesses(r.memory) = LbConcAccesses(s.memory)
<1> DEFINE m == [s.memory EXCEPT !.memory = c]
<1>1. /\ m \in CountingType /\ m.memory = c
      /\ m.accessCounter = s.memory.accessCounter
      /\ m.busyCycleCounter = s.memory.busyCycleCounter
      /\ m.blockingCounter = s.memory.blockingCounter
      /\ m.concAccesses = s.memory.concAccesses
  BY PathTypes DEF CountingType
<1> HIDE DEF m
<1>2. r = [memory |-> m, time |-> s.time]
  BY DEF Path, m
<1>3. r \in PathType /\ r.memory = m /\ r.time = s.time
  BY <1>1, <1>2, PathTypes DEF PathType
<1>4. QED
  BY <1>1, <1>3 DEF Bus, Blocked, LbBlockingCycles, LbConcAccesses

Forwarded(s) == {Path(c, s.time) : c \in CountedForward(s.memory)}

\* A state that has converged is fast-forwarded to states in order,
LEMMA ForwardedOK ==
  ASSUME NEW s, PendingOK(s), Forwardable(Bus(s)), NEW r \in Forwarded(s)
  PROVE  PendingOK(r) /\ (MayTake(s) => MayTake(r))
<1>1. PICK c \in FastForward(Bus(s)) : r = Path([s.memory EXCEPT !.memory = c], s.time)
  BY DEF Forwarded, CountedForward, Bus
<1>2. s \in PathType /\ BlockingOK(Bus(s))
  BY DEF PendingOK, CountersOK
<1>3. /\ c \in BlockingType /\ BlockingOK(c) /\ c.addedBlocking = B
      /\ BlockedAlready(c) = BlockedAlready(Bus(s))
  BY <1>2, ForwardOK DEF BlockingOK
<1>4. /\ r \in PathType /\ Bus(r) = c /\ r.time = s.time
      /\ r.memory.accessCounter = s.memory.accessCounter
      /\ Blocked(r) = Blocked(s)
      /\ LbConcAccesses(r.memory) = LbConcAccesses(s.memory)
  BY <1>1, <1>2, <1>3, ForwardFields
<1>5. PendingOK(r)
  BY <1>2, <1>3, <1>4, PathTypes, BudgetNat DEF PendingOK, CountersOK
<1>6. /\ LbTime(s.memory, s.time) = s.time.lb + Bus(s).memory.forwarded.lb
      /\ UbTimeBlocked(s.memory, s.time) =
           s.time.ub + Bus(s).memory.forwarded.ub + Bus(s).blocking.ub
      /\ s.time.lb \in Nat /\ s.time.ub \in Nat
      /\ Bus(s).memory.forwarded.lb \in Nat /\ Bus(s).memory.forwarded.ub \in Nat
      /\ Bus(s).blocking.ub \in Nat
  BY <1>2, PathTypes
<1>7. /\ LbTime(r.memory, r.time) = s.time.lb + c.memory.forwarded.lb
      /\ UbTimeBlocked(r.memory, r.time) =
           s.time.ub + c.memory.forwarded.ub + c.blocking.ub
      /\ c.memory.forwarded.lb \in Nat /\ c.memory.forwarded.ub \in Nat
      /\ c.blocking.ub \in Nat
  BY <1>4, PathTypes
<1>8. AccessTime \in Nat /\ R \in Nat /\ B \in Nat
  BY LatencyAssumption, AccessAssumption, BudgetNat DEF AccessTime
<1>9. ASSUME MayTake(s),
             NEW l \in MemoryCycles(c.memory), NEW o \in BlockingCycles(c)
      PROVE  /\ AccessTime <= LbTime(r.memory, r.time) + l
             /\ UbTimeBlocked(r.memory, r.time) + l + o <= AccessTime + R + B
  <2>1. PICK k \in MemoryCycles(Bus(s).memory) : 
          Bus(s).memory.forwarded.lb + k <= c.memory.forwarded.lb + l
    BY <1>2, <1>9, ForwardOK
  <2>2. PICK k2 \in MemoryCycles(Bus(s).memory), n \in BlockingCycles(Bus(s)) :
          c.memory.forwarded.ub + c.blocking.ub + l + o <=
            Bus(s).memory.forwarded.ub + Bus(s).blocking.ub + k2 + n
    BY <1>2, <1>9, ForwardOK
  <2>3. /\ AccessTime <= LbTime(s.memory, s.time) + k
        /\ UbTimeBlocked(s.memory, s.time) + k2 + n <= AccessTime + R + B
    BY <1>9, <2>2 DEF MayTake
  <2>4. k \in Nat /\ k2 \in Nat /\ n \in Nat
    BY <1>2, CyclesInt DEF BlockingOK
  <2>5. l \in Nat /\ o \in Nat
    BY <1>3, CyclesInt DEF BlockingOK
  <2>6. QED
    BY <1>6, <1>7, <1>8, <2>1, <2>2, <2>3, <2>4, <2>5
<1>10. QED
  BY <1>4, <1>5, <1>9 DEF MayTake

\* and what it promises, one of them promises.
LEMMA ForwardedMeets ==
  ASSUME NEW s, PendingOK(s), Forwardable(Bus(s)),
         NEW refresh \in Nat, NEW blocked \in Nat, Promises(s, refresh, blocked)
  PROVE  \E r \in Forwarded(s) : Promises(r, refresh, blocked)
<1>1. s \in PathType /\ BlockingOK(Bus(s))
  BY DEF PendingOK, CountersOK
<1>2. PICK k \in MemoryCycles(Bus(s).memory), n \in BlockingCycles(Bus(s)) :
        CoversAfter(s, k, n, refresh, blocked)
  BY DEF Promises
<1>3. PICK c \in FastForward(Bus(s)) :
        \E l \in MemoryCycles(c.memory), o \in BlockingCycles(c) :
          /\ c.memory.forwarded.lb + l <= Bus(s).memory.forwarded.lb + k
          /\ Bus(s).memory.forwarded.ub + k <= c.memory.forwarded.ub + l
          /\ o <= n /\ Bus(s).blocking.ub + n <= c.blocking.ub + o
  BY <1>1, ForwardMeets
<1>4. PICK l \in MemoryCycles(c.memory), o \in BlockingCycles(c) :
          /\ c.memory.forwarded.lb + l <= Bus(s).memory.forwarded.lb + k
          /\ Bus(s).memory.forwarded.ub + k <= c.memory.forwarded.ub + l
          /\ o <= n /\ Bus(s).blocking.ub + n <= c.blocking.ub + o
  BY <1>3
<1> DEFINE r == Path([s.memory EXCEPT !.memory = c], s.time)
<1>5. r \in Forwarded(s)
  BY DEF Forwarded, CountedForward, Bus
<1>6. /\ c \in BlockingType /\ BlockingOK(c)
      /\ BlockedAlready(c) = BlockedAlready(Bus(s))
  BY <1>1, ForwardOK DEF BlockingOK, PendingOK
<1>7. /\ r \in PathType /\ Bus(r) = c /\ r.time = s.time
      /\ r.memory.busyCycleCounter = s.memory.busyCycleCounter
      /\ Blocked(r) = Blocked(s)
  BY <1>1, <1>6, ForwardFields
<1> HIDE DEF r
<1>8. /\ k \in Nat /\ n \in Nat /\ l \in Nat /\ o \in Nat
      /\ BlockedAlready(c) \in {0, 1}
  BY <1>1, <1>6, CyclesInt DEF BlockingOK
<1> DEFINE total == AccessTime + refresh + blocked
<1>9. AccessTime \in Nat /\ total \in Nat
  BY LatencyAssumption, AccessAssumption DEF AccessTime
<1>10. PICK skipped \in 0 .. FastForwardedBlocking(s.memory).ub :
           /\ LbTime(s.memory, s.time) + k + n <= total
           /\ total <= UbTime(s.memory, s.time) + k + n + skipped
           /\ Blocked(s) + n - BlockedAlready(Bus(s)) + skipped <= blocked
           /\ AccessTime + refresh <= UbAccessCycles(s.memory) + k
  BY <1>2 DEF CoversAfter, Blocked
<1> HIDE DEF total
<1>11. /\ LbTime(s.memory, s.time) = s.time.lb + Bus(s).memory.forwarded.lb
       /\ UbTime(s.memory, s.time) = s.time.ub + Bus(s).memory.forwarded.ub
       /\ UbAccessCycles(s.memory) =
             s.memory.busyCycleCounter + Bus(s).memory.forwarded.ub
       /\ FastForwardedBlocking(s.memory).ub = Bus(s).blocking.ub
       /\ s.time.lb \in Nat /\ s.time.ub \in Nat /\ s.memory.busyCycleCounter \in Nat
       /\ Bus(s).memory.forwarded.lb \in Nat /\ Bus(s).memory.forwarded.ub \in Nat
       /\ Bus(s).blocking.ub \in Nat /\ Blocked(s) \in Nat
  BY <1>1, PathTypes
<1>12. /\ LbTime(r.memory, r.time) = s.time.lb + c.memory.forwarded.lb
       /\ UbTime(r.memory, r.time) = s.time.ub + c.memory.forwarded.ub
       /\ UbAccessCycles(r.memory) =
             s.memory.busyCycleCounter + c.memory.forwarded.ub
       /\ FastForwardedBlocking(r.memory).ub = c.blocking.ub
       /\ c.memory.forwarded.lb \in Nat /\ c.memory.forwarded.ub \in Nat
       /\ c.blocking.ub \in Nat
  BY <1>7, PathTypes
<1> DEFINE more == skipped + n - o
<1>13. more \in 0 .. FastForwardedBlocking(r.memory).ub
  BY <1>4, <1>8, <1>10, <1>11, <1>12
<1>14. /\ LbTime(r.memory, r.time) + l + o <= total
       /\ total <= UbTime(r.memory, r.time) + l + o + more
       /\ Blocked(r) + o - BlockedAlready(c) + more <= blocked
       /\ AccessTime + refresh <= UbAccessCycles(r.memory) + l
  BY <1>4, <1>6, <1>7, <1>8, <1>9, <1>10, <1>11, <1>12
<1>15. CoversAfter(r, l, o, refresh, blocked)
  BY <1>7, <1>13, <1>14 DEF CoversAfter, Blocked, total
<1>16. QED
  BY <1>5, <1>7, <1>15 DEF Promises

\* A promise is kept when the access is done.
LEMMA PromiseKept ==
  ASSUME NEW s, WaitingOK(s), NEW refresh \in Nat, NEW blocked \in Nat
  PROVE  Promises(s, refresh, blocked) <=> Covers(s, refresh, blocked)
<1>1. /\ s \in PathType /\ MemoryCycles(Bus(s).memory) = {0}
      /\ BlockingCycles(Bus(s)) = {0} /\ BlockedAlready(Bus(s)) = 0
  BY DEF WaitingOK, CountersOK, DoneOK, MemoryCycles, BlockingCycles, BlockedAlready, SDRAMBusy
<1>2. /\ LbConcAccesses(s.memory) <= ConcAccesses(Blocked(s))
      /\ UbAccesses(s.memory) >= 1 /\ UbAccesses(s.memory) \in Nat
  BY <1>1, PathTypes DEF WaitingOK, CountersOK
<1>3. /\ Blocked(s) \in Nat /\ LbTime(s.memory, s.time) \in Nat
      /\ UbTime(s.memory, s.time) \in Nat /\ UbAccessCycles(s.memory) \in Nat
      /\ LbConcAccesses(s.memory) \in Nat
      /\ FastForwardedBlocking(s.memory).ub \in Nat
  BY <1>1, PathTypes
<1>4. Blocked(s) <= blocked => LbConcAccesses(s.memory) <= ConcAccesses(blocked)
  BY <1>2, <1>3, ConcAccessesGrow
<1>5. AccessTime \in Nat
  BY LatencyAssumption, AccessAssumption DEF AccessTime
<1>6. Promises(s, refresh, blocked) <=> CoversAfter(s, 0, 0, refresh, blocked)
  BY <1>1 DEF Promises
<1>7. QED
  BY <1>1, <1>2, <1>3, <1>4, <1>5, <1>6 DEF CoversAfter, Covers, Blocked

\* A joined interval contains both.
LEMMA JoinedCounterCovers ==
  ASSUME NEW c \in CounterType, NEW d \in CounterType
  PROVE  LET j == JoinedCounter(c, d)
         IN  /\ j \in CounterType /\ j.lb \in Nat /\ j.ub \in Nat
             /\ j.lb <= c.lb /\ j.lb <= d.lb /\ c.ub <= j.ub /\ d.ub <= j.ub
  BY DEF JoinedCounter, CounterType, Counter

\* A join keeps the memory, and gives every counter a bound of both.
LEMMA MergeFields ==
  ASSUME NEW s, NEW r, WaitingOK(s), WaitingOK(r), NEW j,
         j = Path(CountedJoin(s.memory, r.memory), JoinedCounter(s.time, r.time))
  PROVE  /\ j \in PathType /\ DoneOK(Bus(j))
         /\ j.time = JoinedCounter(s.time, r.time)
         /\ Bus(j).blocking = JoinedCounter(Bus(s).blocking, Bus(r).blocking)
         /\ Bus(j).memory.forwarded =
              JoinedCounter(Bus(s).memory.forwarded, Bus(r).memory.forwarded)
         /\ j.memory.accessCounter = GreaterCount(s.memory.accessCounter, r.memory.accessCounter)
         /\ j.memory.busyCycleCounter =
              GreaterCount(s.memory.busyCycleCounter, r.memory.busyCycleCounter)
         /\ Blocked(j) = LesserCount(Blocked(s), Blocked(r))
         /\ LbConcAccesses(j.memory) =
              LesserCount(LbConcAccesses(s.memory), LbConcAccesses(r.memory))
<1> DEFINE f == JoinedCounter(Bus(s).memory.forwarded, Bus(r).memory.forwarded)
           m == [Bus(s).memory EXCEPT !.forwarded = f]
           g == JoinedCounter(Bus(s).blocking, Bus(r).blocking)
           b == [Bus(s) EXCEPT !.blocking = g, !.memory = m]
           t == JoinedCounter(s.time, r.time)
<1>1. /\ s \in PathType /\ r \in PathType /\ Bus(s) \in BlockingType /\ Bus(r) \in BlockingType
      /\ Bus(s).memory \in SDRAMType /\ Bus(r).memory \in SDRAMType
      /\ s.time \in CounterType /\ r.time \in CounterType
      /\ s.memory \in CountingType /\ r.memory \in CountingType
      /\ DoneOK(Bus(s))
  BY PathTypes DEF WaitingOK, CountersOK
<1>2. f \in CounterType /\ g \in CounterType /\ t \in CounterType
  BY <1>1, JoinedCounterCovers DEF BlockingType, SDRAMType
<1> HIDE DEF f, g, t
<1>3. /\ m \in SDRAMType /\ m.forwarded = f /\ m.accessPhase = Bus(s).memory.accessPhase
      /\ m.timeBlocked = Bus(s).memory.timeBlocked
      /\ m.hasSeenRefresh = Bus(s).memory.hasSeenRefresh
  BY <1>1, <1>2 DEF SDRAMType
<1> HIDE DEF m
<1>4. /\ b \in BlockingType /\ b.blocking = g /\ b.memory = m
      /\ b.delayedAccess = Bus(s).delayedAccess /\ b.addedBlocking = Bus(s).addedBlocking
  BY <1>1, <1>2, <1>3 DEF BlockingType
<1>5. JoinMemory(Bus(s), Bus(r)) = b
  BY <1>1 DEF JoinMemory, SDRAMJoin, b, f, g, m, BlockingType
<1> HIDE DEF b
<1>6. DoneOK(b)
  BY <1>1, <1>3, <1>4 DEF DoneOK, SDRAMOK, SDRAMBusy
<1> DEFINE c == CountedJoin(s.memory, r.memory)
<1>7. /\ c \in CountingType /\ c.memory = b
      /\ c.accessCounter = GreaterCount(s.memory.accessCounter, r.memory.accessCounter)
      /\ c.busyCycleCounter = GreaterCount(s.memory.busyCycleCounter, r.memory.busyCycleCounter)
      /\ c.blockingCounter = LesserCount(s.memory.blockingCounter, r.memory.blockingCounter)
      /\ c.concAccesses = LesserCount(s.memory.concAccesses, r.memory.concAccesses)
  <2>1. /\ GreaterCount(s.memory.accessCounter, r.memory.accessCounter) \in Nat
        /\ GreaterCount(s.memory.busyCycleCounter, r.memory.busyCycleCounter) \in Nat
        /\ LesserCount(s.memory.blockingCounter, r.memory.blockingCounter) \in Nat
        /\ LesserCount(s.memory.concAccesses, r.memory.concAccesses) \in Nat
    BY <1>1 DEF GreaterCount, LesserCount, CountingType
  <2>2. QED
    BY <1>4, <1>5, <2>1 DEF CountedJoin, CountingType, Bus
<1> HIDE DEF c
<1>8. j \in PathType /\ j.memory = c /\ j.time = t
  BY <1>2, <1>7 DEF Path, PathType, c, t
<1>9. QED
  BY <1>3, <1>4, <1>6, <1>7, <1>8
     DEF f, g, t, Bus, Blocked, LbBlockingCycles, LbConcAccesses

\* Two waiting states in order join to one in order.
LEMMA MergeOK ==
  ASSUME NEW s, NEW r, WaitingOK(s), WaitingOK(r), NEW j,
         j = Path(CountedJoin(s.memory, r.memory), JoinedCounter(s.time, r.time))
  PROVE  WaitingOK(j)
<1>1. /\ j \in PathType /\ DoneOK(Bus(j))
      /\ j.memory.accessCounter = GreaterCount(s.memory.accessCounter, r.memory.accessCounter)
      /\ Blocked(j) = LesserCount(Blocked(s), Blocked(r))
      /\ LbConcAccesses(j.memory) =
           LesserCount(LbConcAccesses(s.memory), LbConcAccesses(r.memory))
  BY MergeFields
<1>2. /\ s \in PathType /\ r \in PathType
      /\ LbConcAccesses(s.memory) <= ConcAccesses(Blocked(s))
      /\ LbConcAccesses(r.memory) <= ConcAccesses(Blocked(r))
      /\ s.memory.accessCounter >= 1 /\ r.memory.accessCounter >= 1
  BY PathTypes DEF WaitingOK, CountersOK
<1>3. /\ LbConcAccesses(s.memory) \in Nat /\ LbConcAccesses(r.memory) \in Nat
      /\ Blocked(s) \in Nat /\ Blocked(r) \in Nat
      /\ s.memory.accessCounter \in Nat /\ r.memory.accessCounter \in Nat
  BY <1>2, PathTypes
<1>4. ConcAccesses(Blocked(s)) \in Nat /\ ConcAccesses(Blocked(r)) \in Nat
  BY <1>3, ConcAccessesGrow
<1>5. UbAccesses(j.memory) >= 1
  BY <1>1, <1>2, <1>3, PathTypes DEF GreaterCount
<1>6. LbConcAccesses(j.memory) <= ConcAccesses(Blocked(j))
  BY <1>1, <1>2, <1>3, <1>4 DEF LesserCount
<1>7. QED
  BY <1>1, <1>5, <1>6 DEF WaitingOK, CountersOK

\* What either of two states covers, their join does.
LEMMA MergeCovers ==
  ASSUME NEW s, NEW r, WaitingOK(s), WaitingOK(r), NEW j,
         j = Path(CountedJoin(s.memory, r.memory), JoinedCounter(s.time, r.time)),
         NEW refresh \in Nat, NEW blocked \in Nat,
         Promises(s, refresh, blocked) \/ Promises(r, refresh, blocked)
  PROVE  Promises(j, refresh, blocked)
<1>1. PICK o \in {s, r} : Promises(o, refresh, blocked)
  OBVIOUS
<1>2. WaitingOK(o) /\ WaitingOK(j) /\ o \in PathType /\ s \in PathType /\ r \in PathType
  BY <1>1, MergeOK DEF WaitingOK, CountersOK
<1>3. Covers(o, refresh, blocked)
  BY <1>1, <1>2, PromiseKept
<1>4. /\ j \in PathType
      /\ j.time.lb <= o.time.lb /\ o.time.ub <= j.time.ub
      /\ Bus(o).blocking.ub <= Bus(j).blocking.ub
      /\ Bus(j).memory.forwarded.lb <= Bus(o).memory.forwarded.lb
      /\ Bus(o).memory.forwarded.ub <= Bus(j).memory.forwarded.ub
  <2>1. /\ s.time \in CounterType /\ r.time \in CounterType
        /\ Bus(s).blocking \in CounterType /\ Bus(r).blocking \in CounterType
        /\ Bus(s).memory.forwarded \in CounterType /\ Bus(r).memory.forwarded \in CounterType
    BY <1>2, PathTypes DEF BlockingType, SDRAMType
  <2>2. /\ j \in PathType /\ j.time = JoinedCounter(s.time, r.time)
        /\ Bus(j).blocking = JoinedCounter(Bus(s).blocking, Bus(r).blocking)
        /\ Bus(j).memory.forwarded =
              JoinedCounter(Bus(s).memory.forwarded, Bus(r).memory.forwarded)
    BY MergeFields
  <2>3. QED
    BY <1>1, <2>1, <2>2, JoinedCounterCovers
<1>5. /\ o.memory.accessCounter <= j.memory.accessCounter
      /\ o.memory.busyCycleCounter <= j.memory.busyCycleCounter
      /\ Blocked(j) <= Blocked(o) /\ LbConcAccesses(j.memory) <= LbConcAccesses(o.memory)
  <2>1. /\ s.memory.accessCounter \in Nat /\ r.memory.accessCounter \in Nat
        /\ s.memory.busyCycleCounter \in Nat /\ r.memory.busyCycleCounter \in Nat
        /\ Blocked(s) \in Nat /\ Blocked(r) \in Nat
        /\ LbConcAccesses(s.memory) \in Nat /\ LbConcAccesses(r.memory) \in Nat
    BY <1>2, PathTypes
  <2>2. /\ j.memory.accessCounter = GreaterCount(s.memory.accessCounter, r.memory.accessCounter)
        /\ j.memory.busyCycleCounter =
              GreaterCount(s.memory.busyCycleCounter, r.memory.busyCycleCounter)
        /\ Blocked(j) = LesserCount(Blocked(s), Blocked(r))
        /\ LbConcAccesses(j.memory) =
             LesserCount(LbConcAccesses(s.memory), LbConcAccesses(r.memory))
    BY MergeFields
  <2>3. QED
    BY <1>1, <2>1, <2>2 DEF GreaterCount, LesserCount
<1>6. /\ LbTime(j.memory, j.time) <= LbTime(o.memory, o.time)
      /\ UbTime(o.memory, o.time) <= UbTime(j.memory, j.time)
      /\ FastForwardedBlocking(o.memory).ub <= FastForwardedBlocking(j.memory).ub
      /\ UbAccessCycles(o.memory) <= UbAccessCycles(j.memory)
      /\ UbAccesses(o.memory) <= UbAccesses(j.memory)
      /\ LbTime(j.memory, j.time) \in Nat /\ LbTime(o.memory, o.time) \in Nat
      /\ UbTime(j.memory, j.time) \in Nat /\ UbTime(o.memory, o.time) \in Nat
      /\ FastForwardedBlocking(o.memory).ub \in Nat /\ FastForwardedBlocking(j.memory).ub \in Nat
      /\ UbAccessCycles(o.memory) \in Nat /\ UbAccessCycles(j.memory) \in Nat
      /\ UbAccesses(o.memory) \in Nat /\ UbAccesses(j.memory) \in Nat
  <2>1. /\ LbTime(o.memory, o.time) = o.time.lb + Bus(o).memory.forwarded.lb
        /\ UbTime(o.memory, o.time) = o.time.ub + Bus(o).memory.forwarded.ub
        /\ UbAccessCycles(o.memory) = o.memory.busyCycleCounter + Bus(o).memory.forwarded.ub
        /\ FastForwardedBlocking(o.memory).ub = Bus(o).blocking.ub
        /\ UbAccesses(o.memory) = o.memory.accessCounter
        /\ o.time.lb \in Nat /\ o.time.ub \in Nat /\ o.memory.busyCycleCounter \in Nat
        /\ Bus(o).memory.forwarded.lb \in Nat /\ Bus(o).memory.forwarded.ub \in Nat
        /\ Bus(o).blocking.ub \in Nat /\ o.memory.accessCounter \in Nat
    BY <1>2, PathTypes
  <2>2. /\ LbTime(j.memory, j.time) = j.time.lb + Bus(j).memory.forwarded.lb
        /\ UbTime(j.memory, j.time) = j.time.ub + Bus(j).memory.forwarded.ub
        /\ UbAccessCycles(j.memory) = j.memory.busyCycleCounter + Bus(j).memory.forwarded.ub
        /\ FastForwardedBlocking(j.memory).ub = Bus(j).blocking.ub
        /\ UbAccesses(j.memory) = j.memory.accessCounter
        /\ j.time.lb \in Nat /\ j.time.ub \in Nat /\ j.memory.busyCycleCounter \in Nat
        /\ Bus(j).memory.forwarded.lb \in Nat /\ Bus(j).memory.forwarded.ub \in Nat
        /\ Bus(j).blocking.ub \in Nat /\ j.memory.accessCounter \in Nat
    BY <1>4, PathTypes
  <2>3. QED
    BY <1>4, <1>5, <2>1, <2>2
<1>7. /\ Blocked(j) \in Nat /\ Blocked(o) \in Nat /\ AccessTime \in Nat
      /\ LbConcAccesses(o.memory) \in Nat /\ LbConcAccesses(j.memory) \in Nat
      /\ ConcAccesses(blocked) \in Nat
  <2>1. ConcAccesses(blocked) \in Nat
    BY ConcAccessesGrow
  <2>2. AccessTime \in Nat
    BY LatencyAssumption, AccessAssumption DEF AccessTime
  <2>3. QED
    BY <1>2, <1>4, <2>1, <2>2, PathTypes
<1>8. Covers(j, refresh, blocked)
  <2> DEFINE total == AccessTime + refresh + blocked
  <2>1. PICK skipped \in 0 .. FastForwardedBlocking(o.memory).ub :
          /\ LbTime(o.memory, o.time) <= total
          /\ total <= UbTime(o.memory, o.time) + skipped
          /\ Blocked(o) + skipped <= blocked
          /\ AccessTime + refresh <= UbAccessCycles(o.memory)
          /\ LbConcAccesses(o.memory) <= ConcAccesses(blocked)
          /\ 1 <= UbAccesses(o.memory)
    BY <1>3 DEF Covers, Blocked
  <2>2. total \in Nat
    BY <1>7
  <2> HIDE DEF total
  <2>3. /\ skipped \in 0 .. FastForwardedBlocking(j.memory).ub
        /\ LbTime(j.memory, j.time) <= total
        /\ total <= UbTime(j.memory, j.time) + skipped
        /\ Blocked(j) + skipped <= blocked
    BY <1>5, <1>6, <1>7, <2>1, <2>2
  <2>4. /\ AccessTime + refresh <= UbAccessCycles(j.memory)
        /\ LbConcAccesses(j.memory) <= ConcAccesses(blocked)
        /\ 1 <= UbAccesses(j.memory)
    BY <1>5, <1>6, <1>7, <2>1
  <2>5. QED
    BY <2>3, <2>4 DEF Covers, Blocked, total
<1>9. QED
  BY <1>2, <1>8, PromiseKept

-----------------------------------------------------------------------------
(* The exploration *)

\* Every access the hardware can make is promised by a state that is pending or
\* covered by one that is waiting, which can only mean that it promises it.
IInv ==
  /\ muJoinEnabled \in BOOLEAN
  /\ \A s \in pending : PendingOK(s) /\ MayTake(s)
  /\ \A s \in waiting : WaitingOK(s) /\ (~muJoinEnabled => MayTake(s))
  /\ \A refresh \in Refreshes, blocked \in Blockings :
       \E s \in pending \cup waiting : Promises(s, refresh, blocked)

\* The times the hardware may take are natural numbers.
LEMMA HardwareNat ==
  /\ Refreshes = 0 .. R /\ Blockings = 0 .. B
  /\ AccessTime \in Nat \ {0} /\ R \in Nat /\ B \in Nat
  BY LatencyAssumption, AccessAssumption, BudgetNat DEF Refreshes, Blockings, R, B, AccessTime

\* The one state in which the access was announced promises all its times.
LEMMA InitOK == Init => IInv
<1> SUFFICES ASSUME Init PROVE IInv
  OBVIOUS
<1> DEFINE m == SDRAMAccess(IdleSDRAM, NumWords)
           b == AnnounceAccess(Idle, NumWords)
           c == CountedAccess(CountingIdle, NumWords)
           s == Path(c, Zero)
<1>1. Zero \in CounterType /\ Zero.lb = 0 /\ Zero.ub = 0
  BY DEF Zero, Counter, CounterType
<1>2. /\ m \in SDRAMType /\ m.accessPhase = "ACCESS" /\ m.timeBlocked = AccessTime
      /\ ~m.hasSeenRefresh /\ m.forwarded = Zero
  <2>1. IdleSDRAM \in SDRAMType /\ ~IdleSDRAM.hasSeenRefresh /\ IdleSDRAM.forwarded = Zero
    BY <1>1 DEF IdleSDRAM, SDRAMType
  <2>2. QED
    BY <2>1, HardwareNat DEF SDRAMAccess, SDRAMType, AccessTime
<1> HIDE DEF m
<1>3. /\ b \in BlockingType /\ b.memory = m /\ b.delayedAccess /\ b.addedBlocking = 0
      /\ b.blocking = Zero
  <2>1. /\ Idle \in BlockingType /\ Idle.memory = IdleSDRAM /\ Idle.addedBlocking = 0
        /\ Idle.blocking = Zero
    BY <1>1 DEF Idle, BlockingType, IdleSDRAM, SDRAMType
  <2>2. QED
    BY <1>2, <2>1 DEF AnnounceAccess, BlockingType, m
<1> HIDE DEF b
<1>4. /\ c \in CountingType /\ c.memory = b /\ c.accessCounter = 1
      /\ c.busyCycleCounter = 0 /\ c.blockingCounter = 0 /\ c.concAccesses = 0
  <2>1. /\ CountingIdle \in CountingType /\ CountingIdle.memory = Idle
        /\ CountingIdle.accessCounter = 0 /\ CountingIdle.busyCycleCounter = 0
        /\ CountingIdle.blockingCounter = 0 /\ CountingIdle.concAccesses = 0
    <3>1. IdleSDRAM \in SDRAMType
      BY <1>1 DEF IdleSDRAM, SDRAMType
    <3>2. Idle \in BlockingType
      BY <1>1, <3>1 DEF Idle, BlockingType
    <3>3. QED
      BY <3>2 DEF CountingIdle, CountingType
  <2>2. QED
    <3>1. c = [CountingIdle EXCEPT !.memory = b, !.accessCounter = 1]
      BY <2>1 DEF CountedAccess, CountingType, b
    <3> HIDE DEF c
    <3>2. QED
      BY <1>3, <2>1, <3>1 DEF CountingType
<1> HIDE DEF c
<1>5. s \in PathType /\ s.memory = c /\ s.time = Zero
  BY <1>1, <1>4 DEF Path, PathType
<1> HIDE DEF s
<1>6. /\ Bus(s) = b /\ Blocked(s) = 0 /\ LbConcAccesses(s.memory) = 0
      /\ m.forwarded.lb = 0 /\ m.forwarded.ub = 0
  BY <1>1, <1>2, <1>4, <1>5 DEF Bus, Blocked, LbBlockingCycles, LbConcAccesses
<1>7. SDRAMOK(m) /\ SDRAMBusy(m) /\ MemoryCycles(m) = AccessTime .. AccessTime + R
  BY <1>2, HardwareNat DEF SDRAMOK, SDRAMBusy, MemoryCycles
<1>8. BlockingOK(b) /\ BlockedAlready(b) = 0 /\ BlockingCycles(b) = 0 .. B
  BY <1>3, <1>7, HardwareNat DEF BlockingOK, BlockedAlready, BlockingCycles
<1>9. ConcAccesses(0) \in Nat
  BY ConcAccessesGrow
<1>10. PendingOK(s)
  <2>1. UbAccesses(s.memory) >= 1 /\ LbConcAccesses(s.memory) <= ConcAccesses(Blocked(s))
    BY <1>4, <1>5, <1>6, <1>9, PathTypes
  <2>2. QED
    BY <1>3, <1>5, <1>6, <1>8, <2>1 DEF PendingOK, CountersOK
<1>11. /\ LbTime(s.memory, s.time) = 0 /\ UbTime(s.memory, s.time) = 0
       /\ UbTimeBlocked(s.memory, s.time) = 0 /\ UbAccessCycles(s.memory) = 0
       /\ FastForwardedBlocking(s.memory).ub = 0
  BY <1>1, <1>2, <1>3, <1>4, <1>5, <1>6, PathTypes
<1>12. MayTake(s)
  BY <1>3, <1>6, <1>7, <1>8, <1>11, HardwareNat DEF MayTake
<1>13. ASSUME NEW refresh \in Refreshes, NEW blocked \in Blockings
       PROVE  Promises(s, refresh, blocked)
  <2>1. /\ AccessTime + refresh \in MemoryCycles(m) /\ blocked \in BlockingCycles(b)
        /\ refresh \in Nat /\ blocked \in Nat
    BY <1>7, <1>8, <1>13, HardwareNat
  <2>2. CoversAfter(s, AccessTime + refresh, blocked, refresh, blocked)
    BY <1>6, <1>8, <1>11, <2>1, HardwareNat DEF CoversAfter, Blocked
  <2>3. QED
    BY <1>3, <1>6, <2>1, <2>2 DEF Promises
<1>14. pending = {s} /\ waiting = {} /\ muJoinEnabled \in BOOLEAN
  BY DEF Init, s, c
<1>15. QED
  BY <1>10, <1>12, <1>13, <1>14 DEF IInv

\* One state takes its cycle: its successors replace it, some of them skipped ahead.
LEMMA StepOK ==
  ASSUME IInv, NEW s \in pending, NEW F, Step(s, F)
  PROVE  IInv'
<1> DEFINE busy == {r \in Successors(s) : IsBusy(r.memory.memory)}
<1>1. /\ F \subseteq busy
      /\ pending' = (pending \ {s}) \cup (busy \ F) \cup UNION {Forwarded(r) : r \in F}
      /\ waiting' = waiting \cup (Successors(s) \ busy)
      /\ muJoinEnabled' = muJoinEnabled
  BY DEF Step, Forwarded
<1>2. PendingOK(s) /\ MayTake(s)
  BY DEF IInv
<1>3. ASSUME NEW r \in Successors(s)
      PROVE  /\ MayTake(r)
             /\ IF r \in busy THEN PendingOK(r) /\ Forwardable(Bus(r)) ELSE WaitingOK(r)
  BY <1>2, <1>3, SuccessorOK DEF Bus
<1> HIDE DEF busy
<1>b. busy \subseteq Successors(s)
  BY DEF busy
<1>4. ASSUME NEW r \in pending' PROVE PendingOK(r) /\ MayTake(r)
  <2>1. CASE r \in pending
    BY <2>1 DEF IInv
  <2>2. CASE r \in busy
    BY <1>3, <1>b, <2>2
  <2>3. CASE r \in UNION {Forwarded(q) : q \in F}
    <3>1. PICK q \in F : r \in Forwarded(q)
      BY <2>3
    <3>2. PendingOK(q) /\ Forwardable(Bus(q)) /\ MayTake(q)
      BY <1>1, <1>3, <1>b
    <3>3. QED
      BY <3>1, <3>2, ForwardedOK
  <2>4. QED
    BY <1>1, <1>4, <2>1, <2>2, <2>3
<1>5. ASSUME NEW r \in waiting' PROVE WaitingOK(r) /\ (~muJoinEnabled' => MayTake(r))
  BY <1>1, <1>3, <1>5 DEF IInv
<1>6. ASSUME NEW refresh \in Refreshes, NEW blocked \in Blockings
      PROVE  \E r \in pending' \cup waiting' : Promises(r, refresh, blocked)
  <2>1. refresh \in Nat /\ blocked \in Nat
    BY HardwareNat
  <2>2. PICK r \in pending \cup waiting : Promises(r, refresh, blocked)
    BY DEF IInv
  <2>3. CASE r # s \/ r \in waiting
    BY <1>1, <2>2, <2>3
  <2>4. CASE r = s
    <3>1. PICK q \in Successors(s) : Promises(q, refresh, blocked)
      BY <1>2, <2>1, <2>2, <2>4, SuccessorMeets
    <3>2. CASE q \in F
      <4>1. PendingOK(q) /\ Forwardable(Bus(q))
        BY <1>1, <1>3, <3>2
      <4>2. \E p \in Forwarded(q) : Promises(p, refresh, blocked)
        BY <2>1, <3>1, <4>1, ForwardedMeets
      <4>3. QED
        BY <1>1, <3>2, <4>2
    <3>3. CASE q \notin F
      BY <1>1, <3>1, <3>3
    <3>4. QED
      BY <3>2, <3>3
  <2>5. QED
    BY <2>3, <2>4
<1>7. QED
  BY <1>1, <1>4, <1>5, <1>6 DEF IInv, Refreshes, Blockings

\* Two states that wait are joined.
LEMMA MergeStepOK ==
  ASSUME IInv, NEW s \in waiting, NEW r \in waiting, Merge(s, r)
  PROVE  IInv'
<1> DEFINE j == Path(CountedJoin(s.memory, r.memory), JoinedCounter(s.time, r.time))
<1>1. /\ muJoinEnabled /\ muJoinEnabled' = muJoinEnabled /\ pending' = pending
      /\ waiting' = (waiting \ {s, r}) \cup {j}
  BY DEF Merge
<1>2. WaitingOK(s) /\ WaitingOK(r)
  BY DEF IInv
<1>3. WaitingOK(j)
  BY <1>2, MergeOK
<1>4. ASSUME NEW refresh \in Refreshes, NEW blocked \in Blockings
      PROVE  \E q \in pending' \cup waiting' : Promises(q, refresh, blocked)
  <2>1. refresh \in Nat /\ blocked \in Nat
    BY HardwareNat
  <2>2. PICK q \in pending \cup waiting : Promises(q, refresh, blocked)
    BY DEF IInv
  <2>3. Promises(s, refresh, blocked) \/ Promises(r, refresh, blocked) =>
          Promises(j, refresh, blocked)
    BY <1>2, <2>1, MergeCovers
  <2> HIDE DEF j
  <2>4. QED
    BY <1>1, <2>2, <2>3
<1> HIDE DEF j
<1>5. QED
  BY <1>1, <1>3, <1>4 DEF IInv, Refreshes, Blockings

\* The invariant holds in every reachable state of the exploration: each state is
\* in order, takes no time the hardware cannot take, and no access is forgotten.
THEOREM Invariant == Spec => []IInv
<1>1. IInv /\ [Next]_vars => IInv'
  <2> SUFFICES ASSUME IInv, [Next]_vars PROVE IInv'
    OBVIOUS
  <2>1. CASE Progress
    BY <2>1, StepOK DEF Progress
  <2>2. CASE \E s, r \in waiting : Merge(s, r)
    BY <2>2, MergeStepOK
  <2>3. CASE UNCHANGED vars
    BY <2>3 DEF IInv, vars, Refreshes, Blockings
  <2>4. QED
    BY <2>1, <2>2, <2>3 DEF Next
<1>2. QED
  BY InitOK, <1>1, PTL DEF Spec

\* The memories are what the code asserts of them: an idle one carries nothing
\* over to the next access, and none is blocked beyond its budget.
THEOREM TypeCorrect == Spec => []TypeOK
<1>1. IInv => TypeOK
  <2> SUFFICES ASSUME IInv, NEW s \in pending \cup waiting
               PROVE  /\ s \in PathType
                      /\ Bus(s).addedBlocking <=
                           IF Bus(s).delayedAccess THEN MaxBlockingPerAccess ELSE 0
                      /\ s \in waiting => Joinable(Bus(s), Idle)
    BY DEF TypeOK, Bus
  <2>1. /\ s \in PathType
        /\ BlockingOK(Bus(s)) \/ DoneOK(Bus(s))
        /\ s \in waiting => DoneOK(Bus(s))
    BY DEF IInv, PendingOK, WaitingOK, CountersOK
  <2>2. Bus(s).addedBlocking <= IF Bus(s).delayedAccess THEN MaxBlockingPerAccess ELSE 0
    BY <2>1, LatencyAssumption, PathTypes DEF BlockingOK, DoneOK, B
  <2>3. ASSUME s \in waiting PROVE Joinable(Bus(s), Idle)
    <3>1. /\ Bus(s).memory \in SDRAMType
          /\ Bus(s).memory.accessPhase = "IDLE" /\ Bus(s).memory.timeBlocked = 0
          /\ ~Bus(s).memory.hasSeenRefresh
          /\ Bus(s).delayedAccess = FALSE /\ Bus(s).addedBlocking = 0
      BY <2>1, <2>3 DEF DoneOK, SDRAMOK, SDRAMBusy, BlockingType
    <3>2. SDRAMJoinable(Bus(s).memory, IdleSDRAM)
      <4>1. Zero \in CounterType
        BY DEF Zero, Counter, CounterType
      <4>2. /\ IdleSDRAM \in SDRAMType /\ IdleSDRAM.accessPhase = "IDLE"
            /\ IdleSDRAM.timeBlocked = 0 /\ IdleSDRAM.hasSeenRefresh = FALSE
        BY <4>1 DEF IdleSDRAM, SDRAMType
      <4>3. \A m, n \in SDRAMType :
              /\ m.accessPhase = n.accessPhase /\ m.timeBlocked = n.timeBlocked
              /\ m.hasSeenRefresh = n.hasSeenRefresh
              => [m EXCEPT !.forwarded = Zero] = [n EXCEPT !.forwarded = Zero]
        BY DEF SDRAMType
      <4>4. QED
        BY <3>1, <4>2, <4>3 DEF SDRAMJoinable, SDRAMType
    <3>3. QED
      BY <3>1, <3>2 DEF Joinable, Idle
  <2>4. QED
    BY <2>1, <2>2, <2>3
<1>2. QED
  BY <1>1, Invariant, PTL

\* fastForward() never meets a memory it was not written for, whatever has been
\* split, skipped and joined before.
THEOREM ForwardingAllowed == Spec => []MayForward
<1>1. IInv => MayForward
  <2> SUFFICES ASSUME IInv, NEW s \in pending, NEW r \in Successors(s), IsBusy(Bus(r))
               PROVE  ForwardAssertion(Bus(r))
    BY DEF MayForward, Bus
  <2>1. PendingOK(r) /\ Forwardable(Bus(r))
    BY SuccessorOK DEF IInv
  <2>2. QED
    BY <2>1, ForwardAllowed DEF PendingOK
<1>2. QED
  BY <1>1, Invariant, PTL

\* Whatever latencies, budgets and options: every access the hardware can make is
\* covered by a path when the exploration is done.
THEOREM AccessesCovered == Spec => []EveryAccessCovered
<1>1. IInv => EveryAccessCovered
  <2> SUFFICES ASSUME IInv, pending = {}, NEW refresh \in Refreshes, NEW blocked \in Blockings
               PROVE  \E s \in waiting : Covers(s, refresh, blocked)
    BY DEF EveryAccessCovered
  <2>1. PICK s \in waiting : Promises(s, refresh, blocked)
    BY DEF IInv
  <2>2. WaitingOK(s) /\ refresh \in Nat /\ blocked \in Nat
    BY HardwareNat DEF IInv
  <2>3. QED
    BY <2>1, <2>2, PromiseKept
<1>2. QED
  BY <1>1, Invariant, PTL

\* No path that has not been joined stands for a time no access takes.
THEOREM TimesPossible == Spec => []NoImpossibleTime
<1>1. IInv => NoImpossibleTime
  <2> SUFFICES ASSUME IInv, ~muJoinEnabled, NEW s \in waiting
               PROVE  /\ AccessTime <= LbTime(s.memory, s.time)
                      /\ UbTimeBlocked(s.memory, s.time) <= AccessTime + R + B
    <3>1. R \in Refreshes /\ B \in Blockings
      BY HardwareNat
    <3>2. QED
      BY <3>1 DEF NoImpossibleTime
  <2>1. WaitingOK(s) /\ MayTake(s) /\ s \in PathType
    BY DEF IInv, WaitingOK, CountersOK
  <2>2. MemoryCycles(Bus(s).memory) = {0} /\ BlockingCycles(Bus(s)) = {0}
    BY <2>1 DEF WaitingOK, DoneOK, MemoryCycles, BlockingCycles, SDRAMBusy
  <2>3. /\ AccessTime <= LbTime(s.memory, s.time) + 0
        /\ UbTimeBlocked(s.memory, s.time) + 0 + 0 <= AccessTime + R + B
    BY <2>1, <2>2 DEF MayTake
  <2>4. LbTime(s.memory, s.time) \in Nat /\ UbTimeBlocked(s.memory, s.time) \in Nat
    BY <2>1, PathTypes
  <2>5. QED
    BY <2>3, <2>4, HardwareNat
<1>2. QED
  BY <1>1, Invariant, PTL

-----------------------------------------------------------------------------
(* Refreshes counted once and for all *)

\* What FixedLatencyCyclingMemory keeps of the memory.
AsFixed(m) == [timeBlocked |-> m.timeBlocked, forwarded |-> m.forwarded]

\* With the option DRAMREFRESH, refreshes are added to the bound of the program
\* instead.  Then the SDRAM is a memory of fixed latency: whatever happens to it
\* and to the latter leaves no way to tell them apart.
THEOREM CompositionalRefreshIsFixed ==
  ASSUME NEW m, SDRAMOK(m), NEW n, SDRAMOK(n), ~RefreshesSplit
  PROVE  /\ SDRAMBusy(m) <=> FixedBusy(AsFixed(m))
         /\ \A numWords \in Nat :
              AsFixed(SDRAMAccess(m, numWords))
                = FixedAccess(AsFixed(m), Latency, PerWordLatency, numWords)
         /\ {AsFixed(o) : o \in SDRAMCycle(m)} = {FixedCycle(AsFixed(m))}
         /\ SDRAMBusy(m) =>
              {AsFixed(o) : o \in SDRAMFastForward(m)} = {FixedFastForward(AsFixed(m))}
         /\ SDRAMJoinable(m, n) <=> FixedJoinable(AsFixed(m), AsFixed(n))
         /\ AsFixed(SDRAMJoin(m, n)) = FixedJoin(AsFixed(m), AsFixed(n))
<1>1. /\ m \in SDRAMType /\ m.timeBlocked \in Nat /\ m.forwarded \in CounterType
      /\ m.timeBlocked = 0 <=> m.accessPhase = "IDLE"
      /\ m.accessPhase \in {"IDLE", "ACCESS"} /\ m.hasSeenRefresh = FALSE
  BY DEF SDRAMOK, SDRAMType
<1>2. /\ n \in SDRAMType /\ n.timeBlocked \in Nat /\ n.forwarded \in CounterType
      /\ n.timeBlocked = 0 <=> n.accessPhase = "IDLE"
      /\ n.accessPhase \in {"IDLE", "ACCESS"} /\ n.hasSeenRefresh = FALSE
  BY DEF SDRAMOK, SDRAMType
<1>3. SDRAMBusy(m) <=> FixedBusy(AsFixed(m))
  BY <1>1 DEF SDRAMBusy, FixedBusy, AsFixed
<1>4. ASSUME NEW numWords \in Nat
      PROVE  AsFixed(SDRAMAccess(m, numWords))
               = FixedAccess(AsFixed(m), Latency, PerWordLatency, numWords)
  <2>1. PerWordLatency * numWords = numWords * PerWordLatency
    BY LatencyAssumption
  <2>2. /\ SDRAMAccess(m, numWords).timeBlocked = Latency + PerWordLatency * numWords
        /\ SDRAMAccess(m, numWords).forwarded = m.forwarded
    BY <1>1 DEF SDRAMAccess, SDRAMType
  <2>3. QED
    BY <2>1, <2>2 DEF FixedAccess, AsFixed
<1>5. {AsFixed(o) : o \in SDRAMCycle(m)} = {FixedCycle(AsFixed(m))}
  <2>1. PICK o : SDRAMCycle(m) = {o}
    BY <1>1 DEF SDRAMCycle
  <2>2. AsFixed(o) = FixedCycle(AsFixed(m))
    <3>1. /\ o.forwarded = m.forwarded
          /\ \/ ~SDRAMBusy(m) /\ o = m
             \/ SDRAMBusy(m) /\ m.timeBlocked = 1 /\ o.timeBlocked = 0
             \/ SDRAMBusy(m) /\ m.timeBlocked > 1 /\ o.timeBlocked = m.timeBlocked - 1
      BY <1>1, <2>1, SDRAMCycleCases
    <3>2. QED
      BY <1>1, <1>3, <3>1 DEF FixedCycle, FixedBusy, AsFixed
  <2>3. QED
    BY <2>1, <2>2
<1>6. ASSUME SDRAMBusy(m)
      PROVE  {AsFixed(o) : o \in SDRAMFastForward(m)} = {FixedFastForward(AsFixed(m))}
  <2> DEFINE last == LastCycle(m)
             o == [last EXCEPT !.forwarded = Advance(@, Skipped(m))]
  <2>1. last \in SDRAMType /\ last.timeBlocked = 1 /\ last.forwarded = m.forwarded
    BY <1>1 DEF LastCycle, SDRAMType
  <2> HIDE DEF last
  <2>2. o.timeBlocked = 1 /\ o.forwarded = Advance(m.forwarded, m.timeBlocked - 1)
    BY <2>1 DEF SDRAMType, Skipped
  <2>3. SDRAMFastForward(m) = {o}
    BY <1>1, <1>6 DEF SDRAMFastForward, SDRAMBusy, last
  <2> HIDE DEF o
  <2>4. AsFixed(o) = FixedFastForward(AsFixed(m))
    <3> DEFINE skipped == Advance(m.forwarded, m.timeBlocked - 1)
    <3>1. m.timeBlocked - 1 \in Nat
      BY <1>1, <1>6 DEF SDRAMBusy
    <3>2. skipped \in CounterType
      BY <1>1, <3>1 DEF Advance, Plus, Counter, CounterType
    <3> HIDE DEF skipped
    <3>3. \A f \in FixedType :
            /\ [f EXCEPT !.timeBlocked = 1, !.forwarded = skipped] \in FixedType
            /\ [f EXCEPT !.timeBlocked = 1, !.forwarded = skipped].timeBlocked = 1
            /\ [f EXCEPT !.timeBlocked = 1, !.forwarded = skipped].forwarded = skipped
      BY <3>2 DEF FixedType
    <3>4. AsFixed(m) \in FixedType
      BY <1>1 DEF AsFixed, FixedType
    <3>5. FixedFastForward(AsFixed(m)) = [AsFixed(m) EXCEPT !.timeBlocked = 1, !.forwarded = skipped]
      BY DEF FixedFastForward, AsFixed, skipped
    <3>6. \A f \in FixedType : f = [timeBlocked |-> f.timeBlocked, forwarded |-> f.forwarded]
      BY DEF FixedType
    <3>7. QED
      BY <2>2, <3>3, <3>4, <3>5, <3>6 DEF AsFixed, skipped
  <2>5. QED
    BY <2>3, <2>4
<1>7. SDRAMJoinable(m, n) <=> FixedJoinable(AsFixed(m), AsFixed(n))
  <2>1. SDRAMJoinable(m, n) <=> m.accessPhase = n.accessPhase /\ m.timeBlocked = n.timeBlocked
    BY <1>1, <1>2 DEF SDRAMJoinable, SDRAMType
  <2>2. QED
    BY <1>1, <1>2, <2>1 DEF FixedJoinable, AsFixed
<1>8. AsFixed(SDRAMJoin(m, n)) = FixedJoin(AsFixed(m), AsFixed(n))
  BY <1>1, <1>2 DEF SDRAMJoin, FixedJoin, AsFixed, SDRAMType
<1>9. QED
  BY <1>3, <1>4, <1>5, <1>6, <1>7, <1>8
====
