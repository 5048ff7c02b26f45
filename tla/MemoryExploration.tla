-------------------------- MODULE MemoryExploration --------------------------
(***************************************************************************)
(* The exploration of a memory access: every state is a memory and the     *)
(* time its path has taken.  A state is replaced by what cycle() returns;  *)
(* a successor whose pipeline has converged is fast-forwarded at once      *)
(* (fastForwardAndInsert); states whose access has just finished wait for  *)
(* join and may be joined.  An access leaves nothing but counters behind   *)
(* (TypeOK), so what holds of one access holds of every sequence of them.  *)
(* The counters are those the path analysis takes its weights from.        *)
(*                                                                         *)
(* The bounds of the program's execution time are those of the explored    *)
(* times, so the explored intervals must cover exactly the times the       *)
(* hardware can take.                                                      *)
(***************************************************************************)
EXTENDS CountingMemories

CONSTANTS NumWords,  \* the words of the access
          MaxTime    \* bound of the model on a path's time, never reached

ASSUME AccessAssumption == NumWords \in Nat \ {0} /\ MaxTime \in Nat

VARIABLES muJoinEnabled,  \* the option: waiting states are joined
          pending,        \* the states whose access is not finished
          waiting         \* the states whose access is: isWaitingForJoin()

vars == <<muJoinEnabled, pending, waiting>>

PathType == [memory : CountingType, time : CounterType]
Path(c, time) == [memory |-> c, time |-> time]

Init ==
  /\ muJoinEnabled \in BOOLEAN
  /\ pending = {Path(CountedAccess(CountingIdle, NumWords), Zero)}
  /\ waiting = {}

\* State s takes a cycle; the successors in F have converged and are fast-
\* forwarded.
Successors(s) == {Path(c, Advance(s.time, 1)) : c \in CountedCycle(s.memory)}
Step(s, F) ==
  LET busy == {r \in Successors(s) : IsBusy(r.memory.memory)}
  IN  /\ s.time.ub < MaxTime
      /\ F \subseteq busy
      /\ pending' = (pending \ {s}) \cup (busy \ F) \cup
           UNION {{Path(c, r.time) : c \in CountedForward(r.memory)} : r \in F}
      /\ waiting' = waiting \cup (Successors(s) \ busy)
      /\ UNCHANGED muJoinEnabled

\* Two waiting states are joined: one remains.
Merge(s, r) ==
  /\ muJoinEnabled
  /\ s # r /\ CountedJoinable(s.memory, r.memory)
  /\ waiting' = (waiting \ {s, r}) \cup
       {Path(CountedJoin(s.memory, r.memory), JoinedCounter(s.time, r.time))}
  /\ UNCHANGED <<muJoinEnabled, pending>>

Progress == \E s \in pending : \E F \in SUBSET Successors(s) : Step(s, F)

Next == Progress \/ \E s, r \in waiting : Merge(s, r)

\* The worklist of the exploration is processed until it is empty.
Spec == Init /\ [][Next]_vars /\ WF_vars(Progress)

-----------------------------------------------------------------------------
\* An idle memory carries nothing but counters over to the next access, which
\* announceAccess() and cycle() assert; the blocking stays within the budget.
TypeOK ==
  \A s \in pending \cup waiting :
    LET b == s.memory.memory
    IN  /\ s \in PathType
        /\ b.addedBlocking <= IF b.delayedAccess THEN MaxBlockingPerAccess ELSE 0
        /\ s \in waiting => Joinable(b, Idle)

\* The assertions of fastForward() hold of every memory it may be called on,
\* those that were fast-forwarded a cycle ago included ("Not started with
\* blocking phase, but have blocked cycles already").
MayForward ==
  \A s \in pending : \A r \in Successors(s) :
    IsBusy(r.memory.memory) => ForwardAssertion(r.memory.memory)

\* What the hardware does in an access: the wrapped memory takes its latency
\* and refreshes for a while, then the bus is blocked for a while by other
\* cores, each of which needs it for AccessLatency cycles.
AccessTime == Latency + PerWordLatency * NumWords
Refreshes == 0 .. IF RefreshesSplit THEN DRAMRefreshLatency ELSE 0
Blockings == 0 .. IF BlockingSplits THEN MaxBlockingPerAccess ELSE 0
ConcAccesses(blocked) == (blocked + AccessLatency - 1) \div AccessLatency

\* The weights of path s leave room for an access that refreshes and is blocked for
\* the given times: the co-runner-sensitive analysis may take it to be blocked
\* for that long, and then counts no more time, access cycles and accesses of
\* other cores, and no fewer, than there are.
Covers(s, refresh, blocked) ==
  LET c == s.memory
      total == AccessTime + refresh + blocked
  IN  /\ LbTime(c, s.time) <= total
      /\ \E skipped \in 0 .. FastForwardedBlocking(c).ub :
           /\ total <= UbTime(c, s.time) + skipped
           /\ LbBlockingCycles(c) + skipped <= blocked
      /\ AccessTime + refresh <= UbAccessCycles(c)
      /\ LbConcAccesses(c) <= ConcAccesses(blocked)
      /\ 1 <= UbAccesses(c)

\* A bound of the path analysis is never exceeded by an execution: when the
\* exploration is done, everything the hardware can do is covered by some path,
\* however its states were split, skipped ahead and joined.
EveryAccessCovered ==
  pending = {} =>
    \A refresh \in Refreshes, blocked \in Blockings :
      \E s \in waiting : Covers(s, refresh, blocked)

\* No path stands for a time its access cannot take, as long as nothing is
\* joined: skipping ahead neither forgets cycles nor counts them twice.  (A
\* join bounds every counter of the two states by itself, and the sum of the
\* bounds may exceed both.)
NoImpossibleTime ==
  ~muJoinEnabled => \A s \in waiting :
    /\ AccessTime <= LbTime(s.memory, s.time)
    /\ \E refresh \in Refreshes, blocked \in Blockings :
         UbTimeBlocked(s.memory, s.time) <= AccessTime + refresh + blocked

\* Every exploration of an access comes to its end: no memory stays busy for
\* ever.
Terminates == <>(pending = {})
=============================================================================
