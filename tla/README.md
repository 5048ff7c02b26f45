# A verification of llvm-tgta

llvm-tgta computes bounds on the worst-case (and best-case) execution time of a
program for a given processor: it walks over LLVM machine code, simulates an
abstract pipeline, abstract caches and abstract memories cycle by cycle, splits
the simulation wherever the hardware may do one thing or another, joins states
again where that loses little, builds a graph of the states and their times and
asks an ILP solver for the longest path through it. The result is a bound: a
single execution that no abstract state stands for makes it wrong. None of this
fails loudly. A unit test compares numbers; it does not see the hardware
behaviour that was forgotten.

The specifications in this directory say what the abstract states stand for and
check, over all orders of accesses, splits, joins and skipped cycles, that no
execution is lost. Paths below are relative to the root of the repository.

    tlc -workers 2 -config CacheSet.cfg CacheSet         # one run
    tlapm MemoryExplorationProofs.tla                    # the proofs of one module

`PROJECT.json` lists the components, the runs, for every definition the lines it
models, the hazards of the code and the theorems.


## 1. The system

### 1.1 Components

| component | source | state | operations | what makes it correct |
|---|---|---|---|---|
| LRU set analyses | `include/Memory/LruMaxAgeAbstractCache.h`, `LruMinAgeAbstractCache.h`, `CompositionalAbstractCache.h` | sorted arrays of tags and age bounds; the may analysis also one age for all other tags | `classify`, `update`, `potentialUpdate`, `join`, `lessequal` | bounds enclose the real age; classifications are true; order kept; `join` an upper bound and `update` monotone |
| abstract caches | `include/Memory/AbstractCache.h` | one set analysis per cache set | address to set and tag, `classify` and `update` of intervals, `join` | an imprecise access ages every set it may reach |
| persistence, dirtiness, array-aware caches | `include/Memory/*Persistence*.h`, `Dirtiness*.h`, `ArrayAwareMustAges.h` | counters and tags per scope | `enterScope`, `leaveScope`, `update`, `join` | a persistent line misses at most once per scope |
| cycling memories | `lib/Memory/SimpleSDRAMCyclingMemory.cpp`, `include/Memory/FixedLatencyCyclingMemory.h`, `BlockingCyclingMemory.h` | phase, remaining cycles, refresh and blocking flags, interval of skipped cycles | `announceAccess`, `cycle`, `fastForward`, `join`, `isBusy` | the times counted are those the hardware can take |
| counting memories | `include/Memory/*CounterCyclingMemory.h` | counters of accesses, blocking, busy cycles | the same, wrapped | the counters bound what happened |
| memory topologies | `include/Memory/SingleMemoryTopology.h`, `SeparateMemoriesTopology.h`, `JJYSeparateCachesMemoryTopology.h` | queues of accesses, ids, caches, memories | `accessInstr`, `accessData`, `cycle`, `finished*Access`, `shouldPipelineStall`, `fastForward`, `join` | every access is answered once, in the promised order |
| pipelines | `include/MicroarchitecturalAnalysis/InOrderPipelineState.h`, `OutOfOrderPipelineState.h`, `PretPipelineState.h`, `FixedLatencyState.h` | stage registers, flags, pending access ids, a topology | `cycle` (a list of successors), `isFinal`, `hasConverged`, `join` | every behaviour of the processor is among the successors |
| states and exploration | `MicroArchitecturalState.h`, `StateExplorationDomain.h`, `ConvergenceDetection*.h` | pc, time, assumptions on branches and returns; sets of states | `handleBranching`, `cycleUntilFinal`, `transfer`, `guard`, `enterBasicBlock`, `insertOnInstr` | when an instruction has finished, each execution has a state that covers it |
| analysis framework | `include/AnalysisFramework/*.h` | analysis information per program point and context; a worklist | `AnalysisDriver`: transfer, guard, join until nothing changes | a fixpoint is reached and is sound at every point |
| partitioning | `include/PartitionUtil/*.h` | contexts, tokens, directives | context transfer, merging | contexts are neither confused nor lost |
| value and address analysis | `lib/PreprocessingAnalysis/*.cpp` | register and stack values | transfer per machine instruction | addresses enclosed |
| path analysis | `include/PathAnalysis/*.h`, `lib/PathAnalysis/*.cpp` | state graphs with edge weights, flow constraints | graph construction, callbacks, ILP | each execution is a path of the graph and fulfils the constraints |
| co-runner-sensitive analysis | `include/LLVMPasses/DispatchPathAnalysis.h` | bounds on time and interference, exchanged in rounds with the analyses of the other cores | path analyses, arrival curves | the final bounds hold together |
| CRPD | `include/Memory/crpd/*.h`, `lib/Memory/crpd/*.cpp` | per program point: useful and evicting cache blocks, resilience (not modelled) | fixpoint iterations over the state graph | a preemption costs no more than the bounds |
| dispatch, options, output | `lib/LLVMPasses/*.cpp`, `lib/Util/*.cpp`, `llvmta/llvmta.cpp` | globals | choose and configure the analyses | glue |

### 1.2 How they interact

`AnalysisDriver` applies a domain's `transfer` and `guard` along the control flow
graph. For timing, the domain is `StateExplorationDomain`: for one instruction it
takes a set of pipeline states and calls `cycle()` on each until the instruction
has left the pipeline. `cycle()` returns a *list* of states. The list grows
wherever the hardware may go on in several ways: an instruction may take several
latencies, a branch may be taken, a cache access may hit, a DRAM refresh or a bus
access of another core may come now. A pipeline calls its topology
(`accessInstr`, `accessData`), gets an id, and asks each cycle whether that id
has finished. The topology asks its caches, and gives what misses to a cycling
memory. Everything is single-threaded C++. The concurrency is that of the
modelled hardware (stages, instruction and data accesses, memory, other cores),
of the alternatives that one exploration keeps in its sets, and, in the
co-runner-sensitive analysis, of one process per core that exchange lines of text.

The value analysis runs first, over the same driver, and finds the addresses of
data accesses and the contexts of calls. The states that the timing analysis finds
on entry to a block become the vertices of the state graph, the time between them
the weights of its edges; flow constraints from loop bounds, calls and persistence
scopes make an integer program of it.

### 1.3 What is hard

* **Splits.** A list of successors must hold every way to go on; a split that is
  taken once too few or at the wrong cycle loses executions.
* **Joins.** States are compared by hand-written `isJoinable` functions that leave
  fields aside; what is left aside must not matter, and must be joined.
* **Fast-forwarding.** When only the memory still changes (the state has
  *converged*), the remaining cycles are skipped and kept as an interval. This is
  right only if the pipeline really would have stood still.
* **Sorted vectors by hand.** The set analyses shift and merge entries in place.
* **Ids and one-cycle flags.** A finished access is announced for one cycle, ids
  are compared relative to a counter, and a flush has to forget a fetch that is
  under way.
* **Queued assumptions.** A state remembers which way it assumed branches to go;
  `guard` consumes these much later.
* **Contexts.** Directives push and pop tokens at functions, calls and edges; calls
  keep only the newest tokens of a kind, and information has to be found again in
  the context in which it was stored.
* **Late updates.** A cache is updated when an access comes back, with the
  classification of when it started, and the sides of a split hierarchy overtake
  each other.
* **Counts instead of sets.** Persistence analyses bound the lines that a line competes
  with by counters; joins, arrays and imprecise accesses must not undercount them.
* **Bounds that depend on each other.** Each core computes its bound from those that the
  others had in the round before.

`PROJECT.json` lists these hazards one by one, at the line where each bites, with
the properties that are aimed at it.


## 2. The modules

    AgeVectors <-- LruMaxAge, LruMinAge <-- CacheSet ......> AgeBounds <-- AgeBoundsProofs
                            ^                  ^ (implements)
                            |                  +-- CacheSetProofs --+
                            |                                       +-> AgeVectorProofs
                            +-- AbstractCache <-- AbstractCacheProofs --+
                            +-- DirtinessAnalysis --+
    AgeVectors <-- Persistence ---------------------+-- ScopedCacheSet <-- ScopedCacheSetProofs
                            |                                               (FiniteSums)
                            +-- PreemptionDelay
                            +-- LruAnalysis ....................+  (INSTANCE)
                                                                v
    CyclingMemories <-- SingleMemoryTopology <------------ SeparateCaches <-- CachesExploration
         ^                      ^   (SeparateMemoriesTopology)
         |                 PipelineProgram <-- InOrderPipeline, OutOfOrderPipeline, PretPipeline
         |                      ^                               . (INSTANCE)
         |                      +-------------------- PipelineExploration
         +-- CountingMemories <-- MemoryExploration <-- MemoryExplorationProofs

    MachineProgram <-- Contexts <-- StateExploration <-- StateGraph <-- FlowConstraints
         ^                 ^                                                  ^
         |                 +-- ProgramPaths <------------------- StateGraphExecution
         +-- ConstantValueDomain <-- AnalysisDriver (with ProgramPaths)

    CoRunnerSensitive <-- CoRunnerExecution <-- CoRunnerProofs (FiniteSums)

`A <-- B` says that B extends A. The definitions of the three pipelines and of the two
topologies carry the name of theirs where one name would stand for two things. An `MC...` module gives small values to the constants of
the module it is named after; `CacheSet`, `ScopedCacheSet`, `CachesExploration` and
`CoRunnerExecution` have them at their end. Each `.cfg` is one run. Where a model has a
counterpart that the code does not keep, such as the concrete cache behind a path or
the processor beside an exploration, it is there because the code's states are about it;
the comments in the module headers name it.

### Caches

**`AgeBounds`** is the abstract specification of an LRU set analysis. A *path*
is one state of the exploration. It has, for every tag, the age in the concrete
cache set this path simulates, and a lower and an upper bound. The actions are an
access to a known line (known, or assumed after a split, to hit or not), an
access to an unknown address, and the join of two paths, after which the path
goes on with either concrete set.

**`AgeVectors`, `LruMaxAge`, `LruMinAge`** are the data structures: sorted vectors
and the loops that shift, merge and join them, with `ageOfImplicitTags` of the may
analysis and its limit of worthwhile tags. **`CacheSet`** composes both, as
`CompositionalAbstractCache` does, on several paths with their concrete sets, and
adds accesses by other cores to the set of a shared L2. Its `BoundsSpec` is
`AgeBounds!Spec` under the mapping that reads the bounds off the vectors.
**`AbstractCache`** maps intervals of addresses to sets and tags over such sets,
classifies an interval by the join over its lines, updates one set when the line is
known, and ages every set that the interval may reach otherwise, around the end of
the cache.

**`Persistence`** has the set-wise and the element-wise counting analysis, the
conditional must analysis and the scopes around them; **`DirtinessAnalysis`** what
is known of dirty lines, which asks the two age analyses before and after their own
updates. **`ScopedCacheSet`** puts together what `makeOptionsCache` does for a data
cache (a record `config` says what), with a followed path whose concrete cache, misses
and stores are kept, and another one that it is split from and joined with.

**`LruAnalysis`** is a set as a topology of two levels uses it, **`SeparateCaches`** the
topology `JJYSeparateCachesMemoryTopology`, **`CachesExploration`** the analysis beside
hardware: the same topology with caches that are known exactly.

**`PreemptionDelay`** has the domains of the CRPD analyses, `GraphIterator`, which runs
five of them one after another (`Iterate`, `FinishPass`), what is computed from their
results, and then a task that runs (`RunEdge`), is preempted once at any vertex
(`Preempt`) by another task (`OtherEdge`), next to itself undisturbed.

### Memories and pipelines

**`CyclingMemories`** has the SDRAM with its latency and refreshes, the memory of fixed
latency, and the wrapper for bus blocking. `cycle()` and `fastForward()` are operators that
return the set of memories the code returns a list of. **`CountingMemories`** are the
wrappers that count for the path analysis. **`MemoryExploration`** explores an access: states are cycled,
fast-forwarded in any of the cycles in which the pipeline may have converged,
and joined in any order. One access is enough: the type invariant says that an
idle memory carries nothing over to the next but its counters.

**`SingleMemoryTopology`** has one memory behind two queues. Ids are kept as in
the code and *rebased* after each cycle, so that the model stays finite: `==` and
`isJoinable` look only at how far an id lies behind `currentId`, and so does
`Rebased`. **`SeparateMemoriesTopology`** has a scratchpad for instructions beside the
memory for data (`PRIVINSTRSPMDATASHARED`); both are busy at the same time, and only one
that is busy alone is fast-forwarded. `PipelineProgram` calls one of the two topologies as
`MemoryTopologyInterface` does.

**`InOrderPipeline`** (also strictly in-order), **`OutOfOrderPipeline`** and
**`PretPipeline`** give the successors of a state as `cycle()` does, stage by stage from
the last to the first. **`PipelineProgram`** is what they have in common.
**`PipelineExploration`** is `StateExplorationDomain` over each of them (`Cores`; `INORDERSPM`
is the in-order pipeline with the scratchpad), next to the processor: `hw` is one state that takes one successor at a time, is never
fast-forwarded and never joined. For each instruction on its way, the exploration
first runs until its working set is empty (`working`,
`intermediate` and `results` as in `cycleUntilFinal`), then the processor runs
until it has finished the instruction, then `guard` and
`enterBasicBlock` are applied for the way the processor went.

### Programs and paths

**`MachineProgram`** is what the compiler hands over, with loops, branches and calls;
**`Contexts`** are tokens and directives; **`ProgramPaths`** is the program that
runs, with its calls and counted iterations. **`ConstantValueDomain`** has the transfer
functions of the value analysis, **`AnalysisDriver`** the partitioned domain and the
worklists of `AnalysisDriverInstr`, followed by a run of the program.

**`StateExploration`** is the microarchitectural fixpoint over blocks, functions and
contexts on a core that executes one instruction at a time. **`StateGraph`** goes through
the blocks again and builds the graph, or in its place `InsensitiveGraph`
(`option.insensitive`), which has one vertex for each end of a block and each side of a
call, in no context, and takes the times of an edge from all states at its end.
**`FlowConstraints`** has the constraints on whole runs and on parts of runs (the arrival
curves need them). **`StateGraphExecution`** then follows the program along the edges of
the graph.

**`CoRunnerSensitive`** has one analysis per core; each step is one round's part of one
core, and the cores go at their own speed. **`CoRunnerExecution`** then runs the programs
on a bus with round-robin arbitration.


## 3. The runs

Every run explores its whole state space.

| run | question | bounds |
|---|---|---|
| `age_bounds` | Are the abstract bounds sound over accesses, imprecise accesses and joins? | 3 tags, 2 ways, 2 paths |
| `cache_set` | Do the vectors classify truly, join to the least upper bound, update monotonically and implement `AgeBounds`, with a line that another core uses too? | 3 tags, 2 ways, 2 paths |
| `abstract_cache` | Are all sets aged that an imprecise access may reach, around the end too, and do classifications of intervals survive joins? | 2 sets of 1 way, 2 tags, lines of 4 words, 2 paths; intervals that begin and end at ends of lines |
| `scoped_cache_set` | Do persistent lines miss once per scope entry, are conflicts counted, and does no write-back come unannounced? | 3 lines (2 of an array), 2 ways, 1 scope entered up to twice, 6 configurations |
| `memory` | Do the weights cover every refresh and blocking, in every order of splits, skips and joins, no others without joins, and does the exploration end? | latency 2 + 1, refresh 2, blocking 2 |
| `hierarchy` | Are all cases of two L1 caches and a shared L2 followed, are classifications true whatever overtakes what, and is the worst case the worst? | 2 + 3 lines, 1, 1 and 4 ways, 3 initial contents |
| `pipelines` | Is every execution covered, for four pipelines; do their assertions hold; may what is joined be joined and what is skipped be skipped; does every instruction finish whose fetch is not lost? | 31 instructions in four programs, refresh 2, blocking 1 |
| `value_analysis` | Do the results describe every run of the program, in contexts that describe how it came there, is the fixpoint one, and is it reached? | 49 instructions in 3 functions, 5 settings of contexts |
| `state_graph` | Is every execution bounded by paths of the graph from both sides, which fulfil the flow constraints, on whole runs and on parts of them? | 14 instructions, 3 loops, 9 settings, two runs in one of them |
| `co_runner` | Do the bounds of all cores hold together on a round-robin bus, do the rounds end, in a fixed point? | 3 cores, 5 settings |
| `preemption` | Are additional misses and aging bounded, whatever preempts what where, do the iterations end on graphs without a cycle of joins, and in a fixpoint? | 6 programs, each preempting each, 2 sets of 2 ways |
| `crpd_termination` | Do the iterations end on every graph? *violated, see 6* | one of these programs |

Deadlock is checked, except in `memory`, `preemption` and `crpd_termination`, which come to an
end, and in `hierarchy`, where a path that does not cover the hardware stops.

### Why these bounds are enough

* *Two paths.* `join` is binary, and a path that has been joined any number of
  times is again a path; three lines in a two-way set have a line that is evicted,
  one that stays, and two of one age bound. The proofs lift the bounds of `AgeBounds`,
  `CacheSet`, `AbstractCache` and `ScopedCacheSet`.
* *Sets.* With two sets an interval can begin in the last set and end in the first;
  a set that is then forgotten is one whose bounds become wrong. Lines have four words, the
  default; an interval may begin and end at either end of a line, so that it may be shorter
  than the cache and have its ends in different lines of one set. The assertion of `update`
  fails then (section 6) and the analysis ends (`Aborted`); `ClassificationSound` is about
  what was said until then.
* *Memories.* The interesting cycles are the first, the last and one between; a
  phase of two or three cycles has them. One blocking cycle more than the least
  distinguishes the limit from its neighbours. The proofs lift these bounds.
* *Programs.* They hold each kind of control flow that the component tells apart: calls
  from inside and from behind a loop, nested loops, early and predicated returns, jump
  tables, external functions; for the pipelines also load-use dependencies, accesses of
  several words, renamed registers, and latencies long enough that a fetch finishes
  behind an instruction.
* *Parts of runs.* They may end anywhere. Where they start is given by each setting
  (`windows`): in loops of either depth, in calls, in front of and behind both, and at the
  start and the end of a run. Starting everywhere, within one run, the properties hold as
  well, with twice the states.
* *Options.* Peeling by zero, one and two iterations, and no, one or all tokens of a
  kind, have each of the branches that handle contexts.
* `MaxTime` bounds counters. In `memory` it is never reached; of the pipelines
  `EveryInstructionFinishes` says that only states reach it that have lost a fetch, and
  those are cycled for ever (`CyclesForEver`). `IdBase` exceeds
  the number of ids that can be alive at once, which the type invariants check.
  `MaxCount` is the number of iterations that the contexts of the model can tell apart;
  `MaxWindow` the longest window, which an assumption checks.
* `MaxWorthwhileTags` (4 in the code) is 2 where both sides of the limit should occur.

### Fairness

Liveness is checked where the code runs a loop to its end. `MemoryExploration` has weak
fairness of cycling a state (`cycleUntilFinal`), not of joins. `PreemptionDelay` has it of
the worklist iterations, `AnalysisDriver` says that it goes on as long as it can, both
single-threaded loops. `CoRunnerExecution` has it of each analysis on its own, before the
programs are launched: an analysis is a process that the operating system schedules and
that otherwise waits only for lines of the others. No fairness says that the hardware
grants an access, that a refresh comes or that a program ends.


## 4. The properties

* `Sound` (`AgeBounds`), `ClassificationSound` (`CacheSet`, `AbstractCache`): the bounds
  contain the concrete age, and what `classify` claims is true of it.
  `JoinIsLeastUpperBound`, `UpdateIsMonotone`: the lattice laws that the end of the
  fixpoint iteration rests on. `BoundsSpec`: the vectors do no more and no less than
  `AgeBounds` says, joins included.
* `OneMissPerEntry`: the constraint "persistent misses at most once per entry" that
  the path analysis states leaves out no execution. `ConflictsCounted`: the conflict set
  is never smaller than what was accessed. `WritebacksForeseen`: no dirty line leaves and
  no clean line becomes dirty in an update that did not report it. `DirtinessSound`: what
  is said of a line's dirtiness is true and the assertions hold.
* `EveryAccessCovered`: whatever the hardware does in an access, some path has weights
  that cover it, in the way the co-runner-sensitive analysis reads them.
  `NoImpossibleTime` is the converse, without joins: a join takes the hull of each counter
  by itself, so that sums may count times that neither took. That costs precision and not
  soundness. `MayForward`: the assertions of `fastForward`.
* `CasesCovered`: some successor of the analysis takes the hardware's cases and so its
  time. `ClassifiedRightly`: no classification is wrong, although caches are updated with
  old ones. `CaseIsABound`: the worst (best) case is answered no earlier (later) than the
  hardware. `ForwardSkipsOnlyWaiting`: skipped cycles change nothing but the memory.
* `HardwareCovered`: whenever the processor has finished an instruction, some explored
  state has the same pipeline and memory, and its interval of times includes the
  processor's. `JoinableBehaveAlike`, `ConvergedUntilNonBusy`: what joins and fast-forwarding
  rely on. `AssertionsHold`: eight assertions of the pipelines. `OperandsComputed`: what
  Tomasulo's algorithm is for. `EveryInstructionFinishes`: nothing waits for an answer
  that was overridden, flushed or announced when nobody looked, but for a fetch that comes
  back to a full instruction queue (`FetchLost`, section 6).
* `Covered`: at every instruction some context describes how the program came there and
  what it knows is true. `FixpointReached`, `LookupsDefined`: assertions of the driver.
* `GraphBuilt`, `ExecutionsBounded`, `RunsFulfilConstraints`, `PathsFulfilConstraints`:
  each execution has a path in the graph that is no shorter and one that is no longer, and
  both satisfy the integer program. `PathsFulfilConstraints` leaves out the constraints on
  a loop that lack edges because these were cached for another context (`lacksEdges`,
  section 6).
* `BoundsHold`: no run takes longer than its bound, with all bounds claimed at once;
  `FixedPointReached`, `NeverRetreats`: the rounds lose nothing and move one way.
* `AdditionalMissesBounded`, `EvictingBlocksBoundAging`: what the CRPD numbers promise.
  `FixpointReached`: the information that these rest on is stable.
  `TerminatesWithoutCyclesOfJoins`: the iterations end on every graph in which each
  cycle passes a vertex with one predecessor and, as backward analyses reverse the edges,
  one with one successor.


## 5. The proofs

Proved by TLAPS, for every value of the constants that their named assumptions allow. A
theorem that a run checks on a small instance is marked with the property.

### `AgeBoundsProofs`

Any set of tags, associativity greater than 0, any set of paths. `TypeCorrect`,
`SoundBounds` (`Sound`), `ClassificationSound`, `MustSetFits` (the update asserts "Illegal
must cache set size") and `FullMustSetExcludes`.

`Sound` is not inductive. `TouchMin` ages every line whose lower bound is *not above*
that of the accessed line, equal ones included. That is right only because two
cached lines never have one age. Take a line whose bound equals that of the
accessed line, n. If it is older than n, the bound n + 1 holds already; if its age
is n, the accessed line, being another, is older than n and the access overtakes
it. So the invariant adds `Stack`, that the concrete set is an LRU stack. The two
cardinality theorems use that the ages inject the must lines into `0 .. Assoc - 1`.

### `AgeVectorProofs`, `CacheSetProofs`, `AbstractCacheProofs`

Any natural numbers as tags, finitely many or not, any associativity greater than 0, any
limit of worthwhile tags, any finite set of lines that other cores use, any paths
(`TagsAssumption`, `AssocAssumption`, `WorthwhileAssumption`, `ForeignAssumption`). Of
`CacheSet`: `ClassificationIsSound` (`ClassificationSound`), `JoinIsALeastUpperBound`
(`JoinIsLeastUpperBound`), `UpdatesAreMonotone` (`UpdateIsMonotone`) and
`VectorsImplementBounds` (`BoundsSpec`, the refinement of `AgeBounds!Spec`).

`AgeVectorProofs` says what the loops over the sorted vectors compute. A vector is
a set of entries, one per tag, in the order of their ages; everything the analyses tell
is a function of that set. For each operation a lemma says which age every tag has afterwards,
in terms of those before: `MustUpdateAges`, `MustPotentialUpdateAges`, `MustJoinAges`,
`MayUpdateAges`, `MayPotentialUpdateAges`, `MayJoinAges`; and one that the
vector is again sorted, without duplicates, and no longer than the set (`MustVector`,
`MayState`). The loops are folds and recursive functions over positions. What they compute is
proved by statements about *sets* of positions for which the claim holds, by
`NaturalInduction` over such a set where the step is uniform and by
`FoldOverPrefixes` for the folds. `MustUpdateIsMonotone` and
`MayUpdateIsMonotone` compare two states in the order of the lattices; the first also
for an access that is assumed to hit, provided that no full vector is without the line. The may
analysis is the harder one: the limit of worthwhile tags forgets tags by giving all others
an implicit age, so that a state with more tags need not be the more precise one. At its end
the module puts the two together for one set: the operations keep the bounds around the
ages (`Enclosed`), what the two classifications say of enclosed ages is true, and a full must
vector leaves no room for another line (`FullVector`).

`CacheSetProofs` proves the invariant `AlwaysIInv`. Its part about
soundness has two cases. Without other cores the bounds *enclose* the concrete ages
(`Between`), and the concrete set is an LRU stack. In a shared set they do not: no
analysis sees the accesses of other cores, and `MustClassify` leaves room for them
only when asked. So the invariant keeps ages that count the program's own lines alone
(`Explained`): those the bounds enclose, and the concrete age exceeds such an age by at
most the number of foreign lines. The second case is why `CNN` is part of
`HitIsCached`.

The refinement maps an access to `AgeBounds!Access` with the classification that the path
follows, and an interval of too many tags, for which the may analysis ages all,
to an access that may be to any tag. Joins map to joins because the bounds of the joined
vectors are the maxima and minima of the bounds.

`AbstractCacheProofs` lifts `Enclosed` to caches of any number of sets and lines of any size
(`GeometryAssumption`, `TagRangeAssumption`): `ClassificationIsSound`. The new part
is arithmetic. An imprecise access ages the sets between those of its two ends, around the
end of the cache if need be (`UnknownSets`); `ReachedIsUnknown` shows that it can reach no
other set, and under no tag that is not between theirs. That needs the assertion "Could
have performed precise update", and the code does not guarantee it: an interval shorter than
the cache may begin near the end of one line and end at the start of another of the same
set. So the analysis ends where the assertion fails, and the theorem is about what it has
said until then. `AssertionFailsExactly` says which intervals these are.
`AssertionHoldsForShortLinesOnly` says which caches have none: those with lines of one or two
words, with one set, or as large as the memory. With the default of four words there are
some in every other cache. `IntervalsAssumption` is that intervals are ones of addresses; the
run has those that begin and end at ends of lines.

### `MemoryExplorationProofs`

Any latencies, refresh lengths, blocking budgets, access lengths, with and without splits
(`LatencyAssumption`, `SplitAssumption`, `RefreshAssumption`, `AccessAssumption`,
`AccessLatencyAssumption`). `TypeCorrect`, `ForwardingAllowed` (`MayForward`),
`AccessesCovered` (`EveryAccessCovered`), `TimesPossible` (`NoImpossibleTime`), all from
the invariant of `Invariant`. `CompositionalRefreshIsFixed`: an SDRAM that does not split
(`DRAMREFRESH` is added to the program's bound) is a memory of fixed latency in everything it
does, so the model needs only the one.

`EveryAccessCovered` speaks of the end of the exploration. The invariant says what holds on
the way: for each refresh and blocking the hardware can have, some state *promises* it.
`MemoryCycles(m)` and `BlockingCycles(b)` are the numbers of cycles that a memory and the
bus may still take; a state promises an outcome if, for some of these numbers, its weights
cover it when that many more cycles are added. An idle memory has only 0 of both,
so that a waiting state that promises covers. For each operation there is a lemma that it
keeps memories well-formed (`...OK`) and one that each number it may still take is met by
some outcome (`...Meets`). The first kind also carries `MayTake`, the bound in the other
direction, which joins break and `NoImpossibleTime` therefore does not claim of them. That
the blocking budget is never negative needs a relation of the counter of blocked cycles
to the budget spent, which fast-forwarding breaks off (`PendingOK`).

### `ScopedCacheSetProofs`

Any finite set of lines, disjoint arrays or not, any associativity, scopes, configurations
and foreign lines (`LinesAssumption`, `ArraysAssumption`, `ConfigsAssumption`).
`ConflictsAreCounted` (`ConflictsCounted`) and `OneMissPerLine` (`OneMissPerEntry`), from
the invariant of `Invariant`:

* the information on every path is well-formed (`PathsOK`, `ConcreteOK`);
* a line accessed in the scope is at most as old as there are younger lines, and all
  younger ones were accessed in the scope or are foreign (`AgesCounted`);
* the conflict set of the set-wise analysis *covers* what was accessed: its blocks line by
  line, and of each array at most as many lines as were counted (`AccessesCovered`). A
  bound on the number alone is not inductive: joins take the union of blocks and
  the maximum of each count;
* the misses charged are those of different lines, one address each, and with the
  element-wise analysis the conflict set of such a line covers what is younger
  (`LinesChargedOnce`).

A line that is called persistent competes with at most `Assoc` lines, so it has been
cached since it was accessed; a miss that is charged is therefore the first of its
line, and an address is charged at most once per line. The last step sums over addresses:
`FiniteSums` proves what is needed of `SumFunctionOnSet`, by induction over finite sets
that goes by well-founded minima of the strict subset order (the library's induction
theorem takes an operator that no prover here can instantiate).

`OneMissPerEntry` speaks of the configurations in `CountsSoundly`. In the others it does
not hold: see 6.

The second half is about the dirtiness analysis. `WritebacksAreForeseen`
(`WritebacksForeseen`), `DirtinessIsSound` (`DirtinessSound`) and
`DirtinessAssertionsHold`, from the invariant of `DirtInvariant`:

* the state of each path is well-formed and satisfies `checkInvariants()`, and while
  lines that are not in the map may be dirty (`implicitDirty`), lines that the may analysis
  does not know may be cached (`DirtState`);
* the bounds of the followed path enclose the concrete ages (`Enclosed`, from
  `AgeVectorProofs`);
* what its map says of a line is true, and a dirty line that is not in the map is at least
  as old as the may analysis takes unknown lines to be (`DirtTrue`).

The last parts are what `DirtinessSound` lacks to be inductive. `incorporate()` clears
`implicitDirty` when the last unknown line leaves the set, and forgets lines of the map that
leave with it: only a dirty line which is as old as the unknown ones is then surely gone. And
`checkInvariants()` is needed to see that a line which is called dirty for sure is cached for
sure, so that an imprecise access has not evicted it. The first bullet holds in a shared
set, too. The others do not, since accesses of other cores age lines unseen; the two
theorems about the concrete set are for write-back sets that are not shared (`Alone`).

### `CoRunnerProofs`

Any number of cores, programs, bus latency, partitions of the blocking, periods and
settings. A program is any finite graph whose runs return to vertex 0 (`PathAssumption`:
loops are bounded, so that a run is a path through a graph without cycles);
`WindowAssumption` says that no arrival curve is asked for a longer window than
`MaxWindow`, `OptionsAssumption` what the settings are. The analyses go at any speed.
`BoundsNeverRetreat` (`NeverRetreats`) and `FixedPointIsReached` (`FixedPointReached`), from
`RoundsInv`, which `RoundsHold` shows to be an invariant.

Neither property is inductive, and neither is about one core. Whether a bound moves on
depends on what the others printed, and what they printed on what they had read. The
argument has two halves:

* *The functions are monotone.* `RunsOK` and `PathsOK` say what the runs and the paths of an
  arrival curve may be. `UbTime` grows with the blocking allowed (`UbTimeMonotone`),
  the curve grows with the window (`CurveMonotone`, through each of its variants and the
  effective period), and the bound on blocking grows with what the others may use of
  the bus (`BlockingMonotone`, a sum over the cores by `FiniteSums`). So when the
  others moved on, so does the next bound (`WcetBoundTowards`). The code analyses its runs
  again only when the blocking bound fell below the one used before (greatest fixed
  point) or rose above it (least); `NothingIsLost` shows that a bound that is
  not computed again would have been the same.
* *What is read belongs to the round.* Rounds are numbered modulo 4. Two analyses are in the same
  round, at stages no barrier lies between, or one has gone on to the next round and still
  waits there (`InStep`); nobody goes on without a change that all others will see
  (`SomeChange`), and nobody ends when one changed (`AllUnchanged`). So a line that is
  there when it is awaited is of the round (`Tags`), and holds the curve for the window that
  its reader printed (`Answered`).

The two meet in `OwnBounds`, `UsedBounds` and `UpToDate`: a WCET bound is that of the
blocking bounds at hand, also after a recalculation was left out, and these follow from
access cycle bounds that were read in some round. The others may have printed others since, which
replace the lines that were read, so the invariant says that there *are* such bounds, and
that these, what is printed now and what would be printed next lie one after another
in the direction of the iteration (`Follows`).

### What is not proved

* Liveness: `Terminates` of three runs, `TerminatesWithoutCyclesOfJoins`, and everything under
  `ENABLED`.
* Modules with recursive operators: `StateExploration`, `StateGraph`, `FlowConstraints`,
  `StateGraphExecution`. The provers cannot be asked about them.
* `ForwardSkipsOnlyWaiting` stays with TLC: it speaks of two L1 caches, an L2 and a memory at
  once, and of what each does in a cycle that is skipped.
* `OneDirtifyingStorePerEntry` does not hold of element-wise persistence (section 6) and is
  not claimed of the others: it would need the write-back bounds and the accounts in one
  invariant.
* `BoundsHold` stays with TLC: that an execution on the bus is within the bounds needs, for
  each arrival curve, the path of the program that the window cuts out.
* `SeparateCaches`, the pipelines, the driver and CRPD are model-checked only.


## 6. Where the code differs from what it says

Shown by a run:

* `crpd_termination`: `GraphIterator.h:250` queues a vertex whenever what arrives there
  differs from what is stored, before the join and whether or not that changes anything
  ("Check if the information changed", 249). Where all vertices of a cycle have several
  predecessors, each may be queued for ever by what arrives from outside of the cycle, and the
  analysis does not end. `InsensitiveGraph` has no such cycle: between the vertices where a
  block is entered and left there is a single edge. `StateSensitiveGraph`, the graph of the
  default path analysis (`Options.cpp:477`), can have one (`TwoStates`): a block that is
  entered in two states and left in one.

Shown by a run that leaves out just these cases; without the exemption the property fails:

* `abstract_cache`: the assertion "Could have performed precise update"
  (`AbstractCache.h:351`), which builds have that follow the README of the repository
  (`README.md:58`). `getCacheSetInterval` (576) compares the length of an interval with the
  size of the cache; one that is a little shorter may begin near the end of a line and end at
  the start of another of the same set. With lines of 16 bytes, the default, such intervals
  exist in every cache of several sets. Without assertions only that set is aged. In the
  model the analysis stops (`Aborted`).
* `pipelines`: the answer to a fetch that comes while the instruction queue is full is lost.
  The queue takes it only if it has room (`InstructionQueue.h:202`), the topology announces
  it for one cycle only (`SingleMemoryTopology.h:367`), and but for taking it only a flush makes
  the queue fetch again (`InstructionQueue.h:278` and 401). The instruction never finishes, in the processor as
  modelled and in the exploration, which goes on for ever (`FetchLost`). The last
  program of the run has a slow instruction with more behind it than the queue holds.
* `state_graph`: the edges inside a loop are cached under its header (`GetEdges.cpp:159`
  and its like) and so are those of the first context that is asked for. With the default
  number of call-site tokens a loop of a function that is called twice has two contexts. With
  the methods that look for edges between entries and exits (`betweenInOutReachable...`) a
  path that starts inside the loop in the second context may then break the upper bound of the
  loop, and one that ends there the lower one (`LacksEdges`). With the methods `all` and
  `insideProgramRuns` the edges do not depend on the context.

Shown with other constants, as the comments at the definitions say:

* `Persistence`: the conditional must analysis, the array-aware set-wise and element-wise
  analyses (`SetWiseCountingPersistence.h:227` checks the conflict set before it counts)
  and the set-wise one of a shared set (which leaves out the other cores for arrays) violate
  `PersistenceConstraints`.
* `OneDirtifyingStorePerEntry` fails for `WriteBackElementWise`: a line may become dirty,
  be written back and become dirty again within a scope entry.
* `HardwareCovered` fails on the strictly in-order pipeline when it stalls on refreshes
  (`StallOnLocalWorstType = {"DRAMREFRESH"}`, `Latency = 2`): `BlockingCyclingMemory.h:412`
  skips with the refresh also the blocking that follows, in which the pipeline does not
  stall, although `SimpleSDRAMCyclingMemory.cpp:197` takes care to skip only the refresh.
* `CallsReturn` fails for indirect calls (`IndirectInstrs`): the states behind them are
  never connected (`StateSensitiveGraph.h:1303`).
* `AdditionalMissesBounded` of `PreemptionDelay` fails with `UCBClever = TRUE` (not the
  default).
* `SeparateCaches` with write-back, or without write-allocation in worst-case mode:
  classifications are wrong and cases missing. An unknown L1 store follows only the miss
  and never updates L1; a write-through store behind L2 never does; a victim that is written
  back resets the time in L2 every cycle (`JJYSeparateCachesMemoryTopology.h:1055`).

Seen while reading:

* Value analysis (`ConstantValueDomainARM.cpp`): `LDRcp` keeps the old constant when the
  pool entry is unknown (800-811); `LDMIA_RET` breaks at the first register (904-910);
  `MOVi16` of a function keeps the old constant (645-652); `VSTMDDB_UPD` leaves stored slots
  (881-896); `asr #32` tests the wrong bit (257); sub-word stores erase only the exact
  address. `StaticAddressProvider.cpp:391-410` takes initial values of globals that may
  change.
* Contexts: a predicated return inside a peeled loop confuses contexts; with few tokens an
  assertion fails (`PartitioningDomain.h:715`, `ShortContexts`).
* `CallGraph.cpp:130` overwrites the name of the last indirect call at each of them;
  reachability looks at callers and misses recursion through registers.
* `TimingAnalysisMain.cpp:397-398` exchanges the line sizes of the data cache and the L2.
* `AbstractCache.h:475`: persistent scopes of an interval are taken from the first to the
  last set without the wraparound of `update`.
* `LruMaxAgeAbstractCache.h:151` calls a miss in a shared L2 what the other cores need not
  have evicted. Its `CNN` counts the lines of the other cores but the one accessed (line
  140): if that is the only one they have in the set, `CNN` is 0 and the line is called a
  hit as without them, though each access of theirs to it may have aged the other
  lines beyond their bounds. `HitIsCached` fails in such a set (three ways, lines 1 to 4,
  foreign line 1) and therefore speaks of lines with `CNN > 0` only.
* `LruMinAgeAbstractCache`: the age getter returns the tag; `getMaxConcreteSubStackSize` is
  never called.
* Co-runners: infinity is -1, which compares as less in the least-fixed-point iteration
  (`DispatchPathAnalysis.h:2359-2378`).
* Separate memories: the path analysis reads the metrics of the data memory only
  (`DispatchPathAnalysis.h:67-114`), so that the cycles the instruction memory skips are
  counted nowhere. A scratchpad of one cycle per word skips none; with the slower one that
  a comment in `DispatchMemory.cpp:288` has in mind, `HardwareCovered` fails in the model.
  `hasUnfinishedAccesses` does not look at the queues (`SeparateMemoriesTopology.h:463`).
* CRPD: preemptions inside a block are not considered; a vertex that cannot reach the end
  makes `at()` throw, as does a resilience analysis without a file of the other task. The
  resilience analysis keeps a reference to a copy of a must state that lives for one iteration
  of a loop (`CacheRelatedPreemptionDelay.cpp:727-728`, the type of the reference in 702-703)
  and reads it when it is destroyed (`ConstrainedAges.h:179` and 206), so that what it reports
  is undefined.
* A refresh of no cycles makes the SDRAM refresh for ever
  (`SimpleSDRAMCyclingMemory.cpp:61`); `RefreshAssumption` excludes it.
* `LoopBoundInfo.cpp:679-709` mixes `&&` and `||` without parentheses.


## 7. What is left out

* Abstract caches: `AlwaysCache`, the array-aware must cache, `ImplicitSet`, lattice helper
  classes. In `ScopedCacheSet` one set stands for all; in `SeparateCaches` each
  cache is one set; write-back is modelled there and not run (see 6).
* `PersistenceScopeInfo` and `LoopBoundInfo`, which read the program's scopes and loop bounds
  off LLVM's structures.
* Pipelines: persistence scopes, `UnblockStores` outside of `SeparateCaches`, predicated
  calls; `InOrderCacheState.h` and `OutOfOrderCacheState.h`, older pipelines.
* `SeparateMemoriesTopology` under the out-of-order pipeline. The graphs of
  `MCPreemptionDelay` are given, four as `InsensitiveGraph` builds them and two as
  `StateSensitiveGraph` may. Unreached indirect calls (`StateSensitiveGraph.h:1068-1115`).
* The resilience analysis of CRPD (`ConstrainedAges`, `ConstrainedUCB`): it reads a destroyed
  object (section 6), so there is nothing that its results can be relied on for.
* `fnparam2symbol` of the value analysis (`ConstantValueDomain.cpp:158-170` and 443-458, set at
  `ConstantValueDomainARM.cpp:554-607`), which finds the symbol that the memory operand of an
  access refers to: no instruction of the modelled programs has a memory operand.
* RISC-V tables, options, output, statistics, LLVM glue; the ILP solvers, whose solution
  is taken to be the longest path.
* Times are mathematical integers: a basic block whose time overflows 32 bits is not a
  program one analyses. Access ids wrap around after 2^32 accesses; they are compared by
  differences, which `Rebased` stands for.


## 8. The plan

Done: the set analyses, caches and persistence; the memories and the hierarchy; four
pipelines; the value analysis; state graphs and flow constraints; the co-runner-sensitive
analysis; CRPD; the proofs of section 5. Ahead:

1. Proofs: `ForwardSkipsOnlyWaiting`, from the lemmas on cycling memories; `BoundsHold`, from
   the fixed point and those on runs and paths.
2. The loop bounds and the persistence scopes of a program.
