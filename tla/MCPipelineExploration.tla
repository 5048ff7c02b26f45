----------------------- MODULE MCPipelineExploration -----------------------
EXTENDS PipelineExploration

Plain(latencies) ==
  [mayLoad |-> FALSE, mayStore |-> FALSE, accesses |-> 0, dest |-> 0,
   reads |-> {}, latencies |-> latencies, flow |-> "next", targets |-> {},
   predicated |-> FALSE]
Load(dest, n) == [Plain({1}) EXCEPT !.mayLoad = TRUE, !.accesses = n, !.dest = dest]
Store(n) == [Plain({1}) EXCEPT !.mayStore = TRUE, !.accesses = n]
Going(flow, targets) == [Plain({1}) EXCEPT !.flow = flow, !.targets = targets]

LinkRegister == 40

\* 1 .. 12: a loop around two calls of a function that loads twice and returns by
\* loading the pc; a jump table; a predicated return behind a store of two words; and
\* branches behind a load and behind an instruction of variable latency that
\* waits for the loaded value.  The first takes long enough for the pipeline to
\* fill up behind it.
\* 13 .. 17: a branch behind a load, an instruction of variable latency that a taken
\* branch jumps over, and a store of two words in front of the return.
\* 18 .. 23: a register is loaded, changed, written anew and stored while the first
\* value is still awaited, in front of a branch back.
\* 25 .. 31: the queue fills up behind a branch that waits for a slow instruction, while
\* another one is at the station.
Programs ==
  <<Going("call", {11}), Going("call", {11}), Going("table", {4, 5}),
    Store(2), [Going("return", {LinkRegister}) EXCEPT !.predicated = TRUE],
    Load(1, 1), [Going("branch", {9}) EXCEPT !.latencies = {3}],
    [Plain({1, 4}) EXCEPT !.reads = {1}], Going("branch", {4}), Going("jump", {1}),
    Load(1, 1),
    [Load(2, 1) EXCEPT !.flow = "return", !.targets = {2, 3}, !.reads = {1}],

    Load(1, 1), Going("branch", {16}), Plain({1, 3}), Store(2), Going("return", {LinkRegister}),

    Load(1, 1), [Plain({1, 4}) EXCEPT !.dest = 2, !.reads = {1}],
    [Plain({2}) EXCEPT !.dest = 1], [Store(1) EXCEPT !.reads = {1, 2}],
    [Going("branch", {24}) EXCEPT !.reads = {2}], Plain({2}), Going("return", {LinkRegister}),

    [Plain({12}) EXCEPT !.dest = 1],
    [Going("branch", {31}) EXCEPT !.reads = {1}], [Going("branch", {31}) EXCEPT !.reads = {1}],
    Plain({1}), Plain({1}), Plain({1}), Going("return", {LinkRegister})>>
Blocks == {1, 4, 5, 6, 8, 9, 10, 11, 13, 15, 16, 18, 23, 24, 25, 27, 28, 31}

AllCores == {"INORDER", "INORDERSPM", "STRICTINORDER", "OUTOFORDER", "PRET"}
Entries ==
  [c \in AllCores |-> CASE c \in {"INORDER", "INORDERSPM"} -> {1}
                       [] c = "OUTOFORDER" -> {18, 25} [] OTHER -> {13}]
=============================================================================
