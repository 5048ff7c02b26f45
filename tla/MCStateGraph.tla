------------------------------ MODULE MCStateGraph ------------------------------
EXTENDS StateGraphExecution

Plain == [op |-> "other", pred |-> FALSE, callee |-> None, targets |-> {}]
Bl(f) == [Plain EXCEPT !.op = "bl", !.callee = f]
Going(op, targets) == [Plain EXCEPT !.op = op, !.targets = targets]
If(in) == [in EXCEPT !.pred = TRUE]
Bb(f, first, last, succs, layout) ==
  [func |-> f, first |-> first, last |-> last, succs |-> succs, layout |-> layout]
External == 99

\* A loop that calls a function, which is called again behind the loop, may return
\* early, and has a loop in a loop; and a call of an external function.
CallInstrs ==
  <<Plain, Plain, Bl(2), Going("bcc", {2}), Bl(2), Bl(External), Going("bx_ret", {}),
    If(Going("bx_ret", {})), Going("bcc", {8}), Plain, Plain, Going("bcc", {6}), Going("jt", {5, 8}),
    Going("bx_ret", {})>>
CallBlocks ==
  <<Bb(1, 1, 1, {2}, 2), Bb(1, 2, 4, {2, 3}, 3), Bb(1, 5, 7, {}, None),
    Bb(2, 8, 9, {5, 8}, 5), Bb(2, 10, 10, {6}, 6), Bb(2, 11, 12, {6, 7}, 7), Bb(2, 13, 13, {5, 8}, None),
    Bb(2, 14, 14, {}, None)>>
CallLoops == <<[header |-> 2, blocks |-> {2}], [header |-> 5, blocks |-> {5, 6, 7}], [header |-> 6, blocks |-> {6}]>>
CallEntry == <<1, 4>>
Slow == [i \in DOMAIN CallInstrs |-> IF i \in {2, 11} THEN {2, 4} ELSE {2}]
ExtStart == External :> 60
ExtBound == External :> 5
Bound == <<2, 1, 2>>
LowBound == <<1, 0, 1>>

All == -1
Opt(join, peel, sites, within, joinAt) ==
  [muJoin |-> join, loopPeel |-> peel, loopTokens |-> 0, calleeTokens |-> 0, callsiteTokens |-> sites,
   joinWithin |-> within, joinAt |-> joinAt, insensitive |-> FALSE, windows |-> {}, runs |-> 1, innerEdges |-> "all"]
\* Paths that start on the way to some of the blocks, and of the instructions behind
\* calls, and those that start in one run and may go on in a second one.
Windows(opt, from, method) == [opt EXCEPT !.windows = from, !.innerEdges = method]
LongWindows(opt, from, method) == [Windows(opt, from, method) EXCEPT !.runs = 2]
SomeOptions ==
  {Opt(TRUE, 1, All, 0, All), Opt(TRUE, 2, 0, 9, 1), Opt(FALSE, 0, All, 0, All), Opt(FALSE, 2, 0, 0, All), Opt(TRUE, 0, 0, 0, 2),
   [Windows(Opt(TRUE, 1, 0, 0, All), {1, 2, 5, 7, 8, 13, None}, "insideProgramRuns") EXCEPT !.insensitive = TRUE],
   LongWindows(Opt(TRUE, 0, 0, 0, All), {5, 6}, "betweenInOutReachableSimplePlus"),
   Windows(Opt(TRUE, 0, 0, 0, All), {2, 4, 10}, "betweenInOutReachableDetailed"),
   \* the loops of the function run in two contexts
   Windows(Opt(TRUE, 0, All, 0, All), {8, 11}, "betweenInOutReachableDetailed")}

\* A call of a function in a register.
IndirectInstrs == <<Plain, [Plain EXCEPT !.op = "blx"], Plain, Going("bx_ret", {})>>
IndirectBlocks == <<Bb(1, 1, 4, {}, None)>>
OneEntry == <<1>>
NoLoops == <<>>
IndirectStart == Indirect :> 70
IndirectBound == Indirect :> 5
IndirectOptions == {Opt(TRUE, 1, All, 0, All)}
=============================================================================
