--------------------------- MODULE MCAnalysisDriver ---------------------------
EXTENDS AnalysisDriver

Plain(op) ==
  [op |-> op, pred |-> FALSE, callee |-> None, targets |-> {}, dst |-> 0, src |-> 0, offset |-> 0,
   base |-> 0, imm |-> 0, shift |-> 0, subtract |-> FALSE, global |-> None, memop |-> None,
   mode |-> "none", submode |-> "ia", width |-> 1, regs |-> <<>>, spill |-> FALSE,
   stores |-> FALSE, defs |-> {}]
Mov(r, v) == [Plain("mov") EXCEPT !.dst = r, !.imm = v]
Add(op, r, s, v) == [Plain(op) EXCEPT !.dst = r, !.src = s, !.imm = v]
FromPool(r, a, g) ==
  [Plain("ldr_pool") EXCEPT !.dst = r, !.imm = a, !.global = g, !.mode = "pool"]
Load(r, base, n) ==
  [Plain("ldr") EXCEPT !.dst = r, !.base = base, !.imm = n, !.mode = "imm"]
Store(r, base, n) ==
  [Plain("str") EXCEPT !.src = r, !.base = base, !.imm = n, !.mode = "imm"]
StoreAt(r, base, offset) ==
  [Plain("str") EXCEPT !.src = r, !.base = base, !.offset = offset, !.mode = "reg"]
Saved(regs) ==
  [Plain("stmdb_upd") EXCEPT !.base = SP, !.regs = regs, !.mode = "multiple", !.submode = "db"]
Restoring(op, regs) ==
  [Plain(op) EXCEPT !.base = SP, !.regs = regs, !.mode = "multiple", !.submode = "ia"]
Half(op, r, v, g) == [Plain(op) EXCEPT !.dst = r, !.imm = v, !.global = g]
Moved(op, r, s) == [Plain(op) EXCEPT !.dst = r, !.src = s]
Defining(rs) == [Plain("other") EXCEPT !.defs = rs]
Alu(op, r, s, t, shift) == [Plain(op) EXCEPT !.dst = r, !.src = s, !.offset = t, !.shift = shift]
Aligned(r, s, n) == [Plain("bic") EXCEPT !.dst = r, !.src = s, !.offset = s, !.imm = n]
Indexed(op, mode, r, base, n) ==
  [Plain(op) EXCEPT !.dst = r, !.src = r, !.base = base, !.imm = n, !.mode = mode]
Floats(op, submode) ==
  [Plain(op) EXCEPT !.base = SP, !.regs = <<32>>, !.width = 2, !.mode = "multiple",
                    !.submode = submode]
Bl(f) == [Plain("bl") EXCEPT !.callee = f]
Going(op, targets) == [Plain(op) EXCEPT !.targets = targets]
If(in) == [in EXCEPT !.pred = TRUE]
Spilled(in) == [in EXCEPT !.spill = TRUE]

Bb(f, first, last, succs, layout) ==
  [func |-> f, first |-> first, last |-> last, succs |-> succs, layout |-> layout]
External == 99

\* A function called from inside and from behind a loop; the loop writes into a
\* global at an unknown offset and reloads a spilled register.  Another one
\* addresses memory in the other ways, has two nested loops, and leaves the outer
\* one through a jump table.
CallInstrs ==
  <<Saved(<<4, LR>>), Mov(4, 3), FromPool(5, 100, 2), Add("sub", SP, SP, 4),
    Spilled(Store(4, SP, 0)), Mov(0, 1), Bl(2), Defining({2}), StoreAt(0, 5, 2), Load(3, SP, 0),
    Going("bcc", {2}),
    Mov(0, 6), Bl(2), Bl(External), Load(1, 5, 0), Going("bcc", {5}),
    Mov(1, 200), If(Mov(0, 2)), Bl(3), Mov(3, 0),
    Add("add", SP, SP, 4), Restoring("ldmia_ret", <<4, PC>>),
    Saved(<<4, LR>>), Mov(4, 9), If(Add("add", 0, 0, 1)), Restoring("ldmia_upd", <<4, LR>>),
    Going("bx_ret", {}),
    Half("movw_global", 1, 0, 2), Half("movt_global", 1, 0, 2), Half("movw", 2, 4, None),
    Half("movt", 2, 0, None), Alu("addrr", 3, 1, 2, 0), Alu("addrsi", 2, 1, 2, 0), Moved("movr", 0, 3),
    [Store(2, 3, 0) EXCEPT !.imm = -4], Indexed("ldr_post", "post", 2, 1, 4),
    Indexed("ldr_pre", "imm", 2, 1, -4), Indexed("str_pre", "imm", 3, 1, 4),
    Floats("vpush", "db"), Floats("vpop", "ia"), [Mov(3, 0) EXCEPT !.op = "mvn"], Mov(2, 214),
    Aligned(2, 2, 8), [Defining({3}) EXCEPT !.base = 2, !.mode = "imm", !.imm = -4, !.stores = TRUE],
    Mov(0, 0),
    Load(3, 1, 0), Going("bcc", {8}),
    Going("jt", {7, 10}),
    Going("bx_ret", {})>>
CallBlocks ==
  <<Bb(1, 1, 4, {2}, 2), Bb(1, 5, 11, {2, 3}, 3), Bb(1, 12, 16, {4, 5}, 4), Bb(1, 17, 20, {5}, 5),
    Bb(1, 21, 22, {}, None), Bb(3, 28, 44, {7}, 7), Bb(3, 45, 45, {8}, 8), Bb(3, 46, 47, {8, 9}, 9),
    Bb(3, 48, 48, {7, 10}, None), Bb(3, 49, 49, {}, None), Bb(2, 23, 27, {}, None)>>
CallLoops ==
  <<[header |-> 2, blocks |-> {2}], [header |-> 7, blocks |-> {7, 8, 9}],
    [header |-> 8, blocks |-> {8}]>>
CallEntry == <<1, 11, 6>>
CallGlobals == <<[addr |-> 200, last |-> 203, initial |-> 7], [addr |-> 204, last |-> 211, initial |-> 0]>>
CallStatic == [a \in {100} |-> 204]
CallMemory ==
  [a \in {100} \cup {4 * n : n \in 50 .. 63} |->
     IF a = 100 THEN 204 ELSE IF a = 200 THEN 7 ELSE 0]

Opt(peel, loops, callees, sites, check) ==
  [loopPeel |-> peel, loopTokens |-> loops, calleeTokens |-> callees, callsiteTokens |-> sites,
   checkFixPoint |-> check]
All == -1
SomeOptions ==
  {Opt(0, 0, 0, 0, TRUE), Opt(1, 0, 0, All, FALSE), Opt(2, All, All, All, TRUE),
   Opt(2, 1, 0, 1, TRUE), Opt(1, All, 0, All, TRUE)}

\* Loops are told apart, but calls are not.
ShortContexts == {Opt(1, All, 0, 0, TRUE)}
=============================================================================
