----------------------------- MODULE AnalysisDriver -----------------------------
(***************************************************************************)
(* AnalysisDriverInstr over the partitioned value domain: blocks are       *)
(* analysed in the contexts in which what is known on entry has changed,   *)
(* until nothing changes any more; then the results before every           *)
(* instruction are computed once, for all contexts together.               *)
(*                                                                         *)
(* The domain is a tree of partition tokens with a value element at every  *)
(* leaf, as the partial function from the contexts of the leaves to their  *)
(* elements. A context that continues in the tree has its own element      *)
(* under the label NONE; the empty tree is bottom.                         *)
(*                                                                         *)
(* The results are compared with the program that runs afterwards.         *)
(***************************************************************************)
EXTENDS ProgramPaths, ConstantValueDomain

BottomTree == Nothing
StartTree == With(Nothing, <<>>, StartElement)
ContextsOf(tree) == DOMAIN tree
IsBottomTree(tree) == ContextsOf(tree) = {}

AddContext(tree, ctx, d) ==
  With(tree, ctx, IF ctx \in ContextsOf(tree) THEN JoinElements(tree[ctx], d) ELSE d)

\* Mutant: everything that is added counts as a change.
ChangedByAlways(tree, ctx, d) == TRUE

\* Adding to an empty tree, or a new context, is a change, whatever is added.
ChangedBy(tree, ctx, d) ==
  ctx \in ContextsOf(tree) =>
    LET joined == JoinElements(tree[ctx], d)
    IN  ~(LessEqual(tree[ctx], joined) /\ LessEqual(joined, tree[ctx]))

JoinTrees(t, u) == FoldSet(LAMBDA ctx, acc : AddContext(acc, ctx, u[ctx]), t, ContextsOf(u))

\* findAnalysisInfo() asserts that there is an element for the context, and
\* findAnalysisInfoEarly() that the context does not end inside of the tree.
CanFind(tree, ctx) == IsBottomTree(tree) \/ ctx \in ContextsOf(tree)
CanFindEarly(tree, ctx) ==
  CanFind(tree, ctx) \/ ~\E c \in ContextsOf(tree) : IsProperPrefixOf(ctx, c)

Find(tree, ctx) == IF ctx \in ContextsOf(tree) THEN tree[ctx] ELSE Bottom

\* Partitions made by a directive: what is known goes to the first token.
Partitions(ctx, d, direc) ==
  [c \in {Append(ctx, t) : t \in direc.tokens} |->
     IF IsLoopToken(Last(c)) /\ Last(c).count > 0 THEN Bottom ELSE d]

UpdateContexts(tree, direc) ==
  LET updated(ctx) ==
        IF direc.type = "CREATE" THEN Partitions(ctx, tree[ctx], direc)
        ELSE With(Nothing, UpdateContext(ctx, direc), tree[ctx])
  IN  FoldSet(LAMBDA ctx, acc : JoinTrees(acc, updated(ctx)), BottomTree, ContextsOf(tree))
UpdateContextsAll(tree, direcs) == FoldLeft(UpdateContexts, tree, direcs)

TransferTree(tree, i) == [ctx \in ContextsOf(tree) |-> Transfer(tree[ctx], i)] @@ BottomTree

\* The calls of all contexts: what the caller's tree becomes and what the
\* callee's entry gets.  Unreachable contexts stay as they are.
AfterCallTree(tree, calleeOut(_)) ==
  [ctx \in ContextsOf(tree) |->
     IF tree[ctx].bot THEN tree[ctx] ELSE AfterCall(tree[ctx], calleeOut(ReduceOnCall(ctx)))]
CallingContexts(tree) == {ctx \in ContextsOf(tree) : ~tree[ctx].bot}
CalleeInTree(tree, i, calleeIn) ==
  FoldSet(LAMBDA ctx, acc : AddContext(acc, ReduceOnCall(ctx), Transfer(tree[ctx], i)),
          calleeIn, CallingContexts(tree))

\* A back edge shifts the innermost partitions of its loop: nothing is left of
\* the first iteration, the others get what the one before had.
Shifted(tree, ctx) ==
  LET t == Last(ctx)
      before == Append(Front(ctx), LoopPeel(t.loop, t.count - 1))
  IN  CASE t.count = 0 -> IF t.type = "LOOPPEEL" THEN Bottom ELSE tree[ctx]
        [] t.type = "LOOPPEEL" -> tree[before]
        [] OTHER -> JoinElements(tree[ctx], tree[before])
TransferEdge(tree, e) ==
  [ctx \in ContextsOf(tree) |->
     IF ctx # <<>> /\ HasBackedge(Last(ctx), e) THEN Shifted(tree, ctx) ELSE tree[ctx]]

\* What the tree becomes when a block is left by an edge.
TreeAlongEdge(tree, e) ==
  UpdateContextsAll(TransferEdge(UpdateContextsAll(tree, DirectivesOnEnter(e)), e),
                    DirectivesOnLeave(e))

-----------------------------------------------------------------------------
CONSTANTS Options,      \* the command lines to be considered
          Registers,    \* the registers the program uses
          Memory,       \* the memory when the program starts
          Inputs        \* what an instruction that is not modelled may compute

VARIABLES worklist,     \* pairs of a block and a context
          mbb2anainfo,  \* what is known on entry to a block
          funcIn,       \* func2anainfo: what is known on entry to a function
          funcOut,      \* and when it has returned
          phase,        \* "fixpoint", "run"
          odd,          \* the loop over the worklist has been gone round an odd number of times
          dumped,       \* the blocks with results
          failed,       \* an assertion has failed
          anaInfoIn,    \* the results before every instruction
          changed,      \* computing them changed what was known
          hw            \* [reg, mem]: the registers and the memory

analysis == <<worklist, mbb2anainfo, funcIn, funcOut, phase, odd, dumped, failed, anaInfoIn, changed>>
program == <<at, hw, path>>
vars == <<option, analysis, program>>

Init ==
  /\ option \in Options
  /\ worklist = {<<Entry[EntryPoint], UpdateContext(<<>>, DirectiveOnCall(EntryPoint))>>}
  /\ mbb2anainfo = [b \in Blocks |-> BottomTree]
  /\ funcIn = [f \in Functions |-> IF f = EntryPoint THEN StartTree ELSE BottomTree]
  /\ funcOut = [f \in Functions |-> BottomTree]
  /\ phase = "fixpoint" /\ odd = FALSE /\ dumped = {} /\ failed = FALSE /\ anaInfoIn = Nothing /\ changed = FALSE
  /\ AtProgramStart
  /\ hw = [reg |-> [r \in Registers |-> IF r = SP THEN InitialSp ELSE None], mem |-> Memory]

-----------------------------------------------------------------------------
(* A block in one context.  While its instructions are gone through, st is *)
(* [out, ctx, mbb, fin, fout, work, failed]: what is known, the context,   *)
(* and what the analysis has found so far.                                 *)

Propagated(st, block, ctx, d) ==
  [st EXCEPT !.mbb[block] = AddContext(@, ctx, d),
             !.work = IF ChangedBy(st.mbb[block], ctx, d) THEN @ \cup {<<block, ctx>>} ELSE @]

\* f is called in the context reduced, and toCallee is known on entry to it.
CallInContext(st, f, reduced, toCallee) ==
  [st EXCEPT
     !.out = AfterCall(@, Find(st.fout[f], reduced)),
     !.failed = @ \/ ~CanFindEarly(st.fout[f], reduced),
     !.fin[f] = AddContext(@, reduced, toCallee),
     !.work = IF ChangedBy(st.fin[f], reduced, toCallee)
              THEN @ \cup {<<Entry[f], UpdateContext(reduced, DirectiveOnCall(f))>>} ELSE @]

TransferInstruction(st, i) ==
  CASE ~IsCall(i) -> [st EXCEPT !.out = Transfer(@, i)]
    [] IsCall(i) /\ st.out.bot -> st
    [] IsCall(i) /\ ~st.out.bot /\ CallsExternal(i) -> [st EXCEPT !.out = AfterCall(@, TopElement)]
    [] OTHER -> CallInContext(st, CHOOSE f \in PotentialCallees(i) : TRUE,
                              ReduceOnCall(st.ctx), Transfer(st.out, i))
AnalyseInstruction(st, i) ==
  [TransferInstruction([st EXCEPT !.ctx = UpdateAll(@, DirectivesBeforeInstr(i))], i) EXCEPT
     !.ctx = UpdateAll(@, DirectivesAfterInstr(i))]

\* Mutant: callers in other contexts are not woken.
WokenByNone(st, f, ctx) == {}

\* The blocks that call f in a context that becomes ctx.
WokenBy(st, f, ctx) ==
  UNION {{<<BlockOf(i), c>> : c \in {c \in ContextsOf(st.mbb[BlockOf(i)]) :
            ReduceOnCall(UpdateAll(c, DirectivesBeforeInstr(i))) = ctx}} : i \in CallSites(f)}

Returned(st, i) ==
  LET f == FuncOf(i)
      ctx == UpdateContext(st.ctx, DirectiveOnReturn(f))
  IN  [st EXCEPT
         !.fout[f] = AddContext(@, ctx, st.out),
         !.work = IF ChangedBy(st.fout[f], ctx, st.out) THEN @ \cup WokenBy(st, f, ctx) ELSE @,
         !.out = IF IsPredicated(i) THEN @ ELSE Bottom]

Branched(st, i) ==
  [FoldSet(LAMBDA t, acc : Propagated(acc, t, AlongEdge(st.ctx, <<BlockOf(i), t>>), st.out),
           st, BranchTargets(i)) EXCEPT
     !.out = IF IsConditionalBranch(i) THEN @ ELSE Bottom]

HandleBranchInstruction(st, i) ==
  CASE IsBranch(i) -> Branched(st, i)
    [] IsReturn(i) -> Returned(st, i)
    [] OTHER -> st

FallThrough(st, b) ==
  LET next == Block[b].layout
  IN  IF next = None THEN st ELSE Propagated(st, next, AlongEdge(st.ctx, <<b, next>>), st.out)

AnalyseMachineBasicBlock(st, b) ==
  FallThrough(FoldLeft(LAMBDA s, i : HandleBranchInstruction(AnalyseInstruction(s, i), i),
                       st, InstrsOf(b)), b)

\* What is known on entry to a function is known in its first block.
IsEntry(b) == b = Entry[Block[b].func]
EntryJoined(b, ctx) ==
  IF IsEntry(b) THEN AddContext(mbb2anainfo[b], ctx, Find(funcIn[Block[b].func], Front(ctx)))
  ELSE mbb2anainfo[b]
EntryKnown(b, ctx) ==
  IsEntry(b) => /\ ctx # <<>> /\ Last(ctx) = FunCallee(Block[b].func)
                /\ CanFind(funcIn[Block[b].func], Front(ctx))

\* One round of runAnalysis(): the first block of the worklist, in one of its contexts.
Work ==
  /\ phase = "fixpoint"
  /\ \E item \in worklist :
       LET b == item[1]
           ctx == item[2]
           mbb == [mbb2anainfo EXCEPT ![b] = EntryJoined(b, ctx)]
           begun == [out |-> Find(mbb[b], ctx), ctx |-> ctx, mbb |-> mbb, fin |-> funcIn,
                     fout |-> funcOut, work |-> worklist \ {item},
                     failed |-> failed \/ ~EntryKnown(b, ctx) \/ ~CanFind(mbb[b], ctx)]
       IN  /\ \A other \in worklist : b <= other[1]
           /\ \E st \in {AnalyseMachineBasicBlock(begun, b)} :
                /\ worklist' = st.work /\ mbb2anainfo' = st.mbb
                /\ funcIn' = st.fin /\ funcOut' = st.fout /\ failed' = st.failed
  /\ odd' = ~odd
  /\ UNCHANGED <<option, phase, dumped, anaInfoIn, changed, program>>

-----------------------------------------------------------------------------
(* getAnalysisResults(): all contexts of a block together.  st is          *)
(* [tree, before, mbb, fin, fout, changed, failed].                        *)

CallInTree(st, i, f) ==
  LET fin == CalleeInTree(st.tree, i, st.fin[f])
      news == \E ctx \in CallingContexts(st.tree) :
                ChangedBy(st.fin[f], ReduceOnCall(ctx), Transfer(st.tree[ctx], i))
  IN  [st EXCEPT !.tree = AfterCallTree(@, LAMBDA ctx : Find(st.fout[f], ctx)),
                 !.fin[f] = fin, !.changed = @ \/ news,
                 !.failed = @ \/ \E ctx \in CallingContexts(st.tree) :
                                    ~CanFindEarly(st.fout[f], ReduceOnCall(ctx))]

TransferInstructionTree(st, i) ==
  CASE ~IsCall(i) -> [st EXCEPT !.tree = TransferTree(@, i)]
    [] IsCall(i) /\ CallsExternal(i) -> [st EXCEPT !.tree = AfterCallTree(@, LAMBDA ctx : TopElement)]
    [] OTHER -> CallInTree(st, i, CHOOSE f \in PotentialCallees(i) : TRUE)
AnalyseInstructionTree(st, i) ==
  [TransferInstructionTree([st EXCEPT !.before = With(@, i, st.tree),
                                      !.tree = UpdateContextsAll(@, DirectivesBeforeInstr(i))], i)
     EXCEPT !.tree = UpdateContextsAll(@, DirectivesAfterInstr(i))]

KnownOnEntry(st, b, tree) ==
  [st EXCEPT !.mbb[b] = tree, !.changed = @ \/ tree # st.mbb[b]]

\* Only to check the fixpoint, branches and returns are followed.
BranchedTree(st, i) ==
  LET followed ==
        IF option.checkFixPoint
        THEN FoldSet(LAMBDA t, acc :
               KnownOnEntry(acc, t, JoinTrees(acc.mbb[t], TreeAlongEdge(st.tree, <<BlockOf(i), t>>))),
               st, BranchTargets(i))
        ELSE st
  IN  [followed EXCEPT !.tree = IF IsConditionalBranch(i) THEN @ ELSE BottomTree]

ReturnedTree(st, i) ==
  LET f == FuncOf(i)
      fout == JoinTrees(st.fout[f], UpdateContexts(st.tree, DirectiveOnReturn(f)))
      followed == IF option.checkFixPoint
                  THEN [st EXCEPT !.fout[f] = fout, !.changed = @ \/ fout # st.fout[f]] ELSE st
  IN  [followed EXCEPT !.tree = IF IsPredicated(i) THEN @ ELSE BottomTree]

HandleBranchInstructionTree(st, i) ==
  CASE IsBranch(i) -> BranchedTree(st, i)
    [] IsReturn(i) -> ReturnedTree(st, i)
    [] OTHER -> st

BlockDumped(st, b) ==
  FoldLeft(LAMBDA s, i : HandleBranchInstructionTree(AnalyseInstructionTree(s, i), i),
           [st EXCEPT !.tree = st.mbb[b]], InstrsOf(b))

\* The next block; after the last one only the results are kept.
GetAnalysisResults ==
  /\ phase = "fixpoint" /\ worklist = {}
  /\ LET b == Min(Blocks \ dumped)
         begun == [tree |-> BottomTree, before |-> anaInfoIn, mbb |-> mbb2anainfo, fin |-> funcIn,
                   fout |-> funcOut, changed |-> changed, failed |-> failed]
     IN  /\ dumped' = dumped \cup {b}
         /\ \E st \in {BlockDumped(begun, b)} :
              /\ anaInfoIn' = st.before /\ changed' = st.changed /\ failed' = st.failed
              /\ IF dumped' = Blocks
                 THEN phase' = "run" /\ mbb2anainfo' = Nothing /\ funcIn' = Nothing /\ funcOut' = Nothing
                 ELSE mbb2anainfo' = st.mbb /\ funcIn' = st.fin /\ funcOut' = st.fout /\ UNCHANGED phase
  /\ UNCHANGED <<option, worklist, odd, program>>

\* What other analyses read (AnalysisInformationPrecomputed).
AnaInfoBefore(i) == anaInfoIn[i]

\* The contexts in which a call is made (AnalysisDriverInstrContextMapping).
ContextsOfCall(i) == ContextsOf(UpdateContextsAll(AnaInfoBefore(i), DirectivesBeforeInstr(i)))

-----------------------------------------------------------------------------
(* The program *)

HwAddress(in, pos) == DataAccessAddress([TopElement EXCEPT !.reg = hw.reg], in, pos).at

\* The value an instruction computes for its destination.
Computed(in) ==
  CASE in.op \in {"mov", "lea"} -> in.imm
    [] in.op = "mvn" -> -in.imm - 1
    [] in.op = "movr" -> hw.reg[in.src]
    [] in.op = "movw" -> Low(in.imm)
    [] in.op = "movw_global" -> Low(Global[in.global].addr)
    [] in.op = "movt" -> Low(in.imm) * HalfWord + Low(hw.reg[in.dst])
    [] in.op = "movt_global" -> High(Global[in.global].addr) + Low(hw.reg[in.dst])
    [] in.op = "add" -> hw.reg[in.src] + in.imm
    [] in.op = "sub" -> hw.reg[in.src] - in.imm
    [] in.op = "addrr" -> hw.reg[in.src] + hw.reg[in.offset]
    [] in.op = "addrsi" -> hw.reg[in.src] + hw.reg[in.offset] * 2 ^ in.shift
    [] in.op = "bic" -> hw.reg[in.src] - (hw.reg[in.src] % in.imm)
    [] in.op \in {"ldr", "ldr_pre", "ldr_post", "ldr_pool"} -> hw.mem[HwAddress(in, 0)]

\* The words of the saved and restored registers.
Stored(in) == [a \in {HwAddress(in, n - 1) : n \in DOMAIN in.regs} |->
                 hw.reg[CHOOSE r \in Range(in.regs) :
                          \E n \in DOMAIN in.regs : in.regs[n] = r /\ HwAddress(in, n - 1) = a]]
Restored(in) == [r \in Range(in.regs) \ {PC} |->
                   hw.mem[HwAddress(in, (CHOOSE n \in DOMAIN in.regs : in.regs[n] = r) - 1)]]
Updated(f, g) == [x \in DOMAIN f |-> IF x \in DOMAIN g THEN g[x] ELSE f[x]]
BaseMoved(reg, in, n) == [reg EXCEPT ![in.base] = Wrapped(@ + n)]

\* The states an instruction may lead to.
Executed(in, i) ==
  CASE in.op \in {"str", "str_pre"} ->
         {[reg |-> IF in.op = "str" THEN hw.reg ELSE BaseMoved(hw.reg, in, in.imm),
           mem |-> [hw.mem EXCEPT ![HwAddress(in, 0)] = hw.reg[in.src]]]}
    [] in.op = "stmdb_upd" ->
         {[reg |-> BaseMoved(hw.reg, in, -4 * Len(in.regs)), mem |-> Updated(hw.mem, Stored(in))]}
    [] in.op \in {"ldmia_upd", "ldmia_ret"} ->
         {[hw EXCEPT !.reg = BaseMoved(Updated(@, Restored(in)), in, 4 * Len(in.regs))]}
    [] in.op \in {"vpush", "vpop"} ->
         {[hw EXCEPT !.reg = BaseMoved(@, in, (IF in.op = "vpush" THEN -4 ELSE 4) * Words(in))]}
    [] in.op = "bl" -> {[hw EXCEPT !.reg[LR] = i + 1]}
    [] in.op \in {"ldr_pre", "ldr_post"} ->
         {[hw EXCEPT !.reg = [BaseMoved(@, in, in.imm) EXCEPT ![in.dst] = Computed(in)]]}
    [] in.op = "other" ->
         {[reg |-> Updated(hw.reg, [r \in in.defs |-> v]),
           mem |-> IF in.stores THEN Updated(hw.mem, With(Nothing, HwAddress(in, 0), v)) ELSE hw.mem] :
            v \in Inputs}
    [] in.op \in {"b", "bcc", "jt", "bx_ret"} -> {hw}
    [] OTHER -> {[hw EXCEPT !.reg[in.dst] = Wrapped(Computed(in))]}

\* An external function may change a global, and the registers it need not save.
ExternalCall ==
  {[reg |-> [r \in Registers |-> IF r \in CalleeSaved THEN hw.reg[r] ELSE v],
    mem |-> Updated(hw.mem, [a \in {Global[g].addr : g \in DOMAIN Global} \ DOMAIN StaticValue |-> w])] :
     v, w \in Inputs}

Execute ==
  /\ phase = "run" /\ at # None
  /\ LET in == Instr[at]
         b == BlockOf(at)
     IN  \/ /\ IsPredicated(at) /\ GoOn(b) /\ UNCHANGED hw
         \/ /\ IsCall(at) /\ CallsExternal(at) /\ hw' \in ExternalCall /\ GoOn(b)
         \/ /\ ~(IsCall(at) /\ CallsExternal(at)) /\ hw' \in Executed(in, at)
            /\ CASE IsCall(at) -> Call(at)
                 [] IsReturn(at) -> Return
                 [] IsBranch(at) ->
                      \/ \E t \in BranchTargets(at) : GoTo(b, t)
                      \/ IsConditionalBranch(at) /\ GoOn(b)
                 [] OTHER -> GoOn(b)
  /\ UNCHANGED <<option, analysis>>

Finished == phase = "run" /\ at = None /\ UNCHANGED vars

Next == Work \/ GetAnalysisResults \/ Execute \/ Finished

\* runAnalysis() goes on while there is work, and getAnalysisResults() follows: weak
\* fairness of the two, which until then are the only steps, one of them possible.
Fairness == []<>(phase = "run") \/ []<><<phase = "fixpoint">>_vars
Spec == Init /\ [][Next]_vars /\ Fairness

-----------------------------------------------------------------------------
PointsInto(v, g) == v \in Global[g].addr .. Global[g].last
Holds(d) ==
  /\ ~d.bot
  /\ \A r \in DOMAIN d.reg : hw.reg[r] = d.reg[r]
  /\ \A a \in DOMAIN d.mem : hw.mem[a] = d.mem[a]
  /\ \A r \in DOMAIN d.regSym : PointsInto(hw.reg[r], d.regSym[r])
  /\ \A a \in DOMAIN d.memSym : PointsInto(hw.mem[a], d.memSym[a])

\* Whenever the program reaches an instruction, the results of the analysis have
\* a context that describes how it came there, and what is known in that context
\* is true: constants, pointers into globals and the contents of memory.
Covered ==
  phase = "run" /\ at # None =>
    \E ctx \in ContextsOf(AnaInfoBefore(at)) : Describes(ctx) /\ Holds(AnaInfoBefore(at)[ctx])

\* The worklist loses no change: "Should not change analysis info after iteration
\* while dumping", "Analysis info changed after fixpoint was already reached".
FixpointReached == ~changed

\* No assertion of the look-ups fails: information is found for every context
\* that is asked for, and a context asked for early does not end inside of the
\* tree ("Context empty but internal node without none child").
LookupsDefined == ~failed

\* The analysis comes to its end.
Terminates == <>(phase = "run")
=============================================================================
