---------------------------- MODULE StateExploration ----------------------------
(***************************************************************************)
(* The microarchitectural analysis: the states of the core that reach a    *)
(* basic block in a context, cycled through its instructions. States that  *)
(* differ only in what may be joined are one state. The analysis goes on   *)
(* until the states of no block, function entry or function exit change.   *)
(*                                                                         *)
(* The first part is what every core has in common: the program counter    *)
(* with its context, the time since the basic block was entered, and what  *)
(* was assumed about branches and returns on the way. The core itself      *)
(* executes one instruction at a time (FixedLatencyState, which takes two  *)
(* cycles for each of them); here an instruction takes any of its          *)
(* Durations, as it does on the cores whose memory accesses are not always *)
(* classified.                                                             *)
(***************************************************************************)
EXTENDS Contexts

CONSTANTS Durations,           \* Durations[i]: the cycles the instruction i may take
          ExtFuncStart,        \* the start addresses of the external functions
          InitialLinkRegister  \* where the entry point returns to

Element(a, ctx) == [at |-> a, ctx |-> ctx]
NoElement == Element(None, <<>>)

\* A callee in a register is not known.
Indirect == -1
ExternalCallee(i) == IF Instr[i].op = "blx" THEN Indirect ELSE Instr[i].callee
GoesExternal(a) == a = InitialLinkRegister \/ \E f \in DOMAIN ExtFuncStart : ExtFuncStart[f] = a

-----------------------------------------------------------------------------
(* Program counters carry the context after the directives before their    *)
(* instruction.                                                            *)

BeforeInstr(i, ctx) == UpdateAll(ctx, DirectivesBeforeInstr(i))
AfterInstr(i, ctx) == UpdateAll(ctx, DirectivesAfterInstr(i))

\* From an instruction to one that follows it, over an edge if there is one.
ContextOfNext(i, ctx, next) ==
  LET b == BlockOf(i)
      after == AfterInstr(i, ctx)
  IN  BeforeInstr(next, IF BlockOf(next) = b THEN after ELSE AlongEdge(after, <<b, BlockOf(next)>>))

NextElement(pc) ==
  LET next == pc.at + 1
      i == pc.at
  IN  IF i \notin Instrs \/ next \notin Instrs \/ pc.ctx = <<>> THEN Element(next, <<>>)
      ELSE IF BlockOf(i) # BlockOf(next) /\ <<BlockOf(i), BlockOf(next)>> \notin Edges
      THEN Element(next, <<>>)
      ELSE Element(next, ContextOfNext(i, pc.ctx, next))

BranchTarget(ee, b) ==
  LET first == Block[b].first
  IN  Element(first, BeforeInstr(first, AlongEdge(AfterInstr(ee.at, ee.ctx), <<BlockOf(ee.at), b>>)))

EntryOf(f, ctx) ==
  LET first == Block[Entry[f]].first
  IN  Element(first, BeforeInstr(first, UpdateContext(ctx, DirectiveOnCall(f))))

-----------------------------------------------------------------------------
(* States.  branches and returns are the assumptions, the oldest first.    *)

NotTaken(ee) == [ee |-> ee, taken |-> FALSE, target |-> None]
Taken(ee, b) == [ee |-> ee, taken |-> TRUE, target |-> b]

Restarted(pc) ==
  [pc |-> pc, time |-> [lb |-> 0, ub |-> 0], inflight |-> NoElement, remaining |-> 0,
   branches |-> <<>>, returns |-> <<>>]
ResetLocalMetrics(s) == [s EXCEPT !.time = [lb |-> 0, ub |-> 0]]

IsJoinable(s, t) == s = [t EXCEPT !.time = s.time]
Join(s, t) == [s EXCEPT !.time = [lb |-> Min({@.lb, t.time.lb}), ub |-> Max({@.ub, t.time.ub})]]

HandleBranch(s, ee) ==
  LET to(b) == [s EXCEPT !.pc = BranchTarget(ee, b)]
      assuming(b) == [to(b) EXCEPT !.branches = Append(@, Taken(ee, b))]
  IN  CASE IsUnconditionalBranch(ee.at) -> {to(b) : b \in BranchTargets(ee.at)}
        [] IsConditionalBranch(ee.at) ->
             {assuming(b) : b \in BranchTargets(ee.at)} \cup
             {[s EXCEPT !.branches = Append(@, NotTaken(ee))]}
        [] OTHER -> {assuming(b) : b \in BranchTargets(ee.at)}

HandleCall(s, ee) ==
  IF CallsExternal(ee.at) THEN [s EXCEPT !.pc.at = ExtFuncStart[ExternalCallee(ee.at)]]
  ELSE [s EXCEPT !.pc = EntryOf(CHOOSE f \in PotentialCallees(ee.at) : TRUE, ReduceOnCall(ee.ctx))]

\* Where a return may go to, and with which assumption: behind the calls of the
\* function in a context that is reduced to the one it returns with.
ReturnLocations(ee, ins2ctx) ==
  LET f == FuncOf(ee.at)
      returned == UpdateContext(AfterInstr(ee.at, ee.ctx), DirectiveOnReturn(f))
      calls == {<<i, ctx>> \in UNION {{i} \X ins2ctx[i] : i \in CallSites(f)} : ReduceOnCall(ctx) = returned}
  IN  {[pc |-> Element(c[1] + 1, ContextOfNext(c[1], c[2], c[1] + 1)), to |-> Element(c[1] + 1, c[2])] : c \in calls}
      \cup IF f = EntryPoint
           THEN {[pc |-> Element(InitialLinkRegister, <<>>), to |-> Element(InitialLinkRegister, <<>>)]}
           ELSE {}

HandleReturn(s, ee, ins2ctx) ==
  {[s EXCEPT !.pc = l.pc, !.returns = Append(@, l.to), !.branches = Append(@, Taken(ee, None))] :
     l \in ReturnLocations(ee, ins2ctx)}
  \cup IF IsPredicated(ee.at) THEN {[s EXCEPT !.branches = Append(@, NotTaken(ee))]} ELSE {}

HandleBranching(s, ee, ins2ctx) ==
  CASE IsBranch(ee.at) -> HandleBranch(s, ee)
    [] IsCall(ee.at) -> {HandleCall(s, ee)}
    [] IsReturn(ee.at) -> HandleReturn(s, ee, ins2ctx)
    [] OTHER -> {s}

\* The oldest assumption is the one that is asked for.
AssumesAbout(s, ee) == s.branches # <<>> /\ Head(s.branches).ee = ee
ForgetBranch(s) == [s EXCEPT !.branches = Tail(@)]
AssumedTaken(s) == Head(s.branches).taken
AssumedTarget(s, b) == Head(s.branches).taken /\ Head(s.branches).target = b
AssumedReturn(s, to) == s.returns # <<>> /\ Head(s.returns) = to
AssumedReturnedFromMain(s) == AssumedReturn(s, Element(InitialLinkRegister, <<>>))
ForgetReturn(s) == [s EXCEPT !.returns = Tail(@)]

-----------------------------------------------------------------------------
(* The core *)

DurationsOf(a) == IF a \in Instrs THEN Durations[a] ELSE {2}

Later(s) == [s EXCEPT !.time = [lb |-> @.lb + 1, ub |-> @.ub + 1]]
Worked(s) == [Later(s) EXCEPT !.remaining = @ - 1]

FixedLatencyCycle(s, ins2ctx) ==
  IF s.remaining = 0
  THEN {[Later(s) EXCEPT !.pc = NextElement(@), !.inflight = s.pc, !.remaining = d] :
          d \in DurationsOf(s.pc.at)}
  ELSE IF s.remaining = 1 /\ s.inflight.at \in Instrs
  THEN HandleBranching(Worked(s), s.inflight, ins2ctx)
  ELSE {Worked(s)}

IsFinal(s, ee) ==
  /\ s.inflight # NoElement
  /\ GoesExternal(ee.at) \/ (s.inflight = ee /\ s.remaining = 0)

\* Some cores wait with so many cycles left until they have been joined with others.
IsWaitingForJoin(s) == s.remaining = option.joinAt

-----------------------------------------------------------------------------
VARIABLES ins2ctx,    \* the contexts of the calls, from the value analysis
          work,       \* pairs of a block and a context
          into,       \* states on entry to a block in a context
          called,     \* states on entry to a function in the context before its call
          returned,   \* states that leave a function, in that context
          out,        \* states at the end of a block in a context
          afterCall,  \* states behind a call in a context
          unfit       \* an assumption was asked for that was not made

explored == <<ins2ctx, work, into, called, returned, out, afterCall, unfit>>

\* Functions with a value for keys that have none.
At(f, k) == IF k \in DOMAIN f THEN f[k] ELSE {}
With(f, k, v) == (k :> v) @@ f

-----------------------------------------------------------------------------
(* Sets of states *)

\* There is at most one state that s can be joined with.
InsertOnInstr(states, s) ==
  LET partners == {t \in states : IsJoinable(t, s)}
  IN  IF s \in states \/ partners = {} THEN states \cup {s}
      ELSE LET t == CHOOSE t \in partners : TRUE IN (states \ {t}) \cup {Join(t, s)}
InsertAll(states, more) ==
  IF option.muJoin THEN FoldSet(LAMBDA s, acc : InsertOnInstr(acc, s), states, more) ELSE states \cup more

EnterBasicBlock(states) == InsertAll({}, {ResetLocalMetrics(s) : s \in states})

\* States that wait for others to be joined with go on when all the others are final
\* or wait, too.
\* c is [working, waiting, final].
Progressed(c, done, succs) ==
  LET waits == {t \in succs : IsWaitingForJoin(t)}
  IN  [working |-> succs \ waits, waiting |-> InsertAll(c.waiting, waits),
       final |-> InsertAll(c.final, done)]
CycledOnce(c, done) ==
  Progressed(c, done, UNION {FixedLatencyCycle(s, ins2ctx) : s \in c.working \ done})

RECURSIVE Cycled(_, _)
Cycled(c, ee) ==
  IF c.working = {} /\ c.waiting = {} THEN c.final
  ELSE Cycled(IF c.working = {} THEN [c EXCEPT !.working = c.waiting, !.waiting = {}]
              ELSE CycledOnce(c, {s \in c.working : IsFinal(s, ee)}), ee)

CycleUntilFinal(states, ee) == Cycled([working |-> states, waiting |-> {}, final |-> {}], ee)

IsLastReturn(i) == IsReturn(i) /\ FuncOf(i) = EntryPoint /\ Block[BlockOf(i)].succs = {}

\* transfer(): the end of the program is awaited.
EndAwaited(final, i) ==
  LET ended == {s \in final : AssumedReturnedFromMain(s)}
  IN  IF ~IsLastReturn(i) \/ ended = {} THEN final
      ELSE InsertAll(final \ ended, CycleUntilFinal(ended, Element(InitialLinkRegister, <<>>)))
TransferStates(states, i, ctx) == EndAwaited(CycleUntilFinal(states, Element(i, ctx)), i)

\* transferCall(): behind an external function the core starts again.
StatesAfterExternal(i, ctx) == {Restarted(Element(i + 1, ContextOfNext(i, ctx, i + 1)))}

StatesReturnedTo(states, i, ctx) ==
  InsertAll({}, {ResetLocalMetrics(ForgetReturn(s)) :
                   s \in {t \in states : AssumedReturn(t, Element(i + 1, ctx))}})

GuardTaken(states, b) == {ForgetBranch(s) : s \in {t \in states : AssumedTarget(t, b)}}
GuardTakenAny(states) == {ForgetBranch(s) : s \in {t \in states : AssumedTaken(t)}}
GuardNotTaken(states) == {ForgetBranch(s) : s \in {t \in states : ~AssumedTaken(t)}}

-----------------------------------------------------------------------------
(* A block in a context: st is [states, ctx, and the variables above].     *)

IntoBlock(st, item, joined) ==
  IF joined = At(st.into, item) THEN st
  ELSE [st EXCEPT !.into = With(@, item, joined), !.work = @ \cup {item}]
EntersBlock(st, b, ctx, states) ==
  IF states = {} THEN st
  ELSE IntoBlock(st, <<b, ctx>>, InsertAll(At(st.into, <<b, ctx>>), EnterBasicBlock(states)))

\* f is called in the context ctx, now with the states joined.
IntoFunction(st, f, ctx, joined) ==
  [st EXCEPT !.called = With(@, <<f, ctx>>, joined),
             !.work = IF joined = At(st.called, <<f, ctx>>) THEN @
                      ELSE @ \cup {<<Entry[f], UpdateContext(ctx, DirectiveOnCall(f))>>}]
CallFunction(st, i, f) ==
  LET ctx == ReduceOnCall(st.ctx)
  IN  [IntoFunction(st, f, ctx, InsertAll(At(st.called, <<f, ctx>>),
                      EnterBasicBlock(TransferStates(st.states, i, st.ctx)))) EXCEPT
         !.states = StatesReturnedTo(At(st.returned, <<f, ctx>>), i, st.ctx)]

TransferInstruction(st, i) ==
  CASE st.states = {} -> st
    [] st.states # {} /\ ~IsCall(i) -> [st EXCEPT !.states = TransferStates(@, i, st.ctx)]
    [] st.states # {} /\ IsCall(i) /\ CallsExternal(i) ->
         [st EXCEPT !.states = StatesAfterExternal(i, st.ctx)]
    [] OTHER -> CallFunction(st, i, CHOOSE f \in PotentialCallees(i) : TRUE)
BehindInstruction(st, i, after) ==
  [st EXCEPT !.ctx = after,
             !.afterCall = IF IsCall(i) THEN With(@, <<i, after>>, st.states) ELSE @]
AnalyseInstruction(st, i) ==
  LET before == BeforeInstr(i, st.ctx)
  IN  BehindInstruction(TransferInstruction([st EXCEPT !.ctx = before], i), i, AfterInstr(i, before))

\* The states that leave the block at i, and those that stay.
LeavesAt(st, i, leaving, staying) ==
  [st EXCEPT !.states = staying, !.out = With(@, <<BlockOf(i), st.ctx>>, At(@, <<BlockOf(i), st.ctx>>) \cup leaving),
             !.unfit = @ \/ ~\A s \in st.states : AssumesAbout(s, Element(i, st.ctx))]

LeavesByBranch(st, i) ==
  LET item == <<BlockOf(i), st.ctx>>
  IN  IF IsUnconditionalBranch(i)
      THEN [st EXCEPT !.states = {}, !.out = With(@, item, At(@, item) \cup st.states)]
      ELSE LeavesAt(st, i, GuardTakenAny(st.states),
                    IF IsConditionalBranch(i) THEN GuardNotTaken(st.states) ELSE {})
Branched(st, i) ==
  LET b == BlockOf(i)
      guarded(t) == IF IsUnconditionalBranch(i) THEN st.states ELSE GuardTaken(st.states, t)
  IN  LeavesByBranch(
        FoldSet(LAMBDA t, acc : EntersBlock(acc, t, AlongEdge(st.ctx, <<b, t>>), guarded(t)),
                st, BranchTargets(i)), i)

Returned(st, i) ==
  LET f == FuncOf(i)
      ctx == UpdateContext(st.ctx, DirectiveOnReturn(f))
      leaving == GuardTakenAny(st.states)
      joined == InsertAll(At(st.returned, <<f, ctx>>), leaving)
      woken == UNION {{<<b, c>> \in DOMAIN st.into : b = BlockOf(j) /\ ReduceOnCall(BeforeInstr(j, c)) = ctx} :
                        j \in CallSites(f)}
  IN  [LeavesAt(st, i, leaving, IF IsPredicated(i) THEN GuardNotTaken(st.states) ELSE {}) EXCEPT
         !.returned = With(@, <<f, ctx>>, joined),
         !.work = IF joined = At(st.returned, <<f, ctx>>) THEN @ ELSE @ \cup woken]

HandleBranchInstruction(st, i) ==
  CASE st.states = {} -> st
    [] st.states # {} /\ IsBranch(i) -> Branched(st, i)
    [] st.states # {} /\ IsReturn(i) -> Returned(st, i)
    [] OTHER -> st

\* What is left at the end falls through.
FallThrough(st, b) ==
  LET next == Block[b].layout
      left == [st EXCEPT !.out = With(@, <<b, st.ctx>>, InsertAll(At(@, <<b, st.ctx>>), st.states))]
  IN  IF next = None THEN left
      ELSE EntersBlock(left, next, AlongEdge(st.ctx, <<b, next>>), st.states)
AnalyseMachineBasicBlock(st, b) ==
  FallThrough(FoldLeft(LAMBDA s, i : HandleBranchInstruction(AnalyseInstruction(s, i), i),
                       st, InstrsOf(b)), b)

-----------------------------------------------------------------------------
(* The contexts in which calls are made *)

ContextsFrom(b, ctx) ==
  {<<t, AlongEdge(ctx, <<b, t>>)>> : t \in Block[b].succs} \cup
  {<<Entry[CHOOSE f \in PotentialCallees(i) : TRUE],
     UpdateContext(ReduceOnCall(BeforeInstr(i, ctx)), DirectiveOnCall(CHOOSE f \in PotentialCallees(i) : TRUE))>> :
     i \in {j \in CallSitesInMBB(b) : ~CallsExternal(j)}}
StartContext == UpdateContext(<<>>, DirectiveOnCall(EntryPoint))

RECURSIVE ReachedContexts(_)
ReachedContexts(reached) ==
  LET more == reached \cup UNION {ContextsFrom(n[1], n[2]) : n \in reached}
  IN  IF more = reached THEN reached ELSE ReachedContexts(more)

ContextsOfCalls ==
  LET reached == ReachedContexts({<<Entry[EntryPoint], StartContext>>})
  IN  [i \in {j \in Instrs : IsCall(j)} |->
         {BeforeInstr(i, n[2]) : n \in {m \in reached : m[1] = BlockOf(i)}}]

StartState == Restarted(EntryOf(EntryPoint, <<>>))

InitExploration ==
  /\ ins2ctx = <<>> /\ work = {} /\ called = <<>>
  /\ into = <<>> /\ returned = <<>> /\ out = <<>> /\ afterCall = <<>> /\ unfit = FALSE

StartExploration ==
  /\ ins2ctx' = ContextsOfCalls
  /\ work' = {<<Entry[EntryPoint], StartContext>>}
  /\ called' = (<<EntryPoint, <<>>>> :> {StartState})
  /\ UNCHANGED <<option, into, returned, out, afterCall, unfit>>

\* Blocks of functions start with the states their callers come with.
EntryStates(b, ctx) ==
  LET f == Block[b].func
  IN  IF b # Entry[f] THEN At(into, <<b, ctx>>)
      ELSE InsertAll(At(into, <<b, ctx>>), At(called, <<f, Front(ctx)>>))

Explore ==
  /\ work # {}
  /\ LET b == Min({w[1] : w \in work})
         item == CHOOSE w \in work : w[1] = b
         ctx == item[2]
         known == With(into, item, EntryStates(b, ctx))
         begun == [states |-> known[item], ctx |-> ctx, into |-> known, called |-> called, work |-> work \ {item},
                   returned |-> returned, out |-> With(out, item, {}), afterCall |-> afterCall, unfit |-> unfit]
     IN  \E st \in {AnalyseMachineBasicBlock(begun, b)} :
           /\ work' = st.work /\ into' = st.into /\ called' = st.called /\ returned' = st.returned
           /\ out' = st.out /\ afterCall' = st.afterCall /\ unfit' = st.unfit
  /\ UNCHANGED <<option, ins2ctx>>
=============================================================================
