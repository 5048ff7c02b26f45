-------------------------------- MODULE Contexts --------------------------------
(***************************************************************************)
(* Execution contexts: sequences of partition tokens that tell apart what  *)
(* happened on the way to a program point.  Directives on functions, calls *)
(* and edges push and pop tokens; a back edge counts a peeled loop on; a   *)
(* call keeps only the newest tokens of every kind.                        *)
(***************************************************************************)
EXTENDS MachineProgram

CONSTANTS Unlimited     \* number of tokens of a kind that are kept: all (negative)

VARIABLE option         \* the command line: a record of loopPeel, loopTokens, calleeTokens,
                        \* callsiteTokens, and what else the analysis at hand is told

\* Partition tokens.
LoopPeel(l, k) == [type |-> "LOOPPEEL", loop |-> l, count |-> k]
LoopIter(l, n) == [type |-> "LOOPITER", loop |-> l, count |-> n]
CallSite(i) == [type |-> "CALLSITE", call |-> i]
FunCallee(f) == [type |-> "FUNCALLEE", callee |-> f]

IsLoopToken(t) == t.type \in {"LOOPPEEL", "LOOPITER"}
HasBackedge(t, e) == IsLoopToken(t) /\ e \in BackEdges(t.loop)

-----------------------------------------------------------------------------
(* Directives *)

Create(tokens) == [type |-> "CREATE", tokens |-> tokens]
Merge(tokens) == [type |-> "MERGE", tokens |-> tokens]

\* The first iterations of a loop are told apart, the others are not.
LoopTokens(l) ==
  {LoopPeel(l, k) : k \in 0 .. option.loopPeel - 1} \cup {LoopIter(l, option.loopPeel)}

Annotated(edges(_), e) ==
  IF option.loopPeel = 0 THEN <<>>
  ELSE OuterFirst({l \in Loops : e \in edges(l)})

\* Loops are entered from the outside in and left from the inside out.
DirectivesOnLeave(e) ==
  LET ls == Annotated(IncomingEdges, e) IN [n \in DOMAIN ls |-> Create(LoopTokens(ls[n]))]
DirectivesOnEnter(e) ==
  LET ls == Reverse(Annotated(ExitingEdges, e)) IN [n \in DOMAIN ls |-> Merge(LoopTokens(ls[n]))]

DirectiveOnCall(f) == Create({FunCallee(f)})
DirectiveOnReturn(f) == Merge({FunCallee(f)})
DirectivesBeforeInstr(i) == IF IsCall(i) THEN <<Create({CallSite(i)})>> ELSE <<>>
DirectivesAfterInstr(i) == IF IsCall(i) THEN <<Merge({CallSite(i)})>> ELSE <<>>

-----------------------------------------------------------------------------
(* Operations on contexts; the newest token is the last one. *)

\* The token a context starts with when the partitions of a directive are made.
FirstToken(d) == CHOOSE t \in d.tokens : IsLoopToken(t) => t.count = 0

UpdateContext(ctx, d) ==
  CASE d.type = "CREATE" -> Append(ctx, FirstToken(d))
    [] d.type = "MERGE" /\ Last(ctx) \in d.tokens -> Front(ctx)
    [] OTHER -> ctx
UpdateAll(ctx, ds) == FoldLeft(UpdateContext, ctx, ds)

CountedOn(t) ==
  IF t.count + 1 < option.loopPeel THEN LoopPeel(t.loop, t.count + 1)
  ELSE LoopIter(t.loop, option.loopPeel)

\* transfer(): a back edge was taken.
OverEdge(ctx, e) ==
  IF ctx # <<>> /\ Last(ctx).type = "LOOPPEEL" /\ HasBackedge(Last(ctx), e)
  THEN Append(Front(ctx), CountedOn(Last(ctx)))
  ELSE ctx

\* What the driver does with the context of a block that is left by an edge.
AlongEdge(ctx, e) ==
  UpdateAll(OverEdge(UpdateAll(ctx, DirectivesOnEnter(e)), e), DirectivesOnLeave(e))

\* Of the tokens of some types only the newest are kept.
ClearTokensOlderThan(ctx, types, length) ==
  LET newer(n) == Cardinality({m \in n + 1 .. Len(ctx) : ctx[m].type \in types})
      kept == {n \in DOMAIN ctx : ctx[n].type \notin types \/ newer(n) < length}
  IN  [k \in 1 .. Cardinality(kept) |-> ctx[SetToSortSeq(kept, <)[k]]]

Limited(ctx, types, length) ==
  IF length = Unlimited THEN ctx ELSE ClearTokensOlderThan(ctx, types, length)

\* Mutant: the numbers of call sites and of loop tokens are mixed up.
ReduceOnCallSwapped(ctx) ==
  Limited(Limited(Limited(ctx, {"LOOPPEEL", "LOOPITER"}, option.callsiteTokens),
    {"FUNCALLEE"}, option.calleeTokens), {"CALLSITE"}, option.loopTokens)

ReduceOnCall(ctx) ==
  Limited(Limited(Limited(ctx, {"LOOPPEEL", "LOOPITER"}, option.loopTokens),
    {"FUNCALLEE"}, option.calleeTokens), {"CALLSITE"}, option.callsiteTokens)

\* cleanToFunCall(): the loops of the running function are forgotten.
CleanToFunCall(ctx) ==
  LET others == {n \in DOMAIN ctx : ~IsLoopToken(ctx[n])}
  IN  IF others = {} THEN <<>> ELSE SubSeq(ctx, 1, Max(others))

IsProperPrefixOf(c, d) == Len(c) < Len(d) /\ c = SubSeq(d, 1, Len(c))
=============================================================================
