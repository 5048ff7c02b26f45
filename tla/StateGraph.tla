------------------------------- MODULE StateGraph -------------------------------
(***************************************************************************)
(* The state graph the path analysis works on: one vertex per state on     *)
(* entry to and at the end of every basic block, around calls, and where   *)
(* paths through a block cannot be made one; the weights of the edges are  *)
(* the time that passes.  Blocks are gone through again, instruction by    *)
(* instruction, and what comes out must be what the analysis found.        *)
(***************************************************************************)
EXTENDS StateExploration

CONSTANTS ExtFuncBound    \* the time an external function takes at most

VARIABLES phase,          \* "begin", "explore", "intra", "inter", "finish", "run"
          g,              \* the graph
          inStates, outStates,        \* vertices on entry to and at the end of a block
          callStates, returnStates,   \* vertices of calls, and behind calls in a context
          todo,           \* pairs of a block and a context still to be gone through
          cursor,         \* the one that is gone through, and the states at its n-th instruction
          failed          \* an assertion has failed

construction == <<phase, g, inStates, outStates, callStates, returnStates, todo, cursor, failed>>

\* The vertex that all paths start at and return to.
Outside == 0
Neutral == [lb |-> 0, ub |-> 0]

RECURSIVE Ascending(_)
Ascending(S) == IF S = {} THEN <<>> ELSE <<Min(S)>> \o Ascending(S \ {Min(S)})

\* The elements of a set in some order.
RECURSIVE ListedBehind(_)
ListedBehind(l) ==
  IF l.left = {} THEN l.seq
  ELSE LET x == CHOOSE y \in l.left : TRUE
       IN  ListedBehind([left |-> l.left \ {x}, seq |-> Append(l.seq, x)])
Listed(S) == ListedBehind([left |-> S, seq |-> <<>>])

-----------------------------------------------------------------------------
(* The graph: [next, st, ctx, edges, weight, persist].  weight has both    *)
(* bounds of the time, which are provided separately.                      *)

EmptyGraph == [next |-> 1, st |-> <<>>, ctx |-> <<>>, edges |-> {}, weight |-> <<>>, persist |-> {}]

Predecessors(gr, v) == {e[1] : e \in {f \in gr.edges : f[2] = v}}
Without(f, S) == [x \in DOMAIN f \ S |-> f[x]]
AddVertex(gr, s, ctx) ==
  [gr EXCEPT !.next = @ + 1, !.st = With(@, gr.next, s), !.ctx = With(@, gr.next, ctx)]
RemoveVertex(gr, v) ==
  [gr EXCEPT !.st = Without(@, {v}), !.ctx = Without(@, {v}), !.edges = {e \in @ : v \notin {e[1], e[2]}}]

\* addInitialEdge(): the edges to the states being cycled start at themselves.
AddInitialEdges(gr, vs) ==
  [gr EXCEPT !.edges = @ \cup {<<v, v>> : v \in vs},
             !.weight = [e \in {<<v, v>> : v \in vs} |-> gr.st[e[1]].time] @@ @]

\* Mutant: the time of the state itself is taken for the time that passed.
AdvanceWeightAbsolute(gr, p, curr, succ) == gr.st[succ].time

AdvanceWeight(gr, p, curr, succ) ==
  LET w == gr.weight[<<p, curr>>]
      from == gr.st[curr].time
      to == gr.st[succ].time
  IN  [lb |-> to.lb - from.lb + w.lb, ub |-> to.ub - from.ub + w.ub]

\* Successors that some predecessor is connected to already, with another weight.
FailedSuccessors(gr, curr, succs) ==
  {s \in Range(succs) : \E p \in Predecessors(gr, curr) :
     <<p, s>> \in DOMAIN gr.weight /\ gr.weight[<<p, s>>] # AdvanceWeight(gr, p, curr, s)}

\* What remains of a vertex whose incoming edges have been moved on.
Left(gr, curr, preds) == IF curr \in preds THEN gr ELSE RemoveVertex(gr, curr)

AdvanceEdges(gr, curr, succs) ==
  LET preds == Predecessors(gr, curr)
      old == preds \X {curr}
      new == FoldSet(LAMBDA e, acc : (e :> AdvanceWeight(gr, e[1], curr, e[2])) @@ acc, <<>>,
                     preds \X Range(succs))
  IN  Left([gr EXCEPT !.edges = (@ \ old) \cup DOMAIN new, !.weight = new @@ Without(@, old)], curr, preds)

JoinWeights(v, w) == [lb |-> Min({v.lb, w.lb}), ub |-> Max({v.ub, w.ub})]
IsEdgeJoinable(v, w) == v.ub - w.ub \in -option.joinWithin .. option.joinWithin

\* updateEdgeTarget(): the edges to t become edges to nt, but those that cannot be
\* joined with one that is there.
UnjoinableAt(gr, t, nt) ==
  {p \in Predecessors(gr, t) :
     <<p, nt>> \in gr.edges /\ ~IsEdgeJoinable(gr.weight[<<p, t>>], gr.weight[<<p, nt>>])}
UpdateEdgeTarget(gr, t, nt) ==
  LET kept == UnjoinableAt(gr, t, nt)
      preds == Predecessors(gr, t)
      moved == preds \ kept
      weight(p) == IF <<p, nt>> \in gr.edges THEN JoinWeights(gr.weight[<<p, t>>], gr.weight[<<p, nt>>])
                   ELSE gr.weight[<<p, t>>]
      new == FoldSet(LAMBDA p, acc : (<<p, nt>> :> weight(p)) @@ acc, <<>>, moved)
      updated == [gr EXCEPT !.edges = (@ \ (moved \X {t})) \cup (moved \X {nt}),
                            !.weight = new @@ Without(@, moved \X {t})]
  IN  IF kept = {} THEN Left(updated, t, preds) ELSE updated

NeutralEdge(gr, v, w) ==
  [gr EXCEPT !.edges = @ \cup {<<v, w>>},
             !.weight = IF <<v, w>> \in DOMAIN @ THEN @ ELSE With(@, <<v, w>>, Neutral)]

-----------------------------------------------------------------------------
(* cycleUntilFinal(): first the successors of a state are found, then the  *)
(* edges to it are moved on to them, in topological order.  c is [g,       *)
(* queue, known, succs, preds, final, waiting].                            *)

DiscoverOne(c, curr, t, ee, barrier) ==
  LET id == c.g.next
      new == [c EXCEPT !.g = AddVertex(@, t, ee.ctx), !.known = With(@, t, id), !.preds = With(@, id, 1),
                       !.succs = With(@, curr, Append(@[curr], id))]
  IN  CASE t \in DOMAIN c.known ->
             [c EXCEPT !.preds[c.known[t]] = @ + 1, !.succs = With(@, curr, Append(@[curr], c.known[t]))]
        [] t \notin DOMAIN c.known /\ IsFinal(t, ee) -> [new EXCEPT !.final = @ \cup {id}]
        [] t \notin DOMAIN c.known /\ ~IsFinal(t, ee) /\ barrier /\ IsWaitingForJoin(t) ->
             [new EXCEPT !.waiting = @ \cup {id}]
        [] OTHER -> [new EXCEPT !.queue = Append(@, id)]

RECURSIVE Discovered(_, _, _)
Discovered(c, ee, barrier) ==
  IF c.queue = <<>> THEN c
  ELSE LET curr == Head(c.queue)
           begun == [c EXCEPT !.queue = Tail(@), !.succs = With(@, curr, <<>>)]
       IN  Discovered(FoldSet(LAMBDA t, acc : DiscoverOne(acc, curr, t, ee, barrier), begun,
                              FixedLatencyCycle(c.g.st[curr], ins2ctx)), ee, barrier)

\* A persistent state stays, and is left by a copy of it.
PersistentLeft(c, curr) ==
  LET id == c.g.next
  IN  [c EXCEPT !.g = NeutralEdge(AddVertex(@, c.g.st[curr], c.g.ctx[curr]), curr, id),
                !.succs = With(Without(@, {curr}), id, @[curr])]

\* A failed successor gets a copy for the edges that are moved now.
CloneFailed(c, s) ==
  LET id == c.g.next
      also(S) == IF s \in S THEN S \cup {id} ELSE S
      copied == [c EXCEPT !.g = [AddVertex(@, c.g.st[s], c.g.ctx[s]) EXCEPT !.persist = also(@)],
                          !.final = also(@), !.waiting = also(@), !.queue = Append(@, id)]
  IN  IF s \notin DOMAIN c.succs THEN copied
      ELSE [copied EXCEPT !.succs = With(@, id, @[s]),
                          !.preds = [v \in DOMAIN @ |-> IF v \in Range(c.succs[s]) THEN @[v] + 1 ELSE @[v]]]

\* The successors that curr was the last predecessor of are next.
Released(c, succs) ==
  LET count(v) == Cardinality({n \in DOMAIN succs : succs[n] = v})
      preds == [v \in DOMAIN c.preds |-> c.preds[v] - count(v)]
  IN  [c EXCEPT !.preds = preds, !.queue = @ \o Ascending({v \in Range(succs) : preds[v] = 0})]

Advanced(c, curr) ==
  LET succs == c.succs[curr]
      fails == FailedSuccessors(c.g, curr, succs)
      cloned == FoldSet(LAMBDA s, acc : CloneFailed(acc, s), c, fails)
      copies == [n \in 1 .. cloned.g.next - c.g.next |-> c.g.next + n - 1]
      repaired == copies \o SelectSeq(succs, LAMBDA s : s \notin fails)
  IN  Released([cloned EXCEPT !.g = AdvanceEdges(@, curr, repaired)], succs)

RECURSIVE EdgesMoved(_)
EdgesMoved(c) ==
  IF c.queue = <<>> THEN c
  ELSE LET curr == Head(c.queue)
           rest == [c EXCEPT !.queue = Tail(@)]
           persists == curr \in c.g.persist
       IN  EdgesMoved(IF curr \notin DOMAIN c.succs THEN rest
                      ELSE IF persists THEN Advanced(PersistentLeft(rest, curr), rest.g.next)
                      ELSE Advanced(rest, curr))

\* A state that is final already only gets a new vertex.
FinalAtOnce(gr, v, ee) ==
  LET id == gr.next
      moved == UpdateEdgeTarget(AddVertex(gr, gr.st[v], ee.ctx), v, id)
  IN  [g |-> IF v \in gr.persist THEN [moved EXCEPT !.persist = (@ \ {v}) \cup {id}] ELSE moved,
       final |-> {id}, waiting |-> {}]

\* What is left of c for the instructions behind.
Result(c) == [g |-> c.g, final |-> c.final, waiting |-> c.waiting]
CycleVertex(gr, v, ee, barrier) ==
  LET c == [g |-> gr, queue |-> <<v>>, known |-> (gr.st[v] :> v), succs |-> <<>>, preds |-> <<>>,
            final |-> {}, waiting |-> {}]
  IN  IF IsFinal(gr.st[v], ee) THEN FinalAtOnce(gr, v, ee)
      ELSE Result(EdgesMoved([Discovered(c, ee, barrier) EXCEPT !.queue = <<v>>]))

-----------------------------------------------------------------------------
(* progressStatesForProgLoc(): all states of the working set until they    *)
(* are final for an instruction.                                           *)

\* moveMidStatesDown(): states with incoming edges, so all of them, become persistent.
MidStatesKept(gr, vs) == [gr EXCEPT !.persist = @ \cup {v \in vs : Predecessors(gr, v) # {}}]

Transferred(gr, v, w) ==
  IF v \in gr.persist THEN [gr EXCEPT !.persist = (@ \ {v}) \cup {w}] ELSE gr

\* The edges to v, which was joined into w, go to w, or to one of the states that
\* could not be joined completely before, or v remains in front of w.
EdgesJoined(j, v, w) ==
  LET first == UpdateEdgeTarget(j.g, v, w)
      tried == FoldLeft(LAMBDA acc, a :
                 IF acc.done THEN acc
                 ELSE [g |-> UpdateEdgeTarget(acc.g, v, a), done |-> UnjoinableAt(acc.g, v, a) = {}, at |-> a],
                 [g |-> first, done |-> UnjoinableAt(j.g, v, w) = {}, at |-> w],
                 IF w \in DOMAIN j.alternatives THEN j.alternatives[w] ELSE <<>>)
  IN  IF tried.done THEN [j EXCEPT !.g = Transferred(tried.g, v, tried.at)]
      ELSE [j EXCEPT !.g = NeutralEdge(tried.g, v, w),
                     !.alternatives = With(@, w, Append(IF w \in DOMAIN @ THEN @[w] ELSE <<>>, v))]

\* joinFinalStates(): j is [g, successors, alternatives].
JoinFinalState(j, v) ==
  LET partners == {w \in j.successors : IsJoinable(j.g.st[w], j.g.st[v])}
      w == Min(partners)
  IN  IF partners = {} THEN [j EXCEPT !.successors = @ \cup {v}]
      ELSE EdgesJoined([j EXCEPT !.g.st[w] = Join(@, j.g.st[v])], v, w)

JoinFinalStates(gr, vs, successors, alternatives) ==
  FoldLeft(JoinFinalState, [g |-> MidStatesKept(gr, vs), successors |-> successors, alternatives |-> alternatives],
           Ascending(vs))

\* The end of the program, or an external function, is awaited.
SyncAddress(i) == IF IsCall(i) THEN ExtFuncStart[ExternalCallee(i)] ELSE InitialLinkRegister
Both(r, s) == [s EXCEPT !.final = r.final \cup @, !.waiting = r.waiting]
Synchronised(r, vs, ee) ==
  FoldLeft(LAMBDA acc, v : Both(acc, CycleVertex(acc.g, v, ee, FALSE)),
           [r EXCEPT !.final = @ \ vs], Ascending(vs))
Awaited(r, i, ctx) ==
  LET ended == CASE IsLastReturn(i) -> {v \in r.final : AssumedReturnedFromMain(r.g.st[v])}
                 [] IsCall(i) /\ CallsExternal(i) -> r.final
                 [] OTHER -> {}
  IN  IF ended = {} THEN r ELSE Synchronised(r, ended, Element(SyncAddress(i), ctx))

\* What one state of the working set leads to; p is the cursor, with the graph.
FinalsJoined(p, j) == [p EXCEPT !.g = j.g, !.successors = j.successors, !.alternatives = j.alternatives]
WaitersJoined(p, j) == [p EXCEPT !.g = j.g, !.waiters = j.successors, !.waiterAlternatives = j.alternatives]
JoinWaiters(p, r) == WaitersJoined(p, JoinFinalStates(p.g, r.waiting, p.waiters, p.waiterAlternatives))
Reached(p, r) ==
  IF option.muJoin
  THEN JoinWaiters(FinalsJoined(p, JoinFinalStates(r.g, r.final, p.successors, p.alternatives)), r)
  ELSE [p EXCEPT !.g = r.g, !.successors = @ \cup r.final, !.waiters = @ \cup r.waiting]
ProgressOne(p, v, i, ctx) ==
  Reached(p, Awaited(CycleVertex(p.g, v, Element(i, ctx), TRUE), i, ctx))

-----------------------------------------------------------------------------
(* collectInOutStatesPerBB() *)

\* Vertices for a sequence or a set of states, as [g, ids].
AddVertices(gr, states, ctx) ==
  LET ids == [n \in DOMAIN states |-> gr.next + n - 1]
  IN  [g |-> [gr EXCEPT !.next = @ + Len(states), !.ctx = [v \in Range(ids) |-> ctx] @@ @,
                        !.st = [v \in Range(ids) |-> states[v - gr.next + 1]] @@ @],
       ids |-> ids]
VerticesFor(gr, states, ctx) == AddVertices(gr, Listed(states), ctx)

WithVertices(c, k, vs) == [c EXCEPT !.left = @ \ {k}, !.g = vs.g, !.ids = With(@, k, vs.ids)]
RECURSIVE CollectedBehind(_, _)
CollectedBehind(c, states) ==
  IF c.left = {} THEN c
  ELSE LET k == CHOOSE k \in c.left : TRUE
       IN  CollectedBehind(WithVertices(c, k, VerticesFor(c.g, states[k], k[2])), states)
StatesCollected(gr, states) == CollectedBehind([left |-> DOMAIN states, g |-> gr, ids |-> <<>>], states)

CollectInOutStates ==
  /\ phase = "explore" /\ work = {} /\ ~option.insensitive
  /\ LET ins == StatesCollected(EmptyGraph, into)
         outs == StatesCollected(ins.g, out)
     IN  g' = outs.g /\ inStates' = ins.ids /\ outStates' = outs.ids
  /\ phase' = "intra" /\ todo' = DOMAIN into /\ failed' = unfit
  /\ UNCHANGED <<option, explored, callStates, returnStates, cursor>>

-----------------------------------------------------------------------------
(* buildIntraBasicBlockEdges() *)

AtInstr(b, ctx, n, working) ==
  [block |-> b, ctx |-> ctx, n |-> n, working |-> working, successors |-> {}, alternatives |-> <<>>,
   waiters |-> {}, waiterAlternatives |-> <<>>]
NoCursor == AtInstr(None, <<>>, 0, {})

EnterBlock ==
  /\ phase = "intra" /\ cursor = NoCursor
  /\ \E b \in Blocks :
       /\ b = Min({k[1] : k \in todo})
       /\ LET k == CHOOSE k \in todo : k[1] = b
              ids == Range(inStates[k])
          IN  /\ cursor' = AtInstr(b, k[2], 1, ids)
              /\ g' = AddInitialEdges(g, ids)
              /\ todo' = todo \ {k}
  /\ UNCHANGED <<option, explored, phase, inStates, outStates, callStates, returnStates, failed>>

\* handleCallInstructions(): the block is gone on with from the states behind the call.
CallHandled(gr, i, ctx) ==
  LET vs == VerticesFor(gr, At(afterCall, <<i, AfterInstr(i, ctx)>>), AfterInstr(i, ctx))
  IN  [g |-> AddInitialEdges(vs.g, Range(vs.ids)), ids |-> vs.ids]

\* filterExitingStates(): x is [g, working, failed].
IsGuarding(i) == IsConditionalBranch(i) \/ Instr[i].op = "jt" \/ IsReturn(i)
IsEndInstr(b, i) == i = Block[b].last \/ (IsBranch(i) \/ IsReturn(i))
Staying(s, b, i) ==
  /\ IsConditionalBranch(i) \/ (IsReturn(i) /\ IsPredicated(i))
  /\ ~AssumedTaken(s) /\ i # Block[b].last

FilterOne(x, v, b, i) ==
  LET s == x.g.st[v]
      popped == IF IsGuarding(i) THEN [x.g EXCEPT !.st[v] = ForgetBranch(s)] ELSE x.g
      outs == IF <<b, x.g.ctx[v]>> \in DOMAIN outStates THEN outStates[<<b, x.g.ctx[v]>>] ELSE <<>>
      matches == {n \in DOMAIN outs : popped.st[outs[n]] = popped.st[v]}
      o == outs[Min(matches)]
  IN  IF IsGuarding(i) /\ s.branches = <<>> THEN [x EXCEPT !.failed = TRUE]
      ELSE IF IsGuarding(i) /\ Staying(s, b, i) THEN [x EXCEPT !.g = popped]
      ELSE IF matches = {} THEN [x EXCEPT !.failed = TRUE]
      ELSE [g |-> UpdateEdgeTarget(popped, v, o), working |-> x.working \ {v},
            failed |-> x.failed \/ UnjoinableAt(popped, v, o) # {}]

FilterExitingStates(gr, working, b, i) ==
  FoldLeft(LAMBDA acc, v : FilterOne(acc, v, b, i), [g |-> gr, working |-> working, failed |-> FALSE],
           Ascending(working))

\* progressStatesForProgLoc(): state after state, and when all of them are final or
\* wait, those that wait.
CurrentInstr == InstrsOf(cursor.block)[cursor.n]
CurrentContext == BeforeInstr(CurrentInstr, cursor.ctx)

ProgressState ==
  /\ phase = "intra" /\ cursor.working # {}
  /\ LET v == Min(cursor.working)
     IN  \E p \in {ProgressOne([g |-> g] @@ cursor, v, CurrentInstr, CurrentContext)} :
           /\ g' = p.g
           /\ cursor' = Without([p EXCEPT !.working = @ \ {v}], {"g"})
  /\ UNCHANGED <<option, explored, phase, inStates, outStates, callStates, returnStates, todo, failed>>

ReleaseWaiting ==
  /\ phase = "intra" /\ cursor.working = {} /\ cursor.waiters # {}
  /\ cursor' = [cursor EXCEPT !.working = cursor.waiters, !.waiters = {}, !.waiterAlternatives = <<>>]
  /\ UNCHANGED <<option, explored, phase, g, inStates, outStates, callStates, returnStates, todo, failed>>

BuildIntraBasicBlockEdges ==
  /\ phase = "intra" /\ cursor # NoCursor /\ cursor.working = {} /\ cursor.waiters = {}
  /\ LET b == cursor.block
         i == CurrentInstr
         ctx == CurrentContext
         atEnd == i = Block[b].last
     IN  \E behind \in {IF IsCall(i) THEN CallHandled(g, i, ctx)
                        ELSE [g |-> g, ids |-> Ascending(cursor.successors)]} :
         \E x \in {IF IsEndInstr(b, i) THEN FilterExitingStates(behind.g, Range(behind.ids), b, i)
                   ELSE [g |-> behind.g, working |-> Range(behind.ids), failed |-> FALSE]} :
           /\ g' = x.g
           /\ callStates' = IF IsCall(i) THEN With(callStates, i, At(callStates, i) \cup cursor.successors) ELSE callStates
           /\ returnStates' = IF IsCall(i) THEN With(returnStates, <<i, ctx>>, behind.ids) ELSE returnStates
           /\ failed' = (failed \/ x.failed \/ (atEnd /\ x.working # {}))
           /\ cursor' = IF atEnd THEN NoCursor ELSE AtInstr(b, AfterInstr(i, ctx), cursor.n + 1, x.working)
           /\ phase' = IF atEnd /\ todo = {} THEN "inter" ELSE phase
  /\ UNCHANGED <<option, explored, inStates, outStates, todo>>

-----------------------------------------------------------------------------
(* buildInterBasicBlockEdges(), buildExternalSymbolReturnEdges()           *)

\* Mutant: the time is not reset before a state is compared.
IsSameSuccessor(s, t) == IF option.muJoin THEN IsJoinable(s, t) /\ Join(s, t) = t ELSE s = t

IsDirectSuccessor(s, t) ==
  LET reset == ResetLocalMetrics(s)
  IN  IF option.muJoin THEN IsJoinable(reset, t) /\ Join(reset, t) = t ELSE reset = t

InStates(b, ctx) == IF <<b, ctx>> \in DOMAIN inStates THEN inStates[<<b, ctx>>] ELSE <<>>
DirectSuccessors(s, ids) == {n \in DOMAIN ids : IsDirectSuccessor(s, g.st[ids[n]])}

\* A call goes to the first state of the callee that covers it.
CalleeStates(i, v) ==
  LET f == CHOOSE f \in PotentialCallees(i) : TRUE
      ids == InStates(Entry[f], UpdateContext(ReduceOnCall(g.ctx[v]), DirectiveOnCall(f)))
      ns == DirectSuccessors(g.st[v], ids)
  IN  IF ns = {} THEN {} ELSE {ids[Min(ns)]}

\* The end of a block goes to all states of its successors that cover it.
SuccessorStates(b, v) ==
  UNION {LET ids == InStates(t, AlongEdge(g.ctx[v], <<b, t>>))
         IN  {ids[n] : n \in DirectSuccessors(g.st[v], ids)} : t \in Block[b].succs}

\* If there are none, it returns behind a call, or from the entry point.
ReturnStates(v) ==
  LET to == Head(g.st[v].returns)
      k == <<to.at - 1, to.ctx>>
  IN  IF g.st[v].returns = <<>> \/ k \notin DOMAIN returnStates THEN {}
      ELSE {returnStates[k][n] : n \in DirectSuccessors(ForgetReturn(g.st[v]), returnStates[k])}

Continued(b, v) ==
  CASE SuccessorStates(b, v) # {} -> SuccessorStates(b, v)
    [] SuccessorStates(b, v) = {} /\ ReturnStates(v) # {} -> ReturnStates(v)
    [] OTHER -> IF AssumedReturnedFromMain(g.st[v]) THEN {Outside} ELSE {}

InternalCalls == {k \in UNION {{i} \X callStates[i] : i \in DOMAIN callStates} : ~CallsExternal(k[1])}
BlockEnds == UNION {{k[1]} \X Range(outStates[k]) : k \in DOMAIN outStates}
StartEdges ==
  {<<Outside, v>> : v \in {w \in UNION {Range(inStates[k]) : k \in DOMAIN inStates} : g.st[w] = StartState}}

\* External functions have two vertices each.
CalledExternally == {ExternalCallee(i) : i \in {j \in DOMAIN callStates : CallsExternal(j)}}
ExtIn(f) == g.next + 2 * Cardinality({h \in CalledExternally : ExtFuncStart[h] < ExtFuncStart[f]})
ExtOut(f) == ExtIn(f) + 1
ExternalCallEdges ==
  UNION {callStates[i] \X {ExtIn(ExternalCallee(i))} : i \in {j \in DOMAIN callStates : CallsExternal(j)}}

\* Behind an indirect call there is a vertex of its own.
ExternalReturnEdges ==
  UNION {{ExtOut(ExternalCallee(k[1]))} \X Range(returnStates[k]) :
           k \in {l \in DOMAIN returnStates : CallsExternal(l[1]) /\ ExternalCallee(l[1]) # Indirect}}
Dangling == g.next + 2 * Cardinality(CalledExternally)
IndirectReturnEdges ==
  IF Indirect \in CalledExternally THEN {<<ExtOut(Indirect), Dangling>>} ELSE {}

BuildInterBasicBlockEdges ==
  /\ phase = "inter"
  /\ LET callEdges == UNION {{k[2]} \X CalleeStates(k[1], k[2]) : k \in InternalCalls}
         endEdges == UNION {{k[2]} \X Continued(k[1], k[2]) : k \in BlockEnds}
         extern == {<<ExtIn(f), ExtOut(f)>> : f \in CalledExternally}
     IN  /\ g' = [g EXCEPT !.edges = @ \cup callEdges \cup endEdges \cup StartEdges \cup {<<Outside, Outside>>}
                    \cup ExternalCallEdges \cup extern \cup ExternalReturnEdges \cup IndirectReturnEdges,
                           !.weight = FoldSet(LAMBDA f, acc :
                              (<<ExtIn(f), ExtOut(f)>> :> [lb |-> 0, ub |-> ExtFuncBound[f]]) @@ acc, @, CalledExternally)]
         /\ failed' = (failed \/ (\E k \in InternalCalls : CalleeStates(k[1], k[2]) = {})
                              \/ (\E k \in BlockEnds : Continued(k[1], k[2]) = {}))
  /\ phase' = "finish"
  /\ UNCHANGED <<option, explored, inStates, outStates, callStates, returnStates, todo, cursor>>

-----------------------------------------------------------------------------
(* InsensitiveGraph: it knows neither states nor contexts.  One vertex     *)
(* stands for all states on entry to a block, at its end, at one of its    *)
(* calls or behind it, and an edge takes as long as the states at its end  *)
(* tell.                                                                   *)

ReachedBlocks == {k[1] : k \in DOMAIN into}
ReachedCalls == {i \in Instrs : IsCall(i) /\ BlockOf(i) \in ReachedBlocks}
Names ==
  ({"in", "out"} \X ReachedBlocks) \cup ({"call", "return"} \X ReachedCalls) \cup
  ({"extIn", "extOut"} \X {ExternalCallee(i) : i \in {j \in ReachedCalls : CallsExternal(j)}})

\* The analysis information before the call i, in one of the contexts of its block.
BeforeCall(i, item) ==
  LET begun == [states |-> into[item], ctx |-> item[2], into |-> into, called |-> called, work |-> {},
                returned |-> returned, out |-> out, afterCall |-> afterCall, unfit |-> FALSE]
  IN  FoldLeft(LAMBDA st, j : HandleBranchInstruction(AnalyseInstruction(st, j), j), begun,
               SelectSeq(InstrsOf(item[1]), LAMBDA j : j < i))

\* The call is made, and an external function awaited.
Calling(i, st) ==
  LET ctx == BeforeInstr(i, st.ctx)
      final == TransferStates(st.states, i, ctx)
  IN  IF CallsExternal(i) THEN CycleUntilFinal(final, Element(SyncAddress(i), ctx)) ELSE final

StatesFor(name) ==
  LET x == name[2]
      known(f) == UNION {f[k] : k \in {l \in DOMAIN f : l[1] = x}}
  IN  CASE name[1] = "in" -> known(into)
        [] name[1] = "out" -> known(out)
        [] name[1] = "call" -> UNION {Calling(x, BeforeCall(x, k)) : k \in {l \in DOMAIN into : l[1] = BlockOf(x)}}
        [] OTHER -> known(afterCall)

\* A block is left, or a call made, from behind the last call before that.
LastStart(b, i) ==
  LET calls == {j \in ReachedCalls : BlockOf(j) = b /\ j < i}
  IN  IF calls = {} THEN <<"in", b>> ELSE <<"return", Max(calls)>>
InsideBlocks ==
  {<<LastStart(BlockOf(i), i), <<"call", i>>>> : i \in ReachedCalls} \cup
  {<<LastStart(b, Block[b].last + 1), <<"out", b>>>> : b \in ReachedBlocks}

\* A function returns behind all calls of it.
MayReturn(b) == \E i \in Instrs : BlockOf(i) = b /\ IsReturn(i)
ReturnsFrom(b) ==
  IF ~MayReturn(b) \/ Block[b].func = EntryPoint THEN {}
  ELSE {<<"return", i>> : i \in CallSites(Block[b].func) \cap ReachedCalls}
BetweenBlocks ==
  {<<<<"call", i>>, <<"in", Entry[CHOOSE f \in PotentialCallees(i) : TRUE]>>>> : i \in {j \in ReachedCalls : ~CallsExternal(j)}}
  \cup UNION {{<<"out", b>>} \X ({<<"in", t>> : t \in Block[b].succs} \cup ReturnsFrom(b)) : b \in ReachedBlocks}
AddExternalFunctionsToGraph ==
  UNION {LET f == ExternalCallee(i)
         IN  {<<<<"call", i>>, <<"extIn", f>>>>, <<<<"extIn", f>>, <<"extOut", f>>>>, <<<<"extOut", f>>, <<"return", i>>>>} :
           i \in {j \in ReachedCalls : CallsExternal(j)}}

\* addEdge(): the joined time of the states at the end of an edge.
JoinedTime(states) ==
  [lb |-> Min({s.time.lb : s \in states}), ub |-> Max({s.time.ub : s \in states})]

BuildInsensitiveGraph ==
  /\ phase = "explore" /\ work = {} /\ option.insensitive
  /\ \E states \in {[x \in Names |-> StatesFor(x)]} :
     LET names == Listed(Names)
         id(x) == CHOOSE n \in DOMAIN names : names[n] = x
         ids(E) == {<<id(e[1]), id(e[2])>> : e \in E}
         only(kind) == LET xs == {x \in Range(names) : x[1] = kind} IN [k \in {<<x[2], <<>>>> : x \in xs} |-> <<id(<<kind, k[1]>>)>>]
         returning == {b \in ReachedBlocks : MayReturn(b) /\ Block[b].func = EntryPoint}
         timed == FoldSet(LAMBDA x, acc : (<<id(x[1]), id(x[2])>> :> JoinedTime(states[x[2]])) @@ acc, <<>>,
                          {x \in InsideBlocks : states[x[2]] # {}})
         extern == {x[2] : x \in {y \in Range(names) : y[1] = "extIn"}}
     IN  /\ g' = [EmptyGraph EXCEPT
                    !.next = Len(names) + 1, !.ctx = [n \in DOMAIN names |-> <<>>],
                    !.edges = ids(InsideBlocks \cup BetweenBlocks \cup AddExternalFunctionsToGraph) \cup
                      {<<id(<<"out", b>>), Outside>> : b \in returning} \cup
                      {<<Outside, id(<<"in", Entry[EntryPoint]>>)>>, <<Outside, Outside>>},
                    !.weight = FoldSet(LAMBDA f, acc : (<<id(<<"extIn", f>>), id(<<"extOut", f>>)>> :>
                                         [lb |-> 0, ub |-> ExtFuncBound[f]]) @@ acc, timed, extern)]
         /\ inStates' = only("in") /\ outStates' = only("out") /\ returnStates' = only("return")
         /\ callStates' = [i \in ReachedCalls |-> {id(<<"call", i>>)}]
         /\ failed' = (unfit \/ \E x \in InsideBlocks : states[x[2]] = {} \/ \E s \in states[x[1]] : s.time # Neutral)
  /\ phase' = "finish"
  /\ UNCHANGED <<option, explored, todo, cursor>>

Begin ==
  /\ phase = "begin" /\ phase' = "explore" /\ StartExploration
  /\ UNCHANGED <<g, inStates, outStates, callStates, returnStates, todo, cursor, failed>>
ExploreStates == phase = "explore" /\ Explore /\ UNCHANGED construction

InitConstruction ==
  /\ InitExploration
  /\ phase = "begin" /\ g = EmptyGraph /\ failed = FALSE /\ cursor = NoCursor /\ todo = {}
  /\ inStates = <<>> /\ outStates = <<>> /\ callStates = <<>> /\ returnStates = <<>>

Construct == Begin \/ ExploreStates \/ CollectInOutStates \/ EnterBlock \/ ProgressState \/ ReleaseWaiting
             \/ BuildIntraBasicBlockEdges \/ BuildInterBasicBlockEdges \/ BuildInsensitiveGraph
=============================================================================
