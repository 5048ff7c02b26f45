----------------------------- MODULE FlowConstraints -----------------------------
(***************************************************************************)
(* The constraints on the paths through a state graph that the integer     *)
(* program is made of.  For runs of the program there is a variable for    *)
(* how often an edge is taken; for arbitrary paths (the general mode) an   *)
(* edge may also be the start or the end of the path.  A constraint is     *)
(* [lhs, type, rhs], where lhs gives the variables their coefficients; of  *)
(* a constraint on a loop it is noted whether it lacks edges in which a    *)
(* path may start or end.                                                  *)
(***************************************************************************)
EXTENDS StateGraph

CONSTANTS UpperLoopBound, LowerLoopBound  \* how often the back edges of a loop are taken, for loops with a bound

Var(type, E) == {<<type, e>> : e \in E}
NoVars == <<>>
Each(vars, c) == [x \in vars |-> c]
CoefficientOf(lhs, x) == IF x \in DOMAIN lhs THEN lhs[x] ELSE 0
Plus(f, h) == [x \in DOMAIN f \cup DOMAIN h |-> CoefficientOf(f, x) + CoefficientOf(h, x)]

GreaterEqual(lhs, n) == [lhs |-> lhs, type |-> "GreaterEqual", rhs |-> n, lacksEdges |-> FALSE]
LessEqual(lhs, n) == [lhs |-> lhs, type |-> "LessEqual", rhs |-> n, lacksEdges |-> FALSE]
Equal(lhs, n) == [lhs |-> lhs, type |-> "Equal", rhs |-> n, lacksEdges |-> FALSE]
Fulfils(value, c) ==
  CASE c.type = "GreaterEqual" -> value >= c.rhs
    [] c.type = "LessEqual" -> value <= c.rhs
    [] OTHER -> value = c.rhs

Into(vs) == {e \in g.edges : e[2] \in vs}
OutOf(vs) == {e \in g.edges : e[1] \in vs}
InStatesOf(b) == UNION {Range(inStates[k]) : k \in {l \in DOMAIN inStates : l[1] = b}}
OutStatesOf(b) == UNION {Range(outStates[k]) : k \in {l \in DOMAIN outStates : l[1] = b}}
CallStatesOf(i) == At(callStates, i)
ReturnStatesOf(i) == UNION {Range(returnStates[k]) : k \in {l \in DOMAIN returnStates : l[1] = i}}

-----------------------------------------------------------------------------
(* What enters a vertex leaves it, except where the path starts or ends.   *)

InFlowEqualsOutFlow(v, general) ==
  LET taken == Plus(Each(Var("timesTaken", Into({v})), -1), Each(Var("timesTaken", OutOf({v})), 1))
      ends == Plus(Each(Var("isEnd", Into({v})), 1), Each(Var("isStart", OutOf({v})), -1))
      atMostTaken(type, e) == GreaterEqual(Plus(Each(Var("timesTaken", {e}), 1), Each(Var(type, {e}), -1)), 0)
  IN  IF general THEN {Equal(Plus(taken, ends), 0)} \cup {atMostTaken(type, e) : type \in {"isStart", "isEnd"}, e \in Into({v})}
      ELSE {Equal(taken, 0)}

-----------------------------------------------------------------------------
(* GetEdges: the edges that a path may be inside of a loop or a call on.   *)

InsideProgramRuns == {e \in g.edges : Outside \notin {e[1], e[2]}}

\* The edges on the way from some edges to others, without a restart of the program.
RECURSIVE EdgesFrom(_, _, _)
EdgesFrom(vs, found, stop) ==
  LET new == {e \in OutOf(vs) : e[2] # Outside} \ found
  IN  IF new = {} THEN found ELSE EdgesFrom({e[2] : e \in new \ stop}, found \cup new, stop)
EdgesBetween(E, F) == EdgesFrom({e[2] : e \in E}, {}, E \cup F)

BetweenInOutReachableSimple(E, F) == EdgesBetween(E, F)
BetweenInOutReachableSimplePlus(E, F) ==
  LET found == EdgesBetween(E, F) IN IF found \cap E = {} THEN found \ F ELSE found
BetweenInOutReachableDetailed(E, F) ==
  LET found == EdgesBetween(E, F)
      again == EdgesBetween(found \cap E, F)
  IN  (found \ F) \cup (IF found \cap E = {} THEN {} ELSE (again \ E))

GetInnerEdges(method, E, F) ==
  CASE method = "all" -> g.edges
    [] method = "insideProgramRuns" -> InsideProgramRuns
    [] method = "betweenInOutReachableSimple" -> BetweenInOutReachableSimple(E, F)
    [] method = "betweenInOutReachableSimplePlus" -> BetweenInOutReachableSimplePlus(E, F)
    [] method = "betweenInOutReachableDetailed" -> BetweenInOutReachableDetailed(E, F)

\* isFunctionPotentiallyReachableFrom(): from the blocks of a function.  Only direct
\* recursion is found: for the callees it looks at the calls to them, not by them.
PotentiallyReachableFrom(f, fs) == f \in CalledFrom(fs)

-----------------------------------------------------------------------------
(* Loops: the back edges are taken a bounded number of times per entry, in *)
(* each of the contexts that the function of the loop runs in.             *)

EntersFromOutside(l) ==
  UNION {OutStatesOf(b) : b \in {c \in Blocks \ Loop[l].blocks : Loop[l].header \in Block[c].succs}}
HeaderContexts(l) == {CleanToFunCall(g.ctx[v]) : v \in InStatesOf(Loop[l].header)}
HeaderEdges(l, ctx) == Into({v \in InStatesOf(Loop[l].header) : CleanToFunCall(g.ctx[v]) = ctx})
EntryEdges(l, ctx) == {e \in HeaderEdges(l, ctx) : e[1] \in EntersFromOutside(l)}
BackEdgesInGraph(l, ctx) == HeaderEdges(l, ctx) \ EntryEdges(l, ctx)

LoopBoundLhs(l, ctx, bound) ==
  Plus(Each(Var("timesTaken", EntryEdges(l, ctx)), bound), Each(Var("timesTaken", BackEdgesInGraph(l, ctx)), -1))
LoopExits(l) ==
  UNION {{e \in g.edges : e[1] \in OutStatesOf(b) /\ \E t \in Block[b].succs \ Loop[l].blocks : e[2] \in InStatesOf(t)} :
           b \in Loop[l].blocks}

\* What was found for the first context is kept for the others, although the edges
\* inside of the loop are others there.
InsideLoopIn(l, ctx) == GetInnerEdges(option.innerEdges, EntryEdges(l, ctx), LoopExits(l))
InsideLoop(l) == InsideLoopIn(l, CHOOSE c \in HeaderContexts(l) : TRUE)
LacksEdges(l, ctx) == ~(InsideLoopIn(l, ctx) \subseteq InsideLoop(l))
Noting(c, lacks) == [c EXCEPT !.lacksEdges = lacks]
NestsItself(l) == LET f == Block[Loop[l].header].func IN PotentiallyReachableFrom(f, {f})

\* A path that starts or ends inside may have taken the back edges of one entry less.
UpperLoopConstraint(l, ctx, general) ==
  IF general THEN Noting(GreaterEqual(Plus(LoopBoundLhs(l, ctx, UpperLoopBound[l]),
                                           Each(Var("isStart", InsideLoop(l)), UpperLoopBound[l])), 0), LacksEdges(l, ctx))
  ELSE GreaterEqual(LoopBoundLhs(l, ctx, UpperLoopBound[l]), 0)
LowerLoopConstraint(l, ctx, general) ==
  IF general THEN Noting(LessEqual(Plus(LoopBoundLhs(l, ctx, LowerLoopBound[l]),
                                        Each(Var("isEnd", InsideLoop(l)), -LowerLoopBound[l])), 0), LacksEdges(l, ctx))
  ELSE LessEqual(LoopBoundLhs(l, ctx, LowerLoopBound[l]), 0)

\* The iteration a back edge leaves is told by the newest token of its loop.
IterationOf(e, l) ==
  LET ctx == g.ctx[e[1]]
  IN  ctx[Max({n \in DOMAIN ctx : IsLoopToken(ctx[n]) /\ ctx[n].loop = l})].count
BackEdgesOfIteration(l, ctx, n) == {e \in BackEdgesInGraph(l, ctx) : IterationOf(e, l) = n}

\* Mutant: the iterations that were peeled off are allowed once more.
PeeledLoopConstraintsWithoutPeel(l, ctx) ==
  {GreaterEqual(Plus(Each(Var("timesTaken", BackEdgesOfIteration(l, ctx, n)), 0),
                     Each(Var("timesTaken", BackEdgesOfIteration(l, ctx, n + 1)), -1)), 0) :
     n \in {m \in 0 .. option.loopPeel - 1 : m < UpperLoopBound[l]}}

\* Back edges of later iterations are taken after those of earlier ones.
PeeledLoopConstraints(l, ctx) ==
  LET times(n) == IF n = option.loopPeel - 1 THEN UpperLoopBound[l] - option.loopPeel ELSE 1
  IN  {GreaterEqual(Plus(Each(Var("timesTaken", BackEdgesOfIteration(l, ctx, n)), times(n)),
                         Each(Var("timesTaken", BackEdgesOfIteration(l, ctx, n + 1)), -1)), 0) :
         n \in {m \in 0 .. option.loopPeel - 1 : m < UpperLoopBound[l]}}

LoopConstraints(l, general) ==
  IF general /\ NestsItself(l) THEN {}
  ELSE UNION {(IF l \in DOMAIN UpperLoopBound THEN {UpperLoopConstraint(l, ctx, general)} ELSE {}) \cup
              (IF l \in DOMAIN LowerLoopBound THEN {LowerLoopConstraint(l, ctx, general)} ELSE {}) \cup
              (IF l \in DOMAIN UpperLoopBound /\ ~general /\ ~option.insensitive THEN PeeledLoopConstraints(l, ctx) ELSE {}) :
                ctx \in HeaderContexts(l)}

-----------------------------------------------------------------------------
(* Calls: from each call the program returns as often as it is made.       *)

CallsMinusReturns(i) ==
  Plus(Each(Var("timesTaken", OutOf(CallStatesOf(i))), 1), Each(Var("timesTaken", Into(ReturnStatesOf(i))), -1))
InsideCall(i) == GetInnerEdges(option.innerEdges, OutOf(CallStatesOf(i)), Into(ReturnStatesOf(i)))
Recursive(i) == LET f == FuncOf(i) IN f \in PotentialCallees(i) \/ PotentiallyReachableFrom(f, PotentialCallees(i))

\* Mutant: a path may not end inside of a call.
CallReturnConstraintsOfRuns(i, general) == {Equal(CallsMinusReturns(i), 0)}

\* A path may end inside of a call that it has entered, and start in one that it leaves.
CallReturnConstraints(i, general) ==
  IF ~general THEN {Equal(CallsMinusReturns(i), 0)}
  ELSE IF Recursive(i) THEN {}
  ELSE {LessEqual(Plus(CallsMinusReturns(i), Each(Var("isEnd", InsideCall(i)), -1)), 0),
        GreaterEqual(Plus(CallsMinusReturns(i), Each(Var("isStart", InsideCall(i)), 1)), 0)}

\* A run starts once, and idles never; a path has at most one start and one end.
StartConstraints(general) ==
  IF ~general THEN {Equal(Each(Var("timesTaken", OutOf({Outside}) \ {<<Outside, Outside>>}), 1), 1),
                    Equal(Each(Var("timesTaken", {<<Outside, Outside>>}), 1), 0)}
  ELSE {LessEqual(Each(Var("isStart", g.edges), 1), 1), GreaterEqual(Each(Var("isEnd", g.edges), -1), -1),
        Equal(Plus(Each(Var("isStart", g.edges), 1), Each(Var("isEnd", g.edges), -1)), 0)}

\* The flow through the other vertices is that of any path.
Constraints(general) ==
  UNION {LoopConstraints(l, general) : l \in {m \in Loops : InStatesOf(Loop[m].header) # {}}} \cup
  UNION {CallReturnConstraints(i, general) : i \in {j \in Instrs : IsCall(j)}} \cup
  InFlowEqualsOutFlow(Outside, general) \cup StartConstraints(general)
=============================================================================
