--------------------------- MODULE StateGraphExecution ---------------------------
(***************************************************************************)
(* The program runs on the core that the state graph was made for.  From   *)
(* basic block to basic block, and around calls, it is followed along the  *)
(* edges of the graph; a step follows all the edges up to the next state   *)
(* on entry to a block or behind a call.                                   *)
(***************************************************************************)
EXTENDS FlowConstraints, ProgramPaths

CONSTANTS Options       \* the command lines to be considered, with two bounds of the model: the number of
                        \* runs, and the instructions that a path may start on the way to

VARIABLES steps,        \* the steps the graph allows
          place,        \* place[v]: the instruction and the context of a state on entry
          bounds,       \* the constraints on runs and on paths, without their left hand sides
          time,         \* since the last state on entry
          runs,         \* how often the program has been started
          open,         \* a path that began in some run goes on
          longest,      \* where the program may be, along edges that take long enough,
          shortest      \* and along edges that take no longer

followed == <<steps, place, bounds>>
program == <<at, path, time, runs, open, longest, shortest>>
vars == <<option, explored, construction, followed, program>>

-----------------------------------------------------------------------------
(* Steps *)

PlaceOf(v) ==
  IF \E k \in DOMAIN inStates : v \in Range(inStates[k])
  THEN Block[(CHOOSE k \in DOMAIN inStates : v \in Range(inStates[k]))[1]].first
  ELSE (CHOOSE k \in DOMAIN returnStates : v \in Range(returnStates[k]))[1] + 1
Ids(states) == UNION {Range(states[k]) : k \in DOMAIN states}
Places == [v \in Ids(inStates) \cup Ids(returnStates) |-> [at |-> PlaceOf(v), ctx |-> g.ctx[v]]]
EntryVertices == DOMAIN Places

\* Paths that end at the next vertex on entry.
RECURSIVE PathsUpTo(_, _)
PathsUpTo(paths, ends) ==
  LET going == {p \in paths : Last(p)[2] \notin ends}
      longer == UNION {{Append(p, e) : e \in OutOf({Last(p)[2]})} : p \in going}
  IN  IF longer = {} THEN paths \ going ELSE (paths \ going) \cup PathsUpTo(longer, ends)

WeightOf(e) == IF e \in DOMAIN g.weight THEN g.weight[e] ELSE Neutral

\* What edges contribute to the left hand sides of a sequence of constraints.
Contribution(cs, type, p) ==
  [n \in DOMAIN cs |-> FoldLeft(LAMBDA sum, e : sum + CoefficientOf(cs[n].lhs, <<type, e>>), 0, p)]

\* The edges up to the last one on which time passes.
Lasting(p) == LET ns == {n \in DOMAIN p : WeightOf(p[n]) # Neutral} IN IF ns = {} THEN p ELSE SubSeq(p, 1, Max(ns))
Difference(x, y) == [n \in DOMAIN x |-> x[n] - y[n]]

\* A path need not go on where no time passes: end makes it end before that.
Step(p, cs, gs) ==
  [from |-> p[1][1], to |-> Last(p)[2],
   lb |-> FoldLeft(LAMBDA sum, e : sum + WeightOf(e).lb, 0, p),
   ub |-> FoldLeft(LAMBDA sum, e : sum + WeightOf(e).ub, 0, p),
   run |-> Contribution(cs, "timesTaken", p), taken |-> Contribution(gs, "timesTaken", p),
   start |-> Contribution(gs, "isStart", <<p[1]>>),
   end |-> Difference(Contribution(gs, "isEnd", <<Last(Lasting(p))>>),
                      Contribution(gs, "timesTaken", SubSeq(p, Len(Lasting(p)) + 1, Len(p))))]

Zero(cs) == [n \in DOMAIN cs |-> 0]
AtOutside(bs) ==
  {[v |-> Outside, run |-> Zero(bs.run), path |-> Zero(bs.path), end |-> Zero(bs.path)]}

\* The graph is complete; what the program needs of it is kept.
StartProgram ==
  /\ phase = "finish"
  /\ LET cs == Listed(Constraints(FALSE))
         gs == IF option.windows # {} THEN Listed(Constraints(TRUE)) ELSE <<>>
         ends == EntryVertices \cup {Outside}
     IN  /\ steps' = {Step(p, cs, gs) : p \in PathsUpTo({<<e>> : e \in OutOf(ends) \ {<<Outside, Outside>>}}, ends)}
         /\ bounds' = [run |-> [n \in DOMAIN cs |-> [cs[n] EXCEPT !.lhs = NoVars]],
                       path |-> [n \in DOMAIN gs |-> [gs[n] EXCEPT !.lhs = NoVars]]]
  /\ place' = Places
  /\ longest' = AtOutside(bounds') /\ shortest' = longest'
  /\ phase' = "run" /\ g' = EmptyGraph /\ inStates' = <<>> /\ outStates' = <<>> /\ callStates' = <<>> /\ returnStates' = <<>>
  /\ into' = <<>> /\ called' = <<>> /\ returned' = <<>> /\ out' = <<>> /\ afterCall' = <<>>
  /\ UNCHANGED <<option, ins2ctx, work, unfit, todo, cursor, failed, at, path, time, runs, open>>

-----------------------------------------------------------------------------
(* The program *)

Add(x, y) == [n \in DOMAIN x |-> x[n] + y[n]]

\* A state on entry is where the program is if its context tells how it came there.
\* The vertices of an insensitive graph have no context.
FitsPlace(v) ==
  IF at' = None THEN v = Outside
  ELSE v # Outside /\ place[v].at = at' /\ (option.insensitive \/ \E ctx \in {place[v].ctx} : Describes(ctx)')

Follow(p, s, starts) ==
  [v |-> s.to, run |-> Add(p.run, s.run), path |-> IF starts THEN Add(s.taken, s.start) ELSE IF open THEN Add(p.path, s.taken) ELSE p.path,
   end |-> s.end]
Following(positions, allowed(_), starts) ==
  {Follow(x[1], x[2], starts) :
     x \in {y \in positions \X {s \in steps : allowed(s) /\ FitsPlace(s.to)} : y[1].v = y[2].from}}

MayStart == IF ~open /\ at' \in option.windows THEN BOOLEAN ELSE {FALSE}

\* The program enters a block, or comes back from a call, t cycles after the last time.
Arrive(t) ==
  /\ time' = 0
  /\ \E starts \in MayStart :
       /\ open' = (open \/ starts)
       /\ longest' = Following(longest, LAMBDA s : s.ub >= t, starts)
       /\ shortest' = Following(shortest, LAMBDA s : s.lb <= t, starts)

\* Every run is judged by itself.
Again(positions) == {[p EXCEPT !.run = Zero(bounds.run)] : p \in positions}

Launch ==
  /\ phase = "run" /\ at = None /\ runs < option.runs
  /\ at' = Block[Entry[EntryPoint]].first /\ path' = <<FunCallee(EntryPoint)>>
  /\ runs' = runs + 1 /\ time' = 0
  /\ \E starts \in MayStart :
       /\ open' = (open \/ starts)
       /\ longest' = Following(Again(longest), LAMBDA s : TRUE, starts)
       /\ shortest' = Following(Again(shortest), LAMBDA s : TRUE, starts)
  /\ UNCHANGED <<option, explored, construction, followed>>

\* Loops keep their bounds.
CountOf(l) == path[Max({n \in DOMAIN path : IsLoopToken(path[n]) /\ path[n].loop = l})].count
KeepsBounds(e) ==
  /\ \A l \in {m \in DOMAIN UpperLoopBound : e \in BackEdges(m)} : CountOf(l) < UpperLoopBound[l]
  /\ \A l \in {m \in DOMAIN LowerLoopBound : e \in ExitingEdges(m)} : CountOf(l) >= LowerLoopBound[l]

\* Where an instruction may lead to other than the next one of its block.
Leave(i, b) ==
  \/ IsReturn(i) /\ Return
  \/ \E t \in IF IsBranch(i) THEN BranchTargets(i) ELSE {} : KeepsBounds(<<b, t>>) /\ GoTo(b, t)
  \/ /\ i = Block[b].last /\ Block[b].layout # None /\ (IsBranch(i) => IsConditionalBranch(i)) /\ (IsReturn(i) => IsPredicated(i))
     /\ KeepsBounds(<<b, Block[b].layout>>) /\ GoTo(b, Block[b].layout)

Execute ==
  /\ phase = "run" /\ at # None
  /\ \E d \in DurationsOf(at) :
       LET b == BlockOf(at)
           t == time + 1 + d
       IN  \/ /\ IsCall(at) /\ ~CallsExternal(at) /\ Call(at) /\ Arrive(t)
           \/ /\ IsCall(at) /\ CallsExternal(at) /\ at' = at + 1 /\ UNCHANGED path
              /\ \E more \in {0, ExtFuncBound[ExternalCallee(at)]} : Arrive(t + more)
           \/ /\ ~IsCall(at) /\ Leave(at, b) /\ Arrive(t)
           \/ /\ ~IsCall(at) /\ at # Block[b].last /\ (IsBranch(at) => IsConditionalBranch(at)) /\ (IsReturn(at) => IsPredicated(at))
              /\ at' = at + 1 /\ time' = t /\ UNCHANGED <<path, open, longest, shortest>>
  /\ UNCHANGED <<option, explored, construction, followed, runs>>

Finished == phase = "run" /\ at = None /\ runs = option.runs /\ UNCHANGED vars

Init ==
  /\ option \in Options
  /\ InitConstruction
  /\ steps = {} /\ place = <<>> /\ bounds = [run |-> <<>>, path |-> <<>>]
  /\ at = None /\ path = <<>> /\ time = 0 /\ runs = 0 /\ open = FALSE /\ longest = {} /\ shortest = {}

Next ==
  \/ Construct /\ UNCHANGED <<followed, program>>
  \/ StartProgram \/ Launch \/ Execute \/ Finished

Spec == Init /\ [][Next]_vars

-----------------------------------------------------------------------------
\* Going through the blocks again, every state that comes out is one that the
\* analysis has found, no state is left over, and every call, every end of a block
\* and every return has a successor.
GraphBuilt == ~failed

\* "Remembers the returnStates. (And later add edges to them from the outs of
\* callee)": the states behind a call are reached from somewhere.  It does not hold
\* of indirect calls (IndirectInstrs).
CallsReturn ==
  phase = "finish" => \A k \in DOMAIN returnStates : \A v \in Range(returnStates[k]) : \E e \in Into({v}) : e[1] # v

\* However the program runs, the graph has a path along which no step takes less
\* than the program, and one along which none takes more.
ExecutionsBounded == phase = "run" => longest # {} /\ shortest # {}

\* When a run is over, these paths fulfil the constraints on runs.
FulfilAll(values, cs) == \A n \in DOMAIN cs : Fulfils(values[n], cs[n])
RunsFulfilConstraints ==
  phase = "run" /\ at = None =>
    \A positions \in {longest, shortest} : runs > 0 =>
      \E p \in positions : FulfilAll(p.run, bounds.run)

\* Whatever part of a run, or of several runs, is looked at, these paths fulfil the
\* constraints on paths, those on a loop left out that lack edges because what is inside
\* of it was found for another context.  They do not hold.
PathsFulfilConstraints ==
  phase = "run" /\ open =>
    \A positions \in {longest, shortest} :
      \E p \in positions :
        \A n \in DOMAIN bounds.path : bounds.path[n].lacksEdges \/ Fulfils(p.path[n] + p.end[n], bounds.path[n])
=============================================================================
