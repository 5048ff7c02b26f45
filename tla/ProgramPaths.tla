------------------------------ MODULE ProgramPaths ------------------------------
(***************************************************************************)
(* The program that runs: where it is, and the calls, functions and loop   *)
(* iterations it came there through.  Contexts tell the newest of them.    *)
(***************************************************************************)
EXTENDS Contexts

CONSTANTS MaxCount      \* bound of the model: iterations are counted so far

VARIABLES at,           \* the instruction the program has reached, None at its end
          path          \* how it came there: calls and counted loops

AtProgramStart == at = Block[Entry[EntryPoint]].first /\ path = <<FunCallee(EntryPoint)>>

\* All loops are counted, and left with the token of the call they belong to.
PathAlongEdge(e) ==
  LET left == Cardinality({l \in Loops : e \in ExitingEdges(l)})
      inside == SubSeq(path, 1, Len(path) - left)
      entered == OuterFirst({l \in Loops : e \in IncomingEdges(l)})
      counted == IF HasBackedge(Last(inside), e)
                 THEN [inside EXCEPT ![Len(inside)].count = Min({@ + 1, MaxCount})] ELSE inside
  IN  counted \o [n \in DOMAIN entered |-> LoopPeel(entered[n], 0)]

GoTo(b, target) == at' = Block[target].first /\ path' = PathAlongEdge(<<b, target>>)
GoOn(b) == IF at < Block[b].last THEN at' = at + 1 /\ UNCHANGED path ELSE GoTo(b, Block[b].layout)

LastCall == LET calls == {n \in DOMAIN path : path[n].type = "CALLSITE"}
            IN  IF calls = {} THEN None ELSE Max(calls)
Return ==
  IF LastCall = None THEN at' = None /\ path' = <<>>
  ELSE at' = path[LastCall].call + 1 /\ path' = SubSeq(path, 1, LastCall - 1)

\* A call is never the last instruction of a block.
Call(i) ==
  LET f == CHOOSE g \in PotentialCallees(i) : TRUE
  IN  at' = Block[Entry[f]].first /\ path' = path \o <<CallSite(i), FunCallee(f)>>

-----------------------------------------------------------------------------
\* Of the calls, functions and loop iterations on the way, a context tells the
\* newest ones.
Happened(t, s) ==
  CASE IsLoopToken(t) -> /\ s.loop = t.loop
                         /\ IF t.type = "LOOPPEEL" THEN s.count = t.count ELSE s.count >= t.count
    [] OTHER -> s = t
OfTypes(ctx, types) == SelectSeq(ctx, LAMBDA t : t.type \in types)
Describes(ctx) ==
  \A types \in {{"LOOPPEEL", "LOOPITER"}, {"CALLSITE"}, {"FUNCALLEE"}} :
    LET told == OfTypes(ctx, types)
        steps == OfTypes(path, types)
    IN  /\ Len(told) <= Len(steps)
        /\ \A n \in DOMAIN told : Happened(told[n], steps[Len(steps) - Len(told) + n])
=============================================================================
