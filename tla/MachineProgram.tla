----------------------------- MODULE MachineProgram -----------------------------
(***************************************************************************)
(* The program under analysis as the compiler hands it over: instructions, *)
(* basic blocks and functions, with the loops and the call graph that the  *)
(* analyses derive from them.  Blocks are numbered in the order of         *)
(* mbbComp; control is passed by the branches of a block, or falls through *)
(* to its layout successor.                                                *)
(***************************************************************************)
EXTENDS Integers, Sequences, FiniteSets, FiniteSetsExt, SequencesExt

CONSTANTS Instr,       \* Instr[i]: the instruction at i
          Block,       \* Block[b]: [func, first, last, succs, layout]
          Loop,        \* Loop[l]: [header, blocks]
          Entry        \* Entry[f]: the first block of the function f

None == 0
Instrs == DOMAIN Instr
Blocks == DOMAIN Block
Loops == DOMAIN Loop
Functions == DOMAIN Entry
EntryPoint == Block[Min(Blocks)].func

ASSUME ProgramAssumption ==
  /\ None \notin Instrs \cup Blocks \cup Loops
  /\ \A b \in Blocks :
       /\ Block[b].func \in Functions /\ Block[b].first <= Block[b].last
       /\ Block[b].first .. Block[b].last \subseteq Instrs
       /\ Block[b].succs \subseteq Blocks
       /\ Block[b].layout \in Block[b].succs \cup {None}
  /\ \A f \in Functions : Block[Entry[f]].func = f /\ \A b \in Blocks : Entry[f] \notin Block[b].succs
  /\ \A l \in Loops : Loop[l].header \in Loop[l].blocks /\ Loop[l].blocks \subseteq Blocks

BlockOf(i) == CHOOSE b \in Blocks : i \in Block[b].first .. Block[b].last
InstrsOf(b) == [n \in 1 .. Block[b].last - Block[b].first + 1 |-> Block[b].first + n - 1]
FuncOf(i) == Block[BlockOf(i)].func

-----------------------------------------------------------------------------
(* Loops.  A loop with more blocks than another one contains or follows it: *)
(* the loops of a function are annotated from the outside in.               *)

Edges == {e \in Blocks \X Blocks : e[2] \in Block[e[1]].succs}
EntersHeader(e, l) == e[2] = Loop[l].header
IncomingEdges(l) == {e \in Edges : EntersHeader(e, l) /\ e[1] \notin Loop[l].blocks}
BackEdges(l) == {e \in Edges : EntersHeader(e, l) /\ e[1] \in Loop[l].blocks}
ExitingEdges(l) == {e \in Edges : e[1] \in Loop[l].blocks /\ e[2] \notin Loop[l].blocks}
OuterFirst(loops) ==
  SetToSortSeq(loops, LAMBDA k, l : Cardinality(Loop[k].blocks) > Cardinality(Loop[l].blocks))

-----------------------------------------------------------------------------
(* Call graph *)

IsCall(i) == Instr[i].op \in {"bl", "blx"}

\* A callee in a register is unknown; so is one without a definition.
CallsExternal(i) == Instr[i].op = "blx" \/ Instr[i].callee \notin Functions
PotentialCallees(i) == IF CallsExternal(i) THEN {} ELSE {Instr[i].callee}
CallSites(f) == {i \in Instrs : IsCall(i) /\ f \in PotentialCallees(i)}
CallSitesInMBB(b) == {i \in Block[b].first .. Block[b].last : IsCall(i)}

\* The functions that calls from fs reach.
CalledFrom(fs) ==
  UNION {PotentialCallees(i) : i \in {j \in Instrs : IsCall(j) /\ FuncOf(j) \in fs}}

-----------------------------------------------------------------------------
(* Branches *)

IsBranch(i) == Instr[i].op \in {"b", "bcc", "jt"}
IsConditionalBranch(i) == Instr[i].op = "bcc"
IsUnconditionalBranch(i) == Instr[i].op = "b"
IsReturn(i) == Instr[i].op \in {"bx_ret", "ldmia_ret"}
IsPredicated(i) == Instr[i].pred
BranchTargets(i) == Instr[i].targets
=============================================================================
