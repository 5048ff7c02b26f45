----------------------------- MODULE LruAnalysis -----------------------------
(***************************************************************************)
(* The analysis of one cache set that a memory topology holds for a cache  *)
(* level: CompositionalAbstractCache over the must and the may analysis,   *)
(* with the classifications of a hierarchy of two levels.  An access is    *)
(* classified when it starts and the set is updated when it ends, with the *)
(* classification it was started under.                                    *)
(***************************************************************************)
EXTENDS LruMaxAge, LruMinAge

CONSTANT Level   \* T->LEVEL: 1, or 2 for the shared cache behind it

\* Nothing is known of the set, or it holds just the given lines, the youngest
\* first.
UnknownSet == [must |-> MustInit, may |-> MayInit(FALSE)]
KnownSet(lines) ==
  LET v == [i \in DOMAIN lines |-> EntryOf(lines[i], i - 1)]
  IN  [must |-> v, may |-> [explicit |-> v, implicit |-> Assoc]]

ClassifyInSet(set, t) ==
  LET must == MustClassify(set.must, t, 0)
  IN  IF must # "UNKNOWN" THEN must ELSE MayClassify(set.may, t, 0)

\* Whether the update may assume that the line is in this set.
AssumesHit(cl) == cl = "HIT" \/ (Level > 1 /\ cl = "L2HIT")

\* "Full cache and addr not in there, cannot assume a hit".
UpdateAssertion(set, t, cl) ==
  AssumesHit(cl) => t \in TagsOf(set.must) \/ Len(set.must) < Assoc

\* Where the assertion fails the analysis ends; a set that is known exactly,
\* and is not the analysis's, takes the line as on a miss.
UpdateSet(set, t, cl) ==
  [must |-> MustUpdate(set.must, t, AssumesHit(cl) /\ UpdateAssertion(set, t, cl)),
   may |-> MayUpdate(set.may, t)]

JoinSets(set, other) ==
  [must |-> MustJoin(set.must, other.must), may |-> MayJoin(set.may, other.may)]
=============================================================================
