-------------------------- MODULE DirtinessAnalysis --------------------------
(***************************************************************************)
(* DirtinessAnalysis: which lines of a write-back set may be dirty, on top *)
(* of the must and the may analysis of the set.  Every update reports      *)
(* whether a dirty line may have been written back and whether the store   *)
(* may have made a clean line dirty.                                       *)
(***************************************************************************)
EXTENDS LruMaxAge, LruMinAge, Functions

\* A line is CLEAN, DIRTY or UNKNOWN; one that is not in the map is UNKNOWN
\* when implicitDirty is set and CLEAN otherwise.
DirtInit(assumeAnEmptyCache, assumeCleanCache) ==
  [must |-> MustInit, may |-> MayInit(assumeAnEmptyCache),
   implicitDirty |-> ~assumeCleanCache, dirtiness |-> [t \in {} |-> "CLEAN"]]

Implied(d) == IF d.implicitDirty THEN "UNKNOWN" ELSE "CLEAN"
DirtinessOf(d, t) == IF t \in DOMAIN d.dirtiness THEN d.dirtiness[t] ELSE Implied(d)
JoinOf(c, e) == IF c = e THEN c ELSE "UNKNOWN"

DirtClassify(d, t) ==
  LET must == MustClassify(d.must, t, 0)
  IN  IF must # "UNKNOWN" THEN must ELSE MayClassify(d.may, t, 0)

\* The lines of age Assoc - 1, which the next conflict evicts.
Oldest(v) == {t \in TagsOf(v) : MustAge(v, t) = Assoc - 1}

\* The reports of the must and the may analysis about one update.
MustEvicted(d, t, hit) ==
  IF t \in TagsOf(d.must) \/ hit THEN {} ELSE Oldest(d.must)
UnknownsAge(d, t) == d.may.implicit <= MinAge(d.may, t) /\ d.may.implicit < Assoc
JustEvictedUnknowns(d, t) == UnknownsAge(d, t) /\ d.may.implicit + 1 = Assoc
MayEvicted(d, t) ==
  IF /\ t \in TagsOf(d.may.explicit) => MinAge(d.may, t) = Assoc - 1
     /\ d.may.implicit = Assoc \/ JustEvictedUnknowns(d, t)
  THEN Oldest(d.may.explicit) \ {t} ELSE {}

\* Mutant: a line that may have left the cache is no victim.
VictimsForSureOnly(d) == \E t \in DOMAIN d.dirtiness : d.dirtiness[t] = "DIRTY" /\ MustAge(d.must, t) = Assoc

\* A line that is not surely clean may have been evicted.
ExistsDirtyVictim(d) ==
  \/ d.implicitDirty
  \/ \E t \in DOMAIN d.dirtiness : d.dirtiness[t] # "CLEAN" /\ MustAge(d.must, t) = Assoc

\* Mutant: lines that may have left the cache stay dirty for sure.
IncorporateMayOnly(d, mustEvicted, mayEvicted, justEvictedUnknowns) ==
  [d EXCEPT !.dirtiness = Restrict(@, DOMAIN @ \ mayEvicted)]

\* The lines nothing is known about have left the cache: only the lines of the
\* map can be dirty.  A line that may be evicted is no longer surely dirty, and
\* one that is evicted is clean.
Incorporate(d, mustEvicted, mayEvicted, justEvictedUnknowns) ==
  LET known == IF justEvictedUnknowns
               THEN {t \in DOMAIN d.dirtiness :
                       d.dirtiness[t] # "CLEAN" /\ MinAge(d.may, t) < Assoc}
               ELSE DOMAIN d.dirtiness
  IN  [d EXCEPT
         !.implicitDirty = @ /\ ~justEvictedUnknowns,
         !.dirtiness = [t \in known \ mayEvicted |->
                          IF t \in mustEvicted /\ @[t] = "DIRTY" THEN "UNKNOWN" ELSE @[t]]]

\* The assertion of Incorporate: an evicted line is known while others are not.
IncorporateUnreachable(d, t) ==
  MayEvicted(d, t) # {} /\ d.implicitDirty /\ ~JustEvictedUnknowns(d, t)

Tracked(d, ts) == [t \in DOMAIN d.dirtiness \cup ts |-> DirtinessOf(d, t)]

\* The state before the reports are incorporated.
Accessed(d, t, store, hit) ==
  [d EXCEPT !.dirtiness = IF store THEN [Tracked(d, {t}) EXCEPT ![t] = "DIRTY"]
                          ELSE Tracked(d, {t}),
            !.must = MustUpdate(@, t, hit),
            !.may = MayUpdate(@, t)]

DirtUpdate(d, t, store, hit) ==
  Incorporate(Accessed(d, t, store, hit),
              MustEvicted(d, t, hit), MayEvicted(d, t), JustEvictedUnknowns(d, t))

\* The WritebackReport: wbPossible and dirtifyingStore.
DirtReport(d, t, store, hit) ==
  [wbPossible |-> ExistsDirtyVictim(Accessed(d, t, store, hit)),
   dirtifyingStore |-> store /\ DirtinessOf(d, t) # "DIRTY"]

PotentiallyAccessed(d, low, high) ==
  [d EXCEPT !.must = MustPotentialUpdate(@),
            !.may = MayPotentialUpdate(@, low, high)]

\* An access to one of the tags low .. high, or to another set.  The target of a
\* store is lost when the tags are too many to be followed.
DirtPotentialUpdate(d, low, high, store) ==
  LET e == Incorporate(PotentiallyAccessed(d, low, high), Oldest(d.must), {}, FALSE)
      tracked == Tracked(e, low .. high)
  IN  IF high - low + 1 > MaxWorthwhileTags
      THEN IF ~store THEN e
           ELSE [e EXCEPT !.implicitDirty = TRUE,
                          !.dirtiness = Restrict(@, {t \in DOMAIN @ : @[t] # "CLEAN"})]
      ELSE [e EXCEPT !.dirtiness =
              [t \in DOMAIN tracked |-> IF store /\ t \in low .. high
                                        THEN JoinOf(tracked[t], "DIRTY") ELSE tracked[t]]]

DirtPotentialReport(d, low, high, store) ==
  LET aged == PotentiallyAccessed(d, low, high)
      e == Incorporate(aged, Oldest(d.must), {}, FALSE)
  IN  [wbPossible |-> ExistsDirtyVictim(aged),
       dirtifyingStore |->
         store /\ (\/ high - low + 1 > MaxWorthwhileTags
                   \/ \E t \in low .. high : DirtinessOf(e, t) # "DIRTY")]

DirtJoin(d, e) ==
  [must |-> MustJoin(d.must, e.must), may |-> MayJoin(d.may, e.may),
   implicitDirty |-> d.implicitDirty \/ e.implicitDirty,
   dirtiness |-> [t \in DOMAIN d.dirtiness \cup DOMAIN e.dirtiness |->
                    JoinOf(DirtinessOf(d, t), DirtinessOf(e, t))]]

\* checkInvariants(): a dirty line is cached for sure, and one that is not
\* clean may be cached.
CheckInvariants(d) ==
  \A t \in DOMAIN d.dirtiness :
    /\ d.dirtiness[t] = "DIRTY" => MustAge(d.must, t) < Assoc
    /\ d.dirtiness[t] # "CLEAN" => MinAge(d.may, t) < Assoc
=============================================================================
