------------------------------ MODULE LruMinAge ------------------------------
(***************************************************************************)
(* LruMinAgeAbstractCache, the may analysis of one LRU set: a vector of    *)
(* tags with a lower bound on their age, and one bound for all the tags    *)
(* the vector does not hold.                                               *)
(***************************************************************************)
EXTENDS AgeVectors

CONSTANT MaxWorthwhileTags   \* 4 in the code

ASSUME WorthwhileAssumption == MaxWorthwhileTags \in Nat

MayInit(assumeAnEmptyCache) ==
  [explicit |-> << >>, implicit |-> IF assumeAnEmptyCache THEN Assoc ELSE 0]

MinAge(s, t) ==
  LET pos == Position(s.explicit, t)
  IN  IF pos = 0 THEN s.implicit ELSE s.explicit[pos].age

\* Mutant: a miss is claimed one access too early.
MayClassifyEarly(s, t, cnn) ==
  IF s.implicit + cnn + 1 < Assoc THEN "UNKNOWN"
  ELSE IF t \in TagsOf(s.explicit) /\ MinAge(s, t) + cnn < Assoc
       THEN "UNKNOWN" ELSE "MISS"

MayClassify(s, t, cnn) ==
  IF s.implicit + cnn < Assoc THEN "UNKNOWN"
  ELSE IF t \in TagsOf(s.explicit) /\ MinAge(s, t) + cnn < Assoc
       THEN "UNKNOWN" ELSE "MISS"

\* A tag whose bound is not below the implicit one need not be explicit.
RemoveRedundantTags(s) ==
  [s EXCEPT !.explicit = YoungerThan(@, s.implicit)]

\* Not found, or found at the last age: everything younger than the last age
\* moves one to the right and ages, the rest is dropped.
UpdateAtBack(v, t) == <<EntryOf(t, 0)>> \o AgeBy(Young(v), 1)

\* The entries from lo to hi are settled, from the back.
SettleUpTo(v, hi, lo) == FoldLeft(Settle, v, Downto(hi, lo))

\* Found before: the younger entries and those of the accessed age (a run
\* around pos) age by one; the latter are merged into the next age.
UpdateInside(v, pos) ==
  LET peers == {i \in DOMAIN v : \A k \in DOMAIN v :
                  (k <= i /\ k >= pos) \/ (k >= i /\ k <= pos) => v[k].age = v[pos].age}
      lower == Min(peers)
      upper == Max(peers)
      aged == <<EntryOf(v[pos].tag, 0)>>
                \o AgeBy(SubSeq(v, 1, pos - 1), 1) \o AgeBy(SubSeq(v, pos + 1, upper), 1)
                \o SubSeq(v, upper + 1, Len(v))
  IN  SettleUpTo(aged, upper, lower + 1)

MayUpdate(s, t) ==
  LET v == s.explicit
      pos == Position(v, t)
      accessedAge == MinAge(s, t)
      implicit == IF s.implicit <= accessedAge /\ s.implicit < Assoc
                  THEN s.implicit + 1 ELSE s.implicit
      explicit == IF pos = 0 \/ accessedAge = Assoc - 1
                  THEN UpdateAtBack(v, t) ELSE UpdateInside(v, pos)
  IN  RemoveRedundantTags([explicit |-> explicit, implicit |-> implicit])

\* Mutant: an access to an imprecise address is ignored.
MayPotentialUpdateNone(s, low, high) == s

\* The entries of the tags that are not among low .. high.
Others(v, low, high) ==
  LET others[i \in 0 .. Len(v)] ==
        IF i = 0 THEN << >>
        ELSE IF v[i].tag \in low .. high THEN others[i - 1] ELSE Append(others[i - 1], v[i])
  IN  others[Len(v)]

\* An access to an address whose tag is one of low .. high: these go before the first
\* entry that is older or of a greater tag.
MayPotentialUpdate(s, low, high) ==
  LET new == [i \in 1 .. high - low + 1 |-> EntryOf(low + i - 1, 0)]
      others == Others(s.explicit, low, high)
      before == Max({0} \cup {i \in DOMAIN others : others[i].age = 0 /\ others[i].tag < low})
  IN  IF s.implicit = 0 THEN s
      ELSE IF high - low + 1 > MaxWorthwhileTags THEN MayInit(FALSE)
      ELSE [s EXCEPT !.explicit = SubSeq(others, 1, before) \o new
                                    \o SubSeq(others, before + 1, Len(others))]

\* The next entry to visit is the lesser one of the two states'.
IsLesser(x, y) == ~Precedes(y, x)

\* The entries of both vectors are visited from the least up; one is kept when
\* its tag has not been visited in the other vector.
MayJoin(s, r) ==
  LET x == s.explicit
      y == r.explicit
      joined[at \in (1 .. Len(x) + 1) \X (1 .. Len(y) + 1)] ==
        LET i == at[1]
            j == at[2]
            fromX == i <= Len(x) /\ (j > Len(y) \/ IsLesser(x[i], y[j]))
            kept == IF fromX THEN x[i] ELSE y[j]
            seen == IF fromX THEN TagsOf(SubSeq(y, 1, j - 1)) ELSE TagsOf(SubSeq(x, 1, i - 1))
            rest == joined[IF fromX THEN <<i + 1, j>> ELSE <<i, j + 1>>]
        IN  IF i > Len(x) /\ j > Len(y) THEN << >>
            ELSE IF kept.tag \in seen THEN rest ELSE <<kept>> \o rest
      implicit == IF s.implicit <= r.implicit THEN s.implicit ELSE r.implicit
  IN  RemoveRedundantTags([explicit |-> joined[<<1, 1>>], implicit |-> implicit])

MayLessEqual(s, r) == MayJoin(s, r) = r
=============================================================================
